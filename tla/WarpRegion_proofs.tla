--------------------------- MODULE WarpRegion_proofs ---------------------------
(***************************************************************************)
(* Proofs about WarpRegion, for any nodes, arrays, calls, sites and        *)
(* bounds: types, blocks and the stream whatever the program does (Usage), *)
(* what outputs are compiled from and what is captured under the           *)
(* documented use, or the part of it each needs.                           *)
(*                                                                         *)
(* A step builds its region state as a record, passed from one operator to *)
(* the next; each lemma below says what one of them does to a record that  *)
(* is well formed (RegionOK) and in which the CUDA stream is in capture    *)
(* mode exactly while a captured region is open (StreamOK).                *)
(***************************************************************************)
EXTENDS WarpRegion, SequenceTheorems, TLAPS

RegionRecords ==
    [op : OpenRegions \cup {None}, segs : [Nodes -> Seq(Segments)],
     pending : [Nodes -> Seq(Nat)], begun : [Nodes -> Nat],
     runners : [Nodes -> Seq(Runners)], prov : [Arrays -> Producers],
     stream : BOOLEAN, ok : BOOLEAN]

QueueOK(r) ==
    /\ \A n \in Nodes : r.pending[n] \in Seq(DOMAIN r.segs[n])
    /\ r.op # None /\ r.op.capture => /\ r.pending[r.op.node] # <<>>
                                      /\ r.op.seg = Head(r.pending[r.op.node])

RegionOK(r) == r \in RegionRecords /\ QueueOK(r)

StreamOK(r) ==
    r.stream <=> r.op # None /\ r.op.capture /\ r.op.node \in Exporting

Closers == Sites \cup {FxSite}

-----------------------------------------------------------------------------
(* The operators on records. *)

Owned(r) == r.op # None /\ r.op.owned

LEMMA NoneIsNoRegion == \A o \in OpenRegions : o # None
  BY NoneAssumption

\* A new producer has its type.
LEMMA ProducerTyped ==
    ASSUME NEW n \in Nodes \cup {None}, NEW p \in Nat, NEW k \in Nat, NEW w \in BOOLEAN
    PROVE  Producer(n, p, k, w) \in Producers
  BY DEF Producer, Producers

\* The marker changes the graph and the provenance of arrays, nothing else.
LEMMA MarkerKeeps ==
    ASSUME NEW r, RegionOK(r), NEW o \in OpenRegions, NEW real \in BOOLEAN,
           pass \in [Nodes -> Nat]
    PROVE  /\ RegionOK(Marker(r, o, real))
           /\ Marker(r, o, real).op = r.op
           /\ Marker(r, o, real).stream = r.stream
           /\ Marker(r, o, real).segs = r.segs
           /\ Marker(r, o, real).pending = r.pending
<1> DEFINE m == Marker(r, o, real)
<1>1. CASE o.calls = <<>>
  BY <1>1 DEF Marker
<1>2. CASE o.calls # <<>> /\ Foreign(r, o) # {}
  <2>1. m = [r EXCEPT !.ok = FALSE]
    BY <1>2 DEF Marker
  <2> QED BY <2>1 DEF RegionOK, RegionRecords, QueueOK
<1>3. CASE o.calls # <<>> /\ Foreign(r, o) = {}
  <2> DEFINE run == [seg |-> o.seg, calls |-> o.calls, real |-> real]
             p == Producer(o.node, pass[o.node], o.id, FALSE)
             all == [x \in Arrays |-> IF x \in o.refs THEN p ELSE r.prov[x]]
             rs == [r.runners EXCEPT ![o.node] = Append(@, run)]
  <2>1. m = [r EXCEPT !.runners = rs, !.prov = all]
    BY <1>3 DEF Marker, RegionOK, RegionRecords
  <2>2. run \in Runners /\ p \in Producers
    BY ProducerTyped DEF Runners, OpenRegions
  <2>3. rs \in [Nodes -> Seq(Runners)]
    BY <2>2 DEF RegionOK, RegionRecords, OpenRegions
  <2>4. all \in [Arrays -> Producers]
    BY <2>2 DEF RegionOK, RegionRecords
  <2> QED BY <2>1, <2>3, <2>4 DEF RegionOK, RegionRecords, QueueOK
<1> QED BY <1>1, <1>2, <1>3

\* Appending to one of a family of sequences.
LEMMA AppendedTyped ==
    ASSUME NEW S, NEW f \in [Nodes -> Seq(S)], NEW n \in Nodes, NEW e \in S
    PROVE  [f EXCEPT ![n] = Append(@, e)] \in [Nodes -> Seq(S)]
  OBVIOUS

\* What a discovery leaves in the queue, and the region it is from then on.
Discovered(r, site) ==
    [r EXCEPT !.op = None,
              !.segs[r.op.node] = Append(@, [open |-> r.op.open, close |-> site,
                                             calls |-> r.op.calls]),
              !.pending[r.op.node] = Append(@, Len(r.segs[r.op.node]) + 1)]

Numbered(r) == [r.op EXCEPT !.seg = Len(r.segs[r.op.node]) + 1]

\* A region that is discovered joins the queue.
LEMMA DiscoveryLeft ==
    ASSUME NEW r, RegionOK(r), r.op # None, NEW site \in Closers,
           NEW left, left = Discovered(r, site)
    PROVE  /\ RegionOK(left) /\ left.op = None /\ left.stream = r.stream
           /\ left.prov = r.prov /\ left.begun = r.begun
           /\ Numbered(r) \in OpenRegions
<1> DEFINE o == r.op
           k == Len(r.segs[o.node]) + 1
           s == [open |-> o.open, close |-> site, calls |-> o.calls]
           ss == [r.segs EXCEPT ![o.node] = Append(@, s)]
           ps == [r.pending EXCEPT ![o.node] = Append(@, k)]
           u == [o EXCEPT !.seg = k]
<1>1. o \in OpenRegions /\ r.segs \in [Nodes -> Seq(Segments)] /\ r.pending \in [Nodes -> Seq(Nat)]
  BY DEF RegionOK, RegionRecords
<1>2. s \in Segments /\ k \in Nat /\ u \in OpenRegions
  <2>1. o.node \in Nodes /\ r.segs[o.node] \in Seq(Segments)
    BY <1>1 DEF OpenRegions
  <2>2. k \in Nat
    BY <2>1
  <2>3. u \in OpenRegions
    BY <1>1, <2>2 DEF OpenRegions
  <2>4. s \in Segments
    BY <1>1 DEF Segments, OpenRegions, Closers
  <2> QED BY <2>2, <2>3, <2>4
<1>3. ss \in [Nodes -> Seq(Segments)] /\ ps \in [Nodes -> Seq(Nat)]
  <2>1. o.node \in Nodes
    BY <1>1 DEF OpenRegions
  <2> HIDE DEF o, s, k
  <2> QED BY <1>1, <1>2, <2>1, AppendedTyped
<1>4. ASSUME NEW n \in Nodes
      PROVE  ps[n] \in Seq(DOMAIN ss[n])
  <2>1. r.pending[n] \in Seq(DOMAIN r.segs[n])
    BY DEF RegionOK, QueueOK
  <2>2. CASE n = o.node
    <3>1. DOMAIN ss[n] = 1 .. k /\ DOMAIN r.segs[n] = 1 .. k - 1
      <4>1. r.segs[n] \in Seq(Segments) /\ ss[n] = Append(r.segs[n], s)
        BY <1>1, <2>2
      <4>2. k = Len(r.segs[n]) + 1
        BY <2>2
      <4> HIDE DEF ss, s, o, k
      <4> QED BY <4>1, <4>2, <1>2, AppendProperties, LenProperties
    <3>2. r.pending[n] \in Seq(1 .. k)
      BY <2>1, <3>1, <1>2
    <3>3. ps[n] = Append(r.pending[n], k)
      BY <1>1, <2>2
    <3> HIDE DEF ps, ss, k
    <3>4. k \in 1 .. k
      BY <1>2 DEF k
    <3>5. Append(r.pending[n], k) \in Seq(1 .. k)
      BY <3>2, <3>4, AppendProperties
    <3> QED BY <3>1, <3>3, <3>5
  <2>3. CASE n # o.node
    BY <1>1, <2>1, <2>3
  <2> QED BY <2>2, <2>3
<1>5. left = [r EXCEPT !.op = None, !.segs = ss, !.pending = ps]
  BY DEF RegionOK, RegionRecords, Discovered
<1> HIDE DEF ss, ps, o
<1>6. /\ left.op = None /\ left.segs = ss /\ left.pending = ps
      /\ left.stream = r.stream /\ left.prov = r.prov /\ left.begun = r.begun
  BY <1>5 DEF RegionOK, RegionRecords
<1>7. RegionOK(left)
  <2>1. left \in RegionRecords
    BY <1>3, <1>5 DEF RegionOK, RegionRecords
  <2> QED BY <2>1, <1>6, <1>4 DEF RegionOK, QueueOK
<1> QED BY <1>2, <1>6, <1>7 DEF o, Numbered

\* It leaves none open, and the stream is untouched.
LEMMA DiscoveryKeeps ==
    ASSUME NEW r, RegionOK(r), r.op # None, NEW site \in Closers,
           pass \in [Nodes -> Nat]
    PROVE  /\ RegionOK(TerminateDiscovery(r, site))
           /\ TerminateDiscovery(r, site).op = None
           /\ TerminateDiscovery(r, site).stream = r.stream
<1> DEFINE left == Discovered(r, site)
           u == Numbered(r)
<1>1. TerminateDiscovery(r, site) = Marker(left, u, FALSE)
  BY DEF TerminateDiscovery, Discovered, Numbered
<1> HIDE DEF u
<1>2. /\ RegionOK(left) /\ left.op = None /\ left.stream = r.stream
      /\ u \in OpenRegions
  BY DiscoveryLeft DEF u
<1> HIDE DEF left
<1>3. LET q == Marker(left, u, FALSE)
      IN  RegionOK(q) /\ q.op = left.op /\ q.stream = left.stream
  BY <1>2, MarkerKeeps
<1> QED BY <1>1, <1>2, <1>3

\* A region that is captured leaves the stream, however it ends.
LEMMA CaptureKeeps ==
    ASSUME NEW r, RegionOK(r), r.op # None, r.op.capture,
           NEW site \in Closers, NEW exc \in BOOLEAN, pass \in [Nodes -> Nat]
    PROVE  /\ RegionOK(TerminateCapture(r, site, exc))
           /\ TerminateCapture(r, site, exc).op = None
           /\ TerminateCapture(r, site, exc).stream = FALSE
<1> DEFINE o == r.op
           t == TerminateCapture(r, site, exc)
           left == [r EXCEPT !.op = None, !.stream = FALSE]
           done == Marker(left, o, o.node \in Exporting)
           popped == [done EXCEPT !.pending[o.node] = Tail(@)]
<1>1. o \in OpenRegions
  BY DEF RegionOK, RegionRecords
<1>2. RegionOK(left) /\ left.op = None /\ left.stream = FALSE
  BY DEF RegionOK, RegionRecords, QueueOK
<1>3. RegionOK([left EXCEPT !.ok = FALSE])
  BY <1>2 DEF RegionOK, RegionRecords, QueueOK
<1>4. [left EXCEPT !.ok = FALSE].op = None /\ [left EXCEPT !.ok = FALSE].stream = FALSE
  BY <1>2 DEF RegionOK, RegionRecords
<1>5. RegionOK(done) /\ done.op = None /\ done.stream = FALSE
  <2> DEFINE real == o.node \in Exporting
  <2>1. real \in BOOLEAN
    OBVIOUS
  <2> HIDE DEF left, real
  <2>2. /\ RegionOK(Marker(left, o, real))
        /\ Marker(left, o, real).op = left.op
        /\ Marker(left, o, real).stream = left.stream
    BY <1>1, <1>2, <2>1, MarkerKeeps
  <2> QED BY <1>2, <2>2 DEF real
<1>6. o.node \in Nodes /\ done.pending[o.node] # <<>>
  <2> DEFINE real == o.node \in Exporting
  <2>1. real \in BOOLEAN
    OBVIOUS
  <2>2. left.pending = r.pending /\ r.pending[o.node] # <<>>
    BY DEF RegionOK, RegionRecords, QueueOK
  <2> HIDE DEF left, real
  <2>3. Marker(left, o, real).pending = left.pending
    BY <1>1, <1>2, <2>1, MarkerKeeps
  <2> QED BY <1>1, <2>2, <2>3 DEF real, OpenRegions
<1>7. RegionOK(popped) /\ popped.op = None /\ popped.stream = FALSE
  <2> HIDE DEF done
  <2>1. done.pending[o.node] \in Seq(Nat)
        /\ done.pending[o.node] \in Seq(DOMAIN done.segs[o.node])
    BY <1>5, <1>6 DEF RegionOK, RegionRecords, QueueOK
  <2>2. Tail(done.pending[o.node]) \in Seq(Nat)
        /\ Tail(done.pending[o.node]) \in Seq(DOMAIN done.segs[o.node])
    BY <1>6, <2>1, HeadTailProperties
  <2> QED BY <1>5, <1>6, <2>2 DEF RegionOK, RegionRecords, QueueOK
<1>8. t \in {[left EXCEPT !.ok = FALSE], left, popped}
  BY DEF TerminateCapture
<1> QED BY <1>7, <1>8, <1>2, <1>3, <1>4

\* However a region ends, it leaves none open and the stream out of capture.
LEMMA TerminateKeeps ==
    ASSUME NEW r, RegionOK(r), StreamOK(r), r.op # None,
           NEW site \in Closers, NEW exc \in BOOLEAN, pass \in [Nodes -> Nat]
    PROVE  /\ RegionOK(Terminate(r, site, exc))
           /\ StreamOK(Terminate(r, site, exc))
           /\ Terminate(r, site, exc).op = None
<1>1. CASE r.op.capture
  BY <1>1, CaptureKeeps DEF Terminate, StreamOK
<1>2. CASE ~r.op.capture
  BY <1>2, DiscoveryKeeps DEF Terminate, StreamOK
<1> QED BY <1>1, <1>2

\* A boundary does nothing, or ends a region no block owns.
LEMMA CloseKeeps ==
    ASSUME NEW r, RegionOK(r), StreamOK(r), NEW site \in Closers,
           pass \in [Nodes -> Nat],
           NEW c, c \in {Close(r, site), CloseUnowned(r, site)}
    PROVE  /\ RegionOK(c) /\ StreamOK(c)
           /\ c = r \/ (~Owned(r) /\ c.op = None)
<1>1. c = r \/ (r.op # None /\ ~r.op.owned /\ c = Terminate(r, site, FALSE))
  BY DEF Close, CloseUnowned
<1>2. CASE c = r
  BY <1>2
<1>3. CASE r.op # None /\ ~r.op.owned /\ c = Terminate(r, site, FALSE)
  BY <1>3, TerminateKeeps DEF Owned
<1> QED BY <1>1, <1>2, <1>3

\* The region opened is well formed, and the stream is in capture if it is.
LEMMA OpenedKeeps ==
    ASSUME NEW r, RegionOK(r), r.op = None, NEW n \in Nodes, NEW site \in Sites,
           NEW owned \in BOOLEAN, NEW seg \in Nat,
           capture \in [Nodes -> BOOLEAN],
           capture[n] => r.pending[n] # <<>> /\ seg = Head(r.pending[n])
    PROVE  LET b == Opened(r, n, site, owned, seg)
           IN  /\ RegionOK(b) /\ StreamOK(b)
               /\ b.op # None /\ b.op.owned = owned /\ b.op.node = n
               /\ b.ok = r.ok
<1> DEFINE o == [node |-> n, owned |-> owned, capture |-> capture[n],
                 seg |-> seg, open |-> site, calls |-> <<>>,
                 refs |-> {}, ins |-> {}, lost |-> FALSE, id |-> r.begun[n] + 1]
           st == capture[n] /\ n \in Exporting
           bg == [r.begun EXCEPT ![n] = @ + 1]
           b == Opened(r, n, site, owned, seg)
<1>1. r.begun \in [Nodes -> Nat]
  BY DEF RegionOK, RegionRecords
<1>2. o \in OpenRegions
  BY <1>1 DEF OpenRegions
<1>3. o # None
  BY <1>2, NoneIsNoRegion
<1>4. bg \in [Nodes -> Nat] /\ st \in BOOLEAN
  BY <1>1
<1>5. b = [r EXCEPT !.begun = bg, !.stream = st, !.op = o]
  BY DEF Opened, RegionOK, RegionRecords
<1>6. b.op = o /\ b.stream = st /\ b.pending = r.pending /\ b.segs = r.segs /\ b.ok = r.ok
  BY <1>5 DEF RegionOK, RegionRecords
<1>7. b \in RegionRecords
  <2> HIDE DEF o, bg, st
  <2> QED BY <1>2, <1>4, <1>5 DEF RegionOK, RegionRecords
<1>8. QueueOK(b)
  BY <1>6 DEF RegionOK, QueueOK
<1>9. StreamOK(b)
  <2>1. b.op # None /\ b.op.capture = capture[n] /\ b.op.node = n
    BY <1>3, <1>6
  <2>2. b.stream = st
    BY <1>6
  <2> HIDE DEF b
  <2> QED BY <2>1, <2>2, Zenon DEF StreamOK
<1> QED BY <1>3, <1>6, <1>7, <1>8, <1>9 DEF RegionOK

\* Begin refuses to replace a region that is owned; else it opens one, or
\* raises with none open.
LEMMA BeginKeeps ==
    ASSUME NEW r, RegionOK(r), StreamOK(r), NEW n \in Nodes, NEW site \in Sites,
           NEW owned \in BOOLEAN, pass \in [Nodes -> Nat], capture \in [Nodes -> BOOLEAN]
    PROVE  LET b == Begin(r, n, site, owned)
           IN  /\ RegionOK(b) /\ StreamOK(b)
               /\ Owned(r) => ~b.ok /\ b.op = r.op
               /\ ~Owned(r) /\ b.ok => b.op # None /\ b.op.owned = owned /\ b.op.node = n
               /\ ~Owned(r) /\ ~b.ok => b.op = None
<1> DEFINE q == IF r.op = None THEN r
                ELSE IF r.op.owned THEN [r EXCEPT !.ok = FALSE]
                ELSE Terminate(r, site, FALSE)
           b == Begin(r, n, site, owned)
           seg == Head(q.pending[n])
<1>1. b = IF ~q.ok THEN q
          ELSE IF ~capture[n] THEN Opened(q, n, site, owned, 0)
          ELSE IF \/ q.pending[n] = <<>>
                  \/ q.segs[n][seg].open # site
               THEN [q EXCEPT !.ok = FALSE]
          ELSE Opened(q, n, site, owned, seg)
  BY DEF Begin
<1>2. CASE Owned(r)
  <2>1. q = [r EXCEPT !.ok = FALSE]
    BY <1>2 DEF Owned
  <2>2. /\ RegionOK(q) /\ StreamOK(q)
        /\ ~q.ok /\ q.op = r.op
    BY <2>1 DEF RegionOK, RegionRecords, QueueOK, StreamOK
  <2>3. b = q
    BY <1>1, <2>2
  <2> QED BY <1>2, <2>2, <2>3
<1>3. CASE ~Owned(r)
  <2>1. RegionOK(q) /\ StreamOK(q) /\ q.op = None
    <3>1. CASE r.op = None
      BY <3>1
    <3>2. CASE r.op # None
      <4>1. q = Terminate(r, site, FALSE)
        BY <1>3, <3>2 DEF Owned
      <4>2. site \in Closers /\ FALSE \in BOOLEAN
        BY DEF Closers
      <4> HIDE DEF q
      <4> QED BY <3>2, <4>1, <4>2, TerminateKeeps
    <3> QED BY <3>1, <3>2
  <2>2. CASE ~q.ok
    BY <1>1, <1>3, <2>1, <2>2
  <2>3. CASE q.ok /\ ~capture[n]
    <3>1. b = Opened(q, n, site, owned, 0)
      BY <1>1, <2>3
    <3> HIDE DEF q
    <3> QED BY <1>3, <2>1, <2>3, <3>1, OpenedKeeps
  <2>4. CASE q.ok /\ capture[n] /\ (q.pending[n] = <<>> \/ q.segs[n][seg].open # site)
    <3>1. b = [q EXCEPT !.ok = FALSE]
      BY <1>1, <2>4
    <3> HIDE DEF q
    <3> QED BY <1>3, <2>1, <3>1 DEF RegionOK, RegionRecords, QueueOK, StreamOK
  <2>5. CASE q.ok /\ capture[n] /\ q.pending[n] # <<>> /\ q.segs[n][seg].open = site
    <3>1. b = Opened(q, n, site, owned, seg)
      BY <1>1, <2>5
    <3>2. q.pending[n] \in Seq(Nat)
      BY <2>1 DEF RegionOK, RegionRecords
    <3>3. seg \in Nat
      BY <2>5, <3>2, HeadTailProperties
    <3> HIDE DEF q
    <3> QED BY <1>3, <2>1, <2>5, <3>1, <3>3, OpenedKeeps
  <2> QED BY <2>2, <2>3, <2>4, <2>5
<1> QED BY <1>2, <1>3

\* Changing where arrays get their values from keeps a record well formed.
LEMMA ProvKeeps ==
    ASSUME NEW r, RegionOK(r), StreamOK(r), NEW pv \in [Arrays -> Producers]
    PROVE  LET q == [r EXCEPT !.prov = pv]
           IN  RegionOK(q) /\ StreamOK(q) /\ q.op = r.op /\ q.ok = r.ok
  BY DEF RegionOK, RegionRecords, QueueOK, StreamOK

\* So does noting calls and arrays in the region that is open.
LEMMA NotedKeeps ==
    ASSUME NEW r, RegionOK(r), StreamOK(r), r.op # None, NEW o \in OpenRegions,
           o.owned = r.op.owned, o.node = r.op.node, o.capture = r.op.capture,
           o.seg = r.op.seg
    PROVE  LET q == [r EXCEPT !.op = o]
           IN  /\ RegionOK(q) /\ StreamOK(q)
               /\ q.op # None /\ q.op.owned = r.op.owned /\ q.op.node = r.op.node
<1> DEFINE q == [r EXCEPT !.op = o]
<1>1. o # None
  BY NoneIsNoRegion
<1>2. q.op = o /\ q.stream = r.stream /\ q.pending = r.pending /\ q.segs = r.segs
  BY DEF RegionOK, RegionRecords
<1>3. q \in RegionRecords
  BY DEF RegionOK, RegionRecords
<1>4. QueueOK(q) /\ StreamOK(q)
  <2> HIDE DEF q
  <2> QED BY <1>1, <1>2 DEF RegionOK, QueueOK, StreamOK
<1> QED BY <1>1, <1>2, <1>3, <1>4 DEF RegionOK

\* What noting a call changes of a region, what adopting arrays does, and what
\* losing the archive.
LEMMA NotedFacts ==
    ASSUME NEW o \in OpenRegions, NEW f \in Calls, NEW arrays \in SUBSET Arrays
    PROVE  LET q == Noted(o, f, arrays)
           IN  /\ q \in OpenRegions
               /\ q.node = o.node /\ q.owned = o.owned /\ q.capture = o.capture
               /\ q.seg = o.seg /\ q.open = o.open /\ q.id = o.id /\ q.lost = o.lost
               /\ q.calls = Append(o.calls, f) /\ q.refs = o.refs \cup arrays
<1>1. o.calls \in Seq(Calls) /\ Append(o.calls, f) \in Seq(Calls)
  BY DEF OpenRegions
<1> QED BY <1>1 DEF Noted, OpenRegions

LEMMA AdoptedFacts ==
    ASSUME NEW o \in OpenRegions, NEW arrays \in SUBSET Arrays
    PROVE  LET q == [o EXCEPT !.refs = @ \cup arrays]
           IN  /\ q \in OpenRegions
               /\ q.node = o.node /\ q.owned = o.owned /\ q.capture = o.capture
               /\ q.seg = o.seg /\ q.open = o.open /\ q.id = o.id /\ q.lost = o.lost
               /\ q.calls = o.calls /\ q.refs = o.refs \cup arrays
  BY DEF OpenRegions

LEMMA LostFacts ==
    ASSUME NEW o \in OpenRegions
    PROVE  LET q == [o EXCEPT !.lost = TRUE]
           IN  /\ q \in OpenRegions
               /\ q.node = o.node /\ q.owned = o.owned /\ q.capture = o.capture
               /\ q.seg = o.seg /\ q.open = o.open /\ q.id = o.id
               /\ q.calls = o.calls /\ q.refs = o.refs
  BY DEF OpenRegions

-----------------------------------------------------------------------------
(* The inductive invariant.                                                *)

\* The region being captured is the next one of its node's queue.
NextQueued ==
    op # None /\ op.capture => /\ pending[op.node] # <<>>
                               /\ op.seg = Head(pending[op.node])

IInv == TypeOK /\ NextQueued /\ StreamCaptured /\ BlockKeepsRegion

\* The types of what the record does not hold.
Others ==
    /\ block \in Nodes \cup {None}
    /\ flight \in Flights \cup {None}
    /\ pass \in [Nodes -> Nat]
    /\ tracing \in [Nodes -> BOOLEAN]
    /\ capture \in [Nodes -> BOOLEAN]
    /\ writer \in [Arrays -> Producers]
    /\ result \in [Nodes -> Values]
    /\ outputs \in [Nodes -> Values]

\* What a block requires of the region state it runs with.
Keeps(r, k) == /\ k # None => Owned(r) /\ r.op.node = k
               /\ Owned(r) => k # None

\* The state seen as a record.
LEMMA StateOK ==
    ASSUME IInv
    PROVE  /\ RegionOK(Region) /\ StreamOK(Region) /\ Keeps(Region, block)
           /\ Others /\ Region.ok = TRUE /\ Region.op = op /\ Region.prov = prov
<1>1. /\ Region.op = op /\ Region.segs = segs /\ Region.pending = pending
      /\ Region.stream = stream /\ Region.ok = TRUE /\ Region.prov = prov
  BY DEF Region
<1>2. Region \in RegionRecords
  BY DEF Region, RegionRecords, IInv, TypeOK
<1>3. QueueOK(Region)
  BY <1>1 DEF QueueOK, IInv, TypeOK, NextQueued
<1>4. StreamOK(Region)
  BY <1>1 DEF StreamOK, IInv, StreamCaptured
<1>5. Keeps(Region, block)
  BY <1>1 DEF Keeps, Owned, IInv, BlockKeepsRegion
<1>6. Others
  BY DEF Others, IInv, TypeOK
<1> QED BY <1>1, <1>2, <1>3, <1>4, <1>5, <1>6 DEF RegionOK

\* A step that ends in a well-formed record ends in a state of the invariant.
LEMMA RecordOK ==
    ASSUME NEW r, RegionOK(r), StreamOK(r), Keeps(r, block'), Others', Becomes(r),
           raised \in BOOLEAN
    PROVE  IInv'
<1>1. /\ op' = r.op /\ segs' = r.segs /\ pending' = r.pending
      /\ begun' = r.begun /\ runners' = r.runners /\ prov' = r.prov
      /\ stream' = r.stream /\ raised' \in BOOLEAN
  BY DEF Becomes
<1>2. NextQueued'
  BY <1>1 DEF NextQueued, RegionOK, QueueOK
<1>3. ASSUME op' # None, op'.capture
      PROVE  op'.seg \in DOMAIN segs'[op'.node]
  <2>1. op'.node \in Nodes
    BY <1>1, <1>3 DEF RegionOK, RegionRecords, OpenRegions
  <2>2. pending'[op'.node] \in Seq(DOMAIN segs'[op'.node])
    BY <1>1, <2>1 DEF RegionOK, QueueOK
  <2> QED BY <1>2, <1>3, <2>2, HeadTailProperties DEF NextQueued
<1>4. TypeOK'
  BY <1>1, <1>3 DEF TypeOK, Others, RegionOK, RegionRecords, QueueOK
<1>5. StreamCaptured'
  BY <1>1 DEF StreamCaptured, StreamOK
<1>6. BlockKeepsRegion'
  BY <1>1 DEF BlockKeepsRegion, Keeps, Owned
<1> QED BY <1>2, <1>4, <1>5, <1>6 DEF IInv

-----------------------------------------------------------------------------
(* One lemma per action. *)

LEMMA InitOK == Init => IInv
<1> SUFFICES ASSUME Init PROVE IInv
  OBVIOUS
<1>1. Raw \in Producers
  BY ProducerTyped DEF Raw
<1>2. TypeOK
  <2>1. /\ segs \in [Nodes -> Seq(Segments)] /\ pending \in [Nodes -> Seq(Nat)]
        /\ runners \in [Nodes -> Seq(Runners)] /\ begun \in [Nodes -> Nat]
    BY DEF Init
  <2>2. \A n \in Nodes : pending[n] \in Seq(DOMAIN segs[n])
    BY DEF Init
  <2>3. prov \in [Arrays -> Producers] /\ writer \in [Arrays -> Producers]
    BY <1>1 DEF Init
  <2>4. result \in [Nodes -> Values] /\ outputs \in [Nodes -> Values]
    BY DEF Init, Values
  <2>5. /\ pass \in [Nodes -> Nat] /\ tracing \in [Nodes -> BOOLEAN]
        /\ capture \in [Nodes -> BOOLEAN]
    BY DEF Init
  <2> QED BY <2>1, <2>2, <2>3, <2>4, <2>5 DEF Init, TypeOK
<1>3. NextQueued /\ StreamCaptured /\ BlockKeepsRegion
  BY DEF Init, NextQueued, StreamCaptured, BlockKeepsRegion
<1> QED BY <1>2, <1>3 DEF IInv

\* A boundary keeps what a block requires.
LEMMA CloseKeepsBlock ==
    ASSUME NEW r, NEW c, NEW k, Keeps(r, k), c = r \/ (~Owned(r) /\ c.op = None)
    PROVE  Keeps(c, k)
  BY DEF Keeps, Owned

LEMMA InputTensorsOK ==
    ASSUME IInv, NEW n \in Nodes, NEW site \in Sites, InputTensors(n, site)
    PROVE  IInv'
<1>1. CASE Revisit(n)
  <2>1. UNCHANGED vars
    BY <1>1 DEF InputTensors
  <2> QED BY <2>1 DEF vars, IInv, TypeOK, NextQueued, StreamCaptured, BlockKeepsRegion
<1>2. CASE ~Revisit(n)
  <2> DEFINE r0 == [Region EXCEPT !.runners[n] = <<>>, !.begun[n] = 0]
             c == Close(r0, site)
             p == Producer(n, pass[n] + 1, 0, FALSE)
             r == IF c.ok THEN [c EXCEPT !.prov[Input(n)] = p] ELSE c
  <2>1. RegionOK(r0) /\ StreamOK(r0) /\ Keeps(r0, block)
    <3>1. r0.op = Region.op /\ r0.stream = Region.stream /\ r0.segs = Region.segs
          /\ r0.pending = Region.pending
      BY DEF Region
    <3>2. r0 \in RegionRecords
      <4> DEFINE rs == [runners EXCEPT ![n] = <<>>]
                 bg == [begun EXCEPT ![n] = 0]
      <4>1. r0 = [Region EXCEPT !.runners = rs, !.begun = bg]
        BY DEF Region
      <4>2. rs \in [Nodes -> Seq(Runners)] /\ bg \in [Nodes -> Nat]
        BY DEF IInv, TypeOK
      <4> HIDE DEF rs, bg, r0
      <4> QED BY <4>1, <4>2, StateOK DEF RegionOK, RegionRecords
    <3> HIDE DEF r0
    <3> QED BY <3>1, <3>2, StateOK DEF RegionOK, QueueOK, StreamOK, Keeps, Owned
  <2>2. site \in Closers
    BY DEF Closers
  <2>3. pass \in [Nodes -> Nat]
    BY DEF IInv, TypeOK
  <2>4. RegionOK(c) /\ StreamOK(c) /\ (c = r0 \/ (~Owned(r0) /\ c.op = None))
    <3> HIDE DEF r0
    <3> QED BY <2>1, <2>2, <2>3, CloseKeeps
  <2>5. Keeps(c, block)
    <3> HIDE DEF r0, c
    <3> QED BY <2>1, <2>4, CloseKeepsBlock
  <2>6. p \in Producers
    <3>1. pass[n] + 1 \in Nat
      BY <2>3
    <3> QED BY <3>1, ProducerTyped
  <2>7. RegionOK(r) /\ StreamOK(r) /\ Keeps(r, block)
    <3> HIDE DEF c, p
    <3>1. CASE c.ok
      <4> DEFINE pv == [c.prov EXCEPT ![Input(n)] = p]
      <4>1. r = [c EXCEPT !.prov = pv]
        BY <3>1, <2>4 DEF RegionOK, RegionRecords
      <4>2. pv \in [Arrays -> Producers]
        BY <2>4, <2>6 DEF RegionOK, RegionRecords
      <4> HIDE DEF pv, r
      <4>3. RegionOK(r) /\ StreamOK(r) /\ r.op = c.op
        BY <4>1, <4>2, <2>4, ProvKeeps
      <4> QED BY <4>3, <2>5 DEF Keeps, Owned
    <3>2. CASE ~c.ok
      BY <3>2, <2>4, <2>5
    <3> QED BY <3>1, <3>2
  <2>8. Becomes(r) /\ block' = block /\ flight' = flight
    BY <1>2 DEF InputTensors
  <2>9. Others'
    <3>1. writer' = [writer EXCEPT ![Input(n)] = p]
      BY <1>2 DEF InputTensors
    <3>2. writer' \in [Arrays -> Producers]
      <4> HIDE DEF p
      <4> QED BY <3>1, <2>6, StateOK DEF Others
    <3>3. result' \in [Nodes -> Values] /\ outputs' \in [Nodes -> Values]
      BY <1>2, StateOK DEF InputTensors, Others, Values
    <3>4. /\ pass' \in [Nodes -> Nat] /\ tracing' \in [Nodes -> BOOLEAN]
          /\ capture' \in [Nodes -> BOOLEAN]
      <4>1. /\ pass' = [pass EXCEPT ![n] = @ + 1]
            /\ tracing' = [tracing EXCEPT ![n] = TRUE]
            /\ capture' = [capture EXCEPT ![n] = pass[n] > 0]
        BY <1>2 DEF InputTensors
      <4>2. pass' \in [Nodes -> Nat] /\ tracing' \in [Nodes -> BOOLEAN]
        BY <4>1, <2>3, StateOK DEF Others
      <4>3. (pass[n] > 0) \in BOOLEAN
        BY <2>3
      <4>4. capture' \in [Nodes -> BOOLEAN]
        BY <4>1, <4>3, StateOK DEF Others
      <4> QED BY <4>2, <4>4
    <3> QED BY <1>2, <3>2, <3>3, <3>4, StateOK DEF InputTensors, Others
  <2>10. raised \in BOOLEAN
    BY DEF IInv, TypeOK
  <2> HIDE DEF r
  <2> QED BY <2>7, <2>8, <2>9, <2>10, RecordOK
<1> QED BY <1>1, <1>2

\* A step that is no more than a boundary.
LEMMA BoundaryOK ==
    ASSUME IInv, NEW site \in Closers, NEW c,
           c \in {Close(Region, site), CloseUnowned(Region, site)}
    PROVE  RegionOK(c) /\ StreamOK(c) /\ Keeps(c, block)
<1>1. pass \in [Nodes -> Nat]
  BY DEF IInv, TypeOK
<1> QED BY <1>1, StateOK, CloseKeeps, CloseKeepsBlock

LEMMA SynchronizeOK ==
    ASSUME IInv, NEW site \in Sites, Synchronize(site)
    PROVE  IInv'
<1> DEFINE c == Close(Region, site)
<1>1. RegionOK(c) /\ StreamOK(c) /\ Keeps(c, block)
  BY BoundaryOK DEF Closers
<1>2. Becomes(c) /\ block' = block
  BY DEF Synchronize
<1>3. Others'
  BY StateOK DEF Synchronize, Others
<1>4. raised \in BOOLEAN
  BY DEF IInv, TypeOK
<1> HIDE DEF c
<1> QED BY <1>1, <1>2, <1>3, <1>4, RecordOK

LEMMA CudaWorkOK ==
    ASSUME IInv, NEW site \in Sites, CudaWork(site)
    PROVE  IInv'
<1> DEFINE c == Close(Region, site)
           r == [c EXCEPT !.ok = TRUE]
<1>1. RegionOK(c) /\ StreamOK(c) /\ Keeps(c, block)
  BY BoundaryOK DEF Closers
<1>2. RegionOK(r) /\ StreamOK(r) /\ Keeps(r, block)
  <2> HIDE DEF c
  <2> QED BY <1>1 DEF RegionOK, RegionRecords, QueueOK, StreamOK, Keeps, Owned
<1>3. Becomes(r) /\ block' = block
  BY DEF CudaWork
<1>4. Others'
  BY StateOK DEF CudaWork, Others
<1>5. raised \in BOOLEAN
  BY DEF IInv, TypeOK
<1> HIDE DEF r
<1> QED BY <1>2, <1>3, <1>4, <1>5, RecordOK

LEMMA LoseArchiveOK ==
    ASSUME IInv, LoseArchive
    PROVE  IInv'
<1>1. /\ op \in OpenRegions /\ op' = [op EXCEPT !.lost = TRUE] /\ op # None
      /\ segs' = segs /\ pending' = pending /\ stream' = stream /\ block' = block
  BY DEF LoseArchive, IInv, TypeOK
<1>2. /\ op' \in OpenRegions
      /\ op'.node = op.node /\ op'.owned = op.owned /\ op'.capture = op.capture
      /\ op'.seg = op.seg
  BY <1>1, LostFacts
<1>3. op' # None
  BY <1>2, NoneIsNoRegion
<1>4. TypeOK'
  BY <1>1, <1>2, <1>3 DEF LoseArchive, IInv, TypeOK
<1>5. NextQueued' /\ BlockKeepsRegion'
  BY <1>1, <1>2, <1>3 DEF IInv, NextQueued, BlockKeepsRegion
<1>6. StreamCaptured'
  BY Zenon, <1>1, <1>2, <1>3 DEF IInv, StreamCaptured
<1> QED BY <1>4, <1>5, <1>6 DEF IInv

LEMMA TorchOperationOK ==
    ASSUME IInv, NEW x \in Arrays, TorchOperation(x)
    PROVE  IInv'
<1> DEFINE c == Close(Region, FxSite)
           n == prov[x].node
<1>1. RegionOK(c) /\ StreamOK(c) /\ Keeps(c, block)
  BY BoundaryOK DEF Closers
<1>2. Becomes(c) /\ block' = block
  BY DEF TorchOperation
<1>3. Others'
  <2>1. c.prov \in [Arrays -> Producers] /\ writer \in [Arrays -> Producers]
    BY <1>1 DEF RegionOK, RegionRecords, IInv, TypeOK
  <2>2. <<c.prov[x], writer[x]>> \in Values
    BY <2>1 DEF Values
  <2>3. result \in [Nodes -> Values]
    BY DEF IInv, TypeOK
  <2>4. result' = IF c.ok THEN [result EXCEPT ![n] = <<c.prov[x], writer[x]>>] ELSE result
    BY DEF TorchOperation
  <2>5. result' \in [Nodes -> Values]
    <3> HIDE DEF c
    <3> QED BY <2>2, <2>3, <2>4
  <2> QED BY <2>5, StateOK DEF TorchOperation, Others
<1>4. raised \in BOOLEAN
  BY DEF IInv, TypeOK
<1> HIDE DEF c
<1> QED BY <1>1, <1>2, <1>3, <1>4, RecordOK

LEMMA OutputTensorsOK ==
    ASSUME IInv, NEW n \in Nodes, NEW site \in Sites, OutputTensors(n, site)
    PROVE  IInv'
<1> DEFINE c == Close(Region, site)
<1>1. RegionOK(c) /\ StreamOK(c) /\ Keeps(c, block)
  BY BoundaryOK DEF Closers
<1>2. Becomes(c) /\ block' = block
  BY DEF OutputTensors
<1>3. outputs' \in [Nodes -> Values] /\ tracing' \in [Nodes -> BOOLEAN]
  <2>1. CASE c.ok /\ tracing[n]
    <3>1. PICK o \in Candidates(c, n) :
             /\ outputs' = [outputs EXCEPT ![n] = o]
             /\ tracing' = [tracing EXCEPT ![n] = FALSE]
      BY <2>1 DEF OutputTensors
    <3>2. c.prov \in [Arrays -> Producers]
      BY <1>1 DEF RegionOK, RegionRecords
    <3>3. Candidates(c, n) \subseteq Values
      <4> HIDE DEF c
      <4> QED BY <3>2, StateOK DEF Candidates, Others, Values
    <3> QED BY <3>1, <3>3, StateOK DEF Others
  <2>2. CASE ~(c.ok /\ tracing[n])
    BY <2>2, StateOK DEF OutputTensors, Others
  <2> QED BY <2>1, <2>2
<1>4. Others'
  BY <1>3, StateOK DEF OutputTensors, Others
<1>5. raised \in BOOLEAN
  BY DEF IInv, TypeOK
<1> HIDE DEF c
<1> QED BY <1>1, <1>2, <1>4, <1>5, RecordOK

LEMMA EnterBlockOK ==
    ASSUME IInv, NEW n \in Nodes, NEW site \in Sites, EnterBlock(n, site)
    PROVE  IInv'
<1> DEFINE b == Begin(Region, n, site, TRUE)
<1>1. /\ RegionOK(b) /\ StreamOK(b)
      /\ Owned(Region) => ~b.ok /\ b.op = Region.op
      /\ ~Owned(Region) /\ b.ok => b.op # None /\ b.op.owned = TRUE /\ b.op.node = n
      /\ ~Owned(Region) /\ ~b.ok => b.op = None
  <2>1. pass \in [Nodes -> Nat] /\ capture \in [Nodes -> BOOLEAN] /\ TRUE \in BOOLEAN
    BY DEF IInv, TypeOK
  <2> QED BY <2>1, StateOK, BeginKeeps
<1>2. Becomes(b) /\ block' = IF b.ok THEN n ELSE block
  BY DEF EnterBlock
<1>3. Keeps(b, block')
  <2> HIDE DEF b
  <2>1. n # None
    BY NoneAssumption
  <2> QED BY <1>1, <1>2, <2>1, StateOK DEF Keeps, Owned
<1>4. Others'
  <2> HIDE DEF b
  <2> QED BY <1>2, StateOK DEF EnterBlock, Others
<1>5. raised \in BOOLEAN
  BY DEF IInv, TypeOK
<1> HIDE DEF b
<1> QED BY <1>1, <1>2, <1>3, <1>4, <1>5, RecordOK

LEMMA ExitBlockOK ==
    ASSUME IInv, NEW site \in Sites, NEW exc \in BOOLEAN, ExitBlock(site, exc)
    PROVE  IInv'
<1> DEFINE t == IF op # None /\ op.owned THEN Terminate(Region, site, exc) ELSE Region
           r == [t EXCEPT !.ok = @ /\ ~exc]
<1>1. RegionOK(t) /\ StreamOK(t) /\ ~Owned(t)
  <2>1. CASE op # None /\ op.owned
    <3>1. pass \in [Nodes -> Nat] /\ site \in Closers
      BY DEF IInv, TypeOK, Closers
    <3>2. t = Terminate(Region, site, exc)
      BY <2>1
    <3> HIDE DEF t
    <3> QED BY <2>1, <3>1, <3>2, StateOK, TerminateKeeps DEF Owned
  <2>2. CASE ~(op # None /\ op.owned)
    BY <2>2, StateOK DEF Owned
  <2> QED BY <2>1, <2>2
<1>2. RegionOK(r) /\ StreamOK(r) /\ ~Owned(r)
  <2> HIDE DEF t
  <2>1. t.ok \in BOOLEAN /\ (t.ok /\ ~exc) \in BOOLEAN
    BY <1>1 DEF RegionOK, RegionRecords
  <2> QED BY <1>1, <2>1 DEF RegionOK, RegionRecords, QueueOK, StreamOK, Owned
<1>3. Becomes(r) /\ block' = None
  BY DEF ExitBlock
<1>4. Keeps(r, block')
  <2> HIDE DEF r
  <2> QED BY <1>2, <1>3 DEF Keeps
<1>5. Others'
  <2> HIDE DEF r
  <2> QED BY <1>3, StateOK DEF ExitBlock, Others
<1>6. raised \in BOOLEAN
  BY DEF IInv, TypeOK
<1> HIDE DEF r
<1> QED BY <1>2, <1>3, <1>4, <1>5, <1>6, RecordOK

\* The node a call belongs to is a node or none.
LEMMA SourceTyped ==
    ASSUME IInv, NEW args \in SUBSET Arrays
    PROVE  Source(args) \in Nodes \cup {None}
<1> DEFINE traced == {x \in args : prov[x] # Raw /\ ~Stale(x)}
<1>1. CASE traced = {}
  BY <1>1 DEF Source
<1>2. CASE traced # {}
  <2>1. (CHOOSE x \in traced : TRUE) \in Arrays
    BY <1>2
  <2>2. Source(args) = prov[CHOOSE x \in traced : TRUE].node
    BY <1>2 DEF Source
  <2>3. prov \in [Arrays -> Producers]
    BY DEF IInv, TypeOK
  <2> QED BY <2>1, <2>2, <2>3 DEF Producers
<1> QED BY <1>1, <1>2

\* Finding a region for a call never takes one from its block.
LEMMA ResolveKeeps ==
    ASSUME IInv, NEW n \in Nodes \cup {None}, NEW site \in Sites
    PROVE  LET r == Resolve(n, site)
           IN  RegionOK(r) /\ StreamOK(r) /\ Keeps(r, block)
<1> DEFINE c == Close(Region, site)
           b == Begin(c, n, site, FALSE)
<1>1. RegionOK(c) /\ StreamOK(c) /\ Keeps(c, block)
  BY BoundaryOK DEF Closers
<1>2. Resolve(n, site) \in {Region, c} \/ (n \in Nodes /\ Resolve(n, site) = b)
  BY DEF Resolve
<1>3. ASSUME n \in Nodes
      PROVE  RegionOK(b) /\ StreamOK(b) /\ Keeps(b, block)
  <2>1. /\ pass \in [Nodes -> Nat] /\ capture \in [Nodes -> BOOLEAN]
        /\ FALSE \in BOOLEAN
    BY DEF IInv, TypeOK
  <2> HIDE DEF c
  <2>2. /\ RegionOK(b) /\ StreamOK(b)
        /\ Owned(c) => ~b.ok /\ b.op = c.op
        /\ ~Owned(c) /\ b.ok => b.op # None /\ b.op.owned = FALSE /\ b.op.node = n
        /\ ~Owned(c) /\ ~b.ok => b.op = None
    BY <1>1, <1>3, <2>1, BeginKeeps
  <2> HIDE DEF b
  <2> QED BY <1>1, <2>2 DEF Keeps, Owned
<1> HIDE DEF c, b
<1> QED BY <1>1, <1>2, <1>3, StateOK

LEMMA WarpCallOK ==
    ASSUME IInv, NEW f \in Calls, NEW args \in SUBSET Arrays, NEW out \in Arrays,
           NEW site \in Sites, WarpCall(f, args, out, site)
    PROVE  IInv'
<1> DEFINE n == Source(args)
           r == IF OneContext(args) THEN Resolve(n, site) ELSE [Region EXCEPT !.ok = FALSE]
           pv == [x \in Arrays |-> IF x \in args /\ Stale(x) THEN Raw ELSE r.prov[x]]
           s == [r EXCEPT !.prov = pv]
           traced == {x \in args : s.prov[x] # Raw}
           joins == s.op # None /\ n \in {None, s.op.node}
           u == IF joins THEN [s EXCEPT !.op = Noted(@, f, traced)] ELSE s
           fl == [args |-> args, out |-> out, node |-> n, site |-> site,
                  id |-> IF joins THEN s.op.id ELSE 0]
<1>1. n \in Nodes \cup {None}
  BY SourceTyped
<1>2. RegionOK(r) /\ StreamOK(r) /\ Keeps(r, block)
  <2>1. CASE OneContext(args)
    <3>1. r = Resolve(n, site)
      BY <2>1
    <3> HIDE DEF r, n
    <3> QED BY <1>1, <3>1, ResolveKeeps
  <2>2. CASE ~OneContext(args)
    <3>1. r = [Region EXCEPT !.ok = FALSE]
      BY <2>2
    <3> HIDE DEF r
    <3> QED BY <3>1, StateOK DEF RegionOK, RegionRecords, QueueOK, StreamOK, Keeps, Owned
  <2> QED BY <2>1, <2>2
<1>3. Raw \in Producers
  BY ProducerTyped DEF Raw
<1>4. RegionOK(s) /\ StreamOK(s) /\ Keeps(s, block)
  <2> HIDE DEF r
  <2>1. pv \in [Arrays -> Producers]
    BY <1>2, <1>3 DEF RegionOK, RegionRecords
  <2> HIDE DEF pv
  <2>2. RegionOK(s) /\ StreamOK(s) /\ s.op = r.op
    BY <1>2, <2>1, ProvKeeps
  <2> HIDE DEF s
  <2> QED BY <1>2, <2>2 DEF Keeps, Owned
<1>5. RegionOK(u) /\ StreamOK(u) /\ Keeps(u, block)
  <2> HIDE DEF s
  <2>1. CASE ~joins
    BY <1>4, <2>1
  <2>2. CASE joins
    <3> DEFINE o == Noted(s.op, f, traced)
    <3>1. u = [s EXCEPT !.op = o] /\ s.op # None
      BY <1>4, <2>2 DEF RegionOK, RegionRecords
    <3>2. s.op \in OpenRegions /\ traced \in SUBSET Arrays
      BY <1>4, <3>1 DEF RegionOK, RegionRecords
    <3>3. /\ o \in OpenRegions
          /\ o.owned = s.op.owned /\ o.node = s.op.node /\ o.capture = s.op.capture
          /\ o.seg = s.op.seg
      BY <3>2, NotedFacts
    <3> HIDE DEF o, u, joins
    <3>4. /\ RegionOK(u) /\ StreamOK(u)
          /\ u.op # None /\ u.op.owned = s.op.owned /\ u.op.node = s.op.node
      BY <1>4, <3>1, <3>3, NotedKeeps
    <3> QED BY <1>4, <3>1, <3>4 DEF Keeps, Owned
  <2> QED BY <2>1, <2>2
<1>6. fl \in Flights
  <2> HIDE DEF n, s
  <2>1. s.op = None \/ s.op.id \in Nat
    BY <1>4 DEF RegionOK, RegionRecords, OpenRegions
  <2>2. (IF joins THEN s.op.id ELSE 0) \in Nat
    BY <2>1
  <2> QED BY <1>1, <2>2 DEF Flights
<1>7. \/ Becomes(u) /\ flight' = fl
      \/ Becomes(s) /\ flight' = flight
  BY DEF WarpCall
<1>8. Others' /\ block' = block
  <2> HIDE DEF s, u, fl
  <2> QED BY <1>6, <1>7, StateOK DEF WarpCall, Others
<1>9. raised \in BOOLEAN
  BY DEF IInv, TypeOK
<1> HIDE DEF u, s, fl
<1> QED BY <1>4, <1>5, <1>7, <1>8, <1>9, RecordOK

LEMMA WarpReturnOK ==
    ASSUME IInv, WarpReturn
    PROVE  IInv'
<1> DEFINE n == flight.node
           adopted == IF n = None THEN {} ELSE flight.args
           pv == [x \in Arrays |-> IF x \in adopted /\ prov[x] = Raw
                                   THEN Producer(n, pass[n], 0, tracing[n]) ELSE prov[x]]
           s == [Region EXCEPT !.prov = pv]
           joined == [Region EXCEPT
                     !.prov = [x \in Arrays |->
                         IF x \in adopted /\ @[x] = Raw
                         THEN Producer(n, pass[n], 0, tracing[n]) ELSE @[x]],
                     !.op = Adopting(@, n, adopted)]
           c == IF flight.out \in TorchBacked THEN CloseUnowned(joined, flight.site)
                ELSE joined
<1>1. flight \in Flights /\ n \in Nodes \cup {None} /\ adopted \in SUBSET Arrays
  BY DEF WarpReturn, IInv, TypeOK, Flights
<1>2. pass \in [Nodes -> Nat] /\ tracing \in [Nodes -> BOOLEAN] /\ prov \in [Arrays -> Producers]
  BY DEF IInv, TypeOK
<1>3. pv \in [Arrays -> Producers]
  <2>1. n \in Nodes => Producer(n, pass[n], 0, tracing[n]) \in Producers
    <3>1. n \in Nodes => pass[n] \in Nat /\ tracing[n] \in BOOLEAN
      BY <1>2
    <3> QED BY <3>1, ProducerTyped
  <2> QED BY <1>1, <1>2, <2>1
<1>4. RegionOK(s) /\ StreamOK(s) /\ Keeps(s, block) /\ s.op = op
  <2> HIDE DEF pv
  <2>1. RegionOK(s) /\ StreamOK(s) /\ s.op = Region.op
    BY <1>3, StateOK, ProvKeeps
  <2> HIDE DEF s
  <2> QED BY <2>1, StateOK DEF Keeps, Owned
<1>5. RegionOK(joined) /\ StreamOK(joined) /\ Keeps(joined, block)
  <2> DEFINE o == IF op # None /\ n = op.node THEN [op EXCEPT !.refs = @ \cup adopted] ELSE op
  <2>0. joined = [s EXCEPT !.op = o]
    <3>1. Region.op = op /\ Region.prov = prov
      BY DEF Region
    <3>2. pv = [x \in Arrays |-> IF x \in adopted /\ Region.prov[x] = Raw
                  THEN Producer(n, pass[n], 0, tracing[n]) ELSE Region.prov[x]]
      BY <3>1, Zenon
    <3>3. o = Adopting(Region.op, n, adopted)
      BY <3>1 DEF Adopting
    <3>4. joined = [Region EXCEPT !.prov = pv, !.op = o]
      BY <3>2, <3>3, Zenon
    <3> HIDE DEF pv, o, joined
    <3> QED BY <3>4 DEF Region
  <2>1. CASE op # None /\ n = op.node
    <3>1. op \in OpenRegions
      BY <2>1 DEF IInv, TypeOK
    <3>2. o = [op EXCEPT !.refs = @ \cup adopted]
      BY <2>1
    <3> HIDE DEF o
    <3>3. /\ o \in OpenRegions
          /\ o.owned = op.owned /\ o.node = op.node /\ o.capture = op.capture
          /\ o.seg = op.seg
      BY <1>1, <3>1, <3>2, AdoptedFacts
    <3> HIDE DEF s, joined
    <3>4. /\ RegionOK(joined) /\ StreamOK(joined)
          /\ joined.op # None /\ joined.op.owned = s.op.owned /\ joined.op.node = s.op.node
      BY <1>4, <2>0, <2>1, <3>3, NotedKeeps
    <3> QED BY <1>4, <2>1, <3>4 DEF Keeps, Owned
  <2>2. CASE ~(op # None /\ n = op.node)
    <3>1. joined = s
      <4>1. o = op
        BY <2>2
      <4> HIDE DEF o, s, joined
      <4> QED BY <1>4, <2>0, <4>1 DEF RegionOK, RegionRecords
    <3> QED BY <1>4, <3>1
  <2> QED BY <2>1, <2>2
<1>6. RegionOK(c) /\ StreamOK(c) /\ Keeps(c, block)
  <2> HIDE DEF joined
  <2>1. CASE flight.out \in TorchBacked
    <3>1. flight.site \in Closers
      BY <1>1 DEF Flights, Closers
    <3>2. c = CloseUnowned(joined, flight.site)
      BY <2>1
    <3> HIDE DEF c
    <3>3. RegionOK(c) /\ StreamOK(c) /\ (c = joined \/ (~Owned(joined) /\ c.op = None))
      BY <1>2, <1>5, <3>1, <3>2, CloseKeeps
    <3> QED BY <1>5, <3>3, CloseKeepsBlock
  <2>2. CASE flight.out \notin TorchBacked
    BY <1>5, <2>2
  <2> QED BY <2>1, <2>2
<1>7. Becomes(c) /\ block' = block /\ flight' = None
  BY DEF WarpReturn
<1>8. Others'
  <2>1. writer' \in [Arrays -> Producers]
    <3>1. CASE n = None
      BY <3>1, StateOK DEF WarpReturn, Others
    <3>2. CASE n # None
      <4>1. pass[n] \in Nat /\ flight.id \in Nat /\ n \in Nodes
        BY <1>1, <1>2, <3>2 DEF Flights
      <4>2. Producer(n, pass[n], flight.id, FALSE) \in Producers
        BY <4>1, ProducerTyped
      <4>3. writer' = [writer EXCEPT ![flight.out] = Producer(n, pass[n], flight.id, FALSE)]
        BY <3>2 DEF WarpReturn
      <4> QED BY <4>2, <4>3, StateOK DEF Others
    <3> QED BY <3>1, <3>2
  <2> HIDE DEF c
  <2> QED BY <1>7, <2>1, StateOK DEF WarpReturn, Others
<1>9. raised \in BOOLEAN
  BY DEF IInv, TypeOK
<1> HIDE DEF c
<1> QED BY <1>6, <1>7, <1>8, <1>9, RecordOK
-----------------------------------------------------------------------------
(* The theorems. *)

\* What a label makes the program do.
LEMMA StepCases ==
    ASSUME Next
    PROVE  \/ \E n \in Nodes, site \in Sites :
                InputTensors(n, site) \/ EnterBlock(n, site) \/ OutputTensors(n, site)
           \/ \E f \in Calls, x, out \in Arrays, site \in Sites :
                WarpCall(f, {x, out}, out, site)
           \/ WarpReturn
           \/ \E site \in Sites : CudaWork(site) \/ Synchronize(site)
           \/ \E site \in Sites : ExitBlock(site, FALSE) \/ ExitBlock(site, TRUE)
           \/ \E x \in Arrays : TorchOperation(x)
           \/ LoseArchive
<1>1. PICK l \in Steps : Do(l)
  BY DEF Next
<1>2. CASE l \in {"input", "block", "output"} \X Nodes \X Sites
  <2>1. /\ l[1] \in {"input", "block", "output"} /\ l[2] \in Nodes /\ l[3] \in Sites
    BY <1>2
  <2>2. InputTensors(l[2], l[3]) \/ EnterBlock(l[2], l[3]) \/ OutputTensors(l[2], l[3])
    BY <1>1, <2>1 DEF Do
  <2> QED BY <2>1, <2>2
<1>3. CASE l \in {"call"} \X Calls \X Arrays \X Arrays \X Sites
  <2>1. l[1] = "call" /\ l[2] \in Calls /\ l[3] \in Arrays /\ l[4] \in Arrays /\ l[5] \in Sites
    BY <1>3
  <2>2. WarpCall(l[2], {l[3], l[4]}, l[4], l[5])
    BY <1>1, <2>1 DEF Do
  <2> QED BY <2>1, <2>2
<1>4. CASE l \in {"cuda", "sync", "exit", "raise"} \X Sites
  <2>1. l[1] \in {"cuda", "sync", "exit", "raise"} /\ l[2] \in Sites
    BY <1>4
  <2>2. CASE l[1] \in {"cuda", "sync"}
    <3>1. CudaWork(l[2]) \/ Synchronize(l[2])
      BY <1>1, <2>2 DEF Do
    <3> QED BY <2>1, <3>1
  <2>3. CASE l[1] \in {"exit", "raise"}
    <3>1. ExitBlock(l[2], FALSE) \/ ExitBlock(l[2], TRUE)
      BY <1>1, <2>3 DEF Do
    <3> QED BY <2>1, <3>1
  <2> QED BY <2>1, <2>2, <2>3
<1>5. CASE l \in {"torch"} \X Arrays
  <2>1. l[1] = "torch" /\ l[2] \in Arrays
    BY <1>5
  <2>2. TorchOperation(l[2])
    BY <1>1, <2>1 DEF Do
  <2> QED BY <2>1, <2>2
<1>6. CASE l = <<"return">>
  BY <1>1, <1>6 DEF Do
<1>7. CASE l = <<"lose">>
  BY <1>1, <1>7 DEF Do
<1> QED BY <1>1, <1>2, <1>3, <1>4, <1>5, <1>6, <1>7 DEF Steps

LEMMA StutterOK == IInv /\ UNCHANGED vars => IInv'
  BY DEF vars, IInv, TypeOK, NextQueued, StreamCaptured, BlockKeepsRegion

LEMMA StepOK == IInv /\ [Next]_vars => IInv'
<1> SUFFICES ASSUME IInv, [Next]_vars PROVE IInv'
  OBVIOUS
<1>1. CASE Next
  <2>1. ASSUME NEW n \in Nodes, NEW site \in Sites,
               InputTensors(n, site) \/ EnterBlock(n, site) \/ OutputTensors(n, site)
        PROVE  IInv'
    BY <2>1, InputTensorsOK, EnterBlockOK, OutputTensorsOK
  <2>2. ASSUME NEW f \in Calls, NEW x \in Arrays, NEW out \in Arrays, NEW site \in Sites,
               WarpCall(f, {x, out}, out, site)
        PROVE  IInv'
    <3>1. {x, out} \in SUBSET Arrays
      OBVIOUS
    <3> QED BY <2>2, <3>1, WarpCallOK
  <2>3. ASSUME NEW site \in Sites, CudaWork(site) \/ Synchronize(site) PROVE IInv'
    BY <2>3, CudaWorkOK, SynchronizeOK
  <2>4. ASSUME NEW site \in Sites, ExitBlock(site, FALSE) \/ ExitBlock(site, TRUE)
        PROVE  IInv'
    BY <2>4, ExitBlockOK
  <2>5. ASSUME NEW x \in Arrays, TorchOperation(x) PROVE IInv'
    BY <2>5, TorchOperationOK
  <2> QED BY <1>1, <2>1, <2>2, <2>3, <2>4, <2>5, StepCases, WarpReturnOK, LoseArchiveOK
<1>2. CASE UNCHANGED vars
  BY <1>2, StutterOK
<1> QED BY <1>1, <1>2

LEMMA AlwaysIInv == Spec => []IInv
<1>1. Init => IInv
  BY InitOK
<1>2. IInv /\ [Next]_vars => IInv'
  BY StepOK
<1> QED BY <1>1, <1>2, PTL DEF Spec

\* The state of a trace session and of its nodes is always well formed; in
\* particular the region being captured, and every region queued for capture,
\* is one the discovery pass recorded (_discovered_warp_segments), so that a
\* capture pass never looks up a region that is not there.
THEOREM TypeCorrect == Spec => []TypeOK
<1>1. IInv => TypeOK
  BY DEF IInv
<1> QED BY <1>1, AlwaysIInv, PTL

\* The region of a `with warp_op()` block stays open until the block is left,
\* whatever boundary, callback, Warp call or other node comes between: only
\* WarpOp.__exit__ closes it, and it closes it also when it raises.
THEOREM BlockAlways == Spec => []BlockKeepsRegion
<1>1. IInv => BlockKeepsRegion
  BY DEF IInv
<1> QED BY <1>1, AlwaysIInv, PTL

\* A ScopedCapture is open exactly while a region is being captured for a
\* node with an export backend: every way a captured region ends, by a
\* boundary, a mismatch with discovery or an exception, ends the capture.
THEOREM StreamAlways == Spec => []StreamCaptured
<1>1. IInv => StreamCaptured
  BY DEF IInv
<1> QED BY <1>1, AlwaysIInv, PTL

-----------------------------------------------------------------------------
(* Where the value of an array comes from.  w stands for `writer`, which   *)
(* a returning call changes before it closes a region.                     *)

\* What an output of node n must be: a producer of this pass, and not one
\* from before the region that wrote the value.
Follows(n, v) ==
    /\ ~v[1].pending /\ v[1].node = n /\ v[1].pass = pass[n]
    /\ v[2].node = n /\ v[2].pass = pass[n] => v[1].id >= v[2].id

\* Every array of a node being traced has such a producer, or belongs to the
\* region that is open and gets one when it closes.
Flow(r, w) ==
    \A n \in Nodes : \A x \in Arrays :
        tracing[n] /\ r.prov[x].node = n /\ r.prov[x].pass = pass[n]
        => \/ r.op # None /\ r.op.node = n /\ x \in r.op.refs
           \/ Follows(n, <<r.prov[x], w[x]>>)

\* Producers and writers are of passes that have begun.
Dated(f) == \A x \in Arrays : f[x] = Raw \/ (f[x].node \in Nodes /\ f[x].pass \in 1 .. pass[f[x].node])

\* A writer of this pass is a region that has begun.
Begun(r, w) ==
    \A n \in Nodes : \A x \in Arrays :
        tracing[n] /\ w[x].node = n /\ w[x].pass = pass[n] => w[x].id =< r.begun[n]

\* The open region is the last one begun, of a node being traced; without
\* calls it has no arrays, and if no block owns it they are all its node's.
Latest(r) ==
    r.op # None =>
        /\ tracing[r.op.node] /\ pass[r.op.node] > 0
        /\ r.op.id = r.begun[r.op.node]
        /\ r.op.calls = <<>> => r.op.refs = {}
        /\ ~r.op.owned => \A x \in r.op.refs :
              r.prov[x].node = r.op.node /\ r.prov[x].pass = pass[r.op.node]

Books(r, w) == Dated(r.prov) /\ Dated(w) /\ Begun(r, w) /\ Latest(r)

\* The call being executed: its region stays open and its arguments are raw
\* or its node's.
Executing ==
    flight # None =>
        /\ ~raised /\ flight.out \in flight.args
        /\ op # None /\ flight.node \in {None, op.node} => op.calls # <<>>
        /\ flight.node # None =>
              /\ pass[flight.node] > 0
              /\ \A x \in flight.args : prov[x] = Raw
                    \/ (prov[x].node = flight.node /\ prov[x].pass = pass[flight.node])
              /\ tracing[flight.node] =>
                    op # None /\ op.node = flight.node /\ flight.id = op.id

\* What has been computed and what a node was compiled with.
Results ==
    \A n \in Nodes :
        /\ tracing[n] /\ result[n] # None => Follows(n, result[n])
        /\ ~tracing[n] => Follows(n, outputs[n])

FlowInv == /\ Books(Region, writer) /\ (~raised => Flow(Region, writer))
           /\ Executing /\ Results

LEMMA RawFacts == Raw.node = None /\ Raw.node \notin Nodes
BY NoneAssumption DEF Raw, Producer

\* A region that closes: what it owes its arrays.
Owing(r, o, w) ==
    \A n \in Nodes : \A x \in Arrays :
        tracing[n] /\ r.prov[x].node = n /\ r.prov[x].pass = pass[n]
        => (o.node = n /\ x \in o.refs) \/ Follows(n, <<r.prov[x], w[x]>>)

\* The same arrays, of the same nodes and passes.
SameNodes(f, g) == \A x \in Arrays : f[x].node = g[x].node /\ f[x].pass = g[x].pass

\* The runner is the producer of every array of its region.
LEMMA MarkerFlows ==
    ASSUME NEW r, RegionOK(r), r.op = None, NEW o \in OpenRegions, NEW real \in BOOLEAN,
           NEW w \in [Arrays -> Producers], pass \in [Nodes -> Nat],
           Dated(r.prov), Dated(w), Begun(r, w), tracing[o.node], pass[o.node] > 0,
           o.id = r.begun[o.node], o.calls = <<>> => o.refs = {},
           NEW m, m = Marker(r, o, real)
    PROVE  /\ Books(m, w)
           /\ Owing(r, o, w) /\ m.ok => Flow(m, w)
           /\ (\A x \in o.refs : r.prov[x].node = o.node /\ r.prov[x].pass = pass[o.node])
              => SameNodes(m.prov, r.prov)
<1>1. o.node \in Nodes /\ o.id \in Nat /\ o.refs \in SUBSET Arrays
  BY DEF OpenRegions
<1>2. RegionOK(m) /\ m.op = None
  BY MarkerKeeps
<1>3. Latest(m)
  BY <1>2 DEF Latest
<1>4. CASE o.calls = <<>> \/ Foreign(r, o) # {}
  <2>1. m = r \/ m = [r EXCEPT !.ok = FALSE]
    BY <1>4 DEF Marker
  <2>2. m.prov = r.prov /\ m.begun = r.begun /\ (m.ok => m = r)
    BY <2>1 DEF RegionOK, RegionRecords
  <2>3. Begun(m, w) /\ Dated(m.prov)
    BY <2>2 DEF Begun
  <2>4. SameNodes(m.prov, r.prov)
    BY <2>2 DEF SameNodes
  <2>5. ASSUME Owing(r, o, w), m.ok PROVE Flow(m, w)
    <3>1. m = r /\ o.refs = {}
      <4>1. o.calls = <<>>
        <5>1. CASE o.calls # <<>>
          <6>1. m = [r EXCEPT !.ok = FALSE]
            BY <1>4, <5>1 DEF Marker
          <6> QED BY <2>5, <6>1 DEF RegionOK, RegionRecords
        <5> QED BY <5>1
      <4> QED BY <2>2, <2>5, <4>1
    <3> QED BY <2>5, <3>1 DEF Owing, Flow
  <2> QED BY <1>3, <2>3, <2>4, <2>5 DEF Books
<1>5. CASE ~(o.calls = <<>> \/ Foreign(r, o) # {})
  <2> DEFINE p == Producer(o.node, pass[o.node], o.id, FALSE)
             all == [x \in Arrays |-> IF x \in o.refs THEN p ELSE r.prov[x]]
             rs == [r.runners EXCEPT ![o.node] =
                      Append(@, [seg |-> o.seg, calls |-> o.calls, real |-> real])]
  <2>1. m = [r EXCEPT !.runners = rs, !.prov = all]
    BY <1>5 DEF Marker, RegionOK, RegionRecords
  <2>2. m.prov = all /\ m.begun = r.begun
    <3> HIDE DEF rs, all
    <3> QED BY <2>1 DEF RegionOK, RegionRecords
  <2>3. /\ p.node = o.node /\ p.pass = pass[o.node] /\ p.id = o.id /\ ~p.pending
        /\ pass[o.node] \in Nat
    BY <1>1 DEF Producer
  <2> HIDE DEF p, rs
  <2>4. /\ \A x \in o.refs : m.prov[x] = p
        /\ \A x \in Arrays \ o.refs : m.prov[x] = r.prov[x]
    BY <1>1, <2>2
  <2> HIDE DEF all
  <2>5. Begun(m, w)
    BY <2>2 DEF Begun
  <2>6. Dated(m.prov)
    <3> SUFFICES ASSUME NEW x \in Arrays
                 PROVE  \/ m.prov[x] = Raw
                        \/ /\ m.prov[x].node \in Nodes
                           /\ m.prov[x].pass \in 1 .. pass[m.prov[x].node]
      BY DEF Dated
    <3>1. CASE x \in o.refs
      BY <1>1, <2>3, <2>4, <3>1
    <3>2. CASE x \notin o.refs
      BY <2>4, <3>2 DEF Dated
    <3> QED BY <3>1, <3>2
  <2>7. ASSUME Owing(r, o, w), m.ok PROVE Flow(m, w)
    <3> SUFFICES ASSUME NEW n \in Nodes, NEW x \in Arrays,
                        tracing[n], m.prov[x].node = n, m.prov[x].pass = pass[n]
                 PROVE  Follows(n, <<m.prov[x], w[x]>>)
      BY <1>2 DEF Flow
    <3>1. CASE x \in o.refs
      <4>1. n = o.node /\ m.prov[x] = p
        BY <2>3, <2>4, <3>1
      <4>2. w[x].node = n /\ w[x].pass = pass[n] => w[x].id =< o.id
        BY <4>1 DEF Begun
      <4> QED BY <1>1, <2>3, <4>1, <4>2 DEF Follows, Producers
    <3>2. CASE x \notin o.refs
      BY <2>4, <2>7, <3>2 DEF Owing
    <3> QED BY <3>1, <3>2
  <2>8. ASSUME \A x \in o.refs : r.prov[x].node = o.node /\ r.prov[x].pass = pass[o.node]
        PROVE  SameNodes(m.prov, r.prov)
    BY <2>3, <2>4, <2>8 DEF SameNodes
  <2> QED BY <1>3, <2>5, <2>6, <2>7, <2>8 DEF Books
<1> QED BY <1>4, <1>5

\* However the open region ends, and unless it fails, its arrays have values.
LEMMA TerminateFlows ==
    ASSUME NEW r, RegionOK(r), r.op # None, NEW site \in Closers, NEW exc \in BOOLEAN,
           NEW w \in [Arrays -> Producers], pass \in [Nodes -> Nat], Books(r, w),
           NEW t, t = Terminate(r, site, exc)
    PROVE  /\ Books(t, w)
           /\ Flow(r, w) /\ t.ok /\ ~exc => Flow(t, w)
           /\ ~r.op.owned => SameNodes(t.prov, r.prov)
<1> DEFINE o == r.op
<1>1. /\ o \in OpenRegions /\ o.node \in Nodes
      /\ Dated(r.prov) /\ Dated(w) /\ Begun(r, w) /\ Latest(r)
  BY DEF RegionOK, RegionRecords, OpenRegions, Books
<1>2. /\ tracing[o.node] /\ pass[o.node] > 0 /\ o.id = r.begun[o.node]
      /\ o.calls = <<>> => o.refs = {}
      /\ ~o.owned => \A x \in o.refs : r.prov[x].node = o.node /\ r.prov[x].pass = pass[o.node]
  BY <1>1 DEF Latest
<1>3. Flow(r, w) => Owing(r, o, w)
  BY DEF Flow, Owing
<1>4. CASE ~o.capture
  <2> DEFINE left == Discovered(r, site)
             u == Numbered(r)
  <2>1. t = Marker(left, u, FALSE)
    BY <1>4 DEF Terminate, TerminateDiscovery, Discovered, Numbered
  <2>2. /\ RegionOK(left) /\ left.op = None /\ left.prov = r.prov /\ left.begun = r.begun
        /\ u \in OpenRegions
    BY DiscoveryLeft
  <2>4. /\ u.node = o.node /\ u.calls = o.calls /\ u.refs = o.refs /\ u.id = o.id
    BY <1>1 DEF Numbered, OpenRegions
  <2> HIDE DEF left, u, o
  <2>5. Begun(left, w) /\ (Owing(r, o, w) => Owing(left, u, w))
    BY <1>1, <2>2, <2>4 DEF Begun, Owing
  <2> QED BY <1>1, <1>2, <1>3, <2>1, <2>2, <2>4, <2>5, MarkerFlows DEF o
<1>5. CASE o.capture
  <2> DEFINE left == [r EXCEPT !.op = None, !.stream = FALSE]
             real == o.node \in Exporting
             done == Marker(left, o, real)
             popped == [done EXCEPT !.pending[o.node] = Tail(@)]
  <2>1. /\ RegionOK(left) /\ left.op = None /\ left.prov = r.prov /\ left.begun = r.begun
    BY DEF RegionOK, RegionRecords, QueueOK
  <2>2. t \in {[left EXCEPT !.ok = FALSE]} \/ (t = left /\ exc) \/ (t = popped /\ done.ok)
    BY <1>5 DEF Terminate, TerminateCapture
  <2>3. CASE t \in {[left EXCEPT !.ok = FALSE]} \/ (t = left /\ exc)
    <3>1. t.op = None /\ t.prov = r.prov /\ t.begun = r.begun /\ (t.ok => exc)
      <4> HIDE DEF left
      <4> QED BY <2>1, <2>3 DEF RegionOK, RegionRecords
    <3> QED BY <1>1, <3>1 DEF Books, Begun, Latest, SameNodes
  <2>4. CASE t = popped /\ done.ok
    <3>1. real \in BOOLEAN
      OBVIOUS
    <3> HIDE DEF left, real, o
    <3>2. Begun(left, w) /\ (Owing(r, o, w) => Owing(left, o, w))
      BY <1>1, <2>1 DEF Begun, Owing
    <3>3. /\ Books(done, w) /\ (Owing(left, o, w) => Flow(done, w))
          /\ ~o.owned => SameNodes(done.prov, r.prov)
      BY <1>1, <1>2, <2>1, <2>4, <3>1, <3>2, MarkerFlows
    <3>6. RegionOK(done) /\ done.op = None
      BY <1>1, <2>1, <3>1, MarkerKeeps
    <3> HIDE DEF done
    <3>4. popped.op = None /\ popped.prov = done.prov /\ popped.begun = done.begun
      BY <3>6 DEF RegionOK, RegionRecords
    <3>5. Books(popped, w) /\ (Flow(done, w) => Flow(popped, w))
      BY <3>3, <3>4 DEF Books, Begun, Latest, Flow
    <3> QED BY <1>3, <2>4, <3>2, <3>3, <3>4, <3>5 DEF o, SameNodes
  <2> QED BY <2>2, <2>3, <2>4
<1> QED BY <1>4, <1>5

\* A boundary keeps the books, and the nodes of all arrays.
LEMMA CloseFlows ==
    ASSUME NEW r, RegionOK(r), NEW site \in Closers,
           NEW w \in [Arrays -> Producers], pass \in [Nodes -> Nat], Books(r, w),
           NEW c, c \in {Close(r, site), CloseUnowned(r, site)}
    PROVE  /\ Books(c, w)
           /\ Flow(r, w) /\ c.ok => Flow(c, w)
           /\ SameNodes(c.prov, r.prov)
           /\ flight = None /\ c.op # None => c = r /\ c.op.owned
<1>1. CASE c = r /\ (flight # None \/ r.op = None \/ r.op.owned)
  BY <1>1 DEF SameNodes
<1>2. CASE c = r /\ c = CloseUnowned(r, site) /\ r.op # None /\ ~r.op.owned
  <2>1. c = Terminate(r, site, FALSE) /\ FALSE \in BOOLEAN
    BY <1>2 DEF CloseUnowned
  <2>2. c.op = None
    <3>1. CASE r.op.capture
      BY <1>2, <2>1, <3>1, CaptureKeeps DEF Terminate
    <3>2. CASE ~r.op.capture
      BY <1>2, <2>1, <3>2, DiscoveryKeeps DEF Terminate
    <3> QED BY <3>1, <3>2
  <2> QED BY <1>2, <2>2
<1>3. CASE r.op # None /\ ~r.op.owned /\ c = Terminate(r, site, FALSE)
  <2>1. FALSE \in BOOLEAN
    OBVIOUS
  <2>2. c.op = None
    <3>1. CASE r.op.capture
      BY <1>3, <2>1, <3>1, CaptureKeeps DEF Terminate
    <3>2. CASE ~r.op.capture
      BY <1>3, <2>1, <3>2, DiscoveryKeeps DEF Terminate
    <3> QED BY <3>1, <3>2
  <2>3. /\ Books(c, w)
        /\ Flow(r, w) /\ c.ok => Flow(c, w)
        /\ SameNodes(c.prov, r.prov)
    BY <1>3, <2>1, TerminateFlows
  <2> QED BY <2>2, <2>3
<1> QED BY <1>1, <1>2, <1>3 DEF Close, CloseUnowned

\* The region opened next has no arrays yet.
LEMMA OpenedFlows ==
    ASSUME NEW r, RegionOK(r), r.op = None, NEW n \in Nodes, NEW site \in Sites,
           NEW owned \in BOOLEAN, NEW seg \in Nat,
           NEW w \in [Arrays -> Producers], pass \in [Nodes -> Nat],
           Books(r, w), tracing[n], pass[n] > 0,
           NEW b, b = Opened(r, n, site, owned, seg)
    PROVE  Books(b, w) /\ (Flow(r, w) => Flow(b, w)) /\ b.prov = r.prov
<1> DEFINE o == [node |-> n, owned |-> owned, capture |-> capture[n],
                 seg |-> seg, open |-> site, calls |-> <<>>,
                 refs |-> {}, ins |-> {}, lost |-> FALSE, id |-> r.begun[n] + 1]
           st == capture[n] /\ n \in Exporting
           bg == [r.begun EXCEPT ![n] = @ + 1]
<1>1. r.begun \in [Nodes -> Nat]
  BY DEF RegionOK, RegionRecords
<1>2. b = [r EXCEPT !.begun = bg, !.stream = st, !.op = o]
  BY DEF Opened, RegionOK, RegionRecords
<1>3. /\ o.node = n /\ o.id = r.begun[n] + 1 /\ o.refs = {}
      /\ bg[n] = r.begun[n] + 1 /\ \A m \in Nodes : bg[m] \in Nat /\ r.begun[m] =< bg[m]
  BY <1>1
<1> HIDE DEF o, st, bg
<1>4. b.op = o /\ b.begun = bg /\ b.prov = r.prov
  BY <1>2 DEF RegionOK, RegionRecords
<1>5. Begun(b, w)
  <2> SUFFICES ASSUME NEW m \in Nodes, NEW x \in Arrays,
                      tracing[m], w[x].node = m, w[x].pass = pass[m]
               PROVE  w[x].id =< b.begun[m]
    BY DEF Begun
  <2>1. w[x].id =< r.begun[m] /\ w[x].id \in Nat
    BY DEF Books, Begun, Producers
  <2> QED BY <1>1, <1>3, <1>4, <2>1
<1>6. Latest(b)
  BY <1>3, <1>4 DEF Latest
<1>7. Flow(r, w) => Flow(b, w)
  BY <1>4 DEF Flow
<1> QED BY <1>4, <1>5, <1>6, <1>7 DEF Books

LEMMA BeginFlows ==
    ASSUME NEW r, RegionOK(r), StreamOK(r), NEW n \in Nodes, NEW site \in Sites,
           NEW owned \in BOOLEAN, NEW w \in [Arrays -> Producers],
           pass \in [Nodes -> Nat], capture \in [Nodes -> BOOLEAN],
           Books(r, w), tracing[n], pass[n] > 0,
           NEW b, b = Begin(r, n, site, owned)
    PROVE  /\ Books(b, w)
           /\ Flow(r, w) /\ b.ok => Flow(b, w)
           /\ SameNodes(b.prov, r.prov)
<1> DEFINE q == IF r.op = None THEN r
                ELSE IF r.op.owned THEN [r EXCEPT !.ok = FALSE]
                ELSE Terminate(r, site, FALSE)
           seg == Head(q.pending[n])
<1>1. b = IF ~q.ok THEN q
          ELSE IF ~capture[n] THEN Opened(q, n, site, owned, 0)
          ELSE IF \/ q.pending[n] = <<>>
                  \/ q.segs[n][seg].open # site
               THEN [q EXCEPT !.ok = FALSE]
          ELSE Opened(q, n, site, owned, seg)
  BY DEF Begin
<1>2. /\ RegionOK(q) /\ Books(q, w) /\ SameNodes(q.prov, r.prov)
      /\ Flow(r, w) /\ q.ok => Flow(q, w)
      /\ q.ok => q.op = None
  <2>1. CASE r.op = None
    BY <2>1 DEF SameNodes
  <2>2. CASE r.op # None /\ r.op.owned
    <3>1. q = [r EXCEPT !.ok = FALSE]
      BY <2>2
    <3> HIDE DEF q
    <3>2. /\ RegionOK(q) /\ ~q.ok /\ q.op = r.op /\ q.prov = r.prov /\ q.begun = r.begun
      BY <3>1 DEF RegionOK, RegionRecords, QueueOK
    <3> QED BY <3>2 DEF Books, Begun, Latest, SameNodes
  <2>3. CASE r.op # None /\ ~r.op.owned
    <3>1. q = Terminate(r, site, FALSE)
      BY <2>3
    <3>2. site \in Closers /\ FALSE \in BOOLEAN
      BY DEF Closers
    <3> HIDE DEF q
    <3>3. RegionOK(q) /\ q.op = None
      BY <2>3, <3>1, <3>2, TerminateKeeps
    <3>4. /\ Books(q, w)
          /\ Flow(r, w) /\ q.ok => Flow(q, w)
          /\ SameNodes(q.prov, r.prov)
      BY <2>3, <3>1, <3>2, TerminateFlows
    <3> QED BY <3>3, <3>4
  <2> QED BY <2>1, <2>2, <2>3
<1>3. CASE ~q.ok
  BY <1>1, <1>2, <1>3
<1>4. CASE q.ok /\ b = [q EXCEPT !.ok = FALSE]
  <2> HIDE DEF q
  <2>1. ~b.ok /\ b.op = q.op /\ b.prov = q.prov /\ b.begun = q.begun
    BY <1>2, <1>4 DEF RegionOK, RegionRecords
  <2> QED BY <1>2, <2>1 DEF Books, Begun, Latest
<1>5. ASSUME q.ok, NEW k \in Nat, b = Opened(q, n, site, owned, k)
      PROVE  /\ Books(b, w)
             /\ Flow(r, w) /\ b.ok => Flow(b, w)
             /\ SameNodes(b.prov, r.prov)
  <2> HIDE DEF q
  <2>1. Books(b, w) /\ (Flow(q, w) => Flow(b, w)) /\ b.prov = q.prov
    BY <1>2, <1>5, OpenedFlows
  <2> QED BY <1>2, <1>5, <2>1
<1>6. CASE q.ok /\ ~capture[n]
  <2> 0 \in Nat
    OBVIOUS
  <2> QED BY <1>1, <1>5, <1>6
<1>7. CASE q.ok /\ capture[n] /\ (q.pending[n] = <<>> \/ q.segs[n][seg].open # site)
  BY <1>1, <1>4, <1>7
<1>8. CASE q.ok /\ capture[n] /\ q.pending[n] # <<>> /\ q.segs[n][seg].open = site
  <2>1. q.pending[n] \in Seq(Nat)
    BY <1>2 DEF RegionOK, RegionRecords
  <2>2. seg \in Nat
    BY <1>8, <2>1, HeadTailProperties
  <2> HIDE DEF q
  <2> QED BY <1>1, <1>5, <1>8, <2>2
<1> QED BY <1>3, <1>6, <1>7, <1>8

\* The state seen as a record, and what a step makes of it.
LEMMA StateFlows ==
    ASSUME IInv, FlowInv
    PROVE  /\ RegionOK(Region) /\ StreamOK(Region) /\ Books(Region, writer)
           /\ ~raised => Flow(Region, writer)
           /\ Region.op = op /\ Region.prov = prov /\ Region.begun = begun
           /\ pass \in [Nodes -> Nat] /\ writer \in [Arrays -> Producers]
           /\ capture \in [Nodes -> BOOLEAN] /\ raised \in BOOLEAN
<1>1. Region.begun = begun
  BY DEF Region
<1> QED BY <1>1, StateOK DEF FlowInv, IInv, TypeOK

LEMMA BecomesFlows ==
    ASSUME NEW r, Becomes(r), UNCHANGED <<pass, tracing>>,
           NEW w, writer' = w
    PROVE  /\ Books(r, w) => Books(Region, writer)'
           /\ Flow(r, w) => Flow(Region, writer)'
           /\ raised' = (raised \/ ~r.ok)
<1>1. /\ Region'.op = r.op /\ Region'.begun = r.begun /\ Region'.prov = r.prov
      /\ raised' = (raised \/ ~r.ok)
  BY DEF Region, Becomes
<1>2. Books(r, w) => Books(Region, writer)'
  BY <1>1 DEF Books, Dated, Begun, Latest
<1>3. Flow(r, w) => Flow(Region, writer)'
  BY <1>1 DEF Flow, Follows
<1> QED BY <1>1, <1>2, <1>3

LEMMA ResultsKept ==
    ASSUME Results, UNCHANGED <<pass, tracing, result, outputs>>
    PROVE  Results'
  BY DEF Results, Follows

\* The region a call joins is its node's, if the node is being traced.
LEMMA ResolveFlows ==
    ASSUME IInv, FlowInv, flight = None, NEW n \in Nodes \cup {None},
           NEW site \in Sites, n # None => pass[n] > 0,
           NEW r, r = Resolve(n, site)
    PROVE  /\ Books(r, writer)
           /\ Flow(Region, writer) /\ r.ok => Flow(r, writer)
           /\ SameNodes(r.prov, prov)
           /\ r.ok /\ n # None /\ tracing[n] => r.op # None /\ r.op.node = n
           /\ r.ok /\ r.op # None /\ ~r.op.owned => n \in {None, r.op.node}
<1> DEFINE c == Close(Region, site)
           b == Begin(c, n, site, FALSE)
<1>1. RegionOK(c) /\ StreamOK(c)
  BY BoundaryOK DEF Closers
<1>2. /\ Books(c, writer)
      /\ Flow(Region, writer) /\ c.ok => Flow(c, writer)
      /\ SameNodes(c.prov, prov)
      /\ c.op # None => c.op.owned
  <2>1. site \in Closers
    BY DEF Closers
  <2> QED BY <2>1, StateFlows, CloseFlows
<1>3. CASE op # None /\ n \in {None, op.node}
  <2>1. r = Region
    BY <1>3 DEF Resolve
  <2> QED BY <1>3, <2>1, StateFlows DEF SameNodes
<1>4. CASE n = None /\ op = None
  <2>1. r = Region
    BY <1>4 DEF Resolve
  <2> QED BY <1>4, <2>1, StateFlows DEF SameNodes
<1>5. CASE n # None /\ ~(op # None /\ n = op.node) /\ ~(c.ok /\ tracing[n])
  <2>1. r = c
    BY <1>5 DEF Resolve
  <2> HIDE DEF c
  <2> QED BY <1>2, <1>5, <2>1
<1>6. CASE n # None /\ ~(op # None /\ n = op.node) /\ c.ok /\ tracing[n]
  <2>1. r = b
    BY <1>6 DEF Resolve
  <2>2. FALSE \in BOOLEAN /\ n \in Nodes
    BY <1>6
  <2> HIDE DEF c
  <2>3. /\ Books(b, writer)
        /\ Flow(c, writer) /\ b.ok => Flow(b, writer)
        /\ SameNodes(b.prov, c.prov)
    BY <1>1, <1>2, <1>6, <2>2, StateFlows, BeginFlows
  <2>4. b.ok => b.op # None /\ b.op.node = n
    BY <1>1, <2>2, StateFlows, BeginKeeps
  <2> HIDE DEF b
  <2> QED BY <1>2, <1>6, <2>1, <2>3, <2>4 DEF SameNodes
<1> QED BY <1>3, <1>4, <1>5, <1>6

-----------------------------------------------------------------------------
(* One lemma per action, for where values come from. *)

LEMMA SynchronizeFlows ==
    ASSUME IInv, FlowInv, NEW site \in Sites, Synchronize(site)
    PROVE  FlowInv'
<1> DEFINE c == Close(Region, site)
<1>1. /\ Books(c, writer)
      /\ Flow(Region, writer) /\ c.ok => Flow(c, writer)
  <2>1. site \in Closers
    BY DEF Closers
  <2> QED BY <2>1, StateFlows, CloseFlows
<1>2. /\ Becomes(c) /\ flight' = None
      /\ UNCHANGED <<pass, tracing, writer, result, outputs>>
  BY DEF Synchronize, Idle
<1> HIDE DEF c
<1>3. /\ Books(Region, writer)'
      /\ Flow(c, writer) => Flow(Region, writer)'
      /\ raised' = (raised \/ ~c.ok)
  BY <1>1, <1>2, BecomesFlows
<1>4. Executing' /\ Results'
  BY <1>2, ResultsKept DEF FlowInv, Executing
<1> QED BY <1>1, <1>3, <1>4, StateFlows DEF FlowInv

LEMMA CudaWorkFlows ==
    ASSUME IInv, FlowInv, Usage = {}, NEW site \in Sites, CudaWork(site)
    PROVE  FlowInv'
<1> DEFINE c == Close(Region, site)
           r == [c EXCEPT !.ok = TRUE]
<1>1. /\ Books(c, writer) /\ RegionOK(c) /\ c.ok
      /\ Flow(Region, writer) => Flow(c, writer)
  <2>1. site \in Closers
    BY DEF Closers
  <2>2. c.ok
    BY DEF CudaWork
  <2>3. /\ Books(c, writer)
        /\ Flow(Region, writer) /\ c.ok => Flow(c, writer)
    BY <2>1, StateFlows, CloseFlows
  <2>4. RegionOK(c)
    BY <2>1, BoundaryOK
  <2> QED BY <2>2, <2>3, <2>4
<1>2. /\ Becomes(r) /\ UNCHANGED <<flight, pass, tracing, writer, result, outputs>>
  BY DEF CudaWork
<1>3. flight # None => c = Region
  BY DEF Close
<1> HIDE DEF c
<1>4. r.op = c.op /\ r.prov = c.prov /\ r.begun = c.begun /\ r.ok = TRUE
  BY <1>1 DEF RegionOK, RegionRecords
<1>5. Books(r, writer) /\ (Flow(c, writer) => Flow(r, writer))
  BY <1>1, <1>4 DEF Books, Begun, Latest, Flow
<1>6. r.op = c.op /\ r.prov = c.prov /\ op' = r.op /\ prov' = r.prov
  BY <1>2, <1>4 DEF Becomes
<1> HIDE DEF r
<1>7. /\ Books(Region, writer)'
      /\ Flow(r, writer) => Flow(Region, writer)'
      /\ raised' = (raised \/ ~r.ok)
  BY <1>2, <1>5, BecomesFlows
<1>8. Executing'
  <2>1. CASE flight = None
    BY <1>2, <2>1 DEF Executing
  <2>2. CASE flight # None
    <3>1. op' = op /\ prov' = prov /\ raised' = raised
      BY <1>3, <1>4, <1>6, <1>7, <2>2, StateFlows
    <3> QED BY <1>2, <3>1 DEF FlowInv, Executing
  <2> QED BY <2>1, <2>2
<1>9. Results'
  BY <1>2, ResultsKept DEF FlowInv
<1> QED BY <1>1, <1>4, <1>5, <1>7, <1>8, <1>9, StateFlows DEF FlowInv

\* What a torch operation reads is not an array of an open region: the
\* region closes first.
LEMMA TorchOperationFlows ==
    ASSUME IInv, FlowInv, Usage = {}, NEW x \in Arrays, TorchOperation(x)
    PROVE  FlowInv'
<1> DEFINE c == Close(Region, FxSite)
           n == prov[x].node
<1>1. /\ Books(c, writer) /\ SameNodes(c.prov, prov)
      /\ Flow(Region, writer) /\ c.ok => Flow(c, writer)
      /\ c.op # None => c = Region /\ c.op.owned
  <2>1. FxSite \in Closers /\ flight = None
    BY DEF Closers, TorchOperation, Idle
  <2> QED BY <2>1, StateFlows, CloseFlows
<1>2. c.op = None
  BY <1>1, StateFlows DEF TorchOperation
<1>3. /\ Becomes(c) /\ flight' = None /\ ~raised
      /\ UNCHANGED <<pass, tracing, writer, outputs>>
  BY DEF TorchOperation, Idle
<1>4. /\ result' = IF c.ok THEN [result EXCEPT ![n] = <<c.prov[x], writer[x]>>] ELSE result
      /\ tracing[n] /\ prov[x] # Raw /\ prov[x].pass = pass[n]
  BY DEF TorchOperation, Stale
<1>5. n \in Nodes
  <2>1. Dated(prov)
    BY StateFlows DEF Books
  <2> QED BY <1>4, <2>1 DEF Dated
<1>6. result \in [Nodes -> Values]
  BY DEF IInv, TypeOK
<1> HIDE DEF c
<1>7. c.ok => Follows(n, <<c.prov[x], writer[x]>>)
  <2>1. c.prov[x].node = n /\ c.prov[x].pass = pass[n]
    BY <1>1, <1>4 DEF SameNodes
  <2> QED BY <1>1, <1>2, <1>3, <1>4, <1>5, <2>1, StateFlows DEF Flow
<1> HIDE DEF n
<1>8. Results'
  <2> SUFFICES ASSUME NEW m \in Nodes
               PROVE  /\ tracing[m] /\ result'[m] # None => Follows(m, result'[m])
                      /\ ~tracing[m] => Follows(m, outputs[m])
    BY <1>3 DEF Results, Follows
  <2>1. tracing[m] /\ result[m] # None => Follows(m, result[m])
    BY DEF FlowInv, Results
  <2>2. tracing[m] /\ result'[m] # None => Follows(m, result'[m])
    BY <1>4, <1>5, <1>6, <1>7, <2>1
  <2> QED BY <2>2 DEF FlowInv, Results
<1>9. /\ Books(Region, writer)'
      /\ Flow(c, writer) => Flow(Region, writer)'
      /\ raised' = (raised \/ ~c.ok)
  BY <1>1, <1>3, BecomesFlows
<1>10. Executing'
  BY <1>3 DEF Executing
<1> QED BY <1>1, <1>3, <1>8, <1>9, <1>10, StateFlows DEF FlowInv

LEMMA EnterBlockFlows ==
    ASSUME IInv, FlowInv, NEW n \in Nodes, NEW site \in Sites, EnterBlock(n, site)
    PROVE  FlowInv'
<1> DEFINE b == Begin(Region, n, site, TRUE)
<1>1. /\ Books(b, writer)
      /\ Flow(Region, writer) /\ b.ok => Flow(b, writer)
  <2>1. TRUE \in BOOLEAN /\ tracing[n] /\ pass[n] > 0
    BY DEF EnterBlock
  <2> QED BY <2>1, StateFlows, BeginFlows
<1>2. /\ Becomes(b) /\ flight' = None
      /\ UNCHANGED <<pass, tracing, writer, result, outputs>>
  BY DEF EnterBlock, Idle
<1> HIDE DEF b
<1>3. /\ Books(Region, writer)'
      /\ Flow(b, writer) => Flow(Region, writer)'
      /\ raised' = (raised \/ ~b.ok)
  BY <1>1, <1>2, BecomesFlows
<1>4. Executing' /\ Results'
  BY <1>2, ResultsKept DEF FlowInv, Executing
<1> QED BY <1>1, <1>3, <1>4, StateFlows DEF FlowInv

\* A block that an exception leaves has no values to give, and says so.
LEMMA ExitBlockFlows ==
    ASSUME IInv, FlowInv, NEW site \in Sites, NEW exc \in BOOLEAN, ExitBlock(site, exc)
    PROVE  FlowInv'
<1> DEFINE t == IF op # None /\ op.owned THEN Terminate(Region, site, exc) ELSE Region
           r == [t EXCEPT !.ok = @ /\ ~exc]
<1>1. /\ RegionOK(t) /\ Books(t, writer)
      /\ Flow(Region, writer) /\ t.ok /\ ~exc => Flow(t, writer)
  <2>1. CASE op # None /\ op.owned
    <3>1. site \in Closers /\ t = Terminate(Region, site, exc)
      BY <2>1 DEF Closers
    <3> HIDE DEF t
    <3>2. RegionOK(t)
      BY <2>1, <3>1, StateFlows, TerminateKeeps
    <3>3. /\ Books(t, writer)
          /\ Flow(Region, writer) /\ t.ok /\ ~exc => Flow(t, writer)
      BY <2>1, <3>1, StateFlows, TerminateFlows
    <3> QED BY <3>2, <3>3
  <2>2. CASE ~(op # None /\ op.owned)
    BY <2>2, StateFlows
  <2> QED BY <2>1, <2>2
<1>2. /\ Becomes(r) /\ flight' = None /\ (raised => exc)
      /\ UNCHANGED <<pass, tracing, writer, result, outputs>>
  BY DEF ExitBlock
<1> HIDE DEF t
<1>3. r.op = t.op /\ r.prov = t.prov /\ r.begun = t.begun /\ r.ok = (t.ok /\ ~exc)
  BY <1>1 DEF RegionOK, RegionRecords
<1>4. Books(r, writer) /\ (Flow(t, writer) => Flow(r, writer))
  BY <1>1, <1>3 DEF Books, Begun, Latest, Flow
<1> HIDE DEF r
<1>5. /\ Books(Region, writer)'
      /\ Flow(r, writer) => Flow(Region, writer)'
      /\ raised' = (raised \/ ~r.ok)
  BY <1>2, <1>4, BecomesFlows
<1>6. Executing' /\ Results'
  BY <1>2, ResultsKept DEF FlowInv, Executing
<1> QED BY <1>1, <1>2, <1>3, <1>4, <1>5, <1>6, StateFlows DEF FlowInv

\* No output is an array of an open region: output_tensors() closes it.
LEMMA OutputTensorsFlows ==
    ASSUME IInv, FlowInv, Usage = {}, NEW n \in Nodes, NEW site \in Sites,
           OutputTensors(n, site)
    PROVE  FlowInv'
<1> DEFINE c == Close(Region, site)
<1>1. /\ Books(c, writer)
      /\ Flow(Region, writer) /\ c.ok => Flow(c, writer)
      /\ c.op # None => c = Region /\ c.op.owned
  <2>1. site \in Closers /\ flight = None
    BY DEF Closers, OutputTensors, Idle
  <2> QED BY <2>1, StateFlows, CloseFlows
<1>2. c.op = None
  BY <1>1, StateFlows DEF OutputTensors
<1>3. /\ Becomes(c) /\ flight' = None /\ ~raised
      /\ UNCHANGED <<pass, writer, result>>
  BY DEF OutputTensors, Idle
<1>4. \/ UNCHANGED <<outputs, tracing>>
      \/ /\ c.ok /\ tracing[n]
         /\ \E o \in Candidates(c, n) :
              /\ outputs' = [outputs EXCEPT ![n] = o]
              /\ tracing' = [tracing EXCEPT ![n] = FALSE]
  BY DEF OutputTensors
<1>5. tracing \in [Nodes -> BOOLEAN] /\ outputs \in [Nodes -> Values]
  BY DEF IInv, TypeOK
<1> HIDE DEF c
<1>6. /\ op' = c.op /\ begun' = c.begun /\ prov' = c.prov
      /\ raised' = (raised \/ ~c.ok)
  BY <1>3 DEF Becomes
<1>7. /\ Region'.op = c.op /\ Region'.begun = c.begun /\ Region'.prov = c.prov
  BY <1>6 DEF Region
<1>8. \A m \in Nodes : tracing'[m] => tracing[m]
  BY <1>4, <1>5
<1>9. Books(Region, writer)'
  BY <1>1, <1>2, <1>3, <1>7, <1>8 DEF Books, Dated, Begun, Latest
<1>10. Flow(c, writer) => Flow(Region, writer)'
  BY <1>3, <1>7, <1>8 DEF Flow, Follows
<1>11. Results'
  <2>1. CASE UNCHANGED <<outputs, tracing>>
    BY <1>3, <2>1, ResultsKept DEF FlowInv
  <2>2. ASSUME c.ok, tracing[n], NEW o \in Candidates(c, n),
               outputs' = [outputs EXCEPT ![n] = o],
               tracing' = [tracing EXCEPT ![n] = FALSE]
        PROVE  Results'
    <3>1. Follows(n, o)
      <4>1. CASE result[n] # None /\ o = result[n]
        BY <2>2, <4>1 DEF FlowInv, Results
      <4>2. ASSUME NEW y \in Arrays, c.prov[y].node = n, c.prov[y].pass = pass[n],
                   o = <<c.prov[y], writer[y]>>
            PROVE  Follows(n, o)
        BY <1>1, <1>2, <1>3, <2>2, <4>2, StateFlows DEF Flow
      <4> QED BY <2>2, <4>1, <4>2 DEF Candidates
    <3> SUFFICES ASSUME NEW m \in Nodes
                 PROVE  /\ tracing'[m] /\ result[m] # None => Follows(m, result[m])
                        /\ ~tracing'[m] => Follows(m, outputs'[m])
      BY <1>3 DEF Results, Follows
    <3>2. CASE m = n
      BY <1>5, <2>2, <3>1, <3>2
    <3>3. CASE m # n
      BY <1>5, <2>2, <3>3 DEF FlowInv, Results
    <3> QED BY <3>2, <3>3
  <2> QED BY <1>4, <2>1, <2>2
<1>12. Executing'
  BY <1>3 DEF Executing
<1> QED BY <1>1, <1>3, <1>6, <1>9, <1>10, <1>11, <1>12, StateFlows DEF FlowInv

\* A new pass: what the node's arrays were is of an earlier one, and the
\* region that is open is another node's.
LEMMA InputTensorsFlows ==
    ASSUME IInv, FlowInv, NEW n \in Nodes, NEW site \in Sites,
           InputTensors(n, site), ~Revisit(n)
    PROVE  FlowInv'
<1> DEFINE r0 == [Region EXCEPT !.runners[n] = <<>>, !.begun[n] = 0]
           c == Close(r0, site)
           p == Producer(n, pass[n] + 1, 0, FALSE)
           r == IF c.ok THEN [c EXCEPT !.prov[Input(n)] = p] ELSE c
<1>1. /\ Becomes(r) /\ flight = None /\ flight' = None /\ ~raised
      /\ pass' = [pass EXCEPT ![n] = @ + 1]
      /\ tracing' = [tracing EXCEPT ![n] = TRUE]
      /\ writer' = [writer EXCEPT ![Input(n)] = p]
      /\ result' = [result EXCEPT ![n] = None]
      /\ outputs' = [outputs EXCEPT ![n] = None]
      /\ pass[n] = 0 \/ ~tracing[n]
  BY DEF InputTensors, Idle
<1>2. /\ pass \in [Nodes -> Nat] /\ tracing \in [Nodes -> BOOLEAN]
      /\ writer \in [Arrays -> Producers] /\ result \in [Nodes -> Values]
      /\ outputs \in [Nodes -> Values] /\ Input(n) \in Arrays
  BY DEF IInv, TypeOK, Arrays
<1>3. /\ p.node = n /\ p.pass = pass[n] + 1 /\ p.id = 0 /\ p.pending = FALSE
      /\ p \in Producers
  <2>1. pass[n] + 1 \in Nat
    BY <1>2
  <2> QED BY <2>1, ProducerTyped DEF Producer
<1>4. RegionOK(r0) /\ r0.op = op /\ r0.prov = prov /\ r0.begun = [begun EXCEPT ![n] = 0]
  <2> DEFINE rs == [runners EXCEPT ![n] = <<>>]
             bg == [begun EXCEPT ![n] = 0]
  <2>1. r0 = [Region EXCEPT !.runners = rs, !.begun = bg]
    BY DEF Region
  <2>2. rs \in [Nodes -> Seq(Runners)] /\ bg \in [Nodes -> Nat]
    BY DEF IInv, TypeOK
  <2> HIDE DEF rs, r0
  <2>3. /\ r0.op = Region.op /\ r0.segs = Region.segs /\ r0.pending = Region.pending
        /\ r0.prov = Region.prov /\ r0.begun = bg
    BY <2>1 DEF Region
  <2>4. r0 \in RegionRecords
    <3> HIDE DEF bg
    <3> QED BY <2>1, <2>2, StateOK DEF RegionOK, RegionRecords
  <2> QED BY <2>3, <2>4, StateFlows DEF RegionOK, QueueOK
<1> HIDE DEF p, r0
<1>5. Dated(prov) /\ Dated(writer) /\ Begun(Region, writer) /\ Latest(Region)
  BY StateFlows DEF Books
<1>6. begun \in [Nodes -> Nat]
  BY DEF IInv, TypeOK
<1>7. Books(r0, writer) /\ Flow(r0, writer)
  <2>1. Begun(r0, writer)
    <3> SUFFICES ASSUME NEW m \in Nodes, NEW x \in Arrays,
                        tracing[m], writer[x].node = m, writer[x].pass = pass[m]
                 PROVE  writer[x].id =< r0.begun[m]
      BY DEF Begun
    <3>1. m # n
      <4>1. pass[m] > 0
        BY <1>2, <1>5, RawFacts DEF Dated
      <4> QED BY <1>1, <4>1
    <3> QED BY <1>4, <1>5, <1>6, <3>1, StateFlows DEF Begun
  <2>2. Latest(r0)
    <3>1. op # None => op.node # n /\ op.node \in Nodes
      BY <1>1, <1>2, <1>5, StateFlows DEF Latest, IInv, TypeOK, OpenRegions
    <3> QED BY <1>4, <1>5, <1>6, <3>1, StateFlows DEF Latest
  <2>3. Flow(r0, writer)
    BY <1>1, <1>4, StateFlows DEF Flow
  <2> QED BY <1>4, <1>5, <2>1, <2>2, <2>3 DEF Books
<1>8. /\ RegionOK(c) /\ Books(c, writer)
      /\ c.ok => Flow(c, writer)
      /\ c.op # None => c = r0 /\ c.op.owned
  <2>1. site \in Closers
    BY DEF Closers
  <2>2. Books(c, writer) /\ (Flow(r0, writer) /\ c.ok => Flow(c, writer))
        /\ (flight = None /\ c.op # None => c = r0 /\ c.op.owned)
    BY <2>1, <1>2, <1>4, <1>7, CloseFlows
  <2>3. StreamOK(r0)
    <3>1. r0.stream = Region.stream /\ r0.op = Region.op
      BY DEF r0, Region
    <3> QED BY <3>1, StateFlows DEF StreamOK
  <2>4. RegionOK(c)
    BY <2>1, <2>3, <1>2, <1>4, CloseKeeps
  <2> QED BY <1>1, <1>7, <2>2, <2>4
<1> HIDE DEF c
<1>9. /\ r.op = c.op /\ r.begun = c.begun /\ r.ok = c.ok
      /\ c.prov \in [Arrays -> Producers] /\ c.begun \in [Nodes -> Nat]
      /\ r.prov = IF c.ok THEN [c.prov EXCEPT ![Input(n)] = p] ELSE c.prov
  BY <1>8 DEF RegionOK, RegionRecords
<1> HIDE DEF r
<1>10. /\ Region'.op = c.op /\ Region'.begun = c.begun /\ raised' = ~c.ok
       /\ \A x \in Arrays : prov'[x] = c.prov[x] \/ (c.ok /\ x = Input(n) /\ prov'[x] = p)
       /\ Region'.prov = prov' /\ (c.ok => prov'[Input(n)] = p)
  BY <1>1, <1>2, <1>9 DEF Becomes, Region
<1>11. /\ pass'[n] = pass[n] + 1 /\ tracing'[n]
       /\ \A m \in Nodes : m # n => pass'[m] = pass[m] /\ tracing'[m] = tracing[m]
       /\ \A m \in Nodes : pass[m] \in Nat /\ pass'[m] \in Nat /\ pass[m] =< pass'[m]
       /\ writer'[Input(n)] = p
       /\ \A x \in Arrays : x # Input(n) => writer'[x] = writer[x]
  BY <1>1, <1>2
<1>12. Dated(prov)' /\ Dated(writer)'
  <2> SUFFICES ASSUME NEW x \in Arrays
               PROVE  /\ \/ prov'[x] = Raw
                         \/ prov'[x].node \in Nodes /\ prov'[x].pass \in 1 .. pass'[prov'[x].node]
                      /\ \/ writer'[x] = Raw
                         \/ writer'[x].node \in Nodes /\ writer'[x].pass \in 1 .. pass'[writer'[x].node]
    BY DEF Dated
  <2>1. p.node \in Nodes /\ p.pass \in 1 .. pass'[p.node]
    BY <1>3, <1>11
  <2>2. ASSUME NEW q, q = Raw \/ (q.node \in Nodes /\ q.pass \in 1 .. pass[q.node])
        PROVE  q = Raw \/ (q.node \in Nodes /\ q.pass \in 1 .. pass'[q.node])
    BY <1>11, <2>2
  <2>3. c.prov[x] = Raw \/ (c.prov[x].node \in Nodes /\ c.prov[x].pass \in 1 .. pass[c.prov[x].node])
    BY <1>8 DEF Books, Dated
  <2>4. writer[x] = Raw \/ (writer[x].node \in Nodes /\ writer[x].pass \in 1 .. pass[writer[x].node])
    BY <1>5 DEF Dated
  <2> QED BY <1>10, <1>11, <2>1, <2>2, <2>3, <2>4
<1>13. Begun(Region, writer)'
  <2> SUFFICES ASSUME NEW m \in Nodes, NEW x \in Arrays,
                      tracing'[m], writer'[x].node = m, writer'[x].pass = pass'[m]
               PROVE  writer'[x].id =< c.begun[m]
    BY <1>10 DEF Begun
  <2>1. CASE x = Input(n)
    <3>1. m = n /\ writer'[x].id = 0
      BY <1>3, <1>11, <2>1
    <3> QED BY <1>9, <3>1
  <2>2. CASE x # Input(n)
    <3>1. writer'[x] = writer[x]
      BY <1>11, <2>2
    <3>2. m # n
      BY <1>5, <1>11, <3>1, RawFacts DEF Dated
    <3> QED BY <1>8, <1>11, <3>1, <3>2 DEF Books, Begun
  <2> QED BY <2>1, <2>2
<1>14. Latest(Region)'
  <2> SUFFICES ASSUME c.op # None
               PROVE  /\ tracing'[c.op.node] /\ pass'[c.op.node] > 0
                      /\ c.op.id = c.begun[c.op.node]
                      /\ c.op.calls = <<>> => c.op.refs = {}
                      /\ c.op.owned
    BY <1>10 DEF Latest
  <2>1. c.op.node \in Nodes
    BY <1>8 DEF RegionOK, RegionRecords, OpenRegions
  <2>2. /\ tracing[c.op.node] /\ pass[c.op.node] > 0 /\ c.op.id = c.begun[c.op.node]
        /\ c.op.calls = <<>> => c.op.refs = {}
    BY <1>8 DEF Books, Latest
  <2> QED BY <1>8, <1>11, <2>1, <2>2
<1>15. c.ok => Flow(Region, writer)'
  <2> SUFFICES ASSUME c.ok, NEW m \in Nodes, NEW x \in Arrays,
                      tracing'[m], prov'[x].node = m, prov'[x].pass = pass'[m]
               PROVE  \/ c.op # None /\ c.op.node = m /\ x \in c.op.refs
                      \/ Follows(m, <<prov[x], writer[x]>>)'
    BY <1>10 DEF Flow
  <2>1. CASE x = Input(n)
    BY <1>3, <1>10, <1>11, <2>1 DEF Follows
  <2>2. CASE x # Input(n)
    <3>1. prov'[x] = c.prov[x] /\ writer'[x] = writer[x]
      BY <1>10, <1>11, <2>2
    <3>2. m # n
      BY <1>8, <1>11, <3>1, RawFacts DEF Books, Dated
    <3> QED BY <1>8, <1>11, <3>1, <3>2 DEF Flow, Follows
  <2> QED BY <2>1, <2>2
<1>16. Results'
  <2> SUFFICES ASSUME NEW m \in Nodes
               PROVE  /\ tracing'[m] /\ result'[m] # None => Follows(m, result[m])'
                      /\ ~tracing'[m] => Follows(m, outputs[m])'
    BY DEF Results
  <2>1. CASE m = n
    BY <1>1, <1>2, <1>11, <2>1
  <2>2. CASE m # n
    BY <1>1, <1>2, <1>11, <2>2 DEF FlowInv, Results, Follows
  <2> QED BY <2>1, <2>2
<1>17. Executing'
  BY <1>1 DEF Executing
<1>18. Books(Region, writer)'
  BY <1>10, <1>12, <1>13, <1>14 DEF Books
<1> QED BY <1>10, <1>15, <1>16, <1>17, <1>18 DEF FlowInv

\* What is not stale among the arguments of a call belongs to one node.
LEMMA SourceFlows ==
    ASSUME IInv, Dated(prov), NEW args \in SUBSET Arrays
    PROVE  /\ Source(args) # None => pass[Source(args)] > 0
           /\ OneContext(args) =>
                \A x \in args : prov[x] # Raw /\ ~Stale(x) =>
                    prov[x].node = Source(args) /\ prov[x].pass = pass[Source(args)]
<1> DEFINE traced == {x \in args : prov[x] # Raw /\ ~Stale(x)}
<1>1. CASE traced = {}
  BY <1>1 DEF Source
<1>2. CASE traced # {}
  <2> DEFINE y == CHOOSE x \in traced : TRUE
  <2>1. y \in traced /\ Source(args) = prov[y].node
    BY <1>2 DEF Source
  <2> HIDE DEF y
  <2>2. prov[y].node \in Nodes /\ prov[y].pass \in 1 .. pass[prov[y].node]
    BY <2>1 DEF Dated
  <2>3. pass[prov[y].node] > 0
    <3>1. pass[prov[y].node] \in Nat
      BY <2>2 DEF IInv, TypeOK
    <3> QED BY <2>2, <3>1
  <2>4. ASSUME OneContext(args), NEW x \in args, prov[x] # Raw, ~Stale(x)
        PROVE  prov[x].node = Source(args) /\ prov[x].pass = pass[Source(args)]
    BY <2>1, <2>4 DEF OneContext, Stale
  <2> QED BY <2>1, <2>3, <2>4
<1> QED BY <1>1, <1>2

\* A call joins the region of its node, and its arguments are raw or that
\* node's while it executes.
LEMMA WarpCallFlows ==
    ASSUME IInv, FlowInv, NEW f \in Calls, NEW args \in SUBSET Arrays,
           NEW out \in args, NEW site \in Sites, WarpCall(f, args, out, site)
    PROVE  FlowInv'
<1> DEFINE n == Source(args)
           r == IF OneContext(args) THEN Resolve(n, site) ELSE [Region EXCEPT !.ok = FALSE]
           pv == [x \in Arrays |-> IF x \in args /\ Stale(x) THEN Raw ELSE r.prov[x]]
           s == [r EXCEPT !.prov = pv]
           traced == {x \in args : s.prov[x] # Raw}
           joins == s.op # None /\ n \in {None, s.op.node}
           u == IF joins THEN [s EXCEPT !.op = Noted(@, f, traced)] ELSE s
           fl == [args |-> args, out |-> out, node |-> n, site |-> site,
                  id |-> IF joins THEN s.op.id ELSE 0]
<1>1. n \in Nodes \cup {None} /\ flight = None /\ ~raised
  BY SourceTyped DEF WarpCall, Idle
<1>2. Dated(prov) /\ Dated(writer)
  BY StateFlows DEF Books
<1>3. /\ n # None => pass[n] > 0
      /\ OneContext(args) =>
           \A x \in args : prov[x] # Raw /\ ~Stale(x) =>
               prov[x].node = n /\ prov[x].pass = pass[n]
  BY <1>2, SourceFlows
<1>4. \/ r.ok /\ Becomes(u) /\ flight' = fl
      \/ ~r.ok /\ Becomes(s) /\ flight' = flight
  BY DEF WarpCall
<1>5. UNCHANGED <<pass, tracing, writer, result, outputs>>
  BY DEF WarpCall
<1>6. /\ RegionOK(r) /\ Books(r, writer) /\ SameNodes(r.prov, prov)
      /\ r.ok => Flow(r, writer) /\ OneContext(args)
      /\ r.ok /\ n # None /\ tracing[n] => r.op # None /\ r.op.node = n
      /\ r.ok /\ r.op # None /\ ~r.op.owned => n \in {None, r.op.node}
  <2>1. CASE OneContext(args)
    <3>1. r = Resolve(n, site)
      BY <2>1
    <3> HIDE DEF r, n
    <3>2. RegionOK(r)
      BY <1>1, <3>1, ResolveKeeps
    <3>3. /\ Books(r, writer)
          /\ Flow(Region, writer) /\ r.ok => Flow(r, writer)
          /\ SameNodes(r.prov, prov)
          /\ r.ok /\ n # None /\ tracing[n] => r.op # None /\ r.op.node = n
          /\ r.ok /\ r.op # None /\ ~r.op.owned => n \in {None, r.op.node}
      BY <1>1, <1>3, <3>1, ResolveFlows
    <3> QED BY <1>1, <2>1, <3>2, <3>3, StateFlows
  <2>2. CASE ~OneContext(args)
    <3>1. r = [Region EXCEPT !.ok = FALSE]
      BY <2>2
    <3> HIDE DEF r
    <3>2. /\ RegionOK(r) /\ ~r.ok /\ r.op = Region.op /\ r.prov = Region.prov
          /\ r.begun = Region.begun
      BY <3>1, StateFlows DEF RegionOK, RegionRecords, QueueOK
    <3> QED BY <3>2, StateFlows DEF Books, Begun, Latest, SameNodes
  <2> QED BY <2>1, <2>2
<1> HIDE DEF r, n
<1>7. pv \in [Arrays -> Producers]
  <2>1. Raw \in Producers
    BY ProducerTyped DEF Raw
  <2> QED BY <1>6, <2>1 DEF RegionOK, RegionRecords
<1>8. /\ RegionOK(s) /\ s.op = r.op /\ s.prov = pv /\ s.begun = r.begun /\ s.ok = r.ok
  <2> HIDE DEF pv
  <2> QED BY <1>6, <1>7 DEF RegionOK, RegionRecords, QueueOK
<1>9. \A x \in Arrays : pv[x] = r.prov[x] \/ (pv[x] = Raw /\ x \in args /\ Stale(x))
  OBVIOUS
<1>10. \A x \in args : ~Stale(x) \/ pv[x] = Raw
  OBVIOUS
<1> HIDE DEF pv, s
\* Stale arguments are dropped: none is an array of an implicit region.
<1>11. Books(s, writer)
  <2>1. Dated(s.prov)
    BY <1>6, <1>8, <1>9 DEF Books, Dated
  <2>2. Begun(s, writer)
    BY <1>6, <1>8 DEF Books, Begun
  <2>3. ASSUME r.op # None, ~r.op.owned, NEW x \in r.op.refs
        PROVE  pv[x].node = r.op.node /\ pv[x].pass = pass[r.op.node]
    <3>1. r.prov[x].node = r.op.node /\ r.prov[x].pass = pass[r.op.node]
      BY <1>6, <2>3 DEF Books, Latest
    <3>2. x \in Arrays
      BY <1>6, <2>3 DEF RegionOK, RegionRecords, OpenRegions
    <3>3. ~Stale(x)
      BY <1>6, <3>1, <3>2 DEF SameNodes, Stale
    <3> QED BY <1>9, <3>1, <3>2, <3>3
  <2>4. Latest(s)
    BY <1>6, <1>8, <2>3 DEF Books, Latest
  <2> QED BY <1>6, <2>1, <2>2, <2>4 DEF Books
<1>12. r.ok => Flow(s, writer)
  BY <1>6, <1>8, <1>9, RawFacts DEF Flow
\* What is left of the arguments belongs to the node of the call.
<1>13. ASSUME r.ok, NEW x \in args, s.prov[x] # Raw
       PROVE  n \in Nodes /\ s.prov[x].node = n /\ s.prov[x].pass = pass[n]
  <2>1. ~Stale(x) /\ s.prov[x] = r.prov[x]
    BY <1>8, <1>9, <1>10, <1>13
  <2>2. r.prov[x].node \in Nodes
    BY <1>6, <1>13, <2>1 DEF Books, Dated
  <2>3. prov[x].node = r.prov[x].node /\ prov[x].pass = r.prov[x].pass /\ prov[x] # Raw
    BY <1>6, <2>2, RawFacts DEF SameNodes
  <2>4. prov[x].node = n /\ prov[x].pass = pass[n]
    BY <1>3, <1>6, <1>13, <2>1, <2>3
  <2> QED BY <2>1, <2>2, <2>3, <2>4
<1>14. CASE ~r.ok
  <2>1. Becomes(s) /\ flight' = None /\ ~s.ok
    BY <1>1, <1>4, <1>8, <1>14
  <2>2. Books(Region, writer)' /\ raised'
    BY <1>5, <1>11, <2>1, BecomesFlows
  <2> QED BY <1>5, <2>1, <2>2, ResultsKept DEF FlowInv, Executing
\* A call of a node that traces nothing joins no region of another's.
<1>15. CASE r.ok /\ ~joins
  <2>1. Becomes(s) /\ flight' = fl /\ s.ok
    BY <1>4, <1>8, <1>15
  <2>2. /\ Books(Region, writer)' /\ Flow(Region, writer)' /\ raised' = FALSE
    BY <1>1, <1>5, <1>8, <1>11, <1>12, <1>15, <2>1, BecomesFlows
  <2>3. op' = s.op /\ prov' = s.prov
    BY <2>1 DEF Becomes
  <2>4. fl.node = n /\ fl.args = args /\ fl.out = out
    OBVIOUS
  <2>5. op' # None => n # None /\ n # op'.node
    BY <1>15, <2>3
  <2>6. ~(n # None /\ tracing[n])
    BY <1>6, <1>8, <2>3, <2>5, <1>15
  <2> HIDE DEF fl, joins, u
  <2>7. \A x \in args : prov'[x] = Raw \/ (prov'[x].node = n /\ prov'[x].pass = pass'[n])
    BY <1>5, <1>13, <1>15, <2>3
  <2>8. Executing'
    BY <1>3, <1>5, <2>1, <2>2, <2>4, <2>5, <2>6, <2>7 DEF Executing
  <2> QED BY <1>5, <2>2, <2>8, ResultsKept DEF FlowInv
<1>16. CASE r.ok /\ joins
  <2> DEFINE o == Noted(s.op, f, traced)
  <2>1. s.op \in OpenRegions /\ s.op # None /\ n \in {None, s.op.node}
    BY <1>8, <1>16 DEF RegionOK, RegionRecords
  <2>2. u = [s EXCEPT !.op = o]
    BY <1>16
  <2>4. traced \in SUBSET Arrays /\ traced = {x \in args : s.prov[x] # Raw}
    OBVIOUS
  <2>5. fl.node = n /\ fl.args = args /\ fl.out = out /\ fl.id = s.op.id
    BY <1>16
  <2>8. Becomes(u) /\ flight' = fl
    BY <1>4, <1>16
  <2> HIDE DEF traced
  <2>6. /\ o \in OpenRegions /\ o.node = s.op.node /\ o.owned = s.op.owned
        /\ o.id = s.op.id /\ o.calls = Append(s.op.calls, f)
        /\ o.refs = s.op.refs \cup traced
    BY <2>1, <2>4, NotedFacts
  <2>3. o.calls # <<>>
    <3>1. s.op.calls \in Seq(Calls)
      BY <2>1 DEF OpenRegions
    <3>2. o.calls \in Seq(Calls) /\ Len(o.calls) = Len(s.op.calls) + 1
      BY <2>6, <3>1, AppendProperties
    <3> QED BY <3>1, <3>2, LenProperties
  <2>7. o # None
    BY <2>6, NoneIsNoRegion
  <2> HIDE DEF o, u, fl, joins
  <2>9. u.op = o /\ u.prov = s.prov /\ u.begun = s.begun /\ u.ok = TRUE
    BY <1>8, <1>16, <2>2, <2>1 DEF RegionOK, RegionRecords
  <2>10. Books(u, writer)
    <3>1. Begun(u, writer)
      BY <1>11, <2>9 DEF Books, Begun
    <3>2. ASSUME ~o.owned, NEW x \in o.refs
          PROVE  u.prov[x].node = o.node /\ u.prov[x].pass = pass[o.node]
      <4>1. CASE x \in s.op.refs
        BY <1>11, <2>1, <2>6, <2>9, <3>2, <4>1 DEF Books, Latest
      <4>2. CASE x \in traced
        <5>1. n \in Nodes /\ s.prov[x].node = n /\ s.prov[x].pass = pass[n]
          BY <1>13, <1>16, <2>4, <4>2
        <5>2. n = s.op.node
          BY <2>1, <5>1, NoneAssumption
        <5> QED BY <2>6, <2>9, <5>1, <5>2
      <4> QED BY <2>4, <2>6, <3>2, <4>1, <4>2
    <3>3. Latest(u)
      BY <1>11, <2>1, <2>3, <2>6, <2>7, <2>9, <3>2 DEF Books, Latest
    <3> QED BY <1>11, <2>9, <3>1, <3>3 DEF Books
  <2>11. Flow(u, writer)
    BY <1>12, <1>16, <2>1, <2>6, <2>7, <2>9 DEF Flow
  <2>12. Books(Region, writer)' /\ Flow(Region, writer)' /\ raised' = FALSE
    BY <1>1, <1>5, <2>8, <2>9, <2>10, <2>11, BecomesFlows
  <2>13. op' = o /\ prov' = s.prov
    BY <2>8, <2>9 DEF Becomes
  <2>14. Executing'
    <3>1. \A x \in args : prov'[x] = Raw \/ (prov'[x].node = n /\ prov'[x].pass = pass'[n])
      BY <1>5, <1>13, <1>16, <2>13
    <3>2. n # None => pass'[n] > 0
      BY <1>3, <1>5
    <3>3. n # None /\ tracing'[n] => op' # None /\ op'.node = n /\ fl.id = op'.id
      BY <1>5, <1>6, <1>8, <1>16, <2>1, <2>5, <2>6, <2>7, <2>13
    <3>4. op'.calls # <<>>
      BY <2>3, <2>6, <2>13
    <3> QED BY <2>5, <2>8, <2>12, <3>1, <3>2, <3>3, <3>4 DEF Executing
  <2> QED BY <1>5, <2>12, <2>14, ResultsKept DEF FlowInv
<1> QED BY <1>14, <1>15, <1>16

\* When it returns, its arguments are arrays of the region, which is still
\* the one it joined; only then may writing a torch tensor close it.
LEMMA WarpReturnFlows ==
    ASSUME IInv, FlowInv, WarpReturn
    PROVE  FlowInv'
<1> DEFINE n == flight.node
           adopted == IF n = None THEN {} ELSE flight.args
           pv == [x \in Arrays |-> IF x \in adopted /\ prov[x] = Raw
                                   THEN Producer(n, pass[n], 0, tracing[n]) ELSE prov[x]]
           o == Adopting(op, n, adopted)
           joined == [Region EXCEPT
                     !.prov = [x \in Arrays |->
                         IF x \in adopted /\ @[x] = Raw
                         THEN Producer(n, pass[n], 0, tracing[n]) ELSE @[x]],
                     !.op = Adopting(@, n, adopted)]
           c == IF flight.out \in TorchBacked THEN CloseUnowned(joined, flight.site)
                ELSE joined
           w == IF n = None THEN writer
                ELSE [writer EXCEPT ![flight.out] = Producer(n, pass[n], flight.id, FALSE)]
<1>1. /\ flight # None /\ flight \in Flights /\ n \in Nodes \cup {None}
      /\ flight.out \in Arrays /\ flight.id \in Nat /\ flight.site \in Closers
      /\ flight.args \in SUBSET Arrays
  BY DEF WarpReturn, IInv, TypeOK, Flights, Closers
<1>2. /\ ~raised /\ flight.out \in flight.args
      /\ op # None /\ n \in {None, op.node} => op.calls # <<>>
      /\ n # None =>
           /\ n \in Nodes /\ pass[n] > 0
           /\ \A x \in flight.args : prov[x] = Raw
                 \/ (prov[x].node = n /\ prov[x].pass = pass[n])
           /\ tracing[n] => op # None /\ op.node = n /\ flight.id = op.id
  BY <1>1 DEF FlowInv, Executing
<1>3. /\ Becomes(c) /\ flight' = None /\ writer' = w
      /\ UNCHANGED <<pass, tracing, result, outputs>>
  BY DEF WarpReturn
<1>4. /\ Books(Region, writer) /\ Flow(Region, writer)
      /\ pass \in [Nodes -> Nat] /\ writer \in [Arrays -> Producers]
      /\ tracing \in [Nodes -> BOOLEAN] /\ prov \in [Arrays -> Producers]
      /\ op \in OpenRegions \cup {None}
  BY <1>2, StateFlows DEF IInv, TypeOK
<1>5. adopted \in SUBSET Arrays /\ (n = None => adopted = {}) /\ (n # None => adopted = flight.args)
  BY <1>1
<1>6. n # None => LET q == Producer(n, pass[n], 0, tracing[n])
                      v == Producer(n, pass[n], flight.id, FALSE)
                  IN  /\ q \in Producers /\ q.node = n /\ q.pass = pass[n]
                      /\ v \in Producers /\ v.node = n /\ v.pass = pass[n] /\ v.id = flight.id
  <2> SUFFICES ASSUME n # None
               PROVE  LET q == Producer(n, pass[n], 0, tracing[n])
                          v == Producer(n, pass[n], flight.id, FALSE)
                      IN  /\ q \in Producers /\ q.node = n /\ q.pass = pass[n]
                          /\ v \in Producers /\ v.node = n /\ v.pass = pass[n]
                          /\ v.id = flight.id
    OBVIOUS
  <2>1. pass[n] \in Nat /\ tracing[n] \in BOOLEAN /\ n \in Nodes
    BY <1>2, <1>4
  <2> QED BY <1>1, <2>1, ProducerTyped DEF Producer
<1>7. /\ \A x \in Arrays : pv[x] = prov[x]
             \/ (n # None /\ x \in flight.args /\ prov[x] = Raw
                 /\ pv[x].node = n /\ pv[x].pass = pass[n])
      /\ pv \in [Arrays -> Producers]
      /\ \A x \in adopted : pv[x].node = n /\ pv[x].pass = pass[n]
  <2>1. ASSUME NEW x \in Arrays
        PROVE  pv[x] = prov[x]
             \/ (n # None /\ x \in flight.args /\ prov[x] = Raw
                 /\ pv[x].node = n /\ pv[x].pass = pass[n])
    BY <1>5, <1>6
  <2>2. pv \in [Arrays -> Producers]
    BY <1>4, <1>5, <1>6
  <2>3. ASSUME NEW x \in adopted
        PROVE  pv[x].node = n /\ pv[x].pass = pass[n]
    BY <1>2, <1>5, <1>6
  <2> HIDE DEF pv
  <2> QED BY <2>1, <2>2, <2>3
<1>8. /\ w \in [Arrays -> Producers]
      /\ \A x \in Arrays : w[x] = writer[x]
             \/ (n # None /\ x = flight.out /\ w[x].node = n /\ w[x].pass = pass[n]
                 /\ w[x].id = flight.id)
  BY <1>1, <1>4, <1>6
<1>9. /\ o \in OpenRegions \cup {None} /\ (o = None <=> op = None)
      /\ op # None => /\ o.node = op.node /\ o.owned = op.owned /\ o.id = op.id
                      /\ o.calls = op.calls /\ o.capture = op.capture /\ o.seg = op.seg
                      /\ o.refs = IF n = op.node THEN op.refs \cup adopted ELSE op.refs
  <2>1. CASE op = None
    BY <2>1 DEF Adopting
  <2>2. CASE op # None /\ n = op.node
    <3>1. op \in OpenRegions /\ o = [op EXCEPT !.refs = @ \cup adopted]
      BY <1>4, <2>2 DEF Adopting
    <3> HIDE DEF o, adopted
    <3>2. o \in OpenRegions
      BY <1>5, <3>1 DEF OpenRegions
    <3>3. /\ o.node = op.node /\ o.owned = op.owned /\ o.id = op.id
          /\ o.calls = op.calls /\ o.capture = op.capture /\ o.seg = op.seg
          /\ o.refs = op.refs \cup adopted
      BY <3>1 DEF OpenRegions
    <3> QED BY <2>2, <3>2, <3>3, NoneIsNoRegion
  <2>3. CASE op # None /\ n # op.node
    BY <1>4, <2>3 DEF Adopting
  <2> QED BY <2>1, <2>2, <2>3
<1>10. joined = [Region EXCEPT !.prov = pv, !.op = o]
  <2>1. Region.op = op /\ Region.prov = prov
    BY DEF Region
  <2>2. pv = [x \in Arrays |-> IF x \in adopted /\ Region.prov[x] = Raw
                THEN Producer(n, pass[n], 0, tracing[n]) ELSE Region.prov[x]]
    BY <2>1, Zenon
  <2>3. o = Adopting(Region.op, n, adopted)
    BY <2>1
  <2> QED BY <2>2, <2>3, Zenon
<1> HIDE DEF pv, o, joined, w, adopted
<1>11. /\ joined.op = o /\ joined.prov = pv /\ joined.begun = begun
       /\ joined.segs = segs /\ joined.pending = pending
       /\ RegionOK(joined)
  <2>1. /\ joined.op = o /\ joined.prov = pv /\ joined.begun = begun
        /\ joined.segs = segs /\ joined.pending = pending
    BY <1>10 DEF Region
  <2>2. joined \in RegionRecords
    BY <1>7, <1>9, <1>10, StateFlows DEF RegionOK, RegionRecords
  <2>3. QueueOK(joined)
    BY <1>9, <2>1 DEF QueueOK, IInv, TypeOK, NextQueued
  <2> QED BY <2>1, <2>2, <2>3 DEF RegionOK
<1>12. /\ Dated(prov) /\ Dated(writer) /\ Begun(Region, writer)
       /\ op # None =>
            /\ tracing[op.node] /\ pass[op.node] > 0 /\ op.id = begun[op.node]
            /\ op.calls = <<>> => op.refs = {}
            /\ ~op.owned => \A x \in op.refs : prov[x].node = op.node
                                               /\ prov[x].pass = pass[op.node]
  BY <1>4, StateFlows DEF Books, Latest
<1>13. Books(joined, w)
  <2>1. n # None => n \in Nodes /\ pass[n] \in 1 .. pass[n]
    <3>1. n # None => pass[n] \in Nat
      BY <1>2, <1>4
    <3> QED BY <1>2, <3>1
  <2>2. Dated(pv) /\ Dated(w)
    BY <1>7, <1>8, <1>12, <2>1 DEF Dated
  <2>3. Begun(joined, w)
    <3> SUFFICES ASSUME NEW m \in Nodes, NEW x \in Arrays,
                        tracing[m], w[x].node = m, w[x].pass = pass[m]
                 PROVE  w[x].id =< begun[m]
      BY <1>11 DEF Begun
    <3>1. CASE w[x] = writer[x]
      BY <1>12, <3>1, StateFlows DEF Begun
    <3>2. CASE n # None /\ w[x].node = n /\ w[x].id = flight.id
      <4>1. m = n /\ op # None /\ op.node = n /\ flight.id = op.id
        BY <1>2, <3>2
      <4>2. begun[m] \in Nat
        BY DEF IInv, TypeOK
      <4> QED BY <1>12, <3>2, <4>1, <4>2
    <3> QED BY <1>8, <3>1, <3>2
  <2>4. Latest(joined)
    <3> SUFFICES ASSUME op # None
                 PROVE  /\ tracing[o.node] /\ pass[o.node] > 0 /\ o.id = begun[o.node]
                        /\ o.calls = <<>> => o.refs = {}
                        /\ ~o.owned => \A x \in o.refs : pv[x].node = o.node
                                                         /\ pv[x].pass = pass[o.node]
      BY <1>9, <1>11 DEF Latest
    <3>1. ASSUME ~o.owned, NEW x \in o.refs
          PROVE  pv[x].node = o.node /\ pv[x].pass = pass[o.node]
      <4>1. CASE x \in op.refs
        <5>1. prov[x].node = op.node /\ prov[x].pass = pass[op.node] /\ op.node \in Nodes
          BY <1>4, <1>9, <1>12, <3>1, <4>1 DEF OpenRegions
        <5>2. prov[x] # Raw /\ x \in Arrays
          BY <1>4, <4>1, <5>1, RawFacts DEF OpenRegions
        <5> QED BY <1>7, <1>9, <5>1, <5>2
      <4>2. CASE x \notin op.refs
        BY <1>7, <1>9, <3>1, <4>2
      <4> QED BY <4>1, <4>2
    <3>2. o.calls = <<>> => o.refs = {}
      <4>1. CASE n = op.node
        BY <1>2, <1>9, <4>1
      <4>2. CASE n # op.node
        BY <1>9, <1>12, <4>2
      <4> QED BY <4>1, <4>2
    <3> QED BY <1>9, <1>12, <3>1, <3>2
  <2> QED BY <1>11, <2>2, <2>3, <2>4 DEF Books
<1>14. Flow(joined, w)
  <2> SUFFICES ASSUME NEW m \in Nodes, NEW x \in Arrays,
                      tracing[m], pv[x].node = m, pv[x].pass = pass[m]
               PROVE  \/ o # None /\ o.node = m /\ x \in o.refs
                      \/ Follows(m, <<pv[x], w[x]>>)
    BY <1>11 DEF Flow
  <2>1. CASE n # None /\ x \in flight.args
    <3>1. x \in adopted /\ m = n
      BY <1>5, <1>7, <2>1
    <3> QED BY <1>2, <1>9, <2>1, <3>1
  <2>2. CASE n = None \/ x \notin flight.args
    <3>1. pv[x] = prov[x] /\ w[x] = writer[x]
      BY <1>2, <1>7, <1>8, <2>2
    <3>2. \/ op # None /\ op.node = m /\ x \in op.refs
          \/ Follows(m, <<prov[x], writer[x]>>)
      BY <1>4, <3>1, StateFlows DEF Flow
    <3> QED BY <1>9, <3>1, <3>2
  <2> QED BY <2>1, <2>2
<1>15. Books(c, w) /\ (c.ok => Flow(c, w))
  <2>1. CASE flight.out \in TorchBacked
    <3>1. c = CloseUnowned(joined, flight.site)
      BY <2>1
    <3> HIDE DEF c
    <3> QED BY <1>1, <1>4, <1>8, <1>11, <1>13, <1>14, <3>1, CloseFlows
  <2>2. CASE flight.out \notin TorchBacked
    BY <1>13, <1>14, <2>2
  <2> QED BY <2>1, <2>2
<1> HIDE DEF c
<1>16. /\ Books(Region, writer)'
       /\ Flow(c, w) => Flow(Region, writer)'
       /\ raised' = (raised \/ ~c.ok)
  BY <1>3, <1>15, BecomesFlows
<1>17. Executing' /\ Results'
  BY <1>3, ResultsKept DEF FlowInv, Executing
<1> QED BY <1>2, <1>15, <1>16, <1>17 DEF FlowInv

\* An archive that cannot be saved moves no array.
LEMMA LoseArchiveFlows ==
    ASSUME IInv, FlowInv, LoseArchive
    PROVE  FlowInv'
<1>1. /\ op \in OpenRegions /\ op # None /\ op' = [op EXCEPT !.lost = TRUE]
      /\ UNCHANGED <<flight, pass, tracing, segs, pending, begun, runners,
                     prov, writer, result, outputs, stream, raised>>
  BY DEF LoseArchive, IInv, TypeOK
<1>2. /\ op' \in OpenRegions /\ op'.node = op.node /\ op'.owned = op.owned
      /\ op'.id = op.id /\ op'.calls = op.calls /\ op'.refs = op.refs
  BY <1>1, LostFacts
<1>3. op' # None
  BY <1>2, NoneIsNoRegion
<1>4. /\ Region.op = op /\ Region.prov = prov /\ Region.begun = begun
      /\ Region'.op = op' /\ Region'.prov = prov /\ Region'.begun = begun
  BY <1>1 DEF Region
<1>5. Books(Region, writer)'
  BY <1>1, <1>2, <1>3, <1>4 DEF FlowInv, Books, Dated, Begun, Latest
<1>6. ~raised' => Flow(Region, writer)'
  BY <1>1, <1>2, <1>3, <1>4 DEF FlowInv, Flow, Follows
<1>7. Executing'
  BY <1>1, <1>2, <1>3 DEF FlowInv, Executing
<1>8. Results'
  BY <1>1, ResultsKept DEF FlowInv
<1> QED BY <1>5, <1>6, <1>7, <1>8 DEF FlowInv

LEMMA InitFlows == Init => FlowInv
<1> SUFFICES ASSUME Init PROVE FlowInv
  OBVIOUS
<1>1. /\ Region.op = None /\ Region.prov = [x \in Arrays |-> Raw]
      /\ writer = [x \in Arrays |-> Raw]
  BY DEF Init, Region
<1>2. Books(Region, writer) /\ Flow(Region, writer)
  BY <1>1, RawFacts DEF Books, Dated, Begun, Latest, Flow
<1> QED BY <1>2 DEF Init, FlowInv, Executing, Results

LEMMA StutterFlows == FlowInv /\ UNCHANGED vars => FlowInv'
  BY DEF vars, FlowInv, Books, Dated, Begun, Latest, Flow, Follows, Executing,
         Results, Region

LEMMA StepFlows ==
    ASSUME Usage = {}, IInv, FlowInv, [Next]_vars
    PROVE  FlowInv'
<1>1. CASE Next
  <2>1. ASSUME NEW n \in Nodes, NEW site \in Sites, InputTensors(n, site)
        PROVE  FlowInv'
    <3>1. CASE Revisit(n)
      <4>1. UNCHANGED vars
        BY <2>1, <3>1 DEF InputTensors
      <4> QED BY <4>1, StutterFlows
    <3> QED BY <2>1, <3>1, InputTensorsFlows
  <2>2. ASSUME NEW n \in Nodes, NEW site \in Sites,
               EnterBlock(n, site) \/ OutputTensors(n, site)
        PROVE  FlowInv'
    BY <2>2, EnterBlockFlows, OutputTensorsFlows
  <2>3. ASSUME NEW f \in Calls, NEW x \in Arrays, NEW out \in Arrays, NEW site \in Sites,
               WarpCall(f, {x, out}, out, site)
        PROVE  FlowInv'
    <3>1. {x, out} \in SUBSET Arrays /\ out \in {x, out}
      OBVIOUS
    <3> QED BY <2>3, <3>1, WarpCallFlows
  <2>4. ASSUME NEW site \in Sites, CudaWork(site) \/ Synchronize(site) PROVE FlowInv'
    BY <2>4, CudaWorkFlows, SynchronizeFlows
  <2>5. ASSUME NEW site \in Sites, ExitBlock(site, FALSE) \/ ExitBlock(site, TRUE)
        PROVE  FlowInv'
    BY <2>5, ExitBlockFlows
  <2>6. ASSUME NEW x \in Arrays, TorchOperation(x) PROVE FlowInv'
    BY <2>6, TorchOperationFlows
  <2> QED BY <1>1, <2>1, <2>2, <2>3, <2>4, <2>5, <2>6, StepCases, WarpReturnFlows,
            LoseArchiveFlows
<1>2. CASE UNCHANGED vars
  BY <1>2, StutterFlows
<1> QED BY <1>1, <1>2

\* A program that stays within the documented use compiles a node with values
\* whose producer is of the current pass, and is the region that wrote them or
\* a later one: no boundary, callback or other node makes an output out of a
\* producer an array had borrowed, or of its value from before the region.
THEOREM OutputsAlways ==
    ASSUME Usage = {}
    PROVE  Spec => []OutputsFollowRegions
<1>1. Init => IInv /\ FlowInv
  BY InitOK, InitFlows
<1>2. (IInv /\ FlowInv) /\ [Next]_vars => (IInv /\ FlowInv)'
  <2>1. IInv /\ FlowInv /\ [Next]_vars => IInv' /\ FlowInv'
    BY StepOK, StepFlows
  <2> QED BY <2>1
<1>3. IInv /\ FlowInv => OutputsFollowRegions
  BY DEF FlowInv, Results, Follows, Ready, OutputsFollowRegions
<1> QED BY <1>1, <1>2, <1>3, PTL DEF Spec

-----------------------------------------------------------------------------
(* What is left to capture, and what has been.                             *)

\* Discovery queues every region it records.
Counted(S, P) == Len(P) = Len(S) /\ \A i \in 1 .. Len(P) : P[i] = i

\* A capture pass takes the regions S in turn, of which it has done d: P is
\* the rest of them, and R the runners of those done.
ReplaysTo(S, P, R, real, d) ==
    /\ d >= 0
    /\ \A i \in 1 .. Len(P) : P[i] = d + i
    /\ \A i \in 1 .. d : S[i].calls # <<>> => \E k \in DOMAIN R : R[k].seg = i
    /\ \A k \in DOMAIN R :
         /\ R[k].seg \in 1 .. d
         /\ R[k].calls = S[R[k].seg].calls
         /\ R[k].real <=> real
         /\ \A j \in 1 .. k - 1 : R[j].seg < R[k].seg

Replays(S, P, R, real) == ReplaysTo(S, P, R, real, Len(S) - Len(P))

\* The queue of a node in its first two passes.
QueueAt(r, n) ==
    /\ pass[n] < 2 => Counted(r.segs[n], r.pending[n])
    /\ pass[n] = 2 => Replays(r.segs[n], r.pending[n], r.runners[n], n \in Exporting)

\* The open region is of the kind of its node's pass.
Timely(r) ==
    r.op # None => tracing[r.op.node] /\ r.op.capture = capture[r.op.node]

Passes == \A n \in Nodes : capture[n] <=> pass[n] > 1

Queues(r) == Timely(r) /\ \A n \in Nodes : QueueAt(r, n)

QueueInv == Passes /\ Queues(Region)

SameQueues(q, r) ==
    /\ q.segs = r.segs /\ q.pending = r.pending /\ q.runners = r.runners
    /\ q.op # None => /\ r.op # None
                      /\ q.op.node = r.op.node /\ q.op.capture = r.op.capture

Untouched(r, q, n) ==
    r.segs[n] = q.segs[n] /\ r.pending[n] = q.pending[n] /\ r.runners[n] = q.runners[n]

\* The runners R of a graph once region o has joined it.
Grown(R, o, real) ==
    IF o.calls = <<>> THEN R
    ELSE Append(R, [seg |-> o.seg, calls |-> o.calls, real |-> real])

\* Nothing captured yet.
LEMMA ReplaysNone ==
    ASSUME NEW S, NEW P, Counted(S, P), Len(S) \in Nat, NEW real
    PROVE  Replays(S, P, <<>>, real)
<1>1. Len(S) - Len(P) = 0
  BY DEF Counted
<1>2. DOMAIN <<>> = {}
  OBVIOUS
<1> QED BY <1>1, <1>2 DEF Counted, Replays, ReplaysTo

\* The next one captured.
LEMMA ReplaysNext ==
    ASSUME NEW S \in Seq(Segments), NEW P \in Seq(Nat), P # <<>>,
           NEW R \in Seq(Runners), NEW real \in BOOLEAN, Replays(S, P, R, real),
           NEW o \in OpenRegions, o.seg = Head(P), o.calls = S[Head(P)].calls,
           NEW T, T = Grown(R, o, real)
    PROVE  Replays(S, Tail(P), T, real)
<1> DEFINE d == Len(S) - Len(P)
           calls == o.calls
           run == [seg |-> Head(P), calls |-> calls, real |-> real]
<1>1. /\ Len(S) \in Nat /\ Len(P) \in Nat /\ Len(P) > 0 /\ Head(P) = P[1]
      /\ Tail(P) \in Seq(Nat) /\ Len(Tail(P)) = Len(P) - 1
      /\ \A i \in 1 .. Len(P) - 1 : Tail(P)[i] = P[i + 1]
  BY HeadTailProperties, LenProperties, EmptySeq
<1>2. /\ d >= 0 /\ d \in Nat
      /\ \A i \in 1 .. Len(P) : P[i] = d + i
      /\ \A i \in 1 .. d : S[i].calls # <<>> => \E k \in DOMAIN R : R[k].seg = i
      /\ \A k \in DOMAIN R :
           /\ R[k].seg \in 1 .. d
           /\ R[k].calls = S[R[k].seg].calls
           /\ R[k].real <=> real
           /\ \A j \in 1 .. k - 1 : R[j].seg < R[k].seg
  BY <1>1 DEF Replays, ReplaysTo
<1>3. Head(P) = d + 1 /\ Len(S) - Len(Tail(P)) = d + 1
  BY <1>1, <1>2
<1>4. \A i \in 1 .. Len(Tail(P)) : Tail(P)[i] = (d + 1) + i
  BY <1>1, <1>2
<1>5. run.seg = d + 1 /\ run.calls = calls /\ (run.real <=> real) /\ run \in Runners
      /\ calls = S[Head(P)].calls /\ T = IF calls = <<>> THEN R ELSE Append(R, run)
  BY <1>2, <1>3 DEF Runners, OpenRegions, Grown
<1>6. DOMAIN R = 1 .. Len(R) /\ Len(R) \in Nat
  BY LenProperties
<1> HIDE DEF d, run, calls
<1>12. SUFFICES ReplaysTo(S, Tail(P), T, real, d + 1)
  BY <1>3 DEF Replays
<1>7. CASE calls = <<>>
  <2>1. \A i \in 1 .. d + 1 : S[i].calls # <<>> => \E k \in DOMAIN R : R[k].seg = i
    <3> SUFFICES ASSUME NEW i \in 1 .. d + 1, S[i].calls # <<>>
                 PROVE  \E k \in DOMAIN R : R[k].seg = i
      OBVIOUS
    <3>1. i # d + 1
      BY <1>3, <1>5, <1>7
    <3>2. i \in 1 .. d
      BY <1>2, <3>1
    <3> QED BY <1>2, <3>2
  <2>2. T = R
    BY <1>5, <1>7
  <2>3. \A k \in DOMAIN R : R[k].seg \in 1 .. d + 1
    BY <1>2
  <2> QED BY <1>2, <1>4, <2>1, <2>2, <2>3 DEF ReplaysTo
<1>8. CASE calls # <<>>
  <2>1. T = Append(R, run)
    BY <1>5, <1>8
  <2>2. /\ Len(T) = Len(R) + 1 /\ DOMAIN T = 1 .. Len(R) + 1
        /\ \A k \in 1 .. Len(R) : T[k] = R[k]
        /\ T[Len(R) + 1] = run
    BY <1>5, <2>1, AppendProperties, LenProperties
  <2>3. ASSUME NEW i \in 1 .. d + 1, S[i].calls # <<>>
        PROVE  \E k \in DOMAIN T : T[k].seg = i
    <3>1. CASE i = d + 1
      <4>1. Len(R) + 1 \in DOMAIN T /\ T[Len(R) + 1].seg = i
        BY <1>5, <1>6, <2>2, <3>1
      <4> QED BY <4>1
    <3>2. CASE i # d + 1
      <4>1. i \in 1 .. d
        BY <1>2, <3>2
      <4>2. PICK k \in DOMAIN R : R[k].seg = i
        BY <1>2, <2>3, <4>1
      <4> QED BY <1>6, <2>2, <4>2
    <3> QED BY <3>1, <3>2
  <2>4. ASSUME NEW k \in DOMAIN T
        PROVE  /\ T[k].seg \in 1 .. d + 1
               /\ T[k].calls = S[T[k].seg].calls
               /\ T[k].real <=> real
               /\ \A j \in 1 .. k - 1 : T[j].seg < T[k].seg
    <3>1. CASE k \in 1 .. Len(R)
      <4>1. T[k] = R[k] /\ \A j \in 1 .. k - 1 : T[j] = R[j]
        BY <1>6, <2>2, <3>1
      <4>2. k \in DOMAIN R
        BY <1>6, <3>1
      <4>3. T[k].seg \in 1 .. d + 1 /\ T[k].calls = S[T[k].seg].calls
        BY <1>2, <4>1, <4>2
      <4>4. T[k].real <=> real
        BY <1>2, <4>1, <4>2
      <4>5. \A j \in 1 .. k - 1 : T[j].seg < T[k].seg
        BY <1>2, <4>1, <4>2
      <4> QED BY <4>3, <4>4, <4>5, Zenon
    <3>2. CASE k = Len(R) + 1
      <4>1. \A j \in 1 .. k - 1 : T[j].seg < d + 1
        <5> SUFFICES ASSUME NEW j \in 1 .. k - 1
                     PROVE  T[j].seg < d + 1
          OBVIOUS
        <5>1. j \in DOMAIN R /\ T[j] = R[j]
          BY <1>6, <2>2, <3>2
        <5>2. R[j].seg \in 1 .. d
          BY <1>2, <5>1
        <5> QED BY <1>2, <5>1, <5>2
      <4>2. T[k] = run
        BY <2>2, <3>2
      <4>3. T[k].seg = d + 1 /\ T[k].calls = S[T[k].seg].calls
        BY <1>3, <1>5, <4>2
      <4>4. T[k].real <=> real
        BY <1>5, <4>2
      <4>5. T[k].seg \in 1 .. d + 1
        BY <1>2, <4>3
      <4>6. \A j \in 1 .. k - 1 : T[j].seg < T[k].seg
        BY <4>1, <4>3
      <4> QED BY <4>3, <4>4, <4>5, <4>6, Zenon
    <3> QED BY <1>6, <2>2, <3>1, <3>2
  <2>5. d + 1 >= 0
    BY <1>2
  <2> QED BY <1>4, <2>3, <2>4, <2>5, Zenon DEF ReplaysTo
<1> QED BY <1>7, <1>8

\* One more discovered.
LEMMA CountedNext ==
    ASSUME NEW S \in Seq(Segments), NEW P \in Seq(Nat), Counted(S, P), NEW s \in Segments
    PROVE  Counted(Append(S, s), Append(P, Len(S) + 1))
<1>1. Len(S) \in Nat /\ Len(P) \in Nat /\ Len(S) + 1 \in Nat
  BY LenProperties
<1> DEFINE k == Len(S) + 1
<1>2. /\ Len(Append(S, s)) = k
      /\ Len(Append(P, k)) = Len(P) + 1
      /\ \A i \in 1 .. Len(P) : Append(P, k)[i] = P[i]
      /\ Append(P, k)[Len(P) + 1] = k
  BY <1>1, AppendProperties, LenProperties
<1> QED BY <1>1, <1>2 DEF Counted

\* The runner joins its own node's graph, unless the marker raises.
LEMMA MarkerRuns ==
    ASSUME NEW r, RegionOK(r), NEW o \in OpenRegions, NEW real,
           NEW m, m = Marker(r, o, real)
    PROVE  /\ m.segs = r.segs /\ m.pending = r.pending
           /\ \A n \in Nodes : n # o.node => m.runners[n] = r.runners[n]
           /\ m.ok => m.runners[o.node] = Grown(r.runners[o.node], o, real)
<1>1. o.node \in Nodes
  BY DEF OpenRegions
<1>2. CASE o.calls = <<>>
  BY <1>2 DEF Marker, Grown
<1>3. CASE o.calls # <<>> /\ Foreign(r, o) # {}
  <2>1. m = [r EXCEPT !.ok = FALSE]
    BY <1>3 DEF Marker
  <2> QED BY <2>1 DEF RegionOK, RegionRecords
<1>4. CASE o.calls # <<>> /\ Foreign(r, o) = {}
  <2> DEFINE run == [seg |-> o.seg, calls |-> o.calls, real |-> real]
             all == [x \in Arrays |-> IF x \in o.refs
                       THEN Producer(o.node, pass[o.node], o.id, FALSE) ELSE r.prov[x]]
             rs == [r.runners EXCEPT ![o.node] = Append(@, run)]
  <2>1. m = [r EXCEPT !.runners = rs, !.prov = all]
    BY <1>4 DEF Marker, RegionOK, RegionRecords
  <2>2. r.runners \in [Nodes -> Seq(Runners)]
    BY DEF RegionOK, RegionRecords
  <2>3. /\ \A n \in Nodes : n # o.node => rs[n] = r.runners[n]
        /\ rs[o.node] = Append(r.runners[o.node], run)
    BY <1>1, <2>2
  <2> HIDE DEF rs, all
  <2>4. m.runners = rs /\ m.segs = r.segs /\ m.pending = r.pending
    BY <2>1 DEF RegionOK, RegionRecords
  <2> QED BY <1>4, <2>3, <2>4 DEF Grown
<1> QED BY <1>2, <1>3, <1>4

\* It touches nothing of another node.
LEMMA MarkerElsewhere ==
    ASSUME NEW r, RegionOK(r), NEW o \in OpenRegions, NEW real,
           NEW m, m = Marker(r, o, real), NEW n \in Nodes, n # o.node
    PROVE  m.runners[n] = r.runners[n]
  BY MarkerRuns

\* Ending a region changes its own node's queue only, which stays what the
\* node's pass makes of it.
LEMMA TerminateQueues ==
    ASSUME NEW r, RegionOK(r), r.op # None, NEW site \in Closers, NEW exc \in BOOLEAN,
           pass \in [Nodes -> Nat], Passes, Timely(r), NEW n \in Nodes,
           NEW t, t = Terminate(r, site, exc)
    PROVE  /\ QueueAt(r, n) => QueueAt(t, n)
           /\ n # r.op.node => Untouched(t, r, n)
<1> DEFINE o == r.op
<1>1. /\ o \in OpenRegions /\ o.node \in Nodes /\ o.calls \in Seq(Calls)
      /\ r.segs \in [Nodes -> Seq(Segments)] /\ r.pending \in [Nodes -> Seq(Nat)]
      /\ r.runners \in [Nodes -> Seq(Runners)]
      /\ o.capture <=> pass[o.node] > 1
  BY DEF RegionOK, RegionRecords, OpenRegions, Timely, Passes
<1>2. CASE ~o.capture
  <2> DEFINE s == [open |-> o.open, close |-> site, calls |-> o.calls]
             k == Len(r.segs[o.node]) + 1
  <2>a. PICK left : left = Discovered(r, site)
    OBVIOUS
  <2>b. PICK u : u = Numbered(r)
    OBVIOUS
  <2>c. PICK real : real = FALSE
    OBVIOUS
  <2>1. t = Marker(left, u, real)
    BY <1>2, <2>a, <2>b, <2>c DEF Terminate, TerminateDiscovery, Discovered, Numbered
  <2>2. RegionOK(left) /\ u \in OpenRegions
    BY <2>a, <2>b, DiscoveryLeft
  <2>3. u.node = o.node
    BY <1>1, <2>b DEF Numbered, OpenRegions
  <2>4. /\ left.segs = [r.segs EXCEPT ![o.node] = Append(@, s)]
        /\ left.pending = [r.pending EXCEPT ![o.node] = Append(@, k)]
        /\ left.runners = r.runners
    BY <2>a DEF Discovered, RegionOK, RegionRecords
  <2>5. s \in Segments
    BY <1>1 DEF Segments, OpenRegions, Closers
  <2> HIDE DEF s
  <2>6. /\ t.segs = left.segs /\ t.pending = left.pending
        /\ \A m \in Nodes : m # o.node => t.runners[m] = left.runners[m]
    <3> HIDE DEF o, k
    <3>1. t.segs = left.segs /\ t.pending = left.pending
      BY <2>1, <2>2, MarkerRuns
    <3>2. ASSUME NEW m \in Nodes, m # o.node PROVE t.runners[m] = left.runners[m]
      BY <2>1, <2>2, <2>3, <3>2, MarkerElsewhere
    <3> QED BY <3>1, <3>2
  <2>7. CASE n # o.node
    <3>1. Untouched(t, r, n)
      BY <1>1, <2>4, <2>6, <2>7 DEF Untouched
    <3> QED BY <2>7, <3>1 DEF Untouched, QueueAt
  <2>8. CASE n = o.node
    <3>1. t.segs[n] = Append(r.segs[n], s) /\ t.pending[n] = Append(r.pending[n], Len(r.segs[n]) + 1)
      <4>1. k = Len(r.segs[n]) + 1
        BY <2>8
      <4> HIDE DEF k, o
      <4>2. /\ t.segs = [r.segs EXCEPT ![n] = Append(@, s)]
            /\ t.pending = [r.pending EXCEPT ![n] = Append(@, k)]
        BY <2>4, <2>6, <2>8
      <4>3. r.segs \in [Nodes -> Seq(Segments)] /\ r.pending \in [Nodes -> Seq(Nat)]
        BY <1>1
      <4> QED BY <4>1, <4>2, <4>3
    <3>2. r.segs[n] \in Seq(Segments) /\ r.pending[n] \in Seq(Nat)
      BY <1>1
    <3>3. Counted(r.segs[n], r.pending[n]) => Counted(t.segs[n], t.pending[n])
      BY <2>5, <3>1, <3>2, CountedNext
    <3>4. pass[n] # 2
      BY <1>1, <1>2, <2>8
    <3> QED BY <2>8, <3>3, <3>4 DEF QueueAt
  <2> QED BY <2>7, <2>8
<1>3. CASE o.capture
  <2> DEFINE left == [r EXCEPT !.op = None, !.stream = FALSE]
             real == o.node \in Exporting
             done == Marker(left, o, real)
             popped == [done EXCEPT !.pending[o.node] = Tail(@)]
             s == r.segs[o.node][o.seg]
  <2>1. /\ RegionOK(left) /\ left.segs = r.segs /\ left.pending = r.pending
        /\ left.runners = r.runners
    BY DEF RegionOK, RegionRecords, QueueOK
  <2>2. \/ t \in {left, [left EXCEPT !.ok = FALSE]}
        \/ t = popped /\ o.calls = s.calls /\ done.ok
    BY <1>3 DEF Terminate, TerminateCapture
  <2>3. CASE t \in {left, [left EXCEPT !.ok = FALSE]}
    <3>1. t.segs = r.segs /\ t.pending = r.pending /\ t.runners = r.runners
      <4> HIDE DEF left
      <4> QED BY <2>1, <2>3 DEF RegionOK, RegionRecords
    <3> QED BY <3>1 DEF Untouched, QueueAt
  <2>4. CASE t = popped /\ o.calls = s.calls /\ done.ok
    <3>1. real \in BOOLEAN /\ real = (o.node \in Exporting)
      OBVIOUS
    <3> HIDE DEF left, real, s
    <3>6. o.calls = r.segs[o.node][o.seg].calls
      BY <2>4 DEF s
    <3>7. /\ r.pending[o.node] # <<>> /\ o.seg = Head(r.pending[o.node])
      BY <1>3 DEF RegionOK, QueueOK
    <3> HIDE DEF o
    <3>2. /\ RegionOK(done)
          /\ done.segs = left.segs /\ done.pending = left.pending
          /\ \A m \in Nodes : m # o.node => done.runners[m] = left.runners[m]
          /\ done.runners[o.node] = Grown(left.runners[o.node], o, real)
      <4>1. RegionOK(done)
        BY <1>1, <2>1, <3>1, MarkerKeeps
      <4>2. PICK q : q = done
        OBVIOUS
      <4>3. PICK l : l = left
        OBVIOUS
      <4>4. q = Marker(l, o, real) /\ RegionOK(l) /\ q.ok
        BY <2>1, <2>4, <4>2, <4>3
      <4> HIDE DEF done
      <4>5. q.segs = l.segs /\ q.pending = l.pending
        BY <1>1, <4>4, MarkerRuns
      <4>6. q.runners[o.node] = Grown(l.runners[o.node], o, real)
        BY <1>1, <4>4, MarkerRuns
      <4>7. ASSUME NEW m \in Nodes, m # o.node PROVE q.runners[m] = l.runners[m]
        BY <1>1, <4>4, <4>7, MarkerElsewhere
      <4> QED BY <4>1, <4>2, <4>3, <4>5, <4>6, <4>7
    <3> HIDE DEF done
    <3>3. /\ popped.segs = r.segs /\ popped.runners = done.runners
          /\ popped.pending = [r.pending EXCEPT ![o.node] = Tail(@)]
      BY <2>1, <3>2 DEF RegionOK, RegionRecords
    <3> HIDE DEF popped
    <3>4. CASE n # o.node
      <4>1. Untouched(t, r, n)
        BY <1>1, <2>1, <2>4, <3>2, <3>3, <3>4 DEF Untouched
      <4> QED BY <3>4, <4>1 DEF Untouched, QueueAt
    <3>5. CASE n = o.node
      <4>1. /\ r.pending[n] # <<>> /\ o.seg = Head(r.pending[n])
            /\ r.segs[n] \in Seq(Segments) /\ r.pending[n] \in Seq(Nat)
            /\ r.runners[n] \in Seq(Runners)
        BY <1>1, <3>5, <3>7
      <4>2. /\ t.segs[n] = r.segs[n] /\ t.pending[n] = Tail(r.pending[n])
            /\ t.runners[n] = Grown(r.runners[n], o, real)
        BY <1>1, <2>1, <2>4, <3>2, <3>3, <3>5, <4>1
      <4>3. o.calls = r.segs[n][Head(r.pending[n])].calls
        BY <3>5, <3>6, <4>1
      <4>4. ASSUME Replays(r.segs[n], r.pending[n], r.runners[n], real)
            PROVE  Replays(t.segs[n], t.pending[n], t.runners[n], real)
        BY <1>1, <3>1, <4>1, <4>2, <4>3, <4>4, ReplaysNext
      <4>5. real = (n \in Exporting)
        BY <3>1, <3>5
      <4>6. ~(pass[n] < 2)
        BY <1>1, <1>3, <3>5
      <4> QED BY <3>5, <4>4, <4>5, <4>6 DEF QueueAt, o
    <3> QED BY <3>4, <3>5
  <2> QED BY <2>2, <2>3, <2>4
<1> QED BY <1>2, <1>3

LEMMA QueuesKept ==
    ASSUME NEW r, NEW q, Queues(r), SameQueues(q, r)
    PROVE  Queues(q)
  BY DEF Queues, SameQueues, Timely, QueueAt

\* So does a boundary.
LEMMA CloseQueues ==
    ASSUME NEW r, RegionOK(r), StreamOK(r), NEW site \in Closers,
           pass \in [Nodes -> Nat], Passes, Timely(r),
           NEW c, c \in {Close(r, site), CloseUnowned(r, site)}
    PROVE  /\ Timely(c)
           /\ c.op # None => c.op = r.op
           /\ \A n \in Nodes :
                /\ QueueAt(r, n) => QueueAt(c, n)
                /\ r.op = None \/ n # r.op.node => Untouched(c, r, n)
<1>1. c = r \/ (r.op # None /\ c = Terminate(r, site, FALSE))
  BY DEF Close, CloseUnowned
<1>2. CASE c = r
  BY <1>2 DEF Untouched
<1>3. CASE r.op # None /\ c = Terminate(r, site, FALSE)
  <2>1. FALSE \in BOOLEAN
    OBVIOUS
  <2>2. c.op = None
    BY <1>3, <2>1, TerminateKeeps
  <2>3. ASSUME NEW n \in Nodes
        PROVE  /\ QueueAt(r, n) => QueueAt(c, n)
               /\ n # r.op.node => Untouched(c, r, n)
    BY <1>3, <2>1, TerminateQueues
  <2> QED BY <1>3, <2>2, <2>3 DEF Timely
<1> QED BY <1>1, <1>2, <1>3

LEMMA BoundaryQueues ==
    ASSUME IInv, NEW r, RegionOK(r), StreamOK(r), NEW site \in Closers, Passes, Queues(r),
           NEW c, c \in {Close(r, site), CloseUnowned(r, site)}
    PROVE  Queues(c)
<1>1. pass \in [Nodes -> Nat]
  BY DEF IInv, TypeOK
<1> QED BY <1>1, CloseQueues DEF Queues

\* And so does opening a region at a node that is being traced.
LEMMA BeginQueues ==
    ASSUME NEW r, RegionOK(r), StreamOK(r), NEW n \in Nodes, NEW site \in Sites,
           NEW owned \in BOOLEAN, pass \in [Nodes -> Nat],
           Passes, Queues(r), tracing[n],
           NEW b, b = Begin(r, n, site, owned)
    PROVE  Queues(b)
<1> DEFINE q == IF r.op = None THEN r
                ELSE IF r.op.owned THEN [r EXCEPT !.ok = FALSE]
                ELSE Terminate(r, site, FALSE)
           seg == Head(q.pending[n])
<1>1. b = IF ~q.ok THEN q
          ELSE IF ~capture[n] THEN Opened(q, n, site, owned, 0)
          ELSE IF \/ q.pending[n] = <<>>
                  \/ q.segs[n][seg].open # site
               THEN [q EXCEPT !.ok = FALSE]
          ELSE Opened(q, n, site, owned, seg)
  BY DEF Begin
<1>2. RegionOK(q) /\ Queues(q)
  <2>1. CASE r.op = None
    BY <2>1
  <2>2. CASE r.op # None /\ r.op.owned
    <3>1. q = [r EXCEPT !.ok = FALSE]
      BY <2>2
    <3> HIDE DEF q
    <3>2. RegionOK(q) /\ SameQueues(q, r)
      BY <2>2, <3>1 DEF RegionOK, RegionRecords, QueueOK, SameQueues
    <3> QED BY <3>2, QueuesKept
  <2>3. CASE r.op # None /\ ~r.op.owned
    <3>1. q = Terminate(r, site, FALSE)
      BY <2>3
    <3>2. site \in Closers /\ FALSE \in BOOLEAN
      BY DEF Closers
    <3> HIDE DEF q
    <3>3. RegionOK(q) /\ q.op = None
      BY <2>3, <3>1, <3>2, TerminateKeeps
    <3>4. Timely(r) /\ \A m \in Nodes : QueueAt(r, m)
      BY DEF Queues
    <3>5. ASSUME NEW m \in Nodes PROVE QueueAt(q, m)
      BY <2>3, <3>1, <3>2, <3>4, TerminateQueues
    <3> QED BY <3>3, <3>5 DEF Queues, Timely
  <2> QED BY <2>1, <2>2, <2>3
<1>3. CASE b = q
  BY <1>2, <1>3
<1>4. CASE b = [q EXCEPT !.ok = FALSE]
  <2> HIDE DEF q
  <2>1. SameQueues(b, q)
    BY <1>2, <1>4 DEF RegionOK, RegionRecords, SameQueues
  <2> QED BY <1>2, <2>1, QueuesKept
<1>5. ASSUME NEW k, b = Opened(q, n, site, owned, k)
      PROVE  Queues(b)
  <2> HIDE DEF q
  <2>1. /\ b.op.node = n /\ b.op.capture = capture[n]
        /\ b.segs = q.segs /\ b.pending = q.pending /\ b.runners = q.runners
    BY <1>2, <1>5 DEF Opened, RegionOK, RegionRecords
  <2> QED BY <1>2, <2>1 DEF Queues, Timely, QueueAt
<1> QED BY <1>1, <1>3, <1>4, <1>5

LEMMA ResolveQueues ==
    ASSUME IInv, QueueInv, NEW n \in Nodes \cup {None}, NEW site \in Sites,
           NEW r, r = Resolve(n, site)
    PROVE  Queues(r)
<1> DEFINE c == Close(Region, site)
           b == Begin(c, n, site, FALSE)
<1>1. RegionOK(c) /\ StreamOK(c) /\ Queues(c)
  <2>1. site \in Closers
    BY DEF Closers
  <2> QED BY <2>1, BoundaryOK, StateOK, BoundaryQueues DEF QueueInv
<1>2. r \in {Region, c} \/ (n \in Nodes /\ tracing[n] /\ r = b)
  BY DEF Resolve
<1>3. CASE n \in Nodes /\ tracing[n] /\ r = b
  <2>1. pass \in [Nodes -> Nat] /\ FALSE \in BOOLEAN
    BY DEF IInv, TypeOK
  <2> HIDE DEF c
  <2> QED BY <1>1, <1>3, <2>1, BeginQueues DEF QueueInv
<1> QED BY <1>1, <1>2, <1>3 DEF QueueInv

\* A step that ends in such a record, within the passes it began in.
LEMMA BecomesQueues ==
    ASSUME Passes, NEW r, Becomes(r), Queues(r), UNCHANGED <<pass, capture>>,
           r.op = None \/ UNCHANGED tracing
    PROVE  QueueInv'
<1>1. /\ Region'.op = r.op /\ Region'.segs = r.segs /\ Region'.pending = r.pending
      /\ Region'.runners = r.runners
  BY DEF Region, Becomes
<1>2. Passes'
  BY DEF Passes
<1>3. Timely(Region)'
  BY <1>1 DEF Queues, Timely
<1>4. (\A n \in Nodes : QueueAt(Region, n))'
  BY <1>1 DEF Queues, QueueAt
<1> QED BY <1>2, <1>3, <1>4 DEF QueueInv, Queues

-----------------------------------------------------------------------------
(* One lemma per action, for the queues. *)

LEMMA SynchronizeQueues ==
    ASSUME IInv, QueueInv, NEW site \in Sites, CudaWork(site) \/ Synchronize(site)
    PROVE  QueueInv'
<1> DEFINE c == Close(Region, site)
           r == [c EXCEPT !.ok = TRUE]
<1>1. RegionOK(c) /\ Queues(c)
  <2>1. site \in Closers
    BY DEF Closers
  <2> QED BY <2>1, BoundaryOK, StateOK, BoundaryQueues DEF QueueInv
<1>2. (Becomes(c) \/ Becomes(r)) /\ UNCHANGED <<pass, capture, tracing>>
  BY DEF CudaWork, Synchronize
<1>3. Queues(r)
  <2> HIDE DEF c
  <2>1. SameQueues(r, c)
    BY <1>1 DEF RegionOK, RegionRecords, SameQueues
  <2> HIDE DEF r
  <2> QED BY <1>1, <2>1, QueuesKept
<1> HIDE DEF c, r
<1> QED BY <1>1, <1>2, <1>3, BecomesQueues DEF QueueInv

LEMMA TorchOperationQueues ==
    ASSUME IInv, QueueInv, NEW x \in Arrays, TorchOperation(x)
    PROVE  QueueInv'
<1> DEFINE c == Close(Region, FxSite)
<1>1. Queues(c)
  <2>1. FxSite \in Closers
    BY DEF Closers
  <2> QED BY <2>1, StateOK, BoundaryQueues DEF QueueInv
<1>2. Becomes(c) /\ UNCHANGED <<pass, capture, tracing>>
  BY DEF TorchOperation
<1> HIDE DEF c
<1> QED BY <1>1, <1>2, BecomesQueues DEF QueueInv

LEMMA EnterBlockQueues ==
    ASSUME IInv, QueueInv, NEW n \in Nodes, NEW site \in Sites, EnterBlock(n, site)
    PROVE  QueueInv'
<1> DEFINE b == Begin(Region, n, site, TRUE)
<1>1. Queues(b)
  <2>1. pass \in [Nodes -> Nat] /\ TRUE \in BOOLEAN /\ tracing[n]
    BY DEF IInv, TypeOK, EnterBlock
  <2> QED BY <2>1, StateOK, BeginQueues DEF QueueInv
<1>2. Becomes(b) /\ UNCHANGED <<pass, capture, tracing>>
  BY DEF EnterBlock
<1> HIDE DEF b
<1> QED BY <1>1, <1>2, BecomesQueues DEF QueueInv

LEMMA ExitBlockQueues ==
    ASSUME IInv, QueueInv, NEW site \in Sites, NEW exc \in BOOLEAN, ExitBlock(site, exc)
    PROVE  QueueInv'
<1> DEFINE t == IF op # None /\ op.owned THEN Terminate(Region, site, exc) ELSE Region
           r == [t EXCEPT !.ok = @ /\ ~exc]
<1>1. RegionOK(t) /\ Queues(t)
  <2>1. CASE op # None /\ op.owned
    <3>1. pass \in [Nodes -> Nat] /\ site \in Closers /\ Region.op # None
      BY <2>1, StateOK DEF IInv, TypeOK, Closers
    <3>2. t = Terminate(Region, site, exc)
      BY <2>1
    <3> HIDE DEF t
    <3>3. RegionOK(t) /\ t.op = None
      BY <3>1, <3>2, StateOK, TerminateKeeps
    <3>4. Timely(Region) /\ \A m \in Nodes : QueueAt(Region, m)
      BY DEF QueueInv, Queues
    <3>5. ASSUME NEW m \in Nodes PROVE QueueAt(t, m)
      BY <3>1, <3>2, <3>4, StateOK, TerminateQueues DEF QueueInv
    <3> QED BY <3>3, <3>5 DEF Queues, Timely
  <2>2. CASE ~(op # None /\ op.owned)
    BY <2>2, StateOK DEF QueueInv
  <2> QED BY <2>1, <2>2
<1>2. Queues(r)
  <2> HIDE DEF t
  <2>1. SameQueues(r, t)
    BY <1>1 DEF RegionOK, RegionRecords, SameQueues
  <2> HIDE DEF r
  <2> QED BY <1>1, <2>1, QueuesKept
<1>3. Becomes(r) /\ UNCHANGED <<pass, capture, tracing>>
  BY DEF ExitBlock
<1> HIDE DEF r
<1> QED BY <1>2, <1>3, BecomesQueues DEF QueueInv

\* Outside a block, an output finds no region open once it has closed one.
LEMMA OutputTensorsQueues ==
    ASSUME "output_inside" \notin Usage, IInv, QueueInv, NEW n \in Nodes,
           NEW site \in Sites, OutputTensors(n, site)
    PROVE  QueueInv'
<1> DEFINE c == Close(Region, site)
<1>1. Queues(c) /\ c.op = None
  <2>1. site \in Closers /\ pass \in [Nodes -> Nat]
    BY DEF Closers, IInv, TypeOK
  <2>2. c = Region \/ c.op = None
    BY <2>1, StateOK, CloseKeeps
  <2>3. op # None => c = Terminate(Region, site, FALSE)
    BY StateOK DEF OutputTensors, Idle, Close, CloseUnowned
  <2>4. op # None => c.op = None
    BY <2>1, <2>3, StateOK, TerminateKeeps
  <2> QED BY <2>1, <2>2, <2>4, StateOK, BoundaryQueues DEF QueueInv
<1>2. Becomes(c) /\ UNCHANGED <<pass, capture>>
  BY DEF OutputTensors
<1> HIDE DEF c
<1> QED BY <1>1, <1>2, BecomesQueues DEF QueueInv

LEMMA WarpCallQueues ==
    ASSUME IInv, QueueInv, NEW f \in Calls, NEW args \in SUBSET Arrays, NEW out \in Arrays,
           NEW site \in Sites, WarpCall(f, args, out, site)
    PROVE  QueueInv'
<1> DEFINE n == Source(args)
           r == IF OneContext(args) THEN Resolve(n, site) ELSE [Region EXCEPT !.ok = FALSE]
           pv == [x \in Arrays |-> IF x \in args /\ Stale(x) THEN Raw ELSE r.prov[x]]
           s == [r EXCEPT !.prov = pv]
           traced == {x \in args : s.prov[x] # Raw}
           joins == s.op # None /\ n \in {None, s.op.node}
           u == IF joins THEN [s EXCEPT !.op = Noted(@, f, traced)] ELSE s
<1>1. n \in Nodes \cup {None}
  BY SourceTyped
<1>2. RegionOK(r) /\ Queues(r)
  <2>1. CASE OneContext(args)
    <3>1. r = Resolve(n, site)
      BY <2>1
    <3> HIDE DEF r, n
    <3> QED BY <1>1, <3>1, ResolveKeeps, ResolveQueues
  <2>2. CASE ~OneContext(args)
    <3>1. r = [Region EXCEPT !.ok = FALSE]
      BY <2>2
    <3> HIDE DEF r
    <3>2. RegionOK(r) /\ SameQueues(r, Region)
      BY <3>1, StateOK DEF RegionOK, RegionRecords, QueueOK, SameQueues
    <3> QED BY <3>2, QueuesKept DEF QueueInv
  <2> QED BY <2>1, <2>2
<1>3. (Becomes(u) \/ Becomes(s)) /\ UNCHANGED <<pass, capture, tracing>>
  BY DEF WarpCall
<1> HIDE DEF r
<1>4. SameQueues(s, r)
  <2> HIDE DEF pv
  <2> QED BY <1>2 DEF RegionOK, RegionRecords, SameQueues
<1>5. s.op = r.op
  <2> HIDE DEF pv
  <2> QED BY <1>2 DEF RegionOK, RegionRecords
<1>6. SameQueues(u, r)
  <2>1. CASE ~joins
    BY <1>4, <2>1
  <2>2. CASE joins
    <3> DEFINE o == Noted(s.op, f, traced)
    <3>1. r.op \in OpenRegions /\ s.op # None
      BY <1>2, <1>5, <2>2 DEF RegionOK, RegionRecords
    <3>2. u = [s EXCEPT !.op = o] /\ traced \in SUBSET Arrays
      BY <2>2
    <3> HIDE DEF traced, u, joins, pv
    <3>3. o \in OpenRegions /\ o.node = r.op.node /\ o.capture = r.op.capture
      BY <1>5, <3>1, <3>2, NotedFacts
    <3>4. o # None
      BY <3>3, NoneIsNoRegion
    <3> HIDE DEF o
    <3>5. u.op = o /\ u.segs = r.segs /\ u.pending = r.pending /\ u.runners = r.runners
      BY <1>2, <3>2 DEF RegionOK, RegionRecords
    <3> HIDE DEF s
    <3> QED BY <1>5, <3>1, <3>3, <3>4, <3>5 DEF SameQueues
  <2> QED BY <2>1, <2>2
<1> HIDE DEF s, u
<1> QED BY <1>2, <1>3, <1>4, <1>6, QueuesKept, BecomesQueues DEF QueueInv

\* Adopting arrays of its own node leaves a region at the node it is of.
LEMMA WarpReturnQueues ==
    ASSUME IInv, QueueInv, WarpReturn
    PROVE  QueueInv'
<1> DEFINE n == flight.node
           adopted == IF n = None THEN {} ELSE flight.args
           pv == [x \in Arrays |-> IF x \in adopted /\ prov[x] = Raw
                                   THEN Producer(n, pass[n], 0, tracing[n]) ELSE prov[x]]
           o == Adopting(op, n, adopted)
           joined == [Region EXCEPT
                     !.prov = [x \in Arrays |->
                         IF x \in adopted /\ @[x] = Raw
                         THEN Producer(n, pass[n], 0, tracing[n]) ELSE @[x]],
                     !.op = Adopting(@, n, adopted)]
           c == IF flight.out \in TorchBacked THEN CloseUnowned(joined, flight.site)
                ELSE joined
<1>1. /\ flight # None /\ flight \in Flights /\ n \in Nodes \cup {None}
      /\ flight.site \in Closers /\ adopted \in SUBSET Arrays
  BY DEF WarpReturn, IInv, TypeOK, Flights, Closers
<1>2. /\ pass \in [Nodes -> Nat] /\ tracing \in [Nodes -> BOOLEAN]
      /\ prov \in [Arrays -> Producers] /\ op \in OpenRegions \cup {None}
  BY DEF IInv, TypeOK
<1>3. pv \in [Arrays -> Producers]
  <2>1. n \in Nodes => Producer(n, pass[n], 0, tracing[n]) \in Producers
    <3>1. n \in Nodes => pass[n] \in Nat /\ tracing[n] \in BOOLEAN
      BY <1>2
    <3> QED BY <3>1, ProducerTyped
  <2> QED BY <1>1, <1>2, <2>1
<1>4. /\ o \in OpenRegions \cup {None}
      /\ o = None <=> op = None
      /\ op # None => o.node = op.node /\ o.capture = op.capture /\ o.seg = op.seg
  <2>1. CASE op # None /\ n = op.node
    <3>1. o = [op EXCEPT !.refs = @ \cup adopted] /\ op \in OpenRegions
      BY <1>2, <2>1 DEF Adopting
    <3> HIDE DEF o, adopted
    <3>2. o \in OpenRegions /\ o.node = op.node /\ o.capture = op.capture /\ o.seg = op.seg
      BY <1>1, <3>1 DEF OpenRegions
    <3> QED BY <2>1, <3>2, NoneIsNoRegion
  <2>2. CASE ~(op # None /\ n = op.node)
    BY <1>2, <2>2 DEF Adopting
  <2> QED BY <2>1, <2>2
<1>5. joined = [Region EXCEPT !.prov = pv, !.op = o]
  <2>1. Region.op = op /\ Region.prov = prov
    BY DEF Region
  <2>2. pv = [x \in Arrays |-> IF x \in adopted /\ Region.prov[x] = Raw
                THEN Producer(n, pass[n], 0, tracing[n]) ELSE Region.prov[x]]
    BY <2>1, Zenon
  <2>3. o = Adopting(Region.op, n, adopted)
    BY <2>1
  <2> QED BY <2>2, <2>3, Zenon
<1> HIDE DEF pv, o, joined
<1>6. /\ joined \in RegionRecords /\ joined.op = o /\ joined.stream = Region.stream
      /\ joined.segs = Region.segs /\ joined.pending = Region.pending
      /\ joined.runners = Region.runners
  BY <1>3, <1>4, <1>5, StateOK DEF RegionOK, RegionRecords
<1>7. RegionOK(joined) /\ StreamOK(joined) /\ SameQueues(joined, Region)
  BY <1>4, <1>6, StateOK DEF RegionOK, QueueOK, StreamOK, SameQueues
<1>8. Queues(joined)
  BY <1>7, QueuesKept DEF QueueInv
<1>9. Queues(c)
  <2>1. CASE flight.out \in TorchBacked
    <3>1. c = CloseUnowned(joined, flight.site)
      BY <2>1
    <3> HIDE DEF c
    <3> QED BY <1>1, <1>7, <1>8, <3>1, BoundaryQueues DEF QueueInv
  <2>2. CASE flight.out \notin TorchBacked
    BY <1>8, <2>2
  <2> QED BY <2>1, <2>2
<1>10. Becomes(c) /\ UNCHANGED <<pass, capture, tracing>>
  BY DEF WarpReturn, joined, o, pv
<1> HIDE DEF c
<1> QED BY <1>9, <1>10, BecomesQueues DEF QueueInv

\* A second pass starts with the queue the first one left, and no runner.
LEMMA InputTensorsQueues ==
    ASSUME IInv, QueueInv, NEW n \in Nodes, NEW site \in Sites,
           InputTensors(n, site), ~Revisit(n)
    PROVE  QueueInv'
<1> DEFINE rs == [runners EXCEPT ![n] = <<>>]
           bg == [begun EXCEPT ![n] = 0]
           r0 == [Region EXCEPT !.runners[n] = <<>>, !.begun[n] = 0]
           c == Close(r0, site)
           p == Producer(n, pass[n] + 1, 0, FALSE)
           r == IF c.ok THEN [c EXCEPT !.prov[Input(n)] = p] ELSE c
<1>1. /\ Becomes(r)
      /\ pass[n] = 0 \/ ~tracing[n]
      /\ pass' = [pass EXCEPT ![n] = @ + 1]
      /\ tracing' = [tracing EXCEPT ![n] = TRUE]
      /\ capture' = [capture EXCEPT ![n] = pass[n] > 0]
  BY DEF InputTensors
<1>2. /\ pass \in [Nodes -> Nat] /\ tracing \in [Nodes -> BOOLEAN]
      /\ capture \in [Nodes -> BOOLEAN] /\ site \in Closers
  BY DEF IInv, TypeOK, Closers
<1>3. /\ RegionOK(r0) /\ StreamOK(r0) /\ r0.op = op /\ r0.runners = rs
      /\ r0.segs = Region.segs /\ r0.pending = Region.pending
  <2>1. r0 = [Region EXCEPT !.runners = rs, !.begun = bg]
    BY DEF Region
  <2>2. rs \in [Nodes -> Seq(Runners)] /\ bg \in [Nodes -> Nat]
    BY DEF IInv, TypeOK
  <2> HIDE DEF rs, bg, r0
  <2>3. /\ r0 \in RegionRecords /\ r0.op = op /\ r0.runners = rs
        /\ r0.segs = Region.segs /\ r0.pending = Region.pending
        /\ r0.stream = Region.stream
    BY <2>1, <2>2, StateOK DEF RegionOK, RegionRecords
  <2> QED BY <2>3, StateOK DEF RegionOK, QueueOK, StreamOK
<1>4. /\ \A m \in Nodes : m # n => rs[m] = Region.runners[m]
      /\ rs[n] = <<>>
  BY DEF IInv, TypeOK, Region
<1> HIDE DEF r0, rs
<1>5. /\ Timely(r0)
      /\ \A m \in Nodes : m # n \/ pass[n] < 2 => QueueAt(r0, m)
  <2>1. Timely(r0)
    BY <1>3, StateOK DEF QueueInv, Queues, Timely
  <2>2. ASSUME NEW m \in Nodes, m # n \/ pass[n] < 2
        PROVE  QueueAt(r0, m)
    BY <1>2, <1>3, <1>4, <2>2 DEF QueueInv, Queues, QueueAt
  <2> QED BY <2>1, <2>2
<1>6. /\ RegionOK(c) /\ Timely(c)
      /\ c.op # None => c.op = op
      /\ \A m \in Nodes : /\ QueueAt(r0, m) => QueueAt(c, m)
                          /\ op = None \/ m # op.node => Untouched(c, r0, m)
  BY <1>2, <1>3, <1>5, CloseKeeps, CloseQueues DEF QueueInv
<1> HIDE DEF c
<1>7. /\ r.op = c.op /\ r.segs = c.segs /\ r.pending = c.pending
      /\ r.runners = c.runners
  BY <1>6 DEF RegionOK, RegionRecords
<1> HIDE DEF r
<1>8. /\ Region'.op = c.op /\ Region'.segs = c.segs /\ Region'.pending = c.pending
      /\ Region'.runners = c.runners
  BY <1>1, <1>7 DEF Region, Becomes
<1>13. /\ capture'[n] = (pass[n] > 0)
       /\ \A m \in Nodes : m # n => capture'[m] = capture[m]
  BY <1>1, <1>2, Zenon
<1>9. Passes'
  <2> SUFFICES ASSUME NEW m \in Nodes PROVE capture'[m] <=> pass'[m] > 1
    BY DEF Passes
  <2>1. CASE m # n
    <3>1. pass'[m] = pass[m]
      BY <1>1, <1>2, <2>1
    <3> QED BY <1>13, <2>1, <3>1, Zenon DEF Passes, QueueInv
  <2>2. CASE m = n
    <3>1. pass[n] > 0 <=> pass'[n] > 1
      BY <1>1, <1>2
    <3> QED BY <1>13, <2>2, <3>1, Zenon
  <2> QED BY <2>1, <2>2
<1>10. Timely(Region)'
  <2> SUFFICES ASSUME c.op # None
               PROVE  tracing'[c.op.node] /\ c.op.capture = capture'[c.op.node]
    BY <1>8 DEF Timely
  <2>1. c.op = op /\ op \in OpenRegions /\ op.node \in Nodes
    BY <1>6 DEF IInv, TypeOK, OpenRegions
  <2>2. tracing[op.node] /\ op.capture = capture[op.node]
    BY <1>6, <2>1 DEF Timely
  <2>3. CASE op.node # n
    BY <1>1, <1>2, <2>1, <2>2, <2>3
  <2>4. CASE op.node = n
    <3>1. pass[n] = 0
      BY <1>1, <2>2, <2>4
    <3>2. ~capture[n]
      BY <3>1 DEF QueueInv, Passes
    <3>3. ~(pass[n] > 0)
      BY <3>1
    <3>6. ~capture'[n]
      BY <1>13, <3>3, Zenon
    <3>7. tracing'[n] /\ capture'[n] \in BOOLEAN
      <4>1. (pass[n] > 0) \in BOOLEAN
        BY <1>2
      <4> QED BY <1>1, <1>2, <1>13, <4>1
    <3>4. capture[n] \in BOOLEAN
      BY <1>2
    <3> QED BY <2>1, <2>2, <2>4, <3>2, <3>4, <3>6, <3>7
  <2> QED BY <2>3, <2>4
<1>11. ASSUME NEW m \in Nodes
       PROVE  /\ pass'[m] < 2 => Counted(c.segs[m], c.pending[m])
              /\ pass'[m] = 2 => Replays(c.segs[m], c.pending[m], c.runners[m],
                                         m \in Exporting)
  <2>1. CASE m # n
    BY <1>1, <1>2, <1>5, <1>6, <2>1 DEF QueueAt
  <2>2. CASE m = n /\ pass[n] = 0
    <3>1. pass'[m] = 1 /\ pass[m] < 2
      BY <1>1, <1>2, <2>2
    <3>2. QueueAt(c, m)
      BY <1>5, <1>6, <2>2
    <3> QED BY <3>1, <3>2 DEF QueueAt
  <2>3. CASE m = n /\ pass[n] = 1
    <3>1. pass'[m] = 2 /\ ~tracing[n]
      BY <1>1, <1>2, <2>3
    <3>2. op = None \/ op.node # n
      BY <1>3, <1>5, <3>1 DEF Timely
    <3>3. /\ c.segs[m] = r0.segs[m] /\ c.pending[m] = r0.pending[m]
          /\ c.runners[m] = <<>>
      BY <1>3, <1>4, <1>6, <2>3, <3>2 DEF Untouched
    <3>4. Counted(c.segs[m], c.pending[m])
      BY <1>5, <2>3, <3>3 DEF QueueAt
    <3>5. Len(c.segs[m]) \in Nat
      BY <1>6, LenProperties DEF RegionOK, RegionRecords
    <3>6. Replays(c.segs[m], c.pending[m], <<>>, m \in Exporting)
      BY <3>4, <3>5, ReplaysNone
    <3> QED BY <3>1, <3>3, <3>6
  <2>4. CASE m = n /\ pass[n] # 0 /\ pass[n] # 1
    <3>1. ~(pass'[m] < 2) /\ pass'[m] # 2
      BY <1>1, <1>2, <2>4
    <3> QED BY <3>1
  <2> QED BY <2>1, <2>2, <2>3, <2>4
<1>12. (\A m \in Nodes : QueueAt(Region, m))'
  BY <1>8, <1>11 DEF QueueAt
<1> QED BY <1>9, <1>10, <1>12 DEF QueueInv, Queues

LEMMA LoseArchiveQueues ==
    ASSUME IInv, QueueInv, LoseArchive
    PROVE  QueueInv'
<1>1. /\ op \in OpenRegions /\ op # None /\ op' = [op EXCEPT !.lost = TRUE]
      /\ UNCHANGED <<pass, tracing, capture, segs, pending, runners>>
  BY DEF LoseArchive, IInv, TypeOK
<1>2. op'.node = op.node /\ op'.capture = op.capture
  BY <1>1, LostFacts
<1>3. /\ Region.op = op /\ Region.segs = segs /\ Region.pending = pending
      /\ Region.runners = runners
      /\ Region'.op = op' /\ Region'.segs = segs /\ Region'.pending = pending
      /\ Region'.runners = runners
  BY <1>1 DEF Region
<1>4. Passes'
  BY <1>1 DEF QueueInv, Passes
<1>5. Timely(Region)'
  BY <1>1, <1>2, <1>3 DEF QueueInv, Queues, Timely
<1>6. (\A n \in Nodes : QueueAt(Region, n))'
  BY <1>1, <1>3 DEF QueueInv, Queues, QueueAt
<1> QED BY <1>4, <1>5, <1>6 DEF QueueInv, Queues

LEMMA InitQueues == Init => QueueInv
<1> SUFFICES ASSUME Init PROVE QueueInv
  OBVIOUS
<1>1. /\ Region.op = None
      /\ \A n \in Nodes : Region.segs[n] = <<>> /\ Region.pending[n] = <<>>
  BY DEF Init, Region
<1>2. Counted(<<>>, <<>>)
  BY DEF Counted
<1> QED BY <1>1, <1>2 DEF Init, QueueInv, Passes, Queues, Timely, QueueAt

LEMMA StutterQueues == QueueInv /\ UNCHANGED vars => QueueInv'
  BY DEF vars, QueueInv, Passes, Queues, Timely, QueueAt, Region

LEMMA StepQueues ==
    ASSUME "output_inside" \notin Usage, IInv, QueueInv, [Next]_vars
    PROVE  QueueInv'
<1>1. CASE Next
  <2>1. ASSUME NEW n \in Nodes, NEW site \in Sites, InputTensors(n, site)
        PROVE  QueueInv'
    <3>1. CASE Revisit(n)
      <4>1. UNCHANGED vars
        BY <2>1, <3>1 DEF InputTensors
      <4> QED BY <4>1, StutterQueues
    <3> QED BY <2>1, <3>1, InputTensorsQueues
  <2>2. ASSUME NEW n \in Nodes, NEW site \in Sites,
               EnterBlock(n, site) \/ OutputTensors(n, site)
        PROVE  QueueInv'
    BY <2>2, EnterBlockQueues, OutputTensorsQueues
  <2>3. ASSUME NEW f \in Calls, NEW x \in Arrays, NEW out \in Arrays, NEW site \in Sites,
               WarpCall(f, {x, out}, out, site)
        PROVE  QueueInv'
    <3>1. {x, out} \in SUBSET Arrays
      OBVIOUS
    <3> QED BY <2>3, <3>1, WarpCallQueues
  <2>4. ASSUME NEW site \in Sites, CudaWork(site) \/ Synchronize(site) PROVE QueueInv'
    BY <2>4, SynchronizeQueues
  <2>5. ASSUME NEW site \in Sites, ExitBlock(site, FALSE) \/ ExitBlock(site, TRUE)
        PROVE  QueueInv'
    BY <2>5, ExitBlockQueues
  <2>6. ASSUME NEW x \in Arrays, TorchOperation(x) PROVE QueueInv'
    BY <2>6, TorchOperationQueues
  <2> QED BY <1>1, <2>1, <2>2, <2>3, <2>4, <2>5, <2>6, StepCases, WarpReturnQueues,
            LoseArchiveQueues
<1>2. CASE UNCHANGED vars
  BY <1>2, StutterQueues
<1> QED BY <1>1, <1>2

\* Unless an output is compiled inside a `with warp_op()` block, a graph made
\* in two passes replays each region that was discovered, in order and call for
\* call: whatever closes the regions, and whatever it does to other nodes.
THEOREM CapturedAlways ==
    ASSUME "output_inside" \notin Usage
    PROVE  Spec => []CapturedAsDiscovered
<1>1. Init => IInv /\ QueueInv
  BY InitOK, InitQueues
<1>2. (IInv /\ QueueInv) /\ [Next]_vars => (IInv /\ QueueInv)'
  <2>1. IInv /\ QueueInv /\ [Next]_vars => IInv' /\ QueueInv'
    BY StepOK, StepQueues
  <2> QED BY <2>1
<1>3. IInv /\ QueueInv => CapturedAsDiscovered
  <2> SUFFICES ASSUME IInv, QueueInv, NEW n \in Nodes, Ready(n), pass[n] = 2
               PROVE  /\ \A i \in DOMAIN segs[n] : segs[n][i].calls # <<>> =>
                           \E k \in DOMAIN runners[n] : runners[n][k].seg = i
                      /\ \A k \in DOMAIN runners[n] :
                           /\ runners[n][k].calls = segs[n][runners[n][k].seg].calls
                           /\ runners[n][k].real <=> n \in Exporting
                           /\ \A j \in 1 .. k - 1 : runners[n][j].seg < runners[n][k].seg
    BY DEF CapturedAsDiscovered
  <2>1. Replays(segs[n], pending[n], runners[n], n \in Exporting)
    BY DEF QueueInv, Queues, QueueAt, Region
  <2>2. pending[n] = <<>> /\ segs[n] \in Seq(Segments)
    BY DEF Ready, IInv, TypeOK
  <2>3. /\ Len(segs[n]) \in Nat /\ Len(pending[n]) = 0
        /\ DOMAIN segs[n] = 1 .. Len(segs[n])
    BY <2>2, LenProperties
  <2>4. ReplaysTo(segs[n], pending[n], runners[n], n \in Exporting, Len(segs[n]))
    BY <2>1, <2>3 DEF Replays
  <2> QED BY <2>3, <2>4, Zenon DEF ReplaysTo
<1> QED BY <1>1, <1>2, <1>3, PTL DEF Spec
=============================================================================
