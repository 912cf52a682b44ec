--------------------------- MODULE MCFunctionNode ---------------------------
(***************************************************************************)
(* Small functions for FunctionNode.  Names are sequences of words: X is   *)
(* "x", XZero "x_0".                                                       *)
(***************************************************************************)
EXTENDS FunctionNode

X == <<"x">>
Y == <<"y">>
XZero == <<"x", "0">>

Zero == <<"0">>
One  == <<"1">>
A    == <<"a">>
AZero == <<"a", "0">>

\* A bare tensor, [t, t], {"a": t}, {"a": [t, t]} and {"a": [t], "a_0": t},
\* whose flat names clash.
Bare   == << <<>> >>
Pair   == << <<Zero>>, <<One>> >>
Single == << <<Zero>> >>
Dict   == << <<A>> >>
Deep   == << <<A, Zero>>, <<A, One>> >>
Clash  == << <<A, Zero>>, <<AZero>> >>

Leaves(shapes) == UNION {{p : p \in {paths[i] : i \in DOMAIN paths}} : paths \in shapes}
Sources(shapes) == UNION {{p} \X Leaves(shapes[p]) : p \in DOMAIN shapes}

\* Every way to route the leaves of the arguments to the two leaves of the
\* results.  Left out are those NamesApart excludes.
TwoResults(params, shapes, returns, first, second) ==
    {[params  |-> params, shapes |-> shapes, returns |-> returns,
      body    |-> <<[paths |-> first, from |-> <<w[1]>>],
                    [paths |-> second, from |-> <<w[2]>>]>>] :
         w \in Sources(shapes) \X Sources(shapes)}
OneResult(params, shapes, returns, paths) ==
    {[params  |-> params, shapes |-> shapes, returns |-> returns,
      body    |-> <<[paths |-> paths, from |-> w]>>] :
         w \in Sources(shapes) \X Sources(shapes)}

\* A nested result under the name of a bare parameter; nested arguments, one
\* with clashing names (a structure that clashes only on a later call is
\* excluded: its second leaf is stored over the first); two results with one
\* name; a parameter or a result called as a leaf of the other.
MCPrograms ==
    OneResult(<<X, Y>>, <<{Bare}, {Pair, Single}>>, <<X>>, Pair)
    \cup OneResult(<<X, Y>>, <<{Deep}, {Bare, Dict}>>, <<Y>>, Deep)
    \cup OneResult(<<X>>, <<{Clash}>>, <<Y>>, Pair)
    \cup TwoResults(<<X>>, <<{Bare}>>, <<X, X>>, Bare, Bare)
    \cup TwoResults(<<X, Y>>, <<{Bare}, {Pair, Single}>>, <<Y, X>>, Single, Bare)
    \cup TwoResults(<<XZero, X>>, <<{Bare, Dict}, {Single, Dict}>>, <<XZero, X>>, Bare, Single)
    \cup TwoResults(<<X, XZero>>, <<{Dict}, {Single}>>, <<X, XZero>>, Dict, Single)

\* They are what ReplayAlways supposes.
ASSUME ApartAssumption == \A f \in Programs : NamesApart(f)
=============================================================================
