--------------------------- MODULE MCLeappSession ---------------------------
(* Model values and symmetry for LeappSession. *)
EXTENDS LeappSession, TLC

CONSTANTS n1, n2, b1, b2

NamesDef     == {n1, n2}
OneName      == {n1}
BuffersDef   == {b1, b2}
OneBuffer    == {b1}
Documented   == {}
Restarting   == {"restart"}
SecondModule == {"second_module"}
PartialInject == {"partial_inject"}
Unrestorable == {"unrestorable"}
EveryUsage   == AllUsages

\* Names and buffers are interchangeable: no definition singles one out.
NameSymmetry == Permutations(NamesDef)
Symmetry     == NameSymmetry \cup Permutations(BuffersDef)
=============================================================================
