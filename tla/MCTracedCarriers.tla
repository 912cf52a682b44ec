-------------------------- MODULE MCTracedCarriers --------------------------
(* An input x, a tensor w over the same bytes, a slice h of them made before *)
(* tracing, and a buffer k of the program's own.                             *)
EXTENDS TracedCarriers
MCStart == [x |-> [st |-> "s1", sel |-> Whole], w |-> [st |-> "s1", sel |-> Whole],
            h |-> [st |-> "s1", sel |-> Lead], k |-> [st |-> "s2", sel |-> Whole]]
MCNamed == {"x", "w", "k"}
MCSliced == {"x", "h", "k"}
MCStartNamed == [o \in MCNamed |-> MCStart[o]]
MCStartSliced == [o \in MCSliced |-> MCStart[o]]
=============================================================================
