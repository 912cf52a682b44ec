------------------------------ MODULE EagerLoop ------------------------------
(***************************************************************************)
(* What a replay of the exported graph promises: it is the original loop.  *)
(* In iteration t every node, in completion order, reads exactly the       *)
(* values the program would have given it.                                 *)
(***************************************************************************)
EXTENDS LoopProgram

VARIABLES wiring,  \* the program
          iter,    \* iterations begun
          at,      \* the next node to run; NumNodes + 1 between iterations
          seen     \* what each node read when it last ran

vars == <<wiring, iter, at, seen>>

Nothing == [n \in Nodes |-> [p \in Ports |-> <<Before, 0>>]]

Init == /\ wiring \in [Nodes -> [Ports -> Binding]]
        /\ iter = 0
        /\ at = NumNodes + 1
        /\ seen = Nothing

BeginIteration == /\ at = NumNodes + 1
                  /\ iter' = iter + 1
                  /\ at' = 1
                  /\ UNCHANGED <<wiring, seen>>

RunNode == /\ at \in Nodes
           /\ seen' = [seen EXCEPT ![at] =
                          [p \in Ports |-> Reads(wiring, at, p, iter)]]
           /\ at' = at + 1
           /\ UNCHANGED <<wiring, iter>>

StartOver == /\ at = NumNodes + 1
             /\ iter' = 0
             /\ UNCHANGED <<wiring, at, seen>>

Next == BeginIteration \/ RunNode \/ StartOver

Spec == Init /\ [][Next]_vars
=============================================================================
