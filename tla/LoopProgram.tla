----------------------------- MODULE LoopProgram -----------------------------
(***************************************************************************)
(* The programs LEAPP traces, as far as their dataflow goes: a loop whose  *)
(* body runs annotated nodes, each input of a node being fed from outside, *)
(* from a node that completed earlier in the same iteration, or from a     *)
(* node's output of an earlier iteration.                                  *)
(*                                                                         *)
(* Nodes are named by their completion order: node k is the k-th whose     *)
(* output_tensors() ran, that is, the one with node_index k - 1.  Each has *)
(* one output.                                                             *)
(***************************************************************************)
EXTENDS Integers

CONSTANTS NumNodes,  \* how many nodes the program annotates
          Ports      \* the names of a node's inputs

ASSUME NumNodesAssumption == NumNodes \in Nat

Nodes == 1 .. NumNodes

\* Where a value comes from, other than a node of the program.
Outside == 0   \* the world: observations, commands
Before  == -1  \* a plain tensor made before the loop
Foreign == -2  \* a traced tensor of a node of another session

Origins == Nodes \cup {Outside, Before, Foreign}

\* A value is known by its origin and the iteration that produced it.
Value == Origins \X Nat

\* How a program feeds one input: the origin, how many iterations old the
\* value is, what stands in for it while there is no such iteration, and
\* whether the pair was declared with state_tensors()/update_state().
Binding == [src : Nodes \cup {Outside}, delay : Nat,
            init : {Before, Foreign} \cup Nodes, declared : BOOLEAN]

WellFormed(n, b) ==
    /\ b.src = Outside => b.delay = 0
    /\ b.src \in Nodes /\ b.delay = 0 => b.src < n
    /\ b.delay = 0 => b.init = Before
    /\ b.init \in Nodes => b.init < n
    /\ b.declared => b.src = n /\ b.delay = 1 /\ b.init = Before

\* The value input p of node n holds in iteration t of the running program.
Reads(wiring, n, p, t) ==
    LET b == wiring[n][p]
    IN IF t > b.delay THEN <<b.src, t - b.delay>>
       ELSE <<b.init, IF b.init \in Nodes THEN 1 ELSE t>>
=============================================================================
