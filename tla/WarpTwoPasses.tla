----------------------------- MODULE WarpTwoPasses -----------------------------
(***************************************************************************)
(* A loop whose body runs twice: in the second iteration the program does  *)
(* exactly what it did in the first.  It is not entered when the first one *)
(* raised.                                                                 *)
(***************************************************************************)
EXTENDS WarpRegion

CONSTANT MaxSteps  \* bound: steps of one iteration

VARIABLES script,  \* what the program did in the first iteration
          at       \* steps of the script repeated, -1 in the first iteration

allVars == <<vars, script, at>>

InitTwice == Init /\ script = <<>> /\ at = -1

First(l) == /\ at = -1 /\ Len(script) < MaxSteps
            /\ l[1] = "input" => pass[l[2]] = 0
            /\ Do(l)
            /\ script' = Append(script, l)
            /\ UNCHANGED at

\* The iteration is complete: every node begun has its outputs, and regions
\* to capture.
Again == /\ at = -1 /\ script # <<>>
         /\ ~raised /\ block = None /\ flight = None /\ op = None
         /\ \A n \in Nodes : pass[n] > 0 => ~tracing[n] /\ pending[n] # <<>>
         /\ at' = 0
         /\ UNCHANGED <<vars, script>>

Second == /\ at \in 0 .. Len(script) - 1
          /\ Do(script[at + 1])
          /\ at' = at + 1
          /\ UNCHANGED script

NextTwice == (\E l \in Steps : First(l)) \/ Again \/ Second

SpecTwice == InitTwice /\ [][NextTwice]_allVars

-----------------------------------------------------------------------------
(* Properties *)

\* Two passes suffice (warp_how_it_works): a second iteration like the first,
\* whose archives can be saved, is never refused a step the first one took,
\* raises nothing, and leaves no region to capture.
TwoPassesSuffice ==
    at >= 0 => /\ ~raised
               /\ IF at < Len(script) THEN ENABLED Second
                  ELSE \A n \in Nodes : pending[n] = <<>>
=============================================================================
