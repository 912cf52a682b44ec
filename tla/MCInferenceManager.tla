------------------------- MODULE MCInferenceManager -------------------------
(***************************************************************************)
(* A pipeline for InferenceManager: node 1 feeds nodes 2 and 3 and is a    *)
(* final output as well, node 3 feeds node 1 on the next run and is final. *)
(***************************************************************************)
EXTENDS InferenceManager, TLC

TargetsDef ==
    <<1, "y">> :> <<In(2, "x"), In(3, "x"), Out(1, "y")>> @@
    <<2, "u">> :> <<In(3, "w")>> @@
    <<3, "z">> :> <<In(1, "h"), Out(3, "z")>>

Copying         == {"in_place", "set_input"}
OneExternal     == {In(1, "obs")}
PassingThrough  == {"pass_through"}
=============================================================================
