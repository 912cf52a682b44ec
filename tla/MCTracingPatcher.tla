--------------------------- MODULE MCTracingPatcher ---------------------------
(* Model values for TracingPatcher. *)
EXTENDS TracingPatcher

CONSTANTS tensor, array, asarray, launch, alias, user, wpLaunch

Originals == [a \in {tensor, array, asarray, launch, alias, user} |->
                 IF a = alias \/ a = launch THEN wpLaunch ELSE a]
=============================================================================
