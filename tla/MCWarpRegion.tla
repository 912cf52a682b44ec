---------------------------- MODULE MCWarpRegion ----------------------------
(* Model values for WarpRegion. *)
EXTENDS WarpRegion, TLC

NoUsage == {}
CallbackDiverges == {"callback_diverges"}
OutputInside == {"output_inside"}

Interchangeable == Permutations(Sites)
=============================================================================
