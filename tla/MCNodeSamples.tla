---------------------------- MODULE MCNodeSamples ----------------------------
(* Model values for NodeSamples. *)
EXTENDS NodeSamples

None == {}
=============================================================================
