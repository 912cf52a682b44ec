--------------------------- MODULE MCFeedbackGraph ---------------------------
(* Model values for FeedbackGraph. *)
EXTENDS FeedbackGraph

PlainTensors  == {Before}
FirstNode     == {Before, 1}
=============================================================================
