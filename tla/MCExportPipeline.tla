--------------------------- MODULE MCExportPipeline ---------------------------
(* Model values for ExportPipeline. *)
EXTENDS ExportPipeline

Plain(w) == <<w, "plain">>
Kind(b, i, o, d, m, s) ==
    [backend |-> b, inputs |-> i, outputs |-> o, drops |-> d, model |-> m, samples |-> s,
     own |-> <<>>, copied |-> FALSE]
Own(stem, type, c) ==
    [Kind("none", <<Plain("x")>>, <<Plain("y")>>, {}, "exact", 1)
        EXCEPT !.own = <<stem, type>>, !.copied = c]

\* Of the fifth node u and x overlap and x_in is taken.  The last one is copied
\* over the artifact of node 1, if that is a jit node.
MCKinds ==
    {Kind("jit",  <<Plain("x")>>, <<Plain("y")>>, {}, "declared", 2),
     Kind("pt2",  <<Plain("x")>>, <<Plain("y")>>, {}, "parity", 2),
     Kind("onnx", <<Plain("x")>>, <<Plain("x")>>, {}, "constant", 1),
     Kind("onnx", <<Plain("x"), Plain("u")>>, <<Plain("y")>>, {Plain("u")}, "counter", 1),
     Kind("onnx", <<Plain("u"), Plain("x")>>, <<Plain("u"), Plain("x"), <<"x", "in">>>>, {},
          "exact", 1),
     Own(NumNodes + 1, "onnx", TRUE), Own(1, "jit", TRUE)}
=============================================================================
