-------------------------- MODULE MCReportedSpans --------------------------
(* ReportedSpans with two requests on one pod and one on another.          *)
EXTENDS ReportedSpans, TLC

CONSTANTS p1, p2, r1, r2, r3

MCHost == (r1 :> p1) @@ (r2 :> p1) @@ (r3 :> p2)

(* r1 and r2 differ in nothing, nor do the spans.                          *)
Symmetry == Permutations(Spans) \cup Permutations({r1, r2})
=============================================================================
