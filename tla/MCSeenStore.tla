---------------------------- MODULE MCSeenStore ----------------------------
(* SeenStore with three spans, a memory of two and texts of one or two     *)
(* spans; the table holds two rows, so that rows are deleted.              *)
EXTENDS SeenStore, TLC

CONSTANTS d1, d2, d3

MCTexts == {<<d>> : d \in Spans} \cup {<<d1, d2>>, <<d2, d1>>, <<d3, d1>>}
=============================================================================
