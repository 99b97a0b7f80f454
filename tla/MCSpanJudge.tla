---------------------------- MODULE MCSpanJudge ----------------------------
(* Instances of SpanJudge for TLC.                                         *)
EXTENDS SpanJudge, TLC

MCTTL == [v \in Verdicts |-> 1]
MCLongTTL == [v \in Verdicts |-> IF v = "redact" THEN 2 ELSE 1]
Singletons == {{d} : d \in Digests}
AnyInputs == (SUBSET Digests) \ {{}}
Symmetry == Permutations(Digests) \cup Permutations(Requests)
=============================================================================
