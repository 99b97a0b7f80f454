---------------------------- MODULE FirstReport ----------------------------
(***************************************************************************)
(* What the reported-span memory of the secrets guardrail promises across  *)
(* pods: a detected span is reported at most once, however many requests   *)
(* carry it, unless the memory itself failed for that span.                *)
(***************************************************************************)
EXTENDS Naturals

CONSTANT Spans

VARIABLES
    told,      \* told[d]: how often d was reported
    excused    \* the spans for which the shared memory gave no answer or forgot

Init ==
    /\ told = [d \in Spans |-> 0]
    /\ excused = {}

(* The spans of D are reported, those of X become excused.                 *)
Tell(D, X) ==
    /\ excused' = excused \cup X
    /\ \A d \in D : told[d] = 0 \/ d \in excused'
    /\ told' = [d \in Spans |-> IF d \in D THEN told[d] + 1 ELSE told[d]]

Next == \E D, X \in SUBSET Spans : Tell(D, X)

Spec == Init /\ [][Next]_<<told, excused>>
=============================================================================
