------------------------ MODULE MCGuardrailRequest ------------------------
(* GuardrailRequest with a call that is retried once, and another that     *)
(* stops after its ingress stage and competes for room in _CALL_STATES.    *)
EXTENDS GuardrailRequest, TLC

CONSTANTS c1, c2

MCAttempts == (c1 :> 2) @@ (c2 :> 0)
=============================================================================
