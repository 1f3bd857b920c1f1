----------------------------- MODULE MCVerifier -----------------------------
(* The verifier on its own, with the scenarios of the model checker. *)
EXTENDS Verifier, VerifierScenarios
=============================================================================
