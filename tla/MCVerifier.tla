------------------------------ MODULE MCVerifier ------------------------------
(* Verifier with two descendants.                                          *)
EXTENDS Verifier
=============================================================================
