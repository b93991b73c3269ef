----------------------------- MODULE MCActivation -----------------------------
(* Activation with three provisioners, two or all of which sign with one   *)
(* root key, and one loader that calls again and again.                    *)
EXTENDS Activation

CONSTANTS p1, p2, p3

MCProvisioner == {p1, p2, p3}

TwoShare == [p \in MCProvisioner |-> IF p = p2 THEN p1 ELSE p]

SharedKey == [p \in MCProvisioner |-> p1]
=============================================================================
