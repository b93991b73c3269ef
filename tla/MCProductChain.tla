---------------------------- MODULE MCProductChain ----------------------------
(* A chain of four products with two callers, one value the verifier passes*)
(* and one it fails, and the admission of what it ends with.               *)
EXTENDS AdmittedChain, TLC

CONSTANTS c1, c2, p1, p2, p3, p4, solver, author, judge, kp, kv, kx

MCCaller == {c1, c2}

MCId == {p1, p2, p3, p4}

Policy(verifiers, producers, authorities, keys) ==
  [required_checks |-> DOMAIN verifiers, authorized_verifiers |-> verifiers,
   producer_authorities |-> producers, verifier_authorities |-> authorities,
   authority_key |-> keys]

TwoKeys == "producing" :> kp @@ "verifying" :> kv

(* The policy of the dry cohort, with a second check; one where the judge  *)
(* also authors, and the solver also verifies; and one that from_mapping   *)
(* refuses, because both authorities have one key.                         *)
MCPolicies ==
  {Policy("kernel" :> {judge} @@ "review" :> {judge}, solver :> "producing",
          judge :> "verifying", TwoKeys),
   Policy("kernel" :> {judge, solver},
          solver :> "producing" @@ author :> "verifying",
          judge :> "verifying" @@ solver :> "producing", TwoKeys),
   Policy("kernel" :> {judge}, solver :> "producing", judge :> "verifying",
          "producing" :> kp @@ "verifying" :> kp)}

(* All keys, a missing one, and a substituted one.                         *)
MCKeyRings == {TwoKeys, "producing" :> kp, "producing" :> kp @@ "verifying" :> kp}

Symmetry == Permutations(MCCaller) \cup Permutations(MCId)
=============================================================================
