------------------------------- MODULE Admission -------------------------------
(***************************************************************************)
(* evaluate_product_admission of admission.py: whether a candidate product *)
(* is admitted on a list of evidence under a policy.  The code collects the*)
(* reasons against it and admits when there is none; each conjunct below is*)
(* the absence of one kind of reason.                                      *)
(*                                                                         *)
(* SHA-256 is taken to be injective: a policy stands for its digest and a  *)
(* key for its commitment.  A proof is the key under which the HMAC of the *)
(* presented fields verifies; one copied from other fields is a key that no*)
(* authority has.  The unkeyed evidence_sha256 is over the same fields as  *)
(* the HMAC and is left out.  Formats of identifiers and digests are left  *)
(* out too: what does not parse is not presented.                          *)
(***************************************************************************)
EXTENDS Sequences, Functions

(* Mutant: two authorities may have one key.                               *)
KeysMayBeShared(policy) == TRUE

(* commitment_owners: no key is committed for two authorities.             *)
KeysAreDistinct(policy) == IsInjective(policy.authority_key)

(* AdmissionPolicy.from_mapping, which raises for any other policy.        *)
ValidPolicy(policy) ==
  /\ policy.required_checks # {}
  /\ DOMAIN policy.authorized_verifiers = policy.required_checks
  /\ {} \notin Range(policy.authorized_verifiers)
  /\ DOMAIN policy.producer_authorities # {}
  /\ DOMAIN policy.verifier_authorities
       = UNION Range(policy.authorized_verifiers)
  /\ \A identity \in DOMAIN policy.producer_authorities
                       \cap DOMAIN policy.verifier_authorities :
       policy.producer_authorities[identity]
         = policy.verifier_authorities[identity]
  /\ DOMAIN policy.authority_key = Range(policy.producer_authorities)
                                     \cup Range(policy.verifier_authorities)
  /\ KeysAreDistinct(policy)

(* _authenticate_authority.  keys holds the usable keys of the boundary: an*)
(* empty or short one is a missing one.                                    *)
Authenticated(authority, proof, policy, keys) ==
  /\ authority \in DOMAIN keys
  /\ keys[authority] = policy.authority_key[authority]
  /\ proof = keys[authority]

(* The producer is authorised and signed the candidate.                    *)
ProducerStands(product, policy, keys) ==
  /\ product.producer_id \in DOMAIN policy.producer_authorities
  /\ Authenticated(policy.producer_authorities[product.producer_id],
                   product.proof, policy, keys)

(* The producer's authority verifies nothing of its own.                   *)
IndependentAuthority(item, product, policy) ==
  policy.verifier_authorities[item.verifier_id]
    # policy.producer_authorities[product.producer_id]

(* One item of evidence speaks for this product under the trusted policy.  *)
EvidenceStands(item, product, policy, trusted, keys) ==
  /\ item.policy = trusted
  /\ item.check_id \in policy.required_checks
  /\ item.product_id = product.product_id
  /\ item.artifact = product.artifact
  /\ item.verifier_id \in policy.authorized_verifiers[item.check_id]
  /\ Authenticated(policy.verifier_authorities[item.verifier_id],
                   item.proof, policy, keys)
  /\ IndependentAuthority(item, product, policy)
  /\ item.outcome = "PASS"

(* No evidence id comes twice, and each required check exactly once.       *)
EachCheckOnce(evidence, policy) ==
  /\ \A i, j \in DOMAIN evidence :
       evidence[i].evidence_id = evidence[j].evidence_id => i = j
  /\ \A check \in policy.required_checks :
       /\ \E i \in DOMAIN evidence : evidence[i].check_id = check
       /\ \A i, j \in DOMAIN evidence :
            evidence[i].check_id = check /\ evidence[j].check_id = check => i = j

(* The decision.                                                           *)
Admitted(product, evidence, policy, trusted, keys) ==
  /\ ValidPolicy(policy)
  /\ policy = trusted
  /\ ProducerStands(product, policy, keys)
  /\ \A i \in DOMAIN evidence :
       EvidenceStands(evidence[i], product, policy, trusted, keys)
  /\ EachCheckOnce(evidence, policy)
=============================================================================
