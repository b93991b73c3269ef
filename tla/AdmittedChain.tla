----------------------------- MODULE AdmittedChain -----------------------------
(***************************************************************************)
(* A product chain and the admission boundary behind it, as the dry cohort *)
(* puts them together: when the chain is complete, a candidate and evidence*)
(* about it are presented with a policy, and evaluate_product_admission    *)
(* decides.  The cohort presents the final product with the PASS the chain *)
(* stands on; here anything may be presented that the holders of the keys  *)
(* sign.  An honest key is one that signs what the chain's verifier decided*)
(* and nothing else; another key signs anything.                           *)
(***************************************************************************)
EXTENDS ProductChain, Admission, SequencesExt

CONSTANTS
  Key,         \* authentication keys
  HonestKey,   \* the keys that sign the verifier's outcomes
  Policies,    \* policies, those that from_mapping refuses included
  KeyRings,    \* the keys a boundary may hold: partial functions of authority
  Producer,    \* producer identities
  Verifier,    \* verifier identities
  Check,       \* check ids
  EvidenceId,  \* evidence ids
  MaxEvidence  \* bound: the items presented together

VARIABLES
  trusted,     \* the policy whose digest the boundary was provisioned with
  admissions   \* history: what was admitted

admission == <<trusted, admissions>>
allVars == <<vars, admission>>

AdmissionInit ==
  /\ Init
  /\ trusted \in Policies
  /\ admissions = {}

Item == [evidence_id : EvidenceId, check_id : Check, product_id : Id,
         artifact : Content, verifier_id : Verifier,
         outcome : {"PASS", "FAIL"}, policy : Policies, proof : Key]

Candidate == [product_id : Id, producer_id : Producer, artifact : Content,
              proof : Key]

(* The chain's verifier decided this of that product.                      *)
Decided(product_id, artifact, outcome) ==
  \E r \in runs : /\ r[1].id = product_id
                  /\ r[1].content = artifact
                  /\ r[2] = outcome

(* The evidence there is: what honest keys signed, and forgeries.          *)
Offered ==
  {item \in Item :
     /\ item.product_id \in used
     /\ item.proof \in HonestKey =>
          Decided(item.product_id, item.artifact, item.outcome)}

(* evaluate_product_admission, at the end of the chain and once.  Evidence *)
(* that does not stand only rejects, so it is left out of the lists first. *)
Admit(product, policy, keys) ==
  /\ state = "COMPLETE"
  /\ \A c \in Caller : call[c] = None
  /\ admissions = {}
  /\ ProducerStands(product, policy, keys)
  /\ LET standing == {item \in Offered :
                        EvidenceStands(item, product, policy, trusted, keys)} IN
       \E evidence \in SeqOf(standing, MaxEvidence) :
         /\ Admitted(product, evidence, policy, trusted, keys)
         /\ admissions' = {[product |-> product, evidence |-> evidence]}
  /\ UNCHANGED <<vars, trusted>>

AdmissionNext ==
  \/ Next /\ UNCHANGED admission
  \/ \E product \in Candidate, policy \in Policies, keys \in KeyRings :
       Admit(product, policy, keys)

AdmissionSpec == AdmissionInit /\ [][AdmissionNext]_allVars

-----------------------------------------------------------------------------
(* An admitted product was passed in every required check by somebody else *)
(* than its producer: under the provisioned policy, for its id and value,  *)
(* with a key that is not the one the product was signed with.  Where that *)
(* is an honest key, the chain's verifier did pass a product of that id and*)
(* value, however the chain came to its end.                               *)
AdmittedIsIndependent ==
  \A a \in admissions : \A check \in trusted.required_checks :
    \E i \in DOMAIN a.evidence :
      LET item == a.evidence[i] IN
        /\ item.check_id = check
        /\ item.outcome = "PASS"
        /\ item.policy = trusted
        /\ item.product_id = a.product.product_id
        /\ item.artifact = a.product.artifact
        /\ item.proof # a.product.proof
        /\ item.proof \in HonestKey =>
             \E r \in runs : /\ r[1].id = a.product.product_id
                             /\ r[1].content = a.product.artifact
                             /\ r[2] = "PASS"
=============================================================================
