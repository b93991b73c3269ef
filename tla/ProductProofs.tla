---------------------------- MODULE ProductProofs ----------------------------
(***************************************************************************)
(* The chain of one problem implements the abstract line of accepted       *)
(* products, for any number of callers, products and values.  The          *)
(* invariant that makes it go through: a proposed or verified product is   *)
(* the successor of the last consumed one, under an id no record of a      *)
(* consumed product has.                                                   *)
(*                                                                         *)
(* The control arms, for any executors, slots and texts, keep their log as *)
(* the abstract ledger says, and a product they show is one that an        *)
(* earlier attempt of the same cell signed.  The invariant follows a call  *)
(* from its checks to its return: what it has checked stays true, because  *)
(* the log and the answers only grow, and what it has observed is either   *)
(* some response to its own dispatch or the error that stands for none.    *)
(***************************************************************************)
EXTENDS AdmittedChain, Controls, SequenceTheorems, TLAPS

(* The product p comes right after the last consumed one.                  *)
Successor(p) ==
  /\ p.step = IF last_consumed = None THEN 0 ELSE last_consumed.step + 1
  /\ p.parent = IF last_consumed = None THEN None ELSE last_consumed.id

(* Its id is used, and not by a consumed product.                          *)
Fresh(p) ==
  /\ p.id \in used
  /\ \A r \in Records : r.consumed => r.product.id # p.id

Ids == \A r \in Records : r.product.id \in used

PendingIsNext == pending # None => Successor(pending) /\ Fresh(pending)

VerifiedIsNext ==
  verified # None =>
    Successor(verified) /\ Fresh(verified) /\ verified.content \in Accepted

FinalIsComplete == (\E r \in Records : r.final) => state = "COMPLETE"

IInv ==
  /\ TypeOK
  /\ Ids
  /\ PendingIsNext
  /\ VerifiedIsNext
  /\ FinalIsComplete
  /\ EvidenceIsOfTheProduct

-----------------------------------------------------------------------------
(* Appending a record adds it to the records.                              *)
LEMMA RecordsAppend ==
  ASSUME history \in Seq(Record), NEW r \in Record, history' = Append(history, r)
  PROVE  Records' = Records \cup {r}
<1>1. /\ DOMAIN history' = 1 .. Len(history) + 1
      /\ DOMAIN history = 1 .. Len(history)
      /\ Len(history) \in Nat
      /\ \A n \in 1 .. Len(history) : history'[n] = history[n]
      /\ history'[Len(history) + 1] = r
  OBVIOUS
<1> QED
  BY <1>1 DEF Records

(* A record of fields is never the marker None.                            *)
LEMMA ProductIsNotNone == None \notin Product
BY NoneAssumption DEF Product

(* The initial state.                                                      *)
LEMMA InitIInv == Init => IInv
BY NoneAssumption DEF Init, IInv, TypeOK, ChainState, Ids, PendingIsNext, VerifiedIsNext,
   FinalIsComplete, EvidenceIsOfTheProduct, Records

(* A proposal leaves the records alone and is the successor of the last    *)
(* consumed product.                                                       *)
LEMMA ProposeKeeps ==
  ASSUME IInv, NEW i \in Id, NEW v \in Content, NEW parent, Propose(i, v, parent)
  PROVE  IInv'
<1> DEFINE p == [id |-> i, content |-> v,
                 step |-> IF parent = None THEN 0 ELSE parent.step + 1,
                 parent |-> IF parent = None THEN None ELSE parent.id]
<1>1. parent = last_consumed /\ pending' = p
  BY DEF Propose, ValidParent
<1>2. p \in Product
  BY <1>1 DEF IInv, TypeOK, Product
<1>3. p # None
  BY <1>2, ProductIsNotNone
<1>4. TypeOK'
  BY <1>1, <1>2, <1>3 DEF Propose, IInv, TypeOK, ChainState
<1>5. Records' = Records
  BY DEF Propose, Records
<1>6. Ids' /\ PendingIsNext'
  BY <1>1, <1>5 DEF Propose, IInv, Ids, PendingIsNext, Successor, Fresh
<1>7. VerifiedIsNext' /\ FinalIsComplete' /\ EvidenceIsOfTheProduct'
  BY <1>5 DEF Propose, IInv, VerifiedIsNext, FinalIsComplete, EvidenceIsOfTheProduct
<1> QED
  BY <1>4, <1>6, <1>7 DEF IInv

(* A call out, or one that fails, changes nothing of the chain.            *)
LEMMA WaitKeeps ==
  ASSUME IInv, UNCHANGED <<chain, runs>>, call' \in [Caller -> Product \cup {None}]
  PROVE  IInv'
BY DEF IInv, TypeOK, chain, Ids, PendingIsNext, VerifiedIsNext, Successor, Fresh,
   FinalIsComplete, EvidenceIsOfTheProduct, Records

(* An outcome, in time or late.                                            *)
LEMMA DecideKeeps ==
  ASSUME IInv, NEW c \in Caller, VerifierDecides(c)
  PROVE  IInv'
<1> DEFINE p == call[c]
<1>1. p \in Product /\ p # None
  BY DEF VerifierDecides, IInv, TypeOK
<1>2. call' \in [Caller -> Product \cup {None}]
  BY DEF VerifierDecides, IInv, TypeOK
<1>3. CASE /\ pending = p /\ Outcome(p) = "PASS" /\ verified' = p
           /\ pending' = None /\ state' = "VERIFIED" /\ history' = history
  <2>1. Records' = Records
    BY <1>3 DEF Records
  <2>2. state = "AWAITING_VERIFICATION" \/ state = "REJECTED"
    BY <1>1, <1>3 DEF IInv, TypeOK
  <2>3. TypeOK'
    BY <1>1, <1>2, <1>3 DEF VerifierDecides, IInv, TypeOK, ChainState
  <2>4. p.content \in Accepted
    BY <1>3 DEF Outcome
  <2>5. VerifiedIsNext'
    BY <1>1, <1>3, <2>1, <2>4
       DEF VerifierDecides, IInv, PendingIsNext, VerifiedIsNext, Successor, Fresh
  <2>6. Ids' /\ PendingIsNext' /\ FinalIsComplete'
    BY <1>3, <2>1, <2>2
       DEF VerifierDecides, IInv, Ids, PendingIsNext, FinalIsComplete
  <2>7. EvidenceIsOfTheProduct'
    BY <1>3 DEF VerifierDecides, IInv, EvidenceIsOfTheProduct
  <2> QED
    BY <2>3, <2>5, <2>6, <2>7 DEF IInv
<1>4. CASE /\ pending = p /\ Outcome(p) = "FAIL"
           /\ history' = Append(history, [product |-> p, outcome |-> "FAIL",
                                          consumed |-> FALSE, final |-> FALSE])
           /\ state' = "REJECTED" /\ pending' = pending /\ verified' = verified
  <2> DEFINE r == [product |-> p, outcome |-> "FAIL",
                   consumed |-> FALSE, final |-> FALSE]
  <2>1. r \in Record
    BY <1>1 DEF Record
  <2>2. Records' = Records \cup {r}
    BY <1>4, <2>1, RecordsAppend DEF IInv, TypeOK
  <2>3. state = "AWAITING_VERIFICATION" \/ state = "REJECTED"
    BY <1>1, <1>4 DEF IInv, TypeOK
  <2>4. history' \in Seq(Record)
    BY <1>4, <2>1 DEF IInv, TypeOK
  <2>5. TypeOK'
    BY <1>1, <1>2, <1>4, <2>3, <2>4
       DEF VerifierDecides, IInv, TypeOK, ChainState
  <2>6. PendingIsNext' /\ Ids'
    BY <1>1, <1>4, <2>2
       DEF VerifierDecides, IInv, Ids, PendingIsNext, Successor, Fresh
  <2>7. VerifiedIsNext' /\ FinalIsComplete'
    BY <1>4, <2>2, <2>3
       DEF VerifierDecides, IInv, TypeOK, VerifiedIsNext, FinalIsComplete
  <2>8. EvidenceIsOfTheProduct'
    <3>1. \A n \in DOMAIN history' :
            \/ n \in DOMAIN history /\ history'[n] = history[n]
            \/ history'[n] = r
      BY <1>4 DEF IInv, TypeOK
    <3>2. runs' = runs \cup {<<p, "FAIL">>}
      BY <1>4 DEF VerifierDecides
    <3> QED
      BY <1>4, <3>1, <3>2 DEF IInv, EvidenceIsOfTheProduct
  <2> QED
    BY <2>5, <2>6, <2>7, <2>8 DEF IInv
<1>5. CASE UNCHANGED <<state, pending, verified, history>>
  <2>1. TypeOK'
    BY <1>2, <1>5 DEF VerifierDecides, IInv, TypeOK
  <2>2. Ids' /\ PendingIsNext' /\ VerifiedIsNext' /\ FinalIsComplete'
    BY <1>5 DEF VerifierDecides, IInv, Ids, PendingIsNext, VerifiedIsNext,
                Successor, Fresh, FinalIsComplete, Records
  <2>3. EvidenceIsOfTheProduct'
    BY <1>5 DEF VerifierDecides, IInv, EvidenceIsOfTheProduct
  <2> QED
    BY <2>1, <2>2, <2>3 DEF IInv
<1> QED
  BY <1>3, <1>4, <1>5 DEF VerifierDecides, StillPending, Judged, Outcome

(* The record consume_verified and finalize append.                        *)
TakenRecord(final) == [product |-> verified, outcome |-> "PASS",
                       consumed |-> TRUE, final |-> final]

(* The verified product is consumed.                                       *)
LEMMA ConsumeKeeps ==
  ASSUME IInv, NEW final \in BOOLEAN, state = "VERIFIED", Consumed(final),
         state' = IF final THEN "COMPLETE" ELSE "READY"
  PROVE  IInv' /\ Records' = Records \cup {TakenRecord(final)}
<1>1. verified \in Product /\ verified # None /\ pending = None
  BY DEF IInv, TypeOK
<1>2. TakenRecord(final) \in Record
  BY <1>1 DEF Record, TakenRecord
<1>3. history' = Append(history, TakenRecord(final))
  BY DEF Consumed, TakenRecord
<1>4. Records' = Records \cup {TakenRecord(final)}
  BY <1>2, <1>3, RecordsAppend DEF IInv, TypeOK
<1>5. history' \in Seq(Record)
  BY <1>2, <1>3 DEF IInv, TypeOK
<1>6. TypeOK'
  BY <1>1, <1>5 DEF Consumed, IInv, TypeOK, ChainState
<1>7. Ids' /\ PendingIsNext' /\ VerifiedIsNext'
  BY <1>1, <1>4 DEF Consumed, IInv, Ids, PendingIsNext, VerifiedIsNext, Fresh,
                    TakenRecord
<1>8. FinalIsComplete'
  BY <1>4 DEF Consumed, IInv, FinalIsComplete, TakenRecord
<1>9. EvidenceIsOfTheProduct'
  <2>1. \A n \in DOMAIN history' :
          \/ n \in DOMAIN history /\ history'[n] = history[n]
          \/ history'[n] = TakenRecord(final)
    BY <1>3 DEF IInv, TypeOK
  <2> QED
    BY <1>1, <2>1 DEF Consumed, IInv, EvidenceIsOfTheProduct, TakenRecord
<1> QED
  BY <1>4, <1>6, <1>7, <1>8, <1>9 DEF IInv

(* A rejected product is dropped.                                          *)
LEMMA DiscardKeeps == ASSUME IInv, DiscardRejected PROVE IInv'
<1>1. TypeOK'
  BY DEF DiscardRejected, IInv, TypeOK, ChainState
<1> QED
  BY <1>1 DEF DiscardRejected, IInv, TypeOK, Ids, PendingIsNext, VerifiedIsNext,
     FinalIsComplete, EvidenceIsOfTheProduct, Records

(* The invariant is inductive.                                             *)
LEMMA StepIInv == IInv /\ [Next]_vars => IInv'
<1> SUFFICES ASSUME IInv, [Next]_vars PROVE IInv'
  OBVIOUS
<1>1. ASSUME NEW i \in Id, NEW v \in Content, NEW parent \in Consumables,
             Propose(i, v, parent)
      PROVE  IInv'
  BY <1>1, ProposeKeeps
<1>2. ASSUME NEW c \in Caller, VerifyPending(c) \/ VerifierFails(c) PROVE IInv'
  <2>1. UNCHANGED <<chain, runs>>
    BY <1>2 DEF VerifyPending, VerifierFails
  <2>2. call' \in [Caller -> Product \cup {None}]
    BY <1>2 DEF VerifyPending, VerifierFails, IInv, TypeOK
  <2> QED
    BY <2>1, <2>2, WaitKeeps
<1>3. ASSUME NEW c \in Caller, VerifierDecides(c) PROVE IInv'
  BY <1>3, DecideKeeps
<1>4. CASE ConsumeVerified
  BY <1>4, ConsumeKeeps DEF ConsumeVerified
<1>5. CASE Finalize
  BY <1>5, ConsumeKeeps DEF Finalize
<1>6. CASE DiscardRejected
  BY <1>6, DiscardKeeps
<1>7. CASE UNCHANGED vars
  BY <1>7, WaitKeeps DEF vars, IInv, TypeOK
<1> QED
  BY <1>1, <1>2, <1>3, <1>4, <1>5, <1>6, <1>7 DEF Next

(* It holds in every reachable state.                                      *)
THEOREM IInvHolds == Spec => []IInv
<1>1. Init => IInv
  BY InitIInv
<1>2. IInv /\ [Next]_vars => IInv'
  BY StepIInv
<1> QED
  BY <1>1, <1>2, PTL DEF Spec

(* Types, and which state has which product.                               *)
THEOREM TypeCorrect == Spec => []TypeOK
<1>1. IInv => TypeOK
  BY DEF IInv
<1> QED
  BY <1>1, IInvHolds, PTL

(* What can be consumed, was consumed or was rejected is the very product  *)
(* the verifier decided so: verify_pending applies an outcome to nothing   *)
(* else.                                                                   *)
THEOREM EvidenceIsBound == Spec => []EvidenceIsOfTheProduct
<1>1. IInv => EvidenceIsOfTheProduct
  BY DEF IInv
<1> QED
  BY <1>1, IInvHolds, PTL

-----------------------------------------------------------------------------
(* The refinement of Lineage.                                              *)

(* A chain begins with an empty line.                                      *)
LEMMA InitRefines == Init => Line!Init
BY DEF Init, Line!Init, Records

(* A record that is not of a consumed product leaves the line alone.       *)
LEMMA LineKept ==
  ASSUME last_consumed' = last_consumed,
         \/ Records' = Records
         \/ \E r : Records' = Records \cup {r} /\ ~r.consumed /\ ~r.final
  PROVE  UNCHANGED Line!vars
BY DEF Line!vars

(* Consuming the verified product extends the line.                        *)
LEMMA ConsumeExtends ==
  ASSUME IInv, NEW final \in BOOLEAN, state = "VERIFIED", Consumed(final),
         state' = IF final THEN "COMPLETE" ELSE "READY"
  PROVE  Line!Next
<1>1. verified \in Product /\ verified # None
  BY DEF IInv, TypeOK
<1>2. Successor(verified) /\ Fresh(verified) /\ verified.content \in Accepted
  BY <1>1 DEF IInv, VerifiedIsNext
<1>3. verified = Line!Successor(verified.id, verified.content)
  BY <1>1, <1>2 DEF Line!Successor, Successor, Product
<1>4. Records' = Records \cup {TakenRecord(final)}
  BY ConsumeKeeps
<1>5. ~ \E r \in Records : r.final
  BY DEF IInv, FinalIsComplete
<1>6. {q.product : q \in {r \in Records' : r.consumed}} =
        {q.product : q \in {r \in Records : r.consumed}} \cup {verified}
  <2> DEFINE t == TakenRecord(final)
  <2>1. t.product = verified /\ t.consumed
    BY DEF TakenRecord
  <2>2. {r \in Records' : r.consumed} = {r \in Records : r.consumed} \cup {t}
    BY <1>4, <2>1
  <2> HIDE DEF t
  <2> QED
    BY <2>1, <2>2
<1>7. (\E r \in Records' : r.final) = final
  <2> DEFINE t == TakenRecord(final)
  <2>1. t.final = final
    BY DEF TakenRecord
  <2> HIDE DEF t
  <2>2. (\E r \in Records' : r.final) <=> (\E r \in Records : r.final) \/ t.final
    BY <1>4, Zenon DEF t
  <2> QED
    BY <1>5, <2>1, <2>2
<1>8. \A q \in {t.product : t \in {r \in Records : r.consumed}} :
        q.id # verified.id
  BY <1>2 DEF Fresh
<1>9. last_consumed' = verified
  BY DEF Consumed
<1>10. Line!Extend(verified.id, verified.content, final)
  BY <1>2, <1>3, <1>5, <1>6, <1>7, <1>8, <1>9 DEF Line!Extend
<1> QED
  BY <1>1, <1>10 DEF Line!Next, Product

(* Every other step leaves the line alone.                                 *)
LEMMA StepRefines == IInv /\ [Next]_vars => [Line!Next]_(Line!vars)
<1> SUFFICES ASSUME IInv, [Next]_vars PROVE [Line!Next]_(Line!vars)
  OBVIOUS
<1>1. ASSUME NEW i \in Id, NEW v \in Content, NEW parent \in Consumables,
             Propose(i, v, parent)
      PROVE  UNCHANGED Line!vars
  BY <1>1, LineKept DEF Propose, Records
<1>2. ASSUME NEW c \in Caller, VerifyPending(c) \/ VerifierFails(c)
      PROVE  UNCHANGED Line!vars
  BY <1>2, LineKept DEF VerifyPending, VerifierFails, chain, Records
<1>3. ASSUME NEW c \in Caller, VerifierDecides(c) PROVE UNCHANGED Line!vars
  <2>1. last_consumed' = last_consumed
    BY <1>3 DEF VerifierDecides
  <2>2. CASE history' = history
    BY <2>1, <2>2, LineKept DEF Records
  <2>3. CASE history' = Append(history, [product |-> call[c], outcome |-> "FAIL",
                                         consumed |-> FALSE, final |-> FALSE])
    <3> DEFINE r == [product |-> call[c], outcome |-> "FAIL",
                     consumed |-> FALSE, final |-> FALSE]
    <3>1. r \in Record
      BY <1>3 DEF VerifierDecides, IInv, TypeOK, Record
    <3>2. Records' = Records \cup {r}
      BY <2>3, <3>1, RecordsAppend DEF IInv, TypeOK
    <3>3. ~r.consumed /\ ~r.final
      OBVIOUS
    <3> QED
      BY <2>1, <3>2, <3>3, LineKept
  <2> QED
    BY <1>3, <2>2, <2>3 DEF VerifierDecides, Judged
<1>4. CASE ConsumeVerified
  BY <1>4, ConsumeExtends DEF ConsumeVerified
<1>5. CASE Finalize
  BY <1>5, ConsumeExtends DEF Finalize
<1>6. CASE DiscardRejected
  BY <1>6, LineKept DEF DiscardRejected, Records
<1>7. CASE UNCHANGED vars
  BY <1>7, LineKept DEF vars, chain, Records
<1> QED
  BY <1>1, <1>2, <1>3, <1>4, <1>5, <1>6, <1>7 DEF Next

(* VerifiedChain is one line of accepted products.                         *)
THEOREM ChainImplementsLineage == Spec => ImplementsLineage
<1>1. Init => Line!Init
  BY InitRefines
<1>2. IInv /\ [Next]_vars => [Line!Next]_(Line!vars)
  BY StepRefines
<1> QED
  BY <1>1, <1>2, IInvHolds, PTL DEF Spec, ImplementsLineage, Line!Spec
-----------------------------------------------------------------------------
(* Admission.  The policy is the provisioned one and valid, so its two     *)
(* authorities are committed to two keys, and a proof verifies under one   *)
(* key only; evidence under an honest key speaks for an outcome, and       *)
(* outcomes are kept.                                                      *)

(* An item of evidence that stands is not signed with the producer's key.  *)
LEMMA OtherKey ==
  ASSUME NEW item, NEW product, NEW policy, NEW trust, NEW keys,
         ValidPolicy(policy), ProducerStands(product, policy, keys),
         EvidenceStands(item, product, policy, trust, keys)
  PROVE  item.proof # product.proof
<1> DEFINE producing == policy.producer_authorities[product.producer_id]
           verifying == policy.verifier_authorities[item.verifier_id]
<1>1. producing \in DOMAIN policy.authority_key
  BY DEF ValidPolicy, ProducerStands, Range
<1>2. item.verifier_id \in UNION Range(policy.authorized_verifiers)
  BY DEF ValidPolicy, EvidenceStands, Range
<1>3. verifying \in DOMAIN policy.authority_key
  BY <1>2 DEF ValidPolicy, Range
<1>4. producing # verifying
  BY DEF EvidenceStands, IndependentAuthority
<1>5. policy.authority_key[producing] # policy.authority_key[verifying]
  BY <1>1, <1>3, <1>4 DEF ValidPolicy, KeysAreDistinct, IsInjective
<1>6. /\ product.proof = policy.authority_key[producing]
      /\ item.proof = policy.authority_key[verifying]
  BY DEF ProducerStands, EvidenceStands, Authenticated
<1> QED
  BY <1>5, <1>6

(* The decision by itself: each required check of an admitted product is a *)
(* PASS for its id and value, under the trusted policy and another key.    *)
THEOREM DecisionIsIndependent ==
  ASSUME NEW product, NEW evidence, NEW policy, NEW trust, NEW keys,
         Admitted(product, evidence, policy, trust, keys),
         NEW check \in trust.required_checks
  PROVE  \E i \in DOMAIN evidence :
           /\ evidence[i].check_id = check
           /\ evidence[i].outcome = "PASS"
           /\ evidence[i].policy = trust
           /\ evidence[i].product_id = product.product_id
           /\ evidence[i].artifact = product.artifact
           /\ evidence[i].proof # product.proof
<1>1. PICK i \in DOMAIN evidence : evidence[i].check_id = check
  BY DEF Admitted, EachCheckOnce
<1>2. EvidenceStands(evidence[i], product, policy, trust, keys)
  BY DEF Admitted
<1>3. evidence[i].proof # product.proof
  BY <1>2, OtherKey DEF Admitted
<1> QED
  BY <1>1, <1>2, <1>3 DEF EvidenceStands

-----------------------------------------------------------------------------
(* No step of the chain withdraws an outcome of the verifier.              *)
LEMMA OutcomesAreKept == [Next]_vars => runs \subseteq runs'
BY DEF Next, vars, chain, Propose, VerifyPending, VerifierFails,
   VerifierDecides, ConsumeVerified, Finalize, Consumed, DiscardRejected

(* The lists of a set of items hold items of that set.                     *)
LEMMA ListsOfItems ==
  ASSUME NEW S, NEW evidence \in SeqOf(S, MaxEvidence),
         NEW i \in DOMAIN evidence
  PROVE  evidence[i] \in S
BY DEF SeqOf

(* What was admitted stays independent while the chain and the boundary    *)
(* take further steps.                                                     *)
LEMMA StepKeeps ==
  ASSUME AdmittedIsIndependent, runs \subseteq runs', UNCHANGED admission
  PROVE  AdmittedIsIndependent'
BY DEF AdmittedIsIndependent, admission

(* An admission is independent when it is made.                            *)
LEMMA AdmitKeeps ==
  ASSUME NEW product, NEW policy, NEW keys, Admit(product, policy, keys)
  PROVE  AdmittedIsIndependent'
<1> DEFINE standing ==
      {item \in Offered : EvidenceStands(item, product, policy, trusted, keys)}
<1>1. PICK evidence \in SeqOf(standing, MaxEvidence) :
        /\ Admitted(product, evidence, policy, trusted, keys)
        /\ admissions' = {[product |-> product, evidence |-> evidence]}
  BY DEF Admit
<1>2. trusted' = trusted /\ runs' = runs
  BY DEF Admit, vars
<1>3. ASSUME NEW check \in trusted.required_checks
      PROVE  \E i \in DOMAIN evidence :
               /\ evidence[i].check_id = check
               /\ evidence[i].outcome = "PASS"
               /\ evidence[i].policy = trusted
               /\ evidence[i].product_id = product.product_id
               /\ evidence[i].artifact = product.artifact
               /\ evidence[i].proof # product.proof
               /\ evidence[i].proof \in HonestKey =>
                    \E r \in runs : /\ r[1].id = product.product_id
                                    /\ r[1].content = product.artifact
                                    /\ r[2] = "PASS"
  <2>1. PICK i \in DOMAIN evidence :
          /\ evidence[i].check_id = check
          /\ evidence[i].outcome = "PASS"
          /\ evidence[i].policy = trusted
          /\ evidence[i].product_id = product.product_id
          /\ evidence[i].artifact = product.artifact
          /\ evidence[i].proof # product.proof
    BY <1>1, DecisionIsIndependent
  <2>2. evidence[i] \in Offered
    BY ListsOfItems
  <2>3. evidence[i].proof \in HonestKey =>
          Decided(product.product_id, product.artifact, "PASS")
    BY <2>1, <2>2 DEF Offered
  <2> QED
    BY <2>1, <2>3 DEF Decided
<1> DEFINE a == [product |-> product, evidence |-> evidence]
<1>4. a.product = product /\ a.evidence = evidence
  OBVIOUS
<1>5. admissions' = {a}
  BY <1>1
<1> HIDE DEF a
<1> QED
  BY <1>2, <1>3, <1>4, <1>5 DEF AdmittedIsIndependent

(* An admitted product was passed in every required check by somebody else *)
(* than its producer, and where that is an honest key by the chain's       *)
(* verifier: for any policies, keys, evidence, callers and products.       *)
THEOREM AdmissionIsIndependent == AdmissionSpec => []AdmittedIsIndependent
<1>1. AdmissionInit => AdmittedIsIndependent
  BY DEF AdmissionInit, AdmittedIsIndependent
<1>2. AdmittedIsIndependent /\ [AdmissionNext]_allVars
        => AdmittedIsIndependent'
  <2> SUFFICES ASSUME AdmittedIsIndependent, [AdmissionNext]_allVars
               PROVE  AdmittedIsIndependent'
    OBVIOUS
  <2>1. CASE Next /\ UNCHANGED admission
    BY <2>1, OutcomesAreKept, StepKeeps
  <2>2. CASE \E product \in Candidate, policy \in Policies, keys \in KeyRings :
               Admit(product, policy, keys)
    BY <2>2, AdmitKeeps
  <2>3. CASE UNCHANGED allVars
    <3>1. UNCHANGED vars /\ UNCHANGED admission
      BY <2>3 DEF allVars
    <3> QED
      BY <3>1, OutcomesAreKept, StepKeeps
  <2> QED
    BY <2>1, <2>2, <2>3 DEF AdmissionNext
<1> QED
  BY <1>1, <1>2, PTL DEF AdmissionSpec

(* The boundary disturbs nothing in the chain: with it the chain behaves as*)
(* without, and everything proved above holds of it too.                   *)
THEOREM AdmittedImplements == AdmissionSpec => Spec
<1>1. AdmissionInit => Init
  BY DEF AdmissionInit
<1>2. [AdmissionNext]_allVars => [Next]_vars
  <2>1. ASSUME NEW product \in Candidate, NEW policy \in Policies,
               NEW keys \in KeyRings, Admit(product, policy, keys)
        PROVE  UNCHANGED vars
    BY <2>1 DEF Admit
  <2> QED
    BY <2>1 DEF AdmissionNext, allVars
<1> QED
  BY <1>1, <1>2, PTL DEF AdmissionSpec, Spec

-----------------------------------------------------------------------------
(* The control arms.  What a call has authenticated stays true until it    *)
(* registers, because the log, the answers and the responses of the host   *)
(* only grow; and what a call is about to sign or to hand out is what the  *)
(* host said for its dispatch, or an error of its own.                     *)

SignedAnswer == [entry : Entry, request : Request, outcome : AttemptResult,
                 signer : Nat]

(* A response of the host is one of a dispatch.                            *)
IsResponse(m) ==
  /\ m \in [dispatch : DOMAIN log, kind : Kind, text : Text \cup {NoText}]
  /\ [kind |-> m.kind, text |-> m.text]
       \in ValidSaid(log[m.dispatch].request.slot.arm)

SharedType ==
  /\ log \in Seq(Entry)
  /\ answers \subseteq SignedAnswer
  /\ fate \in {"OPEN", "CLOSED"}
  /\ sealed \in Seq(SignedAnswer)
  /\ \A m \in said : IsResponse(m)
  /\ held \subseteq DOMAIN log
  /\ emitted \subseteq [dispatch : DOMAIN log, text : Text]
  /\ lost \subseteq DOMAIN log

CallsType ==
  /\ pc \in [Executor -> {"idle", "checked", "registered", "observed", "signed"}]
  /\ manifest \in [Executor -> Nat]
  /\ step \in [Executor -> Request \cup {NoStep}]
  /\ dispatch \in [Executor -> DOMAIN log \cup {0}]
  /\ result \in [Executor -> [status : AttemptStatus \cup {"none"},
                              text : Text \cup {NoText}]]

ControlType == SharedType /\ CallsType

(* Every dispatch has a signer of its own, every answer a dispatch.        *)
LedgerInv ==
  /\ \A i \in DOMAIN log : log[i].verifier = i - 1
  /\ \A a \in answers : \E d \in DOMAIN log : a.entry = log[d]

(* What an executor has accepted of the host, or an error of its own.      *)
Obtained(e) ==
  \/ result[e] = PortError
  \/ \E m \in said : /\ m.dispatch = dispatch[e]
                     /\ m.text = result[e].text
                     /\ StatusOf(m) = result[e].status

SignedResult(e) ==
  \E a \in answers :
    /\ a.entry = log[dispatch[e]]
    /\ a.outcome.status = result[e].status
    /\ a.outcome.text = result[e].text

(* Only a product-only step shows products.                                *)
ShowsInItsArm(req) == req.shown # {} => req.slot.arm = "PRODUCT_ONLY"

(* A call that has checked its request, and one that has registered it.    *)
CheckedCall(e) ==
  /\ step[e] \in Request
  /\ ShowsInItsArm(step[e])
  /\ Distinct(step[e].shown)
  /\ \A p \in step[e].shown :
       p.dispatch \in DOMAIN log /\ Visible(step[e].slot, p)

CallInv(e) ==
  /\ pc[e] \in {"idle", "checked"} => dispatch[e] = 0
  /\ pc[e] = "checked" => CheckedCall(e)
  /\ pc[e] \in {"registered", "observed", "signed"} => dispatch[e] \in DOMAIN log
  /\ pc[e] \in {"observed", "signed"} =>
       result[e].status \in AttemptStatus /\ Obtained(e)
  /\ pc[e] = "signed" => SignedResult(e)

(* The parts of ShownIsGenuine that a step on another entry keeps.         *)
GenuineEntry(i) ==
  /\ ShowsInItsArm(log[i].request)
  /\ Distinct(log[i].request.shown)
  /\ \A p \in log[i].request.shown :
       p.dispatch \in 1 .. i - 1 /\ Visible(log[i].request.slot, p)

ControlInv ==
  /\ ControlType
  /\ LedgerInv
  /\ \A e \in Executor : CallInv(e)
  /\ \A i \in DOMAIN log : GenuineEntry(i)
  /\ NothingIsReplayed
  /\ OnlyDeathLoses
  /\ EmittedCanBeShown

(* What no step takes back.                                                *)
Grows ==
  /\ DOMAIN log \subseteq DOMAIN log'
  /\ \A i \in DOMAIN log : log'[i] = log[i]
  /\ answers \subseteq answers'
  /\ said \subseteq said'

(* The other calls.                                                        *)
OthersKept(e) ==
  \A f \in Executor \ {e} :
    /\ pc'[f] = pc[f]
    /\ step'[f] = step[f]
    /\ dispatch'[f] = dispatch[f]
    /\ result'[f] = result[f]

(* Fields of the entries of the log.                                       *)
LEMMA LogFields ==
  ASSUME SharedType, NEW i \in DOMAIN log
  PROVE  /\ i \in Nat \ {0}
         /\ DOMAIN log = 1 .. Len(log)
         /\ Len(log) \in Nat
         /\ log[i] \in Entry
         /\ log[i].request \in Request
         /\ log[i].request.slot \in Slot
         /\ log[i].request.shown \in SUBSET VisibleProduct
<1>1. log \in Seq(Entry)
  BY DEF SharedType
<1>2. log[i] \in Entry
  BY <1>1
<1> QED
  BY <1>1, <1>2 DEF Entry, Request

(* What was visible stays visible.                                         *)
LEMMA VisibleKept ==
  ASSUME Grows, NEW s, NEW p, p.dispatch \in DOMAIN log, Visible(s, p)
  PROVE  Visible(s, p)' /\ p.dispatch \in DOMAIN log'
BY DEF Grows, Visible, Authentic, ShowsProduct, SameCell

(* Another call is not disturbed by what only grows.                       *)
LEMMA CallKept ==
  ASSUME Grows, NEW e \in Executor, CallInv(e),
         pc'[e] = pc[e], step'[e] = step[e], dispatch'[e] = dispatch[e],
         result'[e] = result[e]
  PROVE  CallInv(e)'
<1>1. ASSUME CheckedCall(e) PROVE CheckedCall(e)'
  <2>1. ASSUME NEW p \in step[e].shown
        PROVE  p.dispatch \in DOMAIN log' /\ Visible(step[e].slot, p)'
    BY <1>1, <2>1, VisibleKept DEF CheckedCall
  <2> QED
    BY <1>1, <2>1 DEF CheckedCall, Distinct, ShowsInItsArm
<1>2. Obtained(e) => Obtained(e)'
  BY DEF Grows, Obtained, StatusOf, PortError
<1>3. dispatch[e] \in DOMAIN log /\ SignedResult(e) => SignedResult(e)'
  BY DEF Grows, SignedResult
<1> QED
  BY <1>1, <1>2, <1>3 DEF CallInv, Grows

(* Nor is an entry of the log.                                             *)
LEMMA EntryKept ==
  ASSUME SharedType, Grows, NEW i \in DOMAIN log, GenuineEntry(i)
  PROVE  GenuineEntry(i)'
<1>1. ASSUME NEW p \in log[i].request.shown
      PROVE  Visible(log[i].request.slot, p)'
  <2>1. p.dispatch \in DOMAIN log /\ Visible(log[i].request.slot, p)
    BY LogFields DEF GenuineEntry
  <2>2. log'[i] = log[i]
    BY DEF Grows
  <2> QED
    BY <2>1, <2>2, VisibleKept
<1>2. log'[i] = log[i]
  BY DEF Grows
<1> QED
  BY <1>1, <1>2 DEF GenuineEntry, Distinct, ShowsInItsArm

(* An executor's step that neither registers nor signs nor returns.        *)
LEMMA LocalStep ==
  ASSUME ControlInv, NEW e \in Executor,
         UNCHANGED <<ledger, said, held, emitted>>,
         CallsType', OthersKept(e), CallInv(e)',
         lost \subseteq lost', lost' \subseteq lost \cup ({dispatch[e]} \ {0}),
         dispatch'[e] = dispatch[e] \/ dispatch[e] \in lost' \cup {0}
  PROVE  ControlInv'
<1>1. Grows
  BY DEF Grows, ledger
<1>2. SharedType'
  BY DEF ControlInv, ControlType, SharedType, CallsType, ledger, IsResponse
<1>3. LedgerInv' /\ EmittedCanBeShown'
  BY DEF ControlInv, LedgerInv, EmittedCanBeShown, Authentic, ShowsProduct, ledger
<1>4. ASSUME NEW f \in Executor PROVE CallInv(f)'
  BY <1>1, CallKept DEF ControlInv, OthersKept
<1>5. \A i \in DOMAIN log' : GenuineEntry(i)'
  BY <1>1, EntryKept DEF ControlInv, ControlType, ledger
<1>6. NothingIsReplayed'
  BY DEF ControlInv, NothingIsReplayed, StatusOf, ledger
<1>7. OnlyDeathLoses'
  BY LogFields DEF ControlInv, ControlType, OnlyDeathLoses, OthersKept, ledger
<1> QED
  BY <1>2, <1>3, <1>4, <1>5, <1>6, <1>7 DEF ControlInv, ControlType

(* A call that a step of an executor leaves.                               *)
LEMMA LeaveKeeps ==
  ASSUME ControlInv, NEW e \in Executor, Leave(e),
         UNCHANGED <<ledger, said, held, emitted>>,
         lost' \in {lost, lost \cup ({dispatch[e]} \ {0})},
         dispatch[e] \in lost' \cup {0}
  PROVE  ControlInv'
<1>1. /\ pc'[e] = "idle"
      /\ dispatch'[e] = 0
  BY DEF ControlInv, ControlType, CallsType, Leave
<1>2. CallsType'
  BY DEF ControlInv, ControlType, CallsType, Leave, NoResult, ledger
<1>3. OthersKept(e)
  BY DEF ControlInv, ControlType, CallsType, Leave, OthersKept
<1>4. CallInv(e)'
  BY <1>1 DEF CallInv
<1> QED
  BY <1>2, <1>3, <1>4, LocalStep

(* The adapters, up to registration.                                       *)
LEMMA BeginKeeps ==
  ASSUME ControlInv, NEW e \in Executor, NEW req \in Request, Begin(e, req),
         ShowsInItsArm(req), Distinct(req.shown),
         \A p \in req.shown : p.dispatch \in DOMAIN log /\ Visible(req.slot, p)
  PROVE  ControlInv'
<1>1. /\ pc'[e] = "checked"
      /\ step'[e] = req
      /\ dispatch'[e] = dispatch[e]
  BY DEF ControlInv, ControlType, CallsType, Begin
<1>2. CallsType'
  BY DEF ControlInv, ControlType, SharedType, CallsType, Begin, ledger
<1>3. OthersKept(e)
  BY DEF ControlInv, ControlType, CallsType, Begin, OthersKept
<1>4. Grows
  BY DEF Begin, Grows, ledger
<1>5. CheckedCall(e)'
  <2>1. ASSUME NEW p \in req.shown
        PROVE  p.dispatch \in DOMAIN log' /\ Visible(req.slot, p)'
    BY <1>4, VisibleKept
  <2> QED
    BY <1>1, <2>1 DEF CheckedCall, Distinct, ShowsInItsArm
<1>6. CallInv(e)'
  BY <1>1, <1>5 DEF ControlInv, CallInv, Begin
<1> QED
  BY <1>1, <1>2, <1>3, <1>6, LocalStep DEF Begin

(* A baseline attempt begins with nothing to show.                         *)
LEMMA BaselineKeeps ==
  ASSUME ControlInv, NEW e \in Executor, NEW s \in Slot, ExecuteBaseline(e, s)
  PROVE  ControlInv'
<1> DEFINE req == [slot |-> s, shown |-> {}]
<1>1. req \in Request /\ Distinct(req.shown) /\ ShowsInItsArm(req)
  BY DEF Request, Distinct, ShowsInItsArm
<1> QED
  BY <1>1, BeginKeeps DEF ExecuteBaseline

(* A product-only step begins with products that earlier attempts of its   *)
(* cell signed, no two of the same text.                                   *)
LEMMA ProductOnlyKeeps ==
  ASSUME ControlInv, NEW e \in Executor, NEW s \in Slot,
         ExecuteProductOnlyStep(e, s)
  PROVE  ControlInv'
<1>1. PICK shown \in SUBSET {p \in [dispatch : DOMAIN log, text : Text] :
                              Claimed(p) /\ Visible(s, p)} :
        Distinct(shown) /\ Begin(e, [slot |-> s, shown |-> shown])
  BY DEF ExecuteProductOnlyStep
<1> DEFINE req == [slot |-> s, shown |-> shown]
<1>2. DOMAIN log \subseteq Nat \ {0}
  BY LogFields DEF ControlInv, ControlType
<1>3. req \in Request /\ ShowsInItsArm(req)
  BY <1>2 DEF Request, VisibleProduct, ExecuteProductOnlyStep, ShowsInItsArm
<1> QED
  BY <1>1, <1>3, BeginKeeps

(* The host answers a call, or fails it.                                   *)
LEMMA ObserveKeeps ==
  ASSUME ControlInv, NEW e \in Executor, NEW r, pc[e] = "registered",
         pc' = [pc EXCEPT ![e] = "observed"],
         result' = [result EXCEPT ![e] = r],
         UNCHANGED <<ledger, said, manifest, step, dispatch, held, emitted, lost>>,
         r \in [status : AttemptStatus, text : Text \cup {NoText}],
         \/ r = PortError
         \/ \E m \in said : /\ m.dispatch = dispatch[e]
                            /\ m.text = r.text
                            /\ StatusOf(m) = r.status
  PROVE  ControlInv'
<1>1. pc'[e] = "observed" /\ result'[e] = r
  BY DEF ControlInv, ControlType, CallsType
<1>2. CallsType'
  BY DEF ControlInv, ControlType, CallsType, ledger
<1>3. OthersKept(e)
  BY DEF ControlInv, ControlType, CallsType, OthersKept
<1>4. Obtained(e)'
  BY <1>1 DEF Obtained, PortError, StatusOf
<1>5. CallInv(e)'
  BY <1>1, <1>4 DEF ControlInv, CallInv, ledger
<1> QED
  BY <1>2, <1>3, <1>5, LocalStep

(* A call observes what the model said to its own dispatch, or an error.   *)
LEMMA ModelCallKeeps ==
  ASSUME ControlInv, NEW e \in Executor, NEW m \in said, ModelCall(e, m)
  PROVE  ControlInv'
<1>1. IsResponse(m)
  BY DEF ControlInv, ControlType, SharedType
<1>2. /\ Observed(e, m) \in [status : AttemptStatus, text : Text \cup {NoText}]
      /\ \/ Observed(e, m) = PortError
         \/ /\ m.dispatch = dispatch[e]
            /\ m.text = Observed(e, m).text
            /\ StatusOf(m) = Observed(e, m).status
  BY <1>1 DEF Observed, PortError, StatusOf, AttemptStatus, IsResponse, Kind
<1> QED
  BY <1>2, ObserveKeeps DEF ModelCall

(* That the model call raised is observed as an error.                     *)
LEMMA ModelCallRaisesKeeps ==
  ASSUME ControlInv, NEW e \in Executor, ModelCallRaises(e)
  PROVE  ControlInv'
<1>1. PortError \in [status : AttemptStatus, text : Text \cup {NoText}]
  BY DEF PortError, AttemptStatus
<1> QED
  BY <1>1, ObserveKeeps DEF ModelCallRaises

(* The log after a registration.                                           *)
LEMMA RegisterAppends ==
  ASSUME ControlInv, NEW e \in Executor, Register(e)
  PROVE  /\ step[e] \in Request
         /\ log' \in Seq(Entry)
         /\ DOMAIN log = 1 .. Len(log)
         /\ Len(log) \in Nat
         /\ DOMAIN log' = 1 .. Len(log) + 1
         /\ \A i \in DOMAIN log : log'[i] = log[i]
         /\ log'[Len(log) + 1] =
              [sequence |-> Len(log), request |-> step[e], verifier |-> Len(log)]
         /\ Grows
<1> DEFINE new == [sequence |-> Len(log), request |-> step[e],
                   verifier |-> Len(log)]
<1>1. step[e] \in Request
  BY DEF ControlInv, CallInv, CheckedCall, Register
<1>2. log \in Seq(Entry) /\ Len(log) \in Nat
  BY DEF ControlInv, ControlType, SharedType
<1>3. new \in Entry
  BY <1>1, <1>2 DEF Entry
<1>4. log' = Append(log, new) /\ answers' = answers /\ said' = said
  BY DEF Register, Ledger!Dispatch
<1>5. /\ DOMAIN log = 1 .. Len(log)
      /\ log' \in Seq(Entry)
      /\ DOMAIN log' = 1 .. Len(log) + 1
      /\ \A i \in 1 .. Len(log) : log'[i] = log[i]
      /\ log'[Len(log) + 1] = new
  BY <1>2, <1>3, <1>4
<1> QED
  BY <1>1, <1>2, <1>4, <1>5 DEF Grows

(* Registering puts the request in the log, and what it shows is what was  *)
(* claimed before.                                                         *)
LEMMA RegisterKeeps ==
  ASSUME ControlInv, NEW e \in Executor, Register(e)
  PROVE  ControlInv'
<1> DEFINE n == Len(log) + 1
<1>0. /\ step[e] \in Request
      /\ log' \in Seq(Entry)
      /\ DOMAIN log = 1 .. Len(log)
      /\ Len(log) \in Nat
      /\ DOMAIN log' = 1 .. n
      /\ \A i \in DOMAIN log : log'[i] = log[i]
      /\ log'[n] =
           [sequence |-> Len(log), request |-> step[e], verifier |-> Len(log)]
      /\ Grows
  BY RegisterAppends
<1>1. /\ pc'[e] = "registered" /\ step'[e] = step[e] /\ dispatch'[e] = n
      /\ UNCHANGED <<answers, fate, sealed, said, held, emitted, lost>>
      /\ dispatch[e] = 0 /\ CheckedCall(e)
  BY DEF ControlInv, ControlType, CallsType, CallInv, Register, RegisteredEntry,
     Ledger!Dispatch
<1>2. SharedType'
  <2>1. ASSUME NEW m \in said PROVE IsResponse(m)'
    <3>1. IsResponse(m)
      BY DEF ControlInv, ControlType, SharedType
    <3>2. m.dispatch \in DOMAIN log /\ log'[m.dispatch] = log[m.dispatch]
      BY <1>0, <3>1 DEF IsResponse
    <3> QED
      BY <1>0, <3>1, <3>2 DEF IsResponse
  <2> QED
    BY <1>0, <1>1, <2>1 DEF ControlInv, ControlType, SharedType
<1>3. CallsType'
  BY <1>0 DEF ControlInv, ControlType, CallsType, Register, RegisteredEntry
<1>4. LedgerInv'
  BY <1>0, <1>1 DEF ControlInv, LedgerInv
<1>5. ASSUME NEW f \in Executor PROVE CallInv(f)'
  <2>1. CASE f = e
    BY <1>0, <1>1, <2>1 DEF CallInv
  <2>2. CASE f # e
    <3>1. /\ pc'[f] = pc[f] /\ step'[f] = step[f]
          /\ dispatch'[f] = dispatch[f] /\ result'[f] = result[f]
      BY <2>2 DEF ControlInv, ControlType, CallsType, Register
    <3> QED
      BY <1>0, <3>1, CallKept DEF ControlInv
  <2> QED
    BY <2>1, <2>2
<1>6. ASSUME NEW i \in DOMAIN log' PROVE GenuineEntry(i)'
  <2>1. CASE i \in DOMAIN log
    BY <1>0, <2>1, EntryKept DEF ControlInv, ControlType
  <2>2. CASE i = n
    <3>1. log'[n].request = step[e]
      BY <1>0
    <3>2. ASSUME NEW p \in step[e].shown
          PROVE  p.dispatch \in 1 .. n - 1 /\ Visible(step[e].slot, p)'
      <4>1. p.dispatch \in DOMAIN log /\ Visible(step[e].slot, p)
        BY <1>1 DEF CheckedCall
      <4> QED
        BY <1>0, <1>1, <4>1, VisibleKept
    <3> QED
      BY <1>1, <2>2, <3>1, <3>2 DEF GenuineEntry, CheckedCall, Distinct, ShowsInItsArm
  <2> QED
    BY <1>0, <2>1, <2>2
<1>7. NothingIsReplayed'
  <2> SUFFICES ASSUME NEW a \in answers, NEW d \in DOMAIN log',
                      a.entry = log'[d]
               PROVE  \/ \E m \in said : /\ m.dispatch = d
                                         /\ m.text = a.outcome.text
                                         /\ StatusOf(m) = a.outcome.status
                      \/ a.outcome = [status |-> "ERROR", text |-> NoText,
                                      receipt |-> "none"]
    BY <1>1 DEF NothingIsReplayed, StatusOf
  <2>1. PICK c \in DOMAIN log : a.entry = log[c]
    BY DEF ControlInv, LedgerInv
  <2>2. c = d
    <3>1. log'[c].verifier = c - 1 /\ log'[d].verifier = d - 1
      BY <1>0, <1>4 DEF LedgerInv
    <3> QED
      BY <1>0, <2>1, <3>1
  <2> QED
    BY <2>1, <2>2 DEF ControlInv, NothingIsReplayed
<1>8. OnlyDeathLoses'
  <2> SUFFICES ASSUME NEW d \in DOMAIN log'
               PROVE  \/ d \in lost
                      \/ d \in held
                      \/ \E f \in Executor : dispatch'[f] = d
    BY <1>1 DEF OnlyDeathLoses
  <2>1. CASE d = n
    BY <1>1, <2>1
  <2>2. CASE d \in DOMAIN log /\ \E f \in Executor : dispatch[f] = d
    <3>1. PICK f \in Executor : dispatch[f] = d
      BY <2>2
    <3>2. f # e
      BY <1>0, <1>1, <2>2, <3>1
    <3>3. dispatch'[f] = dispatch[f]
      BY <3>2 DEF ControlInv, ControlType, CallsType, Register
    <3> QED
      BY <3>1, <3>3
  <2> QED
    BY <1>0, <2>1, <2>2 DEF ControlInv, OnlyDeathLoses
<1>9. EmittedCanBeShown'
  BY <1>0, <1>1 DEF ControlInv, ControlType, SharedType, EmittedCanBeShown,
     Authentic, ShowsProduct
<1> QED
  BY <1>2, <1>3, <1>4, <1>5, <1>6, <1>7, <1>8, <1>9 DEF ControlInv, ControlType

(* What an executor signs is evidence of a type that can be signed.        *)
LEMMA SignedOutcome ==
  ASSUME ControlInv, NEW e \in Executor, NEW v \in VerifierStatus \cup {"none"},
         pc[e] = "observed", result[e].status = "ANSWERED" <=> v # "none"
  PROVE  [status |-> result[e].status, text |-> result[e].text, receipt |-> v]
           \in AttemptResult
<1>1. /\ Obtained(e)
      /\ result[e].status \in AttemptStatus
      /\ result[e].text \in Text \cup {NoText}
  BY DEF ControlInv, ControlType, CallsType, CallInv
<1>2. result[e].status = "ANSWERED" => result[e].text # NoText
  <2>1. ASSUME NEW m \in said, StatusOf(m) = "ANSWERED"
        PROVE  m.text # NoText
    BY <2>1 DEF ControlInv, ControlType, SharedType, IsResponse, ValidSaid, StatusOf
  <2> QED
    BY <1>1, <2>1 DEF Obtained, PortError
<1> QED
  BY <1>1, <1>2 DEF AttemptResult

(* An executor signs what it has obtained, with the receipt it deserves.   *)
LEMMA CompleteKeeps ==
  ASSUME ControlInv, NEW e \in Executor, NEW v \in VerifierStatus \cup {"none"},
         pc[e] = "observed", Complete(e, v),
         result[e].status = "ANSWERED" <=> v # "none"
  PROVE  ControlInv'
<1> DEFINE o == [status |-> result[e].status, text |-> result[e].text,
                 receipt |-> v]
           a0 == [entry |-> log[dispatch[e]], request |-> log[dispatch[e]].request,
                  outcome |-> o, signer |-> log[dispatch[e]].verifier]
<1>1. /\ dispatch[e] \in DOMAIN log
      /\ Obtained(e)
      /\ result[e].status \in AttemptStatus
      /\ result[e].text \in Text \cup {NoText}
  BY DEF ControlInv, ControlType, CallsType, CallInv
<1>2. /\ answers' = answers \cup {a0}
      /\ UNCHANGED <<log, fate, sealed, said, step, dispatch, result,
                     held, emitted, lost>>
      /\ pc' = [pc EXCEPT ![e] = "signed"]
  BY DEF Complete, Ledger!Answer
<1>3. o \in AttemptResult
  BY SignedOutcome
<1>4. Grows
  BY <1>2 DEF Grows
<1>5. a0 \in SignedAnswer
  <2>1. log[dispatch[e]] \in Entry /\ log[dispatch[e]].request \in Request
    BY <1>1, LogFields DEF ControlInv, ControlType
  <2> QED
    BY <1>3, <2>1 DEF SignedAnswer, Entry
<1>6. SharedType'
  BY <1>2, <1>5 DEF ControlInv, ControlType, SharedType, IsResponse
<1>7. CallsType'
  BY <1>2 DEF ControlInv, ControlType, CallsType, Complete
<1>8. LedgerInv'
  BY <1>1, <1>2 DEF ControlInv, LedgerInv
<1>9. ASSUME NEW f \in Executor PROVE CallInv(f)'
  <2>1. CASE f = e
    <3>1. pc'[e] = "signed"
      BY <1>2 DEF ControlInv, ControlType, CallsType
    <3>2. SignedResult(e)'
      <4>1. /\ a0 \in answers'
            /\ a0.entry = log'[dispatch'[e]]
            /\ a0.outcome.status = result'[e].status
            /\ a0.outcome.text = result'[e].text
        BY <1>2
      <4> QED
        BY <4>1 DEF SignedResult
    <3>3. Obtained(e)'
      BY <1>1, <1>2 DEF Obtained, PortError, StatusOf
    <3> QED
      BY <1>1, <1>2, <2>1, <3>1, <3>2, <3>3 DEF CallInv
  <2>2. CASE f # e
    BY <1>2, <1>4, <2>2, CallKept DEF ControlInv, ControlType, CallsType
  <2> QED
    BY <2>1, <2>2
<1>10. \A i \in DOMAIN log' : GenuineEntry(i)'
  BY <1>2, <1>4, EntryKept DEF ControlInv, ControlType
<1>11. NothingIsReplayed'
  <2> SUFFICES ASSUME NEW a \in answers', NEW d \in DOMAIN log, a.entry = log[d]
               PROVE  \/ \E m \in said : /\ m.dispatch = d
                                         /\ m.text = a.outcome.text
                                         /\ StatusOf(m) = a.outcome.status
                      \/ a.outcome = [status |-> "ERROR", text |-> NoText,
                                      receipt |-> "none"]
    BY <1>2 DEF NothingIsReplayed, StatusOf
  <2>1. CASE a \in answers
    BY <2>1 DEF ControlInv, NothingIsReplayed
  <2>2. CASE a = a0
    <3>1. log[d].verifier = d - 1 /\ log[dispatch[e]].verifier = dispatch[e] - 1
      BY <1>1 DEF ControlInv, LedgerInv
    <3>2. d = dispatch[e]
      BY <1>1, <2>2, <3>1, LogFields DEF ControlInv, ControlType
    <3>3. CASE result[e] = PortError
      BY <2>2, <3>3 DEF PortError
    <3> QED
      BY <1>1, <2>2, <3>2, <3>3 DEF Obtained
  <2> QED
    BY <1>2, <2>1, <2>2
<1>12. OnlyDeathLoses' /\ EmittedCanBeShown'
  BY <1>2 DEF ControlInv, OnlyDeathLoses, EmittedCanBeShown, Authentic, ShowsProduct
<1> QED
  BY <1>6, <1>7, <1>8, <1>9, <1>10, <1>11, <1>12 DEF ControlInv, ControlType

(* An answer is signed for the entry its executor registered, with the     *)
(* verdict or with the fault.                                              *)
LEMMA SignKeeps ==
  ASSUME ControlInv, NEW e \in Executor,
         \/ \E v \in Verdict : Verify(e, v)
         \/ VerifierRaises(e)
         \/ SignUnverified(e)
  PROVE  ControlInv'
<1>1. ASSUME NEW v \in Verdict, Verify(e, v) PROVE ControlInv'
  <2>1. v \in VerifierStatus /\ v # "none"
    BY VerdictAssumption DEF VerifierStatus
  <2> QED
    BY <1>1, <2>1, CompleteKeeps DEF Verify
<1>2. CASE VerifierRaises(e)
  BY <1>2, CompleteKeeps DEF VerifierRaises, VerifierStatus
<1>3. CASE SignUnverified(e)
  BY <1>3, CompleteKeeps DEF SignUnverified
<1> QED
  BY <1>1, <1>2, <1>3

(* What is handed out was said of the dispatch, and is signed.             *)
LEMMA ReturnKeeps ==
  ASSUME ControlInv, NEW e \in Executor, Return(e)
  PROVE  ControlInv'
<1> DEFINE p0 == [dispatch |-> dispatch[e], text |-> result[e].text]
<1>1. /\ dispatch[e] \in DOMAIN log
      /\ SignedResult(e)
      /\ UNCHANGED <<log, answers, fate, sealed, said, lost>>
      /\ held' = held \cup {dispatch[e]}
      /\ Leave(e)
  BY DEF ControlInv, CallInv, Return, ledger
<1>2. Grows
  BY <1>1 DEF Grows
<1>3. ASSUME NEW p \in EmittedProduct(e)
      PROVE  /\ p = p0
             /\ p.text \in Emission
             /\ Authentic(p)
  <2>1. p = p0 /\ result[e].status = "NO_ANSWER"
    BY DEF EmittedProduct
  <2>2. p.text \in Emission
    <3>1. PICK m \in said : m.kind = "PRODUCT" /\ m.text = p.text
      BY DEF EmittedProduct
    <3> QED
      BY <3>1 DEF ControlInv, ControlType, SharedType, IsResponse, ValidSaid
  <2>3. PICK a \in answers : /\ a.entry = log[dispatch[e]]
                             /\ a.outcome.status = "NO_ANSWER"
                             /\ a.outcome.text = result[e].text
    BY <1>1, <2>1 DEF SignedResult
  <2>4. a.outcome.receipt = "none"
    BY <2>3 DEF ControlInv, ControlType, SharedType, SignedAnswer, AttemptResult
  <2> QED
    BY <2>1, <2>2, <2>3, <2>4 DEF Authentic, ShowsProduct
<1>4. emitted' \subseteq emitted \cup EmittedProduct(e)
  BY DEF Return
<1>5. SharedType'
  <2>1. EmittedProduct(e) \subseteq [dispatch : DOMAIN log, text : Text]
    BY <1>1, <1>3, TextAssumption
  <2> QED
    BY <1>1, <1>4, <2>1 DEF ControlInv, ControlType, SharedType, IsResponse
<1>6. CallsType'
  BY <1>1 DEF ControlInv, ControlType, CallsType, Leave, NoResult
<1>7. LedgerInv' /\ NothingIsReplayed'
  BY <1>1 DEF ControlInv, LedgerInv, NothingIsReplayed, StatusOf
<1>8. ASSUME NEW f \in Executor PROVE CallInv(f)'
  <2>1. CASE f = e
    <3>1. pc'[e] = "idle" /\ dispatch'[e] = 0
      BY <1>1 DEF ControlInv, ControlType, CallsType, Leave
    <3> QED
      BY <2>1, <3>1 DEF CallInv
  <2>2. CASE f # e
    BY <1>1, <1>2, <2>2, CallKept DEF ControlInv, ControlType, CallsType, Leave
  <2> QED
    BY <2>1, <2>2
<1>9. \A i \in DOMAIN log' : GenuineEntry(i)'
  BY <1>1, <1>2, EntryKept DEF ControlInv, ControlType
<1>10. OnlyDeathLoses'
  <2>1. \A f \in Executor : dispatch'[f] = dispatch[f] \/ f = e
    BY <1>1 DEF ControlInv, ControlType, CallsType, Leave
  <2> QED
    BY <1>1, <2>1 DEF ControlInv, OnlyDeathLoses
<1>11. EmittedCanBeShown'
  <2> SUFFICES ASSUME NEW p \in emitted' PROVE p.dispatch \in held' /\ Authentic(p)
    BY <1>1 DEF EmittedCanBeShown, Authentic, ShowsProduct
  <2>1. CASE p \in emitted
    BY <1>1, <2>1 DEF ControlInv, EmittedCanBeShown
  <2>2. CASE p \in EmittedProduct(e)
    BY <1>1, <1>3, <2>2
  <2> QED
    BY <1>4, <2>1, <2>2
<1> QED
  BY <1>5, <1>6, <1>7, <1>8, <1>9, <1>10, <1>11 DEF ControlInv, ControlType

(* A call that leaves with nothing: refused, broken off, or dead.          *)
LEMMA LostKeeps ==
  ASSUME ControlInv, NEW e \in Executor,
         RegisterRaises(e) \/ ResultRaises(e) \/ Crash(e)
  PROVE  ControlInv'
<1>1. CASE RegisterRaises(e)
  <2>1. dispatch[e] = 0
    BY <1>1 DEF ControlInv, CallInv, RegisterRaises
  <2> QED
    BY <1>1, <2>1, LeaveKeeps DEF RegisterRaises
<1>2. CASE ResultRaises(e)
  <2>1. dispatch[e] # 0
    BY <1>2, LogFields DEF ControlInv, ControlType, CallInv, ResultRaises
  <2> QED
    BY <1>2, <2>1, LeaveKeeps DEF ResultRaises
<1>3. CASE Crash(e)
  BY <1>3, LeaveKeeps DEF Crash
<1> QED
  BY <1>1, <1>2, <1>3

(* The host adds a response.                                               *)
LEMMA SayKeeps ==
  ASSUME ControlInv, NEW d \in DOMAIN log, NEW s \in Said, Say(d, s)
  PROVE  ControlInv'
<1> DEFINE m0 == [dispatch |-> d, kind |-> s.kind, text |-> s.text]
<1>1. /\ said' = said \cup {m0}
      /\ UNCHANGED <<log, answers, fate, sealed, pc, manifest, step, dispatch,
                     result, held, emitted, lost>>
  BY DEF Say, ledger, evars
<1>2. IsResponse(m0)
  <2>1. s \in ValidSaid(log[d].request.slot.arm)
    BY DEF Say
  <2> QED
    BY <2>1 DEF IsResponse, ValidSaid
<1>3. Grows
  BY <1>1 DEF Grows
<1>4. SharedType' /\ CallsType'
  BY <1>1, <1>2 DEF ControlInv, ControlType, SharedType, CallsType, IsResponse
<1>5. LedgerInv' /\ OnlyDeathLoses' /\ EmittedCanBeShown'
  BY <1>1 DEF ControlInv, LedgerInv, OnlyDeathLoses, EmittedCanBeShown, Authentic,
     ShowsProduct
<1>6. \A f \in Executor : CallInv(f)'
  BY <1>1, <1>3, CallKept DEF ControlInv
<1>7. \A i \in DOMAIN log' : GenuineEntry(i)'
  BY <1>1, <1>3, EntryKept DEF ControlInv, ControlType
<1>8. NothingIsReplayed'
  BY <1>1 DEF ControlInv, NothingIsReplayed, StatusOf
<1> QED
  BY <1>4, <1>5, <1>6, <1>7, <1>8 DEF ControlInv, ControlType

(* The close takes the signed answers as they are.                         *)
LEMMA CloseKeeps ==
  ASSUME ControlInv, Close
  PROVE  ControlInv'
<1>1. /\ fate' = "CLOSED"
      /\ UNCHANGED <<log, answers, said, pc, manifest, step, dispatch, result,
                     held, emitted, lost>>
  BY DEF Close, Ledger!Seal, evars
<1>2. sealed' \in Seq(SignedAnswer)
  <2>1. sealed' \in [1 .. Len(log) -> answers]
    BY DEF Close, Ledger!Seal
  <2>2. Len(log) \in Nat /\ answers \subseteq SignedAnswer
    BY DEF ControlInv, ControlType, SharedType
  <2> QED
    BY <2>1, <2>2
<1>3. Grows
  BY <1>1 DEF Grows
<1>4. SharedType' /\ CallsType'
  BY <1>1, <1>2 DEF ControlInv, ControlType, SharedType, CallsType, IsResponse
<1>5. LedgerInv' /\ OnlyDeathLoses' /\ EmittedCanBeShown' /\ NothingIsReplayed'
  BY <1>1 DEF ControlInv, LedgerInv, OnlyDeathLoses, EmittedCanBeShown, Authentic,
     ShowsProduct, NothingIsReplayed, StatusOf
<1>6. \A f \in Executor : CallInv(f)'
  BY <1>1, <1>3, CallKept DEF ControlInv
<1>7. \A i \in DOMAIN log' : GenuineEntry(i)'
  BY <1>1, <1>3, EntryKept DEF ControlInv, ControlType
<1> QED
  BY <1>4, <1>5, <1>6, <1>7 DEF ControlInv, ControlType

(* The initial state.                                                      *)
LEMMA ControlStarts == ControlInit => ControlInv
<1> SUFFICES ASSUME ControlInit PROVE ControlInv
  OBVIOUS
<1>1. log = <<>> /\ answers = {} /\ fate = "OPEN" /\ sealed = <<>> /\ said = {}
  BY DEF ControlInit, Ledger!Init
<1>2. SharedType
  BY <1>1 DEF ControlInit, SharedType
<1>3. CallsType
  BY DEF ControlInit, CallsType, NoResult
<1>4. \A e \in Executor : CallInv(e)
  BY DEF ControlInit, CallInv
<1> QED
  BY <1>1, <1>2, <1>3, <1>4 DEF ControlInit, ControlInv, ControlType, LedgerInv,
     NothingIsReplayed, OnlyDeathLoses, EmittedCanBeShown

(* Every step of the control arms keeps the invariant.                     *)
LEMMA ControlStep == ControlInv /\ [ControlNext]_controlVars => ControlInv'
<1> SUFFICES ASSUME ControlInv, [ControlNext]_controlVars PROVE ControlInv'
  OBVIOUS
<1>1. ASSUME NEW e \in Executor, NEW s \in Slot,
             ExecuteBaseline(e, s) \/ ExecuteProductOnlyStep(e, s)
      PROVE  ControlInv'
  BY <1>1, BaselineKeeps, ProductOnlyKeeps
<1>2. ASSUME NEW e \in Executor, Register(e) PROVE ControlInv'
  BY <1>2, RegisterKeeps
<1>3. ASSUME NEW e \in Executor,
             \/ \E m \in said : ModelCall(e, m)
             \/ ModelCallRaises(e)
      PROVE  ControlInv'
  BY <1>3, ModelCallKeeps, ModelCallRaisesKeeps
<1>4. ASSUME NEW e \in Executor,
             \/ \E v \in Verdict : Verify(e, v)
             \/ VerifierRaises(e)
             \/ SignUnverified(e)
      PROVE  ControlInv'
  BY <1>4, SignKeeps
<1>5. ASSUME NEW e \in Executor, Return(e) PROVE ControlInv'
  BY <1>5, ReturnKeeps
<1>6. ASSUME NEW e \in Executor,
             RegisterRaises(e) \/ ResultRaises(e) \/ Crash(e)
      PROVE  ControlInv'
  BY <1>6, LostKeeps
<1>7. ASSUME NEW d \in DOMAIN log, NEW s \in Said, Say(d, s) PROVE ControlInv'
  BY <1>7, SayKeeps
<1>8. CASE Close
  BY <1>8, CloseKeeps
<1>9. CASE UNCHANGED controlVars
  <2>1. /\ UNCHANGED <<log, answers, fate, sealed, said, pc, manifest, step,
                       dispatch, result, held, emitted, lost>>
    BY <1>9 DEF controlVars, ledger, evars
  <2>2. Grows
    BY <2>1 DEF Grows
  <2>3. \A f \in Executor : CallInv(f)'
    BY <2>1, <2>2, CallKept DEF ControlInv
  <2>4. \A i \in DOMAIN log' : GenuineEntry(i)'
    BY <2>1, <2>2, EntryKept DEF ControlInv, ControlType
  <2> QED
    BY <2>1, <2>3, <2>4 DEF ControlInv, ControlType, SharedType, CallsType,
       IsResponse, LedgerInv, OnlyDeathLoses, EmittedCanBeShown, Authentic,
       ShowsProduct, NothingIsReplayed, StatusOf
<1> QED
  BY <1>1, <1>2, <1>3, <1>4, <1>5, <1>6, <1>7, <1>8, <1>9 DEF ControlNext

(* Hence it holds throughout.                                              *)
LEMMA ControlInvHolds == ControlSpec => []ControlInv
<1> QED
  BY ControlStarts, ControlStep, PTL DEF ControlSpec

(* Type correctness of the control arms.                                   *)
THEOREM ControlTypeCorrect == ControlSpec => []ControlType
<1>1. ControlInv => ControlType
  BY DEF ControlInv
<1> QED
  BY <1>1, ControlInvHolds, PTL

(* What a product-only step shows its model is a product of an earlier     *)
(* dispatch and attempt of the cell, which the host gave for that very     *)
(* dispatch: execute_product_only_step checks the signed completion and its*)
(* arm, and in that arm a signed NO_ANSWER with a content can only stand   *)
(* for a product, because there an observation without an answer has no    *)
(* text.                                                                   *)
THEOREM ShownGenuine == ControlSpec => []ShownIsGenuine
<1>1. ControlInv => ShownIsGenuine
  <2> SUFFICES ASSUME ControlInv, NEW i \in DOMAIN log,
                      NEW p \in log[i].request.shown
               PROVE  /\ p.dispatch < i
                      /\ SameCell(log[p.dispatch].request.slot, log[i].request.slot)
                      /\ log[p.dispatch].request.slot.arm = "PRODUCT_ONLY"
                      /\ log[p.dispatch].request.slot.attempt
                           < log[i].request.slot.attempt
                      /\ Authentic(p)
                      /\ [dispatch |-> p.dispatch, kind |-> "PRODUCT",
                          text |-> p.text] \in said
                      /\ \A q \in log[i].request.shown : q.text = p.text => q = p
    BY DEF ShownIsGenuine
  <2>1. GenuineEntry(i) /\ SharedType
    BY DEF ControlInv, ControlType
  <2>2. /\ p.dispatch \in 1 .. i - 1
        /\ Visible(log[i].request.slot, p)
        /\ \A q \in log[i].request.shown : q.text = p.text => q = p
    BY <2>1 DEF GenuineEntry, Distinct
  <2>3. p.dispatch \in DOMAIN log /\ p.dispatch < i
    BY <2>1, <2>2, LogFields
  <2>4. PICK a \in answers : a.entry = log[p.dispatch] /\ ShowsProduct(a, p.text)
    BY <2>2 DEF Visible, Authentic
  <2>5. PICK m \in said : /\ m.dispatch = p.dispatch
                          /\ m.text = p.text
                          /\ StatusOf(m) = "NO_ANSWER"
    BY <2>3, <2>4 DEF ControlInv, NothingIsReplayed, ShowsProduct
  <2>6. log[p.dispatch].request.slot.arm = "PRODUCT_ONLY"
    BY <2>1, <2>2 DEF GenuineEntry, ShowsInItsArm, Visible, SameCell
  <2>7. m.kind = "PRODUCT"
    BY <2>1, <2>4, <2>5, <2>6, TextAssumption
    DEF SharedType, IsResponse, ValidSaid, StatusOf, ShowsProduct
  <2>8. m = [dispatch |-> p.dispatch, kind |-> "PRODUCT", text |-> p.text]
    BY <2>1, <2>5, <2>7 DEF SharedType, IsResponse
  <2> QED
    BY <2>2, <2>3, <2>5, <2>6, <2>8 DEF Visible
<1> QED
  BY <1>1, ControlInvHolds, PTL

(* A late response is signed for no dispatch but its own: _safe_model_call *)
(* turns it into an error with no text.                                    *)
THEOREM NothingReplayed == ControlSpec => []NothingIsReplayed
<1>1. ControlInv => NothingIsReplayed
  BY DEF ControlInv
<1> QED
  BY <1>1, ControlInvHolds, PTL

(* No port can make an adapter lose a dispatch; a death can, and an error  *)
(* that no completion can carry.                                           *)
THEOREM OnlyADeathLoses == ControlSpec => []OnlyDeathLoses
<1>1. ControlInv => OnlyDeathLoses
  BY DEF ControlInv
<1> QED
  BY <1>1, ControlInvHolds, PTL

(* A product that a step hands out passes _authenticate_visible_product    *)
(* from then on.                                                           *)
THEOREM EmittedShowable == ControlSpec => []EmittedCanBeShown
<1>1. ControlInv => EmittedCanBeShown
  BY DEF ControlInv
<1> QED
  BY <1>1, ControlInvHolds, PTL

(* Whatever its executors, its host and its verifier do, to the dispatch   *)
(* authority the control arms are callers like any other: every step is one*)
(* of the abstract run, or none at all.                                    *)
THEOREM ControlsKeepTheLedger == ControlSpec => Ledger!Spec
<1>1. ControlInit => Ledger!Init
  BY DEF ControlInit
<1>2. ControlInv /\ [ControlNext]_controlVars => [Ledger!Next]_(Ledger!vars)
  <2> SUFFICES ASSUME ControlInv, [ControlNext]_controlVars
               PROVE  Ledger!Next \/ UNCHANGED ledger
    BY DEF ledger, Ledger!vars
  <2>1. ASSUME NEW e \in Executor, Register(e) PROVE Ledger!Next
    <3>1. step[e] \in Request /\ Len(log) \in Nat
      BY <2>1, RegisterAppends
    <3> QED
      BY <2>1, <3>1 DEF Register, Ledger!Next
  <2>2. ASSUME NEW e \in Executor, NEW v \in VerifierStatus \cup {"none"},
               pc[e] = "observed", Complete(e, v),
               result[e].status = "ANSWERED" <=> v # "none"
        PROVE  Ledger!Next
    <3> DEFINE o == [status |-> result[e].status, text |-> result[e].text,
                     receipt |-> v]
    <3>1. dispatch[e] \in DOMAIN log /\ Ledger!Answer(dispatch[e], o)
      BY <2>2 DEF Complete, Ledger!Answer
    <3>2. o \in AttemptResult
      BY <2>2, SignedOutcome
    <3> QED
      BY <3>1, <3>2 DEF Ledger!Next
  <2>3. ASSUME NEW e \in Executor, NEW v \in Verdict, Verify(e, v)
        PROVE  Ledger!Next
    <3>1. v \in VerifierStatus /\ v # "none"
      BY VerdictAssumption DEF VerifierStatus
    <3> QED
      BY <2>2, <2>3, <3>1 DEF Verify
  <2>4. ASSUME NEW e \in Executor, VerifierRaises(e) \/ SignUnverified(e)
        PROVE  Ledger!Next
    BY <2>2, <2>4 DEF VerifierRaises, SignUnverified, VerifierStatus
  <2>5. CASE Close
    BY <2>5 DEF Close, Ledger!Next
  <2>6. CASE UNCHANGED controlVars
    BY <2>6 DEF controlVars
  <2> QED
    BY <2>1, <2>3, <2>4, <2>5, <2>6 DEF ControlNext, ExecuteBaseline,
       ExecuteProductOnlyStep, Begin, RegisterRaises, ModelCall, ModelCallRaises,
       ResultRaises, Return, Crash, Say
<1> QED
  BY <1>1, <1>2, ControlInvHolds, PTL DEF ControlSpec, Ledger!Spec

=============================================================================
