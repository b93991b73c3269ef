----------------------------- MODULE ProductChain -----------------------------
(***************************************************************************)
(* VerifiedChain of arms/verified_chain.py: the chain of products of one   *)
(* problem.  The object has no lock.  verify_pending reads the pending     *)
(* product, runs the verifier for up to its timeout, and only then applies *)
(* the outcome; while it waits other callers may call any method, another  *)
(* verify_pending included.  Every other method runs to its end.           *)
(*                                                                         *)
(* The verifier is deterministic, as verify_pending says: whether it       *)
(* passes or fails a product is decided by the content (Accepted), but it  *)
(* may always time out or fail to run instead.  Calls that only raise are  *)
(* left out.                                                               *)
(***************************************************************************)
EXTENDS Naturals, Sequences

CONSTANTS
  Caller,    \* those who hold the chain
  Id,        \* product ids
  Content,   \* canonical product values
  Accepted,  \* the values the verifier exits 0 on
  None

ASSUME AcceptedAssumption == Accepted \subseteq Content
VARIABLES
  state,         \* ChainState
  pending,       \* the proposed product, also when rejected
  verified,      \* the product that passed and is not consumed
  last_consumed, \* the last product consumed
  used,          \* product ids ever proposed
  history,       \* the step records
  call,          \* the verification subject each caller waits for
  runs           \* history: every subject the verifier decided, and how

chain == <<state, pending, verified, last_consumed, used, history>>
vars == <<chain, call, runs>>

ChainState == {"READY", "AWAITING_VERIFICATION", "VERIFIED", "REJECTED",
               "COMPLETE"}

Product == [id : Id, content : Content, step : Nat, parent : Id \cup {None}]

ASSUME NoneAssumption == None \notin Id /\ None \notin Product

Record == [product : Product, outcome : {"PASS", "FAIL"},
           consumed : BOOLEAN, final : BOOLEAN]

Init ==
  /\ state = "READY"
  /\ pending = None
  /\ verified = None
  /\ last_consumed = None
  /\ used = {}
  /\ history = <<>>
  /\ call = [c \in Caller |-> None]
  /\ runs = {}

(* Mutant: the parent is not the one the chain consumed last.              *)
AnyParent(parent) == TRUE

(* The parent must be the very object that was consumed last.              *)
ValidParent(parent) == parent = last_consumed

Propose(i, v, parent) ==
  /\ state = "READY"
  /\ i \notin used
  /\ ValidParent(parent)
  /\ pending' = [id |-> i, content |-> v,
                 step |-> IF parent = None THEN 0 ELSE parent.step + 1,
                 parent |-> IF parent = None THEN None ELSE parent.id]
  /\ verified' = None
  /\ used' = used \cup {i}
  /\ state' = "AWAITING_VERIFICATION"
  /\ UNCHANGED <<last_consumed, history, call, runs>>

-----------------------------------------------------------------------------
(* verify_pending.                                                         *)

(* The subject is fixed and written out for the verifier.                  *)
VerifyPending(c) ==
  /\ call[c] = None
  /\ state = "AWAITING_VERIFICATION"
  /\ call' = [call EXCEPT ![c] = pending]
  /\ UNCHANGED <<chain, runs>>

(* The verifier timed out or could not run: VerificationExecutionError, and*)
(* the product still awaits its verification.                              *)
VerifierFails(c) ==
  /\ call[c] # None
  /\ call' = [call EXCEPT ![c] = None]
  /\ UNCHANGED <<chain, runs>>

Outcome(p) == IF p.content \in Accepted THEN "PASS" ELSE "FAIL"

(* _apply_verification: `pending is self._pending`, and the digest of the  *)
(* subject, which is fixed by the product and the last consumed one.       *)
StillPending(p) == pending = p

(* Mutant: the outcome goes to the product that is pending by now.         *)
Current(c) == pending

(* The product the outcome is applied to.                                  *)
Judged(c) == call[c]

VerifierDecides(c) ==
  /\ call[c] # None
  /\ call' = [call EXCEPT ![c] = None]
  /\ runs' = runs \cup {<<call[c], Outcome(call[c])>>}
  /\ UNCHANGED <<used, last_consumed>>
  /\ LET p == Judged(c)
         outcome == Outcome(call[c]) IN
       \/ /\ StillPending(p)
          /\ outcome = "PASS"
          /\ verified' = p
          /\ pending' = None
          /\ state' = "VERIFIED"
          /\ UNCHANGED history
       \/ /\ StillPending(p)
          /\ outcome = "FAIL"
          /\ history' = Append(history, [product |-> p, outcome |-> "FAIL",
                                         consumed |-> FALSE, final |-> FALSE])
          /\ state' = "REJECTED"
          /\ UNCHANGED <<pending, verified>>
       \/ /\ ~StillPending(p)
          /\ UNCHANGED <<state, pending, verified, history>>

-----------------------------------------------------------------------------
(* consume_verified and finalize; callers name the product by its id.      *)

Consumed(final) ==
  /\ history' = Append(history, [product |-> verified, outcome |-> "PASS",
                                 consumed |-> TRUE, final |-> final])
  /\ last_consumed' = verified
  /\ verified' = None
  /\ UNCHANGED <<pending, used, call, runs>>

ConsumeVerified ==
  /\ state = "VERIFIED"
  /\ Consumed(FALSE)
  /\ state' = "READY"

Finalize ==
  /\ state = "VERIFIED"
  /\ Consumed(TRUE)
  /\ state' = "COMPLETE"

DiscardRejected ==
  /\ state = "REJECTED"
  /\ pending' = None
  /\ state' = "READY"
  /\ UNCHANGED <<verified, last_consumed, used, history, call, runs>>

-----------------------------------------------------------------------------
Consumables == {None} \cup {history[n].product : n \in DOMAIN history}

Next ==
  \/ \E i \in Id, v \in Content, parent \in Consumables : Propose(i, v, parent)
  \/ \E c \in Caller :
       VerifyPending(c) \/ VerifierFails(c) \/ VerifierDecides(c)
  \/ ConsumeVerified
  \/ DiscardRejected
  \/ Finalize

Spec == Init /\ [][Next]_vars

-----------------------------------------------------------------------------
(* Properties.                                                             *)

(* Every variable keeps its type, and the state says which product there   *)
(* is: a proposed one while it awaits verification or stands rejected, a   *)
(* verified one in VERIFIED only.                                          *)
TypeOK ==
  /\ state \in ChainState
  /\ pending \in Product \cup {None}
  /\ verified \in Product \cup {None}
  /\ last_consumed \in Product \cup {None}
  /\ used \subseteq Id
  /\ history \in Seq(Record)
  /\ call \in [Caller -> Product \cup {None}]
  /\ pending # None <=> state \in {"AWAITING_VERIFICATION", "REJECTED"}
  /\ verified # None <=> state = "VERIFIED"

(* A product that can be consumed, or was, is one the verifier passed: the *)
(* very product with its step and parent, not another of the same content  *)
(* or an earlier one; and a rejection stands on a FAIL for it.             *)
EvidenceIsOfTheProduct ==
  /\ verified # None => <<verified, "PASS">> \in runs
  /\ \A n \in DOMAIN history :
       <<history[n].product, history[n].outcome>> \in runs

Records == {history[n] : n \in DOMAIN history}

Line == INSTANCE Lineage WITH
  line <- {q.product : q \in {r \in Records : r.consumed}},
  tip <- last_consumed,
  ended <- \E r \in Records : r.final

(* The chain behaves as one line of accepted products, whoever calls what  *)
(* while a verifier runs and however late its outcome comes: a late outcome*)
(* neither brings a product back nor reopens a completed chain.            *)
ImplementsLineage == Line!Spec
=============================================================================
