---------------------------- MODULE EvidenceBridge ----------------------------
(***************************************************************************)
(* evidence_bridge.py: the execution ledger, which is handed registrations *)
(* and completions next to the dispatch authority (RunLedger) and keeps    *)
(* them in a database of its own, and bridge_closed_evidence, which turns a*)
(* closed run into evaluator evidence when the two agree with each other   *)
(* and with the frozen operator plan.                                      *)
(*                                                                         *)
(* The rows of the ledger are never removed, so the checks of one          *)
(* _record_completion hold together with its insertion: they are one       *)
(* action.  The bridge reads receipts and bindings on two connections:     *)
(* two actions.  The cost reports the bridge is handed, which may make it  *)
(* refuse, are in CreditedBridge.                                          *)
(***************************************************************************)
EXTENDS Naturals, Sequences, FiniteSets

CONSTANTS
  Problem,     \* native problem ids of the plan
  Version,     \* what else the identity of a problem has
  Place,       \* the planned (arm, attempt) pairs of a problem
  Request,     \* the frozen requests that may be registered
  Outcome,     \* typed attempt and verifier evidence, response included
  Bridger,     \* processes that call bridge_closed_evidence
  MaxInstance  \* bound: supervised attempts

(* bound says whether the request names a slot of the plan and the pinned  *)
(* manifest, protocol, benchmark, runtime and budget.                      *)
ASSUME RequestAssumption ==
  Request \subseteq [problem : Problem, version : Version, place : Place,
                     bound : BOOLEAN]

ASSUME BoundAssumption == MaxInstance \in Nat

Plan == Problem \X Place

VARIABLES
  log, answers, fate, sealed,   \* the dispatch authority, see RunLedger
  mode,       \* a NON_CREDIT_DRAFT or a production authority
  contexts,   \* the context receipts the hermetic supervisor signed
  bindings,   \* rows of protocol_dispatch_receipts: the dispatches bound
  receipts,   \* rows of execution_receipts
  instances,  \* rows of hermetic_instance_receipts
  pc,         \* where each bridger stands
  read,       \* the execution receipts each bridger has read
  bundles     \* every EvidenceBridgeBundle issued

run == <<log, answers, fate, sealed>>
tables == <<bindings, receipts, instances>>
bridge == <<pc, read, bundles>>
vars == <<run, mode, contexts, tables, bridge>>

Ledger == INSTANCE RunLedger WITH
            Key        <- Problem \X Version \X Place,
            Signer     <- Nat,
            LogicalKey <- [r \in Request |-> <<r.problem, r.version, r.place>>]

(* The nonce of a draft receipt, which stands on no instance.              *)
NoNonce == 0

Init ==
  /\ Ledger!Init
  /\ mode \in {"DRAFT", "PRODUCTION"}
  /\ contexts = {}
  /\ bindings = {}
  /\ receipts = {}
  /\ instances = {}
  /\ pc = [b \in Bridger |-> "idle"]
  /\ read = [b \in Bridger |-> {}]
  /\ bundles = {}

-----------------------------------------------------------------------------
(* The dispatch authority, the executors and the hermetic supervisor.      *)

RunStep ==
  /\ \/ \E req \in Request : Ledger!Dispatch(req, Len(log))
     \/ \E i \in DOMAIN log, o \in Outcome : Ledger!Answer(i, o)
     \/ Ledger!Seal
     \/ Ledger!Abandon
  /\ UNCHANGED <<mode, contexts, tables, bridge>>

(* run_supervised_attempt for dispatch i, each time with a fresh nonce.  A *)
(* dispatch may be supervised again, when a response was lost.             *)
Supervise(i, o) ==
  /\ mode = "PRODUCTION"
  /\ Cardinality(contexts) < MaxInstance
  /\ contexts' = contexts \cup {[entry |-> log[i], response |-> o,
                                 nonce |-> Cardinality(contexts) + 1]}
  /\ UNCHANGED <<run, mode, tables, bridge>>

-----------------------------------------------------------------------------
(* The execution ledger.                                                   *)

SlotOf(entry) == <<entry.request.problem, entry.request.place>>

(* _register_dispatch.  It is called with a registered dispatch, at any    *)
(* time; the primary key refuses a second binding.                         *)
RegisterDispatch(i) ==
  /\ log[i].request.bound
  /\ log[i] \notin bindings
  /\ bindings' = bindings \cup {log[i]}
  /\ UNCHANGED <<run, mode, contexts, receipts, instances, bridge>>

(* Mutant: the receipt need not be for this response.                      *)
AnyContextOfDispatch(a, c) == c.entry = a.entry

(* _verify_context_receipt: the receipt the supervisor signed for this     *)
(* dispatch, its slot and this response.                                   *)
BindsExecution(a, c) == c.entry = a.entry /\ c.response = a.outcome

(* Mutant: a completion is recorded as often as it comes.                  *)
NoReplayOfInstance(a, nonce) ==
  \A n \in instances : n.nonce # nonce

(* The primary keys and the unique (run_id, sequence) of the two tables.   *)
NoReplay(a, nonce) ==
  /\ \A r \in receipts : r.answer.entry # a.entry
  /\ mode = "PRODUCTION" =>
       \A n \in instances : n.nonce # nonce /\ n.slot # SlotOf(a.entry)

(* Mutant: the rows are committed one by one, and the second may be lost.  *)
InsertOneByOne(a, nonce) ==
  /\ instances' = IF mode = "DRAFT" THEN instances
                  ELSE instances \cup {[nonce |-> nonce,
                                        slot  |-> SlotOf(a.entry)]}
  /\ \/ receipts' = receipts \cup {[answer |-> a, nonce |-> nonce]}
     \/ UNCHANGED receipts

(* Both rows are inserted in one transaction.                              *)
InsertRows(a, nonce) ==
  /\ instances' = IF mode = "DRAFT" THEN instances
                  ELSE instances \cup {[nonce |-> nonce,
                                        slot  |-> SlotOf(a.entry)]}
  /\ receipts' = receipts \cup {[answer |-> a, nonce |-> nonce]}

(* _read_protocol_binding finds the binding of this very registration.     *)
HasBinding(a) == a.entry \in bindings

(* What may be handed to _record_completion, which checks no signature and *)
(* relies on the adapter that calls it: a signed answer, or a body that    *)
(* another key or none has signed.                                         *)
Unsigned(i, o) == [entry |-> log[i], request |-> log[i].request,
                   outcome |-> o, signer |-> log[i].verifier + 1]

Presented == answers \cup {Unsigned(i, o) : i \in DOMAIN log, o \in Outcome}

(* _record_completion.                                                     *)
RecordCompletion(a, nonce) ==
  /\ HasBinding(a)
  /\ IF mode = "DRAFT" THEN nonce = NoNonce
     ELSE \E c \in contexts : c.nonce = nonce /\ BindsExecution(a, c)
  /\ NoReplay(a, nonce)
  /\ InsertRows(a, nonce)
  /\ UNCHANGED <<run, mode, contexts, bindings, bridge>>

-----------------------------------------------------------------------------
(* bridge_closed_evidence.                                                 *)

Joined == {sealed[i] : i \in DOMAIN sealed}

(* verify_closed_join, and _read_receipts of verify_complete_join.         *)
ReadReceipts(b) ==
  /\ pc[b] = "idle"
  /\ fate = "CLOSED"
  /\ read' = [read EXCEPT ![b] = receipts]
  /\ pc' = [pc EXCEPT ![b] = "read"]
  /\ UNCHANGED <<run, mode, contexts, tables, bundles>>

(* Mutant: receipts are matched by their dispatch, whatever they sign.     *)
CoversDispatches(b) ==
  /\ bindings = {a.entry : a \in Joined}
  /\ {r.answer.entry : r \in read[b]} = {a.entry : a \in Joined}

(* verify_complete_join: bindings and receipts cover the join exactly, and *)
(* each receipt signs the joined completion.                               *)
CompleteJoin(b) ==
  /\ bindings = {a.entry : a \in Joined}
  /\ {r.answer.entry : r \in read[b]} = {a.entry : a \in Joined}
  /\ \A r \in read[b] : r.answer \in Joined

(* Mutant: slots are counted, whatever identity fills them.                *)
CoverSlots == {SlotOf(a.entry) : a \in Joined} = Plan

(* Each slot of the plan is joined, none by two completions, and a problem *)
(* has one identity throughout.                                            *)
CoverPlan ==
  /\ \A a \in Joined : a.entry.request.bound
  /\ {SlotOf(a.entry) : a \in Joined} = Plan
  /\ \A a1, a2 \in Joined :
       /\ SlotOf(a1.entry) = SlotOf(a2.entry) => a1 = a2
       /\ a1.entry.request.problem = a2.entry.request.problem =>
            a1.entry.request.version = a2.entry.request.version

Evidence(b) == {[slot |-> SlotOf(r.answer.entry), answer |-> r.answer,
                 nonce |-> r.nonce] : r \in read[b]}

(* The bindings are read, everything is checked, and the bundle is issued. *)
Bridge(b) ==
  /\ pc[b] = "read"
  /\ CompleteJoin(b)
  /\ CoverPlan
  /\ bundles' = bundles \cup {Evidence(b)}
  /\ pc' = [pc EXCEPT ![b] = "idle"]
  /\ read' = [read EXCEPT ![b] = {}]
  /\ UNCHANGED <<run, mode, contexts, tables>>

(* A check fails, a cost report does not fit, or the process dies.         *)
BridgeRaises(b) ==
  /\ pc[b] = "read"
  /\ pc' = [pc EXCEPT ![b] = "idle"]
  /\ read' = [read EXCEPT ![b] = {}]
  /\ UNCHANGED <<run, mode, contexts, tables, bundles>>

-----------------------------------------------------------------------------
(* Every step but the issue of a bundle.                                   *)
OtherStep ==
  \/ RunStep
  \/ \E i \in DOMAIN log : RegisterDispatch(i)
  \/ \E i \in DOMAIN log, o \in Outcome : Supervise(i, o)
  \/ \E a \in Presented, nonce \in 0 .. MaxInstance : RecordCompletion(a, nonce)
  \/ \E b \in Bridger : ReadReceipts(b) \/ BridgeRaises(b)

Next == OtherStep \/ \E b \in Bridger : Bridge(b)

Spec == Init /\ [][Next]_vars

-----------------------------------------------------------------------------
(* Properties.                                                             *)

Entry == [sequence : Nat, request : Request, verifier : Nat]

Answer == [entry : Entry, request : Request, outcome : Outcome, signer : Nat]

Record == [slot : Plan, answer : Answer, nonce : Nat]

(* Tables and bundles keep their types; bindings are of this run and       *)
(* receipts of what was bound; a bridger has read rows.                    *)
TypeOK ==
  /\ mode \in {"DRAFT", "PRODUCTION"}
  /\ answers \subseteq Answer
  /\ contexts \subseteq [entry : Entry, response : Outcome,
                         nonce : 1 .. MaxInstance]
  /\ bindings \subseteq {log[i] : i \in DOMAIN log}
  /\ \A r \in receipts : r.answer.entry \in bindings
  /\ instances \subseteq [nonce : 1 .. MaxInstance, slot : Plan]
  /\ pc \in [Bridger -> {"idle", "read"}]
  /\ \A b \in Bridger : read[b] \subseteq receipts
  /\ bundles \subseteq SUBSET Record

(* A bundle credits the frozen plan and nothing else: each slot once, with *)
(* the completion the closed run has for it, bound and receipted, and each *)
(* problem with one identity.                                              *)
BundleIsBacked ==
  \A bundle \in bundles :
    /\ fate = "CLOSED"
    /\ {r.answer : r \in bundle} = Joined
    /\ {r.slot : r \in bundle} = Plan
    /\ \A r \in bundle :
         /\ r.slot = SlotOf(r.answer.entry)
         /\ r.answer.entry \in bindings
         /\ [answer |-> r.answer, nonce |-> r.nonce] \in receipts
    /\ \A r1, r2 \in bundle :
         /\ r1.slot = r2.slot => r1 = r2
         /\ r1.slot[1] = r2.slot[1] =>
              r1.answer.entry.request.version = r2.answer.entry.request.version

(* A receipt of a production run stands on a hermetic instance of its own, *)
(* supervised for that dispatch and with that very response; no instance   *)
(* is used up without its receipt, whoever dies when.                      *)
InstanceOfItsOwn ==
  mode = "PRODUCTION" =>
    /\ \A r \in receipts : \E c \in contexts :
         /\ c.nonce = r.nonce
         /\ c.entry = r.answer.entry
         /\ c.response = r.answer.outcome
    /\ \A r1, r2 \in receipts : r1.nonce = r2.nonce => r1 = r2
    /\ instances = {[nonce |-> r.nonce, slot |-> SlotOf(r.answer.entry)] :
                    r \in receipts}

(* Once a bundle is issued the evidence under it never changes, and every  *)
(* later bundle says the same.                                             *)
BridgedIsFinal ==
  [][bundles # {} => /\ bundles' = bundles
                     /\ UNCHANGED tables]_vars

(* The error text of _record_completion calls the binding a pre-dispatch   *)
(* one: it is made before the dispatch has been answered.                  *)
BoundBeforeAnswered ==
  [][\A entry \in bindings' \ bindings : \A a \in answers :
       a.entry # entry]_vars
=============================================================================
