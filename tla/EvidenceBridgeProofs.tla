-------------------------- MODULE EvidenceBridgeProofs --------------------------
(***************************************************************************)
(* Proofs about EvidenceBridge, for any plan, requests, outcomes, bridgers *)
(* and number of instances.                                                *)
(*                                                                         *)
(* The run's log is frozen when it closes.  Each of its dispatches has one *)
(* answer, and each dispatch at most one binding and one receipt.  So when *)
(* a bridger finds the join covered there is nothing left to bind or to    *)
(* record, and what it has read is all there will ever be.                 *)
(*                                                                         *)
(* What a cell is credited with is the fold of a list a caller put in some *)
(* order.  As an accepted list holds one event of each kind for each       *)
(* answer, with the amounts signed, fold and sum are both a number of      *)
(* units: one for each token or millisecond of each term.                  *)
(***************************************************************************)
EXTENDS CreditedBridge, FiniteSetTheorems, FunctionTheorems,
        WellFoundedInduction, TLAPS

-----------------------------------------------------------------------------
(* The inductive invariant.                                                *)

(* The run: what the bridge needs of the dispatch authority.               *)
RunInv ==
  /\ log \in Seq(Entry)
  /\ fate \in {"OPEN", "CLOSED", "ABORTED"}
  /\ \A i \in DOMAIN log : log[i].verifier = i - 1
  /\ \A a \in answers :
       /\ \E i \in DOMAIN log : a.entry = log[i]
       /\ a.signer = a.entry.verifier
  /\ \A a1, a2 \in answers : a1.entry = a2.entry => a1 = a2
  /\ fate = "CLOSED" =>
       /\ DOMAIN sealed = DOMAIN log
       /\ \A i \in DOMAIN log : sealed[i] \in answers /\ sealed[i].entry = log[i]

(* At most one receipt for each dispatch.                                  *)
OneReceipt ==
  \A r1, r2 \in receipts : r1.answer.entry = r2.answer.entry => r1 = r2

(* Receipts are pairs of an answer and a nonce.                            *)
ReceiptsTyped == receipts \subseteq [answer : Answer, nonce : Nat]

(* A bridger that has read receipts, read them from a closed run.          *)
ReadersInv == \A b \in Bridger : pc[b] = "read" => fate = "CLOSED"

AllEvidence == {[slot |-> SlotOf(r.answer.entry), answer |-> r.answer,
                 nonce |-> r.nonce] : r \in receipts}

(* A bundle is the whole ledger, and the ledger covers the run.            *)
BundlesInv ==
  bundles # {} => /\ bundles = {AllEvidence}
                  /\ {r.answer : r \in receipts} = Joined

IInv ==
  /\ TypeOK
  /\ IsFiniteSet(contexts)
  /\ RunInv
  /\ ReceiptsTyped
  /\ OneReceipt
  /\ InstanceOfItsOwn
  /\ ReadersInv
  /\ BundleIsBacked
  /\ BundlesInv

-----------------------------------------------------------------------------
(* Nothing is registered, recorded or bridged.                             *)
LEMMA InitIInv == Init => IInv
<1> SUFFICES ASSUME Init PROVE IInv
  OBVIOUS
<1> USE DEF Init, Ledger!Init
<1>1. IsFiniteSet(contexts)
  BY FS_EmptySet
<1>2. TypeOK
  BY DEF TypeOK
<1>3. RunInv
  BY DEF RunInv
<1>4. ReceiptsTyped /\ OneReceipt /\ InstanceOfItsOwn
  BY DEF ReceiptsTyped, OneReceipt, InstanceOfItsOwn
<1>5. ReadersInv /\ BundleIsBacked /\ BundlesInv
  BY DEF ReadersInv, BundleIsBacked, BundlesInv
<1> QED
  BY <1>1, <1>2, <1>3, <1>4, <1>5 DEF IInv

(* What a planned request's slot is.                                       *)
LEMMA SlotTyped ==
  ASSUME NEW entry \in Entry
  PROVE  SlotOf(entry) \in Plan
  BY RequestAssumption DEF Entry, SlotOf, Plan

(* Entries of the log are entries.                                         *)
LEMMA LogTyped ==
  ASSUME RunInv
  PROVE  /\ Len(log) \in Nat
         /\ DOMAIN log = 1 .. Len(log)
         /\ \A i \in DOMAIN log : log[i] \in Entry
  BY DEF RunInv

-----------------------------------------------------------------------------
(* The steps of the run.                                                   *)

(* A registration appends an entry that no answer names.                   *)
LEMMA DispatchRun ==
  ASSUME RunInv, NEW req \in Request, Ledger!Dispatch(req, Len(log)),
         answers \subseteq Answer
  PROVE  /\ RunInv'
         /\ {log[i] : i \in DOMAIN log} \subseteq {log'[i] : i \in DOMAIN log'}
         /\ fate = "OPEN" /\ fate' = "OPEN"
         /\ answers' = answers /\ sealed' = sealed
<1>1. /\ Len(log) \in Nat
      /\ DOMAIN log = 1 .. Len(log)
      /\ \A i \in DOMAIN log : log[i] \in Entry
  BY LogTyped
<1> DEFINE new == [sequence |-> Len(log), request |-> req, verifier |-> Len(log)]
<1>2. new \in Entry
  BY <1>1 DEF Entry
<1>3. /\ log' = Append(log, new)
      /\ fate = "OPEN" /\ fate' = "OPEN"
      /\ answers' = answers /\ sealed' = sealed
  BY DEF Ledger!Dispatch
<1>4. log \in Seq(Entry)
  BY DEF RunInv
<1>5. /\ log' \in Seq(Entry)
      /\ DOMAIN log' = 1 .. Len(log) + 1
      /\ \A i \in 1 .. Len(log) : log'[i] = log[i]
      /\ log'[Len(log) + 1] = new
  BY <1>1, <1>2, <1>3, <1>4
<1>6. \A i \in DOMAIN log' : log'[i].verifier = i - 1
  <2> SUFFICES ASSUME NEW i \in DOMAIN log' PROVE log'[i].verifier = i - 1
    OBVIOUS
  <2>1. CASE i \in 1 .. Len(log)
    BY <2>1, <1>1, <1>5 DEF RunInv
  <2>2. CASE i = Len(log) + 1
    BY <2>2, <1>1, <1>5
  <2> QED
    BY <2>1, <2>2, <1>1, <1>5
<1>7. {log[i] : i \in DOMAIN log} \subseteq {log'[i] : i \in DOMAIN log'}
  BY <1>1, <1>5
<1>8. \A a \in answers : \E i \in DOMAIN log' : a.entry = log'[i]
  BY <1>1, <1>5 DEF RunInv
<1> QED
  BY <1>3, <1>5, <1>6, <1>7, <1>8 DEF RunInv

(* An answer is the only one of its dispatch.                              *)
LEMMA AnswerRun ==
  ASSUME RunInv, NEW i \in DOMAIN log, NEW o \in Outcome, Ledger!Answer(i, o),
         answers \subseteq Answer
  PROVE  /\ RunInv'
         /\ answers' \subseteq Answer
         /\ answers \subseteq answers'
         /\ log' = log /\ fate' = fate /\ sealed' = sealed
<1> DEFINE new == [entry |-> log[i], request |-> log[i].request, outcome |-> o,
                   signer |-> log[i].verifier]
<1>1. /\ answers' = answers \cup {new}
      /\ log' = log /\ fate' = fate /\ sealed' = sealed
      /\ \A a \in answers : a.signer # log[i].verifier
  BY DEF Ledger!Answer
<1>2. new \in Answer
  BY LogTyped DEF Answer, Entry
<1>3. \A a \in answers : a.entry # log[i]
  BY <1>1 DEF RunInv
<1>4. new.entry = log[i] /\ new.signer = new.entry.verifier
  OBVIOUS
<1>5. \A a1, a2 \in answers' : a1.entry = a2.entry => a1 = a2
  <2> SUFFICES ASSUME NEW a1 \in answers', NEW a2 \in answers',
                      a1.entry = a2.entry
               PROVE  a1 = a2
    OBVIOUS
  <2>1. CASE a1 \in answers /\ a2 \in answers
    BY <2>1 DEF RunInv
  <2>2. CASE a1 = new
    BY <2>2, <1>1, <1>3, <1>4
  <2>3. CASE a2 = new
    BY <2>3, <1>1, <1>3, <1>4
  <2> QED
    BY <1>1, <2>1, <2>2, <2>3
<1>6. \A a \in answers' : /\ \E j \in DOMAIN log : a.entry = log[j]
                          /\ a.signer = a.entry.verifier
  BY <1>1, <1>4 DEF RunInv
<1>7. fate = "CLOSED" =>
        /\ DOMAIN sealed = DOMAIN log
        /\ \A j \in DOMAIN log : sealed[j] \in answers' /\ sealed[j].entry = log[j]
  BY <1>1 DEF RunInv
<1> QED
  BY <1>1, <1>2, <1>5, <1>6, <1>7 DEF RunInv

(* A close seals one answer for each dispatch.                             *)
LEMMA SealRun ==
  ASSUME RunInv, Ledger!Seal
  PROVE  /\ RunInv'
         /\ fate = "OPEN"
         /\ log' = log /\ answers' = answers
<1>1. /\ log' = log /\ answers' = answers
      /\ fate = "OPEN" /\ fate' = "CLOSED"
  BY DEF Ledger!Seal
<1>2. PICK chosen \in [1 .. Len(log) -> answers] :
        /\ \A i \in DOMAIN log : chosen[i].entry = log[i]
        /\ sealed' = chosen
  BY DEF Ledger!Seal
<1>3. /\ DOMAIN sealed' = DOMAIN log
      /\ \A i \in DOMAIN log : sealed'[i] \in answers /\ sealed'[i].entry = log[i]
  BY <1>2, LogTyped
<1> QED
  BY <1>1, <1>3 DEF RunInv

(* A run that ends leaves no bundle behind: there was none.                *)
LEMMA NoBundleWhileOpen ==
  ASSUME BundleIsBacked, fate # "CLOSED"
  PROVE  bundles = {}
  BY DEF BundleIsBacked

(* The ledger and the bundles do not depend on the open run.               *)
LEMMA RunStepIInv == IInv /\ RunStep => IInv'
<1> SUFFICES ASSUME IInv, RunStep PROVE IInv'
  OBVIOUS
<1>0. UNCHANGED <<mode, contexts, tables, bridge>>
  BY DEF RunStep
<1> USE <1>0 DEF tables, bridge
<1>1. /\ RunInv'
      /\ answers' \subseteq Answer
      /\ answers \subseteq answers'
      /\ {log[i] : i \in DOMAIN log} \subseteq {log'[i] : i \in DOMAIN log'}
      /\ fate = "CLOSED" => fate' = "CLOSED" /\ sealed' = sealed
  <2>0. RunInv /\ answers \subseteq Answer
    BY DEF IInv, TypeOK
  <2>1. CASE \E req \in Request : Ledger!Dispatch(req, Len(log))
    BY <2>0, <2>1, DispatchRun
  <2>2. CASE \E i \in DOMAIN log, o \in Outcome : Ledger!Answer(i, o)
    BY <2>0, <2>2, AnswerRun
  <2>3. CASE Ledger!Seal
    BY <2>0, <2>3, SealRun
  <2>4. CASE Ledger!Abandon
    BY <2>0, <2>4 DEF Ledger!Abandon, RunInv
  <2> QED
    BY <2>1, <2>2, <2>3, <2>4 DEF RunStep
<1>2. TypeOK'
  BY <1>1 DEF IInv, TypeOK
<1>3. IsFiniteSet(contexts)' /\ ReceiptsTyped' /\ OneReceipt'
  BY DEF IInv, ReceiptsTyped, OneReceipt
<1>4. InstanceOfItsOwn'
  BY DEF IInv, InstanceOfItsOwn, SlotOf
<1>5. ReadersInv'
  BY <1>1 DEF IInv, ReadersInv
<1>6. BundleIsBacked' /\ BundlesInv'
  <2>1. CASE bundles = {}
    BY <2>1 DEF BundleIsBacked, BundlesInv
  <2>2. CASE bundles # {}
    <3>1. fate = "CLOSED"
      BY <2>2 DEF IInv, BundleIsBacked
    <3>2. sealed' = sealed /\ fate' = fate /\ Joined' = Joined
      BY <3>1, <1>1 DEF Joined
    <3> QED
      BY <3>2 DEF IInv, BundleIsBacked, BundlesInv, AllEvidence, SlotOf
  <2> QED
    BY <2>1, <2>2
<1> QED
  BY <1>1, <1>2, <1>3, <1>4, <1>5, <1>6 DEF IInv

-----------------------------------------------------------------------------
(* The steps of the ledger and of the supervisor.                          *)

(* What a bundle says does not change while what it is made of stays.      *)
LEMMA SameEvidence ==
  ASSUME IInv, UNCHANGED <<bundles, sealed, fate, bindings, receipts>>
  PROVE  BundleIsBacked' /\ BundlesInv'
<1>1. Joined' = Joined
  BY DEF Joined
<1>2. AllEvidence' = AllEvidence
  BY DEF AllEvidence, SlotOf
<1>3. BundleIsBacked'
  BY <1>1 DEF IInv, BundleIsBacked, SlotOf
<1>4. BundlesInv'
  BY <1>1, <1>2 DEF IInv, BundlesInv
<1> QED
  BY <1>3, <1>4

(* A new context receipt disturbs nothing.                                 *)
LEMMA SuperviseIInv ==
  ASSUME IInv, NEW i \in DOMAIN log, NEW o \in Outcome, Supervise(i, o)
  PROVE  IInv'
<1> DEFINE new == [entry |-> log[i], response |-> o,
                   nonce |-> Cardinality(contexts) + 1]
<1>1. /\ contexts' = contexts \cup {new}
      /\ Cardinality(contexts) < MaxInstance
      /\ UNCHANGED <<run, mode, tables, bridge>>
  BY DEF Supervise
<1> USE <1>1 DEF run, tables, bridge
<1>2. IsFiniteSet(contexts')
  BY FS_AddElement DEF IInv
<1>3. new.nonce \in 1 .. MaxInstance
  <2>1. Cardinality(contexts) \in Nat
    BY FS_CardinalityType DEF IInv
  <2> QED
    BY <2>1, BoundAssumption
<1>4. log[i] \in Entry
  BY LogTyped DEF IInv
<1>5. TypeOK'
  BY <1>3, <1>4 DEF IInv, TypeOK
<1>6. InstanceOfItsOwn'
  BY DEF IInv, InstanceOfItsOwn, SlotOf
<1>7. RunInv' /\ ReceiptsTyped' /\ OneReceipt' /\ ReadersInv'
  BY DEF IInv, RunInv, ReceiptsTyped, OneReceipt, ReadersInv
<1>8. BundleIsBacked' /\ BundlesInv'
  BY SameEvidence
<1> QED
  BY <1>2, <1>5, <1>6, <1>7, <1>8 DEF IInv

(* Under a bundle every dispatch of the run is bound and has its receipt.  *)
LEMMA NothingLeft ==
  ASSUME IInv, bundles # {}
  PROVE  /\ \A i \in DOMAIN log : log[i] \in bindings
         /\ \A i \in DOMAIN log : \E r \in receipts : r.answer.entry = log[i]
<1>1. PICK bundle \in bundles : TRUE
  OBVIOUS
<1>2. /\ fate = "CLOSED"
      /\ {r.answer : r \in bundle} = Joined
      /\ \A r \in bundle :
           /\ r.answer.entry \in bindings
           /\ [answer |-> r.answer, nonce |-> r.nonce] \in receipts
  BY <1>1 DEF IInv, BundleIsBacked
<1>3. ASSUME NEW i \in DOMAIN log
      PROVE  \E r \in bundle : r.answer.entry = log[i]
  <2>1. sealed[i] \in Joined /\ sealed[i].entry = log[i]
    BY <1>2 DEF IInv, RunInv, Joined
  <2> QED
    BY <1>2, <2>1
<1>4. \A i \in DOMAIN log : log[i] \in bindings
  BY <1>2, <1>3
<1>5. ASSUME NEW i \in DOMAIN log
      PROVE  \E r \in receipts : r.answer.entry = log[i]
  <2>1. PICK r \in bundle : r.answer.entry = log[i]
    BY <1>3
  <2> QED
    BY <1>2, <2>1
<1> QED
  BY <1>4, <1>5

(* A binding is added, and none when there is a bundle.                    *)
LEMMA RegisterDispatchIInv ==
  ASSUME IInv, NEW i \in DOMAIN log, RegisterDispatch(i)
  PROVE  IInv' /\ bundles = {}
<1>1. /\ bindings' = bindings \cup {log[i]}
      /\ log[i] \notin bindings
      /\ UNCHANGED <<run, mode, contexts, receipts, instances, bridge>>
  BY DEF RegisterDispatch
<1> USE <1>1 DEF run, bridge
<1>2. bundles = {}
  BY NothingLeft
<1>3. TypeOK'
  BY DEF IInv, TypeOK
<1>4. RunInv' /\ ReceiptsTyped' /\ OneReceipt' /\ ReadersInv'
  BY DEF IInv, RunInv, ReceiptsTyped, OneReceipt, ReadersInv
<1>5. InstanceOfItsOwn'
  BY DEF IInv, InstanceOfItsOwn, SlotOf
<1>6. BundleIsBacked' /\ BundlesInv'
  BY <1>2 DEF BundleIsBacked, BundlesInv
<1> QED
  BY <1>2, <1>3, <1>4, <1>5, <1>6 DEF IInv

(* What may be recorded is a completion of some dispatch of the log.       *)
LEMMA PresentedTyped ==
  ASSUME IInv, NEW a \in Presented
  PROVE  a \in Answer /\ \E i \in DOMAIN log : a.entry = log[i]
<1>1. CASE a \in answers
  BY <1>1 DEF IInv, TypeOK, RunInv
<1>2. ASSUME NEW i \in DOMAIN log, NEW o \in Outcome, a = Unsigned(i, o)
      PROVE  a \in Answer /\ a.entry = log[i]
  <2>1. log[i] \in Entry
    BY LogTyped DEF IInv
  <2>2. /\ log[i].request \in Request
        /\ log[i].verifier + 1 \in Nat
    BY <2>1 DEF Entry
  <2> QED
    BY <1>2, <2>1, <2>2 DEF Unsigned, Answer
<1> QED
  BY <1>1, <1>2 DEF Presented

(* A receipt and, in production, its instance are added together.          *)
LEMMA RecordCompletionIInv ==
  ASSUME IInv, NEW a \in Presented, NEW nonce \in 0 .. MaxInstance,
         RecordCompletion(a, nonce)
  PROVE  IInv' /\ bundles = {}
<1> DEFINE row == [answer |-> a, nonce |-> nonce]
           slot == SlotOf(a.entry)
<1>1. /\ receipts' = receipts \cup {row}
      /\ instances' = IF mode = "DRAFT" THEN instances
                      ELSE instances \cup {[nonce |-> nonce, slot |-> slot]}
      /\ a.entry \in bindings
      /\ \A r \in receipts : r.answer.entry # a.entry
      /\ mode = "PRODUCTION" =>
           \A n \in instances : n.nonce # nonce /\ n.slot # slot
      /\ UNCHANGED <<run, mode, contexts, bindings, bridge>>
  BY DEF RecordCompletion, HasBinding, NoReplay, InsertRows
<1> USE <1>1 DEF run, bridge
<1>2. bundles = {}
  BY PresentedTyped, NothingLeft
<1>3. a \in Answer /\ a.entry \in Entry
  BY PresentedTyped DEF Answer
<1>4. mode # "DRAFT" =>
        \E c \in contexts : /\ c.nonce = nonce
                            /\ c.entry = a.entry
                            /\ c.response = a.outcome
  BY DEF RecordCompletion, BindsExecution
<1>5. mode # "DRAFT" => nonce \in 1 .. MaxInstance
  BY <1>4 DEF IInv, TypeOK
<1>6. TypeOK'
  <2>1. instances' \subseteq [nonce : 1 .. MaxInstance, slot : Plan]
    BY <1>3, <1>5, SlotTyped DEF IInv, TypeOK
  <2>2. \A r \in receipts' : r.answer.entry \in bindings
    BY DEF IInv, TypeOK
  <2>3. \A b \in Bridger : read[b] \subseteq receipts'
    BY DEF IInv, TypeOK
  <2> QED
    BY <2>1, <2>2, <2>3 DEF IInv, TypeOK
<1>7. ReceiptsTyped'
  BY <1>3, BoundAssumption DEF IInv, ReceiptsTyped
<1>8. OneReceipt'
  BY DEF IInv, OneReceipt
<1>9. InstanceOfItsOwn'
  <2> SUFFICES ASSUME mode = "PRODUCTION" PROVE InstanceOfItsOwn'
    BY DEF InstanceOfItsOwn
  <2> DEFINE Inst(r) == [nonce |-> r.nonce, slot |-> SlotOf(r.answer.entry)]
  <2>1. /\ instances = {Inst(r) : r \in receipts}
        /\ \A r1, r2 \in receipts : r1.nonce = r2.nonce => r1 = r2
        /\ \A r \in receipts : \E c \in contexts : /\ c.nonce = r.nonce
                                                   /\ c.entry = r.answer.entry
                                                   /\ c.response = r.answer.outcome
    BY DEF IInv, InstanceOfItsOwn
  <2>2. \A r \in receipts : r.nonce # nonce
    <3> SUFFICES ASSUME NEW r \in receipts PROVE r.nonce # nonce
      OBVIOUS
    <3>1. Inst(r) \in instances
      BY <2>1
    <3>2. Inst(r).nonce # nonce
      BY <3>1
    <3> QED
      BY <3>2
  <2>3. Inst(row) = [nonce |-> nonce, slot |-> slot]
    OBVIOUS
  <2>4. instances' = {Inst(r) : r \in receipts'}
    <3>1. instances' = {Inst(r) : r \in receipts} \cup {Inst(row)}
      BY <2>1, <2>3
    <3> HIDE DEF Inst
    <3> QED
      BY <3>1
  <2>5. \A r1, r2 \in receipts' : r1.nonce = r2.nonce => r1 = r2
    BY <2>1, <2>2
  <2>6. \A r \in receipts' : \E c \in contexts : /\ c.nonce = r.nonce
                                                 /\ c.entry = r.answer.entry
                                                 /\ c.response = r.answer.outcome
    BY <2>1, <1>4
  <2> QED
    BY <2>4, <2>5, <2>6 DEF InstanceOfItsOwn, SlotOf
<1>10. RunInv' /\ ReadersInv' /\ IsFiniteSet(contexts)'
  BY DEF IInv, RunInv, ReadersInv
<1>11. BundleIsBacked' /\ BundlesInv'
  BY <1>2 DEF BundleIsBacked, BundlesInv
<1> QED
  BY <1>2, <1>6, <1>7, <1>8, <1>9, <1>10, <1>11 DEF IInv

-----------------------------------------------------------------------------
(* The steps of a bridger.                                                 *)

(* Reading changes nothing but what was read.                              *)
LEMMA ReadReceiptsIInv ==
  ASSUME IInv, NEW b \in Bridger, ReadReceipts(b)
  PROVE  IInv'
<1>1. /\ read' = [read EXCEPT ![b] = receipts]
      /\ pc' = [pc EXCEPT ![b] = "read"]
      /\ fate = "CLOSED"
      /\ UNCHANGED <<run, mode, contexts, tables, bundles>>
  BY DEF ReadReceipts
<1> USE <1>1 DEF run, tables
<1>2. DOMAIN read' = DOMAIN read /\ \A c \in Bridger : read'[c] \subseteq receipts
  BY DEF IInv, TypeOK
<1>3. TypeOK'
  BY <1>2 DEF IInv, TypeOK
<1>4. ReadersInv'
  BY DEF IInv, ReadersInv, TypeOK
<1>5. RunInv' /\ ReceiptsTyped' /\ OneReceipt' /\ InstanceOfItsOwn'
  BY DEF IInv, RunInv, ReceiptsTyped, OneReceipt, InstanceOfItsOwn, SlotOf
<1>6. BundleIsBacked' /\ BundlesInv'
  BY SameEvidence
<1> QED
  BY <1>3, <1>4, <1>5, <1>6 DEF IInv

(* A bridger that gives up.                                                *)
LEMMA BridgeRaisesIInv ==
  ASSUME IInv, NEW b \in Bridger, BridgeRaises(b)
  PROVE  IInv'
<1>1. /\ read' = [read EXCEPT ![b] = {}]
      /\ pc' = [pc EXCEPT ![b] = "idle"]
      /\ UNCHANGED <<run, mode, contexts, tables, bundles>>
  BY DEF BridgeRaises
<1> USE <1>1 DEF run, tables
<1>2. \A c \in Bridger : read'[c] \subseteq receipts
  BY DEF IInv, TypeOK
<1>3. TypeOK'
  BY <1>2 DEF IInv, TypeOK
<1>4. ReadersInv'
  BY DEF IInv, ReadersInv, TypeOK
<1>5. RunInv' /\ ReceiptsTyped' /\ OneReceipt' /\ InstanceOfItsOwn'
  BY DEF IInv, RunInv, ReceiptsTyped, OneReceipt, InstanceOfItsOwn, SlotOf
<1>6. BundleIsBacked' /\ BundlesInv'
  BY SameEvidence
<1> QED
  BY <1>3, <1>4, <1>5, <1>6 DEF IInv

(* What a covered join means: the bridger has read every receipt.          *)
LEMMA CoveredIsAll ==
  ASSUME IInv, NEW b \in Bridger, pc[b] = "read", CompleteJoin(b)
  PROVE  /\ fate = "CLOSED"
         /\ read[b] = receipts
         /\ {r.answer : r \in receipts} = Joined
         /\ Joined \subseteq answers
<1>1. fate = "CLOSED"
  BY DEF IInv, ReadersInv
<1>2. /\ DOMAIN sealed = DOMAIN log
      /\ \A i \in DOMAIN log : sealed[i] \in answers /\ sealed[i].entry = log[i]
  BY <1>1 DEF IInv, RunInv
<1>3. Joined \subseteq answers
  BY <1>2 DEF Joined
<1>4. /\ {r.answer.entry : r \in read[b]} = {a.entry : a \in Joined}
      /\ \A r \in read[b] : r.answer \in Joined
      /\ read[b] \subseteq receipts
  BY DEF CompleteJoin, IInv, TypeOK
<1>5. ASSUME NEW r \in receipts PROVE r \in read[b]
  <2>1. PICK i \in DOMAIN log : r.answer.entry = log[i]
    BY DEF IInv, TypeOK, RunInv
  <2>2. r.answer.entry \in {a.entry : a \in Joined}
    BY <1>2, <2>1 DEF Joined
  <2>3. PICK q \in read[b] : q.answer.entry = r.answer.entry
    BY <1>4, <2>2
  <2>4. q = r
    BY <1>4, <2>3 DEF IInv, OneReceipt
  <2> QED
    BY <2>4
<1>6. read[b] = receipts
  BY <1>4, <1>5
<1>7. ASSUME NEW a \in Joined PROVE \E r \in receipts : r.answer = a
  <2>1. PICK r \in read[b] : r.answer.entry = a.entry
    BY <1>4
  <2>2. r.answer \in answers /\ a \in answers
    BY <1>3, <1>4
  <2>3. r.answer = a
    BY <2>1, <2>2 DEF IInv, RunInv
  <2> QED
    BY <1>4, <2>1, <2>3
<1> QED
  BY <1>1, <1>3, <1>4, <1>6, <1>7

(* A bundle is the whole ledger, over the whole plan.                      *)
LEMMA BridgeIInv ==
  ASSUME IInv, NEW b \in Bridger, Bridge(b)
  PROVE  IInv' /\ bundles' = {AllEvidence}
<1>1. /\ pc[b] = "read" /\ CompleteJoin(b) /\ CoverPlan
      /\ bundles' = bundles \cup {Evidence(b)}
      /\ read' = [read EXCEPT ![b] = {}]
      /\ pc' = [pc EXCEPT ![b] = "idle"]
      /\ UNCHANGED <<run, mode, contexts, tables>>
  BY DEF Bridge
<1> USE <1>1 DEF run, tables
<1>2. /\ fate = "CLOSED"
      /\ read[b] = receipts
      /\ {r.answer : r \in receipts} = Joined
      /\ Joined \subseteq answers
  BY CoveredIsAll
<1>3. bundles' = {AllEvidence}
  <2>1. Evidence(b) = AllEvidence
    BY <1>2 DEF Evidence, AllEvidence
  <2>2. bundles = {} \/ bundles = {AllEvidence}
    BY DEF IInv, BundlesInv
  <2> QED
    BY <2>1, <2>2
<1> DEFINE Ev(r) == [slot |-> SlotOf(r.answer.entry), answer |-> r.answer,
                     nonce |-> r.nonce]
<1>4. AllEvidence = {Ev(r) : r \in receipts}
  BY DEF AllEvidence
<1>5. AllEvidence \in SUBSET Record
  <2> SUFFICES ASSUME NEW r \in receipts PROVE Ev(r) \in Record
    BY <1>4
  <2>1. r.answer \in Answer /\ r.nonce \in Nat
    BY DEF IInv, ReceiptsTyped
  <2>2. r.answer.entry \in Entry
    BY <2>1 DEF Answer
  <2>3. SlotOf(r.answer.entry) \in Plan
    BY <2>2, SlotTyped
  <2> QED
    BY <2>1, <2>3 DEF Record
<1>6. \A c \in Bridger : read'[c] \subseteq receipts
  BY DEF IInv, TypeOK
<1>7. TypeOK'
  BY <1>3, <1>5, <1>6 DEF IInv, TypeOK
<1>8. {e.answer : e \in AllEvidence} = Joined
  <2>1. ASSUME NEW e \in AllEvidence PROVE e.answer \in Joined
    BY <1>2, <1>4
  <2>2. ASSUME NEW a \in Joined PROVE \E e \in AllEvidence : e.answer = a
    <3>1. PICK r \in receipts : r.answer = a
      BY <1>2
    <3>2. Ev(r) \in AllEvidence /\ Ev(r).answer = a
      BY <1>4, <3>1
    <3> QED
      BY <3>2
  <2> QED
    BY <2>1, <2>2
<1>9. \A e \in AllEvidence :
        /\ e.slot = SlotOf(e.answer.entry)
        /\ e.answer.entry \in bindings
        /\ [answer |-> e.answer, nonce |-> e.nonce] \in receipts
  <2> SUFFICES ASSUME NEW e \in AllEvidence
               PROVE  /\ e.slot = SlotOf(e.answer.entry)
                      /\ e.answer.entry \in bindings
                      /\ [answer |-> e.answer, nonce |-> e.nonce] \in receipts
    OBVIOUS
  <2>1. PICK r \in receipts : e = Ev(r)
    BY <1>4
  <2>2. r = [answer |-> r.answer, nonce |-> r.nonce]
    BY DEF IInv, ReceiptsTyped
  <2>3. r.answer.entry \in bindings
    BY DEF IInv, TypeOK
  <2> QED
    BY <2>1, <2>2, <2>3
<1>10. {e.slot : e \in AllEvidence} = Plan
  <2>1. {SlotOf(a.entry) : a \in Joined} = Plan
    BY <1>1 DEF CoverPlan
  <2>2. ASSUME NEW e \in AllEvidence PROVE e.slot \in Plan
    <3>1. e.slot = SlotOf(e.answer.entry) /\ e.answer \in Joined
      BY <1>8, <1>9
    <3> QED
      BY <2>1, <3>1
  <2>3. ASSUME NEW slot \in Plan PROVE \E e \in AllEvidence : e.slot = slot
    <3>1. PICK a \in Joined : SlotOf(a.entry) = slot
      BY <2>1
    <3>2. PICK e \in AllEvidence : e.answer = a
      BY <1>8
    <3> QED
      BY <1>9, <3>1, <3>2
  <2> QED
    BY <2>2, <2>3
<1>11. ASSUME NEW e1 \in AllEvidence, NEW e2 \in AllEvidence
       PROVE  /\ e1.slot = e2.slot => e1 = e2
              /\ e1.slot[1] = e2.slot[1] =>
                   e1.answer.entry.request.version = e2.answer.entry.request.version
  <2>1. PICK r1 \in receipts : e1 = Ev(r1)
    BY <1>4
  <2>2. PICK r2 \in receipts : e2 = Ev(r2)
    BY <1>4
  <2>3. r1.answer \in Joined /\ r2.answer \in Joined
    BY <1>2
  <2>4. e1.slot = e2.slot => r1.answer = r2.answer
    BY <1>1, <2>1, <2>2, <2>3 DEF CoverPlan
  <2>5. r1.answer = r2.answer => r1 = r2
    BY DEF IInv, OneReceipt
  <2>6. /\ e1.slot[1] = r1.answer.entry.request.problem
        /\ e2.slot[1] = r2.answer.entry.request.problem
    BY <2>1, <2>2 DEF SlotOf
  <2>7. r1.answer.entry.request.problem = r2.answer.entry.request.problem =>
          r1.answer.entry.request.version = r2.answer.entry.request.version
    BY <1>1, <2>3 DEF CoverPlan
  <2> QED
    BY <2>1, <2>2, <2>4, <2>5, <2>6, <2>7
<1>a. Joined' = Joined
  BY DEF Joined
<1>b. AllEvidence' = AllEvidence
  BY DEF AllEvidence, SlotOf
<1>12. BundleIsBacked'
  BY <1>2, <1>3, <1>8, <1>9, <1>10, <1>11, <1>a DEF BundleIsBacked, SlotOf
<1>13. BundlesInv'
  BY <1>2, <1>3, <1>a, <1>b DEF BundlesInv
<1>14. ReadersInv'
  BY <1>2 DEF IInv, ReadersInv, TypeOK
<1>15. RunInv' /\ ReceiptsTyped' /\ OneReceipt' /\ InstanceOfItsOwn'
  BY DEF IInv, RunInv, ReceiptsTyped, OneReceipt, InstanceOfItsOwn, SlotOf
<1> QED
  BY <1>3, <1>7, <1>12, <1>13, <1>14, <1>15 DEF IInv

-----------------------------------------------------------------------------
(* Nothing happens to the bridge in a stuttering step.                     *)
LEMMA StutterIInv == IInv /\ UNCHANGED vars => IInv'
<1> SUFFICES ASSUME IInv, UNCHANGED vars PROVE IInv'
  OBVIOUS
<1> USE DEF vars, run, tables, bridge
<1>1. TypeOK' /\ RunInv' /\ ReceiptsTyped' /\ OneReceipt' /\ ReadersInv'
  BY DEF IInv, TypeOK, RunInv, ReceiptsTyped, OneReceipt, ReadersInv
<1>2. InstanceOfItsOwn'
  BY DEF IInv, InstanceOfItsOwn, SlotOf
<1>3. BundleIsBacked' /\ BundlesInv'
  BY SameEvidence
<1> QED
  BY <1>1, <1>2, <1>3 DEF IInv

(* Every step keeps the invariant.                                         *)
LEMMA NextIInv == IInv /\ [Next]_vars => IInv'
  BY RunStepIInv, RegisterDispatchIInv, SuperviseIInv, RecordCompletionIInv,
     ReadReceiptsIInv, BridgeIInv, BridgeRaisesIInv, StutterIInv
     DEF Next, OtherStep

(* The invariant holds in every reachable state.                           *)
LEMMA IInvHolds == Spec => []IInv
  BY InitIInv, NextIInv, PTL DEF Spec

(* The tables of the execution ledger keep their types.                    *)
THEOREM TypeCorrect == Spec => []TypeOK
<1>1. IInv => TypeOK
  BY DEF IInv
<1> QED
  BY <1>1, IInvHolds, PTL

(* A bundle credits each slot of the plan once, with the joined completion,*)
(* bound and receipted.                                                    *)
THEOREM BundlesAreBacked == Spec => []BundleIsBacked
<1>1. IInv => BundleIsBacked
  BY DEF IInv
<1> QED
  BY <1>1, IInvHolds, PTL

(* A production receipt has a hermetic instance of its own.                *)
THEOREM InstancesAreOwn == Spec => []InstanceOfItsOwn
<1>1. IInv => InstanceOfItsOwn
  BY DEF IInv
<1> QED
  BY <1>1, IInvHolds, PTL

(* No step changes the evidence under a bundle or adds a different one.    *)
LEMMA FinalStep ==
  ASSUME IInv, [Next]_vars, bundles # {}
  PROVE  bundles' = bundles /\ UNCHANGED tables
<1> USE DEF tables, bridge
<1>1. CASE RunStep
  BY <1>1 DEF RunStep
<1>2. ASSUME NEW i \in DOMAIN log, RegisterDispatch(i) PROVE FALSE
  BY <1>2, RegisterDispatchIInv
<1>3. ASSUME NEW i \in DOMAIN log, NEW o \in Outcome, Supervise(i, o)
      PROVE  bundles' = bundles /\ UNCHANGED tables
  BY <1>3 DEF Supervise
<1>4. ASSUME NEW a \in Presented, NEW nonce \in 0 .. MaxInstance,
             RecordCompletion(a, nonce)
      PROVE  FALSE
  BY <1>4, RecordCompletionIInv
<1>5. ASSUME NEW b \in Bridger, ReadReceipts(b) \/ BridgeRaises(b)
      PROVE  bundles' = bundles /\ UNCHANGED tables
  BY <1>5 DEF ReadReceipts, BridgeRaises
<1>6. ASSUME NEW b \in Bridger, Bridge(b)
      PROVE  bundles' = bundles /\ UNCHANGED tables
  <2>1. bundles' = {AllEvidence}
    BY <1>6, BridgeIInv
  <2>2. bundles = {AllEvidence}
    BY DEF IInv, BundlesInv
  <2> QED
    BY <1>6, <2>1, <2>2 DEF Bridge
<1>7. CASE UNCHANGED vars
  BY <1>7 DEF vars
<1> QED
  BY <1>1, <1>2, <1>3, <1>4, <1>5, <1>6, <1>7 DEF Next, OtherStep

(* Once a bundle is issued the evidence under it never changes.            *)
THEOREM BridgeIsFinal == Spec => BridgedIsFinal
<1>1. IInv /\ [Next]_vars =>
        [bundles # {} => bundles' = bundles /\ UNCHANGED tables]_vars
  BY FinalStep
<1> QED
  BY <1>1, IInvHolds, PTL DEF Spec, BridgedIsFinal

(* Nothing the execution ledger or the bridge does reaches the run: to the *)
(* dispatch authority they are readers.                                    *)
THEOREM BridgeKeepsTheLedger == Spec => Ledger!Spec
<1>1. Init => Ledger!Init
  BY DEF Init
<1>2. IInv /\ [Next]_vars => [Ledger!Next]_(Ledger!vars)
  <2> SUFFICES ASSUME IInv, [Next]_vars
               PROVE  Ledger!Next \/ UNCHANGED run
    BY DEF run, Ledger!vars
  <2>1. ASSUME RunStep PROVE Ledger!Next
    <3>1. Len(log) \in Nat
      BY LogTyped DEF IInv
    <3> QED
      BY <2>1, <3>1 DEF RunStep, Ledger!Next
  <2>2. ASSUME NEW i \in DOMAIN log, NEW o \in Outcome,
               RegisterDispatch(i) \/ Supervise(i, o)
        PROVE  UNCHANGED run
    BY <2>2 DEF RegisterDispatch, Supervise
  <2>3. ASSUME NEW a \in Presented, NEW nonce \in 0 .. MaxInstance,
               RecordCompletion(a, nonce)
        PROVE  UNCHANGED run
    BY <2>3 DEF RecordCompletion
  <2>4. ASSUME NEW b \in Bridger, ReadReceipts(b) \/ Bridge(b) \/ BridgeRaises(b)
        PROVE  UNCHANGED run
    BY <2>4 DEF ReadReceipts, Bridge, BridgeRaises
  <2>5. ASSUME NEW i \in DOMAIN log, RegisterDispatch(i) PROVE UNCHANGED run
    BY <2>5 DEF RegisterDispatch
  <2>6. CASE UNCHANGED vars
    BY <2>6 DEF vars
  <2> QED
    BY <2>1, <2>2, <2>3, <2>4, <2>5, <2>6 DEF Next, OtherStep
<1> QED
  BY <1>1, <1>2, IInvHolds, PTL DEF Spec, Ledger!Spec

-----------------------------------------------------------------------------
(* Handing in cost reports only makes the bridge refuse more: with them it *)
(* behaves as without, and everything proved above holds of it too.        *)
THEOREM CreditedImplements == CreditedSpec => Spec
<1>1. CreditedInit => Init
  BY DEF CreditedInit
<1>2. [CreditedNext]_creditedVars => [Next]_vars
  <2>1. ASSUME NEW b \in Bridger, BridgeCredits(b) PROVE Next
    BY <2>1 DEF BridgeCredits, Next
  <2>2. OtherStep => Next
    BY DEF Next
  <2>3. UNCHANGED creditedVars => UNCHANGED vars
    BY DEF creditedVars
  <2> QED
    BY <2>1, <2>2, <2>3 DEF CreditedNext
<1> QED
  BY <1>1, <1>2, PTL DEF CreditedSpec, Spec

(* A bundle with credited costs is backed like any other, its production   *)
(* receipts have instances of their own, and what is under it is final.    *)
COROLLARY CreditedIsBacked ==
  CreditedSpec => [](BundleIsBacked /\ InstanceOfItsOwn) /\ BridgedIsFinal
<1>1. IInv => BundleIsBacked /\ InstanceOfItsOwn
  BY DEF IInv
<1>2. Spec => [](BundleIsBacked /\ InstanceOfItsOwn)
  BY <1>1, IInvHolds, PTL
<1> QED
  BY <1>2, CreditedImplements, BridgeIsFinal, PTL

-----------------------------------------------------------------------------
(* Sums.  A sum of natural numbers over a finite set is the size of the set*)
(* that has as many units for each element; so every sum below is reckoned *)
(* by counting, whatever the order it is taken in.                         *)

Units(S, g) == {u \in S \X Nat : u[2] \in 1 .. g[u[1]]}

(* What can be built up element by element holds of a finite set.          *)
LEMMA FiniteInduction ==
  ASSUME NEW S, IsFiniteSet(S), NEW P
  PROVE  (\A T \in SUBSET S : (\A x \in T : T \ {x} \in P) => T \in P)
           => SUBSET S \subseteq P
<1> DEFINE B == (SUBSET S) \ P
           R == StrictSubsetOrdering(S)
<1>0. SUFFICES ASSUME \A T \in SUBSET S : (\A x \in T : T \ {x} \in P) => T \in P,
                      B # {}
               PROVE  FALSE
  OBVIOUS
<1>2. IsWellFoundedOn(R, FiniteSubsetsOf(S))
  BY FS_StrictSubsetOrderingWellFounded
<1>3. B \subseteq FiniteSubsetsOf(S)
  BY FS_FiniteSubsetsOfFinite
<1>4. B \subseteq SUBSET S
  OBVIOUS
<1> HIDE DEF B, R
<1>5. PICK T \in B : \A U \in B : ~ (<<U, T>> \in R)
  BY <1>0, <1>2, <1>3, WFMin
<1>6. T \in SUBSET S
  BY <1>4, <1>5
<1>7. ASSUME NEW x \in T PROVE T \ {x} \in P
  <2>1. <<T \ {x}, T>> \in R
    BY <1>6, <1>7 DEF R, StrictSubsetOrdering
  <2>2. T \ {x} \notin B
    BY <1>5, <2>1
  <2> QED
    BY <1>6, <2>2 DEF B
<1>8. T \in P
  BY <1>0, <1>6, <1>7
<1>9. T \notin P
  BY <1>5 DEF B
<1> QED
  BY <1>8, <1>9

(* Taking out one element takes out its units.                             *)
LEMMA UnitsOfOne ==
  ASSUME NEW S, NEW g, NEW x \in S, g[x] \in Nat,
         IsFiniteSet(Units(S \ {x}, g))
  PROVE  /\ IsFiniteSet(Units(S, g))
         /\ Cardinality(Units(S, g)) = g[x] + Cardinality(Units(S \ {x}, g))
<1> DEFINE own == {x} \X (1 .. g[x])
<1>1. Units(S, g) = own \cup Units(S \ {x}, g)
  BY DEF Units
<1>2. own \cap Units(S \ {x}, g) = {}
  BY DEF Units
<1>3. IsFiniteSet({x}) /\ Cardinality({x}) = 1
  BY FS_Singleton
<1>4. IsFiniteSet(1 .. g[x]) /\ Cardinality(1 .. g[x]) = g[x]
  <2>1. 1 \in Int /\ g[x] \in Int /\ g[x] >= 0
    OBVIOUS
  <2>2. /\ IsFiniteSet(1 .. g[x])
        /\ Cardinality(1 .. g[x]) = IF 1 > g[x] THEN 0 ELSE g[x] - 1 + 1
    BY <2>1, FS_Interval
  <2> QED
    BY <2>1, <2>2
<1>5. IsFiniteSet(own) /\ Cardinality(own) = g[x]
  <2>1. /\ IsFiniteSet(own)
        /\ Cardinality(own) = Cardinality({x}) * Cardinality(1 .. g[x])
    BY <1>3, <1>4, FS_Product
  <2> HIDE DEF own
  <2> QED
    BY <1>3, <1>4, <2>1
<1>6. Cardinality({}) = 0
  BY FS_EmptySet
<1>7. Cardinality(Units(S \ {x}, g)) \in Nat
  BY FS_CardinalityType
<1> DEFINE others == Units(S \ {x}, g)
<1> HIDE DEF own, others
<1>8. /\ IsFiniteSet(own \cup others)
      /\ Cardinality(own \cup others) =
           Cardinality(own) + Cardinality(others) - Cardinality(own \cap others)
  BY <1>5, FS_Union DEF others
<1>9. own \cap others = {} /\ Cardinality(others) \in Nat
  BY <1>2, <1>7 DEF others
<1>10. Cardinality(own \cup others) = g[x] + Cardinality(others)
  <2>1. Cardinality(own \cap others) = 0
    BY <1>6, <1>9
  <2> QED
    BY <1>5, <1>8, <1>9, <2>1
<1>11. Units(S, g) = own \cup others
  BY <1>1 DEF others
<1>12. IsFiniteSet(Units(S, g)) /\ Cardinality(Units(S, g)) = g[x] + Cardinality(others)
  BY <1>8, <1>10, <1>11
<1> QED
  BY <1>12 DEF others

(* The empty set has no units.                                             *)
LEMMA NoUnits ==
  ASSUME NEW g
  PROVE  Units({}, g) = {} /\ IsFiniteSet(Units({}, g)) /\ Cardinality(Units({}, g)) = 0
<1>1. Units({}, g) = {}
  BY DEF Units
<1> QED
  BY <1>1, FS_EmptySet

(* Finitely many elements have finitely many units.                        *)
LEMMA UnitsFinite ==
  ASSUME NEW S, IsFiniteSet(S), NEW g, \A x \in S : g[x] \in Nat
  PROVE  \A T \in SUBSET S : /\ IsFiniteSet(Units(T, g))
                             /\ Cardinality(Units(T, g)) \in Nat
<1> DEFINE P == {T \in SUBSET S : IsFiniteSet(Units(T, g))}
<1>1. ASSUME NEW T \in SUBSET S, \A x \in T : T \ {x} \in P
      PROVE  T \in P
  <2>1. CASE T = {}
    BY <2>1, NoUnits
  <2>2. ASSUME NEW x \in T PROVE T \in P
    <3>1. IsFiniteSet(Units(T \ {x}, g))
      BY <1>1, <2>2
    <3>2. IsFiniteSet(Units(T, g))
      BY <2>2, <3>1, UnitsOfOne
    <3> QED
      BY <3>2
  <2> QED
    BY <2>1, <2>2
<1> HIDE DEF P
<1>2. SUBSET S \subseteq P
  BY <1>1, FiniteInduction
<1> QED
  BY <1>2, FS_CardinalityType DEF P

(* A sum taken in the order of CHOOSE.                                     *)
IsSum(sum, S, g) ==
  sum = [s \in SUBSET S |->
           IF s = {} THEN 0
           ELSE g[CHOOSE x \in s : TRUE] + sum[s \ {CHOOSE x \in s : TRUE}]]

(* There is one, and it counts the units.                                  *)
LEMMA SumExists ==
  ASSUME NEW S, IsFiniteSet(S), NEW g, \A x \in S : g[x] \in Nat
  PROVE  \E sum : IsSum(sum, S, g)
<1> DEFINE count == [s \in SUBSET S |-> Cardinality(Units(s, g))]
<1>1. ASSUME NEW s \in SUBSET S
      PROVE  count[s] = IF s = {} THEN 0
                        ELSE g[CHOOSE x \in s : TRUE]
                               + count[s \ {CHOOSE x \in s : TRUE}]
  <2>1. CASE s = {}
    BY <2>1, NoUnits
  <2>2. CASE s # {}
    <3> DEFINE x == CHOOSE x \in s : TRUE
    <3>1. x \in s
      BY <2>2
    <3> HIDE DEF x
    <3>2. IsFiniteSet(Units(s \ {x}, g)) /\ g[x] \in Nat
      BY <3>1, UnitsFinite
    <3>3. Cardinality(Units(s, g)) = g[x] + Cardinality(Units(s \ {x}, g))
      BY <3>1, <3>2, UnitsOfOne
    <3>4. s \ {x} \in SUBSET S
      OBVIOUS
    <3>5. count[s] = g[x] + count[s \ {x}]
      BY <3>3, <3>4
    <3> QED
      BY <2>2, <3>5 DEF x
  <2> QED
    BY <2>1, <2>2
<1> HIDE DEF count
<1>2. count = [s \in SUBSET S |-> count[s]]
  BY DEF count
<1>3. IsSum(count, S, g)
  BY <1>1, <1>2 DEF IsSum
<1> QED
  BY <1>3

(* Any such sum counts the units.                                          *)
LEMMA SumCounts ==
  ASSUME NEW S, IsFiniteSet(S), NEW g, \A x \in S : g[x] \in Nat,
         NEW sum, IsSum(sum, S, g)
  PROVE  \A s \in SUBSET S : sum[s] = Cardinality(Units(s, g))
<1> DEFINE P == {s \in SUBSET S : sum[s] = Cardinality(Units(s, g))}
<1>1. ASSUME NEW s \in SUBSET S, \A x \in s : s \ {x} \in P
      PROVE  s \in P
  <2>1. CASE s = {}
    BY <2>1, NoUnits DEF IsSum
  <2>2. CASE s # {}
    <3> DEFINE x == CHOOSE x \in s : TRUE
    <3>1. x \in s
      BY <2>2
    <3>2. sum[s] = g[x] + sum[s \ {x}]
      BY <2>2 DEF IsSum
    <3> HIDE DEF x
    <3>3. sum[s \ {x}] = Cardinality(Units(s \ {x}, g))
      BY <1>1, <3>1
    <3>4. IsFiniteSet(Units(s \ {x}, g)) /\ g[x] \in Nat
      BY <3>1, UnitsFinite
    <3>5. Cardinality(Units(s, g)) = g[x] + Cardinality(Units(s \ {x}, g))
      BY <3>1, <3>4, UnitsOfOne
    <3> QED
      BY <3>2, <3>3, <3>5
  <2> QED
    BY <2>1, <2>2
<1> HIDE DEF P
<1>2. SUBSET S \subseteq P
  BY <1>1, FiniteInduction
<1> QED
  BY <1>2 DEF P

(* As many units of 1 as elements.                                         *)
LEMMA UnitsOfEach ==
  ASSUME NEW S, IsFiniteSet(S), NEW g, \A x \in S : g[x] = 1
  PROVE  Cardinality(Units(S, g)) = Cardinality(S)
<1> DEFINE f == [x \in S |-> <<x, 1>>]
<1>1. f \in Bijection(S, Units(S, g))
  <2>1. f \in [S -> Units(S, g)]
    BY DEF Units
  <2>2. \A u \in Units(S, g) : u[1] \in S /\ u = f[u[1]]
    BY DEF Units
  <2>3. \A x, y \in S : f[x] = f[y] => x = y
    OBVIOUS
  <2> HIDE DEF f
  <2> QED
    BY <2>1, <2>2, <2>3, Fun_IsBij
<1>2. ExistsBijection(S, Units(S, g))
  BY <1>1 DEF ExistsBijection
<1> QED
  BY <1>2, FS_Bijection

Positions == 1 .. 5

(* A one-to-one correspondence.                                            *)
Corresponds(h, D, A) ==
  /\ h \in [D -> A \X Positions]
  /\ \A i, j \in D : h[i] = h[j] => i = j
  /\ \A a \in A, n \in Positions : \E i \in D : h[i] = <<a, n>>

(* What corresponds to finitely many attempts is finite.                   *)
LEMMA CorrespondingIsFinite ==
  ASSUME NEW D, NEW A, IsFiniteSet(A), NEW h, Corresponds(h, D, A)
  PROVE  IsFiniteSet(D)
<1>1. IsFiniteSet(Positions)
  <2>1. 1 \in Int /\ 5 \in Int
    OBVIOUS
  <2> QED
    BY <2>1, FS_Interval DEF Positions
<1>2. IsFiniteSet(A \X Positions)
  BY <1>1, FS_Product
<1>3. h \in Injection(D, A \X Positions)
  BY Fun_IsInj DEF Corresponds
<1> QED
  BY <1>2, <1>3, FS_Injection

(* A sum over the left in which one position counts is a sum over the right*)
LEMMA CorrespondingSums ==
  ASSUME NEW D, NEW A, IsFiniteSet(A), NEW h, Corresponds(h, D, A),
         NEW n \in Positions, NEW G, NEW g,
         \A a \in A : g[a] \in Nat,
         \A i \in D : G[i] = IF h[i][2] = n THEN g[h[i][1]] ELSE 0
  PROVE  Cardinality(Units(D, G)) = Cardinality(Units(A, g))
<1> DEFINE f == [u \in Units(D, G) |-> <<h[u[1]][1], u[2]>>]
<1>1. ASSUME NEW u \in Units(D, G)
      PROVE  /\ u[1] \in D /\ u[2] \in Nat /\ u = <<u[1], u[2]>>
             /\ h[u[1]] = <<h[u[1]][1], n>>
             /\ h[u[1]][1] \in A
             /\ u[2] \in 1 .. g[h[u[1]][1]]
  <2>1. u[1] \in D /\ u[2] \in Nat /\ u[2] \in 1 .. G[u[1]] /\ u = <<u[1], u[2]>>
    BY DEF Units
  <2>2. h[u[1]] \in A \X Positions
    BY <2>1 DEF Corresponds
  <2>3. h[u[1]][2] = n
    BY <2>1
  <2> QED
    BY <2>1, <2>2, <2>3
<1>2. f \in [Units(D, G) -> Units(A, g)]
  BY <1>1 DEF Units
<1>3. ASSUME NEW u \in Units(D, G), NEW v \in Units(D, G), f[u] = f[v]
      PROVE  u = v
  <2>1. h[u[1]][1] = h[v[1]][1] /\ u[2] = v[2]
    BY <1>3
  <2>2. h[u[1]] = h[v[1]]
    BY <1>1, <2>1
  <2>3. u[1] = v[1]
    BY <1>1, <2>2 DEF Corresponds
  <2> QED
    BY <1>1, <2>1, <2>3
<1>4. ASSUME NEW w \in Units(A, g)
      PROVE  \E u \in Units(D, G) : f[u] = w
  <2>1. w[1] \in A /\ w[2] \in Nat /\ w[2] \in 1 .. g[w[1]] /\ w = <<w[1], w[2]>>
    BY DEF Units
  <2>2. PICK i \in D : h[i] = <<w[1], n>>
    BY <2>1 DEF Corresponds
  <2>3. G[i] = g[w[1]]
    BY <2>2
  <2>4. <<i, w[2]>> \in Units(D, G)
    BY <2>1, <2>3 DEF Units
  <2>5. f[<<i, w[2]>>] = w
    BY <2>1, <2>2, <2>4
  <2> QED
    BY <2>4, <2>5
<1> HIDE DEF f
<1>5. f \in Bijection(Units(D, G), Units(A, g))
  BY <1>2, <1>3, <1>4, Fun_IsBij
<1>6. ExistsBijection(Units(A, g), Units(D, G))
  BY <1>5, Fun_ExistsBijSymmetric DEF ExistsBijection
<1>7. IsFiniteSet(Units(A, g))
  BY UnitsFinite
<1> QED
  BY <1>6, <1>7, FS_Bijection

-----------------------------------------------------------------------------
(* The total of a trace.                                                   *)

Dimension == DOMAIN NoCost

(* What each event of a trace adds to one dimension.                       *)
Increments(trace, d) ==
  [i \in DOMAIN trace.events |-> CostIncrement(trace.events[i])[d]]

Counted(trace, s) ==
  [d \in Dimension |-> Cardinality(Units(s, Increments(trace, d)))]

(* The empty cost is zero in each of the five dimensions.                  *)
LEMMA NoCostIsZero ==
  /\ NoCost = [d \in Dimension |-> 0]
  /\ Dimension = {"model_calls", "input_tokens", "output_tokens",
                  "verifier_milliseconds", "orchestration_milliseconds"}
BY DEF NoCost, Dimension

(* One event more adds what it costs.                                      *)
LEMMA CountedStep ==
  ASSUME NEW trace, IsFiniteSet(DOMAIN trace.events),
         \A i \in DOMAIN trace.events, d \in Dimension :
           CostIncrement(trace.events[i])[d] \in Nat,
         NEW s \in SUBSET DOMAIN trace.events, NEW x \in s
  PROVE  Counted(trace, s) =
           [d \in Dimension |-> Counted(trace, s \ {x})[d]
                                  + CostIncrement(trace.events[x])[d]]
<1>1. ASSUME NEW d \in Dimension
      PROVE  Cardinality(Units(s, Increments(trace, d))) =
               Cardinality(Units(s \ {x}, Increments(trace, d)))
                 + CostIncrement(trace.events[x])[d]
  <2> DEFINE g == Increments(trace, d)
  <2>1. \A i \in DOMAIN trace.events : g[i] \in Nat
    BY DEF Increments
  <2>2. g[x] = CostIncrement(trace.events[x])[d]
    BY DEF Increments
  <2> HIDE DEF g
  <2>3. /\ IsFiniteSet(Units(s \ {x}, g))
        /\ Cardinality(Units(s \ {x}, g)) \in Nat
    BY <2>1, UnitsFinite
  <2>4. Cardinality(Units(s, g)) = g[x] + Cardinality(Units(s \ {x}, g))
    BY <2>1, <2>3, UnitsOfOne
  <2>5. Cardinality(Units(s, g)) =
          Cardinality(Units(s \ {x}, g)) + CostIncrement(trace.events[x])[d]
    BY <2>1, <2>2, <2>3, <2>4
  <2> QED
    BY <2>5 DEF g
<1> QED
  BY <1>1 DEF Counted

(* No event costs nothing.                                                 *)
LEMMA CountedNone ==
  ASSUME NEW trace
  PROVE  Counted(trace, {}) = NoCost
BY NoUnits, NoCostIsZero DEF Counted

(* The total of a trace is, dimension by dimension, the number of units of *)
(* its events: the fold takes them in the order of CHOOSE.                 *)
LEMMA TotalCounts ==
  ASSUME NEW trace, IsFiniteSet(DOMAIN trace.events),
         \A i \in DOMAIN trace.events, d \in Dimension :
           CostIncrement(trace.events[i])[d] \in Nat
  PROVE  Total(trace) = Counted(trace, DOMAIN trace.events)
<1> DEFINE D == DOMAIN trace.events
           Recount(sum, s) ==
             IF s = {} THEN NoCost
             ELSE [d \in DOMAIN sum[s \ {CHOOSE x \in s : TRUE}] |->
                     sum[s \ {CHOOSE x \in s : TRUE}][d]
                       + CostIncrement(trace.events[CHOOSE x \in s : TRUE])[d]]
           count == [s \in SUBSET D |-> Counted(trace, s)]
           total == CHOOSE sum : sum = [s \in SUBSET D |-> Recount(sum, s)]
<1>0. IsFiniteSet(D)
  OBVIOUS
<1>1. Total(trace) = total[D]
  BY DEF Total, FoldSeq, FoldFunction, FoldFunctionOnSet, MapThenFoldSet
<1>2. ASSUME NEW s \in SUBSET D
      PROVE  count[s] = Recount(count, s)
  <2>1. CASE s = {}
    BY <2>1, CountedNone
  <2>2. CASE s # {}
    <3> DEFINE x == CHOOSE x \in s : TRUE
    <3>1. x \in s
      BY <2>2
    <3> HIDE DEF x
    <3>2. count[s \ {x}] = Counted(trace, s \ {x})
      OBVIOUS
    <3>3. DOMAIN Counted(trace, s \ {x}) = Dimension
      BY DEF Counted
    <3>4. Counted(trace, s) =
            [d \in Dimension |-> Counted(trace, s \ {x})[d]
                                   + CostIncrement(trace.events[x])[d]]
      BY <3>1, CountedStep
    <3>5. count[s] = Counted(trace, s)
      OBVIOUS
    <3> HIDE DEF count
    <3>6. count[s] = [d \in DOMAIN count[s \ {x}] |->
                        count[s \ {x}][d] + CostIncrement(trace.events[x])[d]]
      BY <3>2, <3>3, <3>4, <3>5
    <3> QED
      BY <2>2, <3>6 DEF x
  <2> QED
    BY <2>1, <2>2
<1>3. \E sum : sum = [s \in SUBSET D |-> Recount(sum, s)]
  <2>1. count = [s \in SUBSET D |-> count[s]]
    OBVIOUS
  <2> HIDE DEF count, Recount
  <2>2. count = [s \in SUBSET D |-> Recount(count, s)]
    BY <1>2, <2>1
  <2> QED
    BY <2>2
<1>4. total = [s \in SUBSET D |-> Recount(total, s)]
  <2> HIDE DEF Recount, D
  <2> QED
    BY <1>3
<1> HIDE DEF total
<1> DEFINE P == {s \in SUBSET D : total[s] = Counted(trace, s)}
<1>5. ASSUME NEW s \in SUBSET D, \A x \in s : s \ {x} \in P
      PROVE  s \in P
  <2>0. total[s] = Recount(total, s)
    <3> HIDE DEF Recount
    <3> QED
      BY <1>4
  <2>1. CASE s = {}
    BY <2>0, <2>1, CountedNone
  <2>2. CASE s # {}
    <3> DEFINE x == CHOOSE x \in s : TRUE
    <3>1. x \in s
      BY <2>2
    <3>2. total[s] = [d \in DOMAIN total[s \ {x}] |->
                        total[s \ {x}][d] + CostIncrement(trace.events[x])[d]]
      BY <2>0, <2>2
    <3> HIDE DEF x
    <3>3. total[s \ {x}] = Counted(trace, s \ {x})
      BY <1>5, <3>1
    <3>4. DOMAIN Counted(trace, s \ {x}) = Dimension
      BY DEF Counted
    <3>5. Counted(trace, s) =
            [d \in Dimension |-> Counted(trace, s \ {x})[d]
                                   + CostIncrement(trace.events[x])[d]]
      BY <3>1, CountedStep
    <3>6. total[s] = Counted(trace, s)
      BY <3>2, <3>3, <3>4, <3>5
    <3> QED
      BY <3>6
  <2> QED
    BY <2>1, <2>2
<1> HIDE DEF P, D
<1>6. SUBSET D \subseteq P
  BY <1>0, <1>5, FiniteInduction
<1>7. total[D] = Counted(trace, D)
  BY <1>6 DEF P
<1> QED
  BY <1>1, <1>7 DEF D

-----------------------------------------------------------------------------
(* The credited costs.  A cost is a sum over the events of a trace, which  *)
(* no induction is needed to say what it is a sum of.                      *)

(* The events of a trace are those that the receipts of the attempts sign, *)
(* one for one and in the same amounts, and all measured.                  *)
Exact(trace, attempts) ==
  /\ \E h : /\ Corresponds(h, DOMAIN trace.events, attempts)
            /\ \A i \in DOMAIN trace.events :
                 CostIncrement(trace.events[i]) =
                   CostIncrement(EventsOf(h[i][1])[h[i][2]])
  /\ \A i \in DOMAIN trace.events, d \in Dimension :
       CostIncrement(trace.events[i])[d] \in Nat

(* Every credited cost is the total of such a trace.                       *)
CreditedIsExact ==
  \A costs \in credited : \E reports :
    \A problem \in Problem, arm \in Arm :
      /\ costs[<<problem, arm>>] = Total(reports[problem][arm])
      /\ Exact(reports[problem][arm], CellOf(problem, arm))

(* The five events of an attempt.                                          *)
LEMMA FiveEvents ==
  ASSUME NEW a
  PROVE  /\ DOMAIN EventsOf(a) = Positions
         /\ EventsOf(a)[1] =
              Event(a, "MODEL_CALL", Usage(a).request, Usage(a).response, Unknown)
         /\ EventsOf(a)[2] = Event(a, "CONTEXT_ISOLATION", Unknown, Unknown, Unknown)
         /\ EventsOf(a)[3] = Event(a, "VERIFIER", Unknown, Unknown, Usage(a).verifier)
         /\ EventsOf(a)[4] = Event(a, "ORCHESTRATION", Unknown, Unknown, Usage(a).host)
         /\ EventsOf(a)[5] =
              Event(a, "PREDECESSOR_RECONCILIATION", Unknown, Unknown, Unknown)
BY DEF EventsOf, Positions

(* An id names the request and the kind, and a kind the position.          *)
LEMMA EventIds ==
  ASSUME NEW a, NEW n \in Positions
  PROVE  /\ EventsOf(a)[n].event_id = <<a.entry.request, EventsOf(a)[n].kind>>
         /\ n = 1 <=> EventsOf(a)[n].kind = "MODEL_CALL"
         /\ n = 2 <=> EventsOf(a)[n].kind = "CONTEXT_ISOLATION"
         /\ n = 3 <=> EventsOf(a)[n].kind = "VERIFIER"
         /\ n = 4 <=> EventsOf(a)[n].kind = "ORCHESTRATION"
         /\ n = 5 <=> EventsOf(a)[n].kind = "PREDECESSOR_RECONCILIATION"
<1>1. n = 1 \/ n = 2 \/ n = 3 \/ n = 4 \/ n = 5
  BY DEF Positions
<1>2. CASE n = 1
  BY <1>2 DEF EventsOf, Event
<1>3. CASE n = 2
  BY <1>3 DEF EventsOf, Event
<1>4. CASE n = 3
  BY <1>4 DEF EventsOf, Event
<1>5. CASE n = 4
  BY <1>5 DEF EventsOf, Event
<1>6. CASE n = 5
  BY <1>6 DEF EventsOf, Event
<1> QED
  BY <1>1, <1>2, <1>3, <1>4, <1>5, <1>6

(* What a reconciled event costs is what its receipt signs.                *)
LEMMA SameIncrement ==
  ASSUME NEW trace, NEW cell, Reconciles(trace, cell),
         NEW event \in ToSet(trace.events), NEW a \in cell, NEW n \in Positions,
         event.event_id = EventsOf(a)[n].event_id,
         event.kind = EventsOf(a)[n].kind
  PROVE  CostIncrement(event) = CostIncrement(EventsOf(a)[n])
<1> DEFINE signed == EventsOf(a)[n]
<1>0. /\ event.event_id = <<a.entry.request, "MODEL_CALL">> =>
           /\ event.input_tokens = Usage(a).request
           /\ event.output_tokens = Usage(a).response
      /\ event.event_id = <<a.entry.request, "VERIFIER">> =>
           event.milliseconds = Usage(a).verifier
      /\ event.event_id = <<a.entry.request, "ORCHESTRATION">> =>
           event.milliseconds = Usage(a).host
  BY DEF Reconciles
<1>1. CASE n = 1
  <2>1. /\ signed.kind = "MODEL_CALL"
        /\ signed.input_tokens = Usage(a).request
        /\ signed.output_tokens = Usage(a).response
        /\ signed.event_id = <<a.entry.request, "MODEL_CALL">>
    BY <1>1 DEF EventsOf, Event
  <2> QED
    BY <1>0, <2>1 DEF CostIncrement
<1>2. CASE n = 3
  <2>1. /\ signed.kind = "VERIFIER"
        /\ signed.milliseconds = Usage(a).verifier
        /\ signed.event_id = <<a.entry.request, "VERIFIER">>
    BY <1>2 DEF EventsOf, Event
  <2> QED
    BY <1>0, <2>1 DEF CostIncrement
<1>3. CASE n = 4
  <2>1. /\ signed.kind = "ORCHESTRATION"
        /\ signed.milliseconds = Usage(a).host
        /\ signed.event_id = <<a.entry.request, "ORCHESTRATION">>
    BY <1>3 DEF EventsOf, Event
  <2> QED
    BY <1>0, <2>1 DEF CostIncrement
<1>4. CASE n \in {2, 5}
  <2>1. signed.kind \in {"CONTEXT_ISOLATION", "PREDECESSOR_RECONCILIATION"}
    BY <1>4 DEF EventsOf, Event
  <2> QED
    BY <2>1 DEF CostIncrement
<1> QED
  BY <1>1, <1>2, <1>3, <1>4 DEF Positions

(* A valid event that was measured adds natural numbers.                   *)
LEMMA MeasuredIncrement ==
  ASSUME NEW event, ValidEvent(event), Measured(event), NEW d \in Dimension
  PROVE  CostIncrement(event)[d] \in Nat
<1>1. /\ NoCost = [e \in Dimension |-> 0]
      /\ "model_calls" \in Dimension /\ "input_tokens" \in Dimension
      /\ "output_tokens" \in Dimension /\ "verifier_milliseconds" \in Dimension
      /\ "orchestration_milliseconds" \in Dimension
  BY NoCostIsZero
<1> HIDE DEF NoCost
<1>2. CASE event.kind = "MODEL_CALL"
  <2>1. event.input_tokens \in Nat /\ event.output_tokens \in Nat
    BY <1>2 DEF ValidEvent, Measured
  <2>2. CostIncrement(event) =
          [NoCost EXCEPT !.model_calls = 1, !.input_tokens = event.input_tokens,
                         !.output_tokens = event.output_tokens]
    BY <1>2 DEF CostIncrement
  <2>3. CASE d = "model_calls"
    BY <1>1, <2>2, <2>3
  <2>4. CASE d = "input_tokens"
    BY <1>1, <2>1, <2>2, <2>4
  <2>5. CASE d = "output_tokens"
    BY <1>1, <2>1, <2>2, <2>5
  <2>6. CASE d = "verifier_milliseconds"
    BY <1>1, <2>2, <2>6
  <2>7. CASE d = "orchestration_milliseconds"
    BY <1>1, <2>2, <2>7
  <2> QED
    BY <2>3, <2>4, <2>5, <2>6, <2>7, NoCostIsZero
<1>3. CASE event.kind = "VERIFIER"
  <2>1. event.milliseconds \in Nat
    BY <1>3 DEF ValidEvent, Measured
  <2>2. CostIncrement(event) =
          [NoCost EXCEPT !.verifier_milliseconds = event.milliseconds]
    BY <1>3 DEF CostIncrement
  <2> QED
    BY <1>1, <2>1, <2>2
<1>4. CASE event.kind = "ORCHESTRATION"
  <2>1. event.milliseconds \in Nat
    BY <1>4 DEF ValidEvent, Measured
  <2>2. CostIncrement(event) =
          [NoCost EXCEPT !.orchestration_milliseconds = event.milliseconds]
    BY <1>4 DEF CostIncrement
  <2> QED
    BY <1>1, <2>1, <2>2
<1>5. CASE event.kind \notin {"MODEL_CALL", "VERIFIER", "ORCHESTRATION"}
  BY <1>1, <1>5 DEF CostIncrement
<1> QED
  BY <1>2, <1>3, <1>4, <1>5

(* A trace that is valid and reconciles with a cell whose attempts have    *)
(* requests of their own is exact.                                         *)
LEMMA ReconciledIsExact ==
  ASSUME NEW trace, NEW cell, Reconciles(trace, cell), ValidTrace(trace),
         TraceIsComplete(trace),
         \A a1, a2 \in cell : a1.entry.request = a2.entry.request => a1 = a2
  PROVE  Exact(trace, cell)
<1> DEFINE Names(i, pair) ==
             /\ EventsOf(pair[1])[pair[2]].event_id = trace.events[i].event_id
             /\ EventsOf(pair[1])[pair[2]].kind = trace.events[i].kind
           f == [i \in DOMAIN trace.events |->
                   CHOOSE pair \in cell \X Positions : Names(i, pair)]
<1>1. Manifest(trace.events) = UNION {Manifest(EventsOf(a)) : a \in cell}
  BY DEF Reconciles, RequiredCostEvents
<1>2. ASSUME NEW i \in DOMAIN trace.events
      PROVE  f[i] \in cell \X Positions /\ Names(i, f[i])
  <2>1. <<trace.events[i].event_id, trace.events[i].kind, trace.events[i].basis>>
          \in Manifest(trace.events)
    BY DEF Manifest, ToSet
  <2>2. PICK a \in cell :
          <<trace.events[i].event_id, trace.events[i].kind, trace.events[i].basis>>
            \in Manifest(EventsOf(a))
    BY <1>1, <2>1
  <2>3. PICK n \in Positions :
          /\ EventsOf(a)[n].event_id = trace.events[i].event_id
          /\ EventsOf(a)[n].kind = trace.events[i].kind
    BY <2>2, FiveEvents DEF Manifest, ToSet
  <2>4. Names(i, <<a, n>>)
    BY <2>3
  <2> HIDE DEF Names
  <2> QED
    BY <2>4
<1> HIDE DEF f
<1>3. f \in [DOMAIN trace.events -> cell \X Positions]
  BY <1>2 DEF f
<1>a. IdsAreUnique(trace.events)
  BY DEF ValidTrace
<1>4. ASSUME NEW i \in DOMAIN trace.events, NEW j \in DOMAIN trace.events,
             f[i] = f[j]
      PROVE  i = j
  BY <1>2, <1>4, <1>a DEF IdsAreUnique
<1>5. ASSUME NEW a \in cell, NEW n \in Positions
      PROVE  \E i \in DOMAIN trace.events : f[i] = <<a, n>>
  <2> DEFINE signed == EventsOf(a)[n]
  <2>1. <<signed.event_id, signed.kind, signed.basis>> \in Manifest(EventsOf(a))
    BY FiveEvents DEF Manifest, ToSet
  <2>2. <<signed.event_id, signed.kind, signed.basis>> \in Manifest(trace.events)
    BY <1>1, <2>1
  <2>3. PICK i \in DOMAIN trace.events :
          trace.events[i].event_id = signed.event_id
    BY <2>2 DEF Manifest, ToSet
  <2>4. PICK b \in cell, k \in Positions : f[i] = <<b, k>>
    BY <1>2
  <2>5. EventsOf(b)[k].event_id = signed.event_id
    BY <1>2, <2>3, <2>4
  <2>6. b.entry.request = a.entry.request /\ EventsOf(b)[k].kind = signed.kind
    BY <2>5, EventIds
  <2>7. b = a
    BY <2>6
  <2>8. k = n
    <3>1. EventsOf(a)[k].kind = signed.kind
      BY <2>6, <2>7
    <3>2. /\ k = 1 <=> n = 1
          /\ k = 2 <=> n = 2
          /\ k = 3 <=> n = 3
          /\ k = 4 <=> n = 4
          /\ k = 5 <=> n = 5
      BY <3>1, EventIds
    <3> QED
      BY <3>2 DEF Positions
  <2> QED
    BY <2>4, <2>7, <2>8
<1>6. ASSUME NEW i \in DOMAIN trace.events
      PROVE  CostIncrement(trace.events[i]) =
               CostIncrement(EventsOf(f[i][1])[f[i][2]])
  <2>1. f[i][1] \in cell /\ f[i][2] \in Positions /\ Names(i, f[i])
    BY <1>2
  <2>2. trace.events[i] \in ToSet(trace.events)
    BY DEF ToSet
  <2> QED
    BY <2>1, <2>2, SameIncrement
<1>7. ASSUME NEW i \in DOMAIN trace.events, NEW d \in Dimension
      PROVE  CostIncrement(trace.events[i])[d] \in Nat
  <2>1. trace.events[i] \in ToSet(trace.events)
    BY DEF ToSet
  <2>2. ValidEvent(trace.events[i]) /\ Measured(trace.events[i])
    BY <2>1 DEF ValidTrace, TraceIsComplete
  <2> QED
    BY <2>2, MeasuredIncrement
<1>8. Corresponds(f, DOMAIN trace.events, cell)
  BY <1>3, <1>4, <1>5 DEF Corresponds
<1> QED
  BY <1>6, <1>7, <1>8 DEF Exact

(* The costs a bridge credits are exact.                                   *)
LEMMA BridgeIsExact ==
  ASSUME NEW b \in Bridger, BridgeCredits(b)
  PROVE  \A costs \in credited' \ credited : \E reports :
           \A problem \in Problem, arm \in Arm :
             /\ costs[<<problem, arm>>] = Total(reports[problem][arm])
             /\ Exact(reports[problem][arm], CellOf(problem, arm))
<1>1. PICK reports \in [Problem -> UNION {Reports(Cells(p)) : p \in Problem}] :
        /\ \A problem \in Problem : Accepts(reports[problem], problem)
        /\ credited' = credited \cup
             {[cell \in Problem \X Arm |-> Total(reports[cell[1]][cell[2]])]}
  BY DEF BridgeCredits
<1>2. \A a1, a2 \in Joined : SlotOf(a1.entry) = SlotOf(a2.entry) => a1 = a2
  BY DEF BridgeCredits, Bridge, CoverPlan
<1>3. ASSUME NEW problem \in Problem, NEW arm \in Arm
      PROVE  Exact(reports[problem][arm], CellOf(problem, arm))
  <2>1. Accepts(reports[problem], problem)
    BY <1>1
  <2>2. DOMAIN reports[problem] = Arm
    BY <2>1 DEF Accepts
  <2>3. /\ ValidTrace(reports[problem][arm])
        /\ TraceIsComplete(reports[problem][arm])
    BY <2>1, <2>2 DEF Accepts, ValidReport
  <2>4. Reconciles(reports[problem][arm], CellOf(problem, arm))
    BY <2>1 DEF Accepts
  <2>5. \A a1, a2 \in CellOf(problem, arm) :
          a1.entry.request = a2.entry.request => a1 = a2
    BY <1>2 DEF CellOf, SlotOf
  <2> QED
    BY <2>3, <2>4, <2>5, ReconciledIsExact
<1>4. \A problem \in Problem, arm \in Arm :
        [cell \in Problem \X Arm |-> Total(reports[cell[1]][cell[2]])]
          [<<problem, arm>>] = Total(reports[problem][arm])
  OBVIOUS
<1> QED
  BY <1>1, <1>3, <1>4


(* What each event of an attempt adds, dimension by dimension.             *)
LEMMA SignedIncrements ==
  ASSUME NEW a, NEW n \in Positions
  PROVE  LET signed == CostIncrement(EventsOf(a)[n]) IN
         /\ signed["model_calls"] = IF n = 1 THEN 1 ELSE 0
         /\ signed["input_tokens"] = IF n = 1 THEN Usage(a).request ELSE 0
         /\ signed["output_tokens"] = IF n = 1 THEN Usage(a).response ELSE 0
         /\ signed["verifier_milliseconds"] = IF n = 3 THEN Usage(a).verifier ELSE 0
         /\ signed["orchestration_milliseconds"] = IF n = 4 THEN Usage(a).host ELSE 0
<1>1. CASE n = 1
  <2>1. /\ EventsOf(a)[n].kind = "MODEL_CALL"
        /\ EventsOf(a)[n].input_tokens = Usage(a).request
        /\ EventsOf(a)[n].output_tokens = Usage(a).response
    BY <1>1 DEF EventsOf, Event
  <2>2. CostIncrement(EventsOf(a)[n]) =
          [NoCost EXCEPT !.model_calls = 1, !.input_tokens = Usage(a).request,
                         !.output_tokens = Usage(a).response]
    BY <2>1 DEF CostIncrement
  <2> QED
    BY <1>1, <2>2 DEF NoCost
<1>2. CASE n = 3
  <2>1. /\ EventsOf(a)[n].kind = "VERIFIER"
        /\ EventsOf(a)[n].milliseconds = Usage(a).verifier
    BY <1>2 DEF EventsOf, Event
  <2>2. CostIncrement(EventsOf(a)[n]) =
          [NoCost EXCEPT !.verifier_milliseconds = Usage(a).verifier]
    BY <2>1 DEF CostIncrement
  <2> QED
    BY <1>2, <2>2 DEF NoCost
<1>3. CASE n = 4
  <2>1. /\ EventsOf(a)[n].kind = "ORCHESTRATION"
        /\ EventsOf(a)[n].milliseconds = Usage(a).host
    BY <1>3 DEF EventsOf, Event
  <2>2. CostIncrement(EventsOf(a)[n]) =
          [NoCost EXCEPT !.orchestration_milliseconds = Usage(a).host]
    BY <2>1 DEF CostIncrement
  <2> QED
    BY <1>3, <2>2 DEF NoCost
<1>4. CASE n \in {2, 5}
  <2>1. EventsOf(a)[n].kind \in {"CONTEXT_ISOLATION", "PREDECESSOR_RECONCILIATION"}
    BY <1>4 DEF EventsOf, Event
  <2>2. CostIncrement(EventsOf(a)[n]) = NoCost
    BY <2>1 DEF CostIncrement
  <2> QED
    BY <1>4, <2>2 DEF NoCost
<1> QED
  BY <1>1, <1>2, <1>3, <1>4 DEF Positions

(* The sum of the signed amounts counts their units.                       *)
LEMMA SignedSumCounts ==
  ASSUME NEW A, IsFiniteSet(A), NEW amount, \A a \in A : Usage(a)[amount] \in Nat
  PROVE  SignedSum(amount, A) =
           Cardinality(Units(A, [a \in A |-> Usage(a)[amount]]))
<1> DEFINE g == [a \in A |-> Usage(a)[amount]]
           Sums(f) == f = [s \in SUBSET A |->
                             IF s = {} THEN 0
                             ELSE Usage(CHOOSE x \in s : TRUE)[amount]
                                    + f[s \ {CHOOSE x \in s : TRUE}]]
           sum == CHOOSE f : Sums(f)
<1>1. SignedSum(amount, A) = sum[A]
  BY DEF SignedSum, MapThenSumSet, MapThenFoldSet
<1>2. \A s \in SUBSET A : s # {} =>
        g[CHOOSE x \in s : TRUE] = Usage(CHOOSE x \in s : TRUE)[amount]
  OBVIOUS
<1>3. \A f : IsSum(f, A, g) <=> Sums(f)
  <2> TAKE f
  <2> HIDE DEF g
  <2>1. [s \in SUBSET A |-> IF s = {} THEN 0
           ELSE g[CHOOSE x \in s : TRUE] + f[s \ {CHOOSE x \in s : TRUE}]] =
        [s \in SUBSET A |-> IF s = {} THEN 0
           ELSE Usage(CHOOSE x \in s : TRUE)[amount]
                  + f[s \ {CHOOSE x \in s : TRUE}]]
    BY <1>2
  <2> QED
    BY <2>1 DEF IsSum
<1>4. \A a \in A : g[a] \in Nat
  OBVIOUS
<1> HIDE DEF g, Sums
<1>5. \E f : Sums(f)
  BY <1>3, <1>4, SumExists
<1>6. Sums(sum)
  BY <1>5
<1> HIDE DEF sum
<1>7. sum[A] = Cardinality(Units(A, g))
  BY <1>3, <1>4, <1>6, SumCounts
<1> QED
  BY <1>1, <1>7 DEF g

(* The total of an exact trace is what the receipts sign.                  *)
LEMMA ExactIsSigned ==
  ASSUME NEW trace, NEW attempts, IsFiniteSet(attempts), Exact(trace, attempts)
  PROVE  Total(trace) = SignedCost(attempts)
<1> DEFINE D == DOMAIN trace.events
<1>1. PICK h : /\ Corresponds(h, D, attempts)
               /\ \A i \in D : CostIncrement(trace.events[i]) =
                                 CostIncrement(EventsOf(h[i][1])[h[i][2]])
  BY DEF Exact
<1>2. \A i \in D, d \in Dimension : CostIncrement(trace.events[i])[d] \in Nat
  BY DEF Exact
<1>3. IsFiniteSet(D)
  BY <1>1, CorrespondingIsFinite
<1>4. Total(trace) = [d \in Dimension |-> Cardinality(Units(D, Increments(trace, d)))]
  BY <1>2, <1>3, TotalCounts DEF Counted
<1>5. \A i \in D : h[i] = <<h[i][1], h[i][2]>> /\ h[i][1] \in attempts
                     /\ h[i][2] \in Positions
  BY <1>1 DEF Corresponds
<1>6. /\ "model_calls" \in Dimension /\ "input_tokens" \in Dimension
      /\ "output_tokens" \in Dimension /\ "verifier_milliseconds" \in Dimension
      /\ "orchestration_milliseconds" \in Dimension
  BY NoCostIsZero
<1>7. 1 \in Positions /\ 3 \in Positions /\ 4 \in Positions
  BY DEF Positions
<1> DEFINE Signed(i) == CostIncrement(EventsOf(h[i][1])[h[i][2]])
<1>8. ASSUME NEW d \in Dimension, NEW n \in Positions, NEW g,
             \A a \in attempts : CostIncrement(EventsOf(a)[n])[d] = g[a],
             \A a \in attempts, k \in Positions :
               k # n => CostIncrement(EventsOf(a)[k])[d] = 0
      PROVE  /\ \A a \in attempts : g[a] \in Nat
             /\ Cardinality(Units(D, Increments(trace, d))) =
                  Cardinality(Units(attempts, g))
  <2>1. ASSUME NEW a \in attempts PROVE g[a] \in Nat
    <3>1. PICK i \in D : h[i] = <<a, n>>
      BY <1>1 DEF Corresponds
    <3>2. CostIncrement(trace.events[i])[d] = g[a]
      BY <1>1, <1>8, <3>1
    <3> QED
      BY <1>2, <3>2
  <2>2. \A i \in D : Increments(trace, d)[i] =
                       IF h[i][2] = n THEN g[h[i][1]] ELSE 0
    BY <1>1, <1>5, <1>8 DEF Increments
  <2> HIDE DEF D
  <2> QED
    BY <1>1, <2>1, <2>2, CorrespondingSums
<1> HIDE DEF D
<1>9. Cardinality(Units(D, Increments(trace, "model_calls"))) = Cardinality(attempts)
  <2> DEFINE one == [a \in attempts |-> 1]
  <2>1. \A a \in attempts : one[a] = 1
    OBVIOUS
  <2>2. /\ \A a \in attempts : CostIncrement(EventsOf(a)[1])["model_calls"] = one[a]
        /\ \A a \in attempts, k \in Positions :
             k # 1 => CostIncrement(EventsOf(a)[k])["model_calls"] = 0
    BY <1>7, <2>1, SignedIncrements
  <2> HIDE DEF one
  <2>3. Cardinality(Units(D, Increments(trace, "model_calls"))) =
          Cardinality(Units(attempts, one))
    BY <1>6, <1>7, <1>8, <2>2
  <2>4. Cardinality(Units(attempts, one)) = Cardinality(attempts)
    BY <2>1, UnitsOfEach
  <2> QED
    BY <2>3, <2>4
<1>10. ASSUME NEW d \in Dimension, NEW n \in Positions, NEW amount,
              \A a \in attempts : CostIncrement(EventsOf(a)[n])[d] = Usage(a)[amount],
              \A a \in attempts, k \in Positions :
                k # n => CostIncrement(EventsOf(a)[k])[d] = 0
       PROVE  Cardinality(Units(D, Increments(trace, d))) = SignedSum(amount, attempts)
  <2> DEFINE g == [a \in attempts |-> Usage(a)[amount]]
  <2>1. \A a \in attempts : g[a] = Usage(a)[amount]
    OBVIOUS
  <2>2. SignedSum(amount, attempts) = Cardinality(Units(attempts, g))
          \/ \E a \in attempts : g[a] \notin Nat
    BY SignedSumCounts
  <2> HIDE DEF g
  <2> QED
    BY <1>8, <1>10, <2>1, <2>2
<1>11. Cardinality(Units(D, Increments(trace, "input_tokens"))) =
         SignedSum("request", attempts)
  BY <1>6, <1>7, <1>10, SignedIncrements
<1>12. Cardinality(Units(D, Increments(trace, "output_tokens"))) =
         SignedSum("response", attempts)
  BY <1>6, <1>7, <1>10, SignedIncrements
<1>13. Cardinality(Units(D, Increments(trace, "verifier_milliseconds"))) =
         SignedSum("verifier", attempts)
  BY <1>6, <1>7, <1>10, SignedIncrements
<1>14. Cardinality(Units(D, Increments(trace, "orchestration_milliseconds"))) =
         SignedSum("host", attempts)
  BY <1>6, <1>7, <1>10, SignedIncrements
<1>15. \A d \in Dimension : SignedCost(attempts)[d] =
                              Cardinality(Units(D, Increments(trace, d)))
  BY <1>9, <1>11, <1>12, <1>13, <1>14, NoCostIsZero DEF SignedCost
<1>16. SignedCost(attempts) = [d \in Dimension |-> SignedCost(attempts)[d]]
  <2>1. DOMAIN SignedCost(attempts) = Dimension
    BY NoCostIsZero DEF SignedCost
  <2> QED
    BY <2>1 DEF SignedCost
<1> QED
  BY <1>4, <1>15, <1>16 DEF D

(* A bundle is issued of a closed run, whose join does not change.         *)
CreditedInv ==
  /\ credited # {} => fate = "CLOSED"
  /\ CreditedIsExact

(* Once the run is closed no step changes the join or the layout.          *)
LEMMA JoinIsFrozen ==
  ASSUME fate = "CLOSED", [CreditedNext]_creditedVars
  PROVE  fate' = "CLOSED" /\ sealed' = sealed /\ arms' = arms
<1>1. CASE OtherStep /\ UNCHANGED <<arms, credited>>
  <2>1. CASE RunStep
    BY <1>1, <2>1 DEF RunStep, Ledger!Dispatch, Ledger!Answer, Ledger!Seal,
       Ledger!Abandon
  <2>2. CASE UNCHANGED run
    BY <1>1, <2>2 DEF run
  <2>3. RunStep \/ UNCHANGED run
    BY <1>1 DEF OtherStep, RegisterDispatch, Supervise, RecordCompletion,
       ReadReceipts, BridgeRaises
  <2> QED
    BY <2>1, <2>2, <2>3
<1>2. CASE \E b \in Bridger : BridgeCredits(b)
  BY <1>2 DEF BridgeCredits, Bridge, run
<1>3. CASE UNCHANGED creditedVars
  BY <1>3 DEF creditedVars, vars, run
<1> QED
  BY <1>1, <1>2, <1>3 DEF CreditedNext

(* Every step keeps the credited costs exact.                              *)
LEMMA CreditedStep ==
  IInv /\ CreditedInv /\ [CreditedNext]_creditedVars => CreditedInv'
<1> SUFFICES ASSUME IInv, CreditedInv, [CreditedNext]_creditedVars
             PROVE  CreditedInv'
  OBVIOUS
<1> DEFINE Backed(costs) ==
             \E reports : \A problem \in Problem, arm \in Arm :
               /\ costs[<<problem, arm>>] = Total(reports[problem][arm])
               /\ Exact(reports[problem][arm], CellOf(problem, arm))
<1>1. \A costs \in credited : Backed(costs)
  BY DEF CreditedInv, CreditedIsExact
<1>2. CASE credited' = credited
  <2>1. CASE credited = {}
    BY <1>2, <2>1 DEF CreditedInv, CreditedIsExact
  <2>2. CASE credited # {}
    <3>1. fate = "CLOSED"
      BY <2>2 DEF CreditedInv
    <3>2. fate' = "CLOSED" /\ sealed' = sealed /\ arms' = arms
      BY <3>1, JoinIsFrozen
    <3>3. Arm' = Arm /\ \A problem, arm : CellOf(problem, arm)' = CellOf(problem, arm)
      BY <3>2 DEF Arm, CellOf, Joined
    <3> QED
      BY <1>1, <1>2, <3>2, <3>3 DEF CreditedInv, CreditedIsExact
  <2> QED
    BY <2>1, <2>2
<1>3. ASSUME NEW b \in Bridger, BridgeCredits(b)
      PROVE  CreditedInv'
  <2>1. fate = "CLOSED"
    BY <1>3 DEF IInv, ReadersInv, BridgeCredits, Bridge
  <2>2. fate' = "CLOSED" /\ sealed' = sealed /\ arms' = arms
    BY <2>1, JoinIsFrozen
  <2>3. Arm' = Arm /\ \A problem, arm : CellOf(problem, arm)' = CellOf(problem, arm)
    BY <2>2 DEF Arm, CellOf, Joined
  <2>4. \A costs \in credited' \ credited : Backed(costs)
    BY <1>3, BridgeIsExact
  <2> HIDE DEF Backed
  <2>5. \A costs \in credited' : Backed(costs)
    BY <1>1, <2>4
  <2> USE DEF Backed
  <2> QED
    BY <2>2, <2>3, <2>5 DEF CreditedInv, CreditedIsExact
<1>4. credited' = credited \/ \E b \in Bridger : BridgeCredits(b)
  BY DEF CreditedNext, creditedVars
<1> QED
  BY <1>2, <1>3, <1>4

(* Whatever reports were handed in, every credited cost is the total of a  *)
(* trace with exactly the signed events of its cell.                       *)
THEOREM CreditsAreExact == CreditedSpec => [](IInv /\ CreditedInv)
<1>1. CreditedInit => CreditedInv
  BY DEF CreditedInit, CreditedInv, CreditedIsExact
<1>2. CreditedSpec => []IInv
  BY CreditedImplements, IInvHolds
<1> QED
  BY <1>1, <1>2, CreditedStep, PTL DEF CreditedSpec

(* The attempts of a cell of a closed run are finitely many.               *)
LEMMA CellsAreFinite ==
  ASSUME RunInv, fate = "CLOSED", NEW problem, NEW arm
  PROVE  IsFiniteSet(CellOf(problem, arm))
<1>1. DOMAIN sealed = 1 .. Len(log) /\ Len(log) \in Nat
  BY LogTyped DEF RunInv
<1>2. IsFiniteSet(DOMAIN sealed)
  BY <1>1, FS_Interval
<1>3. IsFiniteSet(Joined)
  <2> DEFINE at == [i \in DOMAIN sealed |-> sealed[i]]
  <2>1. at \in [DOMAIN sealed -> Joined]
    BY DEF Joined
  <2>2. \A a \in Joined : \E i \in DOMAIN sealed : at[i] = a
    BY DEF Joined
  <2> HIDE DEF at
  <2>3. at \in Surjection(DOMAIN sealed, Joined)
    BY <2>1, <2>2, Fun_IsSurj
  <2> QED
    BY <1>2, <2>3, FS_Surjection
<1> QED
  BY <1>3, FS_Subset DEF CellOf

(* CreditedCostIsSigned: the cost a bundle credits a cell with is what the *)
(* receipts of its attempts sign, each counted once, whatever reports the  *)
(* caller of bridge_closed_evidence handed in and in whatever order their  *)
(* events came.                                                            *)
THEOREM CreditsAreSigned == CreditedSpec => []CreditedCostIsSigned
<1>1. IInv /\ CreditedInv => CreditedCostIsSigned
  <2> SUFFICES ASSUME IInv, CreditedInv, NEW costs \in credited,
                      NEW cell \in Problem \X Arm
               PROVE  costs[cell] = SignedCost(CellOf(cell[1], cell[2]))
    BY DEF CreditedCostIsSigned
  <2>1. RunInv /\ fate = "CLOSED"
    BY DEF IInv, CreditedInv
  <2>2. PICK problem \in Problem, arm \in Arm : cell = <<problem, arm>>
    OBVIOUS
  <2>3. PICK reports :
          \A p \in Problem, a \in Arm :
            /\ costs[<<p, a>>] = Total(reports[p][a])
            /\ Exact(reports[p][a], CellOf(p, a))
    BY DEF CreditedInv, CreditedIsExact
  <2>4. IsFiniteSet(CellOf(problem, arm))
    BY <2>1, CellsAreFinite
  <2>5. Total(reports[problem][arm]) = SignedCost(CellOf(problem, arm))
    BY <2>3, <2>4, ExactIsSigned
  <2> QED
    BY <2>2, <2>3, <2>5
<1> QED
  BY <1>1, CreditsAreExact, PTL
=============================================================================
