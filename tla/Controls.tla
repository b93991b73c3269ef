------------------------------- MODULE Controls -------------------------------
(***************************************************************************)
(* The four control arms: execute_ordinary and execute_portfolio_attempt of*)
(* execution/baselines.py, execute_product_only_step and                   *)
(* execute_multi_fidelity_stage of execution/product_controls.py, run by   *)
(* several executors against one run of the dispatch authority (RunLedger) *)
(* and one scheduled-chat host.                                            *)
(*                                                                         *)
(* A call checks its request, registers it, asks the host for a response   *)
(* and, on an answer, the verifier for a verdict, signs the completion and *)
(* returns it.  The host and the verifier are ports: they may raise, and a *)
(* response may come late and reach another call than the one it is for.   *)
(* Nothing is stored outside the dispatch authority: what a call holds is  *)
(* lost with its process.                                                  *)
(*                                                                         *)
(* A dispatch is named by its position in the log, a manifest by the       *)
(* number of dispatches it lists.  The bytes of a frozen request are those *)
(* rendered from the products the call is given, so the frozen             *)
(* request stands for them.  What a request only carries is left out: the  *)
(* name and rank of a stage, and the number of the attempt it says it      *)
(* retries, which is compared with its own number and with nothing else.   *)
(***************************************************************************)
EXTENDS Naturals, Sequences, FiniteSets

CONSTANTS
  Executor,     \* processes that call an adapter
  Slot,         \* the planned (problem, arm, attempt) of the control arms
  Text,         \* visible responses
  Emission,     \* those that parse as a product emission
  NoText,       \* the empty response
  Said,         \* what the host may say of a dispatch
  Verdict,      \* the receipts a verifier call may end with
  MaxDispatch,  \* bound: dispatches of the run
  MaxSaid       \* bound: responses of the host

ControlArm == {"ORDINARY", "PORTFOLIO", "PRODUCT_ONLY", "MULTI_FIDELITY"}

(* ProductObservationKind, which has the kinds of ModelAttemptObservation. *)
Kind == {"PRODUCT", "ANSWERED", "NO_ANSWER", "ERROR"}

(* What the host may say in an arm.  Only a product-only step asks for     *)
(* products, and only there does NO_ANSWER come without visible text.      *)
ValidSaid(arm) ==
  {s \in [kind : Kind, text : Text \cup {NoText}] :
     /\ s.kind = "PRODUCT" => arm = "PRODUCT_ONLY" /\ s.text \in Emission
     /\ s.kind = "ANSWERED" => s.text # NoText
     /\ s.kind = "NO_ANSWER" /\ arm = "PRODUCT_ONLY" => s.text = NoText}

VerifierStatus == {"PASS", "FAIL", "TIMEOUT", "ERROR"}

(* A product as its consumer shows it: the dispatch it is said to come     *)
(* from, and its content.                                                  *)
VisibleProduct == [dispatch : Nat \ {0}, text : Text]

Request == [slot : Slot, shown : SUBSET VisibleProduct]

AttemptStatus == {"ANSWERED", "NO_ANSWER", "ERROR"}

(* With its Lean receipt, which only an answer has.                        *)
AttemptResult ==
  {o \in [status : AttemptStatus, text : Text \cup {NoText},
          receipt : VerifierStatus \cup {"none"}] :
     /\ o.status = "ANSWERED" <=> o.receipt # "none"
     /\ o.status = "ANSWERED" => o.text # NoText}

ASSUME BoundAssumption == MaxDispatch \in Nat /\ MaxSaid \in Nat
ASSUME SlotAssumption ==
  \A s \in Slot : s.arm \in ControlArm /\ s.attempt \in Nat
ASSUME TextAssumption == Emission \subseteq Text /\ NoText \notin Text
ASSUME SaidAssumption == Said \subseteq UNION {ValidSaid(arm) : arm \in ControlArm}
ASSUME VerdictAssumption == Verdict \subseteq VerifierStatus

SameCell(s1, s2) == s1.problem = s2.problem /\ s1.arm = s2.arm

VARIABLES
  log, answers, fate, sealed,   \* the dispatch authority, see RunLedger
  said,       \* the responses of the host
  pc,         \* where each executor stands
  manifest,   \* the manifest each executor was given, 0 when idle
  step,       \* the request each executor is executing
  dispatch,   \* the dispatch each executor has registered, 0 before
  result,     \* the observation each executor has accepted
  held,       \* the dispatches whose completion has been returned to a caller
  emitted,    \* the products that product-only steps have handed out
  lost        \* history: those whose process died, or whose call raised

ledger == <<log, answers, fate, sealed>>
evars == <<pc, manifest, step, dispatch, result>>
controlVars == <<ledger, said, evars, held, emitted, lost>>

Ledger == INSTANCE RunLedger WITH
            Key        <- Slot,
            Signer     <- Nat,
            Outcome    <- AttemptResult,
            LogicalKey <- [r \in Request |-> r.slot]

NoStep == [slot |-> NoText]
NoResult == [status |-> "none", text |-> NoText]

ControlInit ==
  /\ Ledger!Init
  /\ said = {}
  /\ pc = [e \in Executor |-> "idle"]
  /\ manifest = [e \in Executor |-> 0]
  /\ step = [e \in Executor |-> NoStep]
  /\ dispatch = [e \in Executor |-> 0]
  /\ result = [e \in Executor |-> NoResult]
  /\ held = {}
  /\ emitted = {}
  /\ lost = {}

-----------------------------------------------------------------------------
(* What an adapter checks before it registers.                             *)

(* What it takes: the completion of an unverified, non-terminal step whose *)
(* response is an emission.                                                *)
ShowsProduct(a, text) ==
  /\ text \in Emission
  /\ a.outcome.status = "NO_ANSWER"
  /\ a.outcome.receipt = "none"
  /\ a.outcome.text = text

(* _authenticate_visible_product: the completion is the signed one.        *)
Authentic(p) ==
  \E a \in answers : a.entry = log[p.dispatch] /\ ShowsProduct(a, p.text)

(* Mutant: the completion is taken at its word.                            *)
TakenAtItsWord(s, p) ==
  /\ p.text \in Emission
  /\ log[p.dispatch].request.slot.attempt < s.attempt
  /\ SameCell(log[p.dispatch].request.slot, s)

(* Mutant: a product may be of another arm.                                *)
VisibleInProblem(s, p) ==
  /\ log[p.dispatch].request.slot.attempt < s.attempt
  /\ Authentic(p)
  /\ log[p.dispatch].request.slot.problem = s.problem

(* The checks of execute_product_only_step on one product.                 *)
Visible(s, p) ==
  /\ log[p.dispatch].request.slot.attempt < s.attempt
  /\ Authentic(p)
  /\ SameCell(log[p.dispatch].request.slot, s)

(* Whoever shows a product has its completion, or makes one up.            *)
Claimed(p) == Authentic(p) => p.dispatch \in held

(* render_product_only_request: product ids are content addresses.         *)
Distinct(products) ==
  \A p1, p2 \in products : p1.text = p2.text => p1 = p2

-----------------------------------------------------------------------------
(* The adapters, up to registration.  They are given the manifest of this  *)
(* moment: an older one can only add rejections, here or in register.  A   *)
(* call that is rejected here changes nothing.                             *)
Begin(e, req) ==
  /\ pc[e] = "idle"
  /\ Len(log) < MaxDispatch
  /\ pc' = [pc EXCEPT ![e] = "checked"]
  /\ manifest' = [manifest EXCEPT ![e] = Len(log)]
  /\ step' = [step EXCEPT ![e] = req]
  /\ UNCHANGED <<ledger, said, dispatch, result, held, emitted, lost>>

(* execute_multi_fidelity_stage refuses to render products; the baselines  *)
(* take the bytes of their request as they are.                            *)
WithoutProducts == {"ORDINARY", "PORTFOLIO", "MULTI_FIDELITY"}

(* execute_ordinary, execute_portfolio_attempt and                         *)
(* execute_multi_fidelity_stage.                                           *)
ExecuteBaseline(e, s) ==
  /\ s.arm \in WithoutProducts
  /\ Begin(e, [slot |-> s, shown |-> {}])

(* execute_product_only_step.                                              *)
ExecuteProductOnlyStep(e, s) ==
  /\ s.arm = "PRODUCT_ONLY"
  /\ \E shown \in SUBSET {p \in [dispatch : DOMAIN log, text : Text] :
                            Claimed(p) /\ Visible(s, p)} :
       /\ Distinct(shown)
       /\ Begin(e, [slot |-> s, shown |-> shown])

-----------------------------------------------------------------------------
(* _execute_baseline_attempt.                                              *)

(* The last entry of the updated manifest.                                 *)
RegisteredEntry == Len(log) + 1

(* BaselineDispatch refuses an entry that is not of this very request.     *)
IsDispatchOf(entry, req) == entry.request = req

(* register, with a signer nobody else has.                                *)
Register(e) ==
  /\ pc[e] = "checked"
  /\ manifest[e] = Len(log)
  /\ Ledger!Dispatch(step[e], Len(log))
  /\ IsDispatchOf(log'[RegisteredEntry], step[e])
  /\ pc' = [pc EXCEPT ![e] = "registered"]
  /\ manifest' = [manifest EXCEPT ![e] = RegisteredEntry]
  /\ dispatch' = [dispatch EXCEPT ![e] = RegisteredEntry]
  /\ UNCHANGED <<said, step, result, held, emitted, lost>>

Leave(e) ==
  /\ pc' = [pc EXCEPT ![e] = "idle"]
  /\ manifest' = [manifest EXCEPT ![e] = 0]
  /\ step' = [step EXCEPT ![e] = NoStep]
  /\ dispatch' = [dispatch EXCEPT ![e] = 0]
  /\ result' = [result EXCEPT ![e] = NoResult]

(* register raises: a stale manifest, a used key or a terminal run.        *)
RegisterRaises(e) ==
  /\ pc[e] = "checked"
  /\ \/ manifest[e] # Len(log)
     \/ fate # "OPEN"
     \/ \E i \in DOMAIN log : log[i].request.slot = step[e].slot
  /\ Leave(e)
  /\ UNCHANGED <<ledger, said, held, emitted, lost>>

(* The host ends the chat of a dispatch, whoever still waits for it.       *)
Say(d, s) ==
  /\ Cardinality(said) < MaxSaid
  /\ \A m \in said : m.dispatch # d
  /\ s \in ValidSaid(log[d].request.slot.arm)
  /\ said' = said \cup {[dispatch |-> d, kind |-> s.kind, text |-> s.text]}
  /\ UNCHANGED <<ledger, evars, held, emitted, lost>>

(* adapt_model_call: a product is no answer.                               *)
StatusOf(m) == IF m.kind = "PRODUCT" THEN "NO_ANSWER" ELSE m.kind

PortError == [status |-> "ERROR", text |-> NoText]

(* Mutant: the response that comes is the response.                        *)
ObservedAsIs(e, m) == [status |-> StatusOf(m), text |-> m.text]

(* _safe_model_call: evidence for another dispatch is an error.            *)
Observed(e, m) ==
  IF m.dispatch = dispatch[e]
  THEN [status |-> StatusOf(m), text |-> m.text]
  ELSE PortError

(* model_call returns some response of the host.                           *)
ModelCall(e, m) ==
  /\ pc[e] = "registered"
  /\ pc' = [pc EXCEPT ![e] = "observed"]
  /\ result' = [result EXCEPT ![e] = Observed(e, m)]
  /\ UNCHANGED <<ledger, said, manifest, step, dispatch, held, emitted, lost>>

(* model_call raises, or returns a value that is no observation.           *)
ModelCallRaises(e) ==
  /\ pc[e] = "registered"
  /\ pc' = [pc EXCEPT ![e] = "observed"]
  /\ result' = [result EXCEPT ![e] = PortError]
  /\ UNCHANGED <<ledger, said, manifest, step, dispatch, held, emitted, lost>>

(* model_call returns an error whose text no UTF-8 encodes: an observation *)
(* may carry it, AttemptResult refuses it, and the call raises.            *)
ResultRaises(e) ==
  /\ pc[e] = "registered"
  /\ lost' = lost \cup {dispatch[e]}
  /\ Leave(e)
  /\ UNCHANGED <<ledger, said, held, emitted>>

(* The completion of an attempt, with a receipt if it is an answer.        *)
Complete(e, receipt) ==
  /\ Ledger!Answer(dispatch[e], [status |-> result[e].status,
                                 text |-> result[e].text,
                                 receipt |-> receipt])
  /\ pc' = [pc EXCEPT ![e] = "signed"]
  /\ UNCHANGED <<said, manifest, step, dispatch, result, held, emitted, lost>>

(* An answer goes to the verifier.                                         *)
Verify(e, v) ==
  /\ pc[e] = "observed"
  /\ result[e].status = "ANSWERED"
  /\ Complete(e, v)

(* Mutant: an exception of the verifier leaves the call.                   *)
VerifierEscapes(e) ==
  /\ pc[e] = "observed"
  /\ result[e].status = "ANSWERED"
  /\ Leave(e)
  /\ UNCHANGED <<ledger, said, held, emitted, lost>>

(* verifier_call raises, or what it returns makes no receipt.              *)
VerifierRaises(e) ==
  /\ pc[e] = "observed"
  /\ result[e].status = "ANSWERED"
  /\ Complete(e, "ERROR")

(* Anything else is signed without a verifier call.                        *)
SignUnverified(e) ==
  /\ pc[e] = "observed"
  /\ result[e].status \in {"NO_ANSWER", "ERROR"}
  /\ Complete(e, "none")

(* Mutant: a product-only step hands out whatever its attempt said.        *)
AnyText(e) == {[dispatch |-> dispatch[e], text |-> result[e].text]}

(* The product of a product-only step, if its captured observation was one.*)
EmittedProduct(e) ==
  {p \in {[dispatch |-> dispatch[e], text |-> result[e].text]} :
     /\ result[e].status = "NO_ANSWER"
     /\ \E m \in said : /\ m.dispatch = dispatch[e]
                        /\ m.kind = "PRODUCT"
                        /\ m.text = p.text}

(* BaselineExecution: a completion of this request, bound to an entry of   *)
(* the updated manifest.                                                   *)
IsBound(e) ==
  /\ dispatch[e] \in 1 .. manifest[e]
  /\ \E a \in answers : a.entry = log[dispatch[e]] /\ a.request = step[e]

(* What the adapter returns.                                               *)
Return(e) ==
  /\ pc[e] = "signed"
  /\ IsBound(e)
  /\ held' = held \cup {dispatch[e]}
  /\ emitted' = IF step[e].slot.arm = "PRODUCT_ONLY"
                THEN emitted \cup EmittedProduct(e) ELSE emitted
  /\ Leave(e)
  /\ UNCHANGED <<ledger, said, lost>>

(* A process dies: what it held in memory is lost.                         *)
Crash(e) ==
  /\ pc[e] # "idle"
  /\ lost' = lost \cup ({dispatch[e]} \ {0})
  /\ Leave(e)
  /\ UNCHANGED <<ledger, said, held, emitted>>

-----------------------------------------------------------------------------
(* The coordinator closes the run with completions it was given.  To a     *)
(* call, an aborted run is as closed as a closed one: aborts are left out. *)
Close ==
  /\ DOMAIN log \subseteq held
  /\ Ledger!Seal
  /\ UNCHANGED <<said, evars, held, emitted, lost>>

-----------------------------------------------------------------------------
ControlNext ==
  \/ \E e \in Executor :
       \/ \E s \in Slot : \/ ExecuteBaseline(e, s)
                        \/ ExecuteProductOnlyStep(e, s)
       \/ Register(e)
       \/ RegisterRaises(e)
       \/ \E m \in said : ModelCall(e, m)
       \/ ModelCallRaises(e)
       \/ ResultRaises(e)
       \/ \E v \in Verdict : Verify(e, v)
       \/ VerifierRaises(e)
       \/ SignUnverified(e)
       \/ Return(e)
       \/ Crash(e)
  \/ \E d \in DOMAIN log, s \in Said : Say(d, s)
  \/ Close

ControlSpec == ControlInit /\ [][ControlNext]_controlVars

-----------------------------------------------------------------------------
(* Properties.                                                             *)

Entry == [sequence : Nat, request : Request, verifier : Nat]

(* What a product-only call shows the model is genuine: each product is the*)
(* signed, unverified and non-terminal response of an earlier dispatch and *)
(* attempt of the same cell, the product the host gave for that very       *)
(* dispatch, and no content is shown twice.                                *)
ShownIsGenuine ==
  \A i \in DOMAIN log : \A p \in log[i].request.shown :
    /\ p.dispatch < i
    /\ SameCell(log[p.dispatch].request.slot, log[i].request.slot)
    /\ log[p.dispatch].request.slot.arm = "PRODUCT_ONLY"
    /\ log[p.dispatch].request.slot.attempt < log[i].request.slot.attempt
    /\ Authentic(p)
    /\ [dispatch |-> p.dispatch, kind |-> "PRODUCT", text |-> p.text] \in said
    /\ \A q \in log[i].request.shown : q.text = p.text => q = p

(* A response counts for the dispatch it was given for and for no other:   *)
(* what is signed, the host said for that dispatch and with that status,   *)
(* or else it is an error with no response at all.                         *)
NothingIsReplayed ==
  \A a \in answers : \A d \in DOMAIN log :
    a.entry = log[d] =>
      \/ \E m \in said : /\ m.dispatch = d
                         /\ m.text = a.outcome.text
                         /\ StatusOf(m) = a.outcome.status
      \/ a.outcome = [status |-> "ERROR", text |-> NoText, receipt |-> "none"]

(* Only a death loses a dispatch: whatever a port does, a registered       *)
(* dispatch is signed or still in the hands of its executor, unless that   *)
(* process died or the host gave an error whose text cannot be encoded.    *)
OnlyDeathLoses ==
  \A d \in DOMAIN log :
    \/ d \in lost
    \/ d \in held
    \/ \E e \in Executor : dispatch[e] = d

(* A product that a step hands out can be shown from then on: its          *)
(* completion is signed, unverified and non-terminal, with that content.   *)
EmittedCanBeShown ==
  \A p \in emitted : p.dispatch \in held /\ Authentic(p)
=============================================================================
