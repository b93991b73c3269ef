------------------------ MODULE VerifiedChainExecution ------------------------
(***************************************************************************)
(* execute_verified_chain_step of execution/verified_chain.py, run by      *)
(* several executors against one run of the dispatch authority (RunLedger) *)
(* and one VerifiedChainExecutionAuthority.                                *)
(*                                                                         *)
(* A step authenticates the products and the retry predecessor its request *)
(* shows to the model, registers the request, obtains and signs an answer, *)
(* records the completion in the execution ledger, and returns it.  The    *)
(* two ledgers are separate databases, and an executor may die in between. *)
(*                                                                         *)
(* A dispatch is named by its position in the log.  Manifests are prefixes *)
(* of the log, so a manifest is the number of dispatches it lists.  Rows   *)
(* of both ledgers are only ever added, so the checks of one call, each    *)
(* made on a connection of its own, hold together when the last is made:   *)
(* they are one action.                                                    *)
(***************************************************************************)
EXTENDS Naturals, Sequences, FiniteSets

CONSTANTS
  Executor,     \* processes that call execute_verified_chain_step
  Cell,         \* frozen cells: one problem of the VERIFIED_CHAIN arm
  Body,         \* product contents
  NoBody,       \* the content of an answer that is not a product
  Outcome,      \* the classified observations and receipts that may occur
  MaxAttempt,   \* bound: last attempt of a cell (15 in the frozen protocol)
  MaxDirect     \* bound: dispatches registered by no step

Attempt == 0 .. MaxAttempt

(* VerifiedChainObservationKind.  PRODUCT and ANSWERED are both answers to *)
(* the dispatch authority, and only answers are verified.                  *)
Kind == {"PRODUCT", "ANSWERED", "NO_ANSWER", "ERROR"}

VerifierStatus == {"PASS", "FAIL", "TIMEOUT", "ERROR"}

ValidOutcome ==
  {o \in [kind : Kind, receipt : VerifierStatus \cup {"none"},
          body : Body \cup {NoBody}] :
     /\ o.kind \in {"PRODUCT", "ANSWERED"} <=> o.receipt # "none"
     /\ o.kind = "PRODUCT" <=> o.body # NoBody}

ASSUME BoundAssumption   == MaxAttempt \in Nat /\ MaxDirect \in Nat
ASSUME BodyAssumption    == NoBody \notin Body
ASSUME OutcomeAssumption == Outcome \subseteq ValidOutcome

NoRetry == 0

Position == Nat \ {0}

(* What the canonical request bytes commit to.                             *)
Request ==
  [cell : Cell, attempt : Attempt, products : SUBSET Position,
   retry : Position \cup {NoRetry}]

VARIABLES
  log, answers, fate, sealed,   \* the dispatch authority, see RunLedger
  rows,       \* the rows of verified_chain_executions
  pc,         \* where each executor stands
  manifest,   \* the manifest each executor was given, 0 when idle
  step,       \* the request each executor is executing
  dispatch,   \* the dispatch each executor has registered, 0 before
  held,       \* the dispatches whose completion has been returned to a caller
  executed    \* history: the dispatches registered by an executed step

ledger == <<log, answers, fate, sealed>>
evars == <<pc, manifest, step, dispatch>>
vars == <<ledger, rows, evars, held, executed>>

Ledger == INSTANCE RunLedger WITH
            Key        <- Cell \X Attempt,
            Signer     <- Nat,
            LogicalKey <- [r \in Request |-> <<r.cell, r.attempt>>]

NoStep == [cell |-> NoBody]

Init ==
  /\ Ledger!Init
  /\ rows = {}
  /\ pc = [e \in Executor |-> "idle"]
  /\ manifest = [e \in Executor |-> 0]
  /\ step = [e \in Executor |-> NoStep]
  /\ dispatch = [e \in Executor |-> 0]
  /\ held = {}
  /\ executed = {}

-----------------------------------------------------------------------------
(* The values a step checks.                                               *)

(* AdmittedProduct: an answer that is a product, with a Lean PASS.         *)
IsProduct(a) == a.outcome.kind = "PRODUCT" /\ a.outcome.receipt = "PASS"

(* Mutant: any completion may be retried.                                  *)
AnyCompletion(a) == TRUE

(* RetryLink: anything but an answer with a Lean PASS.                     *)
IsRetryable(a) == a.outcome.receipt # "PASS"

(* The row of the execution ledger that matches the completion of d.       *)
RowsOf(d) == {w \in rows : w.answer.entry = log[d]}

(* Mutant: the signed completion is taken as evidence, without its row.    *)
SignedProduct(req, d) ==
  /\ d \in DOMAIN log
  /\ log[d].request.attempt < req.attempt
  /\ log[d].request.cell = req.cell
  /\ \E a \in answers : a.entry = log[d] /\ IsProduct(a)

(* verify_admitted_product, _authenticate_admitted_product.                *)
AuthenticProduct(req, d) ==
  /\ d \in DOMAIN log
  /\ log[d].request.attempt < req.attempt
  /\ log[d].request.cell = req.cell
  /\ \E w \in RowsOf(d) : w.admitted /\ IsProduct(w.answer)

(* Products are distinct contents.                                         *)
DistinctProducts(req) ==
  \A d1, d2 \in req.products : \A w1 \in RowsOf(d1), w2 \in RowsOf(d2) :
    w1.answer.outcome.body = w2.answer.outcome.body => d1 = d2

(* verify_retry, _authenticate_retry.                                      *)
AuthenticRetry(req, d) ==
  /\ d \in DOMAIN log
  /\ log[d].request.attempt + 1 = req.attempt
  /\ log[d].request.cell = req.cell
  /\ \E w \in RowsOf(d) : IsRetryable(w.answer)

-----------------------------------------------------------------------------
(* The call with the manifest of this moment, up to and including its      *)
(* authentication of products and retry.  A rejected call raises and       *)
(* changes nothing; an older manifest can only add rejections, here or in  *)
(* register, which sees whether the log has grown.                         *)
Authenticate(e, req) ==
  /\ pc[e] = "idle"
  /\ req.products \cup ({req.retry} \ {NoRetry}) \subseteq held
  /\ \A d \in req.products : AuthenticProduct(req, d)
  /\ DistinctProducts(req)
  /\ req.retry # NoRetry => AuthenticRetry(req, req.retry)
  /\ pc' = [pc EXCEPT ![e] = "authenticated"]
  /\ manifest' = [manifest EXCEPT ![e] = Len(log)]
  /\ step' = [step EXCEPT ![e] = req]
  /\ UNCHANGED <<ledger, rows, dispatch, held, executed>>

(* The registered entry is the last of the updated manifest.               *)
RegisteredEntry == Len(log) + 1

(* register, with a signer nobody else has.                                *)
Register(e) ==
  /\ pc[e] = "authenticated"
  /\ manifest[e] = Len(log)
  /\ Ledger!Dispatch(step[e], Len(log))
  /\ pc' = [pc EXCEPT ![e] = "registered"]
  /\ manifest' = [manifest EXCEPT ![e] = RegisteredEntry]
  /\ dispatch' = [dispatch EXCEPT ![e] = RegisteredEntry]
  /\ executed' = executed \cup {RegisteredEntry}
  /\ UNCHANGED <<rows, step, held>>

Leave(e) ==
  /\ pc' = [pc EXCEPT ![e] = "idle"]
  /\ manifest' = [manifest EXCEPT ![e] = 0]
  /\ step' = [step EXCEPT ![e] = NoStep]
  /\ dispatch' = [dispatch EXCEPT ![e] = 0]

(* register raises: a stale manifest, a used key or a terminal run.        *)
RegisterRaises(e) ==
  /\ pc[e] = "authenticated"
  /\ \/ manifest[e] # Len(log)
     \/ fate # "OPEN"
     \/ \E i \in DOMAIN log : /\ log[i].request.cell = step[e].cell
                              /\ log[i].request.attempt = step[e].attempt
  /\ Leave(e)
  /\ UNCHANGED <<ledger, rows, held, executed>>

(* The model call, the verifier call on an answer, and the signature.      *)
Answer(e, o) ==
  /\ pc[e] = "registered"
  /\ Ledger!Answer(dispatch[e], o)
  /\ pc' = [pc EXCEPT ![e] = "answered"]
  /\ UNCHANGED <<rows, manifest, step, dispatch, held, executed>>

(* Mutant: every verified answer is recorded as an admitted product.       *)
AdmitEveryPass(a) == a.outcome.receipt = "PASS"

Admit(a) == IsProduct(a)

(* _record_execution.  Only the executor of a dispatch ever writes its row.*)
Record(e) ==
  /\ pc[e] = "answered"
  /\ \E a \in answers :
       /\ a.entry = log[dispatch[e]]
       /\ rows' = rows \cup {[answer |-> a, admitted |-> Admit(a)]}
  /\ pc' = [pc EXCEPT ![e] = "recorded"]
  /\ UNCHANGED <<ledger, manifest, step, dispatch, held, executed>>

(* Mutant: the completion is handed out as soon as it is signed.           *)
ReturnUnrecorded(e) ==
  /\ pc[e] \in {"answered", "recorded"}
  /\ held' = held \cup {dispatch[e]}
  /\ IF pc[e] = "recorded" THEN Leave(e) ELSE UNCHANGED evars
  /\ UNCHANGED <<ledger, rows, executed>>

(* The VerifiedChainStepExecution is returned.                             *)
Return(e) ==
  /\ pc[e] = "recorded"
  /\ held' = held \cup {dispatch[e]}
  /\ Leave(e)
  /\ UNCHANGED <<ledger, rows, executed>>

(* An executor dies, or a step raises: what it held in memory is lost.     *)
Crash(e) ==
  /\ pc[e] # "idle"
  /\ Leave(e)
  /\ UNCHANGED <<ledger, rows, held, executed>>

-----------------------------------------------------------------------------
(* The rest of the program.  The dispatch authority also takes requests of *)
(* the arm that do not come through a step, and completions signed for     *)
(* them; the coordinator closes the run with completions it was given, or  *)
(* aborts it.                                                              *)

DirectRegister(c, n) ==
  /\ Cardinality(DOMAIN log \ executed) < MaxDirect
  /\ Ledger!Dispatch([cell |-> c, attempt |-> n, products |-> {},
                      retry |-> NoRetry], Len(log))
  /\ UNCHANGED <<rows, evars, held, executed>>

DirectAnswer(d, o) ==
  /\ d \notin executed
  /\ Ledger!Answer(d, o)
  /\ held' = held \cup {d}
  /\ UNCHANGED <<rows, evars, executed>>

Close ==
  /\ DOMAIN log \subseteq held
  /\ Ledger!Seal
  /\ UNCHANGED <<rows, evars, held, executed>>

Abort ==
  /\ Ledger!Abandon
  /\ UNCHANGED <<rows, evars, held, executed>>

-----------------------------------------------------------------------------
Next ==
  \/ \E e \in Executor :
       \/ \E c \in Cell, n \in Attempt, ds \in SUBSET held,
             r \in held \cup {NoRetry} :
            Authenticate(e, [cell |-> c, attempt |-> n, products |-> ds,
                             retry |-> r])
       \/ Register(e)
       \/ RegisterRaises(e)
       \/ \E o \in Outcome : Answer(e, o)
       \/ Record(e)
       \/ Return(e)
       \/ Crash(e)
  \/ \E c \in Cell, n \in Attempt : DirectRegister(c, n)
  \/ \E d \in DOMAIN log, o \in Outcome : DirectAnswer(d, o)
  \/ Close
  \/ Abort

Spec == Init /\ [][Next]_vars

-----------------------------------------------------------------------------
Entry == [sequence : Nat, request : Request, verifier : Nat]

TypeOK ==
  /\ log \in Seq(Entry)
  /\ answers \subseteq
       [entry : Entry, request : Request, outcome : Outcome, signer : Nat]
  /\ fate \in {"OPEN", "CLOSED", "ABORTED"}
  /\ rows \subseteq [answer : answers, admitted : BOOLEAN]
  /\ pc \in [Executor -> {"idle", "authenticated", "registered", "answered",
                          "recorded"}]
  /\ manifest \in [Executor -> 0 .. Len(log)]
  /\ step \in [Executor -> Request \cup {NoStep}]
  /\ dispatch \in [Executor -> 0 .. Len(log)]
  /\ held \subseteq DOMAIN log
  /\ executed \subseteq DOMAIN log

Verified(i, d) ==
  /\ d \in executed
  /\ d < i
  /\ log[d].request.cell = log[i].request.cell
  /\ RowsOf(d) # {}

(* What an executed request shows the model is genuine: every product and  *)
(* predecessor is an earlier executed dispatch of the same cell, recorded, *)
(* the product with a Lean PASS and the predecessor, which is the attempt  *)
(* just before, without one.                                               *)
LineageIsVerified ==
  \A i \in executed :
    /\ \A d \in log[i].request.products :
         /\ Verified(i, d)
         /\ log[d].request.attempt < log[i].request.attempt
         /\ \E a \in answers : a.entry = log[d] /\ IsProduct(a)
    /\ log[i].request.retry # NoRetry =>
         LET r == log[i].request.retry
         IN /\ Verified(i, r)
            /\ log[r].request.attempt + 1 = log[i].request.attempt
            /\ \E a \in answers : a.entry = log[r] /\ a.outcome.receipt # "PASS"

(* A dispatch is used one way: it feeds forward or it is retried, never    *)
(* both, and it is retried at most once.                                   *)
UsedOneWay ==
  \A i, j \in executed :
    LET r == log[i].request.retry
    IN r # NoRetry =>
         /\ r \notin log[j].request.products
         /\ log[j].request.retry = r => i = j

(* When the run is closed, every dispatch a step registered has its row in *)
(* the execution ledger: the close cannot overtake the recording.          *)
ClosedRunIsRecorded ==
  fate = "CLOSED" => \A d \in executed : RowsOf(d) # {}

(* The execution ledger agrees with the signed answers: a dispatch has one *)
(* row at most, for the one answer signed for it, by its executor, and is  *)
(* admitted exactly when that answer is a product with a Lean PASS; and    *)
(* once the run is closed no row is missing.                               *)
LedgerAgrees ==
  /\ \A w1, w2 \in rows : w1.answer.entry = w2.answer.entry => w1 = w2
  /\ \A w \in rows :
       /\ \E d \in executed : w.answer.entry = log[d]
       /\ w.admitted <=> (w.answer.outcome.kind = "PRODUCT"
                          /\ w.answer.outcome.receipt = "PASS")
  /\ ClosedRunIsRecorded

(* A dispatch whose executor died before recording it.                     *)
Lost(d) ==
  /\ d \in executed
  /\ RowsOf(d) = {}
  /\ \A e \in Executor : dispatch[e] # d

(* A lost dispatch stays lost: it never becomes a product or predecessor,  *)
(* and, as its completion went with its executor, the run cannot be closed.*)
LostStay ==
  \A d \in executed :
    Lost(d) =>
      /\ Lost(d)'
      /\ fate' # "CLOSED"
      /\ \A i \in executed' \ executed :
           /\ d \notin log'[i].request.products
           /\ d # log'[i].request.retry

LostIsForever == [][LostStay]_vars
=============================================================================
