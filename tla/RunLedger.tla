------------------------------ MODULE RunLedger ------------------------------
(***************************************************************************)
(* What the dispatch authority promises about one run, with no database,   *)
(* no processes and no stale copies: an append-only log of dispatches with *)
(* distinct logical keys, at most one signed answer for each, and a single *)
(* end.  The run ends either sealed, with exactly the signed answer of     *)
(* every dispatch in the log and nothing else, or abandoned, with none.    *)
(***************************************************************************)
EXTENDS Naturals, Sequences

CONSTANTS
  Request,     \* frozen problem requests
  Key,         \* logical keys: (problem_id, arm, attempt_index)
  Signer,      \* one-shot completion signers
  Outcome,     \* typed attempt and verifier evidence
  LogicalKey   \* the key of each request

VARIABLES
  log,         \* the dispatches, in registration order
  answers,     \* every signed answer
  fate,        \* "OPEN", "CLOSED" or "ABORTED"
  sealed       \* the answers the run was closed with, in log order

vars == <<log, answers, fate, sealed>>

Init ==
  /\ log = <<>>
  /\ answers = {}
  /\ fate = "OPEN"
  /\ sealed = <<>>

(* A dispatch joins the log before it is answered, under a fresh key and   *)
(* a fresh signer.                                                         *)
Dispatch(req, s) ==
  /\ fate = "OPEN"
  /\ \A i \in DOMAIN log :
       /\ LogicalKey[log[i].request] # LogicalKey[req]
       /\ log[i].verifier # s
  /\ log' = Append(log, [sequence |-> Len(log), request |-> req, verifier |-> s])
  /\ UNCHANGED <<answers, fate, sealed>>

(* A dispatched request is answered, once, whatever has become of the run. *)
Answer(i, o) ==
  /\ i \in DOMAIN log
  /\ \A a \in answers : a.signer # log[i].verifier
  /\ answers' = answers \cup
       {[entry |-> log[i], request |-> log[i].request, outcome |-> o,
         signer |-> log[i].verifier]}
  /\ UNCHANGED <<log, fate, sealed>>

(* The run is sealed with one answer for each dispatch of a non-empty log. *)
Seal ==
  /\ fate = "OPEN"
  /\ log # <<>>
  /\ \E chosen \in [1 .. Len(log) -> answers] :
       /\ \A i \in DOMAIN log : chosen[i].entry = log[i]
       /\ sealed' = chosen
  /\ fate' = "CLOSED"
  /\ UNCHANGED <<log, answers>>

Abandon ==
  /\ fate = "OPEN"
  /\ fate' = "ABORTED"
  /\ UNCHANGED <<log, answers, sealed>>

Next ==
  \/ \E req \in Request, s \in Signer : Dispatch(req, s)
  \/ \E i \in DOMAIN log, o \in Outcome : Answer(i, o)
  \/ Seal
  \/ Abandon

Spec == Init /\ [][Next]_vars
=============================================================================
