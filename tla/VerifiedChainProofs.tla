-------------------------- MODULE VerifiedChainProofs --------------------------
(***************************************************************************)
(* Proofs about VerifiedChainExecution, for any executors, cells, contents *)
(* and attempts.                                                           *)
(*                                                                         *)
(* Both ledgers only grow, so what a step has authenticated stays true     *)
(* until it registers; a completion is returned only after its row exists, *)
(* so whatever a later step or the close is given is on record.            *)
(***************************************************************************)
EXTENDS VerifiedChainExecution, TLAPS

-----------------------------------------------------------------------------
(* The inductive invariant.                                                *)

(* The log: positions, signers and keys.                                   *)
LogInv ==
  \A i \in DOMAIN log :
    /\ log[i].sequence = i - 1
    /\ log[i].verifier = i - 1
    /\ \A j \in DOMAIN log :
         (/\ log[i].request.cell = log[j].request.cell
          /\ log[i].request.attempt = log[j].request.attempt) => i = j

(* Every answer belongs to a dispatch, and a dispatch has one at most.     *)
AnswersInv ==
  /\ \A a \in answers :
       /\ \E d \in DOMAIN log : a.entry = log[d]
       /\ a.signer = a.entry.verifier
  /\ \A a1, a2 \in answers : a1.entry = a2.entry => a1 = a2

RowsInv ==
  \A w \in rows :
    /\ \E d \in executed : w.answer.entry = log[d]
    /\ w.admitted <=> IsProduct(w.answer)

(* What an executor is about to register or record.                        *)
AuthenticStep(e) ==
  /\ step[e] \in Request
  /\ \A d \in step[e].products :
       d \in executed /\ AuthenticProduct(step[e], d)
  /\ step[e].retry # NoRetry =>
       step[e].retry \in executed /\ AuthenticRetry(step[e], step[e].retry)

ExecutorsInv ==
  \A e \in Executor :
    /\ pc[e] = "authenticated" => AuthenticStep(e)
    /\ pc[e] \in {"registered", "answered", "recorded"} =>
         dispatch[e] \in executed
    /\ pc[e] = "recorded" => RowsOf(dispatch[e]) # {}

(* LineageIsVerified, one product or predecessor at a time.                *)
GenuineProduct(i, d) ==
  /\ Verified(i, d)
  /\ log[d].request.attempt < log[i].request.attempt
  /\ \E a \in answers : a.entry = log[d] /\ IsProduct(a)

GenuineRetry(i, d) ==
  /\ Verified(i, d)
  /\ log[d].request.attempt + 1 = log[i].request.attempt
  /\ \E a \in answers : a.entry = log[d] /\ a.outcome.receipt # "PASS"

HeldInv == \A d \in held \cap executed : RowsOf(d) # {}

IInv ==
  /\ TypeOK
  /\ LogInv
  /\ AnswersInv
  /\ RowsInv
  /\ ExecutorsInv
  /\ HeldInv
  /\ LineageIsVerified
  /\ ClosedRunIsRecorded

-----------------------------------------------------------------------------
(* Nothing has been registered.                                            *)
LEMMA InitIInv == Init => IInv
  BY DEF Init, Ledger!Init, IInv, TypeOK, LogInv, AnswersInv, RowsInv,
         ExecutorsInv, HeldInv, LineageIsVerified, ClosedRunIsRecorded, NoStep

(* A registration appends one entry, under a key and a signer not in the   *)
(* log.                                                                    *)
LEMMA DispatchStep ==
  ASSUME TypeOK, NEW req \in Request, Ledger!Dispatch(req, Len(log))
  PROVE  /\ log' \in Seq(Entry)
         /\ Len(log') = Len(log) + 1
         /\ DOMAIN log = 1 .. Len(log)
         /\ DOMAIN log' = 1 .. Len(log) + 1
         /\ \A i \in DOMAIN log : log'[i] = log[i]
         /\ log'[Len(log) + 1] = [sequence |-> Len(log), request |-> req,
                                  verifier |-> Len(log)]
         /\ fate = "OPEN"
         /\ UNCHANGED <<answers, fate, sealed>>
         /\ \A i \in DOMAIN log : ~ /\ log[i].request.cell = req.cell
                                    /\ log[i].request.attempt = req.attempt
<1>1. log \in Seq(Entry) /\ Len(log) \in Nat /\ DOMAIN log = 1 .. Len(log)
  BY DEF TypeOK
<1>2. [sequence |-> Len(log), request |-> req, verifier |-> Len(log)] \in Entry
  BY <1>1 DEF Entry
<1>3. log' = Append(log, [sequence |-> Len(log), request |-> req,
                          verifier |-> Len(log)])
  BY DEF Ledger!Dispatch
<1>4. ASSUME NEW i \in DOMAIN log PROVE log[i].request \in Request
  <2>1. log[i] \in Entry
    BY <1>1
  <2> QED
    BY <2>1 DEF Entry
<1>5. \A i \in DOMAIN log :
        <<log[i].request.cell, log[i].request.attempt>> # <<req.cell, req.attempt>>
  <2> DEFINE K == [r \in Request |-> <<r.cell, r.attempt>>]
  <2>1. \A i \in DOMAIN log : K[log[i].request] # K[req]
    BY DEF Ledger!Dispatch
  <2>2. \A r \in Request : K[r] = <<r.cell, r.attempt>>
    OBVIOUS
  <2> QED
    BY <1>4, <2>1, <2>2
<1>6. /\ log' \in Seq(Entry)
      /\ Len(log') = Len(log) + 1
      /\ \A i \in 1 .. Len(log) : log'[i] = log[i]
      /\ log'[Len(log) + 1] = [sequence |-> Len(log), request |-> req,
                               verifier |-> Len(log)]
  BY <1>1, <1>2, <1>3
<1>7. DOMAIN log' = 1 .. Len(log) + 1
  BY <1>6
<1>8. fate = "OPEN" /\ UNCHANGED <<answers, fate, sealed>>
  BY DEF Ledger!Dispatch
<1> QED
  BY <1>1, <1>5, <1>6, <1>7, <1>8
(* What a request names stays genuine while nobody executes another and    *)
(* the log keeps its entries: answers and rows are only added.             *)
LEMMA LineageKept ==
  ASSUME LineageIsVerified, UNCHANGED executed,
         \A d \in executed : log'[d] = log[d],
         answers \subseteq answers', rows \subseteq rows'
  PROVE  LineageIsVerified'
<1>1. \A d \in executed : RowsOf(d) # {} => RowsOf(d)' # {}
  BY DEF RowsOf
<1>2. \A i, d \in executed : Verified(i, d) => Verified(i, d)'
  BY <1>1 DEF Verified
<1>3. \A i, d : Verified(i, d) => d \in executed
  BY DEF Verified
<1>4. \A a \in answers : IsProduct(a) => IsProduct(a)'
  BY DEF IsProduct
<1>5. ASSUME NEW i \in executed, NEW d \in log[i].request.products
      PROVE  /\ Verified(i, d)'
             /\ log'[d].request.attempt < log'[i].request.attempt
             /\ \E a \in answers' : a.entry = log'[d] /\ IsProduct(a)'
  <2>1. /\ Verified(i, d)
        /\ log[d].request.attempt < log[i].request.attempt
        /\ \E a \in answers : a.entry = log[d] /\ IsProduct(a)
    BY <1>5 DEF LineageIsVerified
  <2>2. d \in executed /\ log'[d] = log[d] /\ log'[i] = log[i]
    BY <1>3, <2>1
  <2> QED
    BY <1>2, <1>4, <2>1, <2>2
<1>6. ASSUME NEW i \in executed, NEW r, r = log[i].request.retry, r # NoRetry
      PROVE  /\ Verified(i, r)'
             /\ log'[r].request.attempt + 1 = log'[i].request.attempt
             /\ \E a \in answers' : a.entry = log'[r] /\ a.outcome.receipt # "PASS"
  <2>1. /\ Verified(i, r)
        /\ log[r].request.attempt + 1 = log[i].request.attempt
        /\ \E a \in answers : a.entry = log[r] /\ a.outcome.receipt # "PASS"
    BY <1>6 DEF LineageIsVerified
  <2>2. r \in executed /\ log'[r] = log[r] /\ log'[i] = log[i]
    BY <1>3, <2>1
  <2> QED
    BY <1>2, <2>1, <2>2
<1> QED
  BY <1>5, <1>6 DEF LineageIsVerified

(* Every step keeps the invariant: the two ledgers only grow, so what an   *)
(* executor has authenticated or recorded cannot be taken back.            *)
LEMMA NextIInv == IInv /\ [Next]_vars => IInv'
<1> SUFFICES ASSUME IInv, [Next]_vars PROVE IInv'
  OBVIOUS
<1> USE DEF IInv, ledger, evars, Position, NoRetry
<1>0. log \in Seq(Entry) /\ Len(log) \in Nat /\ DOMAIN log = 1 .. Len(log)
  BY DEF TypeOK
<1>a. \A d \in DOMAIN log : /\ log[d] \in Entry
                            /\ log[d].request \in Request
                            /\ log[d].verifier \in Nat
  <2>1. \A d \in DOMAIN log : log[d] \in Entry
    BY <1>0
  <2> QED
    BY <2>1 DEF Entry
<1>b. \A d1, d2 \in DOMAIN log : log[d1] = log[d2] => d1 = d2
  BY <1>0 DEF LogInv
<1>c. \A d \in DOMAIN log : RowsOf(d) # {} => d \in executed
  BY <1>b DEF RowsInv, RowsOf, TypeOK
<1>1. ASSUME NEW e \in Executor, NEW c \in Cell, NEW n \in Attempt,
             NEW ds \in SUBSET held, NEW r \in held \cup {NoRetry},
             Authenticate(e, [cell |-> c, attempt |-> n, products |-> ds,
                              retry |-> r])
      PROVE  IInv'
  <2> DEFINE req == [cell |-> c, attempt |-> n, products |-> ds, retry |-> r]
  <2>q. req \in Request
    BY <1>0 DEF Request, TypeOK
  <2>u. Authenticate(e, req)
    BY <1>1
  <2> HIDE DEF req
  <2>1. TypeOK'
    BY <1>0, <2>q, <2>u DEF TypeOK, Authenticate
  <2>2. LogInv'
    BY <1>0, <1>1, <2>1 DEF TypeOK, Authenticate, LogInv
  <2>3. AnswersInv'
    BY <1>0, <1>1, <2>1 DEF TypeOK, Authenticate, AnswersInv
  <2>4. RowsInv'
    BY <1>0, <1>1, <2>1 DEF TypeOK, Authenticate, RowsInv, IsProduct
  <2>5. ExecutorsInv'
    <3>1. \A d \in req.products :
            d \in executed /\ AuthenticProduct(req, d)
      BY <1>c, <2>u DEF Authenticate, AuthenticProduct, RowsOf
    <3>2. req.retry # NoRetry =>
            req.retry \in executed /\ AuthenticRetry(req, req.retry)
      BY <1>c, <2>u DEF Authenticate, AuthenticRetry, RowsOf
    <3>3. \A x \in Executor : x # e =>
            step'[x] = step[x] /\ pc'[x] = pc[x]
      BY <2>u DEF Authenticate, TypeOK
    <3>4. step'[e] = req /\ pc'[e] = "authenticated"
      BY <2>u DEF Authenticate, TypeOK
    <3> QED
      BY <2>q, <2>u, <3>1, <3>2, <3>3, <3>4
      DEF Authenticate, ExecutorsInv, AuthenticStep, AuthenticProduct,
          AuthenticRetry, RowsOf
  <2>6. HeldInv'
    BY <1>0, <1>1, <2>1 DEF TypeOK, Authenticate, HeldInv, RowsOf
  <2>7. LineageIsVerified'
    BY <1>1, LineageKept DEF Authenticate
  <2>8. ClosedRunIsRecorded'
    BY <1>0, <1>1, <2>1 DEF TypeOK, Authenticate, ClosedRunIsRecorded, RowsOf
  <2> QED
    BY <2>1, <2>2, <2>3, <2>4, <2>5, <2>6, <2>7, <2>8
<1>2. ASSUME NEW e \in Executor, Register(e)
      PROVE  IInv'
  <2>r. step[e] \in Request /\ Ledger!Dispatch(step[e], Len(log))
    BY <1>2 DEF Register, ExecutorsInv, AuthenticStep
  <2>d. Len(log) + 1 \notin executed /\ RegisteredEntry = Len(log) + 1
    BY <1>0 DEF TypeOK, RegisteredEntry
  <2>g. /\ log' \in Seq(Entry)
        /\ Len(log') = Len(log) + 1
        /\ DOMAIN log' = 1 .. Len(log) + 1
        /\ \A i \in DOMAIN log : log'[i] = log[i]
        /\ log'[Len(log) + 1] = [sequence |-> Len(log), request |-> step[e],
                                 verifier |-> Len(log)]
        /\ fate = "OPEN"
        /\ UNCHANGED <<answers, fate, sealed>>
        /\ \A i \in DOMAIN log : ~ /\ log[i].request.cell = step[e].cell
                                   /\ log[i].request.attempt = step[e].attempt
    BY <2>r, DispatchStep
  <2>1. TypeOK'
    BY <1>0, <2>r, <2>d, <2>g, <1>2 DEF TypeOK, Register, AnswersInv, RowsInv
  <2>2. LogInv'
    <3>1. \A i \in DOMAIN log : log'[i].sequence = i - 1 /\ log'[i].verifier = i - 1
      BY <1>0, <2>g DEF LogInv
    <3>2. /\ log'[Len(log) + 1].sequence = Len(log)
          /\ log'[Len(log) + 1].verifier = Len(log)
          /\ log'[Len(log) + 1].request = step[e]
      BY <2>g
    <3>3. \A i \in DOMAIN log' : i \in DOMAIN log \/ i = Len(log) + 1
      BY <1>0, <2>g
    <3>4. \A i \in DOMAIN log' :
            log'[i].sequence = i - 1 /\ log'[i].verifier = i - 1
      BY <1>0, <3>1, <3>2, <3>3
    <3>5. ASSUME NEW i \in DOMAIN log', NEW j \in DOMAIN log',
                 log'[i].request.cell = log'[j].request.cell,
                 log'[i].request.attempt = log'[j].request.attempt
          PROVE  i = j
      <4>1. CASE i \in DOMAIN log /\ j \in DOMAIN log
        BY <2>g, <3>5, <4>1 DEF LogInv
      <4>2. CASE i \in DOMAIN log /\ j = Len(log) + 1
        BY <2>g, <3>2, <3>5, <4>2
      <4>3. CASE i = Len(log) + 1 /\ j \in DOMAIN log
        BY <2>g, <3>2, <3>5, <4>3
      <4> QED
        BY <3>3, <4>1, <4>2, <4>3
    <3> QED
      BY <3>4, <3>5 DEF LogInv
  <2>3. AnswersInv'
    BY <1>0, <2>r, <2>d, <2>g, <1>2, <2>1 DEF TypeOK, Register, AnswersInv
  <2>4. RowsInv'
    BY <1>0, <2>r, <2>d, <2>g, <1>2, <2>1
    DEF TypeOK, Register, RowsInv, IsProduct
  <2>5. ExecutorsInv'
    BY <1>0, <2>r, <2>d, <2>g, <1>2, <2>1
    DEF TypeOK, Register, ExecutorsInv, AuthenticStep, AuthenticProduct,
        AuthenticRetry, RowsOf
  <2>6. HeldInv'
    BY <1>0, <2>r, <2>d, <2>g, <1>2, <2>1
    DEF TypeOK, Register, HeldInv, RowsOf
  <2>7. LineageIsVerified'
    <3>1. /\ rows' = rows /\ answers' = answers
          /\ executed' = executed \cup {Len(log) + 1}
      BY <1>2, <2>d, <2>g DEF Register
    <3>2. \A d \in DOMAIN log : RowsOf(d)' = RowsOf(d) /\ log'[d] = log[d]
      BY <2>g, <3>1 DEF RowsOf
    <3>3. PICK n \in Nat : n = Len(log) + 1
      BY <1>0
    <3>4. log'[n].request = step[e] /\ AuthenticStep(e)
      BY <1>2, <2>g, <3>3 DEF Register, ExecutorsInv
    <3>5. \A w \in rows : w.answer \in answers
      BY DEF TypeOK
    <3>6. \A d \in executed : d \in DOMAIN log /\ d < n
      BY <1>0, <3>3 DEF TypeOK
    <3>7. ASSUME NEW i \in executed, NEW d, d \in log[i].request.products
          PROVE  GenuineProduct(i, d)'
      <4>1. GenuineProduct(i, d)
        BY <3>7 DEF LineageIsVerified, GenuineProduct
      <4>2. log'[d] = log[d] /\ log'[i] = log[i] /\ RowsOf(d)' = RowsOf(d)
        BY <3>2, <3>6, <4>1 DEF GenuineProduct, Verified
      <4> QED
        BY <3>1, <4>1, <4>2 DEF GenuineProduct, Verified, IsProduct
    <3>8. ASSUME NEW i \in executed, NEW d, d = log[i].request.retry, d # NoRetry
          PROVE  GenuineRetry(i, d)'
      <4>1. GenuineRetry(i, d)
        BY <3>8 DEF LineageIsVerified, GenuineRetry
      <4>2. log'[d] = log[d] /\ log'[i] = log[i] /\ RowsOf(d)' = RowsOf(d)
        BY <3>2, <3>6, <4>1 DEF GenuineRetry, Verified
      <4> QED
        BY <3>1, <4>1, <4>2 DEF GenuineRetry, Verified
    <3>9. ASSUME NEW d, d \in step[e].products PROVE GenuineProduct(n, d)'
      <4>1. d \in executed /\ AuthenticProduct(step[e], d)
        BY <3>4, <3>9 DEF AuthenticStep
      <4>2. \E a \in answers : a.entry = log[d] /\ IsProduct(a)
        BY <3>5, <4>1 DEF AuthenticProduct, RowsOf
      <4>3. RowsOf(d) # {} /\ d < n
        BY <3>6, <4>1 DEF AuthenticProduct
      <4>4. log'[d] = log[d] /\ RowsOf(d)' = RowsOf(d)
        BY <3>2, <3>6, <4>1
      <4> QED
        BY <3>1, <3>4, <4>1, <4>2, <4>3, <4>4
        DEF GenuineProduct, Verified, AuthenticProduct, IsProduct
    <3>10. ASSUME NEW d, d = step[e].retry, d # NoRetry
           PROVE  GenuineRetry(n, d)'
      <4>1. d \in executed /\ AuthenticRetry(step[e], d)
        BY <3>4, <3>10 DEF AuthenticStep
      <4>2. \E a \in answers : a.entry = log[d] /\ a.outcome.receipt # "PASS"
        BY <3>5, <4>1 DEF AuthenticRetry, RowsOf, IsRetryable
      <4>3. RowsOf(d) # {} /\ d < n
        BY <3>6, <4>1 DEF AuthenticRetry
      <4>4. log'[d] = log[d] /\ RowsOf(d)' = RowsOf(d)
        BY <3>2, <3>6, <4>1
      <4> QED
        BY <3>1, <3>4, <4>1, <4>2, <4>3, <4>4
        DEF GenuineRetry, Verified, AuthenticRetry
    <3>11. \A i \in executed : log'[i] = log[i]
      BY <3>2, <3>6
    <3>12. ASSUME NEW i \in executed'
           PROVE  /\ \A d \in log'[i].request.products : GenuineProduct(i, d)'
                  /\ \A d : d = log'[i].request.retry /\ d # NoRetry =>
                        GenuineRetry(i, d)'
      <4>1. CASE i \in executed
        BY <3>7, <3>8, <3>11, <4>1
      <4>2. CASE i = n
        BY <3>4, <3>9, <3>10, <4>2
      <4> QED
        BY <3>1, <3>3, <4>1, <4>2
    <3> QED
      BY <3>12 DEF LineageIsVerified, GenuineProduct, GenuineRetry
  <2>8. ClosedRunIsRecorded'
    BY <1>0, <2>r, <2>d, <2>g, <1>2, <2>1
    DEF TypeOK, Register, ClosedRunIsRecorded, RowsOf
  <2> QED
    BY <2>1, <2>2, <2>3, <2>4, <2>5, <2>6, <2>7, <2>8
<1>3. ASSUME NEW e \in Executor, RegisterRaises(e)
      PROVE  IInv'
  <2>1. TypeOK'
    BY <1>0, <1>3 DEF TypeOK, RegisterRaises, Leave, AnswersInv, RowsInv
  <2>2. LogInv'
    BY <1>0, <1>3, <2>1 DEF TypeOK, RegisterRaises, Leave, LogInv
  <2>3. AnswersInv'
    BY <1>0, <1>3, <2>1 DEF TypeOK, RegisterRaises, Leave, AnswersInv
  <2>4. RowsInv'
    BY <1>0, <1>3, <2>1 DEF TypeOK, RegisterRaises, Leave, RowsInv, IsProduct
  <2>5. ExecutorsInv'
    BY <1>0, <1>3, <2>1
    DEF TypeOK, RegisterRaises, Leave, ExecutorsInv, AuthenticStep,
        AuthenticProduct, AuthenticRetry, RowsOf
  <2>6. HeldInv'
    BY <1>0, <1>3, <2>1 DEF TypeOK, RegisterRaises, Leave, HeldInv, RowsOf
  <2>7. LineageIsVerified'
    BY <1>3, LineageKept DEF RegisterRaises, Leave
  <2>8. ClosedRunIsRecorded'
    BY <1>0, <1>3, <2>1
    DEF TypeOK, RegisterRaises, Leave, ClosedRunIsRecorded, RowsOf
  <2> QED
    BY <2>1, <2>2, <2>3, <2>4, <2>5, <2>6, <2>7, <2>8
<1>4. ASSUME NEW e \in Executor, NEW o \in Outcome, Answer(e, o)
      PROVE  IInv'
  <2>1. TypeOK'
    <3>1. answers' = answers \cup
            {[entry |-> log[dispatch[e]], request |-> log[dispatch[e]].request, outcome |-> o,
              signer |-> log[dispatch[e]].verifier]}
      BY <1>4 DEF Answer, Ledger!Answer
    <3>2. dispatch[e] \in DOMAIN log
      BY <1>4 DEF Answer, Ledger!Answer
    <3>3. answers' \subseteq
            [entry : Entry, request : Request, outcome : Outcome, signer : Nat]
      BY <1>a, <3>1, <3>2 DEF TypeOK
    <3>4. rows' \subseteq [answer : answers', admitted : BOOLEAN]
      BY <1>4, <3>1 DEF Answer, TypeOK
    <3>5. UNCHANGED <<log, fate, sealed>>
      BY <1>4 DEF Answer, Ledger!Answer
    <3>6. /\ pc' \in [Executor -> {"idle", "authenticated", "registered", "answered",
                                "recorded"}]
          /\ UNCHANGED <<manifest, step, dispatch, held, executed>>
      BY <1>4, <3>2 DEF Answer, TypeOK
    <3> QED
      BY <3>3, <3>4, <3>5, <3>6 DEF TypeOK, Answer
  <2>2. LogInv'
    BY <1>0, <1>4, <2>1 DEF TypeOK, Answer, Ledger!Answer, LogInv
  <2>3. AnswersInv'
    BY <1>0, <1>4, <2>1 DEF TypeOK, Answer, Ledger!Answer, AnswersInv
  <2>4. RowsInv'
    BY <1>0, <1>4, <2>1 DEF TypeOK, Answer, Ledger!Answer, RowsInv, IsProduct
  <2>5. ExecutorsInv'
    BY <1>0, <1>4, <2>1
    DEF TypeOK, Answer, Ledger!Answer, ExecutorsInv, AuthenticStep,
        AuthenticProduct, AuthenticRetry, RowsOf
  <2>6. HeldInv'
    BY <1>0, <1>4, <2>1 DEF TypeOK, Answer, Ledger!Answer, HeldInv, RowsOf
  <2>7. LineageIsVerified'
    BY <1>4, LineageKept DEF Answer, Ledger!Answer
  <2>8. ClosedRunIsRecorded'
    BY <1>0, <1>4, <2>1
    DEF TypeOK, Answer, Ledger!Answer, ClosedRunIsRecorded, RowsOf
  <2> QED
    BY <2>1, <2>2, <2>3, <2>4, <2>5, <2>6, <2>7, <2>8
<1>5. ASSUME NEW e \in Executor, Record(e)
      PROVE  IInv'
  <2>r. PICK a \in answers :
          /\ a.entry = log[dispatch[e]]
          /\ rows' = rows \cup {[answer |-> a, admitted |-> IsProduct(a)]}
    BY <1>5 DEF Record, Admit
  <2>e. dispatch[e] \in executed
    BY <1>5 DEF Record, ExecutorsInv
  <2>i. IsProduct(a) \in BOOLEAN
    BY DEF IsProduct
  <2>1. TypeOK'
    <3>1. rows' \subseteq [answer : answers, admitted : BOOLEAN]
      BY <2>r, <2>i DEF TypeOK
    <3> QED
      BY <1>5, <3>1 DEF TypeOK, Record
  <2>2. LogInv'
    BY <1>0, <1>5, <2>1 DEF TypeOK, Record, Admit, LogInv
  <2>3. AnswersInv'
    BY <1>0, <1>5, <2>1 DEF TypeOK, Record, Admit, AnswersInv
  <2>4. RowsInv'
    <3>1. \A w \in rows : \E d \in executed : w.answer.entry = log[d]
      BY DEF RowsInv
    <3>2. \A w \in rows : w.admitted <=> IsProduct(w.answer)
      BY DEF RowsInv
    <3>3. \A w \in rows' : \E d \in executed : w.answer.entry = log[d]
      BY <2>r, <2>e, <3>1
    <3>4. ASSUME NEW w \in rows' PROVE w.admitted <=> IsProduct(w.answer)
      <4>1. CASE w \in rows
        BY <3>2, <4>1
      <4>2. CASE w = [answer |-> a, admitted |-> IsProduct(a)]
        BY <4>2
      <4> QED
        BY <2>r, <4>1, <4>2
    <3>5. UNCHANGED <<log, executed>>
      BY <1>5 DEF Record
    <3> QED
      BY <3>3, <3>4, <3>5 DEF RowsInv, IsProduct
  <2>5. ExecutorsInv'
    <3>1. UNCHANGED <<log, step, dispatch, executed>>
      BY <1>5 DEF Record
    <3>2. \A d : RowsOf(d) \subseteq RowsOf(d)'
      BY <2>r, <3>1 DEF RowsOf
    <3>3. [answer |-> a, admitted |-> IsProduct(a)] \in RowsOf(dispatch[e])'
      BY <2>r, <3>1 DEF RowsOf
    <3>4. \A x \in Executor :
            IF x = e THEN pc'[x] = "recorded" ELSE pc'[x] = pc[x]
      BY <1>5 DEF Record, TypeOK
    <3>5. \A x \in Executor : AuthenticStep(x) => AuthenticStep(x)'
      BY <3>1, <3>2 DEF AuthenticStep, AuthenticProduct, AuthenticRetry
    <3> QED
      BY <2>e, <3>1, <3>2, <3>3, <3>4, <3>5 DEF ExecutorsInv
  <2>6. HeldInv'
    BY <1>0, <1>5, <2>1 DEF TypeOK, Record, Admit, HeldInv, RowsOf
  <2>7. LineageIsVerified'
    BY <1>5, LineageKept DEF Record, Admit
  <2>8. ClosedRunIsRecorded'
    BY <1>0, <1>5, <2>1 DEF TypeOK, Record, Admit, ClosedRunIsRecorded, RowsOf
  <2> QED
    BY <2>1, <2>2, <2>3, <2>4, <2>5, <2>6, <2>7, <2>8
<1>6. ASSUME NEW e \in Executor, Return(e)
      PROVE  IInv'
  <2>e. dispatch[e] \in executed /\ dispatch[e] \in DOMAIN log /\ RowsOf(dispatch[e]) # {}
    BY <1>6 DEF Return, ExecutorsInv, TypeOK
  <2>1. TypeOK'
    BY <1>0, <1>6, <2>e DEF TypeOK, Return, Leave
  <2>2. LogInv'
    BY <1>0, <1>6, <2>1 DEF TypeOK, Return, Leave, LogInv
  <2>3. AnswersInv'
    BY <1>0, <1>6, <2>1 DEF TypeOK, Return, Leave, AnswersInv
  <2>4. RowsInv'
    BY <1>0, <1>6, <2>1 DEF TypeOK, Return, Leave, RowsInv, IsProduct
  <2>5. ExecutorsInv'
    BY <1>0, <1>6, <2>1
    DEF TypeOK, Return, Leave, ExecutorsInv, AuthenticStep, AuthenticProduct,
        AuthenticRetry, RowsOf
  <2>6. HeldInv'
    <3>1. UNCHANGED <<log, rows, executed>> /\ held' = held \cup {dispatch[e]}
      BY <1>6 DEF Return
    <3> QED
      BY <2>e, <3>1 DEF HeldInv, RowsOf
  <2>7. LineageIsVerified'
    BY <1>6, LineageKept DEF Return, Leave
  <2>8. ClosedRunIsRecorded'
    BY <1>0, <1>6, <2>1 DEF TypeOK, Return, Leave, ClosedRunIsRecorded, RowsOf
  <2> QED
    BY <2>1, <2>2, <2>3, <2>4, <2>5, <2>6, <2>7, <2>8
<1>7. ASSUME NEW e \in Executor, Crash(e)
      PROVE  IInv'
  <2>1. TypeOK'
    BY <1>0, <1>7 DEF TypeOK, Crash, Leave, AnswersInv, RowsInv
  <2>2. LogInv'
    BY <1>0, <1>7, <2>1 DEF TypeOK, Crash, Leave, LogInv
  <2>3. AnswersInv'
    BY <1>0, <1>7, <2>1 DEF TypeOK, Crash, Leave, AnswersInv
  <2>4. RowsInv'
    BY <1>0, <1>7, <2>1 DEF TypeOK, Crash, Leave, RowsInv, IsProduct
  <2>5. ExecutorsInv'
    BY <1>0, <1>7, <2>1
    DEF TypeOK, Crash, Leave, ExecutorsInv, AuthenticStep, AuthenticProduct,
        AuthenticRetry, RowsOf
  <2>6. HeldInv'
    BY <1>0, <1>7, <2>1 DEF TypeOK, Crash, Leave, HeldInv, RowsOf
  <2>7. LineageIsVerified'
    BY <1>7, LineageKept DEF Crash, Leave
  <2>8. ClosedRunIsRecorded'
    BY <1>0, <1>7, <2>1 DEF TypeOK, Crash, Leave, ClosedRunIsRecorded, RowsOf
  <2> QED
    BY <2>1, <2>2, <2>3, <2>4, <2>5, <2>6, <2>7, <2>8
<1>8. ASSUME NEW c \in Cell, NEW n \in Attempt, DirectRegister(c, n)
      PROVE  IInv'
  <2> DEFINE req == [cell |-> c, attempt |-> n, products |-> {},
                      retry |-> NoRetry]
  <2>r. req \in Request /\ Ledger!Dispatch(req, Len(log))
    BY <1>8 DEF DirectRegister, Request
  <2>d. Len(log) + 1 \notin executed
    BY <1>0 DEF TypeOK
  <2>g. /\ log' \in Seq(Entry)
        /\ Len(log') = Len(log) + 1
        /\ DOMAIN log' = 1 .. Len(log) + 1
        /\ \A i \in DOMAIN log : log'[i] = log[i]
        /\ log'[Len(log) + 1] = [sequence |-> Len(log), request |-> req,
                                 verifier |-> Len(log)]
        /\ fate = "OPEN"
        /\ UNCHANGED <<answers, fate, sealed>>
        /\ \A i \in DOMAIN log : ~ /\ log[i].request.cell = req.cell
                                   /\ log[i].request.attempt = req.attempt
    BY <2>r, DispatchStep
  <2> HIDE DEF req
  <2>1. TypeOK'
    BY <1>0, <2>r, <2>d, <2>g, <1>8
    DEF TypeOK, DirectRegister, AnswersInv, RowsInv
  <2>2. LogInv'
    <3>1. \A i \in DOMAIN log : log'[i].sequence = i - 1 /\ log'[i].verifier = i - 1
      BY <1>0, <2>g DEF LogInv
    <3>2. /\ log'[Len(log) + 1].sequence = Len(log)
          /\ log'[Len(log) + 1].verifier = Len(log)
          /\ log'[Len(log) + 1].request = req
      BY <2>g
    <3>3. \A i \in DOMAIN log' : i \in DOMAIN log \/ i = Len(log) + 1
      BY <1>0, <2>g
    <3>4. \A i \in DOMAIN log' :
            log'[i].sequence = i - 1 /\ log'[i].verifier = i - 1
      BY <1>0, <3>1, <3>2, <3>3
    <3>5. ASSUME NEW i \in DOMAIN log', NEW j \in DOMAIN log',
                 log'[i].request.cell = log'[j].request.cell,
                 log'[i].request.attempt = log'[j].request.attempt
          PROVE  i = j
      <4>1. CASE i \in DOMAIN log /\ j \in DOMAIN log
        BY <2>g, <3>5, <4>1 DEF LogInv
      <4>2. CASE i \in DOMAIN log /\ j = Len(log) + 1
        BY <2>g, <3>2, <3>5, <4>2
      <4>3. CASE i = Len(log) + 1 /\ j \in DOMAIN log
        BY <2>g, <3>2, <3>5, <4>3
      <4> QED
        BY <3>3, <4>1, <4>2, <4>3
    <3> QED
      BY <3>4, <3>5 DEF LogInv
  <2>3. AnswersInv'
    BY <1>0, <2>r, <2>d, <2>g, <1>8, <2>1
    DEF TypeOK, DirectRegister, AnswersInv
  <2>4. RowsInv'
    BY <1>0, <2>r, <2>d, <2>g, <1>8, <2>1
    DEF TypeOK, DirectRegister, RowsInv, IsProduct
  <2>5. ExecutorsInv'
    BY <1>0, <2>r, <2>d, <2>g, <1>8, <2>1
    DEF TypeOK, DirectRegister, ExecutorsInv, AuthenticStep, AuthenticProduct,
        AuthenticRetry, RowsOf
  <2>6. HeldInv'
    BY <1>0, <2>r, <2>d, <2>g, <1>8, <2>1
    DEF TypeOK, DirectRegister, HeldInv, RowsOf
  <2>7. LineageIsVerified'
    BY <2>g, <1>8, LineageKept DEF TypeOK, DirectRegister
  <2>8. ClosedRunIsRecorded'
    BY <1>0, <2>r, <2>d, <2>g, <1>8, <2>1
    DEF TypeOK, DirectRegister, ClosedRunIsRecorded, RowsOf
  <2> QED
    BY <2>1, <2>2, <2>3, <2>4, <2>5, <2>6, <2>7, <2>8
<1>9. ASSUME NEW d \in DOMAIN log, NEW o \in Outcome, DirectAnswer(d, o)
      PROVE  IInv'
  <2>1. TypeOK'
    <3>1. answers' = answers \cup
            {[entry |-> log[d], request |-> log[d].request, outcome |-> o,
              signer |-> log[d].verifier]}
      BY <1>9 DEF DirectAnswer, Ledger!Answer
    <3>2. d \in DOMAIN log
      BY <1>9 DEF DirectAnswer, Ledger!Answer
    <3>3. answers' \subseteq
            [entry : Entry, request : Request, outcome : Outcome, signer : Nat]
      BY <1>a, <3>1, <3>2 DEF TypeOK
    <3>4. rows' \subseteq [answer : answers', admitted : BOOLEAN]
      BY <1>9, <3>1 DEF DirectAnswer, TypeOK
    <3>5. UNCHANGED <<log, fate, sealed>>
      BY <1>9 DEF DirectAnswer, Ledger!Answer
    <3>6. /\ held' \subseteq DOMAIN log
          /\ UNCHANGED <<pc, manifest, step, dispatch, executed>>
      BY <1>9, <3>2 DEF DirectAnswer, TypeOK
    <3> QED
      BY <3>3, <3>4, <3>5, <3>6 DEF TypeOK, DirectAnswer
  <2>2. LogInv'
    BY <1>0, <1>9, <2>1 DEF TypeOK, DirectAnswer, Ledger!Answer, LogInv
  <2>3. AnswersInv'
    BY <1>0, <1>9, <2>1 DEF TypeOK, DirectAnswer, Ledger!Answer, AnswersInv
  <2>4. RowsInv'
    BY <1>0, <1>9, <2>1
    DEF TypeOK, DirectAnswer, Ledger!Answer, RowsInv, IsProduct
  <2>5. ExecutorsInv'
    BY <1>0, <1>9, <2>1
    DEF TypeOK, DirectAnswer, Ledger!Answer, ExecutorsInv, AuthenticStep,
        AuthenticProduct, AuthenticRetry, RowsOf
  <2>6. HeldInv'
    BY <1>0, <1>9, <2>1
    DEF TypeOK, DirectAnswer, Ledger!Answer, HeldInv, RowsOf
  <2>7. LineageIsVerified'
    BY <1>9, LineageKept DEF DirectAnswer, Ledger!Answer
  <2>8. ClosedRunIsRecorded'
    BY <1>0, <1>9, <2>1
    DEF TypeOK, DirectAnswer, Ledger!Answer, ClosedRunIsRecorded, RowsOf
  <2> QED
    BY <2>1, <2>2, <2>3, <2>4, <2>5, <2>6, <2>7, <2>8
<1>10. ASSUME Close
      PROVE  IInv'
  <2>1. TypeOK'
    BY <1>0, <1>10 DEF TypeOK, Close, Ledger!Seal, AnswersInv, RowsInv
  <2>2. LogInv'
    BY <1>0, <1>10, <2>1 DEF TypeOK, Close, Ledger!Seal, LogInv
  <2>3. AnswersInv'
    BY <1>0, <1>10, <2>1 DEF TypeOK, Close, Ledger!Seal, AnswersInv
  <2>4. RowsInv'
    BY <1>0, <1>10, <2>1 DEF TypeOK, Close, Ledger!Seal, RowsInv, IsProduct
  <2>5. ExecutorsInv'
    BY <1>0, <1>10, <2>1
    DEF TypeOK, Close, Ledger!Seal, ExecutorsInv, AuthenticStep,
        AuthenticProduct, AuthenticRetry, RowsOf
  <2>6. HeldInv'
    BY <1>0, <1>10, <2>1 DEF TypeOK, Close, Ledger!Seal, HeldInv, RowsOf
  <2>7. LineageIsVerified'
    BY <1>10, LineageKept DEF Close, Ledger!Seal
  <2>8. ClosedRunIsRecorded'
    <3>1. UNCHANGED <<log, rows, executed>> /\ executed \subseteq held
      BY <1>10 DEF Close, Ledger!Seal, TypeOK
    <3> QED
      BY <3>1 DEF HeldInv, ClosedRunIsRecorded, RowsOf
  <2> QED
    BY <2>1, <2>2, <2>3, <2>4, <2>5, <2>6, <2>7, <2>8
<1>11. ASSUME Abort
      PROVE  IInv'
  <2>1. TypeOK'
    BY <1>0, <1>11 DEF TypeOK, Abort, Ledger!Abandon, AnswersInv, RowsInv
  <2>2. LogInv'
    BY <1>0, <1>11, <2>1 DEF TypeOK, Abort, Ledger!Abandon, LogInv
  <2>3. AnswersInv'
    BY <1>0, <1>11, <2>1 DEF TypeOK, Abort, Ledger!Abandon, AnswersInv
  <2>4. RowsInv'
    BY <1>0, <1>11, <2>1 DEF TypeOK, Abort, Ledger!Abandon, RowsInv, IsProduct
  <2>5. ExecutorsInv'
    BY <1>0, <1>11, <2>1
    DEF TypeOK, Abort, Ledger!Abandon, ExecutorsInv, AuthenticStep,
        AuthenticProduct, AuthenticRetry, RowsOf
  <2>6. HeldInv'
    BY <1>0, <1>11, <2>1 DEF TypeOK, Abort, Ledger!Abandon, HeldInv, RowsOf
  <2>7. LineageIsVerified'
    BY <1>11, LineageKept DEF Abort, Ledger!Abandon
  <2>8. ClosedRunIsRecorded'
    BY <1>0, <1>11, <2>1
    DEF TypeOK, Abort, Ledger!Abandon, ClosedRunIsRecorded, RowsOf
  <2> QED
    BY <2>1, <2>2, <2>3, <2>4, <2>5, <2>6, <2>7, <2>8
<1>12. CASE UNCHANGED vars
  <2>1. UNCHANGED <<log, answers, fate, sealed, rows, pc, manifest, step,
                    dispatch, held, executed>>
    BY <1>12 DEF vars
  <2>2. TypeOK' /\ LogInv' /\ AnswersInv' /\ RowsInv'
    BY <2>1 DEF TypeOK, LogInv, AnswersInv, RowsInv, IsProduct
  <2>3. \A d : RowsOf(d)' = RowsOf(d)
    BY <2>1 DEF RowsOf
  <2>4. \A e \in Executor : AuthenticStep(e) => AuthenticStep(e)'
    BY <2>1, <2>3 DEF AuthenticStep, AuthenticProduct, AuthenticRetry
  <2>5. ExecutorsInv' /\ HeldInv' /\ ClosedRunIsRecorded'
    BY <2>1, <2>3, <2>4 DEF ExecutorsInv, HeldInv, ClosedRunIsRecorded
  <2>6. LineageIsVerified'
    BY <2>1, <2>3 DEF LineageIsVerified, Verified, IsProduct
  <2> QED
    BY <2>2, <2>5, <2>6
<1> QED
  BY <1>1, <1>2, <1>3, <1>4, <1>5, <1>6, <1>7, <1>8, <1>9, <1>10, <1>11, <1>12
  DEF Next
-----------------------------------------------------------------------------
(* The theorems.                                                           *)

(* The invariant holds in every reachable state.                           *)
LEMMA Invariance == Spec => []IInv
  BY InitIInv, NextIInv, PTL DEF Spec

(* The tables of both ledgers and the executors' memory keep their types.  *)
THEOREM TypeCorrect == Spec => []TypeOK
<1>1. IInv => TypeOK
  BY DEF IInv
<1> QED
  BY <1>1, Invariance, PTL

(* No step ever shows the model a product or predecessor that did not come *)
(* through an executed, recorded and suitably verified earlier step.       *)
THEOREM LineageVerified == Spec => []LineageIsVerified
<1>1. IInv => LineageIsVerified
  BY DEF IInv
<1> QED
  BY <1>1, Invariance, PTL

(* A dispatch that is retried never feeds forward, and is retried once:    *)
(* the signer gives it one answer, and the key of the next attempt is used *)
(* once.                                                                   *)
THEOREM OneUse == Spec => []UsedOneWay
<1>1. ASSUME IInv, NEW i \in executed, NEW j \in executed,
             NEW r, r = log[i].request.retry, r # NoRetry
      PROVE  r \notin log[j].request.products /\ (log[j].request.retry = r => i = j)
  <2>1. GenuineRetry(i, r)
    BY <1>1 DEF IInv, LineageIsVerified, GenuineRetry
  <2>2. ASSUME r \in log[j].request.products PROVE FALSE
    <3>1. GenuineProduct(j, r)
      BY <1>1, <2>2 DEF IInv, LineageIsVerified, GenuineProduct
    <3> QED
      BY <1>1, <2>1, <3>1
      DEF GenuineRetry, GenuineProduct, IsProduct, IInv, AnswersInv
  <2>3. ASSUME log[j].request.retry = r PROVE i = j
    <3>1. GenuineRetry(j, r)
      BY <1>1, <2>3 DEF IInv, LineageIsVerified, GenuineRetry
    <3>2. i \in DOMAIN log /\ j \in DOMAIN log
      BY <1>1 DEF IInv, TypeOK
    <3>3. log[i].request.cell = log[j].request.cell
      BY <2>1, <3>1 DEF GenuineRetry, Verified
    <3>4. log[i].request.attempt = log[j].request.attempt
      BY <2>1, <3>1 DEF GenuineRetry
    <3> QED
      BY <1>1, <3>2, <3>3, <3>4 DEF IInv, LogInv
  <2> QED
    BY <2>2, <2>3
<1>2. IInv => UsedOneWay
  BY <1>1 DEF UsedOneWay
<1> QED
  BY <1>2, Invariance, PTL

(* The execution ledger never disagrees with what was signed.              *)
THEOREM LedgerAgreement == Spec => []LedgerAgrees
<1>1. ASSUME IInv, NEW w1 \in rows, NEW w2 \in rows,
             w1.answer.entry = w2.answer.entry
      PROVE  w1 = w2
  <2>1. w1.answer = w2.answer
    BY <1>1 DEF IInv, TypeOK, AnswersInv
  <2>2. w1.admitted = w2.admitted
    BY <1>1, <2>1 DEF IInv, TypeOK, RowsInv
  <2>3. w1 \in [answer : answers, admitted : BOOLEAN]
        /\ w2 \in [answer : answers, admitted : BOOLEAN]
    BY <1>1 DEF IInv, TypeOK
  <2> QED
    BY <2>1, <2>2, <2>3
<1>2. IInv => LedgerAgrees
  BY <1>1 DEF LedgerAgrees, IInv, RowsInv, IsProduct
<1> QED
  BY <1>2, Invariance, PTL

(* The close of the run cannot overtake the recording of a step.           *)
THEOREM ClosedRecorded == Spec => []ClosedRunIsRecorded
<1>1. IInv => ClosedRunIsRecorded
  BY DEF IInv
<1> QED
  BY <1>1, Invariance, PTL

(* A dispatch lost with its executor is never recorded, shown or closed    *)
(* over.                                                                   *)
THEOREM LostForever == Spec => LostIsForever
<1>1. ASSUME IInv, Next, NEW d \in executed, Lost(d)
      PROVE  /\ Lost(d)'
             /\ fate' # "CLOSED"
             /\ \A i \in executed' \ executed :
                  /\ d \notin log'[i].request.products
                  /\ d # log'[i].request.retry
  <2>1. RowsOf(d) = {} /\ d \in DOMAIN log /\ d \notin held /\ fate # "CLOSED"
    BY <1>1 DEF Lost, IInv, TypeOK, HeldInv, ClosedRunIsRecorded
  <2>2. log \in Seq(Entry) /\ Len(log) \in Nat /\ DOMAIN log = 1 .. Len(log)
    BY <1>1 DEF IInv, TypeOK
  <2>3. ASSUME UNCHANGED <<log, rows, executed>>, fate' # "CLOSED",
               UNCHANGED dispatch \/ \E e \in Executor : Leave(e)
        PROVE  Lost(d)' /\ fate' # "CLOSED" /\ executed' = executed
    <3>1. RowsOf(d)' = {}
      BY <2>1, <2>3 DEF RowsOf
    <3>2. \A x \in Executor : dispatch'[x] # d
      BY <1>1, <2>1, <2>2, <2>3 DEF Lost, Leave, IInv, TypeOK
    <3> QED
      BY <1>1, <2>3, <3>1, <3>2 DEF Lost
  <2>4. ASSUME NEW e \in Executor, Register(e)
        PROVE  /\ Lost(d)'
               /\ fate' # "CLOSED"
               /\ \A i \in executed' \ executed :
                    /\ d \notin log'[i].request.products
                    /\ d # log'[i].request.retry
    <3>1. step[e] \in Request /\ AuthenticStep(e)
      BY <1>1, <2>4 DEF Register, IInv, ExecutorsInv, AuthenticStep
    <3>2. /\ \A i \in DOMAIN log : log'[i] = log[i]
          /\ log'[Len(log) + 1].request = step[e]
          /\ UNCHANGED fate
      <4>1. TypeOK /\ Ledger!Dispatch(step[e], Len(log))
        BY <1>1, <2>4 DEF Register, IInv
      <4>2. log'[Len(log) + 1] = [sequence |-> Len(log), request |-> step[e],
                                  verifier |-> Len(log)]
        BY <3>1, <4>1, DispatchStep
      <4> QED
        BY <3>1, <4>1, <4>2, DispatchStep
    <3>3. d \notin step[e].products /\ d # step[e].retry
      BY <2>1, <2>2, <3>1
      DEF AuthenticStep, AuthenticProduct, AuthenticRetry, NoRetry
    <3>4. RowsOf(d)' = {}
      BY <2>1, <2>4, <3>2 DEF RowsOf, Register
    <3>5. \A x \in Executor : dispatch'[x] # d
      BY <1>1, <2>1, <2>2, <2>4
      DEF Register, RegisteredEntry, Lost, IInv, TypeOK
    <3>6. executed' = executed \cup {Len(log) + 1}
      BY <2>4 DEF Register, RegisteredEntry
    <3> QED
      BY <1>1, <2>1, <3>2, <3>3, <3>4, <3>5, <3>6 DEF Lost
  <2>5. ASSUME NEW c \in Cell, NEW n \in Attempt, DirectRegister(c, n)
        PROVE  Lost(d)' /\ fate' # "CLOSED" /\ executed' = executed
    <3> DEFINE req == [cell |-> c, attempt |-> n, products |-> {},
                       retry |-> NoRetry]
    <3>1. req \in Request /\ Ledger!Dispatch(req, Len(log))
      BY <2>5 DEF DirectRegister, Request
    <3> HIDE DEF req
    <3>2. (\A i \in DOMAIN log : log'[i] = log[i]) /\ UNCHANGED fate
      BY <1>1, <3>1, DispatchStep DEF IInv
    <3>3. RowsOf(d)' = {}
      BY <2>1, <2>5, <3>2 DEF RowsOf, DirectRegister
    <3> QED
      BY <1>1, <2>1, <2>5, <3>2, <3>3 DEF DirectRegister, Lost, evars
  <2>6. ASSUME NEW e \in Executor, Record(e)
        PROVE  Lost(d)' /\ fate' # "CLOSED" /\ executed' = executed
    <3>1. PICK a \in answers :
            /\ a.entry = log[dispatch[e]]
            /\ rows' = rows \cup {[answer |-> a, admitted |-> Admit(a)]}
      BY <2>6 DEF Record
    <3>2. UNCHANGED <<log, fate, dispatch, executed>>
      BY <2>6 DEF Record, ledger
    <3>3. dispatch[e] \in DOMAIN log /\ dispatch[e] # d
      BY <1>1, <2>6 DEF Record, IInv, ExecutorsInv, TypeOK, Lost
    <3>4. log[dispatch[e]] # log[d]
      BY <1>1, <2>1, <2>2, <3>3 DEF IInv, LogInv
    <3>5. RowsOf(d)' = {}
      BY <2>1, <3>1, <3>2, <3>4 DEF RowsOf
    <3> QED
      BY <1>1, <2>1, <3>2, <3>5 DEF Lost
  <2>7. ASSUME NEW e \in Executor, Return(e) \/ RegisterRaises(e) \/ Crash(e)
        PROVE  Lost(d)' /\ fate' # "CLOSED" /\ executed' = executed
    BY <2>1, <2>3, <2>7 DEF Return, RegisterRaises, Crash, ledger
  <2>8. ASSUME NEW e \in Executor, NEW o \in Outcome, Answer(e, o)
        PROVE  Lost(d)' /\ fate' # "CLOSED" /\ executed' = executed
    BY <2>1, <2>3, <2>8 DEF Answer, Ledger!Answer
  <2>9. ASSUME NEW e \in Executor, NEW req, Authenticate(e, req)
        PROVE  Lost(d)' /\ fate' # "CLOSED" /\ executed' = executed
    BY <2>1, <2>3, <2>9 DEF Authenticate, ledger
  <2>10. ASSUME NEW i \in DOMAIN log, NEW o \in Outcome, DirectAnswer(i, o)
         PROVE  Lost(d)' /\ fate' # "CLOSED" /\ executed' = executed
    BY <2>1, <2>3, <2>10 DEF DirectAnswer, Ledger!Answer, evars
  <2>11. ASSUME Abort \/ Close
         PROVE  Lost(d)' /\ fate' # "CLOSED" /\ executed' = executed
    <3>1. CASE Abort
      BY <2>3, <3>1 DEF Abort, Ledger!Abandon, evars
    <3>2. CASE Close
      BY <2>1, <3>2 DEF Close
    <3> QED
      BY <2>11, <3>1, <3>2
  <2> QED
    BY <1>1, <2>4, <2>5, <2>6, <2>7, <2>8, <2>9, <2>10, <2>11 DEF Next
<1>2. IInv /\ [Next]_vars => [LostStay]_vars
  BY <1>1 DEF LostStay
<1> QED
  BY <1>2, Invariance, PTL DEF Spec, LostIsForever

(* The composition adds nothing to what the dispatch authority can do: the *)
(* executors, and the callers that come through no step, take steps of the *)
(* abstract run, with signers and requests of its types.                   *)
THEOREM StepsKeepTheLedger == Spec => Ledger!Spec
<1>1. Init => Ledger!Init
  BY DEF Init
<1>2. IInv /\ [Next]_vars => [Ledger!Next]_(Ledger!vars)
  <2> SUFFICES ASSUME IInv, [Next]_vars
               PROVE  Ledger!Next \/ UNCHANGED ledger
    BY DEF ledger, Ledger!vars
  <2>0. Len(log) \in Nat
    BY DEF IInv, TypeOK
  <2>1. ASSUME NEW e \in Executor, Register(e) PROVE Ledger!Next
    <3>1. step[e] \in Request
      BY <2>1 DEF Register, IInv, ExecutorsInv, AuthenticStep
    <3> QED
      BY <2>0, <2>1, <3>1 DEF Register, Ledger!Next
  <2>2. ASSUME NEW e \in Executor, NEW o \in Outcome, Answer(e, o)
        PROVE  Ledger!Next
    <3>1. dispatch[e] \in DOMAIN log /\ Ledger!Answer(dispatch[e], o)
      BY <2>2 DEF Answer, Ledger!Answer
    <3> QED
      BY <3>1 DEF Ledger!Next
  <2>3. ASSUME NEW c \in Cell, NEW n \in Attempt, DirectRegister(c, n)
        PROVE  Ledger!Next
    <3> DEFINE req == [cell |-> c, attempt |-> n, products |-> {},
                       retry |-> NoRetry]
    <3>1. req \in Request /\ Ledger!Dispatch(req, Len(log))
      BY <2>3 DEF DirectRegister, Request
    <3> QED
      BY <2>0, <3>1 DEF Ledger!Next
  <2>4. ASSUME NEW d \in DOMAIN log, NEW o \in Outcome, DirectAnswer(d, o)
        PROVE  Ledger!Next
    BY <2>4 DEF DirectAnswer, Ledger!Next
  <2>5. CASE Close \/ Abort
    BY <2>5 DEF Close, Abort, Ledger!Next
  <2>6. CASE UNCHANGED vars
    BY <2>6 DEF vars
  <2>7. ASSUME NEW e \in Executor, NEW req, Authenticate(e, req)
        PROVE  UNCHANGED ledger
    BY <2>7 DEF Authenticate
  <2>8. ASSUME NEW e \in Executor,
               RegisterRaises(e) \/ Record(e) \/ Return(e) \/ Crash(e)
        PROVE  UNCHANGED ledger
    BY <2>8 DEF RegisterRaises, Record, Return, Crash
  <2> QED
    BY <2>1, <2>2, <2>3, <2>4, <2>5, <2>6, <2>7, <2>8 DEF Next
<1> QED
  BY <1>1, <1>2, Invariance, PTL DEF Spec, Ledger!Spec
=============================================================================
