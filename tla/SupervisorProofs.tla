--------------------------- MODULE SupervisorProofs ---------------------------
(***************************************************************************)
(* What a receipt proves, what may start and what may be left behind, for  *)
(* any number of preflights, attempts, configurations and upgrades.  The   *)
(* inductive invariant says, for each place a run can stand at, what its   *)
(* container and its memory look like there.                               *)
(***************************************************************************)
EXTENDS Supervisor, TLAPS

(* No container yet, or one that nobody has looked at.                     *)
Early(a) ==
  /\ pc[a] \in {"idle", "identify", "create"} => container[a] = "none"
  /\ pc[a] \in {"idle", "identify", "create", "inspect", "not_created"} =>
       digest[a] = None /\ ~failing[a]
  /\ pc[a] \in {"inspect", "start"} => container[a] = "created" /\ ~failing[a]
  /\ pc[a] \in {"create", "inspect"} => seen[a] # None
  /\ container[a] \in {"none", "created", "running"} => ending[a] = None

(* A digest is of the run's own container and, for an attempt, authorised; *)
(* without one nothing was started.                                        *)
Measured(a) ==
  /\ digest[a] # None =>
       /\ digest[a] = <<seen[a], config[a]>>
       /\ a \in Attempt => authority = digest[a]
  /\ container[a] \in {"running", "exited"} \/ ending[a] # None =>
       digest[a] # None
  /\ pc[a] \in {"start", "attached", "reinspect", "returned", "signed"} =>
       digest[a] # None
  /\ pc[a] \in {"remove", "probe"} /\ ~failing[a] => digest[a] # None

(* The way out: without an error only past an executor that ended cleanly, *)
(* and past the teardown only without the container.                       *)
Late(a) ==
  /\ pc[a] \in {"attached", "reinspect"} =>
       ~failing[a] /\ container[a] \in {"running", "exited"}
  /\ pc[a] \in {"remove", "probe"} => container[a] # "none"
  /\ pc[a] \in {"remove", "probe", "returned", "signed"} /\ ~failing[a] =>
       ending[a] = "clean" /\ container[a] \in {"exited", "removed"}
  /\ pc[a] \in {"returned", "signed"} => ~failing[a]
  /\ pc[a] \in {"returned", "signed", "refused"} => container[a] = "removed"
  /\ receipt[a] # None => pc[a] = "signed" /\ receipt[a] = digest[a]

RunInv(a) == Early(a) /\ Measured(a) /\ Late(a)

IInv == TypeOK /\ \A a \in Run : RunInv(a)

(* What a run's part of the invariant depends on is left alone.            *)
Frame(a) ==
  /\ pc'[a] = pc[a] /\ container'[a] = container[a] /\ config'[a] = config[a]
  /\ ending'[a] = ending[a] /\ seen'[a] = seen[a] /\ digest'[a] = digest[a]
  /\ failing'[a] = failing[a] /\ receipt'[a] = receipt[a]
  /\ authority' = authority

-----------------------------------------------------------------------------
(* Init.  No run has a container, and none has a digest.                   *)
LEMMA InitIInv == Init => IInv
BY UpgradesAssumption DEF Init, IInv, TypeOK, RunInv, Early, Measured, Late, PC, Present

(* A run that is not touched keeps its part.                               *)
LEMMA FrameKeeps == ASSUME NEW a \in Run, RunInv(a), Frame(a) PROVE RunInv(a)'
BY DEF RunInv, Early, Measured, Late, Frame

(* The runtime, the commands and the executor keep the types.              *)
LEMMA TypeStep == IInv /\ [Next]_vars => TypeOK'
<1> SUFFICES ASSUME TypeOK, \A a \in Run : Early(a), [Next]_vars
             PROVE  TypeOK'
  BY DEF IInv, RunInv
<1> USE DEF TypeOK, Goto, PC, Present
<1>1. CASE UNCHANGED vars
  BY <1>1 DEF vars, docker, memory
<1>2. CASE Upgrade
  BY <1>2, UpgradesAssumption DEF Upgrade, docker, memory
<1>3. ASSUME NEW a \in Run,
             \/ Begin(a) \/ Step(a) \/ AttachReturns(a) \/ Seal(a)
             \/ ExecutorEnds(a) \/ Crash(a)
      PROVE TypeOK'
  <2>1. CASE Begin(a) \/ Crash(a)
    BY <2>1 DEF Begin, Crash, docker, memory
  <2>2. CASE Identify(a)
    BY <2>2 DEF Identify, docker
  <2>3. CASE Create(a)
    <3>1. container' \in [Run -> {"none", "removed"} \cup Present]
      BY <2>3 DEF Create
    <3>2. config' \in [Run -> Variant \cup {Drifted, None}]
      BY <2>3 DEF Create
    <3>3. pc' \in [Run -> PC]
      BY <2>3 DEF Create
    <3> QED
      BY <2>3, <3>1, <3>2, <3>3 DEF Create, memory
  <2>4. CASE InspectPasses(a)
    <3>1. <<seen[a], config[a]>> \in Digest
      BY <2>4 DEF InspectPasses, Authorised, Digest, Early
    <3> QED
      BY <2>4, <3>1 DEF InspectPasses, docker
  <2>5. CASE InspectFails(a) \/ AttachFails(a) \/ ReinspectFails(a)
    BY <2>5 DEF InspectFails, AttachFails, ReinspectFails, Abort, docker
  <2>6. CASE Start(a)
    BY <2>6 DEF Start, Abort
  <2>7. CASE AttachReturns(a)
    BY <2>7 DEF AttachReturns, docker
  <2>8. CASE ReinspectPasses(a)
    BY <2>8 DEF ReinspectPasses, docker, memory
  <2>9. CASE Remove(a)
    BY <2>9 DEF Remove, memory
  <2>10. CASE Probe(a)
    BY <2>10 DEF Probe, docker, memory
  <2>11. CASE Sign(a)
    BY <2>11 DEF Sign, Signed, docker, memory
  <2>12. CASE Seal(a)
    BY <2>12 DEF Seal, docker, memory
  <2>13. CASE ExecutorEnds(a)
    BY <2>13 DEF ExecutorEnds, memory
  <2> QED
    BY <1>3, <2>1, <2>2, <2>3, <2>4, <2>5, <2>6, <2>7, <2>8, <2>9, <2>10,
       <2>11, <2>12, <2>13 DEF Step
<1> QED
  BY <1>1, <1>2, <1>3 DEF Next

-----------------------------------------------------------------------------
(* A step of one run leaves the others alone.                              *)
LEMMA OthersFramed ==
  ASSUME TypeOK, NEW a \in Run, NEW b \in Run, b # a,
         \/ Begin(a) \/ Step(a) \/ AttachReturns(a) \/ ExecutorEnds(a)
         \/ Crash(a)
  PROVE  Frame(b)
<1> USE DEF TypeOK, Goto, Frame
<1>1. CASE Begin(a) \/ Crash(a)
  BY <1>1 DEF Begin, Crash, docker, memory
<1>2. CASE Identify(a)
  BY <1>2 DEF Identify, docker
<1>3. CASE Create(a)
  BY <1>3 DEF Create, memory
<1>4. CASE InspectPasses(a)
  BY <1>4 DEF InspectPasses, docker
<1>5. CASE InspectFails(a) \/ AttachFails(a) \/ ReinspectFails(a)
  BY <1>5 DEF InspectFails, AttachFails, ReinspectFails, Abort, docker
<1>6. CASE Start(a)
  BY <1>6 DEF Start, Abort
<1>7. CASE AttachReturns(a) \/ ReinspectPasses(a)
  BY <1>7 DEF AttachReturns, ReinspectPasses, docker, memory
<1>8. CASE Remove(a)
  BY <1>8 DEF Remove, memory
<1>9. CASE Probe(a) \/ Sign(a)
  BY <1>9 DEF Probe, Sign, docker, memory
<1>10. CASE ExecutorEnds(a)
  BY <1>10 DEF ExecutorEnds, memory
<1> QED
  BY <1>1, <1>2, <1>3, <1>4, <1>5, <1>6, <1>7, <1>8, <1>9, <1>10 DEF Step

(* A step of a run keeps its own part.                                     *)
LEMMA OwnKept ==
  ASSUME TypeOK, NEW a \in Run, RunInv(a),
         \/ Begin(a) \/ Step(a) \/ AttachReturns(a) \/ ExecutorEnds(a)
         \/ Crash(a)
  PROVE  RunInv(a)'
<1> USE DEF TypeOK, Goto, RunInv, Early, Measured, Late, PC, Present
<1>1. CASE Begin(a) \/ Crash(a)
  BY <1>1 DEF Begin, Crash, Ended, docker, memory
<1>2. CASE Identify(a)
  BY <1>2, NoneAssumption DEF Identify, docker
<1>3. CASE Create(a)
  BY <1>3 DEF Create, memory
<1>4. CASE InspectPasses(a)
  <2>1. <<seen[a], config[a]>> \in (0..MaxUpgrades) \X Variant
    BY <1>4 DEF InspectPasses, Authorised
  <2>2. <<seen[a], config[a]>> # None
    BY <2>1, NoneAssumption
  <2> QED
    BY <1>4, <2>2 DEF InspectPasses, Authorised, docker
<1>5. CASE InspectFails(a) \/ AttachFails(a) \/ ReinspectFails(a)
  BY <1>5 DEF InspectFails, AttachFails, ReinspectFails, Abort, docker
<1>6. CASE Start(a)
  BY <1>6 DEF Start, Abort
<1>7. CASE AttachReturns(a) \/ ReinspectPasses(a)
  BY <1>7 DEF AttachReturns, ReinspectPasses, docker, memory
<1>8. CASE Remove(a)
  BY <1>8 DEF Remove, memory
<1>9. CASE Probe(a) \/ Sign(a)
  BY <1>9 DEF Probe, Sign, Signed, docker, memory
<1>10. CASE ExecutorEnds(a)
  BY <1>10 DEF ExecutorEnds, memory
<1> QED
  BY <1>1, <1>2, <1>3, <1>4, <1>5, <1>6, <1>7, <1>8, <1>9, <1>10 DEF Step

(* Sealing changes the authority only when there is none, and then no      *)
(* attempt has a digest.                                                   *)
LEMMA SealKeeps ==
  ASSUME TypeOK, NEW a \in Run, Seal(a), NEW b \in Run, RunInv(b)
  PROVE  RunInv(b)'
<1>1. b \in Attempt => digest[b] = None
  BY NoneAssumption DEF Seal, RunInv, Measured, TypeOK, Digest
<1> QED
  BY <1>1 DEF Seal, RunInv, Early, Measured, Late, docker, memory

(* The invariant is inductive.                                             *)
LEMMA StepIInv == IInv /\ [Next]_vars => IInv'
<1> SUFFICES ASSUME IInv, [Next]_vars, NEW b \in Run PROVE RunInv(b)'
  BY TypeStep DEF IInv
<1>1. CASE UNCHANGED vars \/ Upgrade
  BY <1>1, FrameKeeps DEF vars, Upgrade, docker, memory, Frame, IInv
<1>2. ASSUME NEW a \in Run, Seal(a) PROVE RunInv(b)'
  BY <1>2, SealKeeps DEF IInv
<1>3. ASSUME NEW a \in Run,
             \/ Begin(a) \/ Step(a) \/ AttachReturns(a) \/ ExecutorEnds(a)
             \/ Crash(a)
      PROVE  RunInv(b)'
  <2>1. CASE a = b
    BY <1>3, <2>1, OwnKept DEF IInv
  <2>2. CASE a # b
    BY <1>3, <2>2, OthersFramed, FrameKeeps DEF IInv
  <2> QED
    BY <2>1, <2>2
<1> QED
  BY <1>1, <1>2, <1>3 DEF Next

(* It holds in every reachable state.                                      *)
THEOREM IInvHolds == Spec => []IInv
<1>1. Init => IInv
  BY InitIInv
<1>2. IInv /\ [Next]_vars => IInv'
  BY StepIInv
<1> QED
  BY <1>1, <1>2, PTL DEF Spec

-----------------------------------------------------------------------------
(* Every variable keeps its type.                                          *)
THEOREM TypeCorrect == Spec => []TypeOK
<1>1. IInv => TypeOK
  BY DEF IInv
<1> QED
  BY <1>1, IInvHolds, PTL

(* No receipt without an executor that ended cleanly in the container the  *)
(* receipt describes, and without that container being gone: what          *)
(* teardown_observed of run_supervised_attempt and of the preflight says.  *)
THEOREM ReceiptsAreEarned == Spec => []ReceiptIsEarned
<1>1. IInv => ReceiptIsEarned
  BY DEF IInv, RunInv, Measured, Late, ReceiptIsEarned
<1> QED
  BY <1>1, IInvHolds, PTL

(* No attempt starts an executor, or signs, with another digest than that  *)
(* of the authority: a drift blocks before the model starts.               *)
THEOREM StartsAreAuthorised == Spec => []StartedIsAuthorised
<1>1. IInv => StartedIsAuthorised
  BY DEF IInv, RunInv, Measured, Late, StartedIsAuthorised, Run
<1> QED
  BY <1>1, IInvHolds, PTL

(* A run that returns, signs or refuses has removed its container          *)
(* (_observed_teardown), whatever failed or was interrupted on the way.    *)
THEOREM LeftoversAreReported == Spec => []LeftoverIsReported
<1>1. IInv => LeftoverIsReported
  BY DEF IInv, RunInv, Late, LeftoverIsReported, Present
<1> QED
  BY <1>1, IInvHolds, PTL
=============================================================================
