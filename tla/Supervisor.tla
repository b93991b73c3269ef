------------------------------- MODULE Supervisor -------------------------------
(***************************************************************************)
(* The hermetic supervisor (confirmatory_supervisor.py): a preflight, the  *)
(* sealing of an execution authority from it, and supervised attempts.     *)
(* Each is one container, driven through the docker client one command at  *)
(* a time (_run_fresh_container, _observed_teardown).                      *)
(*                                                                         *)
(* Any command may fail or be interrupted, before or after the daemon did  *)
(* what it was asked.  The client's exit status is not trusted further     *)
(* than the code trusts it: attach may return 0 before the executor has    *)
(* ended, rm may return 0 with the container still there.  The clean image *)
(* digest covers the docker runtime, abstracted to a number that upgrades  *)
(* raise (MaxUpgrades is a bound of the model), and the configuration.     *)
(***************************************************************************)
EXTENDS Naturals

CONSTANTS
  Preflight,    \* calls of run_hermetic_preflight
  Attempt,      \* calls of run_supervised_attempt
  Variant,      \* configurations _clean_snapshot accepts
  Drifted,      \* a configuration it refuses
  None,
  MaxUpgrades

ASSUME KindAssumption == Preflight \cap Attempt = {}
ASSUME DriftedAssumption == Drifted \notin Variant
ASSUME UpgradesAssumption == MaxUpgrades \in Nat
ASSUME NoneAssumption ==
  /\ None \notin 0..MaxUpgrades
  /\ None \notin (0..MaxUpgrades) \X Variant

Run == Preflight \cup Attempt

Digest == (0..MaxUpgrades) \X Variant

VARIABLES
  runtime,     \* the docker runtime installed
  authority,   \* clean_image_sha256 of the sealed authority
  pc,          \* where each run stands
  container,   \* what the daemon has of its container
  config,      \* the configuration of its container
  seen,        \* docker_runtime_identity_sha256, as the run read it
  digest,      \* clean_sha, once the run has computed it
  failing,     \* the run is in its except clause
  answer,      \* the executor's response
  ending,      \* history: how the executor ended
  receipt      \* the digest in the receipt the run signed

docker == <<container, config, ending>>
memory == <<seen, digest, failing, answer>>
vars == <<runtime, authority, pc, docker, memory, receipt>>

PC == {"idle", "identify", "create", "inspect", "start", "attached",
       "reinspect", "remove", "probe", "returned", "signed",
       "not_created", "refused", "not_cleaned", "crashed"}

Ended == {"signed", "not_created", "refused", "not_cleaned", "crashed"}

Present == {"created", "running", "exited"}

Goto(a, label) == pc' = [pc EXCEPT ![a] = label]

Init ==
  /\ runtime = 0
  /\ authority = None
  /\ pc = [a \in Run |-> "idle"]
  /\ container = [a \in Run |-> "none"]
  /\ config = [a \in Run |-> None]
  /\ seen = [a \in Run |-> None]
  /\ digest = [a \in Run |-> None]
  /\ failing = [a \in Run |-> FALSE]
  /\ answer = [a \in Run |-> None]
  /\ ending = [a \in Run |-> None]
  /\ receipt = [a \in Run |-> None]

-----------------------------------------------------------------------------
(* Before the try block.                                                   *)

(* A supervised attempt needs a validated authority.                       *)
Begin(a) ==
  /\ pc[a] = "idle"
  /\ a \in Preflight \/ authority # None
  /\ Goto(a, "identify")
  /\ UNCHANGED <<runtime, authority, docker, memory, receipt>>

(* docker version, then docker image inspect.                              *)
Identify(a) ==
  /\ pc[a] = "identify"
  /\ \/ /\ seen' = [seen EXCEPT ![a] = runtime]
        /\ Goto(a, "create")
     \/ /\ Goto(a, "not_created")
        /\ UNCHANGED seen
  /\ UNCHANGED <<runtime, authority, docker, digest, failing, answer, receipt>>

(* docker create.  When it fails, is interrupted or prints something that  *)
(* is not an id the run raises, whether or not there is a container now.   *)
Create(a) ==
  /\ pc[a] = "create"
  /\ \/ \E c \in Variant \cup {Drifted} :
          /\ container' = [container EXCEPT ![a] = "created"]
          /\ config' = [config EXCEPT ![a] = c]
          /\ pc' \in {[pc EXCEPT ![a] = "inspect"],
                      [pc EXCEPT ![a] = "not_created"]}
     \/ /\ Goto(a, "not_created")
        /\ UNCHANGED <<container, config>>
  /\ UNCHANGED <<runtime, authority, ending, memory, receipt>>

-----------------------------------------------------------------------------
(* Inside the try block.                                                   *)

(* Mutant: except Exception, which an interrupt passes by.                 *)
AbortOrEscape(a) ==
  \/ Goto(a, "remove") /\ failing' = [failing EXCEPT ![a] = TRUE]
  \/ Goto(a, "refused") /\ UNCHANGED failing

(* Anything the try block raises, an interrupt included, goes to the       *)
(* teardown of the except clause.                                          *)
Abort(a) ==
  /\ failing' = [failing EXCEPT ![a] = TRUE]
  /\ Goto(a, "remove")

(* Mutant: the digest is not compared.                                     *)
AnyCleanConfiguration(a, d) == config[a] \in Variant

(* _clean_snapshot accepts the configuration, and a supervised attempt has *)
(* the digest of the authority.                                            *)
Authorised(a, d) ==
  /\ config[a] \in Variant
  /\ a \in Attempt => d = authority

InspectFails(a) ==
  /\ pc[a] = "inspect"
  /\ Abort(a)
  /\ UNCHANGED <<runtime, authority, docker, seen, digest, answer, receipt>>

InspectPasses(a) ==
  /\ pc[a] = "inspect"
  /\ LET d == <<seen[a], config[a]>> IN
       /\ Authorised(a, d)
       /\ digest' = [digest EXCEPT ![a] = d]
  /\ Goto(a, "start")
  /\ UNCHANGED <<runtime, authority, docker, seen, failing, answer, receipt>>

(* docker start --attach, until the daemon has started the executor.       *)
Start(a) ==
  /\ pc[a] = "start"
  /\ \/ /\ container' = [container EXCEPT ![a] = "running"]
        /\ \/ Goto(a, "attached") /\ UNCHANGED failing
           \/ Abort(a)
     \/ Abort(a) /\ UNCHANGED container
  /\ UNCHANGED <<runtime, authority, config, ending, seen, digest, answer,
                 receipt>>

(* Mutant: the client is waited for without a timeout.                     *)
AttachFailsAtExit(a) ==
  /\ pc[a] = "attached"
  /\ container[a] # "running"
  /\ Abort(a)
  /\ UNCHANGED <<runtime, authority, docker, seen, digest, answer, receipt>>

(* The client times out, returns a failure or an oversized response, or is *)
(* interrupted.  Killing the client does not stop the container.           *)
AttachFails(a) ==
  /\ pc[a] = "attached"
  /\ Abort(a)
  /\ UNCHANGED <<runtime, authority, docker, seen, digest, answer, receipt>>

AttachReturns(a) ==
  /\ pc[a] = "attached"
  /\ \E r \in {"ready", "other"} : answer' = [answer EXCEPT ![a] = r]
  /\ Goto(a, "reinspect")
  /\ UNCHANGED <<runtime, authority, docker, seen, digest, failing, receipt>>

(* Mutant: the client's word is enough.                                    *)
TrustTheClient(a) ==
  /\ pc[a] = "reinspect"
  /\ Goto(a, "remove")
  /\ UNCHANGED <<runtime, authority, docker, memory, receipt>>

(* State must say exited with code 0.                                      *)
ReinspectPasses(a) ==
  /\ pc[a] = "reinspect"
  /\ container[a] = "exited"
  /\ ending[a] = "clean"
  /\ Goto(a, "remove")
  /\ UNCHANGED <<runtime, authority, docker, memory, receipt>>

ReinspectFails(a) ==
  /\ pc[a] = "reinspect"
  /\ Abort(a)
  /\ UNCHANGED <<runtime, authority, docker, seen, digest, answer, receipt>>

-----------------------------------------------------------------------------
(* The teardown, _observed_teardown.                                       *)

(* docker rm --force: whatever it reports, it removed the container or not.*)
Remove(a) ==
  /\ pc[a] = "remove"
  /\ \/ container' = [container EXCEPT ![a] = "removed"]
     \/ UNCHANGED container
  /\ pc' \in {[pc EXCEPT ![a] = "probe"], [pc EXCEPT ![a] = "not_cleaned"]}
  /\ UNCHANGED <<runtime, authority, config, ending, memory, receipt>>

(* docker inspect must say that there is no such container.                *)
Probe(a) ==
  /\ pc[a] = "probe"
  /\ \/ /\ container[a] \notin Present
        /\ Goto(a, IF failing[a] THEN "refused" ELSE "returned")
     \/ Goto(a, "not_cleaned")
  /\ UNCHANGED <<runtime, authority, docker, memory, receipt>>

-----------------------------------------------------------------------------
(* After the lifecycle.                                                    *)

(* clean_image_sha256 of the receipt.                                      *)
Signed(a) == digest[a]

(* The preflight's response must be the expected one; an attempt's is      *)
(* signed as it is.  An interrupt leaves no receipt.                       *)
Sign(a) ==
  /\ pc[a] = "returned"
  /\ \/ /\ a \in Preflight => answer[a] = "ready"
        /\ receipt' = [receipt EXCEPT ![a] = Signed(a)]
        /\ Goto(a, "signed")
     \/ Goto(a, "refused") /\ UNCHANGED receipt
  /\ UNCHANGED <<runtime, authority, docker, memory>>

(* The authority is sealed from a preflight's receipt, once.               *)
Seal(a) ==
  /\ a \in Preflight
  /\ receipt[a] # None
  /\ authority = None
  /\ authority' = receipt[a]
  /\ UNCHANGED <<runtime, pc, docker, memory, receipt>>

-----------------------------------------------------------------------------
(* The environment.                                                        *)

(* The executor ends, or is killed by a limit.  It may also run forever.   *)
ExecutorEnds(a) ==
  /\ container[a] = "running"
  /\ container' = [container EXCEPT ![a] = "exited"]
  /\ \E e \in {"clean", "dirty"} : ending' = [ending EXCEPT ![a] = e]
  /\ UNCHANGED <<runtime, authority, pc, config, memory, receipt>>

(* The supervisor's process is killed; the daemon keeps the container.     *)
Crash(a) ==
  /\ pc[a] \notin Ended \cup {"idle"}
  /\ Goto(a, "crashed")
  /\ UNCHANGED <<runtime, authority, docker, memory, receipt>>

Upgrade ==
  /\ runtime < MaxUpgrades
  /\ runtime' = runtime + 1
  /\ UNCHANGED <<authority, pc, docker, memory, receipt>>

-----------------------------------------------------------------------------
Step(a) ==
  \/ Identify(a) \/ Create(a)
  \/ InspectPasses(a) \/ InspectFails(a)
  \/ Start(a) \/ AttachFails(a)
  \/ ReinspectPasses(a) \/ ReinspectFails(a)
  \/ Remove(a) \/ Probe(a) \/ Sign(a)

Next ==
  \/ \E a \in Run :
       \/ Begin(a) \/ Step(a) \/ AttachReturns(a) \/ Seal(a)
       \/ ExecutorEnds(a) \/ Crash(a)
  \/ Upgrade

(* A run that began goes on: it waits only for docker commands, which end. *)
(* docker start ends by its timeout, AttachFails; the others have none and *)
(* are assumed to answer.  Neither the executor nor an early return of the *)
(* attached client is assumed to come.                                     *)
Fairness == \A a \in Run : WF_vars(Step(a))

Spec == Init /\ [][Next]_vars

FairSpec == Spec /\ Fairness

-----------------------------------------------------------------------------
(* Properties.                                                             *)

(* Every variable keeps its type; a run that has an answer has a digest.   *)
TypeOK ==
  /\ runtime \in 0..MaxUpgrades
  /\ authority \in Digest \cup {None}
  /\ pc \in [Run -> PC]
  /\ container \in [Run -> {"none", "removed"} \cup Present]
  /\ config \in [Run -> Variant \cup {Drifted, None}]
  /\ seen \in [Run -> (0..MaxUpgrades) \cup {None}]
  /\ digest \in [Run -> Digest \cup {None}]
  /\ failing \in [Run -> BOOLEAN]
  /\ answer \in [Run -> {"ready", "other", None}]
  /\ ending \in [Run -> {"clean", "dirty", None}]
  /\ receipt \in [Run -> Digest \cup {None}]

(* A signed receipt says what happened: the executor ended with code 0 in  *)
(* a container of an accepted configuration that is gone, teardown_observed*)
(* is true, and nothing in the lifecycle failed.                           *)
ReceiptIsEarned ==
  \A a \in Run : receipt[a] # None =>
    /\ ending[a] = "clean"
    /\ container[a] = "removed"
    /\ ~failing[a]
    /\ receipt[a] = <<seen[a], config[a]>>

(* A supervised executor only ever runs in the configuration and under the *)
(* runtime the sealed preflight was observed with, as far as the run read  *)
(* them: a drift blocks before the model starts, and a receipt carries the *)
(* digest of the authority.                                                *)
StartedIsAuthorised ==
  \A a \in Attempt :
    container[a] = "running" \/ ending[a] # None \/ receipt[a] # None =>
      authority = <<seen[a], config[a]>>

(* A container is left behind only by a run that says so: docker create    *)
(* went wrong, or the cleanup was not observed, or the process died.       *)
LeftoverIsReported ==
  \A a \in Run : pc[a] \in {"returned", "signed", "refused"} =>
    container[a] \notin Present

(* A run that began ends, even when its executor never does.               *)
AttemptEnds == \A a \in Run : (pc[a] = "identify") ~> (pc[a] \in Ended)
=============================================================================
