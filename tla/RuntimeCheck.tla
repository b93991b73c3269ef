----------------------------- MODULE RuntimeCheck -----------------------------
(***************************************************************************)
(* check_benchmark_runtime of scripts/verify_benchmark_runtime.py: the     *)
(* benchmark is verified against its lock and the runtime against its pins,*)
(* a sample of the benchmark is given to Lean by run_verifier, and both are*)
(* verified again before a report is made.                                 *)
(*                                                                         *)
(* The sample is one statement, and the runtime's identity files are one.  *)
(* The version command is a run_verifier too, of which only the outcome    *)
(* matters; the run of the sample is Verifier.  The lock file is read      *)
(* twice in the same way as the runtime; it stays as it is.                *)
(***************************************************************************)
EXTENDS Verifier, BenchmarkLock

CONSTANTS
  Validation,   \* the file the sample is drawn from
  Build,        \* contents of the runtime's identity files
  Pinned,       \* those that fit the pins
  Installed,    \* the one there at the beginning
  MaxEdits      \* edits of the benchmark and of the runtime, together

ASSUME CheckAssumption ==
  /\ Validation \in DOMAIN Locked
  /\ Pinned \subseteq Build
  /\ Installed \in Build
  /\ MaxEdits \in Nat

VARIABLES
  runtime,      \* the identity files: content and stamp
  past,         \* history: what the runtime was, edit by edit
  check         \* the memory of check_benchmark_runtime

verifierVars == vars

runtimeVars == <<runtime, past>>

checkVars == <<verifierVars, lockVars, runtimeVars, check>>

CheckInit ==
  /\ Init
  /\ TreeInit
  /\ runtime = [content |-> Installed, stamp |-> 0]
  /\ past = <<Installed>>
  /\ check = [phase |-> "open_lock", stamp |-> 0, identity |-> Unread,
              records |-> Unread, used |-> Unread, failed |-> FALSE,
              report |-> "none"]

-----------------------------------------------------------------------------
(* Somebody edits.                                                         *)

Upgrade(b) ==
  /\ b # runtime.content
  /\ runtime' = [content |-> b, stamp |-> Len(past)]
  /\ past' = Append(past, b)
  /\ UNCHANGED treeVars

Edit ==
  /\ check.phase # "reported"
  /\ Len(history) + Len(past) < MaxEdits + 2
  /\ \/ EditTree /\ UNCHANGED runtimeVars
     \/ \E b \in Build : Upgrade(b)
  /\ UNCHANGED <<verifierVars, walk, check>>

-----------------------------------------------------------------------------
(* The check.                                                              *)

Goes(to) == check' = [check EXCEPT !.phase = to]

(* An exception ends the check with an ERROR report.                       *)
Raise == check' = [check EXCEPT !.phase = "reported", !.report = "ERROR"]

WalkLock ==
  /\ check.phase \in {"open_lock", "close_lock"}
  /\ WalkStep
  /\ UNCHANGED <<verifierVars, treeVars, runtimeVars, check>>

(* The exit status: PASS when nothing failed.                              *)
Report ==
  check' = [check EXCEPT !.phase = "reported",
                         !.report = IF check.failed THEN "FAIL" ELSE "PASS"]

(* verify_lock compares the lock of the directory with the one it is given.*)
VerifyLock ==
  /\ check.phase \in {"open_lock", "close_lock"}
  /\ \/ /\ WalkReturns
        /\ walk.digest = Locked
        /\ IF check.phase = "open_lock" THEN Goes("open_runtime") ELSE Report
     \/ /\ WalkReturns
        /\ walk.digest # Locked
        /\ Raise
     \/ /\ WalkRaises
        /\ Raise
  /\ walk' = NoWalk
  /\ UNCHANGED <<verifierVars, treeVars, runtimeVars>>

(* _read_stable_file takes the signature first.                            *)
StatRuntime ==
  /\ check.phase \in {"open_runtime", "close_runtime"}
  /\ check' = [check EXCEPT !.stamp = runtime.stamp,
                 !.phase = IF @ = "open_runtime" THEN "open_identity"
                                                 ELSE "close_identity"]
  /\ UNCHANGED <<verifierVars, lockVars, runtimeVars>>

(* Mutant: the closing identity is read and compared with nothing.         *)
ReadRuntimeOnce ==
  /\ check.phase \in {"open_identity", "close_identity"}
  /\ \/ /\ runtime.stamp = check.stamp
        /\ runtime.content \in Pinned
        /\ check' = IF check.phase = "open_identity"
                    THEN [check EXCEPT !.phase = "version",
                                       !.identity = runtime.content]
                    ELSE [check EXCEPT !.phase = "close_lock"]
     \/ /\ runtime.stamp # check.stamp \/ runtime.content \notin Pinned
        /\ Raise
  /\ UNCHANGED <<verifierVars, lockVars, runtimeVars>>

(* It returns what it read if the signature is still the same.  The closing*)
(* identity must be the one of the beginning.                              *)
ReadRuntime ==
  /\ check.phase \in {"open_identity", "close_identity"}
  /\ \/ /\ runtime.stamp = check.stamp
        /\ runtime.content \in Pinned
        /\ check.phase = "open_identity"
        /\ check' = [check EXCEPT !.phase = "version", !.identity = runtime.content]
     \/ /\ runtime.stamp = check.stamp
        /\ check.phase = "close_identity"
        /\ runtime.content = check.identity
        /\ Goes("close_lock")
     \/ /\ \/ runtime.stamp # check.stamp
           \/ runtime.content \notin Pinned
           \/ check.phase = "close_identity" /\ runtime.content # check.identity
        /\ Raise
  /\ UNCHANGED <<verifierVars, lockVars, runtimeVars>>

Version ==
  /\ check.phase = "version"
  /\ \/ Goes("records")
     \/ check' = [check EXCEPT !.phase = "close_runtime", !.failed = TRUE]
     \/ Raise
  /\ UNCHANGED <<verifierVars, lockVars, runtimeVars>>

(* The records are read by name, once more and without a signature.        *)
ReadRecords ==
  /\ check.phase = "records"
  /\ \/ /\ Validation \in DOMAIN tree
        /\ check' = [check EXCEPT !.phase = "sample",
                                  !.records = tree[Validation].content]
     \/ Raise
  /\ UNCHANGED <<verifierVars, lockVars, runtimeVars>>

(* run_verifier runs Lean in the runtime as it is then.                    *)
RunSample ==
  /\ check.phase = "sample"
  /\ Host
  /\ check' = IF pc = "start" THEN [check EXCEPT !.used = runtime.content] ELSE check
  /\ UNCHANGED <<lockVars, runtimeVars>>

(* An interrupt ends the check without a report.                           *)
JudgeSample ==
  /\ check.phase = "sample"
  /\ \/ /\ pc = "done"
        /\ check' = [check EXCEPT !.phase = "close_runtime",
                                  !.failed = (result # "PASS")]
     \/ /\ pc = "raised"
        /\ check' = [check EXCEPT !.phase = "reported",
                       !.report = IF "interrupt" \in trouble THEN "none"
                                                            ELSE "ERROR"]
  /\ UNCHANGED <<verifierVars, lockVars, runtimeVars>>

Checker ==
  \/ WalkLock
  \/ VerifyLock
  \/ StatRuntime
  \/ ReadRuntime
  \/ Version
  \/ ReadRecords
  \/ RunSample
  \/ JudgeSample

(* What the verifier's processes do once the sample is judged concerns     *)
(* nobody here.                                                            *)
GroupRuns ==
  /\ check.phase = "sample"
  /\ Group
  /\ UNCHANGED <<lockVars, runtimeVars, check>>

InterruptSample ==
  /\ check.phase = "sample"
  /\ Interrupted
  /\ UNCHANGED <<lockVars, runtimeVars, check>>

CheckNext == Checker \/ Edit \/ GroupRuns \/ InterruptSample

(* The fairness of Verifier: the host of run_verifier is scheduled.        *)
CheckSpec ==
  CheckInit /\ [][CheckNext]_checkVars /\ WF_checkVars(RunSample)

-----------------------------------------------------------------------------
(* h came back to something it had ceased to be.                           *)
CameBack(h) ==
  \E i, j, k \in DOMAIN h : i < j /\ j < k /\ h[i] = h[k] /\ h[i] # h[j]

(* A PASS report speaks of the benchmark and the runtime it names: the     *)
(* records that were drawn from are those of the lock, although they were  *)
(* read outside both verifications of it, Lean ran in the runtime of the   *)
(* report, and it passed.  Unless an edit went unnoticed by the clock of   *)
(* its file, or somebody undid his edit before the closing checks.         *)
PassSpeaksOfWhatIsLocked ==
  (/\ check.report = "PASS"
   /\ ~blurred
   /\ ~CameBack(history)
   /\ ~CameBack(past))
    => /\ check.records = Locked[Validation]
       /\ check.used = check.identity
       /\ result = "PASS"
=============================================================================
