------------------------------- MODULE Verifier -------------------------------
(***************************************************************************)
(* run_verifier of supernova_goal1/verifier.py on POSIX: the verifier runs *)
(* as the leader of a new process group, the host waits for its output     *)
(* under a timeout, and kills the group when the timeout expires.          *)
(*                                                                         *)
(* The group's processes run, fork, close their output and exit on their   *)
(* own.  communicate returns once the leader has exited and no process     *)
(* holds the output pipe; its timeout may expire at any moment, also when  *)
(* the output is complete but not yet read.                                *)
(*                                                                         *)
(* A kill may be denied, of the group (os.killpg) and of the leader alone  *)
(* (process.kill), and an interrupt may reach the host wherever it waits or*)
(* cleans up.                                                              *)
(***************************************************************************)
EXTENDS Naturals

CONSTANTS
  Descendant   \* processes the verifier may fork inside its group

VARIABLES
  pc,          \* where the host stands in run_verifier
  leader,      \* the verifier process
  child,       \* its descendants: piped ones hold the output pipe
  result,      \* the VerifierResult status returned
  treeKilled,  \* history: killpg has been delivered
  trouble      \* history: what the host met with

vars == <<pc, leader, child, result, treeKilled, trouble>>

Status == {"PASS", "FAIL", "TIMEOUT", "ERROR"}

Leader == {"none", "running", "exit0", "exit1", "killed"}

Child == {"unborn", "piped", "quiet", "gone"}

(* The timeout expired, communicate or a kill failed, or an interrupt came.*)
Trouble == {"timeout", "communicate", "kill", "interrupt"}

PC == {"start", "wait", "timeout_poll", "timeout_killpg", "drain", "recover",
       "error_check", "error_poll", "error_killpg", "last_wait",
       "escape_wait", "done", "raised"}

Init ==
  /\ pc = "start"
  /\ leader = "none"
  /\ child = [d \in Descendant |-> "unborn"]
  /\ result = "none"
  /\ treeKilled = FALSE
  /\ trouble = {}

Alive(d) == child[d] \in {"piped", "quiet"}

LeaderExited == leader \in {"exit0", "exit1", "killed"}

(* communicate can return: end of file on the pipe, and a leader to reap.  *)
OutputComplete == LeaderExited /\ \A d \in Descendant : child[d] # "piped"

-----------------------------------------------------------------------------
(* The process group.                                                      *)

LeaderExits ==
  /\ leader = "running"
  /\ leader' \in {"exit0", "exit1"}
  /\ UNCHANGED <<pc, child, result, treeKilled, trouble>>

(* A live process of the group forks; the child has its output redirected, *)
(* or inherits the pipe if its parent holds it.                            *)
Fork(d) ==
  /\ child[d] = "unborn"
  /\ \/ /\ leader = "running" \/ \E e \in Descendant : Alive(e)
        /\ child' = [child EXCEPT ![d] = "quiet"]
     \/ /\ leader = "running" \/ \E e \in Descendant : child[e] = "piped"
        /\ child' = [child EXCEPT ![d] = "piped"]
  /\ UNCHANGED <<pc, leader, result, treeKilled, trouble>>

ClosePipe(d) ==
  /\ child[d] = "piped"
  /\ child' = [child EXCEPT ![d] = "quiet"]
  /\ UNCHANGED <<pc, leader, result, treeKilled, trouble>>

ChildExits(d) ==
  /\ Alive(d)
  /\ child' = [child EXCEPT ![d] = "gone"]
  /\ UNCHANGED <<pc, leader, result, treeKilled, trouble>>

Group ==
  \/ LeaderExits
  \/ \E d \in Descendant : Fork(d) \/ ClosePipe(d) \/ ChildExits(d)

-----------------------------------------------------------------------------
(* The host.                                                               *)

Return(status) ==
  /\ pc' = "done"
  /\ result' = status

Spawn ==
  /\ pc = "start"
  /\ \/ /\ pc' = "wait"
        /\ leader' = "running"
        /\ UNCHANGED result
     \/ /\ Return("ERROR")           \* Popen raised
        /\ UNCHANGED leader
  /\ UNCHANGED <<child, treeKilled, trouble>>

Verdict == IF leader = "exit0" THEN "PASS" ELSE "FAIL"

CommunicateReturns ==
  /\ pc = "wait"
  /\ OutputComplete
  /\ Return(Verdict)
  /\ UNCHANGED <<leader, child, treeKilled, trouble>>

TimeoutExpires ==
  /\ pc = "wait"
  /\ pc' = "timeout_poll"
  /\ trouble' = trouble \cup {"timeout"}
  /\ UNCHANGED <<leader, child, result, treeKilled>>

(* communicate raises OSError or another SubprocessError.                  *)
CommunicateFails ==
  /\ pc = "wait"
  /\ pc' = "error_check"
  /\ trouble' = trouble \cup {"communicate"}
  /\ UNCHANGED <<leader, child, result, treeKilled>>

(* The error handler kills and drains only what is still running.          *)
CheckLeader ==
  /\ pc = "error_check"
  /\ \/ /\ ~LeaderExited
        /\ pc' = "error_poll"
        /\ UNCHANGED result
     \/ /\ LeaderExited
        /\ Return("ERROR")
  /\ UNCHANGED <<leader, child, treeKilled, trouble>>

AfterKill == IF pc \in {"timeout_poll", "timeout_killpg"} THEN "drain" ELSE "last_wait"

(* _kill_process_tree looks at the leader first, and does nothing once it  *)
(* has exited.                                                             *)
PollLeader ==
  /\ pc \in {"timeout_poll", "error_poll"}
  /\ pc' = CASE LeaderExited -> AfterKill
             [] ~LeaderExited /\ pc = "timeout_poll" -> "timeout_killpg"
             [] ~LeaderExited /\ pc = "error_poll" -> "error_killpg"
  /\ UNCHANGED <<leader, child, result, treeKilled, trouble>>

KilledLeader == IF leader = "running" THEN "killed" ELSE leader

(* Mutant: only the leader is killed.                                      *)
SurvivorsOfKill == child

KilledGroup == [d \in Descendant |-> IF Alive(d) THEN "gone" ELSE child[d]]

(* os.killpg: SIGKILL to every process of the group.                       *)
KillGroup ==
  /\ pc \in {"timeout_killpg", "error_killpg"}
  /\ leader' = KilledLeader
  /\ child' = KilledGroup
  /\ treeKilled' = TRUE
  /\ pc' = AfterKill
  /\ UNCHANGED <<result, trouble>>

(* os.killpg raises: the timeout path recovers, the error path drains the  *)
(* output in its finally clause and lets the exception escape.             *)
KillGroupFails ==
  /\ pc \in {"timeout_killpg", "error_killpg"}
  /\ trouble' = trouble \cup {"kill"}
  /\ pc' = IF pc = "timeout_killpg" THEN "recover" ELSE "escape_wait"
  /\ UNCHANGED <<leader, child, result, treeKilled>>

(* Mutant: the second communicate waits for as long as it takes.           *)
DrainWithoutTimeout ==
  /\ pc = "drain"
  /\ OutputComplete
  /\ Return("TIMEOUT")
  /\ UNCHANGED <<leader, child, treeKilled, trouble>>

(* Mutant: whatever the verifier answered after the timeout counts.        *)
DrainThenVerdict ==
  /\ pc = "drain"
  /\ \/ /\ OutputComplete
        /\ Return(Verdict)
     \/ /\ pc' = "recover"
        /\ UNCHANGED result
  /\ UNCHANGED <<leader, child, treeKilled, trouble>>

(* The second communicate, with its own timeout of five seconds.           *)
Drain ==
  /\ pc = "drain"
  /\ \/ /\ OutputComplete
        /\ Return("TIMEOUT")
     \/ /\ pc' = "recover"
        /\ UNCHANGED result
  /\ UNCHANGED <<leader, child, treeKilled, trouble>>

(* Mutant: the handler returns without looking at the leader.              *)
RecoverWithoutKill ==
  /\ pc = "recover"
  /\ Return("ERROR")
  /\ UNCHANGED <<leader, child, treeKilled, trouble>>

(* Containment failed: a leader still running is killed and drained        *)
(* without a timeout, or the kill is denied and its exception escapes.     *)
Recover ==
  /\ pc = "recover"
  /\ \/ /\ LeaderExited
        /\ Return("ERROR")
        /\ UNCHANGED <<leader, trouble>>
     \/ /\ ~LeaderExited
        /\ leader' = "killed"
        /\ pc' = "last_wait"
        /\ UNCHANGED <<result, trouble>>
     \/ /\ ~LeaderExited
        /\ pc' = "raised"
        /\ trouble' = trouble \cup {"kill"}
        /\ UNCHANGED <<leader, result>>
  /\ UNCHANGED <<child, treeKilled>>

LastWait ==
  /\ pc \in {"last_wait", "escape_wait"}
  /\ OutputComplete
  /\ \/ /\ pc = "last_wait"
        /\ Return("ERROR")
     \/ /\ pc = "escape_wait"
        /\ pc' = "raised"
        /\ UNCHANGED result
  /\ UNCHANGED <<leader, child, treeKilled, trouble>>

Host ==
  \/ Spawn
  \/ CommunicateReturns
  \/ TimeoutExpires
  \/ CommunicateFails
  \/ CheckLeader
  \/ PollLeader
  \/ KillGroup
  \/ KillGroupFails
  \/ Drain
  \/ Recover
  \/ LastWait

(* An interrupt: no handler of run_verifier catches it, and only the kill  *)
(* of the error path has a finally clause, which drains the output.        *)
Interrupted ==
  /\ pc \notin {"start", "done", "raised"}
  /\ pc' = IF pc \in {"error_poll", "error_killpg"} THEN "escape_wait" ELSE "raised"
  /\ trouble' = trouble \cup {"interrupt"}
  /\ UNCHANGED <<leader, child, result, treeKilled>>

Next == Host \/ Interrupted \/ Group

(* The host is scheduled and its clock advances; nothing is assumed of the *)
(* verifier's processes, and nobody need interrupt.                        *)
Spec == Init /\ [][Next]_vars /\ WF_vars(Host)

-----------------------------------------------------------------------------
(* The host, the group and the result keep their types.                    *)
TypeOK ==
  /\ pc \in PC
  /\ leader \in Leader
  /\ child \in [Descendant -> Child]
  /\ result \in Status \cup {"none"}
  /\ treeKilled \in BOOLEAN
  /\ trouble \in SUBSET Trouble

(* PASS and FAIL are only reported for a verifier that exited by itself,   *)
(* with the code reported, and whose output was complete before the        *)
(* timeout expired: neither a leader the host killed nor one that exits on *)
(* its own between the expiry and the kill ever yields a verdict.          *)
VerdictIsItsOwnExit ==
  /\ result = "PASS" => leader = "exit0"
  /\ result = "FAIL" => leader = "exit1"
  /\ result \in {"PASS", "FAIL"} => ~treeKilled /\ "timeout" \notin trouble

(* When the timeout finds the leader running, TIMEOUT is reported only     *)
(* once every process of the group is dead.                                *)
KilledTreeIsDead ==
  (result = "TIMEOUT" /\ treeKilled) => \A d \in Descendant : ~Alive(d)

(* run_verifier returns no result while the verifier process runs, though  *)
(* the kill of its group may have failed; only an exception that escapes   *)
(* leaves it running, and only after a kill was denied or an interrupt.    *)
NoLeaderLeft ==
  /\ pc = "done" => leader # "running"
  /\ pc = "raised" /\ leader = "running" => trouble \cap {"kill", "interrupt"} # {}

(* What the docstring says of TIMEOUT.                                     *)
TimeoutMeansTreeDead ==
  result = "TIMEOUT" => \A d \in Descendant : ~Alive(d)

(* A wait without a timeout, for a process that lives and is not killed.   *)
Stuck ==
  /\ pc \in {"last_wait", "escape_wait"}
  /\ trouble \cap {"communicate", "kill"} # {}
  /\ ~OutputComplete

(* The hard timeout: whatever the verifier's processes do, run_verifier    *)
(* ends, unless, after communicate or a kill has failed, it waits without a*)
(* timeout for processes that never let go of its output.                  *)
HardTimeout == (pc = "wait") ~> (pc \in {"done", "raised"} \/ []Stuck)
=============================================================================
