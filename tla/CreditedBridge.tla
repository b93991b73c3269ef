----------------------------- MODULE CreditedBridge -----------------------------
(***************************************************************************)
(* EvidenceBridge with the cost reports: bridge_closed_evidence is handed  *)
(* one report for each problem, by a caller it does not trust, reconciles  *)
(* every trace with what the execution receipts sign, and credits its      *)
(* total.                                                                  *)
(***************************************************************************)
EXTENDS EvidenceBridge, Cost

CONSTANTS
  Layouts,     \* the arms the places of a plan may have
  Usage(_),    \* what the execution receipt of an answer signs: the bytes of
               \* request and response, and the time of verifier and host
  UsageBasis,  \* the basis of the frozen requests
  Reports(_)   \* what a caller may hand in for a problem with these cells:
               \* sets of functions from arms to traces, of any events

VARIABLES
  arms,        \* the arm of each place of the plan
  credited     \* the costs of every bundle issued

creditedVars == <<vars, arms, credited>>

CreditedInit == Init /\ arms \in Layouts /\ credited = {}

Arm == {arms[place] : place \in Place}

(* The joined answers of a cell, one for each of its attempts.             *)
CellOf(problem, arm) ==
  {a \in Joined : /\ a.entry.request.problem = problem
                  /\ arms[a.entry.request.place] = arm}

-----------------------------------------------------------------------------
(* The five events of an attempt, as its execution receipt has them.       *)
Event(a, kind, input, output, milliseconds) ==
  [event_id |-> <<a.entry.request, kind>>, kind |-> kind,
   basis |-> IF kind = "MODEL_CALL" THEN UsageBasis ELSE Unknown,
   input_tokens |-> input, output_tokens |-> output,
   milliseconds |-> milliseconds]

EventsOf(a) ==
  <<Event(a, "MODEL_CALL", Usage(a).request, Usage(a).response, Unknown),
    Event(a, "CONTEXT_ISOLATION", Unknown, Unknown, Unknown),
    Event(a, "VERIFIER", Unknown, Unknown, Usage(a).verifier),
    Event(a, "ORCHESTRATION", Unknown, Unknown, Usage(a).host),
    Event(a, "PREDECESSOR_RECONCILIATION", Unknown, Unknown, Unknown)>>

(* _required_cost_events.                                                  *)
RequiredCostEvents(cell) == UNION {Manifest(EventsOf(a)) : a \in cell}

(* _reconcile_trace: both manifests are the required one, and the numbers  *)
(* are those of the receipts.                                              *)
Reconciles(trace, cell) ==
  /\ Manifest(trace.expected_events) = RequiredCostEvents(cell)
  /\ Manifest(trace.events) = RequiredCostEvents(cell)
  /\ \A a \in cell, event \in ToSet(trace.events) :
       /\ event.event_id = <<a.entry.request, "MODEL_CALL">> =>
            /\ event.input_tokens = Usage(a).request
            /\ event.output_tokens = Usage(a).response
       /\ event.event_id = <<a.entry.request, "VERIFIER">> =>
            event.milliseconds = Usage(a).verifier
       /\ event.event_id = <<a.entry.request, "ORCHESTRATION">> =>
            event.milliseconds = Usage(a).host

-----------------------------------------------------------------------------
(* The attempts each arm had at a problem.                                 *)
Cells(problem) == [arm \in Arm |-> CellOf(problem, arm)]

(* What the bridge requires of the report of a problem.                    *)
Accepts(report, problem) ==
  /\ DOMAIN report = Arm
  /\ ValidReport(report)
  /\ UsageBases(report) = {UsageBasis}
  /\ \A arm \in Arm : Reconciles(report[arm], CellOf(problem, arm))

(* bridge_closed_evidence with its reports.                                *)
BridgeCredits(b) ==
  /\ Bridge(b)
  /\ \E reports \in [Problem -> UNION {Reports(Cells(p)) : p \in Problem}] :
       /\ \A problem \in Problem : Accepts(reports[problem], problem)
       /\ credited' = credited \cup
            {[cell \in Problem \X Arm |-> Total(reports[cell[1]][cell[2]])]}
  /\ UNCHANGED arms

CreditedNext ==
  \/ OtherStep /\ UNCHANGED <<arms, credited>>
  \/ \E b \in Bridger : BridgeCredits(b)

CreditedSpec == CreditedInit /\ [][CreditedNext]_creditedVars

-----------------------------------------------------------------------------
(* What the receipts of a cell's attempts sign, each counted once.         *)
SignedSum(amount, attempts) ==
  MapThenSumSet(LAMBDA a : Usage(a)[amount], attempts)

SignedCost(attempts) ==
  [model_calls |-> Cardinality(attempts),
   input_tokens |-> SignedSum("request", attempts),
   output_tokens |-> SignedSum("response", attempts),
   verifier_milliseconds |-> SignedSum("verifier", attempts),
   orchestration_milliseconds |-> SignedSum("host", attempts)]

(* The cost a bundle credits a cell with is what the receipts of its       *)
(* attempts sign, whatever report was handed in: no event is dropped,      *)
(* repeated, moved to another arm or measured otherwise.                   *)
CreditedCostIsSigned ==
  \A costs \in credited : \A cell \in Problem \X Arm :
    costs[cell] = SignedCost(CellOf(cell[1], cell[2]))
=============================================================================
