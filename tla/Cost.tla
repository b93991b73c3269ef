--------------------------------- MODULE Cost ---------------------------------
(***************************************************************************)
(* cost.py: cost events, the trace of an arm with its coverage manifest,   *)
(* the report that closes when every arm is accounted for, and the total of*)
(* a trace, which is a vector and is never weighed into one number.        *)
(*                                                                         *)
(* A report is a function from the arms to their traces: one that misses or*)
(* repeats an arm raises.  The copies a trace and a report make of what    *)
(* they are given are what the definitions below are evaluated on.         *)
(***************************************************************************)
EXTENDS Naturals, SequencesExt

CONSTANT Unknown  \* a measurement that was not taken, or no usage basis

CostEventKind == {"MODEL_CALL", "CONTEXT_ISOLATION", "VERIFIER",
                  "ORCHESTRATION", "PREDECESSOR_RECONCILIATION"}

ModelUsageBasis == {"PROVIDER_TOKENS", "VISIBLE_UTF8_BYTES"}

(* CostEvent: a model call carries token counts, a verification or an      *)
(* orchestration carries time, and a receipt carries nothing; what is      *)
(* carried is a natural number, or was not measured.                       *)
ValidEvent(event) ==
  LET absent == {Unknown, 0}
      OptionalNatural == Nat \cup {Unknown} IN
  /\ event.input_tokens \in OptionalNatural
  /\ event.output_tokens \in OptionalNatural
  /\ event.milliseconds \in OptionalNatural
  /\ event.kind \in CostEventKind
  /\ IF event.kind = "MODEL_CALL" THEN event.basis \in ModelUsageBasis
     ELSE event.basis = Unknown
  /\ event.kind # "MODEL_CALL" => /\ event.input_tokens \in absent
                                  /\ event.output_tokens \in absent
  /\ event.kind \notin {"VERIFIER", "ORCHESTRATION"} =>
       event.milliseconds \in absent

(* measurement_complete.                                                   *)
Measured(event) ==
  /\ event.kind = "MODEL_CALL" => /\ event.input_tokens # Unknown
                                  /\ event.output_tokens # Unknown
  /\ event.kind \in {"VERIFIER", "ORCHESTRATION"} =>
       event.milliseconds # Unknown

(* observed_event_manifest and expected_event_manifest: dictionaries by id.*)
Manifest(events) ==
  {<<event.event_id, event.kind, event.basis>> : event \in ToSet(events)}

(* Mutant: an id may come again in a trace.                                *)
IdsMayRepeat(events) == TRUE

(* No event id comes twice.                                                *)
IdsAreUnique(events) ==
  \A i, j \in DOMAIN events : events[i].event_id = events[j].event_id => i = j

(* ArmCostTrace, which raises for any other.                               *)
ValidTrace(trace) ==
  /\ \A event \in ToSet(trace.events) \cup ToSet(trace.expected_events) :
       ValidEvent(event)
  /\ IdsAreUnique(trace.events)
  /\ IdsAreUnique(trace.expected_events)
  /\ \E event \in ToSet(trace.expected_events) : event.kind = "MODEL_CALL"

(* Complete accounting, coverage and measurement.                          *)
TraceIsComplete(trace) ==
  /\ trace.accounting_complete
  /\ Manifest(trace.events) = Manifest(trace.expected_events)
  /\ \A event \in ToSet(trace.events) : Measured(event)

(* The usage bases of the model calls of a report.                         *)
UsageBases(report) ==
  {event.basis : event \in {e \in UNION {ToSet(report[arm].events) :
                                           arm \in DOMAIN report} :
                              e.kind = "MODEL_CALL"}}

(* CompleteCostReport, which raises for any other.                         *)
ValidReport(report) ==
  /\ \A arm \in DOMAIN report :
       ValidTrace(report[arm]) /\ TraceIsComplete(report[arm])
  /\ \A arm1, arm2 \in DOMAIN report :
       \A e1 \in ToSet(report[arm1].events), e2 \in ToSet(report[arm2].events) :
         e1.event_id = e2.event_id => arm1 = arm2
  /\ \E basis \in ModelUsageBasis : UsageBases(report) = {basis}

CompleteCost ==
  [model_calls : Nat, input_tokens : Nat, output_tokens : Nat,
   verifier_milliseconds : Nat, orchestration_milliseconds : Nat]

NoCost ==
  [model_calls |-> 0, input_tokens |-> 0, output_tokens |-> 0,
   verifier_milliseconds |-> 0, orchestration_milliseconds |-> 0]

(* cost_increment.                                                         *)
CostIncrement(event) ==
  CASE event.kind = "MODEL_CALL" ->
         [NoCost EXCEPT !.model_calls = 1, !.input_tokens = event.input_tokens,
                        !.output_tokens = event.output_tokens]
    [] event.kind = "VERIFIER" ->
         [NoCost EXCEPT !.verifier_milliseconds = event.milliseconds]
    [] event.kind = "ORCHESTRATION" ->
         [NoCost EXCEPT !.orchestration_milliseconds = event.milliseconds]
    [] OTHER -> NoCost

(* The total of a trace, dimension by dimension.                           *)
Total(trace) ==
  FoldSeq(LAMBDA event, sum :
            [d \in DOMAIN sum |-> sum[d] + CostIncrement(event)[d]],
          NoCost, trace.events)
=============================================================================
