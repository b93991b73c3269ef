--------------------------- MODULE MCEvidenceBridge ---------------------------
(* Small instances of EvidenceBridge with its cost reports.                *)
EXTENDS CreditedBridge, TLC

CONSTANTS p1, v1, v2

Req(v, n, bound) == [problem |-> p1, version |-> v, place |-> n, bound |-> bound]

(* The two planned requests; one for the first slot with another identity  *)
(* of its problem; and one the plan does not bind.                         *)
SomeRequests ==
  {Req(v1, 1, TRUE), Req(v1, 2, TRUE), Req(v2, 1, TRUE), Req(v1, 2, FALSE)}

(* The two places are attempts of one arm, or each is the attempt of an arm*)
(* of its own.                                                             *)
MCLayouts == {<<"ordinary", "ordinary">>, <<"ordinary", "portfolio">>}

(* The second attempt was not verified.                                    *)
MCUsage(a) ==
  LET place == a.entry.request.place IN
    [request |-> 10 * place, response |-> 20 + place,
     verifier |-> IF place = 1 THEN 7 ELSE 0, host |-> 3]

Symmetry == Permutations(Outcome) \cup Permutations(Bridger)

-----------------------------------------------------------------------------
(* The reports a caller hands in: wrong in one place, or in another order. *)

(* All the events of a cell.                                               *)
EventsOfCell(cell) == FlattenSeq([i \in 1 .. Cardinality(cell) |->
                                    EventsOf(SetToSeq(cell)[i])])

(* The events as they should be, from first to last or from last to first; *)
(* with one lost, with one repeated, with one of another cell, or with one *)
(* measured otherwise.                                                     *)
Claims(events, others) ==
  {events, Reverse(events)}
    \cup {RemoveAt(events, i) : i \in DOMAIN events}
    \cup {Append(events, event) : event \in ToSet(events) \cup others}
    \cup {ReplaceAt(events, i, [events[i] EXCEPT !.output_tokens = n]) :
            i \in DOMAIN events, n \in {0, Unknown}}
    \cup {ReplaceAt(events, i, [events[i] EXCEPT !.milliseconds = n]) :
            i \in DOMAIN events, n \in {0, Unknown}}
    \cup {ReplaceAt(events, i, [events[i] EXCEPT !.basis = "PROVIDER_TOKENS"]) :
            i \in DOMAIN events}

(* The manifest may be cut to fit the claim, or the books still be open.   *)
Traces(events, others) ==
  {[events |-> claim, expected_events |-> events,
    accounting_complete |-> complete] :
     claim \in Claims(events, others), complete \in BOOLEAN}
    \cup {[events |-> claim, expected_events |-> claim,
           accounting_complete |-> TRUE] : claim \in Claims(events, others)}

(* One trace is of that kind, and the others are as they should be.        *)
MCReports(cells) ==
  LET exact == [arm \in DOMAIN cells |->
                  [events |-> EventsOfCell(cells[arm]),
                   expected_events |-> EventsOfCell(cells[arm]),
                   accounting_complete |-> TRUE]] IN
  UNION {{[exact EXCEPT ![arm] = trace] :
            trace \in Traces(exact[arm].events,
                             UNION {ToSet(exact[other].events) :
                                      other \in DOMAIN cells \ {arm}})} :
           arm \in DOMAIN cells}
=============================================================================
