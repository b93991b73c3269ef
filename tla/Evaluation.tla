------------------------------ MODULE Evaluation ------------------------------
(***************************************************************************)
(* evaluate_confirmatory.py: the decision over an evidence bridge bundle,  *)
(* and evaluate_experiment of evaluate.py, the evaluator it grew from.     *)
(*                                                                         *)
(* The bundle is whatever the authority's key signed.  What the classes of *)
(* a bundle and its records already refuse (a cell twice, a status vector  *)
(* of another length, untyped fields) is not asked again; the digests that *)
(* tie a record to its bundle and to the experiment are one boolean, the   *)
(* eight vectors of evidence digests one sequence of names, the cost       *)
(* vector what the checks make of it.  A decision of INCOMPLETE with the   *)
(* reason COMPLETE_COHORT_SIZE_NOT_REACHED is written SHORT.               *)
(***************************************************************************)
EXTENDS Statistics

CONSTANTS
  AnyProblem,  \* problem ids a record may name
  Problem,     \* EXPECTED_REPORT_PROBLEM_IDS
  Controls,    \* FROZEN_CONTROLS, in their order
  ByName,      \* the same arms in the order of their names
  Candidate,   \* Arm.VERIFIED_CHAIN
  Order,       \* the registered cells, in the canonical order of a bundle
  Version,     \* identities a record may give its problem
  Digest,      \* names of evidence
  Alpha,       \* FAMILYWISE_ALPHA, as a pair
  Bundle       \* the bundles that may be evaluated

Control == {Controls[i] : i \in DOMAIN Controls}
Arm == Control \cup {Candidate}

Status == {"SUCCEEDED", "FAILED", "TIMEOUT", "MODEL_ERROR", "VERIFIER_ERROR"}

(* Fewer model calls than attempts, more of anything than is allowed, or   *)
(* neither.                                                                *)
Cost == {"within", "few calls", "exceeds"}

Record == [problem : AnyProblem, arm : Arm, version : Version,
           statuses : Seq(Status), evidence : Seq(Digest),
           bound : BOOLEAN, cost : Cost, trace : Digest]

(* The controls are distinct, and ByName lists the same ones.              *)
ASSUME ArmAssumption ==
  /\ Controls \in Seq(Control) /\ ByName \in Seq(Control)
  /\ \A i, j \in DOMAIN Controls : Controls[i] = Controls[j] => i = j
  /\ \A i, j \in DOMAIN ByName : ByName[i] = ByName[j] => i = j
  /\ {ByName[i] : i \in DOMAIN ByName} = Control
  /\ Candidate \notin Control

(* Order lists each registered cell once.                                  *)
ASSUME OrderAssumption ==
  /\ Problem \subseteq AnyProblem
  /\ Order \in Seq(Problem \X Arm)
  /\ Problem \X Arm = {Order[i] : i \in DOMAIN Order}
  /\ \A i, j \in DOMAIN Order : Order[i] = Order[j] => i = j

Signable == [records : Seq(Record), credited : BOOLEAN, rules : BOOLEAN,
             signed : BOOLEAN]

ASSUME AlphaAssumption == Alpha \in Nat \X (Nat \ {0})

ASSUME BundleAssumption == Bundle \subseteq Signable

VARIABLES
  bundle,      \* the argument
  pc,
  next,        \* the record the loop is at
  observed,    \* observed_keys
  identity,    \* identity_by_problem
  used,        \* global_vectors
  blockers,    \* kinds of blockers noted
  incomplete,  \* kinds of gaps noted
  snapshots,   \* the records that passed
  decision,
  passed       \* the contrasts that pass

vars == <<bundle, pc, next, observed, identity, used, blockers, incomplete,
          snapshots, decision, passed>>

Init ==
  /\ bundle \in Bundle
  /\ pc = "start"
  /\ next = 1
  /\ observed = <<>>
  /\ identity = [p \in {} |-> 0]
  /\ used = <<>>
  /\ blockers = {}
  /\ incomplete = {}
  /\ snapshots = <<>>
  /\ decision = "none"
  /\ passed = {}

Cell(r) == <<r.problem, r.arm>>

(* A kind of note, when the condition holds.                               *)
Note(kind, condition) == IF condition THEN {kind} ELSE {}

Elements(s) == {s[i] : i \in DOMAIN s}

Has(r, status) == status \in Elements(r.statuses)

-----------------------------------------------------------------------------
(* Authentication.                                                         *)

(* The authority is unavailable, or did not sign this bundle.              *)
Refuse ==
  /\ pc = "start"
  /\ pc' = "decided"
  /\ blockers' = {"AUTHENTICATION"}
  /\ decision' = "BLOCKED"
  /\ UNCHANGED <<bundle, next, observed, identity, used, incomplete,
                 snapshots, passed>>

(* The signature holds; _validate_authenticated_bundle starts.             *)
Open ==
  /\ pc = "start"
  /\ bundle.signed
  /\ pc' = "examine"
  /\ blockers' = Note("RULES", ~ bundle.rules)
                   \cup Note("DRAFT", ~ bundle.credited)
  /\ UNCHANGED <<bundle, next, observed, identity, used, incomplete,
                 snapshots, decision, passed>>

-----------------------------------------------------------------------------
(* _validate_authenticated_bundle: the loop over the records.              *)

(* setdefault: the first record of a problem gives its identity.           *)
IdentityWith(r) ==
  [p \in DOMAIN identity \cup {r.problem} |->
     IF p \in DOMAIN identity THEN identity[p] ELSE r.version]

(* Mutant: the verifier's own errors are taken for failures.               *)
TimeoutsOnly(r) ==
  \/ ~ r.bound
  \/ IdentityWith(r)[r.problem] # r.version
  \/ Has(r, "TIMEOUT")
  \/ r.cost = "exceeds"

(* What in one record blocks the decision.                                 *)
Blocks(r) ==
  \/ ~ r.bound
  \/ IdentityWith(r)[r.problem] # r.version
  \/ Has(r, "TIMEOUT")
  \/ Has(r, "VERIFIER_ERROR")
  \/ r.cost = "exceeds"

(* A model or its provider failed, or was not asked often enough.          *)
LeavesGap(r) == Has(r, "MODEL_ERROR") \/ r.cost = "few calls"

(* One iteration.  Only the cost check leaves it early.                    *)
Examine ==
  /\ pc = "examine"
  /\ next <= Len(bundle.records)
  /\ LET r == bundle.records[next]
     IN /\ observed' = Append(observed, Cell(r))
        /\ identity' = IdentityWith(r)
        /\ used' = used \o r.evidence
        /\ blockers' = blockers \cup Note("RECORD", Blocks(r))
        /\ incomplete' = incomplete
                           \cup Note("RECORD", LeavesGap(r))
        /\ snapshots' = IF r.cost = "within" THEN Append(snapshots, r)
                        ELSE snapshots
  /\ next' = next + 1
  /\ UNCHANGED <<bundle, pc, decision, passed>>

Missing == Elements(Order) \ Elements(observed)

Extra == Elements(observed) \ Elements(Order)

Repeats(s) == \E i, j \in DOMAIN s : i # j /\ s[i] = s[j]

(* cost_trace_sha256s: only a record that is kept has its cost trace noted.*)
Traces == [k \in DOMAIN snapshots |-> snapshots[k].trace]

(* The checks after the loop.                                              *)
LateBlockers ==
  Note("EXTRA", Extra # {})
    \cup Note("ORDER", Missing = {} /\ Extra = {} /\ observed # Order)
    \cup Note("REPLAYED", Repeats(used) \/ Repeats(Traces))

-----------------------------------------------------------------------------
(* _evaluate_complete_snapshots.                                           *)

(* Which cells were solved, by a set of records with one of each cell.     *)
Solved(records) ==
  {Cell(records[i]) : i \in {j \in DOMAIN records :
                               Has(records[j], "SUCCEEDED")}}

(* _pairwise_counts: problems arm solved and other did not.                *)
Wins(solved, arm, other) ==
  Cardinality({p \in Problem :
                 <<p, arm>> \in solved /\ <<p, other>> \notin solved})

PValue(solved, control) ==
  McNemar(Wins(solved, Candidate, control), Wins(solved, control, Candidate))

(* Mutant: the direction of the difference is not asked.                   *)
EitherDirection(solved, control) == TRUE

(* paired_difference > 0, of the two solved counts.                        *)
Positive(solved, control) ==
  Cardinality({p \in Problem : <<p, Candidate>> \in solved})
    > Cardinality({p \in Problem : <<p, control>> \in solved})

(* holm_order: by p-value, then by name.                                   *)
HolmOrder(solved) ==
  LET ps == [j \in DOMAIN ByName |-> PValue(solved, ByName[j])]
  IN [k \in DOMAIN ByName |->
        ByName[CHOOSE i \in DOMAIN ByName : Rank(ps, i) = k - 1]]

(* Mutant: the corrections, in that order, are dealt to the controls in     *)
(* theirs.                                                                 *)
PassedUnsorted(solved) ==
  LET order == HolmOrder(solved)
      ps == [k \in DOMAIN order |-> PValue(solved, order[k])]
  IN {Controls[k] : k \in {n \in DOMAIN Controls :
                             /\ Positive(solved, Controls[n])
                             /\ HolmRejects(ps, Alpha, n)}}

(* The corrections of the p-values in that order, read at a control's      *)
(* rank.                                                                   *)
Passed(solved) ==
  LET order == HolmOrder(solved)
      ps == [k \in DOMAIN order |-> PValue(solved, order[k])]
  IN {c \in Control : /\ Positive(solved, c)
                      /\ \E k \in DOMAIN order : /\ order[k] = c
                                                 /\ HolmRejects(ps, Alpha, k)}

Verdict(solved) == IF Passed(solved) = Control THEN "PASS" ELSE "FAIL"

(* Blockers come first, then gaps, then the size of the cohort.            *)
DecisionOf(blocking, gaps) ==
  IF blocking # {} THEN "BLOCKED"
  ELSE IF gaps # {} THEN "INCOMPLETE"
  ELSE IF Len(snapshots) # Len(Order) THEN "SHORT"
  ELSE Verdict(Solved(snapshots))

(* _evaluate_authenticated_bundle after the loop.                          *)
Decide ==
  /\ pc = "examine"
  /\ next > Len(bundle.records)
  /\ pc' = "decided"
  /\ blockers' = blockers \cup LateBlockers
  /\ incomplete' = incomplete \cup Note("MISSING", Missing # {})
  /\ decision' = DecisionOf(blockers', incomplete')
  /\ passed' = IF decision' \in {"PASS", "FAIL"} THEN Passed(Solved(snapshots))
               ELSE {}
  /\ UNCHANGED <<bundle, next, observed, identity, used, snapshots>>

Next == Refuse \/ Open \/ Examine \/ Decide

Spec == Init /\ [][Next]_vars

-----------------------------------------------------------------------------
(* evaluate_experiment on a complete cohort: the corrections are taken in  *)
(* the order of the controls, the direction from the discordant pairs.     *)
BootstrapPassed(solved) ==
  LET ps == [k \in DOMAIN Controls |-> PValue(solved, Controls[k])]
  IN {Controls[k] : k \in {n \in DOMAIN Controls :
        /\ Wins(solved, Candidate, Controls[n])
             > Wins(solved, Controls[n], Candidate)
        /\ HolmRejects(ps, Alpha, n)}}

-----------------------------------------------------------------------------
(* Properties.                                                             *)

(* The loop's accumulators keep their types and belong to the records seen.*)
TypeOK ==
  /\ bundle \in Signable
  /\ pc \in {"start", "examine", "decided"}
  /\ next \in 1 .. (Len(bundle.records) + 1)
  /\ observed \in Seq(AnyProblem \X Arm)
  /\ used \in Seq(Digest)
  /\ snapshots \in Seq(Record)
  /\ decision \in {"none", "BLOCKED", "INCOMPLETE", "SHORT", "PASS", "FAIL"}
  /\ passed \subseteq Control

(* What the evaluator may not overlook, of the bundle as a whole.          *)
Tainted(b) ==
  LET rs == b.records
      cells == {Cell(rs[i]) : i \in DOMAIN rs}
  IN \/ ~ b.signed \/ ~ b.rules \/ ~ b.credited
     \/ \E i \in DOMAIN rs :
          \/ ~ rs[i].bound
          \/ Has(rs[i], "TIMEOUT") \/ Has(rs[i], "VERIFIER_ERROR")
          \/ rs[i].cost = "exceeds"
          \/ Cell(rs[i]) \notin Elements(Order)
     \/ \E i, j \in DOMAIN rs : /\ rs[i].problem = rs[j].problem
                                /\ rs[i].version # rs[j].version
     \/ \E i, j \in DOMAIN rs :
          \E m \in DOMAIN rs[i].evidence, n \in DOMAIN rs[j].evidence :
            <<i, m>> # <<j, n>> /\ rs[i].evidence[m] = rs[j].evidence[n]
     \/ \E i, j \in DOMAIN rs :
          /\ rs[i].cost = "within" /\ rs[j].cost = "within"
          /\ i # j /\ rs[i].trace = rs[j].trace
     \/ /\ cells = Elements(Order)
        /\ [i \in DOMAIN rs |-> Cell(rs[i])] # Order

(* What keeps the evaluator from a decision although nothing is wrong.     *)
Partial(b) ==
  \/ \E i \in DOMAIN b.records : LeavesGap(b.records[i])
  \/ \E cell \in Elements(Order) :
       \A i \in DOMAIN b.records : Cell(b.records[i]) # cell

(* A cohort is put to the test only when the bundle has every registered   *)
(* cell once, in order, unblemished and without a model's error; what is   *)
(* tainted is never merely incomplete; and the last check of the size      *)
(* never decides.                                                          *)
DecisionIsByPriority ==
  /\ decision \in {"PASS", "FAIL"} => ~ Tainted(bundle) /\ ~ Partial(bundle)
  /\ decision = "INCOMPLETE" => ~ Tainted(bundle) /\ Partial(bundle)
  /\ decision # "SHORT"

(* A contrast passes when the candidate solved more and the closed test,   *)
(* over p-values counted one outcome at a time, rejects: step-down, stable *)
(* sort and running coefficients change nothing.                           *)
PassedIsClosedTest ==
  LET solved == Solved(snapshots)
      ps == [k \in DOMAIN Controls |->
               CountedP(Wins(solved, Candidate, Controls[k]),
                        Wins(solved, Controls[k], Candidate))]
  IN decision \in {"PASS", "FAIL"} =>
       passed = {Controls[k] : k \in {n \in DOMAIN Controls :
                   /\ Wins(solved, Candidate, Controls[n])
                        > Wins(solved, Controls[n], Candidate)
                   /\ ClosedRejects(ps, Alpha, n)}}

(* A pass never turns to a failure when the candidate solves one problem   *)
(* more or a control one problem less, although every p-value and the      *)
(* order of the step-down may change.                                      *)
PassIsMonotone ==
  LET solved == Solved(snapshots)
  IN decision = "PASS" =>
       \A p \in Problem :
         /\ Verdict(solved \cup {<<p, Candidate>>}) = "PASS"
         /\ \A c \in Control : Verdict(solved \ {<<p, c>>}) = "PASS"

(* Both evaluators pass the same contrasts, although they sort, break ties *)
(* and take the direction differently.                                     *)
EvaluatorsAgree ==
  decision \in {"PASS", "FAIL"} => passed = BootstrapPassed(Solved(snapshots))
=============================================================================
