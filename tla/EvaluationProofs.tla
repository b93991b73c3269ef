--------------------------- MODULE EvaluationProofs ---------------------------
(***************************************************************************)
(* The decision of the confirmatory evaluator is taken in the order of its *)
(* priorities, and its statistics are what their references count, for     *)
(* every cohort, order, family of controls, level and bundle.              *)
(*                                                                         *)
(* The loop invariant says what the accumulators know of the records seen  *)
(* so far: that nothing blocks means that none of them is at fault, that   *)
(* there is no gap means that no model failed, and what was observed is    *)
(* what the records name.                                                  *)
(*                                                                         *)
(* The statistics are functions of the cohort.  What a sum or a running    *)
(* coefficient adds up to is shown by induction over sets: a set of        *)
(* numbers, or of finite sets, that is closed under the step holds them    *)
(* all, because its complement would have a least member.  With the tail   *)
(* of the binomial counted that way, the p-value is a count of outcomes,   *)
(* the step-down correction is the closed test, and the closed test knows  *)
(* no order: hence the two evaluators agree, and a pass stays a pass.      *)
(* Counting outcomes also says what the level is for: the p-values are     *)
(* valid when only chance decides, so that a contrast of that kind passes  *)
(* in a share of at most Alpha of the cohorts.                             *)
(***************************************************************************)
EXTENDS Evaluation, FiniteSetTheorems, FunctionTheorems, WellFoundedInduction,
        TLAPS

Seen == 1 .. (next - 1)

rec(i) == bundle.records[i]

(* The accumulators hold what the first records say.                       *)
Accumulates ==
  /\ observed = [i \in Seen |-> Cell(rec(i))]
  /\ incomplete # {} => \E i \in Seen : LeavesGap(rec(i))
  /\ incomplete = {} => \A i \in Seen : ~ LeavesGap(rec(i))
  /\ \A i \in Seen : \A m \in DOMAIN rec(i).evidence :
       \E k \in DOMAIN used : used[k] = rec(i).evidence[m]
  /\ \A i \in Seen : rec(i).cost = "within" =>
       \E k \in DOMAIN snapshots : snapshots[k].trace = rec(i).trace

(* No blocker so far: no fault so far, and no record was skipped.          *)
NoFaultSeen ==
  blockers = {} =>
    /\ bundle.rules /\ bundle.credited
    /\ incomplete = {} => Len(snapshots) = next - 1
    /\ \A i \in Seen :
         /\ rec(i).bound
         /\ ~ Has(rec(i), "TIMEOUT") /\ ~ Has(rec(i), "VERIFIER_ERROR")
         /\ rec(i).cost # "exceeds"
         /\ rec(i).problem \in DOMAIN identity
         /\ identity[rec(i).problem] = rec(i).version

(* No name twice among the evidence so far: none in two places.            *)
NoReplaySeen ==
  ~ Repeats(used) =>
    \A i, j \in Seen :
      \A m \in DOMAIN rec(i).evidence, n \in DOMAIN rec(j).evidence :
        rec(i).evidence[m] = rec(j).evidence[n] => i = j /\ m = n

(* The same of the cost traces of the records kept.                        *)
NoTraceReplaySeen ==
  ~ Repeats(Traces) =>
    \A i, j \in Seen :
      /\ rec(i).cost = "within" /\ rec(j).cost = "within"
      /\ rec(i).trace = rec(j).trace
      => i = j

Loop == pc = "examine" => /\ bundle.signed
                          /\ Accumulates
                          /\ NoFaultSeen
                          /\ NoReplaySeen
                          /\ NoTraceReplaySeen

Undecided ==
  /\ pc = "start" => next = 1 /\ observed = <<>> /\ used = <<>>
                     /\ incomplete = {} /\ snapshots = <<>>
  /\ pc # "decided" => decision = "none"

IInv == TypeOK /\ Undecided /\ Loop /\ DecisionIsByPriority

-----------------------------------------------------------------------------
(* A record of a signable bundle.                                          *)
LEMMA RecordType ==
  ASSUME TypeOK
  PROVE  \A i \in 1 .. Len(bundle.records) :
           /\ rec(i) \in Record
           /\ Cell(rec(i)) \in AnyProblem \X Arm
<1> TAKE i \in 1 .. Len(bundle.records)
<1>1. bundle.records \in Seq(Record)
  BY DEF TypeOK, Signable
<1>2. rec(i) \in Record
  BY <1>1 DEF rec
<1>3. Cell(rec(i)) \in AnyProblem \X Arm
  BY <1>2 DEF Record, Cell
<1> QED
  BY <1>2, <1>3

(* Before the first record there is nothing to accumulate.                 *)
LEMMA InitInv == Init => IInv
<1> SUFFICES ASSUME Init
             PROVE  IInv
  OBVIOUS
<1>1. bundle \in Signable
  BY BundleAssumption DEF Init
<1>2. TypeOK
  BY <1>1 DEF Init, TypeOK, Signable
<1>3. Undecided /\ Loop /\ DecisionIsByPriority
  BY DEF Init, Undecided, Loop, DecisionIsByPriority
<1> QED
  BY <1>2, <1>3 DEF IInv

(* A refusal decides nothing but BLOCKED.                                  *)
LEMMA RefuseInv == IInv /\ Refuse => IInv'
<1> SUFFICES ASSUME IInv, Refuse
             PROVE  IInv'
  OBVIOUS
<1>1. TypeOK'
  BY DEF IInv, TypeOK, Refuse
<1>2. Undecided' /\ Loop' /\ DecisionIsByPriority'
  BY DEF Refuse, Undecided, Loop, DecisionIsByPriority
<1> QED
  BY <1>1, <1>2 DEF IInv

(* The loop starts with the blockers of the bundle itself.                 *)
LEMMA OpenInv == IInv /\ Open => IInv'
<1> SUFFICES ASSUME IInv, Open
             PROVE  IInv'
  OBVIOUS
<1>1. TypeOK'
  BY DEF IInv, TypeOK, Open
<1>2. Undecided' /\ DecisionIsByPriority'
  BY DEF IInv, Open, Undecided, DecisionIsByPriority
<1>3. next = 1 /\ observed = <<>> /\ used = <<>> /\ incomplete = {}
      /\ snapshots = <<>>
  BY DEF IInv, Open, Undecided
<1>4. Seen' = {}
  BY <1>3 DEF Open, Seen
<1>5. Accumulates'
  <2>1. observed' = [i \in Seen' |-> Cell(rec(i))']
    BY <1>3, <1>4 DEF Open
  <2> QED
    BY <1>3, <1>4, <2>1 DEF Open, Accumulates
<1>6. NoFaultSeen'
  <2>1. blockers' = {} => bundle.rules /\ bundle.credited
    BY DEF Open, Note
  <2> QED
    BY <1>3, <1>4, <2>1 DEF Open, NoFaultSeen
<1>7. NoReplaySeen' /\ NoTraceReplaySeen'
  BY <1>4 DEF NoReplaySeen, NoTraceReplaySeen
<1>8. bundle'.signed
  BY DEF Open
<1> QED
  BY <1>1, <1>2, <1>5, <1>6, <1>7, <1>8 DEF IInv, Loop

-----------------------------------------------------------------------------
(* One iteration keeps the types.                                          *)
LEMMA ExamineType ==
  ASSUME IInv, Examine
  PROVE  TypeOK'
<1> DEFINE r == bundle.records[next]
<1>1. next \in 1 .. Len(bundle.records)
  BY DEF IInv, TypeOK, Examine, Signable
<1>2. r \in Record /\ Cell(r) \in AnyProblem \X Arm
  BY <1>1, RecordType DEF IInv, rec
<1>3. observed' \in Seq(AnyProblem \X Arm)
  BY <1>2 DEF IInv, TypeOK, Examine
<1>4. used' \in Seq(Digest)
  BY <1>2 DEF IInv, TypeOK, Examine, Record
<1>5. snapshots' \in Seq(Record)
  BY <1>2 DEF IInv, TypeOK, Examine
<1>6. next' \in 1 .. (Len(bundle.records) + 1)
  BY <1>1 DEF Examine, IInv, TypeOK, Signable
<1> QED
  BY <1>3, <1>4, <1>5, <1>6 DEF IInv, TypeOK, Examine

(* One iteration adds one record to what is accumulated.                   *)
LEMMA ExamineAccumulates ==
  ASSUME IInv, Examine
  PROVE  Accumulates'
<1> DEFINE r == bundle.records[next]
<1>1. next \in 1 .. Len(bundle.records) /\ r \in Record
  BY RecordType DEF IInv, TypeOK, Examine, Signable, rec
<1>2. Accumulates
  BY DEF IInv, Loop, Examine
<1>3. /\ Seen' = Seen \cup {next}
      /\ next \notin Seen
      /\ Seen = 1 .. (next - 1)
  BY <1>1 DEF Examine, Seen
<1>4. \A i : rec(i)' = rec(i)
  BY DEF Examine, rec
<1>5. observed' = [i \in Seen' |-> Cell(rec(i)')]
  <2>1. observed \in Seq(AnyProblem \X Arm) /\ DOMAIN observed = Seen
    BY <1>2 DEF IInv, TypeOK, Accumulates
  <2>2. Len(observed) = next - 1
    BY <1>1, <1>3, <2>1
  <2>3. observed' = Append(observed, Cell(r))
    BY DEF Examine
  <2>4. DOMAIN observed' = Seen' /\ observed'[next] = Cell(r)
    BY <1>1, <1>3, <2>1, <2>2, <2>3
  <2>5. \A i \in Seen : observed'[i] = Cell(rec(i))
    BY <1>1, <1>2, <1>3, <2>1, <2>2, <2>3 DEF Accumulates
  <2>6. observed' = [i \in DOMAIN observed' |-> observed'[i]]
    BY <2>1, <2>3
  <2> QED
    BY <1>3, <1>4, <2>4, <2>5, <2>6 DEF rec
<1>6. /\ incomplete' # {} => \E i \in Seen' : LeavesGap(rec(i)')
      /\ incomplete' = {} => \A i \in Seen' : ~ LeavesGap(rec(i)')
  <2>1. incomplete' = incomplete \cup Note("RECORD", LeavesGap(rec(next)))
    BY DEF Examine, rec
  <2> QED
    BY <1>2, <1>3, <1>4, <2>1 DEF Accumulates, Note
<1>7. \A i \in Seen' : \A m \in DOMAIN rec(i)'.evidence :
        \E k \in DOMAIN used' : used'[k] = rec(i)'.evidence[m]
  <2>1. used' = used \o r.evidence /\ used \in Seq(Digest)
        /\ r.evidence \in Seq(Digest)
    BY <1>1 DEF Examine, IInv, TypeOK, Record
  <2>2. \A k \in DOMAIN used : k \in DOMAIN used' /\ used'[k] = used[k]
    BY <2>1
  <2>3. \A m \in DOMAIN r.evidence :
          /\ Len(used) + m \in DOMAIN used'
          /\ used'[Len(used) + m] = r.evidence[m]
    BY SMTT(30), <2>1
  <2>4. \A i \in Seen : \A m \in DOMAIN rec(i).evidence :
          \E k \in DOMAIN used' : used'[k] = rec(i).evidence[m]
    BY <1>2, <2>2 DEF Accumulates
  <2> QED
    BY <1>3, <1>4, <2>3, <2>4 DEF rec
<1>8. \A i \in Seen' : rec(i)'.cost = "within" =>
        \E k \in DOMAIN snapshots' : snapshots'[k].trace = rec(i)'.trace
  <2>1. /\ snapshots \in Seq(Record)
        /\ snapshots' = IF r.cost = "within" THEN Append(snapshots, r)
                        ELSE snapshots
    BY DEF Examine, IInv, TypeOK
  <2>2. \A k \in DOMAIN snapshots : /\ k \in DOMAIN snapshots'
                                    /\ snapshots'[k] = snapshots[k]
    BY <1>1, <2>1
  <2>3. r.cost = "within" => \E k \in DOMAIN snapshots' : snapshots'[k] = r
    BY <1>1, <2>1
  <2>4. \A i \in Seen : rec(i).cost = "within" =>
          \E k \in DOMAIN snapshots' : snapshots'[k].trace = rec(i).trace
    BY <1>2, <2>2 DEF Accumulates
  <2> QED
    BY <1>3, <1>4, <2>3, <2>4 DEF rec
<1> QED
  BY <1>5, <1>6, <1>7, <1>8 DEF Accumulates

(* A record that does not block is without fault, and it is kept.          *)
LEMMA ExamineNoFault ==
  ASSUME IInv, Examine
  PROVE  NoFaultSeen'
<1> DEFINE r == bundle.records[next]
<1> SUFFICES ASSUME blockers' = {}
             PROVE  NoFaultSeen'
  BY DEF NoFaultSeen
<1>1. next \in 1 .. Len(bundle.records) /\ r \in Record
  BY RecordType DEF IInv, TypeOK, Examine, Signable, rec
<1>2. blockers = {} /\ ~ Blocks(r)
  BY DEF Examine, Note
<1>3. /\ bundle.rules /\ bundle.credited
      /\ incomplete = {} => Len(snapshots) = next - 1
      /\ \A i \in Seen :
           /\ rec(i).bound
           /\ ~ Has(rec(i), "TIMEOUT") /\ ~ Has(rec(i), "VERIFIER_ERROR")
           /\ rec(i).cost # "exceeds"
           /\ rec(i).problem \in DOMAIN identity
           /\ identity[rec(i).problem] = rec(i).version
  BY <1>2 DEF IInv, Loop, Examine, NoFaultSeen
<1>4. Seen' = Seen \cup {next}
  BY <1>1 DEF Examine, Seen
<1>5. \A i : rec(i)' = rec(i)
  BY DEF Examine, rec
<1>6. incomplete' = {} => Len(snapshots') = next' - 1
  <2> SUFFICES ASSUME incomplete' = {}
               PROVE  Len(snapshots') = next' - 1
    OBVIOUS
  <2>1. incomplete = {} /\ ~ LeavesGap(r)
    BY DEF Examine, Note
  <2>2. r.cost = "within"
    BY <1>1, <1>2, <2>1 DEF Record, Cost, Blocks, LeavesGap
  <2>3. snapshots' = Append(snapshots, r) /\ next' = next + 1
    BY <2>2 DEF Examine
  <2> QED
    BY <1>1, <1>3, <2>1, <2>3 DEF IInv, TypeOK
<1>7. identity' = IdentityWith(r)
  BY DEF Examine
<1>8. \A i \in Seen : /\ rec(i).problem \in DOMAIN identity'
                      /\ identity'[rec(i).problem] = rec(i).version
  BY <1>3, <1>7 DEF IdentityWith
<1>9. /\ r.problem \in DOMAIN identity' /\ identity'[r.problem] = r.version
      /\ r.bound /\ ~ Has(r, "TIMEOUT") /\ ~ Has(r, "VERIFIER_ERROR")
      /\ r.cost # "exceeds"
  BY <1>2, <1>7 DEF IdentityWith, Blocks
<1>10. rec(next) = r
  BY DEF rec
<1>11. bundle' = bundle
  BY DEF Examine
<1> QED
  BY <1>3, <1>4, <1>5, <1>6, <1>8, <1>9, <1>10, <1>11 DEF NoFaultSeen

(* Evidence named twice, within a record or across two, repeats a name in  *)
(* the concatenation.                                                      *)
LEMMA ExamineNoReplay ==
  ASSUME IInv, Examine
  PROVE  NoReplaySeen'
<1> DEFINE r == bundle.records[next]
<1> SUFFICES ASSUME ~ Repeats(used')
             PROVE  NoReplaySeen'
  BY DEF NoReplaySeen
<1>1. next \in 1 .. Len(bundle.records) /\ r \in Record
  BY RecordType DEF IInv, TypeOK, Examine, Signable, rec
<1>2. used' = used \o r.evidence /\ used \in Seq(Digest)
      /\ r.evidence \in Seq(Digest)
  BY <1>1 DEF Examine, IInv, TypeOK, Record
<1>3. /\ \A k \in DOMAIN used : k \in DOMAIN used' /\ used'[k] = used[k]
      /\ \A m \in DOMAIN r.evidence :
           /\ Len(used) + m \in DOMAIN used'
           /\ Len(used) + m \notin DOMAIN used
           /\ used'[Len(used) + m] = r.evidence[m]
  BY SMTT(30), <1>2
<1>4. \A k, l \in DOMAIN used' : used'[k] = used'[l] => k = l
  BY DEF Repeats
<1>5. ~ Repeats(used)
  BY <1>3, <1>4 DEF Repeats
<1>6. \A i, j \in Seen :
        \A m \in DOMAIN rec(i).evidence, n \in DOMAIN rec(j).evidence :
          rec(i).evidence[m] = rec(j).evidence[n] => i = j /\ m = n
  BY <1>5 DEF IInv, Loop, Examine, NoReplaySeen
<1>7. \A m, n \in DOMAIN r.evidence : r.evidence[m] = r.evidence[n] => m = n
  <2> TAKE m, n \in DOMAIN r.evidence
  <2> HAVE r.evidence[m] = r.evidence[n]
  <2>1. Len(used) + m = Len(used) + n
    BY <1>3, <1>4
  <2> QED
    BY <1>2, <2>1
<1>8. \A i \in Seen : \A m \in DOMAIN rec(i).evidence, n \in DOMAIN r.evidence :
        rec(i).evidence[m] # r.evidence[n]
  <2> TAKE i \in Seen
  <2> TAKE m \in DOMAIN rec(i).evidence, n \in DOMAIN r.evidence
  <2>1. PICK k \in DOMAIN used : used[k] = rec(i).evidence[m]
    BY DEF IInv, Loop, Examine, Accumulates
  <2> QED
    BY <1>3, <1>4, <2>1
<1>9. Seen' = Seen \cup {next}
  BY <1>1 DEF Examine, Seen
<1>10. /\ \A i : rec(i)' = rec(i)
       /\ rec(next) = r
  BY DEF Examine, rec
<1> QED
  BY <1>6, <1>7, <1>8, <1>9, <1>10 DEF NoReplaySeen

(* A cost trace named by two records that are kept is kept twice.          *)
LEMMA ExamineNoTraceReplay ==
  ASSUME IInv, Examine
  PROVE  NoTraceReplaySeen'
<1> DEFINE r == bundle.records[next]
<1> SUFFICES ASSUME ~ Repeats(Traces)'
             PROVE  NoTraceReplaySeen'
  BY DEF NoTraceReplaySeen
<1>1. next \in 1 .. Len(bundle.records) /\ r \in Record
  BY RecordType DEF IInv, TypeOK, Examine, Signable, rec
<1>2. /\ snapshots \in Seq(Record)
      /\ snapshots' = IF r.cost = "within" THEN Append(snapshots, r)
                      ELSE snapshots
  BY DEF Examine, IInv, TypeOK
<1>3. \A k \in DOMAIN snapshots : /\ k \in DOMAIN snapshots'
                                  /\ snapshots'[k] = snapshots[k]
  BY <1>1, <1>2
<1>4. \A k, l \in DOMAIN snapshots' :
        snapshots'[k].trace = snapshots'[l].trace => k = l
  BY DEF Repeats, Traces
<1>5. ~ Repeats(Traces)
  BY <1>3, <1>4 DEF Repeats, Traces
<1>6. \A i, j \in Seen :
        /\ rec(i).cost = "within" /\ rec(j).cost = "within"
        /\ rec(i).trace = rec(j).trace
        => i = j
  BY <1>5 DEF IInv, Loop, Examine, NoTraceReplaySeen
<1>7. ASSUME NEW i \in Seen, rec(i).cost = "within", r.cost = "within"
      PROVE  rec(i).trace # r.trace
  <2>1. PICK k \in DOMAIN snapshots : snapshots[k].trace = rec(i).trace
    BY <1>7 DEF IInv, Loop, Examine, Accumulates
  <2>2. /\ Len(snapshots) + 1 \in DOMAIN snapshots'
        /\ Len(snapshots) + 1 \notin DOMAIN snapshots
        /\ snapshots'[Len(snapshots) + 1] = r
    BY <1>1, <1>2, <1>7
  <2> QED
    BY <1>3, <1>4, <2>1, <2>2
<1>8. Seen' = Seen \cup {next}
  BY <1>1 DEF Examine, Seen
<1>9. /\ \A i : rec(i)' = rec(i)
      /\ rec(next) = r
  BY DEF Examine, rec
<1> QED
  BY <1>6, <1>7, <1>8, <1>9 DEF NoTraceReplaySeen

(* The loop invariant survives an iteration.                               *)
LEMMA ExamineInv == IInv /\ Examine => IInv'
<1> SUFFICES ASSUME IInv, Examine
             PROVE  IInv'
  OBVIOUS
<1>1. Undecided' /\ DecisionIsByPriority' /\ bundle'.signed
  BY DEF IInv, Examine, Undecided, DecisionIsByPriority, Loop
<1> QED
  BY <1>1, ExamineType, ExamineAccumulates, ExamineNoFault, ExamineNoReplay,
     ExamineNoTraceReplay DEF IInv, Loop

-----------------------------------------------------------------------------
(* After the loop the accumulators speak of the whole bundle.              *)
LEMMA AllSeen ==
  ASSUME IInv, Decide
  PROVE  /\ Seen = DOMAIN bundle.records
         /\ next - 1 = Len(bundle.records)
         /\ observed = [i \in DOMAIN bundle.records |-> Cell(rec(i))]
         /\ bundle.signed /\ Accumulates /\ NoFaultSeen /\ NoReplaySeen
         /\ NoTraceReplaySeen
<1>1. bundle.records \in Seq(Record)
  BY DEF IInv, TypeOK, Signable
<1>2. next - 1 = Len(bundle.records)
  BY <1>1 DEF IInv, TypeOK, Decide
<1>3. Seen = DOMAIN bundle.records
  BY <1>1, <1>2 DEF Seen
<1>4. bundle.signed /\ Accumulates /\ NoFaultSeen /\ NoReplaySeen
      /\ NoTraceReplaySeen
  BY DEF IInv, Loop, Decide
<1> QED
  BY <1>2, <1>3, <1>4 DEF Accumulates

(* A bundle in which nothing blocks is untainted.                          *)
LEMMA NothingOverlooked ==
  ASSUME IInv, Decide, blockers' = {}
  PROVE  ~ Tainted(bundle)
<1> DEFINE rs == bundle.records
<1>1. /\ Seen = DOMAIN rs
      /\ observed = [i \in DOMAIN rs |-> Cell(rec(i))]
      /\ bundle.signed /\ NoFaultSeen /\ NoReplaySeen /\ NoTraceReplaySeen
  BY AllSeen
<1>2. /\ blockers = {}
      /\ Extra = {}
      /\ ~ (Missing = {} /\ Extra = {} /\ observed # Order)
      /\ ~ Repeats(used) /\ ~ Repeats(Traces)
  BY DEF Decide, LateBlockers, Note
<1>3. \A i : rec(i) = rs[i]
  BY DEF rec
<1>4. Elements(observed) = {Cell(rs[i]) : i \in DOMAIN rs}
  BY <1>1, <1>3 DEF Elements
<1>5. \A i \in DOMAIN rs : /\ rs[i].bound
                           /\ ~ Has(rs[i], "TIMEOUT")
                           /\ ~ Has(rs[i], "VERIFIER_ERROR")
                           /\ rs[i].cost # "exceeds"
                           /\ identity[rs[i].problem] = rs[i].version
  BY <1>1, <1>2, <1>3 DEF NoFaultSeen
<1>6. bundle.signed /\ bundle.rules /\ bundle.credited
  BY <1>1, <1>2 DEF NoFaultSeen
<1>7. \A i \in DOMAIN rs : Cell(rs[i]) \in Elements(Order)
  BY <1>2, <1>4 DEF Extra
<1>8. \A i, j \in DOMAIN rs :
        rs[i].problem = rs[j].problem => rs[i].version = rs[j].version
  BY <1>5
<1>9. \A i, j \in DOMAIN rs :
        \A m \in DOMAIN rs[i].evidence, n \in DOMAIN rs[j].evidence :
          rs[i].evidence[m] = rs[j].evidence[n] => i = j /\ m = n
  BY <1>1, <1>2, <1>3 DEF NoReplaySeen
<1>10. {Cell(rs[i]) : i \in DOMAIN rs} = Elements(Order)
         => [i \in DOMAIN rs |-> Cell(rs[i])] = Order
  BY <1>1, <1>2, <1>3, <1>4 DEF Missing
<1>11. \A i, j \in DOMAIN rs :
         /\ rs[i].cost = "within" /\ rs[j].cost = "within"
         /\ rs[i].trace = rs[j].trace
         => i = j
  BY <1>1, <1>2, <1>3 DEF NoTraceReplaySeen
<1> QED
  BY <1>5, <1>6, <1>7, <1>8, <1>9, <1>10, <1>11 DEF Tainted

(* The gaps noted are the gaps there are.                                  *)
LEMMA GapsAreNoted ==
  ASSUME IInv, Decide
  PROVE  incomplete' # {} <=> Partial(bundle)
<1> DEFINE rs == bundle.records
<1>1. /\ Seen = DOMAIN rs
      /\ observed = [i \in DOMAIN rs |-> Cell(rec(i))]
      /\ Accumulates
  BY AllSeen
<1>2. \A i : rec(i) = rs[i]
  BY DEF rec
<1>3. incomplete # {} <=> \E i \in DOMAIN rs : LeavesGap(rs[i])
  BY <1>1, <1>2 DEF Accumulates
<1>4. Elements(observed) = {Cell(rs[i]) : i \in DOMAIN rs}
  BY <1>1, <1>2 DEF Elements
<1>5. Missing # {} <=> \E cell \in Elements(Order) :
                         \A i \in DOMAIN rs : Cell(rs[i]) # cell
  BY <1>4 DEF Missing
<1>6. incomplete' # {} <=> incomplete # {} \/ Missing # {}
  BY DEF Decide, Note
<1> QED
  BY <1>3, <1>5, <1>6 DEF Partial

(* The size of the cohort is right whenever it is asked for.               *)
LEMMA SizeIsReached ==
  ASSUME IInv, Decide, blockers' = {}, incomplete' = {}
  PROVE  Len(snapshots) = Len(Order)
<1>1. /\ next - 1 = Len(bundle.records)
      /\ observed = [i \in DOMAIN bundle.records |-> Cell(rec(i))]
      /\ NoFaultSeen
  BY AllSeen
<1>2. /\ blockers = {} /\ Extra = {} /\ Missing = {} /\ observed = Order
      /\ incomplete = {}
  BY DEF Decide, LateBlockers, Note
<1>3. Len(snapshots) = next - 1
  BY <1>1, <1>2 DEF NoFaultSeen
<1>4. Len(observed) = Len(bundle.records)
  BY <1>1 DEF IInv, TypeOK, Signable
<1> QED
  BY <1>1, <1>2, <1>3, <1>4

(* The decision follows the notes.                                         *)
LEMMA DecideInv == IInv /\ Decide => IInv'
<1> SUFFICES ASSUME IInv, Decide
             PROVE  IInv'
  OBVIOUS
<1>1. decision' \in {"BLOCKED", "INCOMPLETE", "SHORT", "PASS", "FAIL"}
  BY DEF Decide, DecisionOf, Verdict
<1>2. passed' \subseteq Control
  BY DEF Decide, Passed
<1>3. TypeOK'
  BY <1>1, <1>2 DEF IInv, TypeOK, Decide
<1>4. Undecided' /\ Loop'
  BY DEF Decide, Undecided, Loop
<1>5. /\ decision' = "INCOMPLETE" => blockers' = {} /\ incomplete' # {}
      /\ decision' \in {"SHORT", "PASS", "FAIL"} =>
           blockers' = {} /\ incomplete' = {}
      /\ decision' = "SHORT" => Len(snapshots) # Len(Order)
  BY DEF Decide, DecisionOf, Verdict
<1>6. bundle' = bundle
  BY DEF Decide
<1>7. DecisionIsByPriority'
  BY <1>5, <1>6, NothingOverlooked, GapsAreNoted, SizeIsReached
     DEF DecisionIsByPriority
<1> QED
  BY <1>3, <1>4, <1>7 DEF IInv

(* The invariant of the whole evaluation.                                  *)
LEMMA Invariance == Spec => []IInv
<1>1. IInv /\ [Next]_vars => IInv'
  <2> SUFFICES ASSUME IInv, [Next]_vars
               PROVE  IInv'
    OBVIOUS
  <2>1. CASE UNCHANGED vars
    <3>1. TypeOK' /\ Undecided' /\ DecisionIsByPriority'
      BY <2>1 DEF vars, IInv, TypeOK, Undecided, DecisionIsByPriority
    <3>2. /\ Seen' = Seen
          /\ \A i : rec(i)' = rec(i)
          /\ Traces' = Traces
      BY <2>1 DEF vars, Seen, rec, Traces
    <3>3. Accumulates => Accumulates'
      BY <2>1, <3>2 DEF vars, Accumulates
    <3>4. NoFaultSeen => NoFaultSeen'
      BY <2>1, <3>2 DEF vars, NoFaultSeen
    <3>5. NoReplaySeen => NoReplaySeen'
      BY <2>1, <3>2 DEF vars, NoReplaySeen
    <3>6. NoTraceReplaySeen => NoTraceReplaySeen'
      BY <2>1, <3>2 DEF vars, NoTraceReplaySeen
    <3> QED
      BY <2>1, <3>1, <3>3, <3>4, <3>5, <3>6 DEF vars, IInv, Loop
  <2> QED
    BY <2>1, RefuseInv, OpenInv, ExamineInv, DecideInv DEF Next
<1> QED
  BY <1>1, InitInv, PTL DEF Spec

(* The accumulators keep their types.                                      *)
THEOREM TypeCorrect == Spec => []TypeOK
  BY Invariance, PTL DEF IInv

(* Nothing tainted or partial is ever put to the test, nothing tainted is  *)
(* called incomplete, and the cohort's size never decides.                 *)
THEOREM PriorityHolds == Spec => []DecisionIsByPriority
  BY Invariance, PTL DEF IInv

-----------------------------------------------------------------------------
(* Counting.  The p-values are counts of subsets, and a recursion is       *)
(* settled by induction over the subsets of a finite set.                  *)

(* What can be built up element by element holds of a finite set.          *)
LEMMA FiniteInduction ==
  ASSUME NEW S, IsFiniteSet(S), NEW P
  PROVE  (\A T \in SUBSET S : (\A x \in T : T \ {x} \in P) => T \in P)
           => SUBSET S \subseteq P
<1> DEFINE B == (SUBSET S) \ P
           R == StrictSubsetOrdering(S)
<1>0. SUFFICES ASSUME \A T \in SUBSET S : (\A x \in T : T \ {x} \in P) => T \in P,
                      B # {}
               PROVE  FALSE
  OBVIOUS
<1>2. IsWellFoundedOn(R, FiniteSubsetsOf(S))
  BY FS_StrictSubsetOrderingWellFounded
<1>3. B \subseteq FiniteSubsetsOf(S)
  BY FS_FiniteSubsetsOfFinite
<1>4. B \subseteq SUBSET S
  OBVIOUS
<1> HIDE DEF B, R
<1>5. PICK T \in B : \A U \in B : ~ (<<U, T>> \in R)
  BY <1>0, <1>2, <1>3, WFMin
<1>6. T \in SUBSET S
  BY <1>4, <1>5
<1>7. ASSUME NEW x \in T PROVE T \ {x} \in P
  <2>1. <<T \ {x}, T>> \in R
    BY <1>6, <1>7 DEF R, StrictSubsetOrdering
  <2>2. T \ {x} \notin B
    BY <1>5, <2>1
  <2> QED
    BY <1>6, <2>2 DEF B
<1>8. T \in P
  BY <1>0, <1>6, <1>7
<1>9. T \notin P
  BY <1>5 DEF B
<1> QED
  BY <1>8, <1>9

(* The same for the natural numbers.                                       *)
LEMMA Induction ==
  ASSUME NEW P, 0 \in P, \A n \in Nat : n \in P => n + 1 \in P
  PROVE  Nat \subseteq P
<1> DEFINE B == {0 .. n : n \in Nat \ P}
           R == StrictSubsetOrdering(Nat)
<1> SUFFICES ASSUME ~ (Nat \subseteq P)
             PROVE  FALSE
  OBVIOUS
<1>1. B # {}
  OBVIOUS
<1>2. IsWellFoundedOn(R, FiniteSubsetsOf(Nat))
  BY FS_StrictSubsetOrderingWellFounded
<1>3. B \subseteq FiniteSubsetsOf(Nat)
  <2> SUFFICES ASSUME NEW n \in Nat
               PROVE  0 .. n \in FiniteSubsetsOf(Nat)
    OBVIOUS
  <2>1. IsFiniteSet(0 .. n)
    BY FS_Interval
  <2> QED
    BY <2>1 DEF FiniteSubsetsOf
<1> HIDE DEF R
<1>4. PICK T \in B : \A U \in B : ~ (<<U, T>> \in R)
  <2> HIDE DEF B
  <2> QED
    BY <1>1, <1>2, <1>3, WFMin
<1>5. PICK n \in Nat \ P : T = 0 .. n
  OBVIOUS
<1>6. n - 1 \in Nat /\ n - 1 \notin P
  BY <1>5
<1>7. <<0 .. (n - 1), 0 .. n>> \in R
  <2>1. 0 .. (n - 1) \in SUBSET Nat /\ 0 .. n \in SUBSET Nat
    BY <1>5, <1>6
  <2>2. n \in 0 .. n /\ n \notin 0 .. (n - 1)
    BY <1>5, <1>6
  <2>3. 0 .. (n - 1) \subseteq 0 .. n
    BY <1>5, <1>6
  <2> QED
    BY <2>1, <2>2, <2>3 DEF R, StrictSubsetOrdering
<1> QED
  BY <1>4, <1>5, <1>6, <1>7

(* A family of sets of k elements each, laid out element by element.       *)
Pairs(A, F) == {u \in A \X UNION {F[a] : a \in A} : u[2] \in F[u[1]]}

(* There are k pairs for each member of the family.                        *)
LEMMA PairsCount ==
  ASSUME NEW A, IsFiniteSet(A), NEW F, NEW k \in Nat,
         \A a \in A : IsFiniteSet(F[a]) /\ Cardinality(F[a]) = k
  PROVE  /\ IsFiniteSet(Pairs(A, F))
         /\ Cardinality(Pairs(A, F)) = k * Cardinality(A)
<1> DEFINE P == {T \in SUBSET A : /\ IsFiniteSet(Pairs(T, F))
                                  /\ Cardinality(Pairs(T, F)) = k * Cardinality(T)}
<1>1. ASSUME NEW T \in SUBSET A, \A x \in T : T \ {x} \in P
      PROVE  T \in P
  <2>1. CASE T = {}
    <3>1. Pairs(T, F) = {}
      BY <2>1 DEF Pairs
    <3> QED
      BY <2>1, <3>1, FS_EmptySet
  <2>2. ASSUME NEW x \in T PROVE T \in P
    <3> DEFINE own == {x} \X F[x]
               others == Pairs(T \ {x}, F)
    <3>1. IsFiniteSet(others) /\ Cardinality(others) = k * Cardinality(T \ {x})
      BY <1>1, <2>2
    <3>2. IsFiniteSet(T) /\ IsFiniteSet(T \ {x})
          /\ Cardinality(T \ {x}) = Cardinality(T) - 1
      BY <2>2, FS_Subset, FS_RemoveElement
    <3>3. IsFiniteSet(own) /\ Cardinality(own) = 1 * k
      <4>1. IsFiniteSet({x}) /\ Cardinality({x}) = 1
        BY FS_Singleton
      <4>2. IsFiniteSet(F[x]) /\ Cardinality(F[x]) = k
        BY <2>2
      <4>3. /\ IsFiniteSet(own)
            /\ Cardinality(own) = Cardinality({x}) * Cardinality(F[x])
        BY <4>1, <4>2, FS_Product
      <4> HIDE DEF own
      <4> QED
        BY <4>1, <4>2, <4>3
    <3>4. own \cap others = {}
      BY DEF Pairs
    <3>5. Pairs(T, F) = own \cup others
      BY <2>2 DEF Pairs
    <3> HIDE DEF own, others
    <3>6. /\ IsFiniteSet(own \cup others)
          /\ Cardinality(own \cup others) = k + k * Cardinality(T \ {x})
      <4>1. /\ IsFiniteSet(own \cup others)
            /\ Cardinality(own \cup others) =
                 Cardinality(own) + Cardinality(others) - Cardinality(own \cap others)
        BY <3>1, <3>3, FS_Union
      <4>2. Cardinality(own \cap others) = 0
        BY <3>4, FS_EmptySet
      <4>3. Cardinality(others) \in Nat
        BY <3>1, FS_CardinalityType
      <4> QED
        BY <3>1, <3>3, <4>1, <4>2, <4>3
    <3>7. k + k * (Cardinality(T) - 1) = k * Cardinality(T)
      <4>1. Cardinality(T) \in Nat
        BY <3>2, FS_CardinalityType
      <4> QED
        BY <4>1
    <3> QED
      BY <3>2, <3>5, <3>6, <3>7
  <2> QED
    BY <2>1, <2>2
<1> HIDE DEF P
<1>2. SUBSET A \subseteq P
  BY <1>1, FiniteInduction
<1> QED
  BY <1>2 DEF P

-----------------------------------------------------------------------------
(* The binomial coefficients.                                              *)

(* The ways in which k of n problems can fall to one arm, and in which at  *)
(* most s can.                                                             *)
Exactly(n, k) == {S \in SUBSET (1 .. n) : Cardinality(S) = k}

AtMostOf(n, s) == {S \in SUBSET (1 .. n) : Cardinality(S) <= s}

(* There are finitely many.                                                *)
LEMMA WaysAreFinite ==
  ASSUME NEW n \in Nat
  PROVE  /\ IsFiniteSet(1 .. n) /\ Cardinality(1 .. n) = n
         /\ IsFiniteSet(SUBSET (1 .. n))
         /\ \A S \in SUBSET (1 .. n) : /\ IsFiniteSet(S)
                                       /\ Cardinality(S) \in 0 .. n
         /\ \A F \in SUBSET SUBSET (1 .. n) : /\ IsFiniteSet(F)
                                              /\ Cardinality(F) \in Nat
<1>1. IsFiniteSet(1 .. n) /\ Cardinality(1 .. n) = n
  <2>1. 1 \in Int /\ n \in Int
    OBVIOUS
  <2>2. /\ IsFiniteSet(1 .. n)
        /\ Cardinality(1 .. n) = IF 1 > n THEN 0 ELSE n - 1 + 1
    BY <2>1, FS_Interval
  <2> QED
    BY <2>2
<1>2. IsFiniteSet(SUBSET (1 .. n))
  BY <1>1, FS_SUBSET
<1>3. ASSUME NEW S \in SUBSET (1 .. n)
      PROVE  IsFiniteSet(S) /\ Cardinality(S) \in 0 .. n
  <2>1. IsFiniteSet(S) /\ Cardinality(S) <= n
    BY <1>1, FS_Subset
  <2>2. Cardinality(S) \in Nat
    BY <2>1, FS_CardinalityType
  <2> QED
    BY <2>1, <2>2
<1>4. ASSUME NEW F \in SUBSET SUBSET (1 .. n)
      PROVE  IsFiniteSet(F) /\ Cardinality(F) \in Nat
  BY <1>2, FS_Subset, FS_CardinalityType
<1> QED
  BY <1>1, <1>2, <1>3, <1>4

(* k times the ways to pick k, and n - k + 1 times the ways to pick one    *)
(* less, both count the ways to pick k of which one is singled out.        *)
LEMMA Recurrence ==
  ASSUME NEW n \in Nat, NEW k \in 1 .. n
  PROVE  k * Cardinality(Exactly(n, k)) =
           (n - (k - 1)) * Cardinality(Exactly(n, k - 1))
<1> DEFINE A == Exactly(n, k)
           B == Exactly(n, k - 1)
           in == [S \in A |-> S]
           out == [S \in B |-> (1 .. n) \ S]
           f == [u \in Pairs(A, in) |-> <<u[1] \ {u[2]}, u[2]>>]
<1>0. A \in SUBSET SUBSET (1 .. n) /\ B \in SUBSET SUBSET (1 .. n)
  BY DEF Exactly
<1>1. IsFiniteSet(A) /\ IsFiniteSet(B)
  BY <1>0, WaysAreFinite
<1>2. \A S \in A : IsFiniteSet(in[S]) /\ Cardinality(in[S]) = k
  BY WaysAreFinite DEF Exactly
<1>3. ASSUME NEW S \in B
      PROVE  IsFiniteSet(out[S]) /\ Cardinality(out[S]) = n - (k - 1)
  <2>1. S \subseteq 1 .. n /\ Cardinality(S) = k - 1
    BY <1>3 DEF Exactly
  <2>2. (1 .. n) \cap S = S
    BY <2>1
  <2>3. IsFiniteSet(1 .. n) /\ Cardinality(1 .. n) = n
    BY WaysAreFinite
  <2>4. /\ IsFiniteSet((1 .. n) \ S)
        /\ Cardinality((1 .. n) \ S) = n - Cardinality((1 .. n) \cap S)
    BY <2>3, FS_Difference
  <2> QED
    BY <1>3, <2>1, <2>2, <2>4
<1>4. /\ IsFiniteSet(Pairs(A, in))
      /\ Cardinality(Pairs(A, in)) = k * Cardinality(A)
  <2>1. k \in Nat
    OBVIOUS
  <2> HIDE DEF A, in
  <2> QED
    BY <1>1, <1>2, <2>1, PairsCount
<1>5. Cardinality(Pairs(B, out)) = (n - (k - 1)) * Cardinality(B)
  <2>1. n - (k - 1) \in Nat
    OBVIOUS
  <2> HIDE DEF B, out
  <2> QED
    BY <1>1, <1>3, <2>1, PairsCount
<1>6. ASSUME NEW u \in Pairs(A, in)
      PROVE  /\ u = <<u[1], u[2]>> /\ u[1] \in A /\ u[2] \in u[1]
             /\ u[1] \in SUBSET (1 .. n)
             /\ f[u] = <<u[1] \ {u[2]}, u[2]>>
             /\ f[u] \in Pairs(B, out)
  <2>1. u = <<u[1], u[2]>> /\ u[1] \in A /\ u[2] \in u[1]
    BY DEF Pairs
  <2>2. u[1] \in SUBSET (1 .. n) /\ Cardinality(u[1]) = k
    BY <2>1 DEF Exactly
  <2>3. Cardinality(u[1] \ {u[2]}) = k - 1
    <3>1. IsFiniteSet(u[1])
      BY <2>2, WaysAreFinite
    <3>2. Cardinality(u[1] \ {u[2]}) = Cardinality(u[1]) - 1
      BY <2>1, <3>1, FS_RemoveElement
    <3> QED
      BY <2>2, <3>2
  <2>4. u[1] \ {u[2]} \in B
    BY <2>2, <2>3 DEF Exactly
  <2>5. u[2] \in out[u[1] \ {u[2]}]
    BY <2>1, <2>2, <2>4
  <2>6. f[u] \in Pairs(B, out)
    BY <2>4, <2>5 DEF Pairs
  <2> QED
    BY <2>1, <2>2, <2>6
<1>7. ASSUME NEW w \in Pairs(B, out)
      PROVE  \E u \in Pairs(A, in) : f[u] = w
  <2>1. w = <<w[1], w[2]>> /\ w[1] \in B /\ w[2] \in (1 .. n) \ w[1]
    BY DEF Pairs
  <2>2. w[1] \in SUBSET (1 .. n) /\ Cardinality(w[1]) = k - 1
    BY <2>1 DEF Exactly
  <2> DEFINE S == w[1] \cup {w[2]}
  <2>3. Cardinality(S) = k
    <3>1. IsFiniteSet(w[1])
      BY <2>2, WaysAreFinite
    <3>2. Cardinality(S) = Cardinality(w[1]) + 1
      BY <2>1, <3>1, FS_AddElement
    <3> QED
      BY <2>2, <3>2
  <2>4. S \in A
    BY <2>1, <2>2, <2>3 DEF Exactly
  <2>5. <<S, w[2]>> \in Pairs(A, in)
    BY <2>4 DEF Pairs
  <2>6. S \ {w[2]} = w[1]
    BY <2>1
  <2> QED
    BY <2>1, <2>5, <2>6
<1>8. \A u, v \in Pairs(A, in) : f[u] = f[v] => u = v
  <2> SUFFICES ASSUME NEW u \in Pairs(A, in), NEW v \in Pairs(A, in), f[u] = f[v]
               PROVE  u = v
    OBVIOUS
  <2> HIDE DEF A, in, f
  <2>1. /\ u = <<u[1], u[2]>> /\ v = <<v[1], v[2]>>
        /\ u[2] \in u[1] /\ v[2] \in v[1]
        /\ <<u[1] \ {u[2]}, u[2]>> = <<v[1] \ {v[2]}, v[2]>>
    <3>1. f[u] = <<u[1] \ {u[2]}, u[2]>> /\ f[v] = <<v[1] \ {v[2]}, v[2]>>
      BY <1>6
    <3>2. f[u] = f[v]
      OBVIOUS
    <3> QED
      BY <1>6, <3>1, <3>2
  <2>2. u[2] = v[2] /\ u[1] \ {u[2]} = v[1] \ {v[2]}
    BY <2>1
  <2>3. u[1] = v[1]
    BY <2>1, <2>2
  <2> QED
    BY <2>1, <2>2, <2>3
<1> HIDE DEF A, B, in, out, f
<1>9. f \in [Pairs(A, in) -> Pairs(B, out)]
  <2>1. DOMAIN f = Pairs(A, in) /\ f = [u \in DOMAIN f |-> f[u]]
    BY DEF f
  <2> QED
    BY <1>6, <2>1
<1>10. ExistsBijection(Pairs(A, in), Pairs(B, out))
  BY <1>7, <1>8, <1>9, Fun_IsBij DEF ExistsBijection
<1>11. Cardinality(Pairs(B, out)) = Cardinality(Pairs(A, in))
  BY <1>4, <1>10, FS_Bijection
<1> QED
  BY <1>4, <1>5, <1>11 DEF A, B

(* The floor division of the code is exact.                                *)
LEMMA ExactDivision ==
  ASSUME NEW k \in Nat, k > 0, NEW q \in Nat
  PROVE  (k * q) \div k = q
OBVIOUS

(* One way to pick nothing; and each number of ways from the one before.   *)
LEMMA Ways ==
  ASSUME NEW n \in Nat
  PROVE  /\ Cardinality(Exactly(n, 0)) = 1
         /\ \A k \in 1 .. n :
              (Cardinality(Exactly(n, k - 1)) * (n - (k - 1))) \div k =
                Cardinality(Exactly(n, k))
<1>1. Exactly(n, 0) = {{}}
  <2>1. ASSUME NEW S \in SUBSET (1 .. n), Cardinality(S) = 0
        PROVE  S = {}
    BY <2>1, WaysAreFinite, FS_EmptySet
  <2>2. Cardinality({}) = 0
    BY FS_EmptySet
  <2> QED
    BY <2>1, <2>2 DEF Exactly
<1>2. Cardinality(Exactly(n, 0)) = 1
  BY <1>1, FS_Singleton
<1>3. ASSUME NEW k \in 1 .. n
      PROVE  (Cardinality(Exactly(n, k - 1)) * (n - (k - 1))) \div k =
               Cardinality(Exactly(n, k))
  <2> DEFINE before == Cardinality(Exactly(n, k - 1))
             after == Cardinality(Exactly(n, k))
  <2>1. before \in Nat /\ after \in Nat
    BY WaysAreFinite DEF Exactly
  <2>2. k * after = (n - (k - 1)) * before
    BY Recurrence
  <2> HIDE DEF before, after
  <2>3. before * (n - (k - 1)) = k * after
    BY <2>1, <2>2
  <2>4. (k * after) \div k = after
    BY <2>1, ExactDivision
  <2>5. (before * (n - (k - 1))) \div k = after
    BY <2>3, <2>4
  <2> QED
    BY <2>5 DEF before, after
<1> QED
  BY <1>2, <1>3

(* The coefficients of _binomial_half_lower_tail_numerator.                *)
AreCoefficients(c, n, s) ==
  c = [k \in 0 .. s |->
         IF k = 0 THEN 1 ELSE (c[k - 1] * (n - (k - 1))) \div k]

(* The code's running coefficients exist, and they count the ways.         *)
LEMMA CoefficientsCount ==
  ASSUME NEW n \in Nat, NEW s \in 0 .. n
  PROVE  /\ \E c : AreCoefficients(c, n, s)
         /\ \A c : AreCoefficients(c, n, s) =>
              \A k \in 0 .. s : c[k] = Cardinality(Exactly(n, k))
<1>1. \E c : AreCoefficients(c, n, s)
  <2> DEFINE ways == [k \in 0 .. s |-> Cardinality(Exactly(n, k))]
  <2>1. ASSUME NEW k \in 0 .. s
        PROVE  ways[k] = IF k = 0 THEN 1
                         ELSE (ways[k - 1] * (n - (k - 1))) \div k
    <3>1. CASE k = 0
      BY <3>1, Ways
    <3>2. CASE k # 0
      <4>1. k \in 1 .. n /\ k - 1 \in 0 .. s
        BY <3>2
      <4>2. ways[k - 1] = Cardinality(Exactly(n, k - 1))
        BY <4>1
      <4>3. ways[k] = Cardinality(Exactly(n, k))
        OBVIOUS
      <4> HIDE DEF ways
      <4> QED
        BY <3>2, <4>1, <4>2, <4>3, Ways
    <3> QED
      BY <3>1, <3>2
  <2>2. ways = [k \in 0 .. s |-> ways[k]]
    OBVIOUS
  <2> HIDE DEF ways
  <2>3. AreCoefficients(ways, n, s)
    BY <2>1, <2>2 DEF AreCoefficients
  <2> QED
    BY <2>3
<1>2. ASSUME NEW c, AreCoefficients(c, n, s)
      PROVE  \A k \in 0 .. s : c[k] = Cardinality(Exactly(n, k))
  <2> DEFINE P == {k \in Nat : k \in 0 .. s => c[k] = Cardinality(Exactly(n, k))}
  <2>0. \A k \in 0 .. s :
          c[k] = IF k = 0 THEN 1 ELSE (c[k - 1] * (n - (k - 1))) \div k
    BY <1>2 DEF AreCoefficients
  <2>1. 0 \in P
    <3>1. c[0] = 1
      BY <2>0
    <3> QED
      BY <3>1, Ways
  <2>2. ASSUME NEW k \in Nat, k \in P
        PROVE  k + 1 \in P
    <3> SUFFICES ASSUME k + 1 \in 0 .. s
                 PROVE  c[k + 1] = Cardinality(Exactly(n, k + 1))
      OBVIOUS
    <3>1. c[k] = Cardinality(Exactly(n, k))
      BY <2>2
    <3>2. c[k + 1] = (c[k] * (n - k)) \div (k + 1)
      BY <2>0
    <3>3. k + 1 \in 1 .. n /\ (k + 1) - 1 = k
      OBVIOUS
    <3>4. (Cardinality(Exactly(n, k)) * (n - k)) \div (k + 1) =
            Cardinality(Exactly(n, k + 1))
      BY <3>3, Ways
    <3> QED
      BY <3>1, <3>2, <3>4
  <2> HIDE DEF P
  <2>3. Nat \subseteq P
    BY <2>1, <2>2, Induction
  <2> QED
    BY <2>3 DEF P
<1> QED
  BY <1>1, <1>2

(* The ways in which one of some numbers of problems can fall to one arm.  *)
Picked(n, t) == {S \in SUBSET (1 .. n) : Cardinality(S) \in t}

(* One number more adds its own.                                           *)
LEMMA PickedStep ==
  ASSUME NEW n \in Nat, NEW t, NEW x \in t
  PROVE  Cardinality(Picked(n, t)) =
           Cardinality(Exactly(n, x)) + Cardinality(Picked(n, t \ {x}))
<1> DEFINE own == Exactly(n, x)
           others == Picked(n, t \ {x})
<1>1. Picked(n, t) = own \cup others /\ own \cap others = {}
  BY DEF Exactly, Picked
<1>2. /\ IsFiniteSet(own) /\ Cardinality(own) \in Nat
      /\ IsFiniteSet(others) /\ Cardinality(others) \in Nat
  BY WaysAreFinite DEF Exactly, Picked
<1> HIDE DEF own, others
<1>3. Cardinality(own \cup others) =
        Cardinality(own) + Cardinality(others) - Cardinality(own \cap others)
  BY <1>2, FS_Union
<1>4. Cardinality(own \cap others) = 0
  BY <1>1, FS_EmptySet
<1>5. Cardinality(own \cup others) = Cardinality(own) + Cardinality(others)
  BY <1>2, <1>3, <1>4
<1> QED
  BY <1>1, <1>5 DEF own, others

(* LowerTail, which is what _binomial_half_lower_tail_numerator computes,  *)
(* counts the ways in which at most s of n problems fall to one arm.       *)
THEOREM LowerTailCounts ==
  ASSUME NEW n \in Nat, NEW s \in 0 .. n
  PROVE  LowerTail(n, s) = Cardinality(AtMostOf(n, s))
<1> DEFINE Coefficients(c) == AreCoefficients(c, n, s)
           coefficient == CHOOSE c : c = [k \in 0 .. s |->
                            IF k = 0 THEN 1 ELSE (c[k - 1] * (n - (k - 1))) \div k]
           Resum(f, t) == IF t = {} THEN 0
                          ELSE coefficient[CHOOSE x \in t : TRUE]
                                 + f[t \ {CHOOSE x \in t : TRUE}]
           Sums(f) == f = [t \in SUBSET (0 .. s) |-> Resum(f, t)]
           sum == CHOOSE f : Sums(f)
           count == [t \in SUBSET (0 .. s) |-> Cardinality(Picked(n, t))]
<1>1. LowerTail(n, s) = sum[0 .. s]
  BY DEF LowerTail, MapThenSumSet, MapThenFoldSet
<1>2. \A k \in 0 .. s : coefficient[k] = Cardinality(Exactly(n, k))
  <2>1. coefficient = CHOOSE c : Coefficients(c)
    BY DEF AreCoefficients
  <2>2. \E c : Coefficients(c)
    BY CoefficientsCount
  <2> HIDE DEF coefficient, Coefficients
  <2>3. Coefficients(coefficient)
    BY <2>1, <2>2
  <2> QED
    BY <2>3, CoefficientsCount DEF Coefficients
<1> HIDE DEF coefficient
<1>3. Cardinality(Picked(n, {})) = 0
  <2>1. Picked(n, {}) = {}
    BY DEF Picked
  <2> QED
    BY <2>1, FS_EmptySet
<1>4. ASSUME NEW t \in SUBSET (0 .. s)
      PROVE  count[t] = Resum(count, t)
  <2>1. CASE t = {}
    BY <1>3, <2>1
  <2>2. CASE t # {}
    <3> DEFINE x == CHOOSE x \in t : TRUE
    <3>1. x \in t
      BY <2>2
    <3> HIDE DEF x
    <3>2. count[t] = Cardinality(Picked(n, t))
          /\ count[t \ {x}] = Cardinality(Picked(n, t \ {x}))
      OBVIOUS
    <3>3. coefficient[x] = Cardinality(Exactly(n, x))
      BY <1>2, <3>1
    <3> HIDE DEF count
    <3>4. count[t] = coefficient[x] + count[t \ {x}]
      BY <3>1, <3>2, <3>3, PickedStep
    <3> QED
      BY <2>2, <3>4 DEF x
  <2> QED
    BY <2>1, <2>2
<1>5. Sums(count)
  <2>1. count = [t \in SUBSET (0 .. s) |-> count[t]]
    OBVIOUS
  <2> HIDE DEF count, Resum
  <2> QED
    BY <1>4, <2>1
<1>6. Sums(sum)
  <2> HIDE DEF Sums, count
  <2> QED
    BY <1>5
<1> HIDE DEF sum
<1> DEFINE P == {t \in SUBSET (0 .. s) : sum[t] = Cardinality(Picked(n, t))}
<1>7. ASSUME NEW t \in SUBSET (0 .. s), \A x \in t : t \ {x} \in P
      PROVE  t \in P
  <2>0. sum[t] = Resum(sum, t)
    <3> HIDE DEF Resum
    <3> QED
      BY <1>6
  <2>1. CASE t = {}
    BY <1>3, <2>0, <2>1
  <2>2. CASE t # {}
    <3> DEFINE x == CHOOSE x \in t : TRUE
    <3>1. x \in t
      BY <2>2
    <3>2. sum[t] = coefficient[x] + sum[t \ {x}]
      BY <2>0, <2>2
    <3> HIDE DEF x
    <3>3. sum[t \ {x}] = Cardinality(Picked(n, t \ {x}))
      BY <1>7, <3>1
    <3>4. coefficient[x] = Cardinality(Exactly(n, x))
      BY <1>2, <3>1
    <3>5. sum[t] = Cardinality(Picked(n, t))
      BY <3>1, <3>2, <3>3, <3>4, PickedStep
    <3> QED
      BY <3>5
  <2> QED
    BY <2>1, <2>2
<1> HIDE DEF P
<1>8. IsFiniteSet(0 .. s)
  BY FS_Interval
<1>9. SUBSET (0 .. s) \subseteq P
  <2> DEFINE D == 0 .. s
  <2>1. \A t \in SUBSET D : (\A x \in t : t \ {x} \in P) => t \in P
    BY <1>7
  <2>2. IsFiniteSet(D)
    BY <1>8
  <2> HIDE DEF D
  <2>3. SUBSET D \subseteq P
    BY <2>1, <2>2, FiniteInduction
  <2> QED
    BY <2>3 DEF D
<1>10. sum[0 .. s] = Cardinality(Picked(n, 0 .. s))
  BY <1>9 DEF P
<1>11. Picked(n, 0 .. s) = AtMostOf(n, s)
  <2>1. \A S \in SUBSET (1 .. n) : Cardinality(S) \in 0 .. n
    BY WaysAreFinite
  <2>2. \A k \in 0 .. n : k \in 0 .. s <=> k <= s
    OBVIOUS
  <2>3. \A S \in SUBSET (1 .. n) : Cardinality(S) \in 0 .. s <=> Cardinality(S) <= s
    BY <2>1, <2>2
  <2> QED
    BY <2>3 DEF Picked, AtMostOf
<1> QED
  BY <1>1, <1>10, <1>11

-----------------------------------------------------------------------------
(* The p-value.                                                            *)

Fraction == Nat \X (Nat \ {0})

SameRatio(p, q) == p[1] * q[2] = q[1] * p[2]

Smaller(a, b) == IF a < b THEN a ELSE b

(* The ways to fall at least as unevenly to the side that has fewer, and   *)
(* all the ways there are.                                                 *)
TailWays(a, b) == Cardinality(AtMostOf(a + b, Smaller(a, b)))

AllWays(a, b) == Cardinality(SUBSET (1 .. (a + b)))

(* Both are numbers, and the second is 2 to the number of problems.        *)
LEMMA TailAndAll ==
  ASSUME NEW a \in Nat, NEW b \in Nat
  PROVE  /\ TailWays(a, b) \in Nat /\ AllWays(a, b) \in Nat \ {0}
         /\ AllWays(a, b) = 2^(a + b)
<1>1. a + b \in Nat
  OBVIOUS
<1>2. IsFiniteSet(1 .. (a + b)) /\ Cardinality(1 .. (a + b)) = a + b
  BY <1>1, WaysAreFinite
<1>3. AllWays(a, b) = 2^(a + b)
  BY <1>2, FS_SUBSET DEF AllWays
<1>4. TailWays(a, b) \in Nat /\ AllWays(a, b) \in Nat
  BY <1>1, WaysAreFinite DEF TailWays, AllWays, AtMostOf
<1>5. AllWays(a, b) # 0
  <2>1. IsFiniteSet(SUBSET (1 .. (a + b))) /\ SUBSET (1 .. (a + b)) # {}
    BY <1>1, WaysAreFinite
  <2> QED
    BY <2>1, FS_EmptySet DEF AllWays
<1> QED
  BY <1>3, <1>4, <1>5

(* The code doubles the smaller tail and caps it.                          *)
LEMMA McNemarIs ==
  ASSUME NEW a \in Nat, NEW b \in Nat
  PROVE  McNemar(a, b) = IF 2 * TailWays(a, b) >= AllWays(a, b) THEN <<1, 1>>
                         ELSE <<2 * TailWays(a, b), AllWays(a, b)>>
<1> DEFINE n == a + b
           m == Smaller(a, b)
<1>1. n \in Nat /\ m \in 0 .. n
  BY DEF Smaller
<1>2. LowerTail(n, m) = TailWays(a, b)
  BY <1>1, LowerTailCounts DEF TailWays
<1>3. McNemar(a, b) = IF n = 0 \/ 2 * LowerTail(n, m) >= 2^n THEN <<1, 1>>
                      ELSE <<2 * LowerTail(n, m), 2^n>>
  BY DEF McNemar, Smaller
<1>4. 2^n = AllWays(a, b)
  BY TailAndAll
<1>5. n = 0 => 2 * TailWays(a, b) >= AllWays(a, b)
  <2> SUFFICES ASSUME n = 0 PROVE 2 * TailWays(a, b) >= AllWays(a, b)
    OBVIOUS
  <2>1. SUBSET (1 .. (a + b)) = {{}}
    OBVIOUS
  <2>2. AtMostOf(a + b, m) = {{}}
    BY <2>1, FS_EmptySet DEF AtMostOf, Smaller
  <2>3. AllWays(a, b) = 1 /\ TailWays(a, b) = 1
    BY <2>1, <2>2, FS_Singleton DEF AllWays, TailWays
  <2> QED
    BY <2>3
<1> HIDE DEF n, m
<1> QED
  BY <1>2, <1>3, <1>4, <1>5

(* As many ways to have at least n - m as to have at most m.               *)
LEMMA TailsMatch ==
  ASSUME NEW n \in Nat, NEW m \in 0 .. n
  PROVE  Cardinality({S \in SUBSET (1 .. n) : n - m <= Cardinality(S)}) =
           Cardinality(AtMostOf(n, m))
<1> DEFINE low == AtMostOf(n, m)
           high == {S \in SUBSET (1 .. n) : n - m <= Cardinality(S)}
           f == [S \in low |-> (1 .. n) \ S]
<1>1. ASSUME NEW S \in SUBSET (1 .. n)
      PROVE  /\ Cardinality(S) \in 0 .. n
             /\ Cardinality((1 .. n) \ S) = n - Cardinality(S)
             /\ (1 .. n) \ ((1 .. n) \ S) = S
  <2>1. IsFiniteSet(1 .. n) /\ Cardinality(1 .. n) = n
    BY WaysAreFinite
  <2>2. Cardinality((1 .. n) \ S) = n - Cardinality((1 .. n) \cap S)
    BY <2>1, FS_Difference
  <2>3. (1 .. n) \cap S = S
    OBVIOUS
  <2> QED
    BY <2>2, <2>3, WaysAreFinite
<1>2. f \in [low -> high]
  <2>1. ASSUME NEW S \in low PROVE (1 .. n) \ S \in high
    <3>1. S \in SUBSET (1 .. n) /\ Cardinality(S) <= m
      BY <2>1 DEF AtMostOf
    <3>2. Cardinality((1 .. n) \ S) = n - Cardinality(S) /\ Cardinality(S) \in 0 .. n
      BY <1>1, <3>1
    <3>3. n - m <= n - Cardinality(S)
      BY <3>1, <3>2
    <3> QED
      BY <3>2, <3>3
  <2> QED
    BY <2>1
<1>3. \A S, T \in low : f[S] = f[T] => S = T
  <2> SUFFICES ASSUME NEW S \in low, NEW T \in low, (1 .. n) \ S = (1 .. n) \ T
               PROVE  S = T
    OBVIOUS
  <2>1. S \in SUBSET (1 .. n) /\ T \in SUBSET (1 .. n)
    BY DEF AtMostOf
  <2> QED
    BY <2>1
<1>4. ASSUME NEW T \in high
      PROVE  \E S \in low : f[S] = T
  <2>1. T \in SUBSET (1 .. n) /\ n - m <= Cardinality(T)
    OBVIOUS
  <2>2. /\ Cardinality(T) \in 0 .. n
        /\ Cardinality((1 .. n) \ T) = n - Cardinality(T)
        /\ (1 .. n) \ ((1 .. n) \ T) = T
    BY <1>1, <2>1
  <2>3. (1 .. n) \ T \in low
    <3>1. n - Cardinality(T) <= m
      BY <2>1, <2>2
    <3> QED
      BY <2>2, <3>1 DEF AtMostOf
  <2> QED
    BY <2>2, <2>3
<1>5. IsFiniteSet(low)
  BY WaysAreFinite DEF AtMostOf
<1> HIDE DEF low, high, f
<1>6. ExistsBijection(low, high)
  BY <1>2, <1>3, <1>4, Fun_IsBij DEF ExistsBijection
<1>7. Cardinality(high) = Cardinality(low)
  BY <1>5, <1>6, FS_Bijection
<1> QED
  BY <1>7 DEF low, high

(* Counting both sides gives the doubled tail, capped.                     *)
LEMMA CountedPIs ==
  ASSUME NEW a \in Nat, NEW b \in Nat
  PROVE  CountedP(a, b) = <<IF 2 * TailWays(a, b) >= AllWays(a, b) THEN AllWays(a, b)
                            ELSE 2 * TailWays(a, b), AllWays(a, b)>>
<1> DEFINE n == a + b
           m == Smaller(a, b)
           low == AtMostOf(n, m)
           high == {S \in SUBSET (1 .. n) : n - m <= Cardinality(S)}
           Uneven(won) == won >= a /\ won >= b
           Extreme == {S \in SUBSET (1 .. n) :
                         Uneven(Cardinality(S)) \/ Uneven(Cardinality((1 .. n) \ S))}
<1>1. n \in Nat /\ m \in 0 .. n /\ (\A w \in 0 .. n : Uneven(w) <=> n - m <= w)
  BY DEF Smaller
<1>2. ASSUME NEW S \in SUBSET (1 .. n)
      PROVE  /\ Cardinality(S) \in 0 .. n
             /\ Cardinality((1 .. n) \ S) = n - Cardinality(S)
  <2>1. IsFiniteSet(1 .. n) /\ Cardinality(1 .. n) = n /\ Cardinality(S) \in 0 .. n
    BY <1>1, WaysAreFinite
  <2>2. Cardinality((1 .. n) \ S) = n - Cardinality((1 .. n) \cap S)
    BY <2>1, FS_Difference
  <2>3. (1 .. n) \cap S = S
    OBVIOUS
  <2> QED
    BY <2>1, <2>2, <2>3
<1>3. Extreme = low \cup high
  <2> SUFFICES ASSUME NEW S \in SUBSET (1 .. n)
               PROVE  Uneven(Cardinality(S)) \/ Uneven(Cardinality((1 .. n) \ S)) <=>
                        Cardinality(S) <= m \/ n - m <= Cardinality(S)
    BY DEF AtMostOf
  <2> DEFINE w == Cardinality(S)
  <2>1. w \in 0 .. n /\ Cardinality((1 .. n) \ S) = n - w
    BY <1>2
  <2> HIDE DEF w, n, m, Uneven
  <2>2. n - w \in 0 .. n
    BY <1>1, <2>1
  <2>3. Uneven(w) <=> n - m <= w
    BY <1>1, <2>1
  <2>4. Uneven(n - w) <=> n - m <= n - w
    BY <1>1, <2>2
  <2>5. n - m <= n - w <=> w <= m
    BY <1>1, <2>1
  <2> QED
    BY <2>1, <2>3, <2>4, <2>5 DEF w
<1>4. CountedP(a, b) = <<Cardinality(Extreme), AllWays(a, b)>>
  BY DEF CountedP, AllWays
<1>5. /\ IsFiniteSet(low) /\ IsFiniteSet(high)
      /\ Cardinality(low) = TailWays(a, b) /\ Cardinality(high) = TailWays(a, b)
      /\ low \cup high \in SUBSET SUBSET (1 .. n)
      /\ Cardinality(low \cap high) \in Nat /\ Cardinality(low \cup high) \in Nat
  <2>1. /\ low \in SUBSET SUBSET (1 .. n) /\ high \in SUBSET SUBSET (1 .. n)
        /\ low \cup high \in SUBSET SUBSET (1 .. n)
        /\ low \cap high \in SUBSET SUBSET (1 .. n)
    BY DEF AtMostOf
  <2>2. Cardinality(low) = TailWays(a, b)
    BY DEF TailWays
  <2>3. Cardinality(high) = Cardinality(low)
    BY <1>1, TailsMatch
  <2> HIDE DEF low, high
  <2> QED
    BY <1>1, <2>1, <2>2, <2>3, WaysAreFinite
<1>6. Cardinality(low \cup high) =
        TailWays(a, b) + TailWays(a, b) - Cardinality(low \cap high)
  <2> HIDE DEF low, high
  <2> QED
    BY <1>5, FS_Union
<1>7. TailWays(a, b) \in Nat /\ AllWays(a, b) \in Nat
  BY TailAndAll
<1>8. Cardinality(low \cup high) <= AllWays(a, b)
  <2>1. IsFiniteSet(SUBSET (1 .. n))
    BY <1>1, WaysAreFinite
  <2> HIDE DEF low, high
  <2> QED
    BY <1>5, <2>1, FS_Subset DEF AllWays
<1>9. a # b => Cardinality(low \cap high) = 0
  <2> SUFFICES ASSUME a # b
               PROVE  low \cap high = {}
    BY FS_EmptySet
  <2>1. m < n - m
    BY DEF Smaller
  <2>2. \A w \in 0 .. n : ~ (w <= m /\ n - m <= w)
    BY <1>1, <2>1
  <2> HIDE DEF m
  <2> QED
    BY <1>2, <2>2 DEF AtMostOf
<1>10. a = b => Cardinality(low \cup high) = AllWays(a, b)
  <2> SUFFICES ASSUME a = b
               PROVE  low \cup high = SUBSET (1 .. n)
    BY DEF AllWays
  <2>1. n - m = m
    BY DEF Smaller
  <2>2. \A w \in 0 .. n : w <= m \/ n - m <= w
    BY <1>1, <2>1
  <2> HIDE DEF m
  <2> QED
    BY <1>2, <2>2 DEF AtMostOf
<1> HIDE DEF low, high, Extreme
<1>11. Cardinality(low \cup high) = IF 2 * TailWays(a, b) >= AllWays(a, b) THEN AllWays(a, b)
                                    ELSE 2 * TailWays(a, b)
  BY <1>5, <1>6, <1>7, <1>8, <1>9, <1>10
<1> QED
  BY <1>3, <1>4, <1>11

(* mcnemar_exact_two_sided is the two-sided p-value by counting: running   *)
(* coefficients, the doubled smaller tail and the cap change nothing, for  *)
(* any numbers of discordant problems.                                     *)
THEOREM McNemarCounts ==
  ASSUME NEW a \in Nat, NEW b \in Nat
  PROVE  /\ McNemar(a, b) \in Fraction
         /\ CountedP(a, b) \in Fraction
         /\ SameRatio(McNemar(a, b), CountedP(a, b))
<1>1. TailWays(a, b) \in Nat /\ AllWays(a, b) \in Nat \ {0}
  BY TailAndAll
<1>2. CASE 2 * TailWays(a, b) >= AllWays(a, b)
  <2>1. McNemar(a, b) = <<1, 1>>
    BY <1>2, McNemarIs
  <2>2. CountedP(a, b) = <<AllWays(a, b), AllWays(a, b)>>
    BY <1>2, CountedPIs
  <2> QED
    BY <1>1, <2>1, <2>2 DEF Fraction, SameRatio
<1>3. CASE ~ (2 * TailWays(a, b) >= AllWays(a, b))
  <2>1. McNemar(a, b) = <<2 * TailWays(a, b), AllWays(a, b)>>
    BY <1>3, McNemarIs
  <2>2. CountedP(a, b) = <<2 * TailWays(a, b), AllWays(a, b)>>
    BY <1>3, CountedPIs
  <2> QED
    BY <1>1, <2>1, <2>2 DEF Fraction, SameRatio
<1> QED
  BY <1>2, <1>3

-----------------------------------------------------------------------------
(* The correction.                                                         *)

(* Factors: a positive one can be cancelled.                               *)
LEMMA Cancel ==
  ASSUME NEW x \in Int, NEW y \in Int, NEW c \in Nat \ {0}
  PROVE  x * c <= y * c <=> x <= y
OBVIOUS

(* Products may be taken in any order.                                     *)
LEMMA Product3 ==
  ASSUME NEW x \in Int, NEW y \in Int, NEW z \in Int
  PROVE  x * y * z = x * z * y /\ x * y * z = y * z * x /\ x * y * z \in Int
         /\ x * y \in Int
OBVIOUS

AtLeast(q, p) == ~ Less(q, p)

(* Fractions are in a linear order, but for those of the same ratio.       *)
LEMMA LessIsOrder ==
  ASSUME NEW p \in Fraction, NEW q \in Fraction, NEW r \in Fraction
  PROVE  /\ AtLeast(p, p)
         /\ AtLeast(q, p) \/ AtLeast(p, q)
         /\ AtLeast(q, p) /\ AtLeast(r, q) => AtLeast(r, p)
<1>1. /\ p[1] \in Int /\ p[2] \in Nat \ {0} /\ q[1] \in Int /\ q[2] \in Nat \ {0}
      /\ r[1] \in Int /\ r[2] \in Nat \ {0}
  BY DEF Fraction
<1>2. /\ p[1] * q[2] \in Int /\ q[1] * p[2] \in Int /\ q[1] * r[2] \in Int
      /\ r[1] * q[2] \in Int /\ p[1] * r[2] \in Int /\ r[1] * p[2] \in Int
      /\ p[1] * p[2] \in Int
  BY <1>1
<1>3. AtLeast(p, p) /\ (AtLeast(q, p) \/ AtLeast(p, q))
  BY <1>2 DEF AtLeast, Less
<1>4. ASSUME AtLeast(q, p), AtLeast(r, q)
      PROVE  AtLeast(r, p)
  <2>1. p[1] * q[2] <= q[1] * p[2] /\ q[1] * r[2] <= r[1] * q[2]
    BY <1>2, <1>4 DEF AtLeast, Less
  <2>2. p[1] * q[2] * r[2] <= q[1] * p[2] * r[2]
    BY <1>1, <1>2, <2>1, Cancel
  <2>3. q[1] * r[2] * p[2] <= r[1] * q[2] * p[2]
    BY <1>1, <1>2, <2>1, Cancel
  <2>4. /\ p[1] * q[2] * r[2] = p[1] * r[2] * q[2]
        /\ q[1] * p[2] * r[2] = q[1] * r[2] * p[2]
        /\ r[1] * q[2] * p[2] = r[1] * p[2] * q[2]
        /\ p[1] * r[2] * q[2] \in Int /\ r[1] * p[2] * q[2] \in Int
        /\ q[1] * r[2] * p[2] \in Int
    BY <1>1, Product3
  <2>5. p[1] * r[2] * q[2] <= r[1] * p[2] * q[2]
    BY <2>2, <2>3, <2>4
  <2>6. p[1] * r[2] <= r[1] * p[2]
    BY <1>1, <1>2, <2>5, Cancel
  <2> QED
    BY <1>2, <2>6 DEF AtLeast, Less
<1> QED
  BY <1>3, <1>4

(* A smaller p-value and a smaller share meet the threshold if larger ones *)
(* do.                                                                     *)
LEMMA AtMostIsMonotone ==
  ASSUME NEW p \in Fraction, NEW q \in Fraction, NEW alpha \in Fraction,
         NEW s \in Nat, NEW t \in Nat,
         AtLeast(q, p), s <= t, AtMost(q, alpha, t)
  PROVE  AtMost(p, alpha, s)
<1>1. /\ p[1] \in Nat /\ p[2] \in Nat \ {0} /\ q[1] \in Nat /\ q[2] \in Nat \ {0}
      /\ alpha[1] \in Nat /\ alpha[2] \in Nat \ {0}
  BY DEF Fraction
<1> DEFINE share == alpha[2] * t
<1>2. share \in Nat /\ alpha[2] * s \in Nat /\ alpha[2] * s <= share
  BY <1>1
<1>3. /\ p[1] * q[2] \in Int /\ q[1] * p[2] \in Int /\ q[1] * share \in Int
      /\ p[1] * share \in Int
      /\ alpha[1] * q[2] \in Int /\ alpha[1] * p[2] \in Int
  BY <1>1, <1>2
<1>4. p[1] * q[2] <= q[1] * p[2]
  BY <1>3 DEF AtLeast, Less
<1>5. q[1] * share <= alpha[1] * q[2]
  <2>1. q[1] * alpha[2] * t = q[1] * share
    BY <1>1
  <2> QED
    BY <2>1 DEF AtMost
<1> HIDE DEF share
<1>6. p[1] * q[2] * share <= q[1] * p[2] * share
  <2>1. CASE share = 0
    BY <1>3, <2>1
  <2>2. CASE share # 0
    <3>1. share \in Nat \ {0}
      BY <1>2, <2>2
    <3> QED
      BY <1>3, <1>4, <3>1, Cancel
  <2> QED
    BY <2>1, <2>2
<1>7. q[1] * share * p[2] <= alpha[1] * q[2] * p[2]
  BY <1>1, <1>3, <1>5, Cancel
<1>8. /\ p[1] * q[2] * share = p[1] * share * q[2]
      /\ q[1] * p[2] * share = q[1] * share * p[2]
      /\ alpha[1] * q[2] * p[2] = alpha[1] * p[2] * q[2]
      /\ p[1] * share * q[2] \in Int /\ q[1] * share * p[2] \in Int
      /\ alpha[1] * p[2] * q[2] \in Int
  BY <1>1, <1>2, Product3
<1>9. p[1] * share * q[2] <= alpha[1] * p[2] * q[2]
  BY <1>6, <1>7, <1>8
<1>10. p[1] * share <= alpha[1] * p[2]
  BY <1>1, <1>3, <1>9, Cancel
<1>11. p[1] * (alpha[2] * s) <= p[1] * share
  BY <1>1, <1>2
<1>12. p[1] * alpha[2] * s = p[1] * (alpha[2] * s) /\ p[1] * (alpha[2] * s) \in Int
  BY <1>1
<1> QED
  BY <1>3, <1>10, <1>11, <1>12 DEF AtMost

(* There is a least in every set of natural numbers.                       *)
LEMMA LeastExists ==
  ASSUME NEW S \in SUBSET Nat, S # {}
  PROVE  \E m \in S : \A k \in S : m <= k
<1> DEFINE P == {n \in Nat : \A m \in 0 .. n : m \notin S}
<1> SUFFICES ASSUME \A m \in S : \E k \in S : k < m
             PROVE  FALSE
  OBVIOUS
<1>1. 0 \in P
  OBVIOUS
<1>2. \A n \in Nat : n \in P => n + 1 \in P
  <2> SUFFICES ASSUME NEW n \in Nat, n \in P
               PROVE  n + 1 \in P
    OBVIOUS
  <2>1. \A k \in S : ~ (k < n + 1)
    OBVIOUS
  <2>2. n + 1 \notin S
    BY <2>1
  <2> QED
    BY <2>2
<1> HIDE DEF P
<1>3. Nat \subseteq P
  BY <1>1, <1>2, Induction
<1>4. PICK m \in S : m \in Nat
  OBVIOUS
<1>5. m \in P /\ m \in 0 .. m
  BY <1>3, <1>4
<1> QED
  BY <1>5 DEF P

(* The p-values the stable sort places before the i-th.                    *)
Before(ps, i) ==
  {j \in DOMAIN ps : Less(ps[j], ps[i]) \/ (j < i /\ ~ Less(ps[i], ps[j]))}

(* The sort puts each p-value in a place of its own.                       *)
LEMMA RankIsPlace ==
  ASSUME NEW ps \in Seq(Fraction), NEW i \in DOMAIN ps, NEW j \in DOMAIN ps
  PROVE  /\ IsFiniteSet(Before(ps, i)) /\ Rank(ps, i) = Cardinality(Before(ps, i))
         /\ Rank(ps, i) \in 0 .. (Len(ps) - 1)
         /\ j \in Before(ps, i) => Rank(ps, j) < Rank(ps, i)
         /\ j = i \/ j \in Before(ps, i) \/ i \in Before(ps, j)
         /\ j \notin Before(ps, i) => AtLeast(ps[j], ps[i])
<1>1. DOMAIN ps = 1 .. Len(ps) /\ Len(ps) \in Nat /\ \A k \in DOMAIN ps : ps[k] \in Fraction
  OBVIOUS
<1>2. \A k \in DOMAIN ps : Rank(ps, k) = Cardinality(Before(ps, k))
  BY DEF Rank, Before
<1>3. IsFiniteSet(DOMAIN ps) /\ Cardinality(DOMAIN ps) = Len(ps)
  BY <1>1, WaysAreFinite
<1>4. \A k \in DOMAIN ps : k \notin Before(ps, k)
  BY <1>1, LessIsOrder DEF Before, AtLeast
<1>5. ASSUME NEW k \in DOMAIN ps
      PROVE  /\ IsFiniteSet(Before(ps, k)) /\ Cardinality(Before(ps, k)) \in Nat
             /\ Cardinality(Before(ps, k)) <= Len(ps) - 1
  <2>1. Before(ps, k) \in SUBSET (DOMAIN ps \ {k})
    BY <1>4 DEF Before
  <2>2. IsFiniteSet(DOMAIN ps \ {k}) /\ Cardinality(DOMAIN ps \ {k}) = Len(ps) - 1
    BY <1>3, FS_RemoveElement
  <2>3. IsFiniteSet(Before(ps, k)) /\ Cardinality(Before(ps, k)) <= Len(ps) - 1
    BY <2>1, <2>2, FS_Subset
  <2> QED
    BY <2>3, FS_CardinalityType
<1>6. ASSUME j \in Before(ps, i)
      PROVE  Rank(ps, j) < Rank(ps, i)
  <2>1. Before(ps, j) \subseteq Before(ps, i)
    <3> SUFFICES ASSUME NEW k \in Before(ps, j)
                 PROVE  k \in Before(ps, i)
      OBVIOUS
    <3>1. k \in DOMAIN ps /\ ps[k] \in Fraction /\ ps[i] \in Fraction /\ ps[j] \in Fraction
      BY <1>1 DEF Before
    <3>2. Less(ps[k], ps[j]) \/ (k < j /\ AtLeast(ps[j], ps[k]))
      BY DEF Before, AtLeast
    <3>3. Less(ps[j], ps[i]) \/ (j < i /\ AtLeast(ps[i], ps[j]))
      BY <1>6 DEF Before, AtLeast
    <3>4. AtLeast(ps[j], ps[k]) /\ AtLeast(ps[i], ps[j])
      BY <3>1, <3>2, <3>3, LessIsOrder DEF AtLeast
    <3>5. AtLeast(ps[i], ps[k])
      BY <3>1, <3>4, LessIsOrder
    <3>6. CASE Less(ps[k], ps[j]) \/ Less(ps[j], ps[i])
      <4>1. ~ AtLeast(ps[k], ps[i])
        <5> SUFFICES ASSUME AtLeast(ps[k], ps[i])
                     PROVE  FALSE
          OBVIOUS
        <5>1. AtLeast(ps[k], ps[j]) /\ AtLeast(ps[j], ps[i])
          BY <3>1, <3>4, LessIsOrder
        <5> QED
          BY <3>6, <5>1 DEF AtLeast
      <4> QED
        BY <3>1, <4>1 DEF Before, AtLeast
    <3>7. CASE k < j /\ j < i
      <4>1. k < i
        BY <1>1, <3>1, <3>7
      <4> QED
        BY <3>1, <3>5, <4>1 DEF Before, AtLeast
    <3> QED
      BY <3>2, <3>3, <3>6, <3>7
  <2>2. Cardinality(Before(ps, j)) <= Cardinality(Before(ps, i))
        /\ Cardinality(Before(ps, j)) # Cardinality(Before(ps, i))
    BY <1>4, <1>5, <1>6, <2>1, FS_Subset
  <2> QED
    BY <1>2, <1>5, <2>2
<1>7. j = i \/ j \in Before(ps, i) \/ i \in Before(ps, j)
  <2>1. j = i \/ j < i \/ i < j
    BY <1>1
  <2>2. Less(ps[j], ps[i]) => ~ Less(ps[i], ps[j])
    BY <1>1, LessIsOrder DEF AtLeast
  <2> QED
    BY <2>1, <2>2 DEF Before
<1>8. ASSUME j \notin Before(ps, i)
      PROVE  AtLeast(ps[j], ps[i])
  BY <1>8 DEF Before, AtLeast
<1>9. Rank(ps, i) \in 0 .. (Len(ps) - 1)
  BY <1>1, <1>2, <1>5
<1> QED
  BY <1>2, <1>5, <1>6, <1>7, <1>8, <1>9

(* The step-down test with its stable sort rejects what the closed test    *)
(* rejects, for any p-values and any level.                                *)
THEOREM HolmIsClosed ==
  ASSUME NEW ps \in Seq(Fraction), NEW alpha \in Fraction, NEW i \in DOMAIN ps
  PROVE  HolmRejects(ps, alpha, i) <=> ClosedRejects(ps, alpha, i)
<1>0. /\ DOMAIN ps = 1 .. Len(ps) /\ Len(ps) \in Nat
      /\ \A k \in DOMAIN ps : ps[k] \in Fraction
      /\ IsFiniteSet(DOMAIN ps) /\ Cardinality(DOMAIN ps) = Len(ps)
  <2>1. /\ DOMAIN ps = 1 .. Len(ps) /\ Len(ps) \in Nat
        /\ \A k \in DOMAIN ps : ps[k] \in Fraction
    OBVIOUS
  <2>2. IsFiniteSet(1 .. Len(ps)) /\ Cardinality(1 .. Len(ps)) = Len(ps)
    BY <2>1, WaysAreFinite
  <2> QED
    BY <2>1, <2>2
<1>1. ASSUME NEW j \in DOMAIN ps
      PROVE  /\ Rank(ps, j) \in Nat /\ Len(ps) - Rank(ps, j) \in Nat
             /\ IsFiniteSet(DOMAIN ps \ Before(ps, j))
             /\ Cardinality(DOMAIN ps \ Before(ps, j)) = Len(ps) - Rank(ps, j)
  <2>1. /\ Rank(ps, j) \in 0 .. (Len(ps) - 1)
        /\ Rank(ps, j) = Cardinality(Before(ps, j))
    BY RankIsPlace
  <2>2. DOMAIN ps \cap Before(ps, j) = Before(ps, j)
    BY DEF Before
  <2>3. /\ IsFiniteSet(DOMAIN ps \ Before(ps, j))
        /\ Cardinality(DOMAIN ps \ Before(ps, j)) =
             Cardinality(DOMAIN ps) - Cardinality(DOMAIN ps \cap Before(ps, j))
    BY <1>0, FS_Difference
  <2>4. Cardinality(DOMAIN ps \ Before(ps, j)) = Len(ps) - Rank(ps, j)
    BY <1>0, <2>1, <2>2, <2>3
  <2>5. Rank(ps, j) \in Nat /\ Len(ps) - Rank(ps, j) \in Nat
    BY <1>0, <2>1
  <2> QED
    BY <2>3, <2>4, <2>5
<1>2. ASSUME HolmRejects(ps, alpha, i),
             NEW I \in SUBSET DOMAIN ps, i \in I
      PROVE  \E j \in I : AtMost(ps[j], alpha, Cardinality(I))
  <2> DEFINE ranks == {Rank(ps, k) : k \in I}
  <2>1. ranks \in SUBSET Nat /\ ranks # {}
    BY <1>1, <1>2
  <2>2. PICK j \in I : \A k \in I : Rank(ps, j) <= Rank(ps, k)
    <3>1. PICK m \in ranks : \A r \in ranks : m <= r
      <4> HIDE DEF ranks
      <4> QED
        BY <2>1, LeastExists
    <3> QED
      BY <3>1
  <2>3. I \in SUBSET (DOMAIN ps \ Before(ps, j))
    <3> SUFFICES ASSUME NEW k \in I, k \in Before(ps, j)
                 PROVE  FALSE
      OBVIOUS
    <3>1. Rank(ps, k) < Rank(ps, j)
      BY RankIsPlace
    <3>2. Rank(ps, j) <= Rank(ps, k) /\ Rank(ps, j) \in Nat /\ Rank(ps, k) \in Nat
      BY <1>1, <2>2
    <3> QED
      BY <3>1, <3>2
  <2>4. /\ Cardinality(I) \in Nat
        /\ Cardinality(I) <= Len(ps) - Rank(ps, j)
    <3>1. j \in DOMAIN ps
      OBVIOUS
    <3>2. /\ IsFiniteSet(DOMAIN ps \ Before(ps, j))
          /\ Cardinality(DOMAIN ps \ Before(ps, j)) = Len(ps) - Rank(ps, j)
      BY <1>1, <3>1
    <3>3. IsFiniteSet(I) /\ Cardinality(I) <= Cardinality(DOMAIN ps \ Before(ps, j))
      BY <2>3, <3>2, FS_Subset
    <3> QED
      BY <3>2, <3>3, FS_CardinalityType
  <2>5. AtMost(ps[j], alpha, Len(ps) - Rank(ps, j))
    BY <1>2, <2>2 DEF HolmRejects
  <2>6. ps[j] \in Fraction /\ Len(ps) - Rank(ps, j) \in Nat
    BY <1>0, <1>1
  <2>7. AtLeast(ps[j], ps[j])
    BY <2>6, LessIsOrder
  <2>8. AtMost(ps[j], alpha, Cardinality(I))
    BY <2>4, <2>5, <2>6, <2>7, AtMostIsMonotone
  <2> QED
    BY <2>8
<1>3. ASSUME ClosedRejects(ps, alpha, i),
             NEW j \in DOMAIN ps, Rank(ps, j) <= Rank(ps, i)
      PROVE  AtMost(ps[j], alpha, Len(ps) - Rank(ps, j))
  <2> DEFINE I == DOMAIN ps \ Before(ps, j)
  <2>1. i \in I
    <3> SUFFICES ASSUME i \in Before(ps, j)
                 PROVE  FALSE
      OBVIOUS
    <3>1. Rank(ps, i) < Rank(ps, j)
      BY RankIsPlace
    <3>2. Rank(ps, i) \in Nat /\ Rank(ps, j) \in Nat
      BY <1>1
    <3> QED
      BY <1>3, <3>1, <3>2
  <2>2. PICK l \in I : AtMost(ps[l], alpha, Cardinality(I))
    BY <1>3, <2>1 DEF ClosedRejects
  <2>3. l \in DOMAIN ps /\ l \notin Before(ps, j)
    OBVIOUS
  <2>4. AtLeast(ps[l], ps[j])
    BY <2>3, RankIsPlace
  <2>5. /\ Cardinality(I) = Len(ps) - Rank(ps, j)
        /\ Len(ps) - Rank(ps, j) \in Nat
    BY <1>1
  <2>6. AtMost(ps[l], alpha, Len(ps) - Rank(ps, j))
    BY <2>2, <2>5
  <2>7. ps[l] \in Fraction /\ ps[j] \in Fraction
    BY <1>0, <2>3
  <2>8. Len(ps) - Rank(ps, j) <= Len(ps) - Rank(ps, j)
    BY <2>5
  <2> HIDE DEF I
  <2> QED
    BY <2>4, <2>5, <2>6, <2>7, <2>8, AtMostIsMonotone
<1> QED
  BY <1>2, <1>3 DEF HolmRejects, ClosedRejects

(* The closed test on hypotheses that have names.                          *)
ClosedOf(P, S, alpha, c) ==
  \A I \in SUBSET S : c \in I => \E d \in I : AtMost(P[d], alpha, Cardinality(I))

(* In whatever order the hypotheses are listed.                            *)
LEMMA OrderIsNoMatter ==
  ASSUME NEW D, NEW S, IsFiniteSet(S), NEW P, NEW alpha,
         NEW e \in Bijection(D, S), NEW k \in D,
         NEW ps, DOMAIN ps = D, \A n \in D : ps[n] = P[e[n]]
  PROVE  ClosedRejects(ps, alpha, k) <=> ClosedOf(P, S, alpha, e[k])
<1>1. /\ e \in [D -> S]
      /\ \A m, n \in D : e[m] = e[n] => m = n
      /\ \A c \in S : \E n \in D : e[n] = c
  BY Fun_BijectionProperties
<1>2. ASSUME NEW I \in SUBSET D
      PROVE  Cardinality({e[n] : n \in I}) = Cardinality(I)
  <2> DEFINE J == {e[n] : n \in I}
             f == [n \in I |-> e[n]]
  <2>1. f \in [I -> J]
    OBVIOUS
  <2>2. \A m, n \in I : f[m] = f[n] => m = n
    BY <1>1
  <2>3. \A c \in J : \E n \in I : f[n] = c
    OBVIOUS
  <2>4. J \in SUBSET S
    BY <1>1
  <2> HIDE DEF f, J
  <2>5. f \in Bijection(I, J)
    BY <2>1, <2>2, <2>3, Fun_IsBij
  <2>6. IsFiniteSet(J)
    BY <2>4, FS_Subset
  <2>7. ExistsBijection(J, I)
    BY <2>5, Fun_ExistsBijSymmetric DEF ExistsBijection
  <2> QED
    BY <2>6, <2>7, FS_Bijection DEF J
<1>3. ASSUME ClosedRejects(ps, alpha, k), NEW J \in SUBSET S, e[k] \in J
      PROVE  \E d \in J : AtMost(P[d], alpha, Cardinality(J))
  <2> DEFINE I == {n \in D : e[n] \in J}
  <2>1. I \in SUBSET DOMAIN ps /\ k \in I
    BY <1>3
  <2>2. J = {e[n] : n \in I}
    BY <1>1
  <2>3. PICK n \in I : AtMost(ps[n], alpha, Cardinality(I))
    BY <1>3, <2>1 DEF ClosedRejects
  <2>4. Cardinality(J) = Cardinality(I)
    BY <1>2, <2>2
  <2>5. AtMost(P[e[n]], alpha, Cardinality(J))
    BY <2>3, <2>4
  <2> QED
    BY <2>3, <2>5
<1>4. ASSUME ClosedOf(P, S, alpha, e[k]), NEW I \in SUBSET D, k \in I
      PROVE  \E n \in I : AtMost(ps[n], alpha, Cardinality(I))
  <2> DEFINE J == {e[n] : n \in I}
  <2>1. J \in SUBSET S /\ e[k] \in J
    BY <1>1, <1>4
  <2>2. PICK d \in J : AtMost(P[d], alpha, Cardinality(J))
    BY <1>4, <2>1 DEF ClosedOf
  <2>3. PICK n \in I : d = e[n]
    OBVIOUS
  <2>4. AtMost(ps[n], alpha, Cardinality(I))
    BY <1>2, <2>2, <2>3
  <2> QED
    BY <2>4
<1> QED
  BY <1>3, <1>4 DEF ClosedRejects, ClosedOf

-----------------------------------------------------------------------------
(* The two evaluators.                                                     *)

PValues(solved) == [c \in Control |-> PValue(solved, c)]

Rejected(solved, c) == ClosedOf(PValues(solved), Control, Alpha, c)

(* The problems and the controls are finitely many, and the two lists of   *)
(* the controls name each once.                                            *)
LEMMA CohortIsFinite ==
  /\ IsFiniteSet(Problem) /\ IsFiniteSet(Control)
  /\ Controls \in Bijection(DOMAIN Controls, Control)
  /\ ByName \in Bijection(DOMAIN ByName, Control)
<1>1. IsFiniteSet(Problem)
  <2>1. DOMAIN Order = 1 .. Len(Order) /\ Len(Order) \in Nat
        /\ Order \in [DOMAIN Order -> Problem \X Arm]
    BY OrderAssumption
  <2>2. IsFiniteSet(DOMAIN Order)
    BY <2>1, WaysAreFinite
  <2>3. Order \in Surjection(DOMAIN Order, Problem \X Arm)
    BY <2>1, OrderAssumption, Fun_IsSurj
  <2>4. IsFiniteSet(Problem \X Arm)
    BY <2>2, <2>3, FS_Surjection
  <2> DEFINE f == [p \in Problem |-> <<p, Candidate>>]
  <2>5. f \in [Problem -> Problem \X Arm] /\ \A p, q \in Problem : f[p] = f[q] => p = q
    BY DEF Arm
  <2> HIDE DEF f
  <2>6. f \in Injection(Problem, Problem \X Arm)
    BY <2>5, Fun_IsInj
  <2> QED
    BY <2>4, <2>6, FS_Injection
<1>2. ASSUME NEW s \in Seq(Control), {s[i] : i \in DOMAIN s} = Control,
             \A i, j \in DOMAIN s : s[i] = s[j] => i = j
      PROVE  s \in Bijection(DOMAIN s, Control) /\ IsFiniteSet(Control)
  <2>1. DOMAIN s = 1 .. Len(s) /\ Len(s) \in Nat /\ s \in [DOMAIN s -> Control]
    OBVIOUS
  <2>2. \A c \in Control : \E i \in DOMAIN s : s[i] = c
    BY <1>2
  <2>3. s \in Bijection(DOMAIN s, Control)
    BY <1>2, <2>1, <2>2, Fun_IsBij
  <2>4. IsFiniteSet(DOMAIN s)
    BY <2>1, WaysAreFinite
  <2>5. ExistsBijection(DOMAIN s, Control)
    BY <2>3 DEF ExistsBijection
  <2> QED
    BY <2>3, <2>4, <2>5, FS_Bijection
<1>3. {Controls[i] : i \in DOMAIN Controls} = Control
  BY DEF Control
<1> QED
  BY <1>1, <1>2, <1>3, ArmAssumption

(* What one arm won and another did not is a number, and a p-value is a    *)
(* fraction.                                                               *)
LEMMA WinsAreNumbers ==
  ASSUME NEW solved, NEW c, NEW d
  PROVE  /\ IsFiniteSet({p \in Problem : <<p, c>> \in solved /\ <<p, d>> \notin solved})
         /\ Wins(solved, c, d) \in Nat
         /\ PValue(solved, c) \in Fraction
<1>1. ASSUME NEW e, NEW g
      PROVE  /\ IsFiniteSet({p \in Problem : <<p, e>> \in solved /\ <<p, g>> \notin solved})
             /\ Wins(solved, e, g) \in Nat
  <2>1. {p \in Problem : <<p, e>> \in solved /\ <<p, g>> \notin solved} \in SUBSET Problem
    OBVIOUS
  <2>2. IsFiniteSet({p \in Problem : <<p, e>> \in solved /\ <<p, g>> \notin solved})
    BY <2>1, CohortIsFinite, FS_Subset
  <2> QED
    BY <2>2, FS_CardinalityType DEF Wins
<1>2. PValue(solved, c) \in Fraction
  BY <1>1, McNemarCounts DEF PValue
<1> QED
  BY <1>1, <1>2

(* The difference of the solved counts and that of the discordant pairs    *)
(* have the same sign.                                                     *)
LEMMA DirectionIsOne ==
  ASSUME NEW solved, NEW c
  PROVE  Positive(solved, c) <=>
           Wins(solved, Candidate, c) > Wins(solved, c, Candidate)
<1> DEFINE A == {p \in Problem : <<p, Candidate>> \in solved}
           B == {p \in Problem : <<p, c>> \in solved}
           onlyA == {p \in Problem : <<p, Candidate>> \in solved /\ <<p, c>> \notin solved}
           onlyB == {p \in Problem : <<p, c>> \in solved /\ <<p, Candidate>> \notin solved}
<1>1. IsFiniteSet(A) /\ IsFiniteSet(B)
  <2>1. A \in SUBSET Problem /\ B \in SUBSET Problem
    OBVIOUS
  <2> HIDE DEF A, B
  <2> QED
    BY <2>1, CohortIsFinite, FS_Subset
<1>2. onlyA = A \ B /\ onlyB = B \ A
  OBVIOUS
<1>3. Wins(solved, Candidate, c) = Cardinality(onlyA)
      /\ Wins(solved, c, Candidate) = Cardinality(onlyB)
      /\ (Positive(solved, c) <=> Cardinality(A) > Cardinality(B))
  BY DEF Wins, Positive
<1> HIDE DEF A, B, onlyA, onlyB
<1>4. /\ Cardinality(A \ B) = Cardinality(A) - Cardinality(A \cap B)
      /\ Cardinality(B \ A) = Cardinality(B) - Cardinality(B \cap A)
  BY <1>1, FS_Difference
<1>5. A \cap B = B \cap A /\ IsFiniteSet(A \cap B)
  BY <1>1, FS_Intersection
<1>6. Cardinality(A) \in Nat /\ Cardinality(B) \in Nat /\ Cardinality(A \cap B) \in Nat
  BY <1>1, <1>5, FS_CardinalityType
<1>7. /\ Cardinality(onlyA) = Cardinality(A) - Cardinality(A \cap B)
      /\ Cardinality(onlyB) = Cardinality(B) - Cardinality(A \cap B)
  BY <1>2, <1>4, <1>5
<1>8. Cardinality(onlyA) > Cardinality(onlyB) <=> Cardinality(A) > Cardinality(B)
  BY <1>6, <1>7
<1> QED
  BY <1>3, <1>8

(* The order of the correction lists every control once.                   *)
LEMMA HolmOrderIsComplete ==
  ASSUME NEW solved
  PROVE  /\ HolmOrder(solved) \in Bijection(DOMAIN ByName, Control)
         /\ HolmOrder(solved) \in Seq(Control)
<1> DEFINE D == DOMAIN ByName
           ps == [j \in D |-> PValue(solved, ByName[j])]
           at == [i \in D |-> Rank(ps, i) + 1]
           place == [k \in D |-> CHOOSE i \in D : Rank(ps, i) = k - 1]
<1>1. D = 1 .. Len(ByName) /\ Len(ByName) \in Nat /\ ByName \in [D -> Control]
  BY ArmAssumption
<1>2. ps \in Seq(Fraction) /\ DOMAIN ps = D /\ Len(ps) = Len(ByName)
  <2>1. \A j \in D : PValue(solved, ByName[j]) \in Fraction
    BY WinsAreNumbers
  <2> QED
    BY <1>1, <2>1
<1>3. HolmOrder(solved) = [k \in D |-> ByName[place[k]]]
  BY DEF HolmOrder
<1> HIDE DEF D, ps
<1>4. ASSUME NEW i \in D, NEW j \in D
      PROVE  /\ Rank(ps, i) \in 0 .. (Len(ByName) - 1)
             /\ Rank(ps, i) = Rank(ps, j) => i = j
  <2>1. /\ Rank(ps, i) \in 0 .. (Len(ps) - 1) /\ Rank(ps, j) \in 0 .. (Len(ps) - 1)
        /\ i \in Before(ps, j) => Rank(ps, i) < Rank(ps, j)
        /\ j \in Before(ps, i) => Rank(ps, j) < Rank(ps, i)
        /\ j = i \/ j \in Before(ps, i) \/ i \in Before(ps, j)
    BY <1>2, RankIsPlace
  <2>2. Rank(ps, i) = Rank(ps, j) => i = j
    BY <1>1, <1>2, <2>1
  <2> QED
    BY <1>2, <2>1, <2>2
<1>5. at \in [D -> D] /\ \A i, j \in D : at[i] = at[j] => i = j
  BY <1>1, <1>4
<1>6. at \in Surjection(D, D)
  <2>1. IsFiniteSet(D)
    BY <1>1, WaysAreFinite
  <2>2. at \in Injection(D, D)
    BY <1>5, Fun_IsInj
  <2> QED
    BY <2>1, <2>2, FS_Injection
<1>7. \A k \in D : \E i \in D : Rank(ps, i) = k - 1
  <2> SUFFICES ASSUME NEW k \in D
               PROVE  \E i \in D : Rank(ps, i) = k - 1
    OBVIOUS
  <2>1. PICK i \in D : at[i] = k
    BY <1>6, Fun_SurjectionProperties
  <2>2. Rank(ps, i) + 1 = k /\ Rank(ps, i) \in 0 .. (Len(ByName) - 1)
    BY <1>4, <2>1
  <2> QED
    BY <2>2
<1>8. \A k \in D : place[k] \in D /\ Rank(ps, place[k]) = k - 1
  BY <1>7
<1>9. \A i \in D : \E k \in D : place[k] = i
  <2> SUFFICES ASSUME NEW i \in D
               PROVE  \E k \in D : place[k] = i
    OBVIOUS
  <2>1. at[i] \in D /\ at[i] = Rank(ps, i) + 1 /\ Rank(ps, i) \in 0 .. (Len(ByName) - 1)
    BY <1>4, <1>5
  <2>2. place[at[i]] \in D /\ Rank(ps, place[at[i]]) = Rank(ps, i)
    BY <1>8, <2>1
  <2>3. place[at[i]] = i
    BY <1>4, <2>2
  <2> QED
    BY <2>1, <2>3
<1> HIDE DEF at
<1>10. place \in [D -> D] /\ \A k, l \in D : place[k] = place[l] => k = l
  <2>1. DOMAIN place = D /\ place = [k \in D |-> place[k]]
    OBVIOUS
  <2> HIDE DEF place
  <2>2. \A k, l \in D : place[k] = place[l] => k - 1 = l - 1
    BY <1>8
  <2>3. \A k \in D : k \in Int
    BY <1>1
  <2> QED
    BY <1>8, <2>1, <2>2, <2>3
<1> HIDE DEF place
<1>11. ByName \in Bijection(D, Control)
  BY CohortIsFinite DEF D
<1>12. place \in Bijection(D, D)
  BY <1>9, <1>10, Fun_IsBij
<1>13. HolmOrder(solved) \in Bijection(D, Control)
  BY <1>3, <1>11, <1>12, Fun_BijTransitive
<1>14. HolmOrder(solved) \in Seq(Control)
  BY <1>1, <1>3, <1>10
<1> QED
  BY <1>13, <1>14 DEF D

(* A contrast passes when the candidate won more and the closed test       *)
(* rejects, in whatever order the corrections are dealt.                   *)
LEMMA PassedIs ==
  ASSUME NEW solved
  PROVE  /\ Passed(solved) =
              {c \in Control : Positive(solved, c) /\ Rejected(solved, c)}
         /\ BootstrapPassed(solved) =
              {c \in Control : /\ Wins(solved, Candidate, c) > Wins(solved, c, Candidate)
                               /\ Rejected(solved, c)}
<1> DEFINE P == PValues(solved)
<1>0. Alpha \in Fraction /\ IsFiniteSet(Control)
  BY AlphaAssumption, CohortIsFinite DEF Fraction
<1>1. ASSUME NEW e \in Seq(Control), e \in Bijection(DOMAIN e, Control), NEW k \in DOMAIN e
      PROVE  HolmRejects([n \in DOMAIN e |-> PValue(solved, e[n])], Alpha, k) <=>
               Rejected(solved, e[k])
  <2> DEFINE D == DOMAIN e
             ps == [n \in D |-> PValue(solved, e[n])]
  <2>1. ps \in Seq(Fraction) /\ DOMAIN ps = D
    <3>1. \A n \in D : PValue(solved, e[n]) \in Fraction
      BY WinsAreNumbers
    <3>2. D = 1 .. Len(e) /\ Len(e) \in Nat
      OBVIOUS
    <3> QED
      BY <3>1, <3>2
  <2>2. \A n \in D : ps[n] = P[e[n]]
    BY DEF PValues
  <2>3. e \in Bijection(D, Control)
    BY <1>1
  <2> HIDE DEF D, ps, P
  <2>4. k \in D
    BY DEF D
  <2>5. HolmRejects(ps, Alpha, k) <=> ClosedRejects(ps, Alpha, k)
    BY <1>0, <2>1, <2>4, HolmIsClosed
  <2>6. ClosedRejects(ps, Alpha, k) <=> ClosedOf(P, Control, Alpha, e[k])
    BY <1>0, <2>1, <2>2, <2>3, <2>4, OrderIsNoMatter
  <2> QED
    BY <2>5, <2>6 DEF ps, D, P, Rejected
<1>2. Passed(solved) = {c \in Control : Positive(solved, c) /\ Rejected(solved, c)}
  <2> DEFINE order == HolmOrder(solved)
             ps == [k \in DOMAIN order |-> PValue(solved, order[k])]
  <2>1. /\ order \in Seq(Control) /\ order \in Bijection(DOMAIN order, Control)
        /\ DOMAIN order = DOMAIN ByName
    <3>1. order \in [DOMAIN ByName -> Control]
      BY HolmOrderIsComplete, Fun_BijectionProperties
    <3>2. DOMAIN order = DOMAIN ByName
      BY <3>1
    <3> QED
      BY <3>2, HolmOrderIsComplete
  <2>2. Passed(solved) = {c \in Control : /\ Positive(solved, c)
                                          /\ \E k \in DOMAIN order :
                                               order[k] = c /\ HolmRejects(ps, Alpha, k)}
    BY DEF Passed
  <2> HIDE DEF order
  <2>3. \A c \in Control : \E k \in DOMAIN order : order[k] = c
    BY <2>1, Fun_BijectionProperties
  <2>4. \A k \in DOMAIN order : HolmRejects(ps, Alpha, k) <=> Rejected(solved, order[k])
    BY <1>1, <2>1
  <2> HIDE DEF ps
  <2>5. \A c \in Control :
          (\E k \in DOMAIN order : order[k] = c /\ HolmRejects(ps, Alpha, k)) <=>
            Rejected(solved, c)
    BY <2>3, <2>4
  <2> QED
    BY <2>2, <2>5
<1>3. BootstrapPassed(solved) =
        {c \in Control : /\ Wins(solved, Candidate, c) > Wins(solved, c, Candidate)
                         /\ Rejected(solved, c)}
  <2> DEFINE ps == [k \in DOMAIN Controls |-> PValue(solved, Controls[k])]
  <2>1. Controls \in Seq(Control) /\ Controls \in Bijection(DOMAIN Controls, Control)
    BY CohortIsFinite, ArmAssumption
  <2>2. \A c \in Control : \E k \in DOMAIN Controls : Controls[k] = c
    BY DEF Control
  <2>3. \A k \in DOMAIN Controls :
          HolmRejects(ps, Alpha, k) <=> Rejected(solved, Controls[k])
    BY <1>1, <2>1
  <2>4. BootstrapPassed(solved) =
          {Controls[k] : k \in {n \in DOMAIN Controls :
             /\ Wins(solved, Candidate, Controls[n]) > Wins(solved, Controls[n], Candidate)
             /\ HolmRejects(ps, Alpha, n)}}
    BY DEF BootstrapPassed
  <2>5. \A k \in DOMAIN Controls : Controls[k] \in Control
    BY DEF Control
  <2> HIDE DEF ps
  <2> QED
    BY <2>2, <2>3, <2>4, <2>5
<1> QED
  BY <1>2, <1>3

(* evaluate_confirmatory and evaluate_experiment pass the same contrasts   *)
(* of every cohort.                                                        *)
THEOREM EvaluatorsPassTheSame ==
  ASSUME NEW solved
  PROVE  Passed(solved) = BootstrapPassed(solved)
BY PassedIs, DirectionIsOne

-----------------------------------------------------------------------------
(* Monotonicity.                                                           *)

(* With one problem more, each way to fall can come about in two.          *)
LEMMA TailGrows ==
  ASSUME NEW n \in Nat, NEW s \in Nat
  PROVE  Cardinality(AtMostOf(n + 1, s)) <= 2 * Cardinality(AtMostOf(n, s))
<1> DEFINE more == AtMostOf(n + 1, s)
           low == AtMostOf(n, s)
           rest(S) == S \ {n + 1}
           mark(S) == IF n + 1 \in S THEN 2 ELSE 1
           f == [S \in more |-> <<rest(S), mark(S)>>]
<1>1. ASSUME NEW S \in more
      PROVE  S \ {n + 1} \in low
  <2>1. S \in SUBSET (1 .. (n + 1)) /\ Cardinality(S) <= s
    BY DEF AtMostOf
  <2>0. n + 1 \in Nat
    OBVIOUS
  <2>2. IsFiniteSet(S) /\ Cardinality(S) \in Nat
    <3>1. IsFiniteSet(S) /\ Cardinality(S) \in 0 .. (n + 1)
      BY <2>0, <2>1, WaysAreFinite
    <3> QED
      BY <3>1
  <2>3. S \ {n + 1} \in SUBSET (1 .. n)
    BY <2>1
  <2>4. Cardinality(S \ {n + 1}) = IF n + 1 \in S THEN Cardinality(S) - 1
                                   ELSE Cardinality(S)
    BY <2>2, FS_RemoveElement
  <2>5. Cardinality(S \ {n + 1}) <= s
    BY <2>1, <2>2, <2>4
  <2> QED
    BY <2>3, <2>5 DEF AtMostOf
<1>2. f \in [more -> low \X (1 .. 2)]
  <2>1. \A S \in more : mark(S) \in 1 .. 2
    OBVIOUS
  <2>2. \A S \in more :
          <<rest(S), mark(S)>> \in low \X (1 .. 2)
    BY Zenon, <1>1, <2>1
  <2> QED
    BY Zenon, <2>2
<1>3. \A S, T \in more : f[S] = f[T] => S = T
  <2> SUFFICES ASSUME NEW S \in more, NEW T \in more, f[S] = f[T]
               PROVE  S = T
    OBVIOUS
  <2>1. S \ {n + 1} = T \ {n + 1} /\ ((n + 1 \in S) <=> (n + 1 \in T))
    <3>1. /\ f[S][1] = rest(S) /\ f[S][2] = mark(S)
          /\ f[T][1] = rest(T) /\ f[T][2] = mark(T)
      OBVIOUS
    <3> HIDE DEF f, mark, rest
    <3>2. /\ rest(S) = rest(T)
          /\ mark(S) = mark(T)
      BY <3>1
    <3> QED
      BY <3>2 DEF mark, rest
  <2> QED
    BY <2>1
<1>4. IsFiniteSet(low)
  <2>1. low \in SUBSET SUBSET (1 .. n)
    BY DEF AtMostOf
  <2> HIDE DEF low
  <2> QED
    BY <2>1, WaysAreFinite
<1>5. IsFiniteSet(1 .. 2) /\ Cardinality(1 .. 2) = 2
  <2>1. 2 \in Nat
    OBVIOUS
  <2> QED
    BY <2>1, WaysAreFinite
<1> HIDE DEF more, low, f
<1>6. IsFiniteSet(low \X (1 .. 2)) /\ Cardinality(low \X (1 .. 2)) = Cardinality(low) * 2
  BY <1>4, <1>5, FS_Product
<1>7. f \in Injection(more, low \X (1 .. 2))
  BY <1>2, <1>3, Fun_IsInj
<1>8. Cardinality(more) <= Cardinality(low \X (1 .. 2))
  BY <1>6, <1>7, FS_Injection
<1>9. Cardinality(low) \in Nat
  BY <1>4, FS_CardinalityType
<1>10. Cardinality(more) <= 2 * Cardinality(low)
  BY <1>6, <1>8, <1>9
<1> QED
  BY <1>10 DEF more, low

(* And with one more to spare, each comes about in two.                    *)
LEMMA TailShrinks ==
  ASSUME NEW n \in Nat, NEW s \in Nat
  PROVE  2 * Cardinality(AtMostOf(n, s)) <= Cardinality(AtMostOf(n + 1, s + 1))
<1> DEFINE more == AtMostOf(n + 1, s + 1)
           low == AtMostOf(n, s)
           with == {S \cup {n + 1} : S \in low}
           f == [S \in low |-> S \cup {n + 1}]
<1>1. ASSUME NEW S \in low
      PROVE  /\ S \in more /\ S \cup {n + 1} \in more
             /\ n + 1 \notin S
  <2>1. S \in SUBSET (1 .. n) /\ Cardinality(S) <= s
    BY DEF AtMostOf
  <2>2. IsFiniteSet(S) /\ Cardinality(S) \in Nat
    <3>1. IsFiniteSet(S) /\ Cardinality(S) \in 0 .. n
      BY <2>1, WaysAreFinite
    <3> QED
      BY <3>1
  <2>3. n + 1 \notin S /\ S \in SUBSET (1 .. (n + 1))
        /\ S \cup {n + 1} \in SUBSET (1 .. (n + 1))
    BY <2>1
  <2>4. Cardinality(S \cup {n + 1}) = Cardinality(S) + 1
    BY <2>2, <2>3, FS_AddElement
  <2>5. Cardinality(S \cup {n + 1}) <= s + 1 /\ Cardinality(S) <= s + 1
    BY <2>1, <2>2, <2>4
  <2> QED
    BY <2>3, <2>5 DEF AtMostOf
<1>2. f \in [low -> with] /\ \A T \in with : \E S \in low : f[S] = T
  OBVIOUS
<1>3. \A S, T \in low : f[S] = f[T] => S = T
  <2> SUFFICES ASSUME NEW S \in low, NEW T \in low, S \cup {n + 1} = T \cup {n + 1}
               PROVE  S = T
    OBVIOUS
  <2>1. n + 1 \notin S /\ n + 1 \notin T
    BY <1>1
  <2> QED
    BY <2>1
<1>4. low \cap with = {} /\ low \cup with \in SUBSET more
  BY <1>1
<1>5. IsFiniteSet(low) /\ IsFiniteSet(more) /\ Cardinality(low) \in Nat
  <2>1. n + 1 \in Nat
    OBVIOUS
  <2>2. low \in SUBSET SUBSET (1 .. n) /\ more \in SUBSET SUBSET (1 .. (n + 1))
    BY DEF AtMostOf
  <2> HIDE DEF low, more
  <2> QED
    BY <2>1, <2>2, WaysAreFinite
<1> HIDE DEF more, low, with, f
<1>6. ExistsBijection(low, with)
  BY <1>2, <1>3, Fun_IsBij DEF ExistsBijection
<1>7. IsFiniteSet(with) /\ Cardinality(with) = Cardinality(low)
  BY <1>5, <1>6, FS_Bijection
<1>8. /\ IsFiniteSet(low \cup with)
      /\ Cardinality(low \cup with) =
           Cardinality(low) + Cardinality(with) - Cardinality(low \cap with)
  BY <1>5, <1>7, FS_Union
<1>9. Cardinality(low \cap with) = 0
  BY <1>4, FS_EmptySet
<1>10. Cardinality(low \cup with) = 2 * Cardinality(low)
  BY <1>5, <1>7, <1>8, <1>9
<1>11. Cardinality(low \cup with) <= Cardinality(more)
  BY <1>4, <1>5, FS_Subset
<1> QED
  BY <1>10, <1>11 DEF more, low

(* One problem more doubles the ways.                                      *)
LEMMA AllDoubles ==
  ASSUME NEW n \in Nat
  PROVE  /\ Cardinality(SUBSET (1 .. (n + 1))) = 2 * Cardinality(SUBSET (1 .. n))
         /\ Cardinality(SUBSET (1 .. n)) \in Nat \ {0}
<1>1. ASSUME NEW m \in Nat, NEW s \in Nat, m <= s
      PROVE  AtMostOf(m, s) = SUBSET (1 .. m)
  <2>1. \A w \in 0 .. m : w <= s
    BY <1>1
  <2>2. \A S \in SUBSET (1 .. m) : Cardinality(S) \in 0 .. m
    BY WaysAreFinite
  <2> QED
    BY <2>1, <2>2 DEF AtMostOf
<1>2. /\ n + 1 \in Nat /\ n <= n /\ n <= n + 1 /\ n + 1 <= n + 1
  OBVIOUS
<1>3. /\ AtMostOf(n, n) = SUBSET (1 .. n) /\ AtMostOf(n, n + 1) = SUBSET (1 .. n)
      /\ AtMostOf(n + 1, n + 1) = SUBSET (1 .. (n + 1))
  BY <1>1, <1>2
<1>4. Cardinality(SUBSET (1 .. (n + 1))) <= 2 * Cardinality(SUBSET (1 .. n))
  BY <1>2, <1>3, TailGrows
<1>5. 2 * Cardinality(SUBSET (1 .. n)) <= Cardinality(SUBSET (1 .. (n + 1)))
  BY <1>3, TailShrinks
<1>6. /\ Cardinality(SUBSET (1 .. (n + 1))) \in Nat /\ Cardinality(SUBSET (1 .. n)) \in Nat
      /\ IsFiniteSet(SUBSET (1 .. n))
  BY <1>2, WaysAreFinite
<1>7. Cardinality(SUBSET (1 .. n)) # 0
  <2>1. SUBSET (1 .. n) # {}
    OBVIOUS
  <2> QED
    BY <1>6, <2>1, FS_EmptySet
<1> QED
  BY <1>4, <1>5, <1>6, <1>7

(* Whoever is ahead is more surely so with one win more or one loss less.  *)
THEOREM McNemarIsMonotone ==
  ASSUME NEW a \in Nat, NEW b \in Nat, a > b
  PROVE  /\ AtLeast(McNemar(a, b), McNemar(a + 1, b))
         /\ b > 0 => AtLeast(McNemar(a, b), McNemar(a, b - 1))
<1>1. ASSUME NEW c \in Nat, NEW d \in Nat,
             TailWays(c, d) <= 2 * TailWays(a, b), AllWays(c, d) = 2 * AllWays(a, b)
      PROVE  AtLeast(McNemar(a, b), McNemar(c, d))
  <2> DEFINE T == TailWays(a, b)
             W == AllWays(a, b)
             t == TailWays(c, d)
             w == AllWays(c, d)
  <2>1. T \in Nat /\ W \in Nat \ {0} /\ t \in Nat /\ w \in Nat \ {0}
    BY TailAndAll
  <2>2. /\ McNemar(a, b) = IF 2 * T >= W THEN <<1, 1>> ELSE <<2 * T, W>>
        /\ McNemar(c, d) = IF 2 * t >= w THEN <<1, 1>> ELSE <<2 * t, w>>
    BY McNemarIs
  <2>3. t <= 2 * T /\ w = 2 * W
    BY <1>1
  <2> HIDE DEF T, W, t, w
  <2>4. CASE 2 * T >= W
    BY <2>1, <2>2, <2>4 DEF AtLeast, Less
  <2>5. CASE ~ (2 * T >= W)
    <3>1. 2 * t < w
      BY <2>1, <2>3, <2>5
    <3>2. McNemar(a, b) = <<2 * T, W>> /\ McNemar(c, d) = <<2 * t, w>>
      BY <2>1, <2>2, <2>5, <3>1
    <3>3. 2 * t * W <= 4 * T * W
      <4>1. 2 * t <= 4 * T
        BY <2>1, <2>3
      <4>2. 2 * t \in Int /\ 4 * T \in Int
        BY <2>1
      <4> QED
        BY <2>1, <4>1, <4>2, Cancel
    <3>4. 4 * T * W = 2 * T * w
      BY <2>1, <2>3
    <3> QED
      BY <2>1, <3>2, <3>3, <3>4 DEF AtLeast, Less
  <2> QED
    BY <2>4, <2>5
<1>2. AtLeast(McNemar(a, b), McNemar(a + 1, b))
  <2>1. a + b \in Nat /\ (a + 1) + b = (a + b) + 1
        /\ Smaller(a, b) = b /\ Smaller(a + 1, b) = b
    BY DEF Smaller
  <2>2. TailWays(a + 1, b) <= 2 * TailWays(a, b)
    BY <2>1, TailGrows DEF TailWays
  <2>3. AllWays(a + 1, b) = 2 * AllWays(a, b)
    BY <2>1, AllDoubles DEF AllWays
  <2>4. a + 1 \in Nat
    OBVIOUS
  <2> QED
    BY <1>1, <2>2, <2>3, <2>4
<1>3. ASSUME b > 0
      PROVE  AtLeast(McNemar(a, b), McNemar(a, b - 1))
  <2> DEFINE n == a + (b - 1)
             T == TailWays(a, b)
             W == AllWays(a, b)
             t == TailWays(a, b - 1)
             w == AllWays(a, b - 1)
  <2>1. n \in Nat /\ a + b = n + 1 /\ b - 1 \in Nat /\ (b - 1) + 1 = b
        /\ Smaller(a, b) = b /\ Smaller(a, b - 1) = b - 1
    BY <1>3 DEF Smaller
  <2>2. T \in Nat /\ W \in Nat \ {0} /\ t \in Nat /\ w \in Nat \ {0}
    BY <2>1, TailAndAll
  <2>3. 2 * t <= T
    BY <2>1, TailShrinks DEF TailWays
  <2>4. W = 2 * w
    BY <2>1, AllDoubles DEF AllWays
  <2>5. /\ McNemar(a, b) = IF 2 * T >= W THEN <<1, 1>> ELSE <<2 * T, W>>
        /\ McNemar(a, b - 1) = IF 2 * t >= w THEN <<1, 1>> ELSE <<2 * t, w>>
    BY <2>1, McNemarIs
  <2> HIDE DEF n, T, W, t, w
  <2>6. CASE 2 * T >= W
    BY <2>2, <2>5, <2>6 DEF AtLeast, Less
  <2>7. CASE ~ (2 * T >= W)
    <3>1. 2 * t < w
      BY <2>2, <2>3, <2>4, <2>7
    <3>2. McNemar(a, b) = <<2 * T, W>> /\ McNemar(a, b - 1) = <<2 * t, w>>
      BY <2>2, <2>5, <2>7, <3>1
    <3>3. 4 * t * w <= 2 * T * w
      <4>1. 4 * t <= 2 * T
        BY <2>2, <2>3
      <4>2. 4 * t \in Int /\ 2 * T \in Int
        BY <2>2
      <4> QED
        BY <2>2, <4>1, <4>2, Cancel
    <3>4. 2 * t * W = 4 * t * w
      BY <2>2, <2>4
    <3> QED
      BY <2>2, <3>2, <3>3, <3>4 DEF AtLeast, Less
  <2> QED
    BY <2>6, <2>7
<1> QED
  BY <1>2, <1>3

(* One outcome moves in the candidate's favour against c: it solves p, or  *)
(* c does not.                                                             *)
Favours(solved, more, p, c) ==
  /\ \A q \in Problem \ {p} : /\ <<q, Candidate>> \in solved <=> <<q, Candidate>> \in more
                              /\ <<q, c>> \in solved <=> <<q, c>> \in more
  /\ <<p, Candidate>> \in solved => <<p, Candidate>> \in more
  /\ <<p, c>> \in more => <<p, c>> \in solved
  /\ \/ <<p, Candidate>> \in solved <=> <<p, Candidate>> \in more
     \/ <<p, c>> \in solved <=> <<p, c>> \in more

(* It wins one problem more, loses one less, or neither.                   *)
LEMMA WinsMove ==
  ASSUME NEW solved, NEW more, NEW p \in Problem, NEW c, Favours(solved, more, p, c)
  PROVE  LET a == Wins(solved, Candidate, c)
             b == Wins(solved, c, Candidate)
         IN \/ Wins(more, Candidate, c) = a /\ Wins(more, c, Candidate) = b
            \/ Wins(more, Candidate, c) = a + 1 /\ Wins(more, c, Candidate) = b
            \/ b > 0 /\ Wins(more, Candidate, c) = a /\ Wins(more, c, Candidate) = b - 1
<1> DEFINE Won(s) == {q \in Problem : <<q, Candidate>> \in s /\ <<q, c>> \notin s}
           Lost(s) == {q \in Problem : <<q, c>> \in s /\ <<q, Candidate>> \notin s}
<1>1. \A s : /\ IsFiniteSet(Won(s)) /\ Cardinality(Won(s)) = Wins(s, Candidate, c)
             /\ IsFiniteSet(Lost(s)) /\ Cardinality(Lost(s)) = Wins(s, c, Candidate)
             /\ Wins(s, Candidate, c) \in Nat /\ Wins(s, c, Candidate) \in Nat
  <2> TAKE s
  <2>1. IsFiniteSet(Won(s)) /\ IsFiniteSet(Lost(s))
    <3>1. Won(s) \in SUBSET Problem /\ Lost(s) \in SUBSET Problem
      OBVIOUS
    <3> HIDE DEF Won, Lost
    <3> QED
      BY <3>1, CohortIsFinite, FS_Subset
  <2>2. /\ Wins(s, Candidate, c) \in Nat /\ Wins(s, c, Candidate) \in Nat
    BY WinsAreNumbers
  <2>3. /\ Cardinality(Won(s)) = Wins(s, Candidate, c)
        /\ Cardinality(Lost(s)) = Wins(s, c, Candidate)
    BY DEF Wins
  <2> QED
    BY <2>1, <2>2, <2>3
<1>2. \/ Won(more) = Won(solved) /\ Lost(more) = Lost(solved)
      \/ /\ p \notin Won(solved) /\ Won(more) = Won(solved) \cup {p}
         /\ Lost(more) = Lost(solved)
      \/ /\ p \in Lost(solved) /\ Lost(more) = Lost(solved) \ {p}
         /\ Won(more) = Won(solved)
  <2>1. \A q \in Problem \ {p} : /\ q \in Won(solved) <=> q \in Won(more)
                                 /\ q \in Lost(solved) <=> q \in Lost(more)
    BY DEF Favours
  <2>2. \/ /\ p \in Won(solved) <=> p \in Won(more)
           /\ p \in Lost(solved) <=> p \in Lost(more)
        \/ /\ p \notin Won(solved) /\ p \in Won(more)
           /\ p \in Lost(solved) <=> p \in Lost(more)
        \/ /\ p \in Lost(solved) /\ p \notin Lost(more)
           /\ p \in Won(solved) <=> p \in Won(more)
    BY DEF Favours
  <2>3. \A s : Won(s) \in SUBSET Problem /\ Lost(s) \in SUBSET Problem
    OBVIOUS
  <2> HIDE DEF Won, Lost
  <2> QED
    BY <2>1, <2>2, <2>3
<1> HIDE DEF Won, Lost
<1>3. CASE Won(more) = Won(solved) /\ Lost(more) = Lost(solved)
  BY <1>1, <1>3
<1>4. CASE /\ p \notin Won(solved) /\ Won(more) = Won(solved) \cup {p}
           /\ Lost(more) = Lost(solved)
  <2>1. Cardinality(Won(more)) = Cardinality(Won(solved)) + 1
    BY <1>1, <1>4, FS_AddElement
  <2> QED
    BY <1>1, <1>4, <2>1
<1>5. CASE /\ p \in Lost(solved) /\ Lost(more) = Lost(solved) \ {p}
           /\ Won(more) = Won(solved)
  <2>1. Cardinality(Lost(more)) = Cardinality(Lost(solved)) - 1
    BY <1>1, <1>5, FS_RemoveElement
  <2>2. Cardinality(Lost(more)) \in Nat
    BY <1>1
  <2> QED
    BY <1>1, <1>5, <2>1, <2>2
<1> QED
  BY <1>2, <1>3, <1>4, <1>5

(* So a control the candidate beats stays beaten, by no larger a p-value.  *)
LEMMA PValueShrinks ==
  ASSUME NEW solved, NEW more, NEW p \in Problem, NEW c, Favours(solved, more, p, c),
         Wins(solved, Candidate, c) > Wins(solved, c, Candidate)
  PROVE  /\ Wins(more, Candidate, c) > Wins(more, c, Candidate)
         /\ AtLeast(PValue(solved, c), PValue(more, c))
<1> DEFINE a == Wins(solved, Candidate, c)
           b == Wins(solved, c, Candidate)
<1>1. a \in Nat /\ b \in Nat /\ PValue(solved, c) \in Fraction
  BY WinsAreNumbers
<1>2. \/ Wins(more, Candidate, c) = a /\ Wins(more, c, Candidate) = b
      \/ Wins(more, Candidate, c) = a + 1 /\ Wins(more, c, Candidate) = b
      \/ b > 0 /\ Wins(more, Candidate, c) = a /\ Wins(more, c, Candidate) = b - 1
  BY WinsMove
<1>3. PValue(solved, c) = McNemar(a, b)
      /\ PValue(more, c) = McNemar(Wins(more, Candidate, c), Wins(more, c, Candidate))
  BY DEF PValue
<1>4. a > b
  OBVIOUS
<1> HIDE DEF a, b
<1>5. /\ AtLeast(McNemar(a, b), McNemar(a + 1, b))
      /\ b > 0 => AtLeast(McNemar(a, b), McNemar(a, b - 1))
  BY <1>1, <1>4, McNemarIsMonotone
<1>6. AtLeast(McNemar(a, b), McNemar(a, b))
  BY <1>1, <1>3, LessIsOrder
<1> QED
  BY <1>1, <1>2, <1>3, <1>4, <1>5, <1>6

(* Smaller p-values are rejected where larger ones are.                    *)
LEMMA SmallerAreRejected ==
  ASSUME NEW S, IsFiniteSet(S), NEW alpha \in Fraction, NEW x \in S,
         NEW P, NEW Q,
         \A y \in S : /\ P[y] \in Fraction /\ Q[y] \in Fraction
                      /\ AtLeast(P[y], Q[y]),
         ClosedOf(P, S, alpha, x)
  PROVE  ClosedOf(Q, S, alpha, x)
<1> SUFFICES ASSUME NEW I \in SUBSET S, x \in I
             PROVE  \E y \in I : AtMost(Q[y], alpha, Cardinality(I))
  BY DEF ClosedOf
<1>1. PICK y \in I : AtMost(P[y], alpha, Cardinality(I))
  BY DEF ClosedOf
<1>2. Cardinality(I) \in Nat /\ Cardinality(I) <= Cardinality(I)
  <2>1. Cardinality(I) \in Nat
    BY FS_Subset, FS_CardinalityType
  <2> QED
    BY <2>1
<1>3. y \in S /\ P[y] \in Fraction /\ Q[y] \in Fraction /\ AtLeast(P[y], Q[y])
  OBVIOUS
<1>4. AtMost(Q[y], alpha, Cardinality(I))
  BY <1>1, <1>2, <1>3, AtMostIsMonotone
<1> QED
  BY <1>4

(* A cohort that passes still passes when one outcome moves in the         *)
(* candidate's favour.                                                     *)
LEMMA PassStays ==
  ASSUME NEW solved, NEW more, NEW p \in Problem,
         \A c \in Control : Favours(solved, more, p, c),
         Passed(solved) = Control
  PROVE  Passed(more) = Control
<1>1. \A c \in Control : /\ Wins(solved, Candidate, c) > Wins(solved, c, Candidate)
                         /\ Rejected(solved, c)
  BY PassedIs, DirectionIsOne
<1>2. \A c \in Control : /\ Wins(more, Candidate, c) > Wins(more, c, Candidate)
                         /\ AtLeast(PValue(solved, c), PValue(more, c))
  BY <1>1, PValueShrinks
<1>3. \A c \in Control : /\ PValues(solved)[c] = PValue(solved, c)
                         /\ PValues(more)[c] = PValue(more, c)
                         /\ PValue(solved, c) \in Fraction
                         /\ PValue(more, c) \in Fraction
  BY WinsAreNumbers DEF PValues
<1>4. Alpha \in Fraction /\ IsFiniteSet(Control)
  BY AlphaAssumption, CohortIsFinite DEF Fraction
<1>5. ASSUME NEW c \in Control
      PROVE  Rejected(more, c)
  <2>1. ClosedOf(PValues(solved), Control, Alpha, c)
    BY <1>1 DEF Rejected
  <2>2. ClosedOf(PValues(more), Control, Alpha, c)
    BY <1>2, <1>3, <1>4, <2>1, SmallerAreRejected
  <2> QED
    BY <2>2 DEF Rejected
<1> QED
  BY <1>2, <1>5, PassedIs, DirectionIsOne

(* That is so when the candidate solves one problem more, and when a       *)
(* control solves one less.                                                *)
THEOREM OneMoreStillPasses ==
  ASSUME NEW solved, Passed(solved) = Control, NEW p \in Problem
  PROVE  /\ Passed(solved \cup {<<p, Candidate>>}) = Control
         /\ \A c \in Control : Passed(solved \ {<<p, c>>}) = Control
<1>0. Candidate \notin Control
  BY ArmAssumption
<1>1. Passed(solved \cup {<<p, Candidate>>}) = Control
  <2> DEFINE more == solved \cup {<<p, Candidate>>}
  <2>1. \A q, d : <<q, d>> \in more <=> <<q, d>> \in solved \/ (q = p /\ d = Candidate)
    OBVIOUS
  <2> HIDE DEF more
  <2>2. \A c \in Control : Favours(solved, more, p, c)
    BY <1>0, <2>1 DEF Favours
  <2>3. Passed(more) = Control
    BY <2>2, PassStays
  <2> QED
    BY <2>3 DEF more
<1>2. ASSUME NEW d \in Control
      PROVE  Passed(solved \ {<<p, d>>}) = Control
  <2> DEFINE more == solved \ {<<p, d>>}
  <2>1. \A q, e : <<q, e>> \in more <=> <<q, e>> \in solved /\ ~ (q = p /\ e = d)
    OBVIOUS
  <2> HIDE DEF more
  <2>2. \A c \in Control : Favours(solved, more, p, c)
    BY <1>0, <2>1 DEF Favours
  <2>3. Passed(more) = Control
    BY <2>2, PassStays
  <2> QED
    BY <2>3 DEF more
<1> QED
  BY <1>1, <1>2

(* The closed test over p-values counted one outcome at a time, in the     *)
(* order of the controls, rejects the same contrasts.                      *)
LEMMA CountedRejects ==
  ASSUME NEW solved, NEW k \in DOMAIN Controls
  PROVE  ClosedRejects([n \in DOMAIN Controls |->
                          CountedP(Wins(solved, Candidate, Controls[n]),
                                   Wins(solved, Controls[n], Candidate))],
                       Alpha, k)
           <=> Rejected(solved, Controls[k])
<1> DEFINE D == DOMAIN Controls
           Counted(c) == CountedP(Wins(solved, Candidate, c), Wins(solved, c, Candidate))
           Q == [c \in Control |-> Counted(c)]
           P == PValues(solved)
           ps == [n \in D |-> Counted(Controls[n])]
<1>1. Alpha \in Fraction /\ IsFiniteSet(Control) /\ Controls \in Bijection(D, Control)
  BY AlphaAssumption, CohortIsFinite DEF Fraction
<1>2. \A n \in D : Controls[n] \in Control
  BY DEF Control
<1>3. \A c \in Control : /\ PValue(solved, c) \in Fraction /\ Counted(c) \in Fraction
                         /\ SameRatio(PValue(solved, c), Counted(c))
  <2> TAKE c \in Control
  <2>1. Wins(solved, Candidate, c) \in Nat /\ Wins(solved, c, Candidate) \in Nat
    BY WinsAreNumbers
  <2> QED
    BY <2>1, McNemarCounts DEF PValue
<1>4. \A c \in Control : P[c] = PValue(solved, c) /\ Q[c] = Counted(c)
  BY DEF PValues
<1>5. DOMAIN ps = D /\ \A n \in D : ps[n] = Q[Controls[n]]
  BY <1>2
<1> HIDE DEF D, Counted, P, Q, ps
<1>6. \A c \in Control : /\ P[c] \in Fraction /\ Q[c] \in Fraction
                         /\ AtLeast(P[c], Q[c]) /\ AtLeast(Q[c], P[c])
  <2> TAKE c \in Control
  <2>1. P[c] \in Fraction /\ Q[c] \in Fraction /\ SameRatio(P[c], Q[c])
    BY <1>3, <1>4
  <2>2. /\ P[c][1] * Q[c][2] \in Int /\ Q[c][1] * P[c][2] \in Int
        /\ P[c][1] * Q[c][2] = Q[c][1] * P[c][2]
    BY <2>1 DEF SameRatio, Fraction
  <2> QED
    BY <2>1, <2>2 DEF AtLeast, Less
<1>7. k \in D
  BY DEF D
<1>8. ClosedRejects(ps, Alpha, k) <=> ClosedOf(Q, Control, Alpha, Controls[k])
  BY <1>1, <1>5, <1>7, OrderIsNoMatter
<1>9. ClosedOf(Q, Control, Alpha, Controls[k]) <=> ClosedOf(P, Control, Alpha, Controls[k])
  <2>1. Controls[k] \in Control
    BY <1>2, <1>7
  <2>2. ClosedOf(Q, Control, Alpha, Controls[k]) => ClosedOf(P, Control, Alpha, Controls[k])
    BY <1>1, <1>6, <2>1, SmallerAreRejected
  <2>3. ClosedOf(P, Control, Alpha, Controls[k]) => ClosedOf(Q, Control, Alpha, Controls[k])
    BY <1>1, <1>6, <2>1, SmallerAreRejected
  <2> QED
    BY <2>2, <2>3
<1> QED
  BY <1>8, <1>9 DEF Rejected, ps, P, Counted, D

(* The contrasts the closed test passes.                                   *)
ClosedPasses(solved) ==
  LET ps == [k \in DOMAIN Controls |->
               CountedP(Wins(solved, Candidate, Controls[k]),
                        Wins(solved, Controls[k], Candidate))]
  IN {Controls[k] : k \in {n \in DOMAIN Controls :
        /\ Wins(solved, Candidate, Controls[n]) > Wins(solved, Controls[n], Candidate)
        /\ ClosedRejects(ps, Alpha, n)}}

(* The evaluator passes what the closed test over counted p-values passes, *)
(* of every cohort and every family of controls.                           *)
THEOREM EvaluatorIsClosedTest ==
  ASSUME NEW solved
  PROVE  Passed(solved) = ClosedPasses(solved)
<1> DEFINE ps == [k \in DOMAIN Controls |->
                    CountedP(Wins(solved, Candidate, Controls[k]),
                             Wins(solved, Controls[k], Candidate))]
           ahead(c) == Wins(solved, Candidate, c) > Wins(solved, c, Candidate)
<1>1. Passed(solved) = {c \in Control : ahead(c) /\ Rejected(solved, c)}
  BY PassedIs, DirectionIsOne
<1>2. \A k \in DOMAIN Controls : ClosedRejects(ps, Alpha, k) <=> Rejected(solved, Controls[k])
  BY CountedRejects
<1>3. ClosedPasses(solved) =
        {Controls[k] : k \in {n \in DOMAIN Controls :
                                ahead(Controls[n]) /\ ClosedRejects(ps, Alpha, n)}}
  BY DEF ClosedPasses
<1>4. /\ \A k \in DOMAIN Controls : Controls[k] \in Control
      /\ \A c \in Control : \E k \in DOMAIN Controls : Controls[k] = c
  BY DEF Control
<1> HIDE DEF ps, ahead
<1> QED
  BY <1>1, <1>2, <1>3, <1>4

-----------------------------------------------------------------------------
(* The level.  Of equally likely outcomes, a share of at most Alpha passes *)
(* a contrast that only chance decides.                                    *)

(* Fractions of one ratio are at least as large as each other.             *)
LEMMA RatioOrder ==
  ASSUME NEW p \in Fraction, NEW q \in Fraction, SameRatio(p, q)
  PROVE  AtLeast(p, q) /\ AtLeast(q, p)
<1>1. /\ p[1] * q[2] \in Int /\ q[1] * p[2] \in Int
      /\ p[1] * q[2] = q[1] * p[2]
  BY DEF SameRatio, Fraction
<1> QED
  BY <1>1 DEF AtLeast, Less

(* A larger number of equal parts is larger.                               *)
LEMMA TimesIsMonotone ==
  ASSUME NEW x \in Nat, NEW y \in Nat, NEW c \in Nat, x <= y
  PROVE  x * c <= y * c
<1>1. CASE c = 0
  BY <1>1
<1>2. CASE c # 0
  <2>1. c \in Nat \ {0}
    BY <1>2
  <2> QED
    BY <2>1, Cancel
<1> QED
  BY <1>1, <1>2

(* The larger side has what the smaller has not.                           *)
LEMMA LargerSide ==
  ASSUME NEW n \in Nat, NEW S \in SUBSET (1 .. n)
  PROVE  LET m == Smaller(Cardinality(S), n - Cardinality(S))
         IN /\ m \in 0 .. n
            /\ Cardinality(S) >= n - m \/ Cardinality((1 .. n) \ S) >= n - m
            /\ m <= Cardinality(S) /\ m <= n - Cardinality(S)
            /\ Cardinality(S) \in 0 .. n
            /\ Cardinality((1 .. n) \ S) = n - Cardinality(S)
<1>1. Cardinality(S) \in 0 .. n
  BY WaysAreFinite
<1>2. Cardinality((1 .. n) \ S) = n - Cardinality(S)
  <2>1. IsFiniteSet(1 .. n) /\ Cardinality(1 .. n) = n
    BY WaysAreFinite
  <2>2. Cardinality((1 .. n) \ S) = n - Cardinality((1 .. n) \cap S)
    BY <2>1, FS_Difference
  <2>3. (1 .. n) \cap S = S
    OBVIOUS
  <2> QED
    BY <2>2, <2>3
<1> QED
  BY <1>1, <1>2 DEF Smaller

(* The ways the discordant problems can fall of which the p-value is at    *)
(* most alpha / share.                                                     *)
Rare(n, alpha, share) ==
  {S \in SUBSET (1 .. n) :
     AtMost(McNemar(Cardinality(S), n - Cardinality(S)), alpha, share)}

(* The exact test is valid: when each way is equally likely, a p-value of  *)
(* at most that comes about with no greater probability.                   *)
THEOREM McNemarIsValid ==
  ASSUME NEW n \in Nat, NEW alpha \in Fraction, NEW share \in Nat
  PROVE  Cardinality(Rare(n, alpha, share)) * (alpha[2] * share)
           <= alpha[1] * Cardinality(SUBSET (1 .. n))
<1> DEFINE rare == Rare(n, alpha, share)
           ways == SUBSET (1 .. n)
           k == alpha[2] * share
           m(S) == Smaller(Cardinality(S), n - Cardinality(S))
<1>1. alpha[1] \in Nat /\ alpha[2] \in Nat /\ k \in Nat
  BY DEF Fraction
<1>2. /\ IsFiniteSet(ways) /\ rare \in SUBSET ways
      /\ IsFiniteSet(rare) /\ Cardinality(rare) \in Nat /\ Cardinality(ways) \in Nat
  <2>1. rare \in SUBSET ways
    BY DEF Rare
  <2>2. IsFiniteSet(ways)
    BY WaysAreFinite
  <2> HIDE DEF rare, ways
  <2> QED
    BY <2>1, <2>2, FS_Subset, FS_CardinalityType
<1>3. CASE rare = {}
  <2>1. Cardinality(rare) = 0
    BY <1>3, FS_EmptySet
  <2> HIDE DEF rare, ways, k
  <2>2. Cardinality(rare) * k = 0 /\ alpha[1] * Cardinality(ways) \in Nat
    BY <1>1, <1>2, <2>1
  <2>3. Cardinality(rare) * k <= alpha[1] * Cardinality(ways)
    BY <2>2
  <2> QED
    BY <2>3 DEF rare, ways, k
<1>4. CASE rare # {}
  <2>1. \A S \in rare : m(S) \in 0 .. n /\ n - m(S) \in Nat
    <3> TAKE S \in rare
    <3>1. m(S) \in 0 .. n
      BY <1>2, LargerSide
    <3> HIDE DEF m
    <3> QED
      BY <3>1
  <2> DEFINE sizes == {n - m(S) : S \in rare}
  <2>2. sizes \in SUBSET Nat /\ sizes # {}
    BY <1>4, <2>1
  <2>3. PICK least \in sizes : \A s \in sizes : least <= s
    BY <2>2, LeastExists
  <2>4. PICK R \in rare : least = n - m(R)
    BY <2>3
  <2>5. \A S \in rare : n - m(R) <= n - m(S)
    BY <2>3, <2>4
  <2> DEFINE a == Cardinality(R)
             b == n - Cardinality(R)
             Uneven(won) == won >= a /\ won >= b
             extreme == {S \in ways : Uneven(Cardinality(S))
                                        \/ Uneven(Cardinality((1 .. n) \ S))}
  <2>6. a \in Nat /\ b \in Nat /\ a + b = n
    <3>1. Cardinality(R) \in 0 .. n
      BY <1>2, LargerSide
    <3> QED
      BY <3>1
  <2>7. CountedP(a, b) = <<Cardinality(extreme), Cardinality(ways)>>
    BY <2>6 DEF CountedP
  <2>8. rare \in SUBSET extreme
    <3> SUFFICES ASSUME NEW S \in rare
                 PROVE  S \in extreme
      OBVIOUS
    <3>1. S \in SUBSET (1 .. n) /\ R \in SUBSET (1 .. n)
      BY <1>2
    <3>2. n - m(R) <= n - m(S)
      BY <2>5
    <3>3. /\ Cardinality(S) >= n - m(S) \/ Cardinality((1 .. n) \ S) >= n - m(S)
          /\ Cardinality(S) \in Nat /\ Cardinality((1 .. n) \ S) \in Nat
          /\ n - m(S) \in Nat
      <4>1. /\ m(S) \in 0 .. n
            /\ Cardinality(S) >= n - m(S) \/ Cardinality((1 .. n) \ S) >= n - m(S)
            /\ Cardinality(S) \in 0 .. n
            /\ Cardinality((1 .. n) \ S) = n - Cardinality(S)
        BY <3>1, LargerSide
      <4> HIDE DEF m
      <4> QED
        BY <4>1
    <3>4. n - m(R) \in Nat /\ a <= n - m(R) /\ b <= n - m(R)
      <4>1. m(R) \in 0 .. n /\ m(R) <= a /\ m(R) <= b
        BY <3>1, LargerSide
      <4> HIDE DEF m
      <4> QED
        BY <2>6, <4>1
    <3> HIDE DEF m, a, b
    <3>5. Uneven(Cardinality(S)) \/ Uneven(Cardinality((1 .. n) \ S))
      BY <2>6, <3>2, <3>3, <3>4
    <3> QED
      BY <3>1, <3>5
  <2>9. AtMost(CountedP(a, b), alpha, share)
    <3>1. /\ McNemar(a, b) \in Fraction /\ CountedP(a, b) \in Fraction
          /\ SameRatio(McNemar(a, b), CountedP(a, b))
      BY <2>6, McNemarCounts
    <3>2. AtMost(McNemar(a, b), alpha, share)
      BY DEF Rare
    <3> HIDE DEF a, b
    <3>3. AtLeast(McNemar(a, b), CountedP(a, b))
      BY <3>1, RatioOrder
    <3> QED
      BY <3>1, <3>2, <3>3, AtMostIsMonotone
  <2>10. IsFiniteSet(extreme) /\ Cardinality(rare) <= Cardinality(extreme)
         /\ Cardinality(extreme) \in Nat
    <3>1. extreme \in SUBSET ways
      OBVIOUS
    <3> HIDE DEF extreme, rare, ways
    <3>2. IsFiniteSet(extreme)
      BY <1>2, <3>1, FS_Subset
    <3> QED
      BY <2>8, <3>2, FS_Subset, FS_CardinalityType
  <2> HIDE DEF a, b, extreme, rare, ways, k
  <2>11. Cardinality(extreme) * alpha[2] * share <= alpha[1] * Cardinality(ways)
    BY <2>7, <2>9 DEF AtMost
  <2>12. Cardinality(extreme) * k <= alpha[1] * Cardinality(ways)
    <3>1. Cardinality(extreme) * alpha[2] * share = Cardinality(extreme) * k
      BY <1>1, <2>10 DEF k
    <3> QED
      BY <2>11, <3>1
  <2>13. Cardinality(rare) * k <= Cardinality(extreme) * k
    BY <1>1, <1>2, <2>10, TimesIsMonotone
  <2>14. /\ Cardinality(rare) * k \in Int /\ Cardinality(extreme) * k \in Int
         /\ alpha[1] * Cardinality(ways) \in Int
    BY <1>1, <1>2, <2>10
  <2>15. Cardinality(rare) * k <= alpha[1] * Cardinality(ways)
    BY <2>12, <2>13, <2>14
  <2> QED
    BY <2>15 DEF rare, ways, k
<1> QED
  BY <1>3, <1>4

(* At most as many as the sets together.                                   *)
LEMMA UnionBound ==
  ASSUME NEW T, IsFiniteSet(T), NEW F, NEW k \in Nat, NEW m \in Nat,
         \A c \in T : /\ IsFiniteSet(F[c])
                      /\ Cardinality(F[c]) * k <= m
  PROVE  /\ IsFiniteSet(UNION {F[c] : c \in T})
         /\ Cardinality(UNION {F[c] : c \in T}) * k <= m * Cardinality(T)
<1> DEFINE Of(U) == UNION {F[c] : c \in U}
           P == {U \in SUBSET T : /\ IsFiniteSet(Of(U))
                                  /\ Cardinality(Of(U)) * k <= m * Cardinality(U)}
<1>1. ASSUME NEW U \in SUBSET T, \A x \in U : U \ {x} \in P
      PROVE  U \in P
  <2>1. CASE U = {}
    <3>1. Of(U) = {}
      BY <2>1
    <3>2. /\ IsFiniteSet(Of(U)) /\ Cardinality(Of(U)) = 0 /\ Cardinality(U) = 0
      BY <2>1, <3>1, FS_EmptySet
    <3> HIDE DEF Of
    <3>3. Cardinality(Of(U)) * k <= m * Cardinality(U)
      BY <3>2
    <3> QED
      BY <3>2, <3>3
  <2>2. ASSUME NEW x \in U PROVE U \in P
    <3> DEFINE rest == Of(U \ {x})
    <3>1. IsFiniteSet(rest) /\ Cardinality(rest) * k <= m * Cardinality(U \ {x})
      BY <1>1, <2>2
    <3>2. /\ IsFiniteSet(U) /\ Cardinality(U) \in Nat
          /\ Cardinality(U \ {x}) = Cardinality(U) - 1
      BY <2>2, FS_Subset, FS_RemoveElement, FS_CardinalityType
    <3>3. IsFiniteSet(F[x]) /\ Cardinality(F[x]) * k <= m
      BY <2>2
    <3>4. Of(U) = F[x] \cup rest
      BY <2>2
    <3> HIDE DEF Of, rest
    <3>5. /\ IsFiniteSet(F[x] \cup rest)
          /\ Cardinality(F[x] \cup rest) =
               Cardinality(F[x]) + Cardinality(rest) - Cardinality(F[x] \cap rest)
      BY <3>1, <3>3, FS_Union
    <3>6. /\ Cardinality(F[x]) \in Nat /\ Cardinality(rest) \in Nat
          /\ Cardinality(F[x] \cap rest) \in Nat
          /\ Cardinality(F[x] \cup rest) \in Nat
      BY <3>1, <3>3, <3>5, FS_Intersection, FS_CardinalityType
    <3>7. Cardinality(F[x] \cup rest) <= Cardinality(F[x]) + Cardinality(rest)
      BY <3>5, <3>6
    <3>8. Cardinality(F[x] \cup rest) * k <= (Cardinality(F[x]) + Cardinality(rest)) * k
      BY <3>6, <3>7, TimesIsMonotone
    <3>9. (Cardinality(F[x]) + Cardinality(rest)) * k
            = Cardinality(F[x]) * k + Cardinality(rest) * k
      BY <3>6
    <3>10. m + m * (Cardinality(U) - 1) = m * Cardinality(U)
      BY <3>2
    <3>11. /\ Cardinality(F[x]) * k \in Nat /\ Cardinality(rest) * k \in Nat
           /\ Cardinality(F[x] \cup rest) * k \in Nat
           /\ m * (Cardinality(U) - 1) \in Int /\ m * Cardinality(U) \in Int
      BY <3>2, <3>6
    <3>12. Cardinality(rest) * k <= m * (Cardinality(U) - 1)
      BY <3>1, <3>2
    <3>13. Cardinality(F[x] \cup rest) * k <= m * Cardinality(U)
      BY <3>3, <3>8, <3>9, <3>10, <3>11, <3>12
    <3> QED
      BY <3>4, <3>5, <3>13
  <2> QED
    BY <2>1, <2>2
<1> HIDE DEF P
<1>2. SUBSET T \subseteq P
  BY <1>1, FiniteInduction
<1>3. T \in P
  BY <1>2
<1> QED
  BY <1>3 DEF P

(* Of the outcomes Chance, p-values of at most alpha / share are no more   *)
(* than that share.                                                        *)
Valid(Chance, p, alpha) ==
  \A share \in Nat :
    Cardinality({o \in Chance : AtMost(p[o], alpha, share)}) * (alpha[2] * share)
      <= alpha[1] * Cardinality(Chance)

(* The closed test holds its level: when the p-values of the true          *)
(* hypotheses are valid, however they depend on each other and whatever    *)
(* the others are, one of them is rejected in a share of at most alpha.    *)
THEOREM ClosedTestHoldsLevel ==
  ASSUME NEW Chance, IsFiniteSet(Chance), NEW S, IsFiniteSet(S),
         NEW alpha \in Fraction, NEW P, NEW T \in SUBSET S,
         \A c \in T : Valid(Chance, [o \in Chance |-> P[o][c]], alpha)
  PROVE  Cardinality({o \in Chance : \E c \in T : ClosedOf(P[o], S, alpha, c)})
           * alpha[2] <= alpha[1] * Cardinality(Chance)
<1> DEFINE wrong == {o \in Chance : \E c \in T : ClosedOf(P[o], S, alpha, c)}
           n == Cardinality(T)
           k == alpha[2] * n
           m == alpha[1] * Cardinality(Chance)
           F == [c \in T |-> {o \in Chance : AtMost(P[o][c], alpha, n)}]
           some == UNION {F[c] : c \in T}
<1>1. IsFiniteSet(T) /\ n \in Nat /\ Cardinality(Chance) \in Nat
  BY FS_Subset, FS_CardinalityType
<1>2. alpha[1] \in Nat /\ alpha[2] \in Nat \ {0}
  BY DEF Fraction
<1>3. k \in Nat /\ m \in Nat
  <2> HIDE DEF n
  <2> QED
    BY <1>1, <1>2
<1>4. \A c \in T : IsFiniteSet(F[c]) /\ Cardinality(F[c]) * k <= m
  <2> TAKE c \in T
  <2> DEFINE p == [o \in Chance |-> P[o][c]]
             small == {o \in Chance : AtMost(p[o], alpha, n)}
  <2>1. Valid(Chance, p, alpha)
    OBVIOUS
  <2>2. small = {o \in Chance : AtMost(P[o][c], alpha, n)}
    OBVIOUS
  <2>3. F[c] = small
    BY <2>2
  <2> HIDE DEF p
  <2>4. Cardinality(small) * k <= m
    BY <1>1, <2>1 DEF Valid
  <2>5. small \in SUBSET Chance
    OBVIOUS
  <2> HIDE DEF small, F
  <2>6. IsFiniteSet(small)
    BY <2>5, FS_Subset
  <2> QED
    BY <2>3, <2>4, <2>6
<1>5. wrong \in SUBSET some
  <2> SUFFICES ASSUME NEW o \in Chance, NEW c \in T, ClosedOf(P[o], S, alpha, c)
               PROVE  \E d \in T : o \in F[d]
    OBVIOUS
  <2>1. PICK d \in T : AtMost(P[o][d], alpha, n)
    BY DEF ClosedOf
  <2> QED
    BY <2>1
<1>6. wrong # {} => T # {}
  OBVIOUS
<1> HIDE DEF k, m, F
<1>7. IsFiniteSet(some) /\ Cardinality(some) * k <= m * n
  <2>1. IsFiniteSet(some) /\ Cardinality(some) * k <= m * Cardinality(T)
    BY <1>1, <1>3, <1>4, UnionBound
  <2> QED
    BY <2>1
<1>8. CASE wrong = {}
  <2>1. Cardinality(wrong) = 0
    BY <1>8, FS_EmptySet
  <2> HIDE DEF wrong
  <2>2. Cardinality(wrong) * alpha[2] <= m
    BY <1>2, <1>3, <2>1
  <2> QED
    BY <2>2 DEF wrong, m
<1>9. CASE wrong # {}
  <2>1. n # 0
    BY <1>1, <1>6, <1>9, FS_EmptySet
  <2> HIDE DEF wrong, some, n
  <2>2. /\ Cardinality(wrong) <= Cardinality(some)
        /\ Cardinality(wrong) \in Nat /\ Cardinality(some) \in Nat
    BY <1>5, <1>7, FS_Subset, FS_CardinalityType
  <2>3. Cardinality(wrong) * k <= Cardinality(some) * k
    BY <1>3, <2>2, TimesIsMonotone
  <2>4. Cardinality(wrong) * k = Cardinality(wrong) * alpha[2] * n
    BY <1>1, <1>2, <2>2 DEF k
  <2>5. /\ Cardinality(wrong) * k \in Int /\ Cardinality(some) * k \in Int
        /\ m * n \in Int
    BY <1>1, <1>3, <2>2
  <2>6. Cardinality(wrong) * alpha[2] * n <= m * n
    BY <1>7, <2>3, <2>4, <2>5
  <2>7. Cardinality(wrong) * alpha[2] \in Int /\ m \in Int /\ n \in Nat \ {0}
    BY <1>1, <1>2, <1>3, <2>1, <2>2
  <2>8. Cardinality(wrong) * alpha[2] <= m
    BY <2>6, <2>7, Cancel
  <2> QED
    BY <2>8 DEF wrong, m
<1> QED
  BY <1>8, <1>9

(* As many ways for the members of any set as for the numbers up to its    *)
(* size.                                                                   *)
LEMMA WaysOfAnySet ==
  ASSUME NEW D, IsFiniteSet(D), NEW Good
  PROVE  /\ Cardinality(D) \in Nat
         /\ IsFiniteSet(SUBSET D)
         /\ Cardinality(SUBSET D) = Cardinality(SUBSET (1 .. Cardinality(D)))
         /\ Cardinality({W \in SUBSET D : Cardinality(W) \in Good}) =
              Cardinality({S \in SUBSET (1 .. Cardinality(D)) : Cardinality(S) \in Good})
<1> DEFINE n == Cardinality(D)
           ways == SUBSET (1 .. n)
<1>1. n \in Nat
  BY FS_CardinalityType
<1>2. PICK b : b \in Bijection(1 .. n, D)
  <2>1. ExistsBijection(1 .. n, D)
    <3>1. IsFiniteSet(1 .. n) /\ Cardinality(1 .. n) = Cardinality(D)
      BY <1>1, WaysAreFinite
    <3> HIDE DEF n
    <3> QED
      BY <3>1, FS_SameCardinalityBij
  <2> QED
    BY <2>1 DEF ExistsBijection
<1>3. /\ b \in [1 .. n -> D]
      /\ \A i, j \in 1 .. n : b[i] = b[j] => i = j
      /\ \A p \in D : \E i \in 1 .. n : b[i] = p
  <2> DEFINE I == 1 .. n
  <2>1. b \in Bijection(I, D)
    BY <1>2
  <2> HIDE DEF I
  <2>2. /\ b \in [I -> D] /\ \A i, j \in I : b[i] = b[j] => i = j
        /\ \A p \in D : \E i \in I : b[i] = p
    BY <2>1, Fun_BijectionProperties
  <2> QED
    BY <2>2 DEF I
<1> DEFINE Of(S) == {b[i] : i \in S}
           f == [S \in ways |-> Of(S)]
<1>4. ASSUME NEW S \in ways
      PROVE  /\ Of(S) \in SUBSET D
             /\ IsFiniteSet(Of(S)) /\ Cardinality(Of(S)) = Cardinality(S)
  <2>1. Of(S) \in SUBSET D
    BY <1>3
  <2>2. IsFiniteSet(S)
    BY <1>1, WaysAreFinite
  <2> DEFINE g == [i \in S |-> b[i]]
  <2>3. /\ g \in [S -> Of(S)] /\ \A i, j \in S : g[i] = g[j] => i = j
        /\ \A p \in Of(S) : \E i \in S : g[i] = p
    BY <1>3
  <2> HIDE DEF g, Of
  <2>4. ExistsBijection(S, Of(S))
    BY <2>3, Fun_IsBij DEF ExistsBijection
  <2> QED
    BY <2>1, <2>2, <2>4, FS_Bijection
<1>5. f \in [ways -> SUBSET D]
  <2> HIDE DEF Of
  <2> QED
    BY <1>4
<1>6. \A S1, S2 \in ways : f[S1] = f[S2] => S1 = S2
  <2> SUFFICES ASSUME NEW S1 \in ways, NEW S2 \in ways, Of(S1) = Of(S2)
               PROVE  S1 = S2
    OBVIOUS
  <2>1. \A i \in 1 .. n : (i \in S1 <=> b[i] \in Of(S1)) /\ (i \in S2 <=> b[i] \in Of(S2))
    BY <1>3
  <2> HIDE DEF Of
  <2> QED
    BY <2>1
<1>7. \A W \in SUBSET D : \E S \in ways : f[S] = W
  <2> TAKE W \in SUBSET D
  <2> DEFINE S == {i \in 1 .. n : b[i] \in W}
  <2>1. S \in ways
    OBVIOUS
  <2>2. \A p \in W : \E i \in S : b[i] = p
    BY <1>3
  <2>3. Of(S) = W
    BY <2>2
  <2> HIDE DEF S, Of
  <2> QED
    BY <2>1, <2>3
<1>8. IsFiniteSet(ways)
  BY <1>1, WaysAreFinite
<1>9. ExistsBijection(ways, SUBSET D)
  <2> HIDE DEF f, ways
  <2> QED
    BY <1>5, <1>6, <1>7, Fun_IsBij DEF ExistsBijection
<1>10. IsFiniteSet(SUBSET D) /\ Cardinality(SUBSET D) = Cardinality(ways)
  <2> HIDE DEF ways
  <2> QED
    BY <1>8, <1>9, FS_Bijection
<1> DEFINE few == {S \in ways : Cardinality(S) \in Good}
           fewOf == {W \in SUBSET D : Cardinality(W) \in Good}
           h == [S \in few |-> Of(S)]
<1>11. /\ h \in [few -> fewOf] /\ \A S1, S2 \in few : h[S1] = h[S2] => S1 = S2
       /\ \A W \in fewOf : \E S \in few : h[S] = W
  <2>1. \A S \in ways : f[S] = Of(S)
    OBVIOUS
  <2> HIDE DEF Of, f
  <2>2. h \in [few -> fewOf]
    BY <1>4
  <2>3. \A S \in few : h[S] = f[S]
    BY <2>1
  <2>4. ASSUME NEW W \in fewOf
        PROVE  \E S \in few : h[S] = W
    <3>1. PICK S \in ways : f[S] = W
      BY <1>7
    <3>2. Cardinality(S) = Cardinality(W)
      BY <1>4, <2>1, <3>1
    <3>3. S \in few
      BY <3>2
    <3> QED
      BY <2>3, <3>1, <3>3
  <2> QED
    BY <1>6, <2>2, <2>3, <2>4
<1>12. IsFiniteSet(few)
  <2>1. few \in SUBSET ways
    OBVIOUS
  <2> HIDE DEF few, ways
  <2> QED
    BY <1>8, <2>1, FS_Subset
<1>13. Cardinality(fewOf) = Cardinality(few)
  <2> HIDE DEF few, fewOf, h
  <2>1. ExistsBijection(few, fewOf)
    BY <1>11, Fun_IsBij DEF ExistsBijection
  <2> QED
    BY <1>12, <2>1, FS_Bijection
<1> QED
  BY <1>1, <1>10, <1>13

(* When every value is taken equally often, a set of values is taken in    *)
(* proportion to its size.                                                 *)
LEMMA EquallyOften ==
  ASSUME NEW Chance, IsFiniteSet(Chance), NEW V, IsFiniteSet(V),
         NEW value \in [Chance -> V], NEW k \in Nat,
         \A v \in V : Cardinality({o \in Chance : value[o] = v}) = k,
         NEW A \in SUBSET V
  PROVE  Cardinality({o \in Chance : value[o] \in A}) = k * Cardinality(A)
<1> DEFINE F == [v \in A |-> {o \in Chance : value[o] = v}]
           some == {o \in Chance : value[o] \in A}
           f == [o \in some |-> <<value[o], o>>]
<1>1. \A v \in A : IsFiniteSet(F[v]) /\ Cardinality(F[v]) = k
  <2> TAKE v \in A
  <2>1. F[v] \in SUBSET Chance /\ F[v] = {o \in Chance : value[o] = v}
    OBVIOUS
  <2> HIDE DEF F
  <2>2. IsFiniteSet(F[v])
    BY <2>1, FS_Subset
  <2> QED
    BY <2>1, <2>2
<1>2. IsFiniteSet(A)
  BY FS_Subset
<1>3. f \in [some -> Pairs(A, F)]
  <2>1. \A o \in some : o \in F[value[o]] /\ value[o] \in A
    OBVIOUS
  <2>2. \A o \in some : <<value[o], o>> \in Pairs(A, F)
    BY <2>1 DEF Pairs
  <2> QED
    BY <2>2
<1>4. \A o1, o2 \in some : f[o1] = f[o2] => o1 = o2
  OBVIOUS
<1>5. ASSUME NEW u \in Pairs(A, F)
      PROVE  \E o \in some : f[o] = u
  <2>1. /\ u = <<u[1], u[2]>> /\ u[1] \in A /\ u[2] \in F[u[1]]
    BY DEF Pairs
  <2>2. u[2] \in some /\ value[u[2]] = u[1]
    BY <2>1
  <2> QED
    BY <2>1, <2>2
<1> HIDE DEF F, some, f
<1>6. IsFiniteSet(Pairs(A, F)) /\ Cardinality(Pairs(A, F)) = k * Cardinality(A)
  BY <1>1, <1>2, PairsCount
<1>7. IsFiniteSet(some)
  <2>1. some \in SUBSET Chance
    BY DEF some
  <2> QED
    BY <2>1, FS_Subset
<1>8. ExistsBijection(some, Pairs(A, F))
  BY <1>3, <1>4, <1>5, Fun_IsBij DEF ExistsBijection
<1>9. Cardinality(Pairs(A, F)) = Cardinality(some)
  BY <1>7, <1>8, FS_Bijection
<1> QED
  BY <1>6, <1>9 DEF some

(* A share that is held in each part is held in the whole.                 *)
LEMMA PartsAddUp ==
  ASSUME NEW Chance, IsFiniteSet(Chance), NEW T, IsFiniteSet(T),
         NEW part \in [Chance -> T], NEW small \in SUBSET Chance,
         NEW k \in Nat, NEW m \in Nat,
         \A t \in T : Cardinality({o \in small : part[o] = t}) * k
                        <= m * Cardinality({o \in Chance : part[o] = t})
  PROVE  Cardinality(small) * k <= m * Cardinality(Chance)
<1> DEFINE In(O, U) == {o \in O : part[o] \in U}
           P == {U \in SUBSET T : Cardinality(In(small, U)) * k
                                    <= m * Cardinality(In(Chance, U))}
<1>1. ASSUME NEW U \in SUBSET T, \A x \in U : U \ {x} \in P
      PROVE  U \in P
  <2>1. CASE U = {}
    <3>1. In(small, U) = {} /\ In(Chance, U) = {}
      BY <2>1
    <3>2. Cardinality(In(small, U)) = 0 /\ Cardinality(In(Chance, U)) = 0
      BY <3>1, FS_EmptySet
    <3> HIDE DEF In
    <3> QED
      BY <3>2
  <2>2. ASSUME NEW x \in U PROVE U \in P
    <3>1. \A O \in SUBSET Chance :
            /\ Cardinality(In(O, U)) =
                 Cardinality({o \in O : part[o] = x}) + Cardinality(In(O, U \ {x}))
            /\ Cardinality({o \in O : part[o] = x}) \in Nat
            /\ Cardinality(In(O, U \ {x})) \in Nat
      <4> TAKE O \in SUBSET Chance
      <4> DEFINE own == {o \in O : part[o] = x}
                 others == In(O, U \ {x})
      <4>1. In(O, U) = own \cup others /\ own \cap others = {}
        BY <2>2
      <4>2. own \in SUBSET Chance /\ others \in SUBSET Chance
        OBVIOUS
      <4> HIDE DEF own, others, In
      <4>3. IsFiniteSet(own) /\ IsFiniteSet(others)
        BY <4>2, FS_Subset
      <4>4. Cardinality(own) \in Nat /\ Cardinality(others) \in Nat
        BY <4>3, FS_CardinalityType
      <4>5. Cardinality(own \cup others) =
              Cardinality(own) + Cardinality(others) - Cardinality(own \cap others)
        BY <4>3, FS_Union
      <4>6. Cardinality(own \cap others) = 0
        BY <4>1, FS_EmptySet
      <4>7. Cardinality(In(O, U)) = Cardinality(own) + Cardinality(others)
        BY <4>1, <4>4, <4>5, <4>6
      <4> QED
        BY <4>4, <4>7 DEF own, others
    <3>2. Cardinality({o \in small : part[o] = x}) * k
            <= m * Cardinality({o \in Chance : part[o] = x})
      BY <2>2
    <3> DEFINE s1 == Cardinality({o \in small : part[o] = x})
               s2 == Cardinality(In(small, U \ {x}))
               c1 == Cardinality({o \in Chance : part[o] = x})
               c2 == Cardinality(In(Chance, U \ {x}))
    <3>3. s2 * k <= m * c2
      BY <1>1, <2>2
    <3>4. /\ Cardinality(In(small, U)) = s1 + s2
          /\ Cardinality(In(Chance, U)) = c1 + c2
          /\ s1 \in Nat /\ s2 \in Nat /\ c1 \in Nat /\ c2 \in Nat
      <4>1. Chance \in SUBSET Chance /\ small \in SUBSET Chance
        OBVIOUS
      <4> HIDE DEF In
      <4> QED
        BY <3>1, <4>1
    <3> HIDE DEF s1, s2, c1, c2, In
    <3>5. s1 * k <= m * c1
      BY <3>2 DEF s1, c1
    <3>6. (s1 + s2) * k = s1 * k + s2 * k /\ m * (c1 + c2) = m * c1 + m * c2
      BY <3>4
    <3>7. s1 * k \in Int /\ s2 * k \in Int /\ m * c1 \in Int /\ m * c2 \in Int
      BY <3>4
    <3>8. (s1 + s2) * k <= m * (c1 + c2)
      BY <3>3, <3>5, <3>6, <3>7
    <3> QED
      BY <3>4, <3>8
  <2> QED
    BY <2>1, <2>2
<1> HIDE DEF P
<1>2. SUBSET T \subseteq P
  BY <1>1, FiniteInduction
<1>3. T \in P
  BY <1>2
<1>4. In(small, T) = small /\ In(Chance, T) = Chance
  OBVIOUS
<1> HIDE DEF In
<1> QED
  BY <1>3, <1>4 DEF P

(* The problems on which the candidate and a control differ, and those of  *)
(* them the candidate solved.                                              *)
Apart(solved, c) ==
  {p \in Problem : ~ (<<p, Candidate>> \in solved <=> <<p, c>> \in solved)}

Ahead(solved, c) ==
  {p \in Problem : <<p, Candidate>> \in solved /\ <<p, c>> \notin solved}

(* The candidate is no different from c: of the cohorts in which the two   *)
(* differ on given problems, as many have any of these fall to the         *)
(* candidate as any other.                                                 *)
OnlyChance(Chance, cohort, c) ==
  \A D \in SUBSET Problem : \A W1, W2 \in SUBSET D :
    Cardinality({o \in Chance : /\ Apart(cohort[o], c) = D
                                /\ Ahead(cohort[o], c) = W1})
      = Cardinality({o \in Chance : /\ Apart(cohort[o], c) = D
                                    /\ Ahead(cohort[o], c) = W2})

(* The wins are the sizes of these sets.                                   *)
LEMMA WinsAreSizes ==
  ASSUME NEW solved, NEW c
  PROVE  /\ Apart(solved, c) \in SUBSET Problem
         /\ Ahead(solved, c) \in SUBSET Apart(solved, c)
         /\ IsFiniteSet(Apart(solved, c))
         /\ PValue(solved, c) =
              McNemar(Cardinality(Ahead(solved, c)),
                      Cardinality(Apart(solved, c)) - Cardinality(Ahead(solved, c)))
<1> DEFINE apart == Apart(solved, c)
           ahead == Ahead(solved, c)
<1>1. apart \in SUBSET Problem /\ ahead \in SUBSET apart
  BY DEF Apart, Ahead
<1>2. IsFiniteSet(apart) /\ IsFiniteSet(ahead)
  <2> HIDE DEF apart, ahead
  <2> QED
    BY <1>1, CohortIsFinite, FS_Subset
<1>3. Wins(solved, Candidate, c) = Cardinality(ahead)
  BY DEF Wins, Ahead
<1>4. Wins(solved, c, Candidate) = Cardinality(apart \ ahead)
  <2>1. apart \ ahead = {p \in Problem : <<p, c>> \in solved /\ <<p, Candidate>> \notin solved}
    BY DEF Apart, Ahead
  <2> QED
    BY <2>1 DEF Wins
<1>5. Cardinality(apart \ ahead) = Cardinality(apart) - Cardinality(ahead)
  <2>1. apart \cap ahead = ahead
    BY <1>1
  <2> HIDE DEF apart, ahead
  <2>2. Cardinality(apart \ ahead) = Cardinality(apart) - Cardinality(apart \cap ahead)
    BY <1>2, FS_Difference
  <2> QED
    BY <2>1, <2>2
<1> QED
  BY <1>1, <1>2, <1>3, <1>4, <1>5 DEF PValue

(* Then its p-value against c is valid.                                    *)
LEMMA ChanceIsValid ==
  ASSUME NEW Chance, IsFiniteSet(Chance), NEW cohort, NEW c, NEW alpha \in Fraction,
         OnlyChance(Chance, cohort, c)
  PROVE  Valid(Chance, [o \in Chance |-> PValue(cohort[o], c)], alpha)
<1> SUFFICES ASSUME NEW share \in Nat
             PROVE  Cardinality({o \in Chance : AtMost(PValue(cohort[o], c), alpha, share)})
                      * (alpha[2] * share) <= alpha[1] * Cardinality(Chance)
  BY DEF Valid
<1> DEFINE small == {o \in Chance : AtMost(PValue(cohort[o], c), alpha, share)}
           part == [o \in Chance |-> Apart(cohort[o], c)]
           k == alpha[2] * share
<1>1. alpha[1] \in Nat /\ alpha[2] \in Nat /\ k \in Nat
  BY DEF Fraction
<1>2. part \in [Chance -> SUBSET Problem]
  BY WinsAreSizes
<1>3. ASSUME NEW D \in SUBSET Problem
      PROVE  Cardinality({o \in small : part[o] = D}) * k
               <= alpha[1] * Cardinality({o \in Chance : part[o] = D})
  <2> DEFINE here == {o \in Chance : part[o] = D}
             n == Cardinality(D)
             value == [o \in here |-> Ahead(cohort[o], c)]
             each == Cardinality({o \in here : value[o] = {}})
             Good == {won \in Nat : AtMost(McNemar(won, n - won), alpha, share)}
             rare == {W \in SUBSET D : Cardinality(W) \in Good}
  <2>1. IsFiniteSet(D) /\ n \in Nat
    BY CohortIsFinite, FS_Subset, FS_CardinalityType
  <2>2. here \in SUBSET Chance
    OBVIOUS
  <2>3. IsFiniteSet(here)
    BY <2>2, FS_Subset
  <2>4. \A o \in here : Apart(cohort[o], c) = D
    OBVIOUS
  <2>5. value \in [here -> SUBSET D]
    BY <2>4, WinsAreSizes
  <2>6. \A W \in SUBSET D : Cardinality({o \in here : value[o] = W}) = each
    <3> TAKE W \in SUBSET D
    <3>1. \A V : {o \in here : value[o] = V} =
                   {o \in Chance : Apart(cohort[o], c) = D /\ Ahead(cohort[o], c) = V}
      OBVIOUS
    <3>2. {} \in SUBSET D
      OBVIOUS
    <3> HIDE DEF here, value
    <3> QED
      BY <3>1, <3>2 DEF OnlyChance
  <2>7. each \in Nat
    <3>1. {o \in here : value[o] = {}} \in SUBSET here
      OBVIOUS
    <3> HIDE DEF here, value
    <3> QED
      BY <2>3, <3>1, FS_Subset, FS_CardinalityType
  <2>8. /\ IsFiniteSet(SUBSET D)
        /\ Cardinality(SUBSET D) = Cardinality(SUBSET (1 .. n))
        /\ Cardinality(rare) =
             Cardinality({S \in SUBSET (1 .. n) : Cardinality(S) \in Good})
    <3> HIDE DEF Good
    <3> QED
      BY <2>1, WaysOfAnySet
  <2>9. {S \in SUBSET (1 .. n) : Cardinality(S) \in Good} = Rare(n, alpha, share)
    <3>1. \A S \in SUBSET (1 .. n) : Cardinality(S) \in Nat
      <4>1. \A S \in SUBSET (1 .. n) : Cardinality(S) \in 0 .. n
        BY <2>1, WaysAreFinite
      <4> HIDE DEF n
      <4> QED
        BY <2>1, <4>1
    <3> QED
      BY <3>1 DEF Rare
  <2>10. Cardinality(rare) * k <= alpha[1] * Cardinality(SUBSET D)
    <3> HIDE DEF rare, Good, n
    <3> QED
      BY <2>1, <2>8, <2>9, McNemarIsValid
  <2>11. {o \in small : part[o] = D} = {o \in here : value[o] \in rare}
    <3>1. ASSUME NEW o \in here
          PROVE  o \in small <=> value[o] \in rare
      <4>1. /\ Apart(cohort[o], c) = D /\ Ahead(cohort[o], c) \in SUBSET D
            /\ PValue(cohort[o], c) =
                 McNemar(Cardinality(Ahead(cohort[o], c)),
                         n - Cardinality(Ahead(cohort[o], c)))
        BY <2>4, <3>1, WinsAreSizes
      <4>2. Cardinality(Ahead(cohort[o], c)) \in Nat
        BY <2>1, <4>1, FS_Subset, FS_CardinalityType
      <4>3. o \in Chance /\ value[o] = Ahead(cohort[o], c)
        OBVIOUS
      <4>4. o \in small <=> AtMost(PValue(cohort[o], c), alpha, share)
        BY <4>3
      <4> HIDE DEF n, value, small
      <4> QED
        BY <4>1, <4>2, <4>3, <4>4
    <3>2. small \in SUBSET Chance
      OBVIOUS
    <3> HIDE DEF small, value, rare
    <3> QED
      BY <3>1, <3>2
  <2> HIDE DEF here, value, each, rare, small, k, part, Good
  <2>12. rare \in SUBSET (SUBSET D)
    BY DEF rare
  <2>a. ASSUME NEW A \in SUBSET (SUBSET D)
        PROVE  Cardinality({o \in here : value[o] \in A}) = each * Cardinality(A)
    <3> DEFINE V == SUBSET D
    <3>1. value \in [here -> V] /\ IsFiniteSet(V) /\ A \in SUBSET V
      BY <2>5, <2>8, <2>a
    <3>2. \A v \in V : Cardinality({o \in here : value[o] = v}) = each
      BY <2>6
    <3> HIDE DEF V
    <3> QED
      BY <2>3, <2>7, <3>1, <3>2, EquallyOften
  <2>13. Cardinality({o \in here : value[o] \in rare}) = each * Cardinality(rare)
    BY <2>12, <2>a
  <2>14. Cardinality({o \in here : value[o] \in SUBSET D}) = each * Cardinality(SUBSET D)
    BY <2>a
  <2>15. {o \in here : value[o] \in SUBSET D} = here
    BY <2>5
  <2>16. Cardinality(rare) \in Nat /\ Cardinality(SUBSET D) \in Nat
    BY <2>8, <2>12, FS_Subset, FS_CardinalityType
  <2>17. Cardinality({o \in small : part[o] = D}) = each * Cardinality(rare)
    BY <2>11, <2>13
  <2>18. Cardinality(here) = each * Cardinality(SUBSET D)
    BY <2>14, <2>15
  <2>19. (Cardinality(rare) * k) * each <= (alpha[1] * Cardinality(SUBSET D)) * each
    <3>1. Cardinality(rare) * k \in Nat /\ alpha[1] * Cardinality(SUBSET D) \in Nat
      BY <1>1, <2>16
    <3> QED
      BY <2>7, <2>10, <3>1, TimesIsMonotone
  <2>20. /\ each * Cardinality(rare) * k = (Cardinality(rare) * k) * each
         /\ alpha[1] * (each * Cardinality(SUBSET D))
              = (alpha[1] * Cardinality(SUBSET D)) * each
    BY <1>1, <2>7, <2>16
  <2>21. Cardinality({o \in small : part[o] = D}) * k <= alpha[1] * Cardinality(here)
    BY <2>17, <2>18, <2>19, <2>20
  <2> QED
    BY <2>21 DEF here
<1>4. IsFiniteSet(SUBSET Problem)
  BY CohortIsFinite, FS_SUBSET
<1>5. small \in SUBSET Chance
  OBVIOUS
<1> HIDE DEF small, part, k
<1>6. Cardinality(small) * k <= alpha[1] * Cardinality(Chance)
  <2> DEFINE T == SUBSET Problem
             m == alpha[1]
  <2>1. part \in [Chance -> T] /\ IsFiniteSet(T) /\ m \in Nat
    BY <1>1, <1>2, <1>4
  <2>2. \A t \in T : Cardinality({o \in small : part[o] = t}) * k
                       <= m * Cardinality({o \in Chance : part[o] = t})
    BY <1>3
  <2> HIDE DEF T, m
  <2>3. Cardinality(small) * k <= m * Cardinality(Chance)
    BY <1>1, <1>5, <2>1, <2>2, PartsAddUp
  <2> QED
    BY <2>3 DEF m
<1> QED
  BY <1>6 DEF small, k

(* The evaluator holds its familywise level.  Whichever controls the       *)
(* candidate is no different from, and however the contrasts depend on     *)
(* each other, it passes one of them in a share of at most Alpha of the    *)
(* cohorts.                                                                *)
THEOREM FamilywiseErrorIsHeld ==
  ASSUME NEW Chance, IsFiniteSet(Chance), NEW cohort, NEW T \in SUBSET Control,
         \A c \in T : OnlyChance(Chance, cohort, c)
  PROVE  Cardinality({o \in Chance : Passed(cohort[o]) \cap T # {}}) * Alpha[2]
           <= Alpha[1] * Cardinality(Chance)
<1> DEFINE P == [o \in Chance |-> PValues(cohort[o])]
           wrong == {o \in Chance : \E c \in T : ClosedOf(P[o], Control, Alpha, c)}
           err == {o \in Chance : Passed(cohort[o]) \cap T # {}}
<1>1. Alpha \in Fraction /\ IsFiniteSet(Control)
  BY AlphaAssumption, CohortIsFinite DEF Fraction
<1>2. \A c \in T : Valid(Chance, [o \in Chance |-> P[o][c]], Alpha)
  <2> TAKE c \in T
  <2>1. [o \in Chance |-> P[o][c]] = [o \in Chance |-> PValue(cohort[o], c)]
    BY DEF PValues
  <2>2. Valid(Chance, [o \in Chance |-> PValue(cohort[o], c)], Alpha)
    BY <1>1, ChanceIsValid
  <2> QED
    BY <2>1, <2>2
<1>3. err \in SUBSET wrong
  <2> SUFFICES ASSUME NEW o \in Chance, NEW c \in T, c \in Passed(cohort[o])
               PROVE  ClosedOf(P[o], Control, Alpha, c)
    OBVIOUS
  <2>1. Rejected(cohort[o], c)
    BY PassedIs
  <2> QED
    BY <2>1 DEF Rejected
<1>4. wrong \in SUBSET Chance
  OBVIOUS
<1> HIDE DEF P
<1>5. Cardinality(wrong) * Alpha[2] <= Alpha[1] * Cardinality(Chance)
  BY <1>1, <1>2, ClosedTestHoldsLevel
<1> HIDE DEF wrong, err
<1>6. /\ Cardinality(err) <= Cardinality(wrong)
      /\ Cardinality(err) \in Nat /\ Cardinality(wrong) \in Nat
      /\ Cardinality(Chance) \in Nat
  BY <1>3, <1>4, FS_Subset, FS_CardinalityType
<1>7. Alpha[1] \in Nat /\ Alpha[2] \in Nat
  BY <1>1 DEF Fraction
<1>8. Cardinality(err) * Alpha[2] <= Cardinality(wrong) * Alpha[2]
  BY <1>6, <1>7, TimesIsMonotone
<1>9. /\ Cardinality(err) * Alpha[2] \in Int /\ Cardinality(wrong) * Alpha[2] \in Int
      /\ Alpha[1] * Cardinality(Chance) \in Int
  BY <1>6, <1>7
<1>10. Cardinality(err) * Alpha[2] <= Alpha[1] * Cardinality(Chance)
  BY <1>5, <1>8, <1>9
<1> QED
  BY <1>10 DEF err

-----------------------------------------------------------------------------
(* What the decision says of the cohort.                                   *)

(* A cohort put to the test passed what the test passes, and a pass is one *)
(* against every control.                                                  *)
Tested ==
  /\ decision \in {"PASS", "FAIL"} => passed = Passed(Solved(snapshots))
  /\ decision = "PASS" => Passed(Solved(snapshots)) = Control

(* Only Decide writes the decision, from the records that were kept.       *)
LEMMA TestedHolds == Spec => []Tested
<1>1. Init => Tested
  BY DEF Init, Tested
<1>2. IInv /\ Tested /\ [Next]_vars => Tested'
  <2> SUFFICES ASSUME Undecided, Tested, [Next]_vars
               PROVE  Tested'
    BY DEF IInv
  <2>1. CASE Refuse
    BY <2>1 DEF Refuse, Tested
  <2>2. CASE Open \/ UNCHANGED vars
    BY <2>2 DEF Open, Tested, vars
  <2>3. CASE Examine
    BY <2>3 DEF Examine, Undecided, Tested
  <2>4. CASE Decide
    BY <2>4 DEF Decide, DecisionOf, Verdict, Tested
  <2> QED
    BY <2>1, <2>2, <2>3, <2>4 DEF Next
<1> QED
  BY <1>1, <1>2, Invariance, PTL DEF Spec

(* evaluate_confirmatory and evaluate_experiment pass the same contrasts   *)
(* of whatever cohort is put to the test.                                  *)
THEOREM EvaluatorsDoAgree == Spec => []EvaluatorsAgree
<1>1. Tested => EvaluatorsAgree
  BY EvaluatorsPassTheSame DEF Tested, EvaluatorsAgree
<1> QED
  BY <1>1, TestedHolds, PTL

(* What passes is what the closed test over counted p-values rejects in    *)
(* the candidate's favour: sorting, stepping down and running coefficients *)
(* change nothing.                                                         *)
THEOREM PassesAreClosed == Spec => []PassedIsClosedTest
<1>1. Tested => PassedIsClosedTest
  BY EvaluatorIsClosedTest DEF Tested, PassedIsClosedTest, ClosedPasses
<1> QED
  BY <1>1, TestedHolds, PTL

(* No pass is lost to a problem the candidate solves, or a control does    *)
(* not, although every p-value and the step-down's order may change.       *)
THEOREM PassesAreMonotone == Spec => []PassIsMonotone
<1>1. Tested => PassIsMonotone
  <2> SUFFICES ASSUME Tested, decision = "PASS", NEW p \in Problem
               PROVE  /\ Verdict(Solved(snapshots) \cup {<<p, Candidate>>}) = "PASS"
                      /\ \A c \in Control :
                           Verdict(Solved(snapshots) \ {<<p, c>>}) = "PASS"
    BY DEF PassIsMonotone
  <2>1. Passed(Solved(snapshots)) = Control
    BY DEF Tested
  <2>2. /\ Passed(Solved(snapshots) \cup {<<p, Candidate>>}) = Control
        /\ \A c \in Control : Passed(Solved(snapshots) \ {<<p, c>>}) = Control
    BY <2>1, OneMoreStillPasses
  <2> QED
    BY <2>2 DEF Verdict
<1> QED
  BY <1>1, TestedHolds, PTL
=============================================================================
