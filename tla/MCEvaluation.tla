----------------------------- MODULE MCEvaluation -----------------------------
EXTENDS Evaluation

CONSTANTS p1, p2, p3, p4, stranger, c1, c2, c3, v

Problems == <<p1, p2, p3, p4>>
Arms == <<c1, c2, c3, v>>

MCControls == <<c1, c2, c3>>
MCByName == <<c3, c1, c2>>
MCOrder ==
  [i \in 1 .. 16 |-> <<Problems[1 + ((i - 1) \div 4)], Arms[1 + ((i - 1) % 4)]>>]
MCAlpha == <<5, 8>>
MCDigest == 1 .. 32

(* The cohorts: which arms solve each problem, as the bits of a number.    *)
(* Problems that trade places make the same cohort.                        *)
Ascending[n \in 1 .. 4] ==
  IF n = 1 THEN {<<code>> : code \in 0 .. 15}
  ELSE UNION {{Append(q, code) : code \in q[n - 1] .. 15} :
              q \in Ascending[n - 1]}

Solves(q, i) == (q[1 + ((i - 1) \div 4)] \div 2^((i - 1) % 4)) % 2 = 1

(* The bundle of a flawless run of the cohort q.                           *)
Flawless(q) ==
  [records |->
     [i \in DOMAIN MCOrder |->
        [problem |-> MCOrder[i][1], arm |-> MCOrder[i][2], version |-> 1,
         statuses |-> IF Solves(q, i) THEN <<"FAILED", "SUCCEEDED">>
                      ELSE <<"FAILED">>,
         evidence |-> <<i, i + 16>>, bound |-> TRUE, cost |-> "within",
         trace |-> i]],
   credited |-> TRUE, rules |-> TRUE, signed |-> TRUE]

At(b, i, field, value) == [b EXCEPT !.records[i] = [@ EXCEPT ![field] = value]]

(* What may be wrong with a bundle at its i-th record.                     *)
Flaws(b, i) ==
  {At(b, i, "statuses", <<s, "FAILED">>) :
     s \in {"TIMEOUT", "MODEL_ERROR", "VERIFIER_ERROR"}}
  \cup {At(b, i, "bound", FALSE), At(b, i, "version", 2),
        At(b, i, "cost", "exceeds"), At(b, i, "cost", "few calls"),
        At(b, i, "trace", 1), At(b, i, "problem", stranger),
        At(b, i, "evidence", <<1, 2>>), At(b, i, "evidence", <<i, i>>),
        [b EXCEPT !.records[i] = b.records[i + 1],
                  !.records[i + 1] = b.records[i]],
        [b EXCEPT !.records = SubSeq(b.records, 1, i - 1)
                                \o SubSeq(b.records, i + 1, Len(b.records))],
        [b EXCEPT !.credited = FALSE], [b EXCEPT !.rules = FALSE],
        [b EXCEPT !.signed = FALSE]}

(* The candidate solves every problem and the controls none.              *)
Sweep == Flawless(<<8, 8, 8, 8>>)

MCBundle ==
  {Flawless(q) : q \in Ascending[4]}
  \cup UNION {UNION {{b} \cup Flaws(b, 4) : b \in Flaws(Sweep, i)} :
              i \in {5, 11}}
=============================================================================
