------------------------------ MODULE Statistics ------------------------------
(***************************************************************************)
(* statistics.py: the exact two-sided McNemar p-value and Holm's step-down *)
(* correction, next to a reference definition of each.  A probability is a *)
(* pair <<numerator, denominator>>: the code's floats are quotients of the *)
(* same integers, and no p-value lies within rounding of a threshold.      *)
(***************************************************************************)
EXTENDS Naturals, Sequences, FiniteSets, FiniteSetsExt

(* _binomial_half_lower_tail_numerator: the sum of C(trials, k) for k up   *)
(* to successes, each coefficient from the one before by a floor division. *)
LowerTail(trials, successes) ==
  LET Coefficient[k \in 0 .. successes] ==
        IF k = 0 THEN 1
        ELSE (Coefficient[k - 1] * (trials - (k - 1))) \div k
  IN MapThenSumSet(LAMBDA k : Coefficient[k], 0 .. successes)

(* mcnemar_exact_two_sided: the doubled smaller tail, capped at one.       *)
McNemar(candidateOnly, controlOnly) ==
  LET discordant == candidateOnly + controlOnly
      smaller == IF candidateOnly < controlOnly THEN candidateOnly
                 ELSE controlOnly
      numerator == 2 * LowerTail(discordant, smaller)
  IN IF discordant = 0 \/ numerator >= 2^discordant THEN <<1, 1>>
     ELSE <<numerator, 2^discordant>>

Less(p, q) == p[1] * q[2] < q[1] * p[2]

AtMost(p, alpha, share) == p[1] * alpha[2] * share <= alpha[1] * p[2]

(* How many p-values the stable sort places before the i-th.               *)
Rank(ps, i) ==
  Cardinality({j \in DOMAIN ps :
                 Less(ps[j], ps[i]) \/ (j < i /\ ~ Less(ps[i], ps[j]))})

(* Mutant: each p-value is held to its own threshold only.                 *)
RejectsAlone(ps, alpha, i) == AtMost(ps[i], alpha, Len(ps) - Rank(ps, i))

(* holm_step_down: rejection stops for good at the first p-value above its *)
(* threshold alpha / (total - rank).                                       *)
HolmRejects(ps, alpha, i) ==
  \A j \in DOMAIN ps :
    Rank(ps, j) <= Rank(ps, i) =>
      AtMost(ps[j], alpha, Len(ps) - Rank(ps, j))

-----------------------------------------------------------------------------
(* References.                                                             *)

(* The two-sided p-value by counting: of all ways the discordant problems  *)
(* can fall to either arm, those at least as uneven as the observed one.   *)
CountedP(candidateOnly, controlOnly) ==
  LET Discordant == 1 .. (candidateOnly + controlOnly)
      Uneven(won) == won >= candidateOnly /\ won >= controlOnly
      Extreme == {S \in SUBSET Discordant :
                    Uneven(Cardinality(S)) \/ Uneven(Cardinality(Discordant \ S))}
  IN <<Cardinality(Extreme), Cardinality(SUBSET Discordant)>>

(* The closed Bonferroni test, which controls the familywise error: every  *)
(* intersection of hypotheses that holds i has a p-value small enough.     *)
ClosedRejects(ps, alpha, i) ==
  \A I \in SUBSET DOMAIN ps :
    i \in I => \E j \in I : AtMost(ps[j], alpha, Cardinality(I))
=============================================================================
