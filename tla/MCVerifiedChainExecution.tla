----------------------- MODULE MCVerifiedChainExecution -----------------------
(* Small instances of VerifiedChainExecution.                              *)
EXTENDS VerifiedChainExecution, TLC

CONSTANTS b1, b2

Out(k, r, b) == [kind |-> k, receipt |-> r, body |-> b]

(* A product, a refuted product and a solution.                            *)
SomeOutcomes ==
  {Out("PRODUCT", "PASS", b1), Out("PRODUCT", "FAIL", b1),
   Out("ANSWERED", "PASS", NoBody)}

Symmetry == Permutations(Executor)
=============================================================================
