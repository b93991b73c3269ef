------------------------------ MODULE MCDispatch ------------------------------
(* Small instances of Dispatch for TLC.                                    *)
EXTENDS Dispatch

CONSTANTS r1, r2, r3, k1, k2

(* r1 and r2 are two requests for one logical key. *)
TwoKeys == [r \in Request |-> IF r = r3 THEN k2 ELSE k1]

Solved    == [attempt |-> "ANSWERED", receipt |-> "PASS"]
NotSolved == [attempt |-> "NO_ANSWER", receipt |-> "none"]

TwoOutcomes == {Solved, NotSolved}

Symmetry == Permutations(Process) \cup Permutations(Signer)
=============================================================================
