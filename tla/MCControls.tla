------------------------------ MODULE MCControls ------------------------------
(* Small instances of Controls.                                            *)
EXTENDS Controls, TLC

CONSTANTS p1, t1, t2, t3

At(arm, n) == [problem |-> p1, arm |-> arm, attempt |-> n]
S(kind, text) == [kind |-> kind, text |-> text]

SomeSlots ==
  {At("PRODUCT_ONLY", 0), At("PRODUCT_ONLY", 1),
   At("PRODUCT_ONLY", 2), At("PORTFOLIO", 0)}

(* Two products and an answer; and what reads like a product in an arm that*)
(* asks for none.                                                          *)
SomeSaid ==
  {S("PRODUCT", t1), S("PRODUCT", t2), S("ANSWERED", t3),
   S("NO_ANSWER", t1), S("NO_ANSWER", t2)}

Symmetry == Permutations(Executor) \cup Permutations(Emission)
=============================================================================
