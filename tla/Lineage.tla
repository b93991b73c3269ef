-------------------------------- MODULE Lineage --------------------------------
(***************************************************************************)
(* What a verified chain promises: one line of accepted products, each     *)
(* with an id of its own and grown from the one before it, that only ever  *)
(* gets longer and ends for good with its final output.  The place of a    *)
(* product in the line is its step.                                        *)
(***************************************************************************)
EXTENDS Naturals

CONSTANTS
  Id,        \* product ids
  Content,   \* canonical product values
  Accepted,  \* the values the verifier passes
  None       \* the parent of the first product

VARIABLES
  line,      \* the accepted products
  tip,       \* the last of them
  ended      \* the tip is the final output

vars == <<line, tip, ended>>

Init == line = {} /\ tip = None /\ ended = FALSE

Successor(i, v) ==
  [id |-> i, content |-> v,
   step |-> IF tip = None THEN 0 ELSE tip.step + 1,
   parent |-> IF tip = None THEN None ELSE tip.id]

Extend(i, v, last) ==
  /\ ~ended
  /\ \A q \in line : q.id # i
  /\ v \in Accepted
  /\ line' = line \cup {Successor(i, v)}
  /\ tip' = Successor(i, v)
  /\ ended' = last

Next == \E i \in Id, v \in Content, last \in BOOLEAN : Extend(i, v, last)

Spec == Init /\ [][Next]_vars
=============================================================================
