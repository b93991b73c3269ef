---------------------------- MODULE MCRuntimeCheck ----------------------------
(* The check of a benchmark of two files, with a verifier that has two     *)
(* descendants.                                                            *)
EXTENDS RuntimeCheck

CONSTANTS validation, test, c1, c2

LockedFiles == [f \in {validation, test} |-> c1]
=============================================================================
