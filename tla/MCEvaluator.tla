---------------------------- MODULE MCEvaluator ----------------------------
(***************************************************************************)
(* The instance of Evaluator.                                              *)
(***************************************************************************)
EXTENDS Evaluator

\* Two statements in a try block, so that one can fail after another has taken effect.
Blocks == [kind \in {"block", "while", "for", "try", "call"} |-> IF kind = "try" THEN 2 ELSE 1]
=============================================================================
