-------------------------- MODULE MCArticleIntake --------------------------
(* Instances of ArticleIntake for TLC.  Workers and acquisitions are alike; *)
(* two ids let a url be recorded again after its row was removed, and one  *)
(* message of each of two rows fills a batch.                              *)
EXTENDS ArticleIntake, TLC

CONSTANTS a1, a2, w1, w2

Symmetry == Permutations({a1, a2}) \cup Permutations({w1, w2})
=============================================================================
