-------------------------- MODULE MCTvCredentials --------------------------
(* TvCredentials on few keys.  Tokens are interchangeable, which lets TLC  *)
(* look only at the behaviours that draw them in increasing order; unlike  *)
(* a symmetry set, this is sound for liveness too.                         *)
EXTENDS TvCredentials, FiniteSets

DrawnInOrder == used = 1..Cardinality(used)
=============================================================================
