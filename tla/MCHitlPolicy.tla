---------------------------- MODULE MCHitlPolicy ----------------------------
(* HitlPolicy with calls that TLC may exchange for one another. *)
EXTENDS HitlPolicy, TLC

Symmetry == Permutations(Call)
=============================================================================
