---------------------------- MODULE MC_Consensus ----------------------------
(***************************************************************************)
(* Models of Consensus for TLC: a follower and four strings.               *)
(***************************************************************************)
EXTENDS Consensus, TLC

CONSTANTS f1, f2, d1, d2, d3, d4

FollowerSymmetry == Permutations({f1, f2})
=============================================================================
