---------------------------- MODULE MCUsageRollup ----------------------------
(***************************************************************************)
(* UsageRollup for TLC: two requests and one event of the backfill.        *)
(***************************************************************************)
EXTENDS UsageRollup, TLC

CONSTANTS e1, e2, l1

Symmetry == Permutations(Writers) \cup Permutations({e1, e2})
=============================================================================
