---------------------------- MODULE MCTouchPath ----------------------------
(***************************************************************************)
(* TouchPath for TLC.  Fingers are interchangeable.                        *)
(***************************************************************************)
EXTENDS TouchPath, TLC

Symmetry == Permutations(Pointers)
=============================================================================
