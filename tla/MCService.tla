------------------------------ MODULE MCService ------------------------------
(***************************************************************************)
(* A small instance of Service for TLC.                                    *)
(***************************************************************************)
EXTENDS Service, TLC

Symmetry == Permutations(Names) \cup Permutations(Handles) \cup Permutations(Workers)
=============================================================================
