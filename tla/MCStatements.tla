---------------------------- MODULE MCStatements ----------------------------
(***************************************************************************)
(* A small instance of Statements for TLC.                                 *)
(***************************************************************************)
EXTENDS Statements, TLC

\* Files and contents are interchangeable.
Symmetry == Permutations(Files) \cup Permutations(Hashes)
=============================================================================
