--------------------------- MODULE MCBlocksCache ---------------------------
(***************************************************************************)
(* Small instances of BlocksCache for TLC.                                 *)
(***************************************************************************)
EXTENDS BlocksCache, TLC

\* Files and handles are interchangeable; contents are not, as 0 is the fill.
Symmetry == Permutations(Files) \cup Permutations(Handles)
=============================================================================
