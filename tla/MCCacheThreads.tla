--------------------------- MODULE MCCacheThreads ---------------------------
(***************************************************************************)
(* A small instance of CacheThreads for TLC.                               *)
(***************************************************************************)
EXTENDS CacheThreads, TLC

\* Threads, files and contents are interchangeable.
Symmetry == Permutations(Threads) \cup Permutations(Files) \cup Permutations(Hashes)
=============================================================================
