--------------------------- MODULE MCBlockTables ---------------------------
(***************************************************************************)
(* Small instances of BlockTables for TLC, and of the hash that its        *)
(* contents stand for: words of 2 bits, and of 3 bits in a single group.   *)
(***************************************************************************)
EXTENDS BlockTables, TLC

\* Below, at and above the one count that permits an overwrite in place.
CallerCounts == -1..2

Symmetry == Permutations(Keys) \cup Permutations(Hashes)

Hash2 == INSTANCE BlockHash WITH
    Width <- 2, Seed <- 3, C <- <<1, 3>>, Rotate <- <<1, 1, 1, 1>>,
    Add <- <<1, 1>>, Mix <- <<1, 3>>, Shift <- 1

Hash3 == INSTANCE BlockHash WITH
    Width <- 3, Seed <- 3, C <- <<5, 7>>, Rotate <- <<1, 2, 1, 1>>,
    Add <- <<1, 5>>, Mix <- <<5, 3>>, Shift <- 2

\* Blocks that differ in one group are told apart.
ASSUME BlocksToldApart == Hash2!OneGroupTells(2) /\ Hash3!OneGroupTells(1)
============================================================================
