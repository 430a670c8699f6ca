------------------------------ MODULE BlockHash ------------------------------
(***************************************************************************)
(* MurmurHash3_x64_128, by which blocks are told apart, on words of Width  *)
(* bits instead of 64: its constants, which are odd where they multiply,   *)
(* and its rotations and shifts are parameters.                            *)
(*                                                                         *)
(* A block is a sequence of groups of two words.  Its length is a power of *)
(* two and more than 16, so that the groups leave no tail.                 *)
(***************************************************************************)
EXTENDS Integers, SequencesExt, Bitwise

CONSTANTS
    Width,
    Seed,
    C,           \* c1 and c2
    Rotate,      \* the rotations by 31, 33, 27 and 31
    Add,         \* what is added to h1 and to h2 with each group
    Mix,         \* the multipliers of fmix64
    Shift        \* its shift

Words == 0..2^Width - 1
Groups == Words \X Words

Plus(x, y) == (x + y) % 2^Width
Times(x, y) == (x * y) % 2^Width
Rotl(x, r) == ((x * 2^r) % 2^Width) + (x \div 2^(Width - r))

\* What goes into h of k, multiplied by c and d.
Stirred(k, c, r, d) == Times(Rotl(Times(k, c), r), d)

\* h after k, with the other half g.
Mixed(h, k, r, g, a) == Plus(Times(Plus(Rotl(h ^^ k, r), g), 5), a)

\* The loop's body; h2 takes in the new h1.
Body(h, group) ==
    LET h1 == Mixed(h[1], Stirred(group[1], C[1], Rotate[1], C[2]), Rotate[3], h[2], Add[1])
        h2 == Mixed(h[2], Stirred(group[2], C[2], Rotate[2], C[1]), Rotate[4], h1, Add[2])
    IN  <<h1, h2>>

Shifted(k) == k ^^ (k \div 2^Shift)
Fmix(k) == Shifted(Times(Shifted(Times(Shifted(k), Mix[1])), Mix[2]))

\* h1 += h2; h2 += h1
Crossed(h) == <<Plus(h[1], h[2]), Plus(h[2], Plus(h[1], h[2]))>>

Finished(h, len) ==
    LET x == Crossed(<<h[1] ^^ (len % 2^Width), h[2] ^^ (len % 2^Width)>>)
    IN  Crossed(<<Fmix(x[1]), Fmix(x[2])>>)

\* A block of 2 * Width bits for each of its groups.
Hash(block) ==
    Finished(FoldLeft(Body, <<Seed % 2^Width, Seed % 2^Width>>, block),
             Len(block) * (2 * Width))

----------------------------------------------------------------------------
(* Property *)

\* Blocks of n groups that differ in one of them, in whatever they have there,
\* have different hashes: each group is taken in by a permutation of (h1, h2), is
\* itself permuted before, and the end permutes once more.
OneGroupTells(n) ==
    \A block \in [1..n -> Groups], i \in 1..n :
        Cardinality({Hash([block EXCEPT ![i] = g]) : g \in Groups}) = Cardinality(Groups)
=============================================================================
