---------------------------- MODULE MCNamespace ----------------------------
(***************************************************************************)
(* A small instance of Namespace for TLC, with the names "a", "A" and      *)
(* "___": the first two differ only in case, and each "_" of the third     *)
(* matches any character, so that as a pattern it takes "a/A".             *)
(***************************************************************************)
EXTENDS Namespace

CONSTANTS small, capital, wild
Letters == {small, capital}
AllNames == Letters \cup {wild}
AnyCase == (Letters \X Letters) \cup {<<wild, wild>>}
SameName == {<<n, n>> : n \in AllNames}

\* The paths that "o" matches as a pattern, letter for letter.
AsLong(n) ==
    IF n = wild THEN {<<wild>>} \cup {<<l, m>> : l, m \in Letters}
    ELSE {<<m>> : m \in Letters}

Matched[o \in Paths] ==
    IF o = <<>> THEN {<<>>}
    ELSE {c \o e : c \in Matched[Front(o)], e \in AsLong(Last(o))}

LongerMatch ==
    {m \in Paths \X Paths :
        \E c \in Matched[m[1]] : Len(c) > Len(m[1]) /\ IsStrictPrefix(c, m[2])}

Spliced(o, n, q) ==
    LET c == CHOOSE c \in Matched[o] : IsPrefix(c, q)
    IN  n \o SubSeq(q, Len(c) + 1, Len(q))

\* "___" only at the root.
WildFirst == {p \in Paths : \A n \in DOMAIN p : n = 1 \/ p[n] \in Letters}

Symmetry == Permutations(Letters)
============================================================================
