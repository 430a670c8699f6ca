------------------------- MODULE BlockTablesProofs -------------------------
(***************************************************************************)
(* Theorems about BlockTables, for every set of file blocks, every set of  *)
(* hashes, every bound and every count a caller may pass.                  *)
(*                                                                         *)
(* Most statements rewrite use counts only; SameHashes names what they     *)
(* preserve, and the invariants follow from it wherever no row changes its *)
(* hash.                                                                   *)
(***************************************************************************)
EXTENDS BlockTables, TLAPS

\* The two tables have the same rows but for their use counts.
SameHashes(rs, rt) ==
    /\ DOMAIN rt = DOMAIN rs
    /\ \A i \in DOMAIN rs : rt[i].hash = rs[i].hash

\* A storage block number, or none, as callers pass it.
Blocks == Nat \cup {Null}

\* Setting a use count changes no hash.
LEMMA SetUseFacts ==
    ASSUME NEW rs \in Seq(Row), NEW s, NEW c \in Int
    PROVE  SetUse(rs, s, c) \in Seq(Row) /\ SameHashes(rs, SetUse(rs, s, c))
<1>1. CASE s \in DOMAIN rs
  <2>1. SetUse(rs, s, c) = [rs EXCEPT ![s] = [rs[s] EXCEPT !.use = c]]
    BY <1>1 DEF SetUse
  <2>2. rs[s] \in Row
    BY <1>1
  <2>3. [rs[s] EXCEPT !.use = c] \in Row /\ [rs[s] EXCEPT !.use = c].hash = rs[s].hash
    BY <2>2 DEF Row
  <2> QED BY <1>1, <2>1, <2>3 DEF SameHashes
<1>2. CASE s \notin DOMAIN rs
  BY <1>2 DEF SetUse, SameHashes
<1> QED BY <1>1, <1>2

\* Taking one use from every row of a hash changes no hash.
LEMMA DecreaseUseFacts ==
    ASSUME NEW rs \in Seq(Row), NEW x
    PROVE  DecreaseUse(rs, x) \in Seq(Row) /\ SameHashes(rs, DecreaseUse(rs, x))
<1> DEFINE Less(i) == [rs[i] EXCEPT !.use = @ - 1]
<1>1. ASSUME NEW i \in DOMAIN rs
      PROVE  rs[i] \in Row /\ Less(i) \in Row /\ Less(i).hash = rs[i].hash
  <2>1. rs[i] \in Row
    OBVIOUS
  <2> QED BY <2>1 DEF Row
<1>2. \A i \in DOMAIN rs : DecreaseUse(rs, x)[i] = IF rs[i].hash = x THEN Less(i) ELSE rs[i]
  BY DEF DecreaseUse
<1>3. DOMAIN DecreaseUse(rs, x) = 1..Len(rs) /\ DOMAIN rs = 1..Len(rs)
  BY DEF DecreaseUse
<1>4. DecreaseUse(rs, x) = [i \in 1..Len(rs) |-> DecreaseUse(rs, x)[i]]
  BY <1>3 DEF DecreaseUse
<1>5. SameHashes(rs, DecreaseUse(rs, x))
  BY <1>1, <1>2, <1>3 DEF SameHashes
<1>6. \A i \in 1..Len(rs) : DecreaseUse(rs, x)[i] \in Row
  BY <1>1, <1>2, <1>3
<1>7. DecreaseUse(rs, x) \in [1..Len(rs) -> Row]
  BY <1>4, <1>6
<1>8. Len(rs) \in Nat
  OBVIOUS
<1> QED BY <1>5, <1>7, <1>8

\* The rows after ReplacePresent: no hash moves.
LEMMA ReplacePresentRows ==
    ASSUME TypeOK, NEW k \in Keys, NEW x \in Hashes, NEW s, NEW c \in Int,
           ReplacePresent(k, x, s, c)
    PROVE  rows' \in Seq(Row) /\ SameHashes(rows, rows')
<1> DEFINE up == [rows EXCEPT ![IdOf(x)].use = @ + 1]
<1>1. IdOf(x) \in DOMAIN rows /\ rows[IdOf(x)].hash = x
  BY DEF ReplacePresent, Present, IdOf
<1>2. rows \in Seq(Row) /\ rows[IdOf(x)] \in Row
  BY <1>1 DEF TypeOK
<1>3. up = SetUse(rows, IdOf(x), rows[IdOf(x)].use + 1)
  BY <1>1 DEF SetUse
<1>4. up \in Seq(Row) /\ SameHashes(rows, up)
  <2>1. rows[IdOf(x)].use + 1 \in Int
    BY <1>2 DEF Row
  <2> HIDE DEF up
  <2> QED BY <1>2, <1>3, <2>1, SetUseFacts
<1>5. rows' \in Seq(Row) /\ SameHashes(up, rows')
  <2>1. rows' = SetUse(up, s, c - 1)
    BY DEF ReplacePresent
  <2>2. c - 1 \in Int
    OBVIOUS
  <2> HIDE DEF up
  <2> QED BY <1>4, <2>1, <2>2, SetUseFacts
<1> HIDE DEF up
<1> QED BY <1>4, <1>5 DEF SameHashes

\* The rows after ReplaceInPlace: s has the new hash, no other row changes.
LEMMA ReplaceInPlaceRows ==
    ASSUME TypeOK, NEW k \in Keys, NEW x \in Hashes, NEW s, NEW c \in Int,
           ReplaceInPlace(k, x, s, c)
    PROVE  /\ rows' \in Seq(Row)
           /\ DOMAIN rows' = DOMAIN rows
           /\ \A i \in DOMAIN rows :
                 rows'[i].hash = IF i = s THEN x ELSE rows[i].hash
<1> DEFINE new == SetHash(rows, s, x)
<1>1. rows \in Seq(Row)
  BY DEF TypeOK
<1>2. new \in Seq(Row) /\ DOMAIN new = DOMAIN rows
      /\ \A i \in DOMAIN rows : new[i].hash = IF i = s THEN x ELSE rows[i].hash
  <2>1. CASE s \in DOMAIN rows
    <3>1. new = [rows EXCEPT ![s] = [rows[s] EXCEPT !.hash = x]]
      BY <2>1 DEF SetHash
    <3>2. rows[s] \in Row
      BY <1>1, <2>1
    <3>3. [rows[s] EXCEPT !.hash = x] \in Row /\ [rows[s] EXCEPT !.hash = x].hash = x
      BY <3>2 DEF Row
    <3> QED BY <1>1, <2>1, <3>1, <3>3
  <2>2. CASE s \notin DOMAIN rows
    BY <1>1, <2>2 DEF SetHash
  <2> QED BY <2>1, <2>2
<1>3. rows' = SetUse(new, s, c)
  BY DEF ReplaceInPlace
<1> HIDE DEF new
<1>4. rows' \in Seq(Row) /\ SameHashes(new, rows')
  BY <1>2, <1>3, SetUseFacts
<1> QED BY <1>2, <1>4 DEF SameHashes

\* The rows after ReplaceInsert: one more row, with the new hash.
LEMMA ReplaceInsertRows ==
    ASSUME TypeOK, NEW k \in Keys, NEW x \in Hashes, NEW s, NEW c \in Int,
           ReplaceInsert(k, x, s, c)
    PROVE  /\ rows' \in Seq(Row)
           /\ DOMAIN rows' = DOMAIN rows \cup {Len(rows) + 1}
           /\ rows'[Len(rows) + 1].hash = x
           /\ \A i \in DOMAIN rows : rows'[i].hash = rows[i].hash
<1> DEFINE old == SetUse(rows, s, c - 1)
           row == [hash |-> x, use |-> 1]
<1>1. rows \in Seq(Row) /\ c - 1 \in Int
  BY DEF TypeOK
<1>2. old \in Seq(Row) /\ SameHashes(rows, old)
  BY <1>1, SetUseFacts
<1>3. row \in Row /\ row.hash = x
  BY DEF Row
<1>4. rows' = Append(old, row)
  BY DEF ReplaceInsert
<1> HIDE DEF old, row
<1>5. Len(old) = Len(rows) /\ Len(old) \in Nat /\ DOMAIN rows = 1..Len(rows)
  BY <1>1, <1>2 DEF SameHashes
<1>6. /\ rows' \in Seq(Row)
      /\ DOMAIN rows' = 1..(Len(old) + 1)
      /\ rows'[Len(old) + 1] = row
      /\ \A i \in 1..Len(old) : rows'[i] = old[i]
  BY <1>2, <1>3, <1>4
<1> QED BY <1>2, <1>3, <1>5, <1>6 DEF SameHashes
----------------------------------------------------------------------------

\* Every step of either next-state relation is a Replace or a Release, with
\* the caller's storage block and count as CallerHolds says.
LEMMA StepCases ==
    ASSUME Next \/ HonestNext
    PROVE  \/ \E k \in Keys, x \in Hashes, c \in Int, s \in Blocks :
                 CallerHolds(s, c) /\ Replace(k, x, s, c)
           \/ \E k \in Keys, x \in Hashes \cup {EmptyBlob} : Release(k, x)
  BY TablesAssumption
     DEF Next, HonestNext, Replace, HonestReplace, Blocks

\* TypeOK is preserved by every transaction.
LEMMA TypeOKStep ==
    ASSUME TypeOK, Next \/ HonestNext
    PROVE  TypeOK'
<1>1. ASSUME NEW k \in Keys, NEW x \in Hashes, NEW c \in Int, NEW s \in Blocks,
             Replace(k, x, s, c)
      PROVE  TypeOK'
  <2>1. rows' \in Seq(Row)
    BY <1>1, ReplacePresentRows, ReplaceInPlaceRows, ReplaceInsertRows DEF Replace
  <2>2. fileBlocks' = [fileBlocks EXCEPT ![k] = x]
    BY <1>1 DEF Replace, ReplacePresent, ReplaceInPlace, ReplaceInsert
  <2> QED BY <2>1, <2>2 DEF TypeOK
<1>2. ASSUME NEW k \in Keys, NEW x, Release(k, x)
      PROVE  TypeOK'
  BY <1>2, DecreaseUseFacts DEF Release, TypeOK
<1> QED BY <1>1, <1>2, StepCases

\* Rows that keep their hashes keep them distinct.
LEMMA SameHashesUnique ==
    ASSUME UniqueHash, SameHashes(rows, rows')
    PROVE  UniqueHash'
  BY DEF UniqueHash, SameHashes

\* UniqueHash is preserved by every transaction: where a hash enters the
\* table, the same transaction has just found it absent.
LEMMA UniqueHashStep ==
    ASSUME TypeOK, UniqueHash, Next \/ HonestNext
    PROVE  UniqueHash'
<1>1. ASSUME NEW k \in Keys, NEW x \in Hashes, NEW c \in Int, NEW s \in Blocks,
             Replace(k, x, s, c)
      PROVE  UniqueHash'
  <2>1. CASE ReplacePresent(k, x, s, c)
    BY <2>1, ReplacePresentRows, SameHashesUnique
  <2>2. CASE ReplaceInPlace(k, x, s, c)
    <3>1. \A i \in DOMAIN rows : rows[i].hash # x
      BY <2>2 DEF ReplaceInPlace, Present
    <3> QED BY <2>2, <3>1, ReplaceInPlaceRows DEF UniqueHash
  <2>3. CASE ReplaceInsert(k, x, s, c)
    <3>1. \A i \in DOMAIN rows : rows[i].hash # x
      BY <2>3 DEF ReplaceInsert, Present
    <3> QED BY <2>3, <3>1, ReplaceInsertRows DEF UniqueHash
  <2> QED BY <1>1, <2>1, <2>2, <2>3 DEF Replace
<1>2. ASSUME NEW k \in Keys, NEW x, Release(k, x)
      PROVE  UniqueHash'
  BY <1>2, DecreaseUseFacts, SameHashesUnique DEF Release, TypeOK
<1> QED BY <1>1, <1>2, StepCases

\* The tables keep their shape whatever counts the callers pass.
THEOREM TablesTyped == Spec => []TypeOK
<1>1. Init => TypeOK
  BY TablesAssumption DEF Init, TypeOK
<1>2. TypeOK /\ [Next]_tvars => TypeOK'
  <2>1. CASE Next
    BY <2>1, TypeOKStep
  <2>2. CASE UNCHANGED tvars
    BY <2>2 DEF tvars, TypeOK
  <2> QED BY <2>1, <2>2
<1> QED BY <1>1, <1>2, PTL DEF Spec

\* Deduplication never splits: no two storage blocks carry one hash, for any
\* number of files, blocks and contents and whatever counts the callers pass.
THEOREM NoTwoBlocksOfOneHash == Spec => []UniqueHash
<1>1. Init => UniqueHash
  BY DEF Init, UniqueHash
<1>2. TypeOK /\ UniqueHash /\ [Next]_tvars => UniqueHash'
  <2>1. CASE Next
    BY <2>1, UniqueHashStep
  <2>2. CASE UNCHANGED tvars
    BY <2>2 DEF tvars, UniqueHash
  <2> QED BY <2>1, <2>2
<1> QED BY <1>1, <1>2, TablesTyped, PTL DEF Spec

\* A transaction leaves a row with the hash it gives a file block, whatever counts
\* the caller passed: also where the row that had it is overwritten in place, or
\* the block left behind is the block come to.
THEOREM TransactionsResolve == Spec => CommittedResolves
<1> DEFINE Resolved == \A k \in Keys :
                          fileBlocks'[k] # fileBlocks[k] /\ fileBlocks'[k] # Null
                             => \E i \in DOMAIN rows' : rows'[i].hash = fileBlocks'[k]
<1>1. TypeOK /\ [Next]_tvars => Resolved \/ UNCHANGED tvars
  <2> SUFFICES ASSUME TypeOK, Next PROVE Resolved
    OBVIOUS
  <2>1. ASSUME NEW k \in Keys, NEW x \in Hashes, NEW c \in Int, NEW s \in Blocks,
               CallerHolds(s, c), Replace(k, x, s, c)
        PROVE  Resolved
    <3>1. \E i \in DOMAIN rows' : rows'[i].hash = x
      <4>1. CASE ReplacePresent(k, x, s, c)
        <5>1. \E i \in DOMAIN rows : rows[i].hash = x
          BY <4>1 DEF ReplacePresent, Present
        <5> QED BY <4>1, <5>1, ReplacePresentRows DEF SameHashes
      <4>2. CASE ReplaceInPlace(k, x, s, c)
        <5>1. s \in DOMAIN rows
          BY <2>1, <4>2 DEF ReplaceInPlace, InPlaceAllowed, CallerHolds, TypeOK
        <5> QED BY <4>2, <5>1, ReplaceInPlaceRows
      <4>3. CASE ReplaceInsert(k, x, s, c)
        BY <4>3, ReplaceInsertRows
      <4> QED BY <2>1, <4>1, <4>2, <4>3 DEF Replace
    <3>2. fileBlocks' = [fileBlocks EXCEPT ![k] = x]
      BY <2>1 DEF Replace, ReplacePresent, ReplaceInPlace, ReplaceInsert
    <3> QED BY <3>1, <3>2 DEF TypeOK
  <2>2. ASSUME NEW k \in Keys, NEW x, Release(k, x)
        PROVE  Resolved
    BY <2>2 DEF Release, TypeOK
  <2> QED BY <2>1, <2>2, StepCases
<1> QED BY <1>1, TablesTyped, PTL DEF Spec, CommittedResolves
----------------------------------------------------------------------------

\* A transaction of an honest caller leaves no reference without its row.
LEMMA NoDanglingStep ==
    ASSUME TypeOK, NoDangling, HonestNext
    PROVE  NoDangling'
<1>1. ASSUME NEW k \in Keys, NEW x \in Hashes, NEW c \in Int, NEW s \in Blocks,
             CallerHolds(s, c), HonestReplace(k, x, s, c)
      PROVE  NoDangling'
  <2>1. CASE ReplacePresent(k, x, s, c)
    <3>1. SameHashes(rows, rows')
      BY <2>1, ReplacePresentRows
    <3>2. Present(x) /\ fileBlocks' = [fileBlocks EXCEPT ![k] = x]
      BY <2>1 DEF ReplacePresent
    <3> QED BY <3>1, <3>2 DEF NoDangling, Present, SameHashes, TypeOK
  <2>2. CASE SoleUser(k, s) /\ ReplaceInPlace(k, x, s, c)
    <3>1. s \in DOMAIN rows
      BY <1>1, <2>2 DEF ReplaceInPlace, InPlaceAllowed, CallerHolds, TypeOK
    <3>2. /\ DOMAIN rows' = DOMAIN rows
          /\ \A i \in DOMAIN rows : rows'[i].hash = IF i = s THEN x ELSE rows[i].hash
      BY <2>2, ReplaceInPlaceRows
    <3>3. fileBlocks' = [fileBlocks EXCEPT ![k] = x]
      BY <2>2 DEF ReplaceInPlace
    <3>4. ASSUME NEW k2 \in Keys, k2 # k, fileBlocks[k2] # Null
          PROVE  \E i \in DOMAIN rows : i # s /\ rows[i].hash = fileBlocks[k2]
      BY <2>2, <3>1, <3>4 DEF SoleUser, NoDangling, Present
    <3> QED BY <3>1, <3>2, <3>3, <3>4 DEF NoDangling, Present, TypeOK
  <2>3. CASE ReplaceInsert(k, x, s, c)
    <3>1. fileBlocks' = [fileBlocks EXCEPT ![k] = x]
      BY <2>3 DEF ReplaceInsert
    <3> QED BY <2>3, <3>1, ReplaceInsertRows DEF NoDangling, Present, TypeOK
  <2> QED BY <1>1, <2>1, <2>2, <2>3 DEF HonestReplace
<1>2. ASSUME NEW k \in Keys, NEW x, Release(k, x)
      PROVE  NoDangling'
  <2>1. SameHashes(rows, rows')
    BY <1>2, DecreaseUseFacts DEF Release, TypeOK
  <2>2. fileBlocks' = [fileBlocks EXCEPT ![k] = Null]
    BY <1>2 DEF Release
  <2> QED BY <2>1, <2>2 DEF NoDangling, Present, SameHashes, TypeOK
<1> QED BY <1>1, <1>2, TablesAssumption DEF HonestNext, Blocks

\* A reference comes to dangle by a caller that overwrites in place what another
\* file block uses, and by no other: the one condition the use counts exist to
\* guarantee is sufficient, in whatever state the callers before left the tables.
THEOREM SpecNeverDangles == Spec => NeverDangles
<1>1. TypeOK /\ [Next]_tvars => (NoDangling => NoDangling' \/ ~HonestNext) \/ UNCHANGED tvars
  BY NoDanglingStep
<1> QED BY <1>1, TablesTyped, PTL DEF Spec, NeverDangles

\* So where no caller does, every written file block finds its storage block.
THEOREM HonestCallersNeverDangle == HonestSpec => []NoDangling
<1>1. Init => TypeOK /\ NoDangling
  BY TablesAssumption DEF Init, TypeOK, NoDangling
<1>2. TypeOK /\ NoDangling /\ [HonestNext]_tvars => TypeOK' /\ NoDangling'
  <2>1. CASE HonestNext
    BY <2>1, TypeOKStep, NoDanglingStep
  <2>2. CASE UNCHANGED tvars
    BY <2>2 DEF tvars, TypeOK, NoDangling, Present
  <2> QED BY <2>1, <2>2
<1> QED BY <1>1, <1>2, PTL DEF HonestSpec

\* And no transaction of an honest caller takes another file block's storage
\* block away or gives it other content.
THEOREM HonestCallersHarmNoOther == Spec => OthersKeepTheirBlock
<1>1. TypeOK /\ [Next]_tvars => OthersKeep \/ ~HonestNext \/ UNCHANGED tvars
  <2> SUFFICES ASSUME TypeOK, HonestNext PROVE OthersKeep
    OBVIOUS
  <2>1. ASSUME NEW k \in Keys, NEW x \in Hashes, NEW c \in Int, NEW s \in Blocks,
               HonestReplace(k, x, s, c)
        PROVE  OthersKeep
    <3>1. CASE ReplacePresent(k, x, s, c)
      BY <3>1, ReplacePresentRows DEF SameHashes, OthersKeep
    <3>2. CASE SoleUser(k, s) /\ ReplaceInPlace(k, x, s, c)
      <4>1. fileBlocks' = [fileBlocks EXCEPT ![k] = x] /\ ~Present(x)
        BY <3>2 DEF ReplaceInPlace
      <4>2. ASSUME NEW k2 \in Keys, NEW i \in DOMAIN rows,
                   fileBlocks[k2] = rows[i].hash, fileBlocks'[k2] = fileBlocks[k2]
            PROVE  i # s
        <5>1. fileBlocks'[k] = x
          BY <4>1 DEF TypeOK
        <5>2. k2 # k
          BY <4>1, <4>2, <5>1 DEF Present
        <5> QED BY <3>2, <4>2, <5>2 DEF SoleUser
      <4> QED BY <3>2, <4>2, ReplaceInPlaceRows DEF OthersKeep
    <3>3. CASE ReplaceInsert(k, x, s, c)
      BY <3>3, ReplaceInsertRows DEF OthersKeep
    <3> QED BY <2>1, <3>1, <3>2, <3>3 DEF HonestReplace
  <2>2. ASSUME NEW k \in Keys, NEW x, Release(k, x)
        PROVE  OthersKeep
    BY <2>2, DecreaseUseFacts DEF Release, TypeOK, SameHashes, OthersKeep
  <2> QED BY <2>1, <2>2, TablesAssumption DEF HonestNext, Blocks
<1> QED BY <1>1, TablesTyped, PTL DEF Spec, OthersKeepTheirBlock
============================================================================
