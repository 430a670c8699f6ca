---------------------------- MODULE NamespaceProofs ----------------------------
(***************************************************************************)
(* The directory tree, for any names, any relations between them and any   *)
(* bounds.                                                                 *)
(***************************************************************************)
EXTENDS Namespace, TLAPS, WellFoundedInduction, SequenceTheorems

----------------------------------------------------------------------------
(* Paths.                                                                  *)

\* A path is a sequence of names.
LEMMA PathIsSeq ==
    ASSUME NEW p
    PROVE  p \in Paths <=> p \in Seq(Names) /\ Len(p) =< MaxDepth
<1>0. MaxDepth \in Nat
  BY NamesAssumption
<1>1. ASSUME p \in Paths PROVE p \in Seq(Names) /\ Len(p) =< MaxDepth
  <2>1. PICK n \in 0..MaxDepth : p \in [1..n -> Names]
    BY <1>1 DEF Paths
  <2>2. p \in Seq(Names) /\ Len(p) = n
    BY <2>1
  <2> QED BY <2>1, <2>2
<1>2. ASSUME p \in Seq(Names), Len(p) =< MaxDepth PROVE p \in Paths
  <2>1. Len(p) \in 0..MaxDepth
    BY <1>0, <1>2
  <2>2. p \in [1..Len(p) -> Names]
    BY <1>2
  <2> QED BY <2>1, <2>2 DEF Paths
<1> QED BY <1>1, <1>2

LEMMA FrontOf ==
    ASSUME NEW p \in Seq(Names), p # <<>>
    PROVE  /\ Front(p) \in Seq(Names) /\ Len(Front(p)) = Len(p) - 1
           /\ Len(p) \in Nat \ {0}
           /\ \A k \in 1..Len(p) - 1 : Front(p)[k] = p[k]
<1>1. Len(p) \in Nat \ {0}
  BY EmptySeq
<1>2. \A k \in 1..Len(p) - 1 : p[k] \in Names
  BY <1>1, ElementOfSeq
<1> DEFINE m == Len(p) - 1
<1>3. m \in Nat /\ m - 1 + 1 = m /\ \A k \in 1..m : 1 + k - 1 = k
  BY <1>1
<1>4. /\ SubSeq(p, 1, m) \in Seq(Names)
      /\ Len(SubSeq(p, 1, m)) = IF 1 =< m THEN m - 1 + 1 ELSE 0
      /\ \A k \in 1..m - 1 + 1 : SubSeq(p, 1, m)[k] = p[1 + k - 1]
  <2> HIDE DEF m
  <2>1. 1 \in Int /\ m \in Int /\ \A k \in 1..m : p[k] \in Names
    BY <1>2, <1>3 DEF m
  <2> QED BY <2>1, SubSeqProperties
<1>5. Front(p) = SubSeq(p, 1, m)
  BY DEF Front
<1> HIDE DEF m
<1>6. Len(Front(p)) = m /\ \A k \in 1..m : Front(p)[k] = p[k]
  BY <1>3, <1>4, <1>5
<1> QED BY <1>1, <1>4, <1>5, <1>6 DEF m

LEMMA PrefixIs ==
    ASSUME NEW p \in Seq(Names), NEW q \in Seq(Names)
    PROVE  IsPrefix(p, q) <=> Len(p) =< Len(q) /\ \A k \in 1..Len(p) : p[k] = q[k]
<1>1. CASE Len(p) =< Len(q)
  <2>1. Len(p) \in Nat /\ Len(q) \in Nat
    OBVIOUS
  <2>2. SubSeq(p, 1, Len(p)) = p
    BY SubSeqFull
  <2>3. \A k \in 1..Len(p) : q[k] \in Names
    BY <1>1, <2>1, ElementOfSeq
  <2>4. /\ SubSeq(q, 1, Len(p)) \in Seq(Names)
        /\ Len(SubSeq(q, 1, Len(p))) = Len(p)
        /\ \A k \in 1..Len(p) : SubSeq(q, 1, Len(p))[k] = q[k]
    BY <2>1, <2>3, SubSeqProperties
  <2>5. p = SubSeq(q, 1, Len(p)) <=> \A k \in 1..Len(p) : p[k] = q[k]
    BY <2>1, <2>4, SeqEqual
  <2> QED BY <1>1, <2>2, <2>5 DEF IsPrefix
<1>2. CASE ~(Len(p) =< Len(q))
  BY <1>2 DEF IsPrefix
<1> QED BY <1>1, <1>2

\* What a row below o becomes when o is renamed to n.
Image(o, n, p) == n \o SubSeq(p, Len(o) + 1, Len(p))

LEMMA ImageOf ==
    ASSUME NEW o \in Seq(Names), NEW n \in Seq(Names), NEW p \in Seq(Names),
           Len(o) =< Len(p)
    PROVE  /\ Image(o, n, p) \in Seq(Names)
           /\ Len(Image(o, n, p)) = Len(n) + Len(p) - Len(o)
           /\ \A k \in 1..Len(n) : Image(o, n, p)[k] = n[k]
           /\ \A k \in Len(n) + 1..Len(n) + Len(p) - Len(o) :
                 Image(o, n, p)[k] = p[k - Len(n) + Len(o)]
<1> DEFINE t == SubSeq(p, Len(o) + 1, Len(p))
<1>1. Len(o) \in Nat /\ Len(n) \in Nat /\ Len(p) \in Nat
  OBVIOUS
<1>2. \A k \in Len(o) + 1..Len(p) : p[k] \in Names
  BY <1>1, ElementOfSeq
<1>3. /\ t \in Seq(Names) /\ Len(t) = Len(p) - Len(o)
      /\ \A k \in 1..Len(p) - Len(o) : t[k] = p[Len(o) + k]
  BY <1>1, <1>2, SubSeqProperties
<1>4. /\ n \o t \in Seq(Names) /\ Len(n \o t) = Len(n) + Len(t)
      /\ \A k \in 1..Len(n) + Len(t) :
            (n \o t)[k] = IF k =< Len(n) THEN n[k] ELSE t[k - Len(n)]
  <2> HIDE DEF t
  <2> QED BY <1>1, <1>3, ConcatProperties
<1>5. \A k \in Len(n) + 1..Len(n) + Len(p) - Len(o) : (n \o t)[k] = p[k - Len(n) + Len(o)]
  <2> HIDE DEF t
  <2>1. TAKE k \in Len(n) + 1..Len(n) + Len(p) - Len(o)
  <2>2. (n \o t)[k] = t[k - Len(n)]
    BY <1>1, <1>3, <1>4
  <2>3. k - Len(n) \in 1..Len(p) - Len(o)
    BY <1>1
  <2>4. t[k - Len(n)] = p[Len(o) + (k - Len(n))]
    BY <1>3, <2>3
  <2>5. Len(o) + (k - Len(n)) = k - Len(n) + Len(o)
    BY <1>1
  <2> QED BY <2>2, <2>4, <2>5
<1>6. \A k \in 1..Len(n) : (n \o t)[k] = n[k]
  <2> HIDE DEF t
  <2> QED BY <1>1, <1>3, <1>4
<1>7. Image(o, n, p) = n \o t
  BY DEF Image
<1> HIDE DEF t
<1> QED BY <1>3, <1>4, <1>5, <1>6, <1>7

----------------------------------------------------------------------------
(* Files.                                                                  *)

LEMMA NaturalsHaveMinimum ==
    ASSUME NEW T, T \subseteq Nat, T # {}
    PROVE  \E x \in T : \A y \in T : x =< y
<1> DEFINE R == {ss \in Nat \X Nat : ss[1] < ss[2]}
<1>1. IsWellFoundedOn(R, Nat)
  BY NatLessThanWellFounded DEF OpToRel
<1>2. PICK x \in T : \A y \in T : <<y, x>> \notin R
  <2> HIDE DEF R
  <2> QED BY <1>1, WFMin
<1>3. \A y \in T : y < x => <<y, x>> \in R
  OBVIOUS
<1>4. \A y \in T : ~(y < x)
  BY <1>2, <1>3
<1>5. \A y \in T : x =< y
  BY <1>2, <1>4
<1> QED BY <1>2, <1>5

LEMMA MinIs ==
    ASSUME NEW T, T \subseteq Nat, T # {}
    PROVE  Min(T) \in T /\ \A y \in T : Min(T) =< y
BY NaturalsHaveMinimum DEF Min

\* The next _ID is not in use.
LEMMA MaxIs ==
    ASSUME NEW T \in SUBSET Ids, T # {}
    PROVE  Max(T) \in T /\ \A y \in T : Max(T) >= y
<1> DEFINE U == {NumFiles - x : x \in T}
<1>1. U \subseteq Nat /\ U # {}
  <2>1. \A x \in T : x \in Int /\ NumFiles - x \in Nat
    BY NamesAssumption DEF Ids
  <2> QED BY <2>1
<1>2. PICK u \in U : \A v \in U : u =< v
  <2> HIDE DEF U
  <2> QED BY <1>1, NaturalsHaveMinimum
<1>3. PICK x \in T : u = NumFiles - x
  BY <1>2
<1>4. \A y \in T : NumFiles - y \in U
  OBVIOUS
<1>5. \A y \in T : x >= y
  <2>1. TAKE y \in T
  <2>2. NumFiles - x =< NumFiles - y
    BY <1>2, <1>3, <1>4
  <2>3. x \in Int /\ y \in Int /\ NumFiles \in Int
    BY NamesAssumption DEF Ids
  <2> HIDE DEF U
  <2> QED BY <2>2, <2>3
<1> HIDE DEF U
<1> QED BY <1>3, <1>5 DEF Max

\* The root is there, and the depth of a row is that of its path as long as LIKE
\* has matched name by name.
RowsInv ==
    /\ files[Root] # Null /\ files[Root].path = <<>> /\ files[Root].dir
    /\ ~strayed => \A i \in Present : files[i].depth = Len(files[i].path)

\* A rename at work, and what it has still to do.
RenameInv ==
    op.kind \in {"replace", "move"} =>
        /\ op.id \in Present /\ files[op.id].path = op.old
        /\ op.old # <<>> /\ op.new # <<>> /\ op.old # op.new
        /\ ~IsPrefix(op.old, op.new)
        /\ op.kind = "replace" =>
              /\ op.todo = {} /\ Exists(op.new)
              /\ IsDir(op.old) <=> IsDir(op.new)
              /\ IsDir(op.new) => DirEmpty(op.new)
        /\ op.kind = "move" =>
              /\ op.todo # {} => files[op.id].dir
              /\ \A i \in op.todo : i \in Present /\ Matches(op.old, files[i].path)
        /\ ~strayed =>
              /\ op.depth = Len(op.new)
              /\ op.kind = "move" => ~Exists(op.new)
              /\ \A i \in op.todo : NamesMatch(op.old, files[i].path)

FilesInv == TypeOK /\ RowsInv /\ RenameInv

\* No two rows have the same path.
Unique == \A i, j \in Ids : files[i] # Null /\ files[j] # Null /\ i # j
                               => files[i].path # files[j].path

LEMMA RowsTyped ==
    ASSUME TypeOK
    PROVE  /\ Unique /\ Present \subseteq Ids
           /\ \A i \in Present : /\ files[i] \in Row
                                 /\ files[i].path \in Paths /\ files[i].depth \in 0..MaxDepth
                                 /\ files[i].dir \in BOOLEAN
<1>1. \A i \in Present : files[i] \in Row
  BY DEF TypeOK, Present
<1>2. \A i \in Present : /\ files[i].path \in Paths /\ files[i].depth \in 0..MaxDepth
                         /\ files[i].dir \in BOOLEAN
  BY <1>1 DEF Row
<1> QED BY <1>1, <1>2 DEF TypeOK, Unique, Present

\* getByPath finds the row of a path.
LEMMA LookupFinds ==
    ASSUME NEW p, Exists(p)
    PROVE  Lookup(p) \in Present /\ files[Lookup(p)].path = p
BY DEF Exists, With, Lookup

LEMMA LookupIs ==
    ASSUME Unique, NEW i \in Present
    PROVE  Exists(files[i].path) /\ Lookup(files[i].path) = i
<1>1. i \in With(files[i].path)
  BY DEF With
<1>2. \A j \in With(files[i].path) : j = i
  BY DEF With, Unique, Present
<1> QED BY <1>1, <1>2 DEF Exists, Lookup

\* The kinds of op.
LEMMA OpKinds ==
    ASSUME TypeOK
    PROVE  /\ op.kind = "idle" <=> op = Idle
           /\ op.kind \in {"idle", "replace", "move"}
           /\ op.kind \in {"replace", "move"} =>
                 /\ op.id \in Ids /\ op.old \in Paths /\ op.new \in Paths
                 /\ op.depth \in 0..MaxDepth /\ op.todo \subseteq Ids
<1>1. CASE op = Idle
  BY <1>1 DEF Idle
<1>2. CASE op \in [kind : {"replace", "move"}, id : Ids, old : Paths, new : Paths,
                   depth : 0..MaxDepth, todo : SUBSET Ids]
  BY <1>2 DEF Idle
<1> QED BY <1>1, <1>2 DEF TypeOK

LEMMA RootIsPresent ==
    ASSUME RowsInv
    PROVE  Root \in Present /\ Root \in Ids
BY NamesAssumption DEF RowsInv, Present, Root, Ids

\* LIKE matches a longer path than the directory's.
LEMMA MatchesLonger ==
    ASSUME NEW o, NEW q, Matches(o, q)
    PROVE  Len(o) < Len(q)
BY NamesAssumption DEF Matches, NamesMatch

\* What an Insert changes.
LEMMA InsertAdds ==
    ASSUME TypeOK, RowsInv, NEW p \in Paths, NEW isDir \in BOOLEAN,
           p # <<>>, IsDir(Front(p)), ~Exists(p), Insert(p, isDir)
    PROVE  \E i \in Ids \ Present, d \in 0..MaxDepth :
              /\ files' = [files EXCEPT ![i] = [path |-> p, depth |-> d, dir |-> isDir]]
              /\ ~strayed => d = Len(p)
<1>1. Root \in Present /\ Present \subseteq Ids
  BY RootIsPresent, RowsTyped
<1>2. Max(Present) \in Present /\ \A y \in Present : Max(Present) >= y
  BY <1>1, MaxIs
<1> DEFINE i == Max(Present) + 1
<1>3. Max(Present) < NumFiles
  BY DEF Insert
<1>4. i \in Ids \ Present
  <2>1. Max(Present) \in Ids /\ NumFiles \in Nat
    BY <1>1, <1>2, NamesAssumption
  <2>2. i \in Ids
    BY <1>3, <2>1 DEF Ids
  <2>3. i \notin Present
    BY <1>2, <2>1 DEF Ids
  <2> QED BY <2>2, <2>3
<1> DEFINE f == Lookup(Front(p))  d == files[f].depth + 1
<1>5. f \in Present /\ files[f].path = Front(p)
  BY LookupFinds DEF IsDir
<1>6. d \in 0..MaxDepth
  <2>1. files[f].depth \in 0..MaxDepth /\ files[f].depth < MaxDepth
    BY <1>5, RowsTyped DEF Insert
  <2> QED BY <2>1, NamesAssumption
<1>7. ~strayed => d = Len(p)
  <2>1. p \in Seq(Names) /\ Len(p) \in Nat
    BY PathIsSeq
  <2>2. Len(Front(p)) = Len(p) - 1
    BY <2>1, FrontOf
  <2> QED BY <1>5, <2>1, <2>2 DEF RowsInv
<1> QED BY <1>4, <1>6, <1>7 DEF Insert

----------------------------------------------------------------------------
(* What the updates of one row change.                                     *)

LEMMA RowAdded ==
    ASSUME TypeOK, NEW i \in Ids \ Present, NEW row \in Row,
           ~Exists(row.path), files' = [files EXCEPT ![i] = row]
    PROVE  /\ files' \in [Ids -> Row \cup {Null}] /\ Unique'
           /\ Present' = Present \cup {i}
           /\ files'[i] = row /\ \A j \in Ids \ {i} : files'[j] = files[j]
<1>1. files \in [Ids -> Row \cup {Null}] /\ Unique
  BY RowsTyped DEF TypeOK
<1>2. files'[i] = row /\ \A j \in Ids \ {i} : files'[j] = files[j]
  BY <1>1
<1>3. row # Null
  BY NullAssumption
<1>4. Present' = Present \cup {i}
  BY <1>2, <1>3 DEF Present
<1>5. \A j \in Present : files[j].path # row.path
  BY DEF Exists, With
<1>6. Unique'
  BY <1>1, <1>2, <1>5 DEF Unique, Present
<1> QED BY <1>1, <1>2, <1>4, <1>6

LEMMA RowDeleted ==
    ASSUME TypeOK, NEW i \in Ids, DeleteRow(i)
    PROVE  /\ files' \in [Ids -> Row \cup {Null}] /\ Unique'
           /\ Present' = Present \ {i}
           /\ files'[i] = Null /\ \A j \in Ids \ {i} : files'[j] = files[j]
<1>1. files \in [Ids -> Row \cup {Null}] /\ Unique
  BY RowsTyped DEF TypeOK
<1>2. files'[i] = Null /\ \A j \in Ids \ {i} : files'[j] = files[j]
  BY <1>1 DEF DeleteRow
<1>3. Present' = Present \ {i}
  BY <1>2 DEF Present
<1>4. Unique'
  BY <1>1, <1>2 DEF Unique
<1>5. files' \in [Ids -> Row \cup {Null}]
  BY <1>1 DEF DeleteRow
<1> QED BY <1>2, <1>3, <1>4, <1>5

LEMMA RowMoved ==
    ASSUME TypeOK, NEW i \in Present, NEW p \in Paths, NEW d \in 0..MaxDepth,
           With(p) \subseteq {i},
           files' = [files EXCEPT ![i].path = p, ![i].depth = d]
    PROVE  /\ files' \in [Ids -> Row \cup {Null}] /\ Unique' /\ Present' = Present
           /\ files'[i].path = p /\ files'[i].depth = d
           /\ files'[i].dir = files[i].dir
           /\ \A j \in Ids \ {i} : files'[j] = files[j]
<1>1. files \in [Ids -> Row \cup {Null}] /\ Unique /\ i \in Ids /\ files[i] \in Row
  BY RowsTyped DEF TypeOK
<1>2. /\ files'[i] = [files[i] EXCEPT !.path = p, !.depth = d] /\ files'[i] \in Row
      /\ \A j \in Ids \ {i} : files'[j] = files[j]
  BY <1>1 DEF Row
<1>3. /\ files'[i].path = p /\ files'[i].depth = d
      /\ files'[i].dir = files[i].dir
  BY <1>1, <1>2 DEF Row
<1>4. files'[i] # Null
  BY <1>2, NullAssumption
<1>5. Present' = Present
  BY <1>2, <1>4 DEF Present
<1>6. \A j \in Present \ {i} : files[j].path # p
  BY DEF With
<1>7. Unique'
  BY <1>1, <1>2, <1>3, <1>6 DEF Unique, Present
<1>8. files' \in [Ids -> Row \cup {Null}]
  BY <1>1, <1>2
<1> QED BY <1>2, <1>3, <1>5, <1>7, <1>8

----------------------------------------------------------------------------
(* Rows are typed, and every depth is that of its path.                    *)

LEMMA FilesInit == Init => FilesInv
<1> SUFFICES ASSUME Init PROVE FilesInv
  OBVIOUS
<1> USE NamesAssumption
<1>1. Root \in Ids
  BY DEF Root, Ids
<1> DEFINE r == [path |-> <<>>, depth |-> 0, dir |-> TRUE]
<1>2. <<>> \in Paths /\ Len(<<>>) = 0
  <2>1. <<>> \in Seq(Names) /\ Len(<<>>) = 0
    BY EmptySeq
  <2>2. Len(<<>>) =< MaxDepth
    BY <2>1
  <2> QED BY <2>1, <2>2, PathIsSeq
<1>3. r \in Row
  BY <1>2 DEF Row
<1>4. r # Null
  BY <1>3, NullAssumption
<1> HIDE DEF r
<1>5. files[Root] = r /\ \A i \in Ids \ {Root} : files[i] = Null
  BY <1>1 DEF Init, r
<1>6. Present = {Root}
  BY <1>1, <1>4, <1>5 DEF Present
<1>7. files \in [Ids -> Row \cup {Null}]
  BY <1>3 DEF Init, r
<1>8. Unique
  BY <1>5 DEF Unique
<1>9. op = Idle /\ op.kind = "idle" /\ cut = NoCut /\ strayed = FALSE
  BY DEF Init, Idle
<1>10. TypeOK
  BY <1>7, <1>8, <1>9 DEF TypeOK, Unique
<1>11. RowsInv
  BY <1>2, <1>4, <1>5, <1>6 DEF RowsInv, r
<1>12. RenameInv
  BY <1>9 DEF RenameInv
<1> QED BY <1>10, <1>11, <1>12 DEF FilesInv

\* What becomes of cut.
LEMMA CutKinds ==
    ASSUME TypeOK
    PROVE  /\ Spoilt \in {NoCut, Damaged} \cup (Paths \X Paths)
           /\ (op = Idle)' => op'.kind = "idle"
BY DEF TypeOK, Spoilt, Idle

LEMMA CreateKeepsFiles ==
    ASSUME FilesInv, NEW p \in Paths, NEW isDir \in BOOLEAN, Create(p, isDir)
    PROVE  FilesInv'
<1> USE DEF FilesInv
<1>1. PICK i \in Ids \ Present, d \in 0..MaxDepth :
          /\ files' = [files EXCEPT ![i] = [path |-> p, depth |-> d, dir |-> isDir]]
          /\ ~strayed => d = Len(p)
  BY InsertAdds DEF Create
<1> DEFINE r == [path |-> p, depth |-> d, dir |-> isDir]
<1>2. r \in Row /\ r.path = p /\ r.depth = d /\ ~Exists(r.path) /\ r # Null
  BY <1>1, NullAssumption DEF Row, Create
<1> HIDE DEF r
<1>3. /\ files' \in [Ids -> Row \cup {Null}] /\ Unique'
      /\ Present' = Present \cup {i}
      /\ files'[i] = r /\ \A j \in Ids \ {i} : files'[j] = files[j]
  BY <1>1, <1>2, RowAdded DEF r
<1>4. op' = Idle /\ op'.kind = "idle"
  BY DEF Create, Idle
<1>5. TypeOK'
  BY <1>3, <1>4, CutKinds DEF TypeOK, Unique, Create
<1>6. Root \in Present /\ Present \subseteq Ids
  BY RootIsPresent, RowsTyped
<1>7. RowsInv'
  BY <1>1, <1>2, <1>3, <1>6 DEF RowsInv, Create
<1>8. RenameInv'
  BY <1>4 DEF RenameInv
<1> QED BY <1>5, <1>7, <1>8

\* A directory is removed, or a file.
LEMMA RemovalKeepsFiles ==
    ASSUME FilesInv, NEW p \in Paths, Rmdir(p) \/ Unlink(p)
    PROVE  FilesInv'
<1> USE DEF FilesInv
<1> DEFINE i == Lookup(p)
<1>1. i \in Present /\ files[i].path = p
  BY LookupFinds DEF Rmdir, Unlink, IsDir, IsFile
<1>2. Root \in Present /\ Present \subseteq Ids
  BY RootIsPresent, RowsTyped
<1>3. i # Root
  BY <1>1 DEF RowsInv, Rmdir, Unlink, IsFile
<1> HIDE DEF i
<1>4. /\ files' \in [Ids -> Row \cup {Null}] /\ Unique'
      /\ Present' = Present \ {i}
      /\ files'[i] = Null /\ \A j \in Ids \ {i} : files'[j] = files[j]
  BY <1>1, <1>2, RowDeleted DEF Rmdir, Unlink, i
<1>5. op' = Idle /\ op'.kind = "idle" /\ strayed' = strayed /\ cut' = Spoilt
  BY DEF Rmdir, Unlink, Idle
<1>6. TypeOK'
  BY <1>4, <1>5, CutKinds DEF TypeOK, Unique
<1>7. RowsInv'
  BY <1>2, <1>3, <1>4, <1>5 DEF RowsInv
<1>8. RenameInv'
  BY <1>5 DEF RenameInv
<1> QED BY <1>6, <1>7, <1>8

\* What queries return does not change with op.
LEMMA SameRows ==
    ASSUME files' = files
    PROVE  /\ Present' = Present
           /\ \A p : /\ Exists(p)' <=> Exists(p)
                     /\ IsDir(p)' <=> IsDir(p)
                     /\ Lookup(p)' = Lookup(p)
                     /\ Below(p)' = Below(p)
                     /\ DirEmpty(p)' <=> DirEmpty(p)
                     /\ ToMove(p)' = ToMove(p)
BY DEF Exists, With, Lookup, IsDir, Present, Below, Listed, DirEmpty, ToMove

LEMMA RenameKeepsFiles ==
    ASSUME FilesInv, NEW old \in Paths, NEW new \in Paths, Rename(old, new)
    PROVE  FilesInv'
<1> USE DEF FilesInv
<1>1. files' = files /\ op.kind = "idle" /\ Exists(old)
  BY DEF Rename, RenameAllowed, Idle
<1>2. Lookup(old) \in Present /\ files[Lookup(old)].path = old /\ Present \subseteq Ids
  BY <1>1, LookupFinds, RowsTyped
<1> DEFINE f == Lookup(Front(new))  d == files[f].depth + 1
<1>3. d \in 0..MaxDepth /\ (~strayed => d = Len(new))
  <2>1. new # <<>> /\ f \in Present /\ files[f].path = Front(new)
    BY LookupFinds DEF Rename, RenameAllowed, KernelAllows, IsDir
  <2>2. files[f].depth \in 0..MaxDepth /\ files[f].depth < MaxDepth
    BY <2>1, RowsTyped DEF Rename
  <2>3. d \in 0..MaxDepth
    BY <2>2, NamesAssumption
  <2>4. new \in Seq(Names) /\ Len(new) \in Nat
    BY PathIsSeq
  <2>5. Len(Front(new)) = Len(new) - 1
    BY <2>1, <2>4, FrontOf
  <2>6. ~strayed => d = Len(new)
    BY <2>1, <2>4, <2>5 DEF RowsInv
  <2> QED BY <2>3, <2>6
<1>4. PICK k \in {"replace", "move"}, t \in SUBSET Ids :
          /\ k = IF Exists(new) THEN "replace" ELSE "move"
          /\ t = IF Exists(new) THEN {} ELSE ToMove(old)
          /\ op' = [kind |-> k, id |-> Lookup(old), old |-> old, new |-> new,
                    depth |-> d, todo |-> t]
          /\ strayed' = (strayed \/ Strays(old, t))
  <2>1. ToMove(old) \in SUBSET Ids
    BY <1>2 DEF ToMove, Below
  <2> QED BY <2>1 DEF Rename
<1>5. /\ op'.kind = k /\ op'.id = Lookup(old) /\ op'.old = old /\ op'.new = new
      /\ op'.depth = d /\ op'.todo = t
  BY <1>4
<1> HIDE DEF d, f
<1>6. op' \in [kind : {"replace", "move"}, id : Ids, old : Paths, new : Paths,
               depth : 0..MaxDepth, todo : SUBSET Ids]
  BY <1>2, <1>3, <1>4
<1>7. TypeOK'
  BY <1>1, <1>4, <1>6 DEF TypeOK, Rename
<1>8. RowsInv'
  BY <1>1, <1>4, SameRows DEF RowsInv
<1>9. \A i \in ToMove(old) : /\ i \in Present /\ Matches(old, files[i].path)
                             /\ files[Lookup(old)].dir
  BY DEF ToMove, Below, IsDir
<1>10. /\ old # <<>> /\ new # <<>> /\ old # new /\ ~IsPrefix(old, new)
       /\ Exists(new) => /\ IsDir(old) <=> IsDir(new)
                         /\ IsDir(new) => DirEmpty(new)
  BY DEF Rename, KernelAllows, RenameAllowed, IsStrictPrefix
<1>11. RenameInv'
  <2>1. k = "replace" =>
              /\ t = {} /\ Exists(new)'
              /\ IsDir(old)' <=> IsDir(new)'
              /\ IsDir(new)' => DirEmpty(new)'
    BY <1>1, <1>4, <1>10, SameRows
  <2>2. k = "move" =>
              /\ t # {} => files'[Lookup(old)].dir
              /\ \A i \in t : i \in Present' /\ Matches(old, files'[i].path)
    BY <1>1, <1>4, <1>9, SameRows
  <2>3. ~strayed' =>
              /\ op'.depth = Len(new)
              /\ k = "move" => ~Exists(new)'
              /\ \A i \in t : NamesMatch(old, files'[i].path)
    BY <1>1, <1>3, <1>4, <1>5, SameRows DEF Strays
  <2> QED BY <1>1, <1>2, <1>5, <1>10, <2>1, <2>2, <2>3, SameRows DEF RenameInv
<1> QED BY <1>7, <1>8, <1>11

LEMMA RenameReplacesKeepsFiles ==
    ASSUME FilesInv, RenameReplaces
    PROVE  FilesInv'
<1> USE DEF FilesInv
<1> DEFINE i == Lookup(op.new)
<1>1. /\ op.kind = "replace" /\ op.id \in Present /\ files[op.id].path = op.old
      /\ op.old # <<>> /\ op.new # <<>> /\ op.old # op.new /\ Exists(op.new)
  BY DEF RenameInv, RenameReplaces
<1>2. i \in Present /\ files[i].path = op.new
  BY <1>1, LookupFinds
<1>3. Root \in Present /\ Present \subseteq Ids /\ Unique
  BY RootIsPresent, RowsTyped
<1>4. i # Root /\ i # op.id
  BY <1>1, <1>2 DEF RowsInv
<1>5. /\ op' = [op EXCEPT !.kind = "move", !.todo = ToMove(op.old) \ {i}]
      /\ strayed' = (strayed \/ Strays(op.old, ToMove(op.old) \ {i}))
  BY DEF RenameReplaces
<1>6. op \in [kind : {"replace", "move"}, id : Ids, old : Paths, new : Paths,
              depth : 0..MaxDepth, todo : SUBSET Ids]
  BY <1>1 DEF TypeOK, Idle
<1>7. ToMove(op.old) \subseteq Present
  BY DEF ToMove, Below
<1>8. /\ op'.kind = "move" /\ op'.id = op.id /\ op'.old = op.old /\ op'.new = op.new
      /\ op'.depth = op.depth /\ op'.todo = ToMove(op.old) \ {i}
      /\ op' \in [kind : {"replace", "move"}, id : Ids, old : Paths, new : Paths,
                  depth : 0..MaxDepth, todo : SUBSET Ids]
  BY <1>3, <1>5, <1>6, <1>7
<1> HIDE DEF i
<1>9. /\ files' \in [Ids -> Row \cup {Null}] /\ Unique'
      /\ Present' = Present \ {i}
      /\ files'[i] = Null /\ \A j \in Ids \ {i} : files'[j] = files[j]
  BY <1>2, <1>3, RowDeleted DEF RenameReplaces, i
<1>10. cut' \in {NoCut, Damaged} \cup (Paths \X Paths)
  BY CutKinds DEF TypeOK, RenameReplaces
<1>11. TypeOK'
  BY <1>5, <1>8, <1>9, <1>10 DEF TypeOK, Unique
<1>12. RowsInv'
  BY <1>3, <1>4, <1>5, <1>9 DEF RowsInv
<1>13. ~Exists(op.new)'
  <2>1. \A j \in Present : files[j].path = op.new => j = i
    BY <1>2, <1>3 DEF Unique, Present
  <2> QED BY <1>3, <1>8, <1>9, <2>1 DEF Exists, With
<1>14. /\ \A j \in ToMove(op.old) : Matches(op.old, files[j].path) /\ files[op.id].dir
       /\ ~strayed' => \A j \in op'.todo : NamesMatch(op.old, files[j].path)
  <2>1. Lookup(op.old) = op.id
    BY <1>1, <1>3, LookupIs
  <2> QED BY <1>1, <1>5, <1>8, <2>1 DEF ToMove, Below, IsDir, Strays
<1>15. /\ op'.id \in Present' /\ files'[op'.id] = files[op.id]
       /\ \A j \in op'.todo : j \in Present' /\ files'[j] = files[j]
  BY <1>1, <1>3, <1>4, <1>7, <1>8, <1>9
<1>16. ~strayed' => op.depth = Len(op.new)
  BY <1>1, <1>5 DEF RenameInv
<1>17. ~IsPrefix(op.old, op.new)
  BY <1>1 DEF RenameInv
<1>18. RenameInv'
  BY <1>1, <1>8, <1>13, <1>14, <1>15, <1>16, <1>17 DEF RenameInv
<1> QED BY <1>11, <1>12, <1>18

\* The row that the next UPDATE moves, and what it gets.
LEMMA NextToMove ==
    ASSUME FilesInv, RenameMoves
    PROVE  LET i == Min(op.todo)
           IN  /\ i \in op.todo /\ i \in Present /\ i # Root /\ i # op.id
               /\ MovedPath(files[i].path) \in Paths
               /\ files[i].depth + DepthDiff \in 0..MaxDepth
               /\ ~strayed =>
                    /\ NamesMatch(op.old, files[i].path)
                    /\ MovedPath(files[i].path) = Image(op.old, op.new, files[i].path)
                    /\ Len(MovedPath(files[i].path)) > Len(op.new)
                    /\ files[i].depth + DepthDiff = Len(MovedPath(files[i].path))
<1> USE DEF FilesInv
<1> DEFINE i == Min(op.todo)  p == files[i].path  q == MovedPath(p)  o == op.old  n == op.new
<1>1. /\ op.todo \subseteq Ids /\ op.todo \subseteq Nat /\ op.todo # {}
      /\ op.kind = "move" /\ q \in Paths /\ files[i].depth + DepthDiff \in 0..MaxDepth
  BY OpKinds DEF Ids, RenameMoves, Moves
<1>2. i \in op.todo
  BY <1>1, MinIs
<1>3. /\ op.id \in Present /\ files[op.id].path = o /\ i \in Present /\ Matches(o, p)
      /\ ~strayed => NamesMatch(o, p) /\ op.depth = Len(n)
  <2> HIDE DEF i
  <2> QED BY <1>1, <1>2 DEF RenameInv
<1>4. /\ o \in Seq(Names) /\ n \in Seq(Names) /\ p \in Seq(Names)
      /\ o \in Paths /\ p \in Paths
  <2> HIDE DEF i
  <2> QED BY <1>1, <1>3, OpKinds, RowsTyped, PathIsSeq
<1>5. ~strayed => files[i].depth = Len(p) /\ files[op.id].depth = Len(o)
  BY <1>3 DEF RowsInv
<1>6. ~strayed => DepthDiff = Len(n) - Len(o)
  BY <1>3, <1>5 DEF DepthDiff
<1>7. ~strayed => q = Image(o, n, p)
  BY <1>3 DEF MovedPath, Image
<1>8. files[Root].path = <<>>
  BY DEF RowsInv
<1> SUFFICES /\ p # <<>> /\ p # o
             /\ ~strayed => Len(q) > Len(n) /\ files[i].depth + DepthDiff = Len(q)
  BY <1>1, <1>2, <1>3, <1>7, <1>8
<1> HIDE DEF i, p, q, o, n
<1>9. /\ Len(o) < Len(p) /\ Len(o) =< Len(p)
      /\ Len(o) \in Nat /\ Len(n) \in Nat /\ Len(p) \in Nat
  <2>1. Len(o) < Len(p)
    BY <1>3, MatchesLonger
  <2>2. Len(o) \in Nat /\ Len(n) \in Nat /\ Len(p) \in Nat
    BY <1>4
  <2> QED BY <2>1, <2>2
<1>10. ~strayed => q \in Seq(Names) /\ Len(q) = Len(n) + Len(p) - Len(o)
  <2>1. /\ Image(o, n, p) \in Seq(Names)
        /\ Len(Image(o, n, p)) = Len(n) + Len(p) - Len(o)
    BY <1>4, <1>9, ImageOf
  <2> QED BY <1>7, <2>1
<1>11. ~strayed => Len(q) > Len(n) /\ files[i].depth + DepthDiff = Len(q)
  BY <1>5, <1>6, <1>9, <1>10
<1>12. p # <<>> /\ p # o
  <2>1. <<>> \in Seq(Names) /\ Len(<<>>) = 0
    BY EmptySeq
  <2> QED BY <1>9, <2>1
<1> QED BY <1>11, <1>12

\* What an UPDATE changes.
LEMMA RenameMovesOne ==
    ASSUME FilesInv, RenameMoves
    PROVE  LET i == Min(op.todo)  q == MovedPath(files[i].path)
           IN  /\ files' \in [Ids -> Row \cup {Null}] /\ Unique' /\ Present' = Present
               /\ files'[i].path = q /\ files'[i].depth = files[i].depth + DepthDiff
               /\ files'[i].dir = files[i].dir
               /\ \A j \in Ids \ {i} : files'[j] = files[j]
<1> USE DEF FilesInv
<1> DEFINE i == Min(op.todo)  q == MovedPath(files[i].path)  d == files[i].depth + DepthDiff
<1>1. i \in Present /\ q \in Paths /\ d \in 0..MaxDepth
  BY NextToMove
<1>2. With(q) \subseteq {i}
  BY DEF RenameMoves
<1>3. files' = [files EXCEPT ![i].path = q, ![i].depth = d]
  BY DEF RenameMoves, Moves
<1> HIDE DEF i, q, d
<1>4. /\ files' \in [Ids -> Row \cup {Null}] /\ Unique' /\ Present' = Present
      /\ files'[i].path = q /\ files'[i].depth = d
      /\ files'[i].dir = files[i].dir
      /\ \A j \in Ids \ {i} : files'[j] = files[j]
  BY <1>1, <1>2, <1>3, RowMoved
<1> QED BY <1>4 DEF i, q, d

LEMMA RenameMovesKeepsFiles ==
    ASSUME FilesInv, RenameMoves
    PROVE  FilesInv'
<1> USE DEF FilesInv
<1> DEFINE i == Min(op.todo)  q == MovedPath(files[i].path)
<1>1. /\ op.kind = "move" /\ op.id \in Present /\ files[op.id].path = op.old
      /\ op.old # <<>> /\ op.new # <<>> /\ op.old # op.new /\ op.todo # {}
      /\ ~IsPrefix(op.old, op.new)
      /\ ~strayed => ~Exists(op.new) /\ op.depth = Len(op.new)
  BY DEF RenameInv, RenameMoves
<1>2. /\ i \in op.todo /\ i \in Present /\ i # Root /\ i # op.id
      /\ ~strayed => /\ Len(q) > Len(op.new)
                     /\ files[i].depth + DepthDiff = Len(q)
  BY NextToMove
<1>3. Root \in Present /\ Present \subseteq Ids /\ Unique
  BY RootIsPresent, RowsTyped
<1>4. op \in [kind : {"replace", "move"}, id : Ids, old : Paths, new : Paths,
              depth : 0..MaxDepth, todo : SUBSET Ids]
  BY <1>1 DEF TypeOK, Idle
<1>5. /\ op'.kind = "move" /\ op'.id = op.id /\ op'.old = op.old /\ op'.new = op.new
      /\ op'.depth = op.depth /\ op'.todo = op.todo \ {i}
      /\ op' \in [kind : {"replace", "move"}, id : Ids, old : Paths, new : Paths,
                  depth : 0..MaxDepth, todo : SUBSET Ids]
      /\ cut' = cut /\ strayed' = strayed
  BY <1>1, <1>4 DEF RenameMoves, Moves
<1>6. /\ files' \in [Ids -> Row \cup {Null}] /\ Unique' /\ Present' = Present
      /\ files'[i].path = q /\ files'[i].depth = files[i].depth + DepthDiff
      /\ files'[i].dir = files[i].dir
      /\ \A j \in Ids \ {i} : files'[j] = files[j]
  BY RenameMovesOne
<1> HIDE DEF i, q
<1>7. TypeOK'
  BY <1>5, <1>6 DEF TypeOK, Unique
<1>8. RowsInv'
  BY <1>2, <1>3, <1>5, <1>6 DEF RowsInv
<1>9. ~strayed => ~Exists(op.new)'
  BY <1>1, <1>2, <1>3, <1>5, <1>6 DEF Exists, With
<1>10. \A j \in op'.todo : /\ j \in Present /\ files'[j] = files[j] /\ files[op.id].dir
                           /\ Matches(op.old, files[j].path)
                           /\ ~strayed => NamesMatch(op.old, files[j].path)
  BY <1>1, <1>3, <1>5, <1>6 DEF RenameInv
<1>11. RenameInv'
  <2>1. /\ op'.id \in Present' /\ files'[op'.id] = files[op.id]
        /\ \A j \in op'.todo : j \in Present' /\ files'[j] = files[j]
    BY <1>1, <1>2, <1>3, <1>5, <1>6, <1>10
  <2> QED BY <1>1, <1>5, <1>9, <1>10, <2>1 DEF RenameInv
<1> QED BY <1>7, <1>8, <1>11

\* What the last UPDATE changes.
LEMMA RenameEndsOne ==
    ASSUME FilesInv, RenameEnds
    PROVE  /\ files' \in [Ids -> Row \cup {Null}] /\ Unique' /\ Present' = Present
           /\ files'[op.id].path = op.new /\ files'[op.id].depth = op.depth
           /\ files'[op.id].dir = files[op.id].dir
           /\ \A j \in Ids \ {op.id} : files'[j] = files[j]
<1> USE DEF FilesInv
<1>1. op.kind = "move" /\ op.id \in Present /\ ~Exists(op.new)
  BY DEF RenameInv, RenameEnds
<1>2. op.new \in Paths /\ op.depth \in 0..MaxDepth /\ With(op.new) \subseteq {op.id}
  BY <1>1, OpKinds DEF Exists
<1>3. files' = [files EXCEPT ![op.id].path = op.new, ![op.id].depth = op.depth]
  BY DEF RenameEnds
<1> QED BY <1>1, <1>2, <1>3, RowMoved

LEMMA RenameEndsKeepsFiles ==
    ASSUME FilesInv, RenameEnds
    PROVE  FilesInv'
<1> USE DEF FilesInv
<1>1. /\ op.kind = "move" /\ op.id \in Present /\ files[op.id].path = op.old
      /\ op.old # <<>> /\ (~strayed => op.depth = Len(op.new))
  BY DEF RenameInv, RenameEnds
<1>2. Root \in Present /\ Present \subseteq Ids /\ Root # op.id
  BY <1>1, RootIsPresent, RowsTyped DEF RowsInv
<1>3. /\ files' \in [Ids -> Row \cup {Null}] /\ Unique' /\ Present' = Present
      /\ files'[op.id].path = op.new /\ files'[op.id].depth = op.depth
      /\ files'[op.id].dir = files[op.id].dir
      /\ \A j \in Ids \ {op.id} : files'[j] = files[j]
  BY RenameEndsOne
<1>4. op' = Idle /\ op'.kind = "idle" /\ strayed' = strayed
  BY DEF RenameEnds, Idle
<1>5. cut' \in {NoCut, Damaged} \cup (Paths \X Paths)
  BY CutKinds DEF RenameEnds
<1>6. TypeOK'
  BY <1>3, <1>4, <1>5 DEF TypeOK, Unique, RenameEnds
<1>7. RowsInv'
  BY <1>1, <1>2, <1>3, <1>4 DEF RowsInv
<1>8. RenameInv'
  BY <1>4 DEF RenameInv
<1> QED BY <1>6, <1>7, <1>8

LEMMA RenameFailsKeepsFiles ==
    ASSUME FilesInv, RenameFails
    PROVE  FilesInv'
<1> USE DEF FilesInv
<1>1. files' = files /\ op' = Idle /\ op'.kind = "idle" /\ strayed' = strayed
  BY DEF RenameFails, Idle
<1>2. cut' \in {NoCut, Damaged} \cup (Paths \X Paths)
  BY OpKinds DEF RenameFails, TypeOK
<1> QED BY <1>1, <1>2, SameRows DEF TypeOK, RowsInv, RenameInv

LEMMA FilesStep == FilesInv /\ [Next]_vars => FilesInv'
<1> SUFFICES ASSUME FilesInv, [Next]_vars PROVE FilesInv'
  OBVIOUS
<1>1. CASE \E p \in Asked : Create(p, TRUE) \/ Create(p, FALSE)
  BY <1>1, CreateKeepsFiles, NamesAssumption
<1>2. CASE \E p \in Paths : Rmdir(p)
  BY <1>2, RemovalKeepsFiles
<1>3. CASE \E p \in Paths : Unlink(p)
  BY <1>3, RemovalKeepsFiles
<1>4. CASE \E i \in Present, new \in Asked : Rename(files[i].path, new)
  BY <1>4, RenameKeepsFiles, RowsTyped, NamesAssumption DEF FilesInv
<1>5. CASE RenameReplaces
  BY <1>5, RenameReplacesKeepsFiles
<1>6. CASE RenameMoves
  BY <1>6, RenameMovesKeepsFiles
<1>7. CASE RenameEnds
  BY <1>7, RenameEndsKeepsFiles
<1>8. CASE RenameFails
  BY <1>8, RenameFailsKeepsFiles
<1>9. CASE UNCHANGED vars
  <2>1. files' = files /\ op' = op /\ cut' = cut /\ strayed' = strayed
    BY <1>9 DEF vars
  <2>2. TypeOK' /\ RowsInv'
    BY <2>1, SameRows DEF FilesInv, TypeOK, RowsInv
  <2>3. RenameInv'
    BY <2>1, SameRows DEF FilesInv, RenameInv
  <2> QED BY <2>2, <2>3 DEF FilesInv
<1> QED BY <1>1, <1>2, <1>3, <1>4, <1>5, <1>6, <1>7, <1>8, <1>9 DEF Next

LEMMA FilesInvariant == Spec => []FilesInv
BY FilesInit, FilesStep, PTL DEF Spec

\* Every variable has its type, and no two rows have the same path: path_uniq
\* refuses the UPDATE of a rename that would give a row another's path.
THEOREM SpecNamespaceTypeOK == Spec => []TypeOK
<1>1. FilesInv => TypeOK
  BY DEF FilesInv
<1> QED BY <1>1, FilesInvariant, PTL

\* A child is one level below its directory, and LIKE matches its path.
LEMMA ChildrenListed == FilesInv => ListsEveryChild
<1> SUFFICES ASSUME FilesInv, ~strayed, NEW d \in Present, NEW i \in Present \ {Root},
                    Front(files[i].path) = files[d].path
             PROVE  i \in Listed(files[d].path)
  BY DEF ListsEveryChild
<1> USE DEF FilesInv
<1> DEFINE p == files[i].path  q == files[d].path
<1>1. p \in Seq(Names) /\ q \in Seq(Names) /\ Unique /\ i \in Ids
  BY RowsTyped, PathIsSeq
<1>2. Root \in Ids /\ Root \in Present
  BY RootIsPresent
<1>3. p # <<>>
  BY <1>1, <1>2 DEF Unique, Present, RowsInv
<1>4. Len(q) = Len(p) - 1 /\ Len(p) \in Nat \ {0} /\ \A k \in 1..Len(p) - 1 : q[k] = p[k]
  BY <1>1, <1>3, FrontOf
<1>5. DOMAIN q = 1..Len(p) - 1 /\ DOMAIN p = 1..Len(p)
  BY <1>1, <1>4
<1>6. \A k \in 1..Len(p) - 1 : <<q[k], p[k]>> \in Alike
  BY <1>1, <1>4, ElementOfSeq, NamesAssumption
<1>7. Matches(q, p)
  <2>1. DOMAIN q \cap DOMAIN p \subseteq 1..Len(p) - 1
    BY <1>5
  <2>2. AlikeAsFar(q, p)
    BY <1>6, <2>1 DEF AlikeAsFar
  <2>3. Len(q) < Len(p)
    BY <1>4
  <2> QED BY <2>2, <2>3 DEF Matches, NamesMatch
<1>8. files[i].depth = Len(p) /\ files[d].depth = Len(q) /\ Lookup(q) = d
  BY <1>1, LookupIs DEF RowsInv
<1> QED BY <1>4, <1>7, <1>8 DEF Listed, Below

\* readdir leaves out no child of a directory, at any moment of a rename, as long
\* as LIKE has matched what was moved name by name.
THEOREM SpecListsEveryChild == Spec => []ListsEveryChild
BY FilesInvariant, ChildrenListed, PTL

----------------------------------------------------------------------------
(* More about paths.                                                       *)

LEMMA StrictPrefixIs ==
    ASSUME NEW n \in Seq(Names), NEW p \in Seq(Names)
    PROVE  IsStrictPrefix(n, p) <=> IsPrefix(n, p) /\ Len(n) < Len(p)
<1>1. Len(n) \in Nat /\ Len(p) \in Nat
  OBVIOUS
<1>2. CASE IsPrefix(n, p) /\ Len(n) = Len(p)
  <2>1. n = p
    BY <1>2, PrefixIs, SeqEqual
  <2> QED BY <1>2, <2>1 DEF IsStrictPrefix
<1>3. CASE IsPrefix(n, p) /\ Len(n) # Len(p)
  <2>1. Len(n) =< Len(p)
    BY <1>3, PrefixIs
  <2> QED BY <1>1, <1>3, <2>1 DEF IsStrictPrefix
<1>4. CASE ~IsPrefix(n, p)
  BY <1>4 DEF IsStrictPrefix
<1> QED BY <1>2, <1>3, <1>4

\* What lies strictly below n lies in n or strictly below it.
LEMMA StrictPrefixFront ==
    ASSUME NEW n \in Seq(Names), NEW p \in Seq(Names), p # <<>>
    PROVE  IsStrictPrefix(n, p) <=> Front(p) = n \/ IsStrictPrefix(n, Front(p))
<1>1. /\ Front(p) \in Seq(Names) /\ Len(Front(p)) = Len(p) - 1
      /\ Len(p) \in Nat \ {0} /\ Len(n) \in Nat
      /\ \A k \in 1..Len(p) - 1 : Front(p)[k] = p[k]
  BY FrontOf
<1>2. IsPrefix(n, p) /\ Len(n) < Len(p) <=> IsPrefix(n, Front(p))
  <2>1. IsPrefix(n, p) <=> Len(n) =< Len(p) /\ \A k \in 1..Len(n) : n[k] = p[k]
    BY PrefixIs
  <2>2. IsPrefix(n, Front(p)) <=>
           Len(n) =< Len(Front(p)) /\ \A k \in 1..Len(n) : n[k] = Front(p)[k]
    BY <1>1, PrefixIs
  <2>3. CASE Len(n) < Len(p)
    <3>1. \A k \in 1..Len(n) : k \in 1..Len(p) - 1
      BY <1>1, <2>3
    <3> QED BY <1>1, <2>1, <2>2, <2>3, <3>1
  <2>4. CASE ~(Len(n) < Len(p))
    BY <1>1, <2>2, <2>4
  <2> QED BY <2>3, <2>4
<1>3. IsPrefix(n, Front(p)) <=> n = Front(p) \/ IsStrictPrefix(n, Front(p))
  BY <1>1, PrefixIs DEF IsStrictPrefix
<1> QED BY <1>2, <1>3, StrictPrefixIs

LEMMA ImageLies ==
    ASSUME NEW o \in Seq(Names), NEW n \in Seq(Names), NEW p \in Seq(Names),
           Len(o) =< Len(p)
    PROVE  /\ IsPrefix(n, Image(o, n, p))
           /\ Len(o) < Len(p) => IsStrictPrefix(n, Image(o, n, p))
           /\ Len(o) = Len(p) => Image(o, n, p) = n
<1> DEFINE q == Image(o, n, p)
<1>1. /\ q \in Seq(Names) /\ Len(q) = Len(n) + Len(p) - Len(o)
      /\ \A k \in 1..Len(n) : q[k] = n[k]
  BY ImageOf
<1>2. Len(o) \in Nat /\ Len(n) \in Nat /\ Len(p) \in Nat
  OBVIOUS
<1> HIDE DEF q
<1>3. IsPrefix(n, q)
  <2>1. Len(n) =< Len(q)
    BY <1>1, <1>2
  <2> QED BY <1>1, <2>1, PrefixIs
<1>4. Len(o) < Len(p) => IsStrictPrefix(n, q)
  BY <1>1, <1>2, <1>3, StrictPrefixIs
<1>5. ASSUME Len(o) = Len(p) PROVE q = n
  <2>1. Len(q) = Len(n)
    BY <1>1, <1>2, <1>5
  <2> QED BY <1>1, <2>1, SeqEqual
<1> QED BY <1>3, <1>4, <1>5 DEF q

LEMMA ImageSame ==
    ASSUME NEW o \in Seq(Names), NEW n \in Seq(Names), NEW p \in Seq(Names),
           Len(o) = Len(n), IsPrefix(n, p)
    PROVE  Image(o, n, p) = p
<1> DEFINE q == Image(o, n, p)
<1>1. /\ Len(n) =< Len(p) /\ \A k \in 1..Len(n) : n[k] = p[k]
      /\ Len(o) \in Nat /\ Len(n) \in Nat /\ Len(p) \in Nat
  BY PrefixIs
<1>2. /\ q \in Seq(Names) /\ Len(q) = Len(n) + Len(p) - Len(o)
      /\ \A k \in 1..Len(n) : q[k] = n[k]
      /\ \A k \in Len(n) + 1..Len(n) + Len(p) - Len(o) : q[k] = p[k - Len(n) + Len(o)]
  BY <1>1, ImageOf
<1> HIDE DEF q
<1>3. Len(q) = Len(p) /\ \A k \in 1..Len(p) : k \in 1..Len(n) \/ k \in Len(n) + 1..Len(p)
  BY <1>1, <1>2
<1>4. ASSUME NEW k \in Len(n) + 1..Len(p) PROVE q[k] = p[k]
  <2>1. k \in Len(n) + 1..Len(n) + Len(p) - Len(o) /\ k - Len(n) + Len(o) = k
    BY <1>1
  <2> QED BY <1>2, <2>1
<1>5. \A k \in 1..Len(q) : q[k] = p[k]
  BY <1>1, <1>2, <1>3, <1>4
<1>6. q = p
  BY <1>2, <1>3, <1>5, SeqEqual
<1> QED BY <1>6 DEF q

LEMMA FrontOfImage ==
    ASSUME NEW o \in Seq(Names), NEW n \in Seq(Names), NEW p \in Seq(Names),
           Len(o) < Len(p)
    PROVE  /\ p # <<>> /\ Image(o, n, p) # <<>> /\ Len(o) =< Len(Front(p))
           /\ Front(Image(o, n, p)) = Image(o, n, Front(p))
<1> DEFINE q == Image(o, n, p)  f == Front(p)  g == Image(o, n, f)
<1>1. Len(o) \in Nat /\ Len(n) \in Nat /\ Len(p) \in Nat /\ Len(p) # 0 /\ Len(o) =< Len(p)
  OBVIOUS
<1>2. <<>> \in Seq(Names) /\ Len(<<>>) = 0
  BY EmptySeq
<1>3. p # <<>>
  BY <1>1, <1>2
<1>4. /\ f \in Seq(Names) /\ Len(f) = Len(p) - 1
      /\ \A k \in 1..Len(p) - 1 : f[k] = p[k]
  BY <1>3, FrontOf
<1>5. /\ q \in Seq(Names) /\ Len(q) = Len(n) + Len(p) - Len(o)
      /\ \A k \in 1..Len(n) : q[k] = n[k]
      /\ \A k \in Len(n) + 1..Len(n) + Len(p) - Len(o) : q[k] = p[k - Len(n) + Len(o)]
  BY <1>1, ImageOf
<1>6. Len(o) =< Len(f)
  BY <1>1, <1>4
<1>7. /\ g \in Seq(Names) /\ Len(g) = Len(n) + Len(f) - Len(o)
      /\ \A k \in 1..Len(n) : g[k] = n[k]
      /\ \A k \in Len(n) + 1..Len(n) + Len(f) - Len(o) : g[k] = f[k - Len(n) + Len(o)]
  <2> HIDE DEF f
  <2> QED BY <1>4, <1>6, ImageOf
<1> HIDE DEF q, f, g
<1>8. Len(q) = Len(g) + 1 /\ Len(g) \in Nat /\ q # <<>>
  BY <1>1, <1>2, <1>4, <1>5, <1>6, <1>7
<1>9. /\ Front(q) \in Seq(Names) /\ Len(Front(q)) = Len(g)
      /\ \A k \in 1..Len(g) : Front(q)[k] = q[k]
  <2>1. Len(q) - 1 = Len(g)
    BY <1>8
  <2> QED BY <1>5, <1>8, <2>1, FrontOf
<1>10. ASSUME NEW k \in 1..Len(g) PROVE q[k] = g[k]
  <2>1. CASE k \in 1..Len(n)
    BY <1>5, <1>7, <2>1
  <2>2. CASE k \notin 1..Len(n)
    <3>1. /\ k \in Len(n) + 1..Len(n) + Len(f) - Len(o)
          /\ k \in Len(n) + 1..Len(n) + Len(p) - Len(o)
          /\ k - Len(n) + Len(o) \in 1..Len(p) - 1
      BY <1>1, <1>4, <1>6, <1>7, <2>2
    <3>2. g[k] = f[k - Len(n) + Len(o)] /\ q[k] = p[k - Len(n) + Len(o)]
      BY <1>5, <1>7, <3>1
    <3> QED BY <1>4, <3>1, <3>2
  <2> QED BY <2>1, <2>2
<1>11. Front(q) = g
  BY <1>7, <1>9, <1>10, SeqEqual
<1> QED BY <1>3, <1>6, <1>8, <1>11 DEF q, f, g

LEMMA AlikeIs ==
    ASSUME NEW p \in Seq(Names), NEW q \in Seq(Names)
    PROVE  AlikeAsFar(p, q) <=>
              \A k \in 1..Len(p) : k =< Len(q) => <<p[k], q[k]>> \in Alike
<1>1. DOMAIN p = 1..Len(p) /\ DOMAIN q = 1..Len(q) /\ Len(p) \in Nat /\ Len(q) \in Nat
  OBVIOUS
<1>2. \A k \in 1..Len(p) : k =< Len(q) <=> k \in DOMAIN p \cap DOMAIN q
  BY <1>1
<1>3. DOMAIN p \cap DOMAIN q \subseteq 1..Len(p)
  BY <1>1
<1> QED BY <1>2, <1>3 DEF AlikeAsFar

\* What lies in a directory that is matched name by name is matched too.
LEMMA MatchesFront ==
    ASSUME NEW o \in Seq(Names), NEW p \in Seq(Names), p # <<>>
    PROVE  /\ NamesMatch(o, Front(p)) => NamesMatch(o, p)
           /\ NamesMatch(o, p) /\ Len(Front(p)) # Len(o) => NamesMatch(o, Front(p))
<1>1. /\ Front(p) \in Seq(Names) /\ Len(Front(p)) = Len(p) - 1
      /\ Len(p) \in Nat \ {0} /\ Len(o) \in Nat
      /\ \A k \in 1..Len(p) - 1 : Front(p)[k] = p[k]
  BY FrontOf
<1>2. AlikeAsFar(o, p) <=> \A k \in 1..Len(o) : k =< Len(p) => <<o[k], p[k]>> \in Alike
  BY AlikeIs
<1>3. AlikeAsFar(o, Front(p)) <=>
         \A k \in 1..Len(o) : k =< Len(Front(p)) => <<o[k], Front(p)[k]>> \in Alike
  BY <1>1, AlikeIs
<1>4. ASSUME Len(o) < Len(p) - 1 PROVE AlikeAsFar(o, p) <=> AlikeAsFar(o, Front(p))
  <2>1. \A k \in 1..Len(o) : /\ k =< Len(p) /\ k =< Len(Front(p))
                             /\ k \in 1..Len(p) - 1
    BY <1>1, <1>4
  <2> QED BY <1>1, <1>2, <1>3, <2>1
<1> QED BY <1>1, <1>4 DEF NamesMatch

\* So is what does lie below.
LEMMA PrefixMatches ==
    ASSUME NEW o \in Seq(Names), NEW p \in Seq(Names), IsStrictPrefix(o, p)
    PROVE  NamesMatch(o, p)
<1>1. Len(o) < Len(p) /\ \A k \in 1..Len(o) : o[k] = p[k]
  BY StrictPrefixIs, PrefixIs
<1>2. \A k \in 1..Len(o) : <<o[k], p[k]>> \in Alike
  BY <1>1, ElementOfSeq, NamesAssumption
<1> QED BY <1>1, <1>2, AlikeIs DEF NamesMatch

\* The directories above a path are each above or below the other.
LEMMA PrefixesOf ==
    ASSUME NEW o \in Seq(Names), NEW n \in Seq(Names), NEW p \in Seq(Names),
           IsPrefix(o, p), IsPrefix(n, p)
    PROVE  IsPrefix(o, n) \/ IsPrefix(n, o)
<1>1. /\ \A k \in 1..Len(o) : o[k] = p[k]
      /\ \A k \in 1..Len(n) : n[k] = p[k]
      /\ Len(o) \in Nat /\ Len(n) \in Nat
  BY PrefixIs
<1>2. CASE Len(o) =< Len(n)
  BY <1>1, <1>2, PrefixIs
<1>3. CASE Len(n) =< Len(o)
  BY <1>1, <1>3, PrefixIs
<1> QED BY <1>1, <1>2, <1>3

\* A path alike to o is alike as far as any directory above it.
LEMMA AlikeAbove ==
    ASSUME NEW o \in Seq(Names), NEW n \in Seq(Names), NEW p \in Seq(Names),
           AlikeAsFar(o, p), IsPrefix(n, p)
    PROVE  AlikeAsFar(o, n)
<1>1. Len(n) =< Len(p) /\ \A k \in 1..Len(n) : n[k] = p[k]
  BY PrefixIs
<1>2. \A k \in 1..Len(o) : k =< Len(p) => <<o[k], p[k]>> \in Alike
  BY AlikeIs
<1>3. Len(n) \in Nat /\ Len(p) \in Nat /\ Len(o) \in Nat
  OBVIOUS
<1>4. \A k \in 1..Len(o) : k =< Len(n) => k \in 1..Len(n) /\ k =< Len(p)
  BY <1>1, <1>3
<1> QED BY <1>1, <1>2, <1>4, AlikeIs

----------------------------------------------------------------------------
(* The tree.                                                               *)

\* Every file is in a directory.
Connected == \A i \in Present \ {Root} : IsDir(Front(files[i].path))

\* The rows that LIKE matches name by name.
NameBelow(o) == {i \in Present : NamesMatch(o, files[i].path)}

\* A rename of o to n that has the rows of S still to move has moved all others
\* that LIKE matches.
Gone(o, n, S) == \A i \in NameBelow(o) : i \in S \/ IsStrictPrefix(n, files[i].path)

\* What it moves a second time stays where it is.
Once(o, n, S) == \A i \in S : IsStrictPrefix(n, files[i].path) => Len(o) = Len(n)

\* A row's directory is where its path says; or it has been moved ahead of the
\* row; or the row ahead of it, or ahead of the renamed directory itself.
Parented(o, n, S) ==
    \A i \in Present \ {Root} :
        LET p == files[i].path
        IN  \/ IsDir(Front(p))
            \/ i \in S /\ IsDir(Image(o, n, Front(p)))
            \/ /\ IsStrictPrefix(n, p)
               /\ \/ Front(p) = n
                  \/ \E j \in S : files[j].dir /\ Image(o, n, files[j].path) = Front(p)

Halfway(o, n, S) == Once(o, n, S) /\ Parented(o, n, S)

\* While a rename moves rows, unless it came after one that was cut short.
MovingInv ==
    op.kind = "move" /\ cut \in {NoCut, <<op.old, op.new>>} =>
        /\ ~IsPrefix(op.new, op.old)
        /\ files[op.id].dir =>
              /\ Gone(op.old, op.new, op.todo)
              /\ ~TakesParent => /\ IsDir(Front(op.new))
                                 /\ Halfway(op.old, op.new, op.todo)
        /\ ~files[op.id].dir => Connected /\ IsDir(Front(op.new))

WholeInv ==
    op.kind # "move" /\ cut = NoCut =>
        Connected /\ (op.kind = "replace" => IsDir(Front(op.new)))

\* After a rename that was cut short, and before anything else is changed.
CutInv ==
    op.kind # "move" /\ cut \in Paths \X Paths =>
        LET o == cut[1]  n == cut[2]
        IN  /\ ~Exists(n) /\ ~IsPrefix(n, o) /\ Exists(o)
            /\ IsDir(o) => Halfway(o, n, NameBelow(o))
            /\ ~IsDir(o) => Connected

TreeInv == MovingInv /\ WholeInv /\ CutInv

\* A directory is a row.
LEMMA DirIs ==
    ASSUME Unique
    PROVE  \A q : IsDir(q) <=> \E d \in Present : files[d].path = q /\ files[d].dir
<1> TAKE q
<1>1. ASSUME IsDir(q) PROVE \E d \in Present : files[d].path = q /\ files[d].dir
  BY <1>1, LookupFinds DEF IsDir
<1>2. ASSUME NEW d \in Present, files[d].path = q, files[d].dir PROVE IsDir(q)
  BY <1>2, LookupIs DEF IsDir
<1> QED BY <1>1, <1>2

LEMMA ExistsIs ==
    \A q : Exists(q) <=> \E d \in Present : files[d].path = q
BY DEF Exists, With

\* The same after a step.
LEMMA DirIsNext ==
    ASSUME Unique'
    PROVE  \A q : IsDir(q)' <=> \E d \in Present' : files'[d].path = q /\ files'[d].dir
<1> TAKE q
<1>1. Exists(q)' => Lookup(q)' \in With(q)'
  BY DEF Exists, Lookup
<1>2. \A d : d \in With(q)' <=> d \in Present' /\ files'[d].path = q
  BY DEF With
<1>3. \A d, e \in With(q)' : d = e
  BY <1>2 DEF Unique, Present
<1>4. Exists(q)' <=> \E d : d \in With(q)'
  BY DEF Exists
<1>5. IsDir(q)' <=> Exists(q)' /\ files'[Lookup(q)'].dir
  BY DEF IsDir
<1> QED BY <1>1, <1>2, <1>3, <1>4, <1>5

\* The directories above a file are there.
LEMMA AncestorsAre ==
    ASSUME TypeOK, RowsInv, Connected, NEW i \in Present, NEW n \in Seq(Names),
           IsStrictPrefix(n, files[i].path)
    PROVE  IsDir(n)
<1> DEFINE J == {j \in Present : IsStrictPrefix(n, files[j].path)}
           T == {Len(files[j].path) : j \in J}
<1>1. \A j \in Present : files[j].path \in Seq(Names)
  BY RowsTyped, PathIsSeq
<1>2. T \subseteq Nat /\ T # {}
  <2>1. \A j \in J : Len(files[j].path) \in Nat
    BY <1>1
  <2>2. i \in J
    OBVIOUS
  <2> QED BY <2>1, <2>2
<1>3. PICK t \in T : \A u \in T : t =< u
  <2> HIDE DEF T
  <2> QED BY <1>2, NaturalsHaveMinimum
<1>4. PICK j \in J : t = Len(files[j].path)
  BY <1>3
<1> DEFINE p == files[j].path
<1>5. p \in Seq(Names) /\ Len(n) < Len(p) /\ Len(n) \in Nat /\ Len(p) \in Nat
  BY <1>1, <1>4, StrictPrefixIs
<1>6. <<>> \in Seq(Names) /\ Len(<<>>) = 0
  BY EmptySeq
<1>7. p # <<>> /\ Len(Front(p)) = Len(p) - 1
  BY <1>5, <1>6, FrontOf
<1>8. j # Root
  BY <1>7 DEF RowsInv
<1>9. IsDir(Front(p))
  BY <1>4, <1>8 DEF Connected
<1>10. PICK d \in Present : files[d].path = Front(p)
  BY <1>9, LookupFinds DEF IsDir
<1>11. ASSUME IsStrictPrefix(n, Front(p)) PROVE FALSE
  <2>1. d \in J /\ Len(files[d].path) \in T
    BY <1>10, <1>11
  <2>2. Len(p) =< Len(p) - 1
    BY <1>3, <1>4, <1>7, <1>10, <2>1
  <2> QED BY <1>5, <2>2
<1>12. Front(p) = n
  BY <1>4, <1>5, <1>7, <1>11, StrictPrefixFront
<1> QED BY <1>9, <1>12

\* One more row moved.
LEMMA RowMovedHalfway ==
    ASSUME TypeOK, RowsInv, Unique',
           NEW o \in Seq(Names), NEW n \in Seq(Names), NEW S, NEW i \in S,
           NEW old, NEW new, old = files[i].path, new = Image(o, n, old),
           \A j \in S : j \in Present /\ NamesMatch(o, files[j].path),
           ~Exists(n), Gone(o, n, S), Halfway(o, n, S),
           Present' = Present, files'[i].path = new, files'[i].dir = files[i].dir,
           \A j \in Present \ {i} : files'[j] = files[j]
    PROVE  Halfway(o, n, S \ {i})'
<1>1. /\ \A j \in Present : files[j].path \in Seq(Names)
      /\ i \in Present /\ NamesMatch(o, old) /\ old \in Seq(Names) /\ Len(o) < Len(old)
  BY RowsTyped, PathIsSeq DEF NamesMatch
<1>2. \A q : IsDir(q) <=> \E d \in Present : files[d].path = q /\ files[d].dir
  BY RowsTyped, DirIs
<1>3. \A q : IsDir(q)' <=> \E d \in Present : files'[d].path = q /\ files'[d].dir
  BY DirIsNext
<1>4. \A j \in Present : files[j].path # n
  BY ExistsIs
<1>5. \A q : IsDir(q) /\ (q # old \/ new = old) => IsDir(q)'
  BY <1>2, <1>3
<1>6. IsDir(old) => IsDir(new)'
  BY <1>1, <1>2, <1>3, RowsTyped DEF Unique, Present
<1>7. IsPrefix(n, old) => new = old
  <2>1. ASSUME IsPrefix(n, old) PROVE Len(o) = Len(n)
    BY <1>1, <1>4, <2>1 DEF IsStrictPrefix, Halfway, Once
  <2> QED BY <1>1, <2>1, ImageSame
<1>8. \A q \in Seq(Names) : Len(o) =< Len(q) /\ Image(o, n, q) = old => new = old
  BY <1>7, ImageLies
<1>9. Once(o, n, S \ {i})'
  BY DEF Halfway, Once
<1>10. IsStrictPrefix(n, new)
  BY <1>1, ImageLies
<1>11. ASSUME NEW j \in Present \ {Root}, NEW p, p = files[j].path
       PROVE  /\ p \in Seq(Names) /\ p # <<>> /\ Front(p) \in Seq(Names)
              /\ IsStrictPrefix(n, p) <=> Front(p) = n \/ IsStrictPrefix(n, Front(p))
              /\ j \in S => Len(o) < Len(p) /\ Len(o) =< Len(Front(p))
              /\ \/ IsDir(Front(p))
                 \/ j \in S /\ IsDir(Image(o, n, Front(p)))
                 \/ /\ IsStrictPrefix(n, p)
                    /\ \/ Front(p) = n
                       \/ \E k \in S : files[k].dir /\ Image(o, n, files[k].path) = Front(p)
  <2>1. p \in Seq(Names) /\ p # <<>>
    BY <1>1, <1>11, RootIsPresent, RowsTyped DEF RowsInv, Unique, Present
  <2>2. j \in S => Len(o) < Len(p) /\ Len(o) =< Len(Front(p))
    BY <1>1, <1>11, <2>1, FrontOfImage DEF NamesMatch
  <2> QED BY <1>11, <2>1, <2>2, FrontOf, StrictPrefixFront DEF Halfway, Parented
\* The other rows.
<1>12. ASSUME NEW j \in Present \ {Root, i}, NEW p, p = files[j].path
       PROVE  \/ IsDir(Front(p))'
              \/ j \in S \ {i} /\ IsDir(Image(o, n, Front(p)))'
              \/ /\ IsStrictPrefix(n, p)
                 /\ \/ Front(p) = n
                    \/ \E k \in S \ {i} : /\ files'[k].dir
                                          /\ Image(o, n, files'[k].path) = Front(p)
  <2>1. CASE IsDir(Front(p)) /\ (Front(p) # old \/ new = old)
    BY <1>5, <2>1
  <2>2. CASE IsDir(Front(p)) /\ Front(p) = old /\ new # old
    <3>1. ~IsStrictPrefix(n, p)
      BY <1>1, <1>4, <1>7, <1>11, <1>12, <2>2 DEF IsStrictPrefix
    <3>2. NamesMatch(o, p)
      BY <1>1, <1>11, <1>12, <2>2, MatchesFront
    <3>3. j \in S
      BY <1>12, <3>1, <3>2 DEF Gone, NameBelow
    <3> QED BY <1>6, <2>2, <3>3
  <2>3. CASE j \in S /\ IsDir(Image(o, n, Front(p)))
    <3>1. Image(o, n, Front(p)) # old \/ new = old
      BY <1>8, <1>11, <1>12, <2>3
    <3> QED BY <1>5, <2>3, <3>1
  <2>4. CASE IsStrictPrefix(n, p) /\ Front(p) = n
    BY <2>4
  <2>5. CASE /\ IsStrictPrefix(n, p)
             /\ \E k \in S : files[k].dir /\ Image(o, n, files[k].path) = Front(p)
    <3>1. PICK k \in S : files[k].dir /\ Image(o, n, files[k].path) = Front(p)
      BY <2>5
    <3>2. CASE k = i
      <4>1. IsDir(new)' /\ new = Front(p)
        BY <1>1, <1>3, <3>1, <3>2
      <4> QED BY <4>1
    <3>3. CASE k # i
      <4>1. k \in S \ {i} /\ files'[k] = files[k]
        BY <3>3
      <4> QED BY <2>5, <3>1, <4>1
    <3> QED BY <3>2, <3>3
  <2> QED BY <1>11, <1>12, <2>1, <2>2, <2>3, <2>4, <2>5
\* The row itself.
<1>13. /\ Front(new) = Image(o, n, Front(old)) /\ Len(o) =< Len(Front(old))
       /\ old # <<>> /\ Len(Front(old)) = Len(old) - 1
  BY <1>1, FrontOfImage, FrontOf
<1>14. i # Root
  BY <1>13 DEF RowsInv
<1>15. \/ IsDir(Front(new))'
       \/ Front(new) = n
       \/ \E k \in S \ {i} : files'[k].dir /\ Image(o, n, files'[k].path) = Front(new)
  <2>1. CASE IsDir(Front(old))
    <3>1. CASE Len(Front(old)) = Len(o)
      BY <1>11, <1>13, <1>14, <3>1, ImageLies
    <3>2. CASE Len(Front(old)) # Len(o)
      <4>1. PICK d \in Present : files[d].path = Front(old) /\ files[d].dir
        BY <1>2, <2>1
      <4>2. Len(old) \in Nat /\ Front(old) # old
        BY <1>1, <1>13
      <4>3. d # i /\ files'[d] = files[d]
        BY <4>1, <4>2
      <4>4. NamesMatch(o, Front(old))
        BY <1>1, <1>13, <3>2, MatchesFront
      <4>5. d \in S \/ IsStrictPrefix(n, Front(old))
        BY <4>1, <4>4 DEF Gone, NameBelow
      <4>6. CASE d \in S
        BY <1>13, <4>1, <4>3, <4>6
      <4>7. CASE IsStrictPrefix(n, Front(old))
        <5>1. IsStrictPrefix(n, old)
          BY <1>11, <1>14, <4>7
        <5>2. Len(o) = Len(n)
          BY <5>1 DEF Halfway, Once
        <5>3. Image(o, n, Front(old)) = Front(old)
          BY <1>11, <1>14, <4>7, <5>2, ImageSame DEF IsStrictPrefix
        <5> QED BY <1>5, <1>13, <2>1, <4>2, <5>3
      <4> QED BY <4>5, <4>6, <4>7
    <3> QED BY <3>1, <3>2
  <2>2. CASE IsDir(Image(o, n, Front(old)))
    <3>1. Front(old) \in Seq(Names)
      BY <1>11, <1>14
    <3>2. Front(new) # old \/ new = old
      BY <1>8, <1>13, <3>1
    <3> QED BY <1>5, <1>13, <2>2, <3>2
  <2>3. CASE IsStrictPrefix(n, old)
    <3>1. new = old
      BY <1>7, <2>3 DEF IsStrictPrefix
    <3>2. CASE Front(old) = n
      BY <3>1, <3>2
    <3>3. CASE \E k \in S : files[k].dir /\ Image(o, n, files[k].path) = Front(old)
      <4>1. PICK k \in S : files[k].dir /\ Image(o, n, files[k].path) = Front(old)
        BY <3>3
      <4>2. Len(old) \in Nat /\ Front(old) # old
        BY <1>1, <1>13
      <4>3. k # i
        BY <3>1, <4>1, <4>2
      <4>4. k \in S \ {i} /\ files'[k] = files[k]
        BY <4>3
      <4> QED BY <3>1, <4>1, <4>4
    <3>4. CASE IsDir(Front(old))
      BY <2>1, <3>4
    <3>5. CASE IsDir(Image(o, n, Front(old)))
      BY <2>2, <3>5
    <3> QED BY <1>1, <1>11, <1>14, <3>2, <3>3, <3>4, <3>5
  <2> QED BY <1>1, <1>11, <1>14, <2>1, <2>2, <2>3
<1>16. Parented(o, n, S \ {i})'
  <2> SUFFICES ASSUME NEW j \in Present \ {Root}, NEW p, p = files'[j].path
               PROVE  \/ IsDir(Front(p))'
                      \/ j \in S \ {i} /\ IsDir(Image(o, n, Front(p)))'
                      \/ /\ IsStrictPrefix(n, p)
                         /\ \/ Front(p) = n
                            \/ \E k \in S \ {i} : /\ files'[k].dir
                                                  /\ Image(o, n, files'[k].path) = Front(p)
    BY DEF Parented
  <2>1. CASE j = i
    BY <1>10, <1>15, <2>1
  <2>2. CASE j # i
    BY <1>12, <2>2
  <2> QED BY <2>1, <2>2
<1> QED BY <1>9, <1>16 DEF Halfway

LEMMA Cuts ==
    /\ Damaged # NoCut /\ Damaged \notin Paths \X Paths /\ NoCut \notin Paths \X Paths
    /\ \A o, n : <<o, n>> # NoCut /\ <<o, n>> # Damaged
    /\ Spoilt \in {NoCut, Damaged} /\ (Spoilt = NoCut => cut = NoCut)
<1>1. DOMAIN Damaged = 1..1 /\ DOMAIN NoCut = 1..0
  BY DEF Damaged, NoCut
<1>2. \A o, n : DOMAIN <<o, n>> = 1..2
  OBVIOUS
<1>3. 2 \in 1..2 /\ 2 \notin 1..1 /\ 2 \notin 1..0 /\ 1 \in 1..1 /\ 1 \notin 1..0
  OBVIOUS
<1>4. \A o, n : <<o, n>> # NoCut /\ <<o, n>> # Damaged
  BY <1>1, <1>2, <1>3
<1>5. \A c \in Paths \X Paths : c = <<c[1], c[2]>>
  OBVIOUS
<1>6. Damaged \notin Paths \X Paths /\ NoCut \notin Paths \X Paths
  BY <1>4, <1>5
<1> QED BY <1>1, <1>3, <1>4, <1>6 DEF Spoilt

\* The tree is that of the paths and types of rows.
LEMMA SameTree ==
    ASSUME Unique, Unique', Present' = Present,
           \A i \in Present : files'[i].path = files[i].path /\ files'[i].dir = files[i].dir
    PROVE  /\ \A q : /\ IsDir(q)' <=> IsDir(q)
                     /\ Exists(q)' <=> Exists(q)
                     /\ NameBelow(q)' = NameBelow(q)
           /\ Connected' <=> Connected
           /\ \A o, n, S : S \subseteq Present => (Halfway(o, n, S)' <=> Halfway(o, n, S))
<1>1. \A q : IsDir(q)' <=> IsDir(q)
  BY DirIs, DirIsNext
<1>2. \A q : Exists(q)' <=> Exists(q)
  BY DEF Exists, With
<1>3. \A q : NameBelow(q)' = NameBelow(q)
  BY DEF NameBelow
<1>4. Connected' <=> Connected
  BY <1>1 DEF Connected
<1>5. ASSUME NEW o, NEW n, NEW S, S \subseteq Present
      PROVE  Halfway(o, n, S)' <=> Halfway(o, n, S)
  <2>1. Once(o, n, S)' <=> Once(o, n, S)
    BY <1>5 DEF Once
  <2>2. Parented(o, n, S)' <=> Parented(o, n, S)
    BY <1>1, <1>5 DEF Parented
  <2> QED BY <2>1, <2>2 DEF Halfway
<1> QED BY <1>1, <1>2, <1>3, <1>4, <1>5

LEMMA CutStays ==
    ASSUME CutInv, TypeOK, Unique', Present' = Present,
           \A i \in Present : files'[i].path = files[i].path /\ files'[i].dir = files[i].dir,
           op.kind # "move", cut' = cut
    PROVE  CutInv'
<1> SUFFICES ASSUME cut \in Paths \X Paths, NEW o, NEW n, o = cut[1], n = cut[2]
             PROVE  /\ ~Exists(n)' /\ ~IsPrefix(n, o) /\ Exists(o)'
                    /\ IsDir(o)' => Halfway(o, n, NameBelow(o))'
                    /\ ~IsDir(o)' => Connected'
  BY DEF CutInv
<1>1. Unique
  BY RowsTyped
<1>2. NameBelow(o) \subseteq Present /\ NameBelow(o)' = NameBelow(o)
  BY <1>1, SameTree DEF NameBelow
<1>3. Halfway(o, n, NameBelow(o))' <=> Halfway(o, n, NameBelow(o))
  <2>1. \A S : S \subseteq Present => (Halfway(o, n, S)' <=> Halfway(o, n, S))
    BY <1>1, SameTree
  <2> QED BY <1>2, <2>1
<1> QED BY <1>1, <1>3, SameTree DEF CutInv

\* Any other request spoils what a rename cut short has left.
LEMMA ChangeKeepsTree ==
    ASSUME TypeOK, op'.kind = "idle", cut' = Spoilt, cut = NoCut => Connected'
    PROVE  TreeInv'
<1>1. cut' \in {NoCut, Damaged} /\ (cut' = NoCut => cut = NoCut)
  BY Cuts
<1>2. MovingInv' /\ WholeInv'
  BY <1>1 DEF MovingInv, WholeInv
<1>3. CutInv'
  BY <1>1, Cuts DEF CutInv
<1> QED BY <1>2, <1>3 DEF TreeInv

LEMMA CreateKeepsTree ==
    ASSUME TreeInv, FilesInv, FilesInv', NEW p \in Paths, NEW isDir \in BOOLEAN,
           Create(p, isDir)
    PROVE  TreeInv'
<1>1. PICK i \in Ids \ Present :
          \E d \in 0..MaxDepth :
             files' = [files EXCEPT ![i] = [path |-> p, depth |-> d, dir |-> isDir]]
  BY InsertAdds DEF Create, FilesInv
<1> DEFINE r == files'[i]
<1>2. /\ op.kind = "idle" /\ op'.kind = "idle" /\ cut' = Spoilt
      /\ IsDir(Front(p))
  BY DEF Create, Idle
<1>3. Unique /\ Unique' /\ Present \subseteq Ids
  BY RowsTyped DEF FilesInv, TypeOK, Unique
<1>4. r.path = p /\ \A j \in Ids \ {i} : files'[j] = files[j]
  BY <1>1 DEF FilesInv, TypeOK
<1> HIDE DEF r
<1>5. Present' \subseteq Present \cup {i} /\ Present \subseteq Present'
  BY <1>3, <1>4 DEF Present
<1>6. \A q : IsDir(q) => IsDir(q)'
  BY <1>3, <1>4, <1>5, DirIs, DirIsNext
<1>7. cut = NoCut => Connected'
  BY <1>2, <1>3, <1>4, <1>5, <1>6 DEF Connected, TreeInv, WholeInv, r
<1> QED BY <1>2, <1>7, ChangeKeepsTree DEF FilesInv

\* A row removed, in which no other lies.
LEMMA RowRemoved ==
    ASSUME TypeOK, Unique', Connected, NEW i \in Present, Present' = Present \ {i},
           \A j \in Ids \ {i} : files'[j] = files[j],
           files[i].dir => \A j \in Present \ {Root} : Front(files[j].path) # files[i].path
    PROVE  /\ Connected'
           /\ \A q : IsDir(q) /\ q # files[i].path => IsDir(q)'
<1>1. Unique /\ Present \subseteq Ids
  BY RowsTyped
<1>2. \A q : IsDir(q) => \E d \in Present : files[d].path = q /\ files[d].dir
  BY <1>1, DirIs
<1>3. \A q : IsDir(q)' <=> \E d \in Present' : files'[d].path = q /\ files'[d].dir
  BY DirIsNext
<1>4. \A q : IsDir(q) /\ q # files[i].path => IsDir(q)'
  BY <1>1, <1>2, <1>3
<1>5. ASSUME NEW j \in Present' \ {Root}, NEW p, p = files[j].path PROVE IsDir(Front(p))'
  <2>1. PICK d \in Present : files[d].path = Front(p) /\ files[d].dir
    BY <1>2, <1>5 DEF Connected
  <2>2. d # i
    BY <1>5, <2>1
  <2>3. d \in Present' /\ files'[d] = files[d]
    BY <1>1, <2>2
  <2> QED BY <1>3, <2>1, <2>3
<1>6. Connected'
  BY <1>1, <1>5 DEF Connected
<1> QED BY <1>4, <1>6

\* An empty directory has no child.
LEMMA EmptyHasNoChild ==
    ASSUME FilesInv, ~strayed, NEW i \in Present, DirEmpty(files[i].path)
    PROVE  \A j \in Present \ {Root} : Front(files[j].path) # files[i].path
BY ChildrenListed DEF ListsEveryChild, DirEmpty

LEMMA RmdirKeepsTree ==
    ASSUME TreeInv, FilesInv, ~strayed, NEW p \in Paths, Rmdir(p)
    PROVE  TreeInv'
<1> DEFINE i == Lookup(p)
<1>1. /\ op.kind = "idle" /\ op'.kind = "idle" /\ cut' = Spoilt
      /\ DirEmpty(p) /\ IsDir(p) /\ DeleteRow(i)
  BY DEF Rmdir, Idle
<1>2. i \in Present /\ files[i].path = p /\ Present \subseteq Ids /\ TypeOK
  BY <1>1, LookupFinds, RowsTyped DEF IsDir, FilesInv
<1> HIDE DEF i
<1>3. Unique' /\ Present' = Present \ {i} /\ \A j \in Ids \ {i} : files'[j] = files[j]
  BY <1>1, <1>2, RowDeleted
<1>4. \A j \in Present \ {Root} : Front(files[j].path) # files[i].path
  BY <1>1, <1>2, EmptyHasNoChild
<1>5. cut = NoCut => Connected
  BY <1>1 DEF TreeInv, WholeInv
<1>6. cut = NoCut => Connected'
  BY <1>2, <1>3, <1>4, <1>5, RowRemoved
<1> QED BY <1>1, <1>2, <1>6, ChangeKeepsTree

LEMMA UnlinkKeepsTree ==
    ASSUME TreeInv, FilesInv, NEW p \in Paths, Unlink(p)
    PROVE  TreeInv'
<1> DEFINE d == Lookup(p)
<1>1. /\ op.kind = "idle" /\ op'.kind = "idle" /\ cut' = Spoilt
      /\ d \in Present /\ ~files[d].dir /\ DeleteRow(d)
  BY LookupFinds DEF Unlink, IsFile, Idle
<1> HIDE DEF d
<1>2. Present \subseteq Ids /\ TypeOK
  BY RowsTyped DEF FilesInv
<1>3. Unique' /\ Present' = Present \ {d} /\ \A j \in Ids \ {d} : files'[j] = files[j]
  BY <1>1, <1>2, RowDeleted
<1>4. cut = NoCut => Connected
  BY <1>1 DEF TreeInv, WholeInv
<1>5. cut = NoCut => Connected'
  BY <1>1, <1>2, <1>3, <1>4, RowRemoved
<1> QED BY <1>1, <1>2, <1>5, ChangeKeepsTree

\* A rename is about to move the first row of a whole tree.
MoveStarts ==
    /\ op.kind = "move" /\ op.todo = ToMove(op.old)
    /\ Connected /\ IsDir(Front(op.new))

LEMMA MoveBegins == FilesInv /\ ~strayed /\ MoveStarts => MovingInv
<1> SUFFICES ASSUME FilesInv, ~strayed, MoveStarts PROVE MovingInv
  OBVIOUS
<1> DEFINE o == op.old  n == op.new  S == op.todo
<1>1. /\ op.kind = "move" /\ S = ToMove(o) /\ Connected /\ IsDir(Front(n))
      /\ op.id \in Present /\ files[op.id].path = o /\ ~IsPrefix(o, n) /\ ~Exists(n)
      /\ \A i \in S : NamesMatch(o, files[i].path)
  BY DEF MoveStarts, FilesInv, RenameInv
<1>2. o \in Seq(Names) /\ n \in Seq(Names) /\ TypeOK /\ RowsInv
  BY <1>1, OpKinds, PathIsSeq DEF FilesInv
<1>3. IsDir(o) <=> files[op.id].dir
  BY <1>1, RowsTyped, LookupIs DEF FilesInv, IsDir
<1> HIDE DEF o, n, S
<1>4. \A i \in Present : ~IsStrictPrefix(n, files[i].path)
  <2>1. ASSUME NEW i \in Present, IsStrictPrefix(n, files[i].path) PROVE FALSE
    BY <1>1, <1>2, <2>1, AncestorsAre DEF IsDir
  <2> QED BY <2>1
<1>5. ~IsPrefix(n, o)
  <2>1. SUFFICES ASSUME IsPrefix(n, o) PROVE FALSE
    OBVIOUS
  <2>2. n # o
    BY <1>1, <1>2, <2>1
  <2> QED BY <1>1, <1>4, <2>1, <2>2 DEF IsStrictPrefix
<1>6. files[op.id].dir => S = NameBelow(o) /\ S \subseteq Present
  BY <1>1, <1>3 DEF ToMove, Below, NameBelow, Matches
<1>7. files[op.id].dir => Gone(o, n, S)
  BY <1>6 DEF Gone
<1>8. files[op.id].dir => Halfway(o, n, S)
  BY <1>1, <1>4, <1>6 DEF Halfway, Once, Parented, Connected
<1> QED BY <1>1, <1>5, <1>7, <1>8 DEF MovingInv, o, n, S

LEMMA RenameKeepsTree ==
    ASSUME TreeInv, FilesInv, FilesInv', ~strayed', NEW old \in Paths, NEW new \in Paths,
           Rename(old, new)
    PROVE  TreeInv'
<1>1. /\ files' = files /\ cut' = cut /\ op.kind = "idle" /\ Exists(old)
      /\ IsDir(Front(new)) /\ TypeOK /\ Unique /\ Unique'
  BY RowsTyped DEF Rename, RenameAllowed, Idle, FilesInv, TypeOK, Unique
<1>2. /\ op'.kind = (IF Exists(new) THEN "replace" ELSE "move")
      /\ op'.id = Lookup(old) /\ op'.old = old /\ op'.new = new
      /\ op'.todo = IF Exists(new) THEN {} ELSE ToMove(old)
      /\ ~Strays(old, op'.todo)
  BY DEF Rename
<1>3. /\ Present' = Present
      /\ \A i \in Present : files'[i].path = files[i].path /\ files'[i].dir = files[i].dir
  BY <1>1, SameRows
<1>4. Connected' <=> Connected
  BY <1>1, <1>3, SameTree
<1>5. IsDir(Front(op.new))' /\ ToMove(op.old)' = ToMove(old)
  <2>1. IsDir(Front(op.new))' <=> IsDir(Front(new))
    BY <1>1, <1>2, SameRows
  <2>2. ToMove(op.old)' = ToMove(old)
    BY <1>1, <1>2, SameRows
  <2> QED BY <1>1, <2>1, <2>2
<1>6. WholeInv'
  BY <1>1, <1>4, <1>5 DEF WholeInv, TreeInv
<1>7. CutInv'
  BY <1>1, <1>3, CutStays DEF TreeInv
<1>8. CASE cut = NoCut /\ op'.kind = "move"
  <2>1. Connected
    BY <1>1, <1>8 DEF TreeInv, WholeInv
  <2>2. MoveStarts'
    BY <1>2, <1>4, <1>5, <1>8, <2>1 DEF MoveStarts
  <2>3. MovingInv'
    BY <2>2, MoveBegins, PTL
  <2> QED BY <1>6, <1>7, <2>3 DEF TreeInv
<1>9. CASE cut = <<old, new>> /\ op'.kind = "move"
  <2>1. cut \in Paths \X Paths /\ cut[1] = old /\ cut[2] = new
    BY <1>9
  <2>2. /\ ~IsPrefix(new, old)
        /\ IsDir(old) => Halfway(old, new, NameBelow(old))
        /\ ~IsDir(old) => Connected
    BY <1>1, <2>1 DEF TreeInv, CutInv
  <2>3. files'[op'.id].dir <=> IsDir(old)
    BY <1>1, <1>2 DEF IsDir
  <2>4. IsDir(old) => op'.todo = NameBelow(old)
    BY <1>2, <1>9 DEF ToMove, Strays, Below, NameBelow, Matches
  <2>5. NameBelow(old) \subseteq Present /\ NameBelow(old)' = NameBelow(old)
    BY <1>1, <1>3 DEF NameBelow
  <2>6. IsDir(old) => Halfway(old, new, NameBelow(old))'
    <3>1. \A S : S \subseteq Present => (Halfway(old, new, S)' <=> Halfway(old, new, S))
      BY <1>1, <1>3, SameTree
    <3> QED BY <2>2, <2>5, <3>1
  <2>7. IsDir(old) => Halfway(op.old, op.new, op.todo)'
    BY <1>2, <2>4, <2>5, <2>6
  <2>8. IsDir(old) => Gone(op.old, op.new, op.todo)'
    BY <1>2, <2>4, <2>5 DEF Gone
  <2>9. MovingInv'
    BY <1>2, <1>4, <1>5, <2>2, <2>3, <2>7, <2>8 DEF MovingInv
  <2> QED BY <1>6, <1>7, <2>9 DEF TreeInv
<1>10. CASE cut \notin {NoCut, <<old, new>>} \/ op'.kind # "move"
  <2>1. MovingInv'
    BY <1>1, <1>2, <1>10 DEF MovingInv
  <2> QED BY <1>6, <1>7, <2>1 DEF TreeInv
<1> QED BY <1>8, <1>9, <1>10

LEMMA RenameReplacesKeepsTree ==
    ASSUME TreeInv, FilesInv, FilesInv', ~strayed, ~strayed', RenameReplaces
    PROVE  TreeInv'
<1> DEFINE i == Lookup(op.new)
<1>1. /\ op.kind = "replace" /\ Exists(op.new) /\ op.new # <<>> /\ DeleteRow(i)
      /\ op.id \in Present /\ files[op.id].path = op.old /\ op.old # op.new
      /\ IsDir(op.new) => DirEmpty(op.new)
      /\ cut' = IF cut = <<op.old, op.new>> THEN cut ELSE Spoilt
  BY DEF FilesInv, RenameInv, RenameReplaces
<1>2. i \in Present /\ files[i].path = op.new /\ Present \subseteq Ids /\ TypeOK /\ Unique
  BY <1>1, LookupFinds, RowsTyped DEF FilesInv
<1>3. /\ op'.kind = "move" /\ op'.old = op.old /\ op'.new = op.new
      /\ op'.todo = ToMove(op.old) \ {i}
  <2>1. op \in [kind : {"replace", "move"}, id : Ids, old : Paths, new : Paths,
                depth : 0..MaxDepth, todo : SUBSET Ids]
    BY <1>1, <1>2 DEF TypeOK, Idle
  <2> QED BY <2>1 DEF RenameReplaces
<1>4. WholeInv' /\ CutInv'
  BY <1>3 DEF WholeInv, CutInv
<1> HIDE DEF i
<1>5. Unique' /\ Present' = Present \ {i} /\ \A j \in Ids \ {i} : files'[j] = files[j]
  BY <1>1, <1>2, RowDeleted
<1>6. files[i].dir => \A j \in Present \ {Root} : Front(files[j].path) # files[i].path
  <2>1. files[i].dir => IsDir(op.new)
    BY <1>1, <1>2 DEF IsDir, i
  <2> QED BY <1>1, <1>2, <2>1, EmptyHasNoChild
<1>7. cut # <<op.old, op.new>>
  <2>1. op.old \in Paths /\ op.new \in Paths
    BY <1>1, <1>2, OpKinds
  <2>2. ASSUME cut = <<op.old, op.new>> PROVE cut \in Paths \X Paths /\ cut[2] = op.new
    BY <2>1, <2>2
  <2> QED BY <1>1, <2>2 DEF TreeInv, CutInv
<1>8. CASE cut = NoCut
  <2>1. Connected /\ IsDir(Front(op.new))
    BY <1>1, <1>8 DEF TreeInv, WholeInv
  <2>2. Connected' /\ \A q : IsDir(q) /\ q # op.new => IsDir(q)'
    BY <1>2, <1>5, <1>6, <2>1, RowRemoved
  <2>3. IsDir(Front(op.new))'
    <3>1. op.new \in Seq(Names)
      BY <1>1, <1>2, OpKinds, PathIsSeq
    <3>2. Len(Front(op.new)) = Len(op.new) - 1 /\ Len(op.new) \in Nat
      BY <1>1, <3>1, FrontOf
    <3>3. Front(op.new) # op.new
      BY <3>2
    <3> QED BY <1>3, <2>1, <2>2, <3>3
  <2>4. op'.todo = ToMove(op.old)'
    <3>1. Lookup(op.old) = op.id /\ i # op.id
      BY <1>1, <1>2, LookupIs
    <3>2. op.id \in Present' /\ files'[op.id] = files[op.id]
      BY <1>1, <1>2, <1>5, <3>1
    <3>3. IsDir(op.old)' <=> files[op.id].dir
      BY <1>1, <1>3, <1>5, <3>2, DirIsNext DEF Unique, Present
    <3>4. IsDir(op.old) <=> files[op.id].dir
      BY <1>1, <1>2, <3>1, LookupIs DEF IsDir
    <3>5. Below(op.old)' = Below(op.old) \ {i}
      BY <1>2, <1>3, <1>5 DEF Below
    <3> QED BY <1>3, <3>3, <3>4, <3>5 DEF ToMove
  <2>5. MoveStarts'
    BY <1>3, <2>2, <2>3, <2>4 DEF MoveStarts
  <2>6. MovingInv'
    BY <2>5, MoveBegins, PTL
  <2> QED BY <1>4, <2>6 DEF TreeInv
<1>9. CASE cut # NoCut
  <2>1. cut' = Damaged
    BY <1>1, <1>7, <1>9 DEF Spoilt
  <2>2. MovingInv'
    BY <1>3, <2>1, Cuts DEF MovingInv
  <2> QED BY <1>4, <2>2 DEF TreeInv
<1> QED BY <1>8, <1>9

LEMMA RenameMovesKeepsTree ==
    ASSUME TreeInv, FilesInv, FilesInv', ~strayed, RenameMoves
    PROVE  TreeInv'
<1> SUFFICES ASSUME NEW i, NEW old, NEW new, NEW o, NEW n, NEW S,
                    i = Min(op.todo), old = files[i].path, new = MovedPath(old),
                    o = op.old, n = op.new, S = op.todo
             PROVE  TreeInv'
  OBVIOUS
<1>1. /\ op.kind = "move" /\ op.todo # {} /\ cut' = cut
      /\ op.id \in Present /\ ~Exists(n) /\ files[op.id].dir
      /\ \A j \in S : j \in Present /\ NamesMatch(o, files[j].path)
      /\ TypeOK /\ RowsInv /\ Unique /\ Unique' /\ Present \subseteq Ids
  BY RowsTyped DEF RenameMoves, Moves, FilesInv, RenameInv, TypeOK, Unique
<1>2. o \in Seq(Names) /\ n \in Seq(Names)
  BY <1>1, OpKinds, PathIsSeq
<1>3. /\ i \in S /\ i \in Present /\ i # op.id /\ NamesMatch(o, old)
      /\ new = Image(o, n, old) /\ old \in Seq(Names)
  BY <1>1, NextToMove, RowsTyped, PathIsSeq
<1>4. /\ op'.kind = "move" /\ op'.id = op.id /\ op'.old = o /\ op'.new = n
      /\ op'.todo = S \ {i}
  <2>1. op \in [kind : {"replace", "move"}, id : Ids, old : Paths, new : Paths,
                depth : 0..MaxDepth, todo : SUBSET Ids]
    BY <1>1 DEF TypeOK, Idle
  <2> QED BY <2>1 DEF RenameMoves, Moves
<1>5. /\ files'[i].path = new /\ files'[i].dir = files[i].dir /\ Present' = Present
      /\ \A j \in Present \ {i} : files'[j] = files[j]
  BY <1>1, RenameMovesOne
<1>6. WholeInv' /\ CutInv'
  BY <1>4 DEF WholeInv, CutInv
<1>7. CASE cut \in {NoCut, <<o, n>>}
  <2>1. /\ ~IsPrefix(n, o) /\ Gone(o, n, S)
        /\ ~TakesParent => IsDir(Front(n)) /\ Halfway(o, n, S)
    BY <1>1, <1>7 DEF TreeInv, MovingInv
  <2>2. files'[op.id] = files[op.id]
    BY <1>1, <1>3, <1>5
  <2>3. Gone(o, n, S \ {i})'
    <3>1. IsStrictPrefix(n, new)
      BY <1>2, <1>3, ImageLies DEF NamesMatch
    <3>2. SUFFICES ASSUME NEW j \in Present, NEW p, p = files'[j].path, NamesMatch(o, p)
                   PROVE  j \in S \ {i} \/ IsStrictPrefix(n, p)
      BY <1>5 DEF Gone, NameBelow
    <3>3. CASE j = i
      BY <1>5, <3>1, <3>2, <3>3
    <3>4. CASE j # i
      BY <1>5, <2>1, <3>2, <3>4 DEF Gone, NameBelow
    <3> QED BY <3>3, <3>4
  <2>4. Gone(op.old, op.new, op.todo)'
    BY <1>4, <2>3
  <2>5. ASSUME ~TakesParent PROVE IsDir(Front(op.new))' /\ Halfway(op.old, op.new, op.todo)'
    <3>1. Halfway(o, n, S \ {i})'
      BY <1>1, <1>2, <1>3, <1>5, <2>1, <2>5, RowMovedHalfway
    <3>2. Front(n) # old
      BY <1>1, <1>3, <2>5 DEF TakesParent
    <3>3. IsDir(Front(n))'
      <4>1. PICK d \in Present : files[d].path = Front(n) /\ files[d].dir
        BY <1>1, <2>1, <2>5, DirIs
      <4>2. d # i /\ files'[d] = files[d]
        BY <1>5, <3>2, <4>1
      <4> QED BY <1>1, <1>5, <4>1, <4>2, DirIsNext
    <3>4. IsDir(Front(op.new))'
      BY <1>4, <3>3
    <3>5. Halfway(op.old, op.new, op.todo)'
      BY <1>4, <3>1
    <3> QED BY <3>4, <3>5
  <2>6. TakesParent' <=> TakesParent
    BY <1>4, <2>2 DEF TakesParent
  <2>7. MovingInv'
    BY <1>1, <1>4, <2>1, <2>2, <2>4, <2>5, <2>6 DEF MovingInv
  <2> QED BY <1>6, <2>7 DEF TreeInv
<1>8. CASE cut \notin {NoCut, <<o, n>>}
  <2>1. MovingInv'
    BY <1>1, <1>4, <1>8 DEF MovingInv
  <2> QED BY <1>6, <2>1 DEF TreeInv
<1> QED BY <1>7, <1>8

\* Nothing is left at or below the old path when the last UPDATE comes.
LEMMA NothingLeft ==
    ASSUME FilesInv, MovingInv, op.kind = "move", op.todo = {},
           cut \in {NoCut, <<op.old, op.new>>}
    PROVE  \A j \in Present \ {op.id} : ~IsPrefix(op.old, files[j].path)
<1> DEFINE o == op.old  n == op.new
<1>1. /\ op.id \in Present /\ files[op.id].path = o /\ ~IsPrefix(o, n) /\ ~IsPrefix(n, o)
      /\ TypeOK /\ RowsInv /\ Unique /\ Present \subseteq Ids
  BY RowsTyped DEF FilesInv, RenameInv, MovingInv
<1>2. o \in Seq(Names) /\ n \in Seq(Names)
  BY <1>1, OpKinds, PathIsSeq
<1>3. files[op.id].dir => Gone(o, n, {})
  BY DEF MovingInv
<1>4. ~files[op.id].dir => Connected
  BY DEF MovingInv
<1> HIDE DEF o, n
<1> SUFFICES ASSUME NEW j \in Present \ {op.id}, IsPrefix(o, files[j].path) PROVE FALSE
  BY DEF o
<1>5. files[j].path \in Seq(Names)
  BY RowsTyped, PathIsSeq, <1>1
<1>6. IsStrictPrefix(o, files[j].path)
  BY <1>1 DEF IsStrictPrefix, Unique, Present
<1>7. CASE files[op.id].dir
  <2>1. j \in NameBelow(o)
    BY <1>2, <1>5, <1>6, PrefixMatches DEF NameBelow
  <2>2. IsPrefix(n, files[j].path)
    BY <1>3, <1>7, <2>1 DEF Gone, IsStrictPrefix
  <2> QED BY <1>1, <1>2, <1>5, <2>2, PrefixesOf
<1>8. CASE ~files[op.id].dir
  <2>1. IsDir(o)
    BY <1>1, <1>2, <1>4, <1>6, <1>8, AncestorsAre
  <2> QED BY <1>1, <1>8, <2>1, LookupIs DEF IsDir
<1> QED BY <1>7, <1>8

LEMMA RenameEndsKeepsTree ==
    ASSUME TreeInv, FilesInv, FilesInv', RenameEnds
    PROVE  TreeInv'
<1> SUFFICES ASSUME NEW r, NEW o, NEW n, r = op.id, o = op.old, n = op.new
             PROVE  TreeInv'
  OBVIOUS
<1>1. /\ op.kind = "move" /\ op.todo = {} /\ r \in Present /\ files[r].path = o
      /\ ~IsPrefix(o, n) /\ TypeOK /\ RowsInv /\ Unique /\ Unique' /\ Present \subseteq Ids
      /\ o # <<>> /\ n # <<>>
  BY RowsTyped DEF RenameEnds, FilesInv, RenameInv, TypeOK, Unique
<1>2. o \in Seq(Names) /\ n \in Seq(Names)
  BY <1>1, OpKinds, PathIsSeq
<1>3. /\ op'.kind = "idle" /\ op' = Idle
      /\ cut' \in {NoCut, Damaged}
      /\ cut' = NoCut => ~TakesParent /\ cut \in {NoCut, <<o, n>>}
  <2>1. CASE TakesParent
    BY <2>1, Cuts DEF RenameEnds, Idle
  <2>2. CASE ~TakesParent /\ cut = <<o, n>>
    BY <2>2, Cuts DEF RenameEnds, Idle
  <2>3. CASE ~TakesParent /\ cut # <<o, n>>
    BY <2>3, Cuts DEF RenameEnds, Idle
  <2> QED BY <2>1, <2>2, <2>3
<1>4. cut' = NoCut => MovingInv /\ (files[r].dir => Halfway(o, n, {})) /\ IsDir(Front(n))
                      /\ (~files[r].dir => Connected)
  BY <1>1, <1>3 DEF TreeInv, MovingInv
<1>5. cut' = NoCut => \A j \in Present \ {r} : ~IsPrefix(o, files[j].path)
  BY <1>1, <1>3, <1>4, NothingLeft
<1>6. \A j \in Present : files[j].path \in Seq(Names)
  BY <1>1, RowsTyped, PathIsSeq
<1>7. /\ files'[r].path = n /\ files'[r].dir = files[r].dir /\ Present' = Present
      /\ \A j \in Ids \ {r} : files'[j] = files[j]
  BY RenameEndsOne
<1>8. \A q : IsDir(q) /\ q # o => IsDir(q)'
  BY <1>1, <1>7, DirIs, DirIsNext
<1>9. files[r].dir => IsDir(n)'
  BY <1>1, <1>7, DirIsNext
<1>10. ASSUME cut' = NoCut, NEW j \in Present \ {Root}, NEW p, p = files'[j].path
       PROVE  IsDir(Front(p))'
  <2>1. CASE j = r
    <3>1. Front(n) # o
      <4>1. Front(n) \in Seq(Names) /\ IsPrefix(n, n)
        BY <1>1, <1>2, FrontOf, PrefixIs
      <4>2. ASSUME Front(n) = o PROVE IsStrictPrefix(o, n)
        BY <1>1, <1>2, <4>2, StrictPrefixFront
      <4> QED BY <1>1, <4>2 DEF IsStrictPrefix
    <3> QED BY <1>4, <1>7, <1>8, <1>10, <2>1, <3>1
  <2>2. CASE j # r
    <3>1. p = files[j].path /\ p \in Seq(Names) /\ ~IsPrefix(o, p)
      BY <1>1, <1>5, <1>6, <1>7, <1>10, <2>2
    <3>2. p # <<>>
      BY <1>1, <1>10, <3>1, RootIsPresent DEF RowsInv, Unique, Present
    <3>3. Front(p) # o
      BY <1>2, <3>1, <3>2, StrictPrefixFront DEF IsStrictPrefix
    <3>4. CASE files[r].dir
      <4>1. IsDir(Front(p)) \/ Front(p) = n
        BY <1>4, <1>10, <3>1, <3>4 DEF Halfway, Parented
      <4> QED BY <1>8, <1>9, <3>3, <3>4, <4>1
    <3>5. CASE ~files[r].dir
      BY <1>4, <1>8, <1>10, <3>1, <3>3, <3>5 DEF Connected
    <3> QED BY <3>4, <3>5
  <2> QED BY <2>1, <2>2
<1>11. cut' = NoCut => Connected'
  BY <1>7, <1>10 DEF Connected
<1>12. MovingInv' /\ WholeInv'
  BY <1>3, <1>11 DEF MovingInv, WholeInv
<1>13. CutInv'
  BY <1>3, Cuts DEF CutInv
<1> QED BY <1>12, <1>13 DEF TreeInv

LEMMA RenameFailsKeepsTree ==
    ASSUME TreeInv, FilesInv, FilesInv', ~strayed, RenameFails
    PROVE  TreeInv'
<1>1. files' = files /\ op' = Idle /\ op'.kind = "idle" /\ TypeOK /\ Unique /\ Unique'
  BY RowsTyped DEF RenameFails, Idle, FilesInv, TypeOK, Unique
<1>2. /\ Present' = Present
      /\ \A i \in Present : files'[i].path = files[i].path /\ files'[i].dir = files[i].dir
  BY <1>1, SameRows
<1>3. CASE op.kind # "move"
  <2>1. cut' = cut
    BY <1>1, <1>3, OpKinds DEF RenameFails
  <2>2. Connected' <=> Connected
    BY <1>1, <1>2, SameTree
  <2>3. CutInv'
    BY <1>1, <1>2, <1>3, <2>1, CutStays DEF TreeInv
  <2> QED BY <1>1, <1>3, <2>1, <2>2, <2>3 DEF TreeInv, MovingInv, WholeInv
<1>4. CASE op.kind = "move" /\ ~(cut \in {NoCut, <<op.old, op.new>>} /\ ~MovesTwice)
  <2>1. cut' = Damaged
    BY <1>4 DEF RenameFails
  <2> QED BY <1>1, <2>1, Cuts DEF TreeInv, MovingInv, WholeInv, CutInv
<1>5. CASE op.kind = "move" /\ cut \in {NoCut, <<op.old, op.new>>} /\ ~MovesTwice
  <2> SUFFICES ASSUME NEW o, NEW n, NEW S, o = op.old, n = op.new, S = op.todo
               PROVE  TreeInv'
    OBVIOUS
  <2>1. cut' = <<o, n>>
    BY <1>5 DEF RenameFails
  <2>2. o \in Paths /\ n \in Paths /\ o \in Seq(Names) /\ n \in Seq(Names)
    BY <1>1, <1>5, OpKinds, PathIsSeq
  <2>3. cut' \in Paths \X Paths /\ cut'[1] = o /\ cut'[2] = n /\ cut' # NoCut
    BY <2>1, <2>2, Cuts
  <2>4. MovingInv' /\ WholeInv'
    BY <1>1, <2>3 DEF MovingInv, WholeInv
  <2>5. /\ op.id \in Present /\ files[op.id].path = o /\ ~Exists(n)
        /\ S # {} => files[op.id].dir
        /\ \A i \in S : i \in Present /\ NamesMatch(o, files[i].path)
    BY <1>5 DEF FilesInv, RenameInv
  <2>6. /\ ~IsPrefix(n, o)
        /\ files[op.id].dir => /\ Gone(o, n, S)
                               /\ ~TakesParent => Halfway(o, n, S)
        /\ ~files[op.id].dir => Connected
    BY <1>5 DEF TreeInv, MovingInv
  <2>7. Exists(o) /\ (IsDir(o) <=> files[op.id].dir)
    BY <1>1, <2>5, LookupIs DEF IsDir
  <2>8. S \subseteq NameBelow(o)
    BY <2>5 DEF NameBelow
  <2>9. ASSUME IsDir(o) PROVE Halfway(o, n, NameBelow(o))
    <3>1. Len(o) = Len(n) \/ ~AlikeAsFar(o, n)
      BY <1>5, <2>7, <2>9 DEF MovesTwice
    <3>2. ~TakesParent
      <4>1. n # <<>>
        BY <1>5 DEF FilesInv, RenameInv
      <4>2. NamesMatch(o, Front(n)) => NamesMatch(o, n)
        BY <2>2, <4>1, MatchesFront
      <4>3. ~NamesMatch(o, n)
        BY <2>2, <3>1 DEF NamesMatch
      <4> QED BY <4>2, <4>3 DEF TakesParent
    <3>3. Halfway(o, n, S)
      BY <2>6, <2>7, <2>9, <3>2
    <3>4. ASSUME NEW i \in NameBelow(o), IsStrictPrefix(n, files[i].path)
          PROVE  Len(o) = Len(n)
      <4>1. files[i].path \in Seq(Names) /\ AlikeAsFar(o, files[i].path)
        BY <1>1, RowsTyped, PathIsSeq DEF NameBelow, NamesMatch
      <4>2. AlikeAsFar(o, n)
        BY <2>2, <3>4, <4>1, AlikeAbove DEF IsStrictPrefix
      <4> QED BY <3>1, <4>2
    <3>5. Once(o, n, NameBelow(o))
      BY <3>4 DEF Once
    <3>6. Parented(o, n, NameBelow(o))
      BY <2>8, <3>3 DEF Halfway, Parented
    <3> QED BY <3>5, <3>6 DEF Halfway
  <2>10. NameBelow(o)' = NameBelow(o) /\ NameBelow(o) \subseteq Present
    BY <1>1, <1>2 DEF NameBelow
  <2>11. IsDir(o) => Halfway(o, n, NameBelow(o))'
    <3>1. \A T : T \subseteq Present => (Halfway(o, n, T)' <=> Halfway(o, n, T))
      BY <1>1, <1>2, SameTree
    <3> QED BY <2>9, <2>10, <3>1
  <2>12. /\ ~Exists(n)' /\ Exists(o)'
         /\ IsDir(o)' <=> IsDir(o)
         /\ Connected' <=> Connected
    BY <1>1, <1>2, <2>5, <2>7, SameTree
  <2>13. CutInv'
    <3>1. cut'[1] = o /\ cut'[2] = n /\ ~Exists(n)' /\ ~IsPrefix(n, o) /\ Exists(o)'
      BY <2>3, <2>6, <2>7, <2>12
    <3>2. ~IsDir(o)' => Connected'
      BY <2>6, <2>7, <2>12
    <3>3. IsDir(o)' => Halfway(o, n, NameBelow(o))'
      BY <2>11, <2>12
    <3> QED BY <3>1, <3>2, <3>3 DEF CutInv
  <2> QED BY <2>4, <2>13 DEF TreeInv
<1> QED BY <1>3, <1>4, <1>5

LEMMA TreeInit == Init => TreeInv
<1> SUFFICES ASSUME Init PROVE TreeInv
  OBVIOUS
<1>1. cut = NoCut /\ op.kind = "idle"
  BY DEF Init, Idle
<1>2. \A i \in Present : i = Root
  BY DEF Init, Present
<1>3. Connected
  BY <1>2 DEF Connected
<1> QED BY <1>1, <1>3, Cuts DEF TreeInv, MovingInv, WholeInv, CutInv

\* What has strayed once stays so.
LEMMA StrayedBefore == [Next]_vars /\ ~strayed' => ~strayed
BY DEF Next, vars, Create, Rmdir, Unlink, Rename, RenameReplaces, RenameMoves, Moves,
       RenameEnds, RenameFails

\* The tree, as long as LIKE has matched name by name.
StraightInv == ~strayed => TreeInv

LEMMA TreeStep == StraightInv /\ FilesInv /\ FilesInv' /\ [Next]_vars => StraightInv'
<1> SUFFICES ASSUME TreeInv, FilesInv, FilesInv', ~strayed, ~strayed', [Next]_vars
             PROVE  TreeInv'
  BY StrayedBefore DEF StraightInv
<1>1. CASE \E p \in Asked : Create(p, TRUE) \/ Create(p, FALSE)
  BY <1>1, CreateKeepsTree, NamesAssumption
<1>2. CASE \E p \in Paths : Rmdir(p)
  BY <1>2, RmdirKeepsTree
<1>3. CASE \E p \in Paths : Unlink(p)
  BY <1>3, UnlinkKeepsTree
<1>4. CASE \E i \in Present, new \in Asked : Rename(files[i].path, new)
  BY <1>4, RenameKeepsTree, RowsTyped, NamesAssumption DEF FilesInv
<1>5. CASE RenameReplaces
  BY <1>5, RenameReplacesKeepsTree
<1>6. CASE RenameMoves
  BY <1>6, RenameMovesKeepsTree
<1>7. CASE RenameEnds
  BY <1>7, RenameEndsKeepsTree
<1>8. CASE RenameFails
  BY <1>8, RenameFailsKeepsTree
<1>9. CASE UNCHANGED vars
  <2>1. files' = files /\ op' = op /\ cut' = cut /\ TypeOK /\ Unique /\ Unique'
    BY <1>9, RowsTyped DEF vars, FilesInv, TypeOK, Unique
  <2>2. /\ Present' = Present /\ \A p : NameBelow(p)' = NameBelow(p) /\ (IsDir(p)' <=> IsDir(p))
        /\ Connected' <=> Connected
    BY <2>1, SameRows, SameTree
  <2>3. op.kind # "move" => CutInv'
    BY <2>1, <2>2, CutStays DEF TreeInv
  <2>4. op.kind = "move" => CutInv'
    BY <2>1 DEF CutInv
  <2>5. WholeInv'
    BY <2>1, <2>2 DEF WholeInv, TreeInv
  <2>6. MovingInv'
    BY <2>1, <2>2 DEF TreeInv, MovingInv, Gone, Halfway, Once, Parented, TakesParent
  <2> QED BY <2>3, <2>4, <2>5, <2>6 DEF TreeInv
<1> QED BY <1>1, <1>2, <1>3, <1>4, <1>5, <1>6, <1>7, <1>8, <1>9 DEF Next

LEMMA TreeInvariant == Spec => []StraightInv
<1>1. Init => StraightInv
  BY TreeInit DEF StraightInv
<1> QED BY <1>1, TreeStep, FilesInvariant, PTL DEF Spec

\* Every file is in a directory, whatever has been created, removed and renamed,
\* and whatever names LIKE has taken for alike: unless a rename took the directory
\* it moves to, or one that LIKE does not match name by name, or was cut short and
\* not repeated.
THEOREM SpecTreeConnected == Spec => []TreeConnected
<1>1. StraightInv => TreeConnected
  BY DEF StraightInv, TreeInv, WholeInv, Connected, TreeConnected, Idle
<1> QED BY <1>1, TreeInvariant, PTL

\* A rename that returns 0 leaves nothing at or below the old path.
THEOREM SpecRenameMovesAll == Spec => RenameMovesAll
<1> DEFINE A == op.kind = "move" /\ op' = Idle /\ files' # files
                /\ cut \in {NoCut, <<op.old, op.new>>} /\ ~strayed =>
                   \A i \in Present' : ~IsPrefix(op.old, files'[i].path)
<1>1. ASSUME FilesInv, StraightInv, [Next]_vars PROVE A
  <2> SUFFICES ASSUME op.kind = "move", op' = Idle, files' # files,
                      cut \in {NoCut, <<op.old, op.new>>}, ~strayed, NEW i \in Present'
               PROVE  ~IsPrefix(op.old, files'[i].path)
    OBVIOUS
  <2>1. op # Idle
    BY DEF Idle
  <2>2. RenameEnds
    BY <1>1, <2>1 DEF Next, vars, Create, Rmdir, Unlink, Rename, RenameReplaces,
                      RenameMoves, Moves, RenameFails, Idle
  <2>3. /\ Present' = Present /\ files'[op.id].path = op.new
        /\ \A j \in Ids \ {op.id} : files'[j] = files[j]
    BY <1>1, <2>2, RenameEndsOne
  <2>4. \A j \in Present \ {op.id} : ~IsPrefix(op.old, files[j].path)
    BY <1>1, <2>2, NothingLeft DEF RenameEnds, StraightInv, TreeInv
  <2>5. ~IsPrefix(op.old, op.new) /\ Present \subseteq Ids
    BY <1>1, RowsTyped DEF FilesInv, RenameInv
  <2> QED BY <2>3, <2>4, <2>5
<1>2. FilesInv /\ StraightInv /\ [Next]_vars => [A]_vars
  BY <1>1
<1> QED BY <1>2, FilesInvariant, TreeInvariant, PTL DEF Spec, RenameMovesAll
===============================================================================
