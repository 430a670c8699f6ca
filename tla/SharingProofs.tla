---------------------------- MODULE SharingProofs ----------------------------
(***************************************************************************)
(* Deduplication is invisible, for any files, contents and bounds, as long *)
(* as nothing is evicted, nothing restarts and a file has one handle at a  *)
(* time.                                                                   *)
(*                                                                         *)
(* The argument is that every storage block then has its object in memory, *)
(* with the content of its hash and a count that is never below the number *)
(* of file blocks that refer to it (InMemory), and that a block_info says  *)
(* of its file block what the tables say (HandlesKnow).  A block whose     *)
(* count is 1 has at most one user, which the writer of that file block    *)
(* is: overwriting it in place takes nothing from anyone else.             *)
(***************************************************************************)
EXTENDS BlockContentProofs

\* Nothing is evicted, nothing restarts and a file has one handle at a time.
Undisturbed == Exclusive /\ Roomy /\ MaxRestarts = 0

\* The file blocks that refer to the content of storage block n.
Users(n) == {k \in Keys : fileBlocks[k] = rows[n].hash}

\* The use that _writeBlock has committed and not counted yet.
Uncounted(n) ==
    IF op.kind = "place" /\ op.present /\ fh[op.h].blocks[op.block].num = n THEN 1 ELSE 0

Written == {k \in Keys : fileBlocks[k] # Null}

\* A block_info says of file block k what the tables say.
Known(i, k) ==
    /\ i.hash = fileBlocks[k]
    /\ i.hash = Null => i.num = 0 /\ i.empty /\ i.ref = Null
    /\ i.hash # Null => i.num \in DOMAIN rows /\ rows[i.num].hash = i.hash
    /\ i.ref # Null => i.ref = i.num

HandlesKnow ==
    \A h \in Handles, b \in Blocks :
        fh[h] # Null /\ fh[h].blocks[b] # Null => Known(fh[h].blocks[b], <<fh[h].file, b>>)

\* A storage block is in memory with its content and all of its users counted,
\* or its content is about to be placed, for one user.
Counted(n) ==
    /\ heap[n] # Null
    /\ heap[n].data = rows[n].hash
    /\ Cardinality(Users(n)) =< heap[n].use + Uncounted(n)

Awaited(n) == rows[n].hash = op.data /\ Cardinality(Users(n)) =< 1

InMemory == \A n \in DOMAIN rows : IF n \in Placing THEN Awaited(n) ELSE Counted(n)

Alive ==
    /\ op # Down
    /\ NothingErased
    /\ T!NoDangling
    /\ HandlesKnow
    /\ InMemory
    /\ IsFiniteSet(Written)

Dead ==
    /\ op = Down
    /\ \A n \in Numbers \cup Orphans : heap[n] = Null
    /\ \A h \in Handles : fh[h] = Null

SharingInv == writer = Flushing /\ (Alive \/ Dead)

\* What is known of every state besides, and needs no more than one handle a file.
Settled == CacheInv /\ SizeInv /\ T!UniqueHash

----------------------------------------------------------------------------
(* The users of a storage block                                            *)

LEMMA RowTyped ==
    ASSUME CacheInv, NEW n \in DOMAIN rows
    PROVE  rows[n].hash \in Contents /\ rows[n].hash # Null /\ n \in Numbers \ {0}
<1>1. rows \in Seq(T!Row) /\ n \in 1..Len(rows)
  BY InvParts DEF T!TypeOK
<1>2. rows[n] \in T!Row
  BY <1>1
<1> QED BY <1>2, RowsAreNumbers, NullAssumption DEF T!Row

LEMMA UsersFinite ==
    ASSUME CacheInv, Alive, NEW n \in DOMAIN rows
    PROVE  IsFiniteSet(Users(n)) /\ Cardinality(Users(n)) \in Nat
<1>1. Users(n) \in SUBSET Written
  BY RowTyped DEF Users, Written
<1>2. IsFiniteSet(Users(n))
  BY <1>1, FS_Subset DEF Alive
<1> QED BY <1>2, FS_CardinalityType

\* File block k changes its hash to d: the users of a row that keeps its hash.
LEMMA UsersAfter ==
    ASSUME CacheInv, Alive, NEW k \in Keys, NEW d, fileBlocks' = [fileBlocks EXCEPT ![k] = d],
           NEW n \in DOMAIN rows, rows'[n].hash = rows[n].hash
    PROVE  /\ Cardinality(Users(n)') \in Nat
           /\ rows[n].hash = d =>
                Cardinality(Users(n)') = Cardinality(Users(n)) + (IF k \in Users(n) THEN 0 ELSE 1)
           /\ rows[n].hash # d =>
                Cardinality(Users(n)') = Cardinality(Users(n)) - (IF k \in Users(n) THEN 1 ELSE 0)
<1>1. DOMAIN fileBlocks = Keys
  BY InvParts DEF T!TypeOK
<1>2. Users(n)' = {j \in Keys : fileBlocks'[j] = rows[n].hash}
  BY DEF Users
<1>3. \A j \in Keys : fileBlocks'[j] = IF j = k THEN d ELSE fileBlocks[j]
  BY <1>1
<1>4. IsFiniteSet(Users(n)) /\ Cardinality(Users(n)) \in Nat
  BY UsersFinite
<1>5. CASE rows[n].hash = d
  <2>1. Users(n)' = Users(n) \cup {k}
    BY <1>2, <1>3, <1>5 DEF Users
  <2>2. Cardinality(Users(n) \cup {k}) =
          IF k \in Users(n) THEN Cardinality(Users(n)) ELSE Cardinality(Users(n)) + 1
    BY <1>4, FS_AddElement
  <2> QED BY <1>4, <1>5, <2>1, <2>2
<1>6. CASE rows[n].hash # d
  <2>1. Users(n)' = Users(n) \ {k}
    BY <1>2, <1>3, <1>6 DEF Users
  <2>2. IsFiniteSet(Users(n) \ {k})
        /\ Cardinality(Users(n) \ {k}) =
             IF k \in Users(n) THEN Cardinality(Users(n)) - 1 ELSE Cardinality(Users(n))
    BY <1>4, FS_RemoveElement
  <2>3. Cardinality(Users(n) \ {k}) \in Nat
    BY <2>2, FS_CardinalityType
  <2> QED BY <1>4, <1>6, <2>1, <2>2, <2>3
<1> QED BY <1>5, <1>6

LEMMA WrittenAfter ==
    ASSUME CacheInv, Alive, NEW k \in Keys, NEW d, fileBlocks' = [fileBlocks EXCEPT ![k] = d]
    PROVE  IsFiniteSet(Written)'
<1>1. Written' \in SUBSET (Written \cup {k})
  BY InvParts DEF Written, T!TypeOK
<1>2. IsFiniteSet(Written \cup {k})
  BY FS_AddElement DEF Alive
<1> QED BY <1>1, <1>2, FS_Subset

\* A block with one user at most has no other than the one it is known to have.
LEMMA OnlyUser ==
    ASSUME CacheInv, Alive, NEW n \in DOMAIN rows, NEW k \in Users(n),
           Cardinality(Users(n)) =< 1
    PROVE  Users(n) = {k}
<1>1. {k} \in SUBSET Users(n) /\ IsFiniteSet(Users(n)) /\ Cardinality(Users(n)) \in Nat
  BY UsersFinite
<1>2. Cardinality({k}) = 1
  BY FS_Singleton
<1>3. Cardinality({k}) =< Cardinality(Users(n))
  BY <1>1, FS_Subset
<1>4. Cardinality(Users(n)) = Cardinality({k})
  BY <1>1, <1>2, <1>3
<1> QED BY <1>1, <1>4, FS_Subset

----------------------------------------------------------------------------
(* Looking a block up                                                      *)

\* A known hash is found under the number of its row.
LEMMA IdOfRow ==
    ASSUME T!UniqueHash, NEW n \in DOMAIN rows
    PROVE  T!Present(rows[n].hash) /\ T!IdOf(rows[n].hash) = n
  BY DEF T!UniqueHash, T!Present, T!IdOf

LEMMA IdOfPresent ==
    ASSUME NEW x, T!Present(x)
    PROVE  T!IdOf(x) \in DOMAIN rows /\ rows[T!IdOf(x)].hash = x
  BY DEF T!Present, T!IdOf

\* Loading finds every written file block: it lies within the size.
LEMMA LoadKnown ==
    ASSUME Settled, Alive, NEW h \in Handles, fh[h] # Null, NEW b \in Blocks
    PROVE  Known(Load(fh[h].file, fh[h].size, b), <<fh[h].file, b>>)
<1> DEFINE k == <<fh[h].file, b>>
           x == fileBlocks[k]
           i == Load(fh[h].file, fh[h].size, b)
<1>1. CacheInv /\ fh[h].file \in Files /\ fh[h].size = fsize[fh[h].file] /\ fh[h].size \in 0..MaxSize
  BY HandleTyped DEF Settled, SizeInv, HandlesAgree
<1>2. k \in Keys /\ k[1] = fh[h].file /\ k[2] = b
  BY <1>1 DEF Keys
<1>3. x # Null => T!Present(x) /\ b * DbBlockSize =< fh[h].size
  <2> SUFFICES ASSUME x # Null PROVE T!Present(x) /\ b * DbBlockSize =< fh[h].size
    OBVIOUS
  <2>1. b * BlockSize < fsize[fh[h].file]
    BY <1>2 DEF Settled, SizeInv, RowsWithinSize
  <2>2. b \in Nat /\ DbBlockSize \in Nat /\ BlockSize \in Nat /\ DbBlockSize =< BlockSize
    BY SizeFacts, CacheAssumption DEF Blocks
  <2>3. b * DbBlockSize =< b * BlockSize
    BY <2>2
  <2>4. b * DbBlockSize \in Nat /\ b * BlockSize \in Nat /\ fh[h].size \in Nat
    BY <1>1, <2>2, SizeFacts
  <2>5. T!Present(x)
    BY <1>2 DEF Alive, T!NoDangling
  <2> HIDE DEF x, k
  <2> QED BY <1>1, <2>1, <2>3, <2>4, <2>5
<1>4. i = [num   |-> IF x # Null THEN T!IdOf(x) ELSE 0,
           hash  |-> x,
           empty |-> x = Null,
           ref   |-> Null,
           locked |-> FALSE]
  BY <1>3, Zenon DEF Load
<1>5. x # Null => T!IdOf(x) \in DOMAIN rows /\ rows[T!IdOf(x)].hash = x
  BY <1>3, IdOfPresent
<1> HIDE DEF i, x
<1>6. Known(i, k)
  BY <1>4, <1>5 DEF Known, x
<1> QED BY <1>6 DEF i

\* No lookup finds a storage block that is not in memory.
LEMMA LookupKnown ==
    ASSUME Settled, Alive, Placing = {}, NEW h \in Handles, fh[h] # Null, NEW b \in Blocks
    PROVE  /\ Known(InfoOf(h, b), <<fh[h].file, b>>)
           /\ Known(Locked(h, b), <<fh[h].file, b>>)
           /\ Placed(h, b) = heap
           /\ Locked(h, b).hash = InfoOf(h, b).hash /\ Locked(h, b).num = InfoOf(h, b).num
<1> DEFINE i == InfoOf(h, b)
           j == Locked(h, b)
           k == <<fh[h].file, b>>
<1>1. i \in Info /\ CacheInv
  BY LookupSafe DEF Settled
<1>2. Known(i, k)
  <2>1. CASE fh[h].blocks[b] = Null
    BY <2>1, LoadKnown DEF InfoOf
  <2>2. CASE fh[h].blocks[b] # Null
    BY <2>2 DEF InfoOf, Alive, HandlesKnow
  <2> QED BY <2>1, <2>2
<1>3. ~i.empty => i.num \in DOMAIN rows /\ heap[i.num] # Null
  BY <1>2 DEF Known, Alive, InMemory, Counted
<1>4. Placed(h, b) = heap
  BY <1>3 DEF Placed
<1>5. j = IF i.empty \/ i.ref # Null THEN i ELSE [i EXCEPT !.ref = i.num]
  BY DEF Locked
<1> HIDE DEF i, j, k
<1>6. CASE i.empty \/ i.ref # Null
  BY <1>2, <1>4, <1>5, <1>6 DEF i, j, k
<1>7. CASE ~(i.empty \/ i.ref # Null)
  <2>1. j = [i EXCEPT !.ref = i.num]
    BY <1>5, <1>7
  <2>2. j.hash = i.hash /\ j.num = i.num /\ j.ref = i.num /\ i.hash # Null
    BY <1>1, <1>2, <1>7, <2>1 DEF Info, Known
  <2>3. Known(j, k)
    BY <1>2, <2>2 DEF Known
  <2> QED BY <1>2, <1>4, <2>2, <2>3 DEF i, j, k
<1> QED BY <1>6, <1>7

\* The object of a block_info is its row's, in memory with its data.
LEMMA RefInMemory ==
    ASSUME Settled, Alive, Placing = {}, NEW i, NEW k, Known(i, k), i.ref # Null
    PROVE  /\ i.ref = i.num /\ i.num \in DOMAIN rows /\ rows[i.num].hash = fileBlocks[k]
           /\ Counted(i.num) /\ heap[i.num].data # Null
<1>1. i.ref = i.num /\ i.num \in DOMAIN rows /\ rows[i.num].hash = fileBlocks[k]
  BY DEF Known
<1>2. Counted(i.num)
  BY <1>1 DEF Alive, InMemory
<1>3. heap[i.num].data # Null
  BY <1>1, <1>2, RowTyped DEF Counted, Settled
<1> QED BY <1>1, <1>2, <1>3

\* Reading the old data in changes nothing: it is there.
LEMMA PopulatedAlready ==
    ASSUME Settled, Alive, Placing = {}, NEW i, NEW k, Known(i, k), i.ref # Null
    PROVE  [heap EXCEPT ![i.ref] = Populate(@, i.num)] = heap
<1>1. Populate(heap[i.ref], i.num) = heap[i.ref]
  BY RefInMemory DEF Populate
<1>2. heap \in Objects
  BY InvParts DEF Settled, StoreSafe
<1> QED BY <1>1, <1>2 DEF Objects

LEMMA LiveUnchanged ==
    ASSUME NEW files, NEW objects \in Objects, \A o \in Orphans : objects[o] = Null
    PROVE  Live(objects, files) = objects
<1>1. \A n \in Numbers \cup Orphans : Live(objects, files)[n] = objects[n]
  BY NumbersFacts DEF Live, Objects
<1> QED BY <1>1 DEF Live, Objects

LEMMA WriteKnown ==
    ASSUME Settled, Alive, op.kind = "write"
    PROVE  /\ Placing = {} /\ Merged = heap /\ Known(Target, Key) /\ Key \in Keys
           /\ op.h \in Handles /\ fh[op.h] # Null /\ ChunkBlock \in Blocks
           /\ \A n : Uncounted(n) = 0
           /\ Merging => ~PopulateFails(Placed(op.h, ChunkBlock)[Target.ref], Target.num)
<1>1. CacheInv /\ Placing = {}
  BY NoPlacing DEF Settled
<1>2. op.h \in Handles /\ fh[op.h] # Null /\ ChunkBlock \in Blocks /\ Key \in Keys
  BY <1>1, ChunkFacts
<1>3. Known(Target, Key) /\ Placed(op.h, ChunkBlock) = heap
  BY <1>1, <1>2, LookupKnown DEF Target, Key
<1>4. Target.ref # Null => [heap EXCEPT ![Target.ref] = Populate(@, Target.num)] = heap
  BY <1>1, <1>3, PopulatedAlready
<1>5. Merged = heap
  BY <1>3, <1>4 DEF Merged, Merging
<1>6. Target.ref # Null => heap[Target.ref].data # Null
  BY <1>1, <1>3, RefInMemory
<1> QED BY <1>1, <1>2, <1>3, <1>5, <1>6 DEF Uncounted, Merging, PopulateFails

----------------------------------------------------------------------------
(* What a step must do                                                     *)

\* What the next state's tables say.
KnownNext(i, k) ==
    /\ i.hash = fileBlocks'[k]
    /\ i.hash = Null => i.num = 0 /\ i.empty /\ i.ref = Null
    /\ i.hash # Null => i.num \in DOMAIN rows' /\ rows'[i.num].hash = i.hash
    /\ i.ref # Null => i.ref = i.num

\* Every other file block keeps its hash, and the hash its row.
OthersKeep(k) ==
    \A j \in Keys : j # k =>
        /\ fileBlocks'[j] = fileBlocks[j]
        /\ \A n \in DOMAIN rows : rows[n].hash = fileBlocks[j]
                                    => n \in DOMAIN rows' /\ rows'[n].hash = rows[n].hash

LEMMA InfoTyped ==
    ASSUME CacheInv, NEW h \in Handles, fh[h] # Null, NEW b \in Blocks
    PROVE  fh[h].blocks[b] \in Info \cup {Null} /\ <<fh[h].file, b>> \in Keys
  BY HandleTyped DEF Handle, Keys

LEMMA OneInfo ==
    ASSUME CacheInv, NEW h \in Handles, fh[h] # Null, NEW b \in Blocks,
           NEW i \in Info \cup {Null}, NEW g \in Handles
    PROVE  /\ WithInfo(h, b, i)[g] = Null <=> fh[g] = Null
           /\ fh[g] # Null =>
                /\ WithInfo(h, b, i)[g].file = fh[g].file
                /\ WithInfo(h, b, i)[g].size = fh[g].size
                /\ \A c \in Blocks : WithInfo(h, b, i)[g].blocks[c] =
                                       IF g = h /\ c = b THEN i ELSE fh[g].blocks[c]
<1>1. fh \in OpenFiles /\ fh[h] \in Handle
  BY HandleTyped
<1>2. SameHandles(WithInfo(h, b, i))
  BY OneInfoChanges
<1>3. ASSUME fh[g] # Null, NEW c \in Blocks
      PROVE  WithInfo(h, b, i)[g].blocks[c] = IF g = h /\ c = b THEN i ELSE fh[g].blocks[c]
  <2>1. fh[g] \in Handle
    BY <1>3, HandleTyped
  <2> QED BY <1>1, <2>1 DEF WithInfo, OpenFiles, Handle
<1> QED BY <1>2, <1>3 DEF SameHandles

\* One block_info changes.
LEMMA InfosKnown ==
    ASSUME Settled, Alive, NEW h \in Handles, fh[h] # Null, NEW b \in Blocks,
           NEW i \in Info \cup {Null}, fh' = WithInfo(h, b, i),
           i # Null => KnownNext(i, <<fh[h].file, b>>), OthersKeep(<<fh[h].file, b>>)
    PROVE  HandlesKnow'
<1> SUFFICES ASSUME NEW g \in Handles, NEW c \in Blocks, fh'[g] # Null, fh'[g].blocks[c] # Null
             PROVE  KnownNext(fh'[g].blocks[c], <<fh'[g].file, c>>)
  BY DEF HandlesKnow, Known, KnownNext
<1>1. CacheInv /\ fh[g] # Null /\ fh'[g].file = fh[g].file
      /\ fh'[g].blocks[c] = IF g = h /\ c = b THEN i ELSE fh[g].blocks[c]
  BY OneInfo DEF Settled
<1>2. CASE g = h /\ c = b
  BY <1>1, <1>2
<1>3. CASE ~(g = h /\ c = b)
  <2> DEFINE j == fh[g].blocks[c]
             k == <<fh[g].file, c>>
  <2>1. k # <<fh[h].file, b>>
    BY <1>1, <1>3 DEF Settled, SizeInv, HandlesAgree
  <2>2. k \in Keys /\ Known(j, k)
    BY <1>1, <1>3, InfoTyped DEF Alive, HandlesKnow
  <2> HIDE DEF j, k
  <2>3. KnownNext(j, k)
    BY <2>1, <2>2 DEF Known, KnownNext, OthersKeep
  <2> QED BY <1>1, <1>3, <2>3 DEF j, k
<1> QED BY <1>2, <1>3

\* One file block changes, and its new hash has a row.
LEMMA NoneDangles ==
    ASSUME CacheInv, Alive, NEW k \in Keys, NEW d, fileBlocks' = [fileBlocks EXCEPT ![k] = d],
           d = Null \/ \E n \in DOMAIN rows' : rows'[n].hash = d, OthersKeep(k)
    PROVE  T!NoDangling'
<1> SUFFICES ASSUME NEW j \in Keys, fileBlocks'[j] # Null
             PROVE  \E n \in DOMAIN rows' : rows'[n].hash = fileBlocks'[j]
  BY DEF T!NoDangling, T!Present
<1>1. CASE j = k
  BY <1>1, InvParts DEF T!TypeOK
<1>2. CASE j # k
  <2>1. PICK n \in DOMAIN rows : rows[n].hash = fileBlocks[j]
    BY <1>2 DEF OthersKeep, Alive, T!NoDangling, T!Present
  <2> QED BY <1>2, <2>1 DEF OthersKeep
<1> QED BY <1>1, <1>2

LEMMA UseChanges ==
    ASSUME NEW objects \in Objects, NEW r \in Numbers \cup Orphans \cup {Null}, NEW d \in Int,
           r # Null => r \in Numbers
    PROVE  /\ AddUse(objects, r, d) \in Objects
           /\ \A o \in Orphans : AddUse(objects, r, d)[o] = objects[o]
           /\ \A n \in Numbers : objects[n] # Null =>
                /\ AddUse(objects, r, d)[n] # Null
                /\ AddUse(objects, r, d)[n].data = objects[n].data
                /\ objects[n].use \in Int
                /\ r = n => AddUse(objects, r, d)[n].use = objects[n].use + d
                /\ r # n => AddUse(objects, r, d)[n].use = objects[n].use
<1>1. \A n \in Numbers : objects[n] # Null => objects[n] \in Item /\ objects[n].use \in Int
  BY DEF Objects, Item
<1>2. CASE r # Null /\ objects[r] # Null
  <2> DEFINE item == [objects[r] EXCEPT !.use = @ + d]
  <2>1. AddUse(objects, r, d) = [objects EXCEPT ![r] = item]
    BY <1>2 DEF AddUse
  <2>2. objects[r] \in Item
    BY <1>1, <1>2
  <2>3. item \in Item /\ item.data = objects[r].data /\ item.use = objects[r].use + d
    BY <2>2 DEF Item
  <2>4. item # Null
    BY <2>3, NullAssumption
  <2> HIDE DEF item
  <2>5. \A n \in Numbers \cup Orphans :
          AddUse(objects, r, d)[n] = IF n = r THEN item ELSE objects[n]
    BY <2>1 DEF Objects
  <2>6. AddUse(objects, r, d) \in Objects
    BY <2>1, <2>3 DEF Objects
  <2>7. ASSUME NEW n \in Numbers, objects[n] # Null
        PROVE  /\ AddUse(objects, r, d)[n] # Null
               /\ AddUse(objects, r, d)[n].data = objects[n].data
               /\ r = n => AddUse(objects, r, d)[n].use = objects[n].use + d
               /\ r # n => AddUse(objects, r, d)[n].use = objects[n].use
    <3>1. CASE n = r
      BY <2>3, <2>4, <2>5, <3>1
    <3>2. CASE n # r
      BY <1>1, <2>5, <2>7, <3>2
    <3> QED BY <3>1, <3>2
  <2>8. \A o \in Orphans : o # r
    BY <1>2, NumbersFacts
  <2>9. \A o \in Orphans : AddUse(objects, r, d)[o] = objects[o]
    BY <2>5, <2>8
  <2> QED BY <1>1, <2>6, <2>7, <2>9, Zenon
<1>3. CASE ~(r # Null /\ objects[r] # Null)
  <2>1. AddUse(objects, r, d) = objects
    BY <1>3 DEF AddUse
  <2>2. \A n \in Numbers : objects[n] # Null => r # n
    BY <1>3, NumbersFacts
  <2> QED BY <1>1, <2>1, <2>2
<1> QED BY <1>2, <1>3

\* Between commit and cache update.
LEMMA CommittedPlace ==
    ASSUME CacheInv, op.kind = "write", NEW info \in Info, NEW objects, NEW d,
           NEW present \in BOOLEAN, Committed(info, objects, d, present)
    PROVE  /\ op' # Down /\ op'.kind = "place" /\ op'.data = d
           /\ Placing' = (IF present THEN {} ELSE {info.num})
           /\ \A n : Uncounted(n)' = IF present /\ info.num = n THEN 1 ELSE 0
           /\ fh' = WithInfo(op.h, ChunkBlock, [info EXCEPT !.locked = TRUE])
           /\ heap' = Live(objects, fh') /\ writer' = writer
<1> DEFINE i == [info EXCEPT !.locked = TRUE]
<1>1. /\ fh' = WithInfo(op.h, ChunkBlock, i)
      /\ op' = [kind |-> "place", h |-> op.h, next |-> NextChunk, end |-> op.end,
                block |-> ChunkBlock, present |-> present, data |-> d]
      /\ heap' = Live(objects, fh') /\ writer' = writer
  BY DEF Committed
<1>2. op.h \in Handles /\ fh[op.h] # Null /\ ChunkBlock \in Blocks
  BY ChunkFacts
<1>3. i \in Info /\ i.num = info.num
  BY DEF Info
<1>4. fh'[op.h].blocks[ChunkBlock] = i
  BY <1>1, <1>2, <1>3, OneInfo
<1> HIDE DEF i
<1>5. /\ op'.kind = "place" /\ op'.present = present /\ op'.h = op.h /\ op'.block = ChunkBlock
      /\ op'.data = d
  BY <1>1
<1>6. op' # Down
  BY <1>5 DEF Down
<1>7. fh'[op'.h].blocks[op'.block].num = info.num
  BY <1>3, <1>4, <1>5
<1>8. Placing' = IF present THEN {} ELSE {info.num}
  BY <1>5, <1>7 DEF Placing
<1>9. \A n : Uncounted(n)' = IF present /\ info.num = n THEN 1 ELSE 0
  BY <1>5, <1>7 DEF Uncounted
<1> QED BY <1>1, <1>5, <1>6, <1>8, <1>9 DEF i

----------------------------------------------------------------------------
(* Writing                                                                 *)

\* Leaving a block for content d takes one use and at least one user, unless the
\* block left is the block come to, whose use is counted later.
LEMMA LeftCounted ==
    ASSUME Settled, Alive, op.kind = "write", NEW d,
           fileBlocks' = [fileBlocks EXCEPT ![Key] = d],
           NEW n \in DOMAIN rows, rows'[n].hash = rows[n].hash,
           heap' = AddUse(heap, Target.ref, -1)
    PROVE  /\ heap'[n] # Null /\ heap'[n].data = rows'[n].hash
           /\ Cardinality(Users(n)') =< heap'[n].use + (IF rows[n].hash = d THEN 1 ELSE 0)
<1>1. CacheInv /\ Placing = {} /\ Known(Target, Key) /\ Key \in Keys /\ Uncounted(n) = 0
  BY WriteKnown DEF Settled
<1>2. Counted(n) /\ n \in Numbers /\ heap \in Objects
  BY <1>1, RowTyped, InvParts DEF Alive, InMemory, StoreSafe
<1>3. Target.ref \in Numbers \cup Orphans \cup {Null} /\ (Target.ref # Null => Target.ref \in Numbers)
  BY <1>1, ChunkFacts DEF Info, Known
<1>4. /\ heap'[n] # Null /\ heap'[n].data = heap[n].data
      /\ heap[n].use \in Int
      /\ Target.ref = n => heap'[n].use = heap[n].use + (-1)
      /\ Target.ref # n => heap'[n].use = heap[n].use
  <2>1. -1 \in Int /\ heap[n] # Null
    BY <1>2 DEF Counted
  <2> QED BY <1>2, <1>3, <2>1, UseChanges
<1>5. Cardinality(Users(n)) \in Nat
  BY <1>1, UsersFinite
<1>6. Cardinality(Users(n)) =< heap[n].use /\ heap[n].data = rows[n].hash
  BY <1>1, <1>2, <1>4, <1>5 DEF Counted
<1>7. Target.ref = n => Key \in Users(n)
  BY <1>1, NullAssumption, NumbersFacts, <1>2 DEF Known, Users
<1>8. /\ Cardinality(Users(n)') \in Nat
      /\ rows[n].hash = d =>
           Cardinality(Users(n)') = Cardinality(Users(n)) + (IF Key \in Users(n) THEN 0 ELSE 1)
      /\ rows[n].hash # d =>
           Cardinality(Users(n)') = Cardinality(Users(n)) - (IF Key \in Users(n) THEN 1 ELSE 0)
  BY <1>1, UsersAfter
<1> QED BY <1>4, <1>5, <1>6, <1>7, <1>8

\* Where no row's hash changes, no file block loses its row.
LEMMA OthersKeepHashes ==
    ASSUME CacheInv, NEW k \in Keys, NEW d, fileBlocks' = [fileBlocks EXCEPT ![k] = d],
           \A n \in DOMAIN rows : n \in DOMAIN rows' /\ rows'[n].hash = rows[n].hash
    PROVE  OthersKeep(k)
  BY InvParts DEF OthersKeep, T!TypeOK

LEMMA KeyWritten ==
    ASSUME CacheInv, NEW k \in Keys, NEW d, fileBlocks' = [fileBlocks EXCEPT ![k] = d]
    PROVE  fileBlocks'[k] = d
  BY InvParts DEF T!TypeOK

LEMMA SharingPresent ==
    ASSUME Settled, Alive, WritePresent
    PROVE  Alive' /\ UNCHANGED writer
<1>1. op.kind = "write" /\ CacheInv
  BY DEF WritePresent, ChunkReady, Settled
<1>2. /\ Merged = heap /\ Known(Target, Key) /\ Key \in Keys
      /\ op.h \in Handles /\ fh[op.h] # Null /\ ChunkBlock \in Blocks
  BY <1>1, WriteKnown
<1>3. PICK d \in NewData :
        /\ T!ReplacePresent(Key, d, OldBlock, OldUse)
        /\ Committed([Target EXCEPT !.num = T!IdOf(d), !.hash = d, !.ref = Null],
                     AddUse(Merged, Target.ref, -1), d, TRUE)
  BY DEF WritePresent
<1> DEFINE info == [Target EXCEPT !.num = T!IdOf(d), !.hash = d, !.ref = Null]
           i == [info EXCEPT !.locked = TRUE]
           objects == AddUse(heap, Target.ref, -1)
<1>4. d \in Contents /\ d # Null /\ OldUse \in Int /\ T!TypeOK /\ Target \in Info /\ heap \in Objects
  BY <1>1, ChunkFacts, InvParts, NullAssumption DEF NewData, StoreSafe
<1>5. fileBlocks' = [fileBlocks EXCEPT ![Key] = d] /\ T!Present(d)
  BY <1>3 DEF T!ReplacePresent
<1>6. KeepsHashes
  BY <1>2, <1>3, <1>4, PresentTables
<1>7. T!IdOf(d) \in DOMAIN rows /\ rows[T!IdOf(d)].hash = d /\ T!IdOf(d) \in Numbers
  BY <1>1, <1>5, IdOfPresent, RowTyped
<1>8. /\ info \in Info /\ i \in Info
      /\ info.num = T!IdOf(d) /\ i.num = T!IdOf(d) /\ i.hash = d /\ i.ref = Null
  BY <1>4, <1>7 DEF Info
<1>9. Committed(info, objects, d, TRUE)
  BY <1>2, <1>3
<1> HIDE DEF info
<1>10. /\ op' # Down /\ Placing' = {} /\ fh' = WithInfo(op.h, ChunkBlock, i)
       /\ \A n : Uncounted(n)' = IF info.num = n THEN 1 ELSE 0
       /\ heap' = Live(objects, fh') /\ writer' = writer
  BY <1>1, <1>8, <1>9, CommittedPlace
<1>11. heap' = objects /\ NothingErased'
  <2>1. Target.ref \in Numbers \cup Orphans \cup {Null} /\ (Target.ref # Null => Target.ref \in Numbers)
    BY <1>2, <1>4 DEF Info, Known
  <2>2. -1 \in Int
    OBVIOUS
  <2>3. objects \in Objects /\ \A o \in Orphans : objects[o] = heap[o]
    BY <1>4, <2>1, <2>2, UseChanges
  <2> HIDE DEF objects
  <2>4. \A o \in Orphans : objects[o] = Null
    BY <2>3 DEF Alive, NothingErased
  <2>5. heap' = objects
    BY <1>10, <2>3, <2>4, LiveUnchanged
  <2> QED BY <2>4, <2>5 DEF NothingErased
<1>12. OthersKeep(Key) /\ fileBlocks'[Key] = d
  BY <1>1, <1>2, <1>5, <1>6, OthersKeepHashes, KeyWritten DEF KeepsHashes
<1> HIDE DEF i, objects
<1>13. T!NoDangling' /\ IsFiniteSet(Written)'
  BY <1>1, <1>2, <1>5, <1>6, <1>7, <1>12, NoneDangles, WrittenAfter DEF KeepsHashes
<1>14. HandlesKnow'
  <2>1. KnownNext(i, Key)
    BY <1>4, <1>6, <1>7, <1>8, <1>12 DEF KnownNext, KeepsHashes
  <2> QED BY <1>2, <1>8, <1>10, <1>12, <2>1, InfosKnown DEF Key
<1>15. InMemory'
  <2> SUFFICES ASSUME NEW n \in DOMAIN rows' PROVE Counted(n)'
    BY <1>10 DEF InMemory
  <2>1. n \in DOMAIN rows /\ rows'[n].hash = rows[n].hash
    BY <1>6 DEF KeepsHashes
  <2>2. /\ heap'[n] # Null /\ heap'[n].data = rows'[n].hash
        /\ Cardinality(Users(n)') =< heap'[n].use + (IF rows[n].hash = d THEN 1 ELSE 0)
    BY <1>1, <1>5, <1>11, <2>1, LeftCounted DEF objects
  <2>3. rows[n].hash = d => T!IdOf(d) = n
    BY <2>1, IdOfRow DEF Settled
  <2>4. Uncounted(n)' = IF rows[n].hash = d THEN 1 ELSE 0
    BY <1>7, <1>8, <1>10, <2>3
  <2> QED BY <2>2, <2>4 DEF Counted
<1> QED BY <1>10, <1>11, <1>13, <1>14, <1>15 DEF Alive

LEMMA SharingInsert ==
    ASSUME Settled, Alive, WriteInsert
    PROVE  Alive' /\ UNCHANGED writer
<1>1. op.kind = "write" /\ CacheInv
  BY DEF WriteInsert, ChunkReady, Settled
<1>2. /\ Merged = heap /\ Known(Target, Key) /\ Key \in Keys
      /\ op.h \in Handles /\ fh[op.h] # Null /\ ChunkBlock \in Blocks
  BY <1>1, WriteKnown
<1>3. PICK d \in NewData :
        /\ T!ReplaceInsert(Key, d, OldBlock, OldUse)
        /\ Committed([Target EXCEPT !.num = Len(rows) + 1, !.hash = d, !.ref = Null],
                     AddUse(Merged, Target.ref, -1), d, FALSE)
  BY DEF WriteInsert
<1> DEFINE info == [Target EXCEPT !.num = Len(rows) + 1, !.hash = d, !.ref = Null]
           i == [info EXCEPT !.locked = TRUE]
           objects == AddUse(heap, Target.ref, -1)
<1>0. PICK m : m = Len(rows) + 1
  OBVIOUS
<1>4. d \in Contents /\ d # Null /\ OldUse \in Int /\ T!TypeOK /\ Target \in Info /\ heap \in Objects
  BY <1>1, ChunkFacts, InvParts, NullAssumption DEF NewData, StoreSafe
<1>5. fileBlocks' = [fileBlocks EXCEPT ![Key] = d] /\ ~T!Present(d)
  BY <1>3 DEF T!ReplaceInsert
<1>6. /\ Len(rows) < MaxRows /\ DOMAIN rows' = DOMAIN rows \cup {m}
      /\ rows'[m].hash = d
      /\ \A n \in DOMAIN rows : rows'[n].hash = rows[n].hash
  BY <1>0, <1>2, <1>3, <1>4, InsertTables
<1>7. m \in Numbers
  BY <1>0, <1>1, <1>6, RowsAreNumbers, CacheAssumption DEF Numbers
<1>8. /\ info \in Info /\ i \in Info
      /\ info.num = m /\ i.num = m /\ i.hash = d /\ i.ref = Null
  BY <1>0, <1>4, <1>7 DEF Info
<1>9. Committed(info, objects, d, FALSE)
  BY <1>2, <1>3
<1> HIDE DEF info
<1>10. /\ op' # Down /\ Placing' = {m} /\ fh' = WithInfo(op.h, ChunkBlock, i)
       /\ op'.data = d
       /\ \A n : Uncounted(n)' = 0
       /\ heap' = Live(objects, fh') /\ writer' = writer
  BY <1>1, <1>8, <1>9, CommittedPlace
<1>11. heap' = objects /\ NothingErased'
  <2>1. Target.ref \in Numbers \cup Orphans \cup {Null} /\ (Target.ref # Null => Target.ref \in Numbers)
    BY <1>2, <1>4 DEF Info, Known
  <2>2. -1 \in Int
    OBVIOUS
  <2>3. objects \in Objects /\ \A o \in Orphans : objects[o] = heap[o]
    BY <1>4, <2>1, <2>2, UseChanges
  <2> HIDE DEF objects
  <2>4. \A o \in Orphans : objects[o] = Null
    BY <2>3 DEF Alive, NothingErased
  <2>5. heap' = objects
    BY <1>10, <2>3, <2>4, LiveUnchanged
  <2> QED BY <2>4, <2>5 DEF NothingErased
<1>12. OthersKeep(Key) /\ fileBlocks'[Key] = d
  BY <1>1, <1>2, <1>5, <1>6, OthersKeepHashes, KeyWritten
<1> HIDE DEF i, objects
<1>13. T!NoDangling' /\ IsFiniteSet(Written)'
  BY <1>1, <1>2, <1>5, <1>6, <1>12, NoneDangles, WrittenAfter
<1>14. HandlesKnow'
  <2>1. KnownNext(i, Key)
    BY <1>4, <1>6, <1>8, <1>12 DEF KnownNext
  <2> QED BY <1>2, <1>8, <1>10, <1>12, <2>1, InfosKnown DEF Key
<1>15. InMemory'
  <2>1. Awaited(m)'
    <3>1. ASSUME NEW k \in Keys, fileBlocks'[k] = d PROVE k = Key
      <4>1. fileBlocks[k] # d
        BY <1>4, <1>5 DEF Alive, T!NoDangling
      <4> QED BY <1>12, <3>1, <4>1 DEF OthersKeep
    <3>2. Users(m)' = {Key}
      BY <1>2, <1>6, <1>12, <3>1 DEF Users
    <3>3. Cardinality({Key}) = 1
      BY FS_Singleton
    <3>4. Cardinality(Users(m)') =< 1
      BY <3>2, <3>3
    <3> QED BY <1>6, <1>10, <3>4 DEF Awaited
  <2>2. ASSUME NEW n \in DOMAIN rows', n # m PROVE Counted(n)'
    <3>1. n \in DOMAIN rows /\ rows'[n].hash = rows[n].hash
      BY <1>6, <2>2
    <3>2. rows[n].hash # d
      BY <1>5, <3>1 DEF T!Present
    <3>3. /\ heap'[n] # Null /\ heap'[n].data = rows'[n].hash
          /\ Cardinality(Users(n)') =< heap'[n].use + (IF rows[n].hash = d THEN 1 ELSE 0)
      BY <1>1, <1>5, <1>11, <3>1, LeftCounted DEF objects
    <3> QED BY <1>10, <3>2, <3>3 DEF Counted
  <2> QED BY <1>10, <2>1, <2>2 DEF InMemory
<1> QED BY <1>10, <1>11, <1>13, <1>14, <1>15 DEF Alive

\* A block is overwritten in place by its only user.
LEMMA InPlaceSole ==
    ASSUME Settled, Alive, op.kind = "write", T!InPlaceAllowed(OldBlock, OldUse)
    PROVE  /\ OldBlock = Target.num /\ Target.ref = Target.num /\ Target.num \in DOMAIN rows
           /\ Users(Target.num) = {Key} /\ OldUse = 1
<1>1. CacheInv /\ Placing = {} /\ Merged = heap /\ Known(Target, Key) /\ Key \in Keys
  BY WriteKnown, NoPlacing DEF Settled
<1>2. Target.ref # Null /\ OldBlock = Target.num /\ OldUse = 1
  BY <1>1, InPlaceNotZero DEF T!InPlaceAllowed
<1>3. /\ Target.ref = Target.num /\ Target.num \in DOMAIN rows
      /\ rows[Target.num].hash = fileBlocks[Key] /\ Counted(Target.num)
  BY <1>1, <1>2, RefInMemory
<1>4. heap[Target.num].use = 1
  BY <1>1, <1>2, <1>3 DEF OldUse
<1>5. Cardinality(Users(Target.num)) =< 1
  BY <1>3, <1>4, WriteKnown DEF Counted
<1>6. Key \in Users(Target.num)
  BY <1>1, <1>3 DEF Users
<1> QED BY <1>1, <1>2, <1>3, <1>5, <1>6, OnlyUser

LEMMA SharingInPlace ==
    ASSUME Settled, Alive, WriteInPlace
    PROVE  Alive' /\ UNCHANGED writer
<1>1. op.kind = "write" /\ CacheInv
  BY DEF WriteInPlace, ChunkReady, Settled
<1>2. /\ Merged = heap /\ Known(Target, Key) /\ Key \in Keys
      /\ op.h \in Handles /\ fh[op.h] # Null /\ ChunkBlock \in Blocks
      /\ \A n : Uncounted(n) = 0
      /\ Placing = {}
  BY <1>1, WriteKnown
<1>3. PICK d \in NewData :
        /\ T!ReplaceInPlace(Key, d, OldBlock, OldUse)
        /\ Committed([Target EXCEPT !.hash = d], Merged, d, FALSE)
  BY DEF WriteInPlace
<1>0. PICK m : m = Target.num
  OBVIOUS
<1> DEFINE info == [Target EXCEPT !.hash = d]
           i == [info EXCEPT !.locked = TRUE]
<1>4. d \in Contents /\ d # Null /\ OldUse \in Int /\ T!TypeOK /\ Target \in Info /\ heap \in Objects
  BY <1>1, ChunkFacts, InvParts, NullAssumption DEF NewData, StoreSafe
<1>5. fileBlocks' = [fileBlocks EXCEPT ![Key] = d] /\ ~T!Present(d)
  BY <1>3 DEF T!ReplaceInPlace
<1>6. OldBlock = m /\ Target.ref = m /\ m \in DOMAIN rows /\ Users(m) = {Key}
  BY <1>0, <1>1, <1>3, InPlaceSole DEF T!ReplaceInPlace
<1>7. /\ DOMAIN rows' = DOMAIN rows
      /\ \A n \in DOMAIN rows : rows'[n].hash = IF n = m THEN d ELSE rows[n].hash
  BY <1>2, <1>3, <1>4, <1>6, InPlaceTables
<1>8. /\ info \in Info /\ i \in Info
      /\ info.num = m /\ i.num = m /\ i.hash = d /\ i.ref = m
  BY <1>0, <1>4, <1>6 DEF Info
<1>9. Committed(info, heap, d, FALSE)
  BY <1>2, <1>3
<1> HIDE DEF info
<1>10. /\ op' # Down /\ Placing' = {m} /\ fh' = WithInfo(op.h, ChunkBlock, i)
       /\ op'.data = d
       /\ \A n : Uncounted(n)' = 0
       /\ heap' = Live(heap, fh') /\ writer' = writer
  BY <1>1, <1>8, <1>9, CommittedPlace
<1>11. heap' = heap /\ NothingErased'
  <2>1. \A o \in Orphans : heap[o] = Null
    BY DEF Alive, NothingErased
  <2>2. heap' = heap
    BY <1>4, <1>10, <2>1, LiveUnchanged
  <2> QED BY <2>1, <2>2 DEF NothingErased
<1>12. OthersKeep(Key) /\ fileBlocks'[Key] = d
  <2>1. fileBlocks'[Key] = d
    BY <1>1, <1>2, <1>5, KeyWritten
  <2>2. ASSUME NEW j \in Keys, j # Key PROVE fileBlocks'[j] = fileBlocks[j]
    BY <1>1, <1>5, <2>2, InvParts DEF T!TypeOK
  <2>3. ASSUME NEW j \in Keys, j # Key, NEW n \in DOMAIN rows, rows[n].hash = fileBlocks[j]
        PROVE  n # m
    BY <1>6, <2>3 DEF Users
  <2> QED BY <1>7, <2>1, <2>2, <2>3 DEF OthersKeep
<1> HIDE DEF i
<1>13. T!NoDangling' /\ IsFiniteSet(Written)'
  BY <1>1, <1>2, <1>5, <1>6, <1>7, <1>12, NoneDangles, WrittenAfter
<1>14. HandlesKnow'
  <2>1. KnownNext(i, Key)
    BY <1>4, <1>6, <1>7, <1>8, <1>12 DEF KnownNext
  <2> QED BY <1>2, <1>8, <1>10, <1>12, <2>1, InfosKnown DEF Key
<1>15. InMemory'
  <2>1. Awaited(m)'
    <3>1. ASSUME NEW k \in Keys, fileBlocks'[k] = d PROVE k = Key
      <4>1. fileBlocks[k] # d
        BY <1>4, <1>5 DEF Alive, T!NoDangling
      <4> QED BY <1>12, <3>1, <4>1 DEF OthersKeep
    <3>2. Users(m)' = {Key}
      BY <1>2, <1>6, <1>7, <1>12, <3>1 DEF Users
    <3>3. Cardinality({Key}) = 1
      BY FS_Singleton
    <3>4. Cardinality(Users(m)') =< 1
      BY <3>2, <3>3
    <3> QED BY <1>6, <1>7, <1>10, <3>4 DEF Awaited
  <2>2. ASSUME NEW n \in DOMAIN rows', n # m PROVE Counted(n)'
    <3>1. n \in DOMAIN rows /\ rows'[n].hash = rows[n].hash
      BY <1>7, <2>2
    <3>2. rows[n].hash # d
      BY <1>5, <3>1 DEF T!Present
    <3>3. Counted(n) /\ heap[n].use \in Int
      BY <1>1, <1>2, <1>4, <3>1, RowTyped DEF Alive, InMemory, Counted, Objects, Item
    <3>4. /\ Cardinality(Users(n)) \in Nat /\ Cardinality(Users(n)') \in Nat
          /\ Cardinality(Users(n)') = Cardinality(Users(n)) - (IF Key \in Users(n) THEN 1 ELSE 0)
      BY <1>1, <1>2, <1>5, <3>1, <3>2, UsersAfter, UsersFinite
    <3>5. Cardinality(Users(n)') =< heap[n].use
      BY <1>2, <3>3, <3>4 DEF Counted
    <3> QED BY <1>10, <1>11, <3>1, <3>3, <3>5 DEF Counted
  <2> QED BY <1>10, <2>1, <2>2 DEF InMemory
<1> QED BY <1>10, <1>11, <1>13, <1>14, <1>15 DEF Alive

----------------------------------------------------------------------------
(* The update of the cache after the commit                                *)

LEMMA OthersKeepAll == ASSUME UNCHANGED <<rows, fileBlocks>> PROVE \A k : OthersKeep(k)
  BY DEF OthersKeep

\* A step that leaves the tables alone.
LEMMA TablesStay ==
    ASSUME Alive, UNCHANGED <<rows, fileBlocks>>, op' # Down,
           NothingErased', HandlesKnow', InMemory'
    PROVE  Alive'
<1>1. T!NoDangling'
  BY DEF Alive, T!NoDangling, T!Present
<1>2. IsFiniteSet(Written)'
  BY DEF Alive, Written
<1> QED BY <1>1, <1>2 DEF Alive

LEMMA UsersStay ==
    ASSUME UNCHANGED <<rows, fileBlocks>>, NEW n
    PROVE  Users(n)' = Users(n)
  BY DEF Users

\* The block_info that gets its use or its object, and the request going on.
LEMMA UnlockedKnown ==
    ASSUME Settled, Alive, op.kind = "place", NEW info \in Info,
           Known(info, <<fh[op.h].file, op.block>>), Unlocked(info)
    PROVE  /\ HandlesKnow' /\ op' # Down /\ Placing' = {} /\ (\A n : Uncounted(n)' = 0)
           /\ UNCHANGED <<rows, fileBlocks, writer>>
<1> DEFINE i == [info EXCEPT !.locked = FALSE]
           k == <<fh[op.h].file, op.block>>
<1>1. CacheInv /\ op.h \in Handles /\ fh[op.h] # Null /\ op.block \in Blocks
  BY PlaceFacts DEF Settled
<1>2. /\ fh' = WithInfo(op.h, op.block, i)
      /\ op' = IF op.next = op.end THEN Idle
               ELSE [kind |-> "write", h |-> op.h, next |-> op.next, end |-> op.end]
      /\ UNCHANGED <<rows, fileBlocks, writer>>
  BY DEF Unlocked
<1>3. i \in Info /\ i.hash = info.hash /\ i.num = info.num /\ i.ref = info.ref
      /\ i.empty = info.empty
  BY DEF Info
<1>4. OthersKeep(k)
  BY <1>2, OthersKeepAll
<1> HIDE DEF i
<1>5. KnownNext(i, k)
  BY <1>2, <1>3 DEF Known, KnownNext
<1>6. HandlesKnow'
  BY <1>1, <1>2, <1>3, <1>4, <1>5, InfosKnown
<1>7. op'.kind \in {"idle", "write"}
  BY <1>2 DEF Idle
<1>8. op' # Down
  BY <1>7 DEF Down
<1>9. Placing' = {} /\ \A n : Uncounted(n)' = 0
  BY <1>7 DEF Placing, Uncounted
<1> QED BY <1>2, <1>6, <1>8, <1>9

LEMMA PlaceKnown ==
    ASSUME Settled, Alive, op.kind = "place"
    PROVE  /\ Known(fh[op.h].blocks[op.block], <<fh[op.h].file, op.block>>)
           /\ fh[op.h].blocks[op.block].hash # Null
           /\ fh[op.h].blocks[op.block].num \in DOMAIN rows
           /\ \A n \in DOMAIN rows : n \notin Placing => Counted(n)
<1> DEFINE i == fh[op.h].blocks[op.block]
<1>1. /\ op.h \in Handles /\ fh[op.h] # Null /\ op.block \in Blocks
      /\ i \in Info /\ i.num # 0
  BY PlaceFacts DEF Settled
<1>2. i # Null
  BY <1>1, NullAssumption
<1>3. Known(i, <<fh[op.h].file, op.block>>)
  BY <1>1, <1>2 DEF Alive, HandlesKnow
<1> QED BY <1>1, <1>3 DEF Known, Alive, InMemory

LEMMA SharingPlacePresent ==
    ASSUME Settled, Alive, PlacePresent
    PROVE  Alive' /\ UNCHANGED writer
<1> DEFINE i == fh[op.h].blocks[op.block]
<1>1. /\ CacheInv /\ op.kind = "place" /\ op.present
      /\ heap' = AddUse(heap, i.num, 1) /\ Unlocked(i)
  BY DEF PlacePresent, Settled
<1>2. i \in Info /\ i.num \in Numbers /\ heap \in Objects
  BY <1>1, PlaceFacts, InvParts DEF StoreSafe
<1>3. Known(i, <<fh[op.h].file, op.block>>) /\ \A n \in DOMAIN rows : n \notin Placing => Counted(n)
  BY <1>1, PlaceKnown
<1>4. Placing = {} /\ \A n : Uncounted(n) = IF i.num = n THEN 1 ELSE 0
  BY <1>1 DEF Placing, Uncounted
<1> HIDE DEF i
<1>5. /\ HandlesKnow' /\ op' # Down /\ Placing' = {} /\ (\A n : Uncounted(n)' = 0)
      /\ UNCHANGED <<rows, fileBlocks, writer>>
  BY <1>1, <1>2, <1>3, UnlockedKnown DEF i
<1>6. /\ \A o \in Orphans : heap'[o] = heap[o]
      /\ \A n \in Numbers : heap[n] # Null =>
           /\ heap'[n] # Null
           /\ heap'[n].data = heap[n].data
           /\ heap[n].use \in Int
           /\ i.num = n => heap'[n].use = heap[n].use + 1
           /\ i.num # n => heap'[n].use = heap[n].use
  <2>1. 1 \in Int /\ (i.num # Null => i.num \in Numbers)
        /\ i.num \in Numbers \cup Orphans \cup {Null}
    BY <1>2
  <2>2. /\ \A o \in Orphans : AddUse(heap, i.num, 1)[o] = heap[o]
        /\ \A n \in Numbers : heap[n] # Null =>
             /\ AddUse(heap, i.num, 1)[n] # Null
             /\ AddUse(heap, i.num, 1)[n].data = heap[n].data
             /\ heap[n].use \in Int
             /\ i.num = n => AddUse(heap, i.num, 1)[n].use = heap[n].use + 1
             /\ i.num # n => AddUse(heap, i.num, 1)[n].use = heap[n].use
    BY <1>2, <2>1, UseChanges
  <2> QED BY <1>1, <2>2, Zenon
<1>7. NothingErased'
  BY <1>6 DEF Alive, NothingErased
<1>8. InMemory'
  <2> SUFFICES ASSUME NEW n \in DOMAIN rows' PROVE Counted(n)'
    BY <1>5 DEF InMemory
  <2>1. n \in DOMAIN rows /\ Counted(n) /\ n \in Numbers
    BY <1>1, <1>3, <1>4, <1>5, RowTyped
  <2>2. /\ heap'[n] # Null /\ heap'[n].data = heap[n].data /\ heap[n].use \in Int
        /\ i.num = n => heap'[n].use = heap[n].use + 1
        /\ i.num # n => heap'[n].use = heap[n].use
    BY <1>6, <2>1 DEF Counted
  <2>3. Cardinality(Users(n)) \in Nat /\ Users(n)' = Users(n)
    BY <1>1, <1>5, <2>1, UsersFinite, UsersStay
  <2>4. Cardinality(Users(n)) =< heap[n].use + Uncounted(n)
    BY <2>1 DEF Counted
  <2>5. Cardinality(Users(n)') =< heap'[n].use + 0
    <3>1. CASE i.num = n
      BY <1>4, <2>2, <2>3, <2>4, <3>1
    <3>2. CASE i.num # n
      BY <1>4, <2>2, <2>3, <2>4, <3>2
    <3> QED BY <3>1, <3>2
  <2>6. heap'[n].data = rows'[n].hash
    BY <1>5, <2>1, <2>2 DEF Counted
  <2> QED BY <1>5, <2>2, <2>5, <2>6 DEF Counted
<1> QED BY <1>5, <1>7, <1>8, TablesStay

LEMMA SharingPlaceData ==
    ASSUME Settled, Alive, PlaceData
    PROVE  Alive' /\ UNCHANGED writer
<1> DEFINE old == fh[op.h].blocks[op.block]
           i == [old EXCEPT !.ref = old.num]
           item == [use |-> 1, data |-> op.data, dirty |-> TRUE]
           objects == [heap EXCEPT ![old.num] = item]
<1>1. /\ CacheInv /\ op.kind = "place" /\ ~op.present
      /\ Unlocked(i) /\ heap' = Live(objects, fh')
  BY DEF PlaceData, Settled
<1>2. old \in Info /\ old.num \in Numbers /\ heap \in Objects /\ op.data \in Contents
  BY <1>1, PlaceFacts, InvParts DEF StoreSafe, Place
<1>3. Known(old, <<fh[op.h].file, op.block>>) /\ old.hash # Null /\ old.num \in DOMAIN rows
      /\ \A n \in DOMAIN rows : n \notin Placing => Counted(n)
  BY <1>1, PlaceKnown
<1>4. Placing = {old.num} /\ \A n : Uncounted(n) = 0
  BY <1>1 DEF Placing, Uncounted
<1> HIDE DEF old
<1>5. i \in Info /\ Known(i, <<fh[op.h].file, op.block>>)
  <2>1. i \in Info /\ i.hash = old.hash /\ i.num = old.num /\ i.ref = old.num
    BY <1>2 DEF Info
  <2> QED BY <1>3, <2>1 DEF Known
<1>6. /\ HandlesKnow' /\ op' # Down /\ Placing' = {} /\ (\A n : Uncounted(n)' = 0)
      /\ UNCHANGED <<rows, fileBlocks, writer>>
  BY <1>1, <1>5, UnlockedKnown
<1>7. item \in Item /\ item # Null
  <2>1. item \in Item
    BY <1>2 DEF Item
  <2> QED BY <2>1, NullAssumption
<1>8. heap' = objects /\ NothingErased'
  <2>1. objects \in Objects /\ \A o \in Orphans : objects[o] = heap[o]
    BY <1>2, <1>7, NumbersFacts DEF Objects
  <2> HIDE DEF objects
  <2>2. \A o \in Orphans : objects[o] = Null
    BY <2>1 DEF Alive, NothingErased
  <2>3. heap' = objects
    BY <1>1, <2>1, <2>2, LiveUnchanged
  <2> QED BY <2>2, <2>3 DEF NothingErased
<1>9. InMemory'
  <2> SUFFICES ASSUME NEW n \in DOMAIN rows' PROVE Counted(n)'
    BY <1>6 DEF InMemory
  <2>1. n \in DOMAIN rows /\ n \in Numbers /\ rows'[n].hash = rows[n].hash
        /\ Users(n)' = Users(n) /\ Uncounted(n)' = 0
    BY <1>1, <1>6, RowTyped, UsersStay
  <2>2. CASE n = old.num
    <3>1. heap'[n] = item
      BY <1>2, <1>8, <2>2 DEF Objects
    <3>2. Awaited(n)
      BY <1>3, <1>4, <2>2 DEF Alive, InMemory
    <3>3. Cardinality(Users(n)) \in Nat
      BY <1>1, <2>1, UsersFinite
    <3> QED BY <1>7, <2>1, <3>1, <3>2, <3>3 DEF Awaited, Counted
  <2>3. CASE n # old.num
    <3>1. heap'[n] = heap[n]
      BY <1>2, <1>8, <2>1, <2>3 DEF Objects
    <3>2. Counted(n) /\ Uncounted(n) = 0
      BY <1>3, <1>4, <2>1, <2>3
    <3> QED BY <2>1, <3>1, <3>2 DEF Counted
  <2> QED BY <2>2, <2>3
<1> QED BY <1>6, <1>8, <1>9, TablesStay

----------------------------------------------------------------------------
(* Truncating, and the other requests                                      *)

\* A file block is released: the block_info gives the hash, the count and the
\* number that are its own.
LEMMA DropKnown ==
    ASSUME Settled, Alive, op.kind = "truncate", op.next < op.end
    PROVE  /\ op.h \in Handles /\ fh[op.h] # Null /\ op.next \in Blocks
           /\ <<fh[op.h].file, op.next>> \in Keys
           /\ Known(InfoOf(op.h, op.next), <<fh[op.h].file, op.next>>)
           /\ InfoOf(op.h, op.next) \in Info
           /\ Placing = {} /\ \A n : Uncounted(n) = 0
<1>1. CacheInv /\ Placing = {}
  BY NoPlacing DEF Settled
<1>2. op.h \in Handles /\ fh[op.h] # Null /\ op.next \in Blocks /\ <<fh[op.h].file, op.next>> \in Keys
  BY <1>1, TruncateFacts
<1> QED BY <1>1, <1>2, LookupKnown, LookupSafe DEF Uncounted

LEMMA SharingTruncateBlock ==
    ASSUME Settled, Alive, TruncateBlock
    PROVE  Alive' /\ UNCHANGED writer
<1>0. PICK k : k = <<fh[op.h].file, op.next>>
  OBVIOUS
<1>1. PICK i : i = InfoOf(op.h, op.next)
  OBVIOUS
<1>2. /\ CacheInv /\ op.kind = "truncate" /\ op.next < op.end /\ i.hash # Null
      /\ T!Release(k, i.hash)
      /\ fh' = WithInfo(op.h, op.next, Null)
      /\ heap' = Live(IF i.num = 0 THEN heap ELSE AddUse(heap, i.num, -1), fh')
      /\ op' = [op EXCEPT !.next = @ + 1]
      /\ UNCHANGED writer
  BY <1>0, <1>1 DEF TruncateBlock, Truncating, Settled
<1>3. /\ op.h \in Handles /\ fh[op.h] # Null /\ op.next \in Blocks
      /\ k \in Keys /\ Known(i, k) /\ i \in Info
      /\ Placing = {} /\ \A n : Uncounted(n) = 0
  BY <1>0, <1>1, <1>2, DropKnown
<1>4. i.num \in DOMAIN rows /\ rows[i.num].hash = fileBlocks[k] /\ i.num \in Numbers \ {0}
  BY <1>2, <1>3, RowTyped DEF Known
<1>5. fileBlocks' = [fileBlocks EXCEPT ![k] = Null] /\ KeepsHashes /\ heap \in Objects
  BY <1>2, <1>3, InvParts, ReleaseTables DEF T!Release, StoreSafe
<1>6. OthersKeep(k)
  BY <1>2, <1>3, <1>5, OthersKeepHashes DEF KeepsHashes
<1>7. T!NoDangling' /\ IsFiniteSet(Written)'
  BY <1>2, <1>3, <1>5, <1>6, NoneDangles, WrittenAfter
<1>8. HandlesKnow'
  BY <1>0, <1>2, <1>3, <1>6, InfosKnown
<1>9. op' # Down /\ Placing' = {} /\ \A n : Uncounted(n)' = 0
  <2>1. op'.kind = "truncate"
    BY <1>2, TruncateFacts DEF Truncate
  <2> QED BY <2>1 DEF Down, Placing, Uncounted
<1> DEFINE objects == AddUse(heap, i.num, -1)
<1>10. /\ objects \in Objects
       /\ \A o \in Orphans : objects[o] = heap[o]
       /\ \A n \in Numbers : heap[n] # Null =>
            /\ objects[n] # Null
            /\ objects[n].data = heap[n].data
            /\ heap[n].use \in Int
            /\ i.num = n => objects[n].use = heap[n].use + (-1)
            /\ i.num # n => objects[n].use = heap[n].use
  <2>1. -1 \in Int /\ (i.num # Null => i.num \in Numbers)
        /\ i.num \in Numbers \cup Orphans \cup {Null}
    BY <1>4
  <2> QED BY <1>5, <2>1, UseChanges
<1>11. heap' = Live(objects, fh')
  BY <1>2, <1>4
<1> HIDE DEF objects
<1>12. heap' = objects /\ NothingErased'
  <2>1. \A o \in Orphans : objects[o] = Null
    BY <1>10 DEF Alive, NothingErased
  <2>2. heap' = objects
    BY <1>10, <1>11, <2>1, LiveUnchanged
  <2> QED BY <2>1, <2>2 DEF NothingErased
<1>13. InMemory'
  <2> SUFFICES ASSUME NEW n \in DOMAIN rows' PROVE Counted(n)'
    BY <1>9 DEF InMemory
  <2>1. n \in DOMAIN rows /\ rows'[n].hash = rows[n].hash /\ n \in Numbers /\ rows[n].hash # Null
    BY <1>2, <1>5, RowTyped DEF KeepsHashes
  <2>2. Counted(n)
    BY <1>3, <2>1 DEF Alive, InMemory
  <2>3. /\ objects[n] # Null /\ objects[n].data = heap[n].data /\ heap[n].use \in Int
        /\ i.num = n => objects[n].use = heap[n].use + (-1)
        /\ i.num # n => objects[n].use = heap[n].use
    BY <1>10, <2>1, <2>2 DEF Counted
  <2>4. /\ Cardinality(Users(n)) \in Nat /\ Cardinality(Users(n)') \in Nat
        /\ Cardinality(Users(n)') = Cardinality(Users(n)) - (IF k \in Users(n) THEN 1 ELSE 0)
    BY <1>2, <1>3, <1>5, <2>1, UsersAfter, UsersFinite
  <2>5. Cardinality(Users(n)) =< heap[n].use
    BY <1>3, <2>2, <2>3, <2>4 DEF Counted
  <2>6. Cardinality(Users(n)') =< objects[n].use
    <3>1. CASE i.num = n
      <4>1. k \in Users(n)
        BY <1>3, <1>4, <3>1 DEF Users
      <4> QED BY <2>3, <2>4, <2>5, <3>1, <4>1
    <3>2. CASE i.num # n
      BY <2>3, <2>4, <2>5, <3>2
    <3> QED BY <3>1, <3>2
  <2>7. objects[n].use + 0 = objects[n].use
    BY <2>3
  <2> QED BY <1>9, <1>12, <2>1, <2>2, <2>3, <2>6, <2>7 DEF Counted
<1> QED BY <1>2, <1>7, <1>8, <1>9, <1>12, <1>13 DEF Alive

\* A step between two blocks that leaves the tables and the store alone.
LEMMA QuietStep ==
    ASSUME Settled, Alive, UNCHANGED <<rows, fileBlocks, heap>>,
           op' # Down, op.kind # "place", op'.kind # "place", HandlesKnow'
    PROVE  Alive'
<1>1. /\ Placing = {} /\ \A n : Uncounted(n) = 0
      /\ Placing' = {} /\ \A n : Uncounted(n)' = 0
  BY DEF Placing, Uncounted
<1>2. NothingErased'
  BY DEF Alive, NothingErased
<1>3. InMemory'
  <2> SUFFICES ASSUME NEW n \in DOMAIN rows PROVE Counted(n)'
    BY <1>1 DEF InMemory
  <2>1. Counted(n)
    BY <1>1 DEF Alive, InMemory
  <2> QED BY <1>1, <2>1, UsersStay DEF Counted
<1> QED BY <1>2, <1>3, TablesStay

\* Handles come, go and change their sizes.
LEMMA SameInfosKnown ==
    ASSUME Alive, UNCHANGED <<rows, fileBlocks>>,
           \A h \in Handles : fh'[h] # Null =>
              \/ fh'[h].blocks = [b \in Blocks |-> Null]
              \/ fh[h] # Null /\ fh'[h].file = fh[h].file /\ fh'[h].blocks = fh[h].blocks
    PROVE  HandlesKnow'
<1> SUFFICES ASSUME NEW h \in Handles, NEW b \in Blocks, fh'[h] # Null, fh'[h].blocks[b] # Null
             PROVE  KnownNext(fh'[h].blocks[b], <<fh'[h].file, b>>)
  BY DEF HandlesKnow, Known, KnownNext
<1>1. fh[h] # Null /\ fh'[h].file = fh[h].file /\ fh'[h].blocks = fh[h].blocks
  OBVIOUS
<1>2. Known(fh[h].blocks[b], <<fh[h].file, b>>)
  BY <1>1 DEF Alive, HandlesKnow
<1> QED BY <1>1, <1>2 DEF Known, KnownNext

\* One handle gets another size, or is new.
LEMMA HandleReplaced ==
    ASSUME Settled, Alive, NEW h \in Handles, NEW new, fh' = [fh EXCEPT ![h] = new],
           UNCHANGED <<rows, fileBlocks>>,
           \/ new = Null \/ new.blocks = [b \in Blocks |-> Null]
           \/ fh[h] # Null /\ new.file = fh[h].file /\ new.blocks = fh[h].blocks
    PROVE  HandlesKnow'
<1>1. \A g \in Handles : fh'[g] = IF g = h THEN new ELSE fh[g]
  BY InvParts DEF Settled, StoreSafe, OpenFiles
<1> QED BY <1>1, SameInfosKnown

LEMMA SharingRequest ==
    ASSUME Settled, Alive, Request
    PROVE  Alive' /\ UNCHANGED writer
<1>1. CacheInv
  BY DEF Settled
<1>2. ASSUME NEW h \in Handles, NEW f \in Files, Open(h, f)
      PROVE  Alive' /\ UNCHANGED writer
  <2> DEFINE new == [file |-> f, size |-> fsize[f], blocks |-> [b \in Blocks |-> Null]]
  <2>1. fh' = [fh EXCEPT ![h] = new] /\ new.blocks = [b \in Blocks |-> Null]
        /\ UNCHANGED <<rows, fileBlocks, heap, op, writer>> /\ op = Idle
    BY <1>2 DEF Open
  <2> HIDE DEF new
  <2>2. HandlesKnow'
    BY <2>1, HandleReplaced
  <2> QED BY <2>1, <2>2, QuietStep DEF Idle, Down
<1>3. ASSUME NEW h \in Handles, Release(h)
      PROVE  Alive' /\ UNCHANGED writer
  <2>1. fh' = [fh EXCEPT ![h] = Null] /\ heap' = Live(heap, fh')
        /\ UNCHANGED <<rows, fileBlocks, op, writer>> /\ op = Idle
    BY <1>3 DEF Release
  <2>2. HandlesKnow'
    BY <2>1, HandleReplaced
  <2>3. heap' = heap
    BY <1>1, <2>1, LiveUnchanged, InvParts DEF StoreSafe, Alive, NothingErased
  <2> QED BY <2>1, <2>2, <2>3, QuietStep DEF Idle, Down
<1>4. ASSUME NEW h \in Handles, NEW b \in Blocks, Read(h, b)
      PROVE  Alive' /\ UNCHANGED writer
  <2> DEFINE i == Locked(h, b)
  <2>1. /\ op = Idle /\ fh[h] # Null /\ fh' = WithInfo(h, b, i)
        /\ heap' = IF i.ref = Null THEN Placed(h, b)
                   ELSE [Placed(h, b) EXCEPT ![i.ref] = Populate(@, i.num)]
        /\ UNCHANGED <<rows, fileBlocks, op, writer>>
    BY <1>4 DEF Read
  <2>2. Placing = {} /\ Placed(h, b) = heap /\ Known(i, <<fh[h].file, b>>) /\ i \in Info
    BY <1>1, <2>1, LookupKnown, LookupSafe, NoPlacing DEF Idle
  <2> HIDE DEF i
  <2>3. heap' = heap
    BY <2>1, <2>2, PopulatedAlready
  <2>4. KnownNext(i, <<fh[h].file, b>>) /\ OthersKeep(<<fh[h].file, b>>)
    BY <2>1, <2>2, OthersKeepAll DEF Known, KnownNext
  <2>5. HandlesKnow'
    BY <2>1, <2>2, <2>4, InfosKnown
  <2> QED BY <2>1, <2>3, <2>5, QuietStep DEF Idle, Down
<1>5. ASSUME NEW h \in Handles, NEW b \in Blocks, Hang(h, b)
      PROVE  Alive' /\ UNCHANGED writer
  <2>1. op' = Hung /\ op.kind # "place" /\ UNCHANGED <<rows, fileBlocks, heap, fh, writer>>
    BY <1>5 DEF Hang, Idle
  <2>2. HandlesKnow'
    BY <2>1, SameInfosKnown
  <2> QED BY <2>1, <2>2, QuietStep DEF Hung, Down
<1>6. ASSUME NEW h \in Handles, NEW from \in 0..MaxSize, NEW end \in 0..MaxSize,
             WriteBuf(h, from, end)
      PROVE  Alive' /\ UNCHANGED writer
  <2>1. /\ op = Idle /\ fh[h] # Null /\ fh' \in {fh, [fh EXCEPT ![h].size = end]}
        /\ op' = [kind |-> "write", h |-> h, next |-> from, end |-> end]
        /\ UNCHANGED <<rows, fileBlocks, heap, writer>>
    BY <1>6 DEF WriteBuf
  <2>2. HandlesKnow'
    <3>1. CASE fh' = fh
      BY <2>1, <3>1, SameInfosKnown
    <3>2. CASE fh' = [fh EXCEPT ![h].size = end]
      <4> DEFINE new == [fh[h] EXCEPT !.size = end]
      <4>1. new.file = fh[h].file /\ new.blocks = fh[h].blocks
        BY <1>1, <2>1, HandleTyped DEF Handle
      <4>2. fh' = [fh EXCEPT ![h] = new]
        BY <3>2
      <4> HIDE DEF new
      <4> QED BY <2>1, <4>1, <4>2, HandleReplaced
    <3> QED BY <2>1, <3>1, <3>2
  <2>3. op'.kind = "write" /\ op.kind = "idle"
    BY <2>1 DEF Idle
  <2> QED BY <2>1, <2>2, <2>3, QuietStep DEF Down
<1>7. ASSUME NEW h \in Handles, NEW n \in 0..MaxSize, Extend(h, n)
      PROVE  Alive' /\ UNCHANGED writer
  <2>1. /\ op = Idle /\ fh[h] # Null /\ fh' = [fh EXCEPT ![h].size = n]
        /\ UNCHANGED <<rows, fileBlocks, heap, op, writer>>
    BY <1>7 DEF Extend
  <2> DEFINE new == [fh[h] EXCEPT !.size = n]
  <2>2. new.file = fh[h].file /\ new.blocks = fh[h].blocks
    BY <1>1, <2>1, HandleTyped DEF Handle
  <2>3. fh' = [fh EXCEPT ![h] = new]
    BY <2>1
  <2> HIDE DEF new
  <2>4. HandlesKnow'
    BY <2>1, <2>2, <2>3, HandleReplaced
  <2> QED BY <2>1, <2>4, QuietStep DEF Idle, Down
<1>8. ASSUME NEW h \in Handles, NEW n \in 0..MaxSize, TruncateBegin(h, n)
      PROVE  Alive' /\ UNCHANGED writer
  <2>1. /\ op = Idle /\ UNCHANGED <<rows, fileBlocks, heap, fh, writer>>
        /\ op' = [kind |-> "truncate", h |-> h, next |-> BlocksFor(n),
                  end |-> BlocksFor(fh[h].size), size |-> n]
    BY <1>8 DEF TruncateBegin
  <2>2. HandlesKnow'
    BY <2>1, SameInfosKnown
  <2>3. op'.kind = "truncate" /\ op.kind = "idle"
    BY <2>1 DEF Idle
  <2> QED BY <2>1, <2>2, <2>3, QuietStep DEF Down
<1> QED BY <1>2, <1>3, <1>4, <1>5, <1>6, <1>7, <1>8 DEF Request

LEMMA SharingTruncateEnd ==
    ASSUME Settled, Alive, TruncateEnd
    PROVE  Alive' /\ UNCHANGED writer
<1>1. /\ CacheInv /\ op.kind = "truncate" /\ fh' = [fh EXCEPT ![op.h].size = op.size]
      /\ op' = Idle /\ UNCHANGED <<rows, fileBlocks, heap, writer>>
  BY DEF TruncateEnd, Settled
<1>2. op.h \in Handles /\ fh[op.h] # Null
  BY <1>1, TruncateFacts
<1> DEFINE new == [fh[op.h] EXCEPT !.size = op.size]
<1>3. new.file = fh[op.h].file /\ new.blocks = fh[op.h].blocks
  BY <1>1, <1>2, HandleTyped DEF Handle
<1>4. fh' = [fh EXCEPT ![op.h] = new]
  BY <1>1
<1> HIDE DEF new
<1>5. HandlesKnow'
  BY <1>1, <1>2, <1>3, <1>4, HandleReplaced
<1> QED BY <1>1, <1>5, QuietStep DEF Idle, Down

\* Old data that has to be read in is in memory.
LEMMA NoWriteFails == ASSUME Settled, Alive PROVE ~WriteFails
  BY WriteKnown DEF WriteFails

----------------------------------------------------------------------------
(* The writer thread, and the end of the process                           *)

LEMMA SharingWriter ==
    ASSUME Undisturbed, Settled, writer = Flushing, Alive, WriterStep
    PROVE  Alive' /\ UNCHANGED writer
<1>2. PICK n \in Numbers : WriterFlushes(n)
  BY OnlyFlushes DEF Undisturbed, Alive
<1>3. /\ heap[n] # Null /\ heap' = [heap EXCEPT ![n].dirty = FALSE]
      /\ UNCHANGED <<rows, fileBlocks, fh, op, writer>>
  BY <1>2 DEF WriterFlushes, Flushed
<1>4. CacheInv /\ heap \in Objects
  BY InvParts DEF Settled, StoreSafe
<1> DEFINE item == [heap[n] EXCEPT !.dirty = FALSE]
<1>5. item \in Item /\ item.data = heap[n].data /\ item.use = heap[n].use
  BY <1>3, <1>4 DEF Objects, Item
<1>6. heap' = [heap EXCEPT ![n] = item] /\ item # Null
  BY <1>3, <1>5, NullAssumption
<1> HIDE DEF item
<1>7. NothingErased'
  BY <1>4, <1>6, NumbersFacts DEF Alive, NothingErased, Objects
<1>8. HandlesKnow'
  BY <1>3, SameInfosKnown
<1>9. Placing' = Placing /\ \A m : Uncounted(m)' = Uncounted(m)
  BY <1>3 DEF Placing, Uncounted
<1>10. InMemory'
  <2> SUFFICES ASSUME NEW m \in DOMAIN rows
               PROVE  IF m \in Placing THEN Awaited(m)' ELSE Counted(m)'
    BY <1>3, <1>9 DEF InMemory
  <2>1. Users(m)' = Users(m) /\ m \in Numbers
    BY <1>3, <1>4, UsersStay, RowTyped
  <2>2. CASE m \in Placing
    BY <1>3, <2>1, <2>2 DEF Alive, InMemory, Awaited
  <2>3. CASE m \notin Placing
    <3>1. Counted(m)
      BY <2>3 DEF Alive, InMemory
    <3>2. heap'[m] # Null /\ heap'[m].data = heap[m].data /\ heap'[m].use = heap[m].use
      BY <1>4, <1>5, <1>6, <2>1, <3>1 DEF Objects, Counted
    <3> QED BY <1>3, <1>9, <2>1, <2>3, <3>1, <3>2 DEF Counted
  <2> QED BY <2>2, <2>3
<1> QED BY <1>3, <1>7, <1>8, <1>10, TablesStay DEF Alive

LEMMA SharingDies ==
    ASSUME Settled, Dies
    PROVE  Dead' /\ writer' = Flushing
<1>1. heap \in Objects
  BY InvParts DEF Settled, StoreSafe
<1> QED BY <1>1 DEF Dies, Dead, Objects

LEMMA NoRestart ==
    ASSUME Undisturbed, Settled
    PROVE  ~Crash /\ ~Restart
<1>1. restarts = 0 /\ MaxRestarts = 0
  BY InvParts DEF Settled, Undisturbed
<1> QED BY <1>1 DEF Crash, Restart

\* A dead process takes no step.
LEMMA DeadStays ==
    ASSUME Undisturbed, Settled, writer = Flushing, Dead
    PROVE  ~Next
<1>1. op.kind = "down" /\ op # Idle /\ writer.phase = "flush"
  BY DEF Dead, Down, Idle, Flushing
<1>2. ~Request
  BY <1>1 DEF Request, Open, Release, Read, Hang, WriteBuf, Extend, TruncateBegin, Dead
<1>3. ~WriteStep /\ ~TruncateStep /\ ~TruncateHole
  BY <1>1 DEF WriteStep, WritePresent, WriteInPlace, WriteInsert, WriteFails, PlacePresent,
              PlaceData, ChunkReady, TruncateStep, TruncateBlock, TruncateEnd, Truncating,
              TruncateHole
<1>4. ~WriterStep
  <2>1. ~WriterEvicts
    BY NothingToEvict DEF Undisturbed, WriterEvicts
  <2> QED BY <1>1, <2>1
          DEF WriterStep, WriterFlushes, WriterPicks, WriterEndsPick, WriterErases,
              WriterEndsErase, Reclaim, Dead
<1> QED BY <1>2, <1>3, <1>4, NoRestart DEF Next

LEMMA SharingInit == Init => SharingInv
<1> SUFFICES ASSUME Init PROVE SharingInv
  OBVIOUS
<1>1. /\ rows = <<>> /\ fileBlocks = [k \in Keys |-> Null]
      /\ heap = [n \in Numbers \cup Orphans |-> Null] /\ fh = [h \in Handles |-> Null]
      /\ op = Idle /\ writer = Flushing
  BY DEF Init, T!Init
<1>2. op # Down
  BY <1>1 DEF Idle, Down
<1>3. NothingErased /\ HandlesKnow /\ T!NoDangling /\ InMemory
  BY <1>1 DEF NothingErased, HandlesKnow, T!NoDangling, InMemory
<1>4. Written = {}
  BY <1>1 DEF Written
<1>5. IsFiniteSet(Written)
  BY <1>4, FS_EmptySet
<1> QED BY <1>1, <1>2, <1>3, <1>5 DEF SharingInv, Alive

\* Every step of a live process but the one that ends it.
LEMMA AliveStep ==
    ASSUME Undisturbed, Settled, writer = Flushing, Alive,
           Request \/ WriteStep \/ TruncateStep \/ WriterStep
    PROVE  Alive' /\ UNCHANGED writer
<1>1. CASE Request
  BY <1>1, SharingRequest
<1>2. CASE WriteStep
  BY <1>2, SharingPresent, SharingInPlace, SharingInsert, NoWriteFails,
     SharingPlacePresent, SharingPlaceData DEF WriteStep
<1>3. CASE TruncateStep
  BY <1>3, SharingTruncateBlock, SharingTruncateEnd DEF TruncateStep
<1>4. CASE WriterStep
  BY <1>4, SharingWriter
<1> QED BY <1>1, <1>2, <1>3, <1>4

LEMMA SharingStep ==
    ASSUME Undisturbed, Settled, SharingInv, [Next]_vars
    PROVE  SharingInv'
<1>1. CASE Dead
  <2>1. UNCHANGED vars
    BY <1>1, DeadStays DEF SharingInv
  <2> QED BY <1>1, <2>1 DEF SharingInv, Dead, vars
<1>2. CASE Alive
  <2>1. writer = Flushing
    BY DEF SharingInv
  <2>2. CASE Request \/ WriteStep \/ TruncateStep \/ WriterStep
    BY <1>2, <2>1, <2>2, AliveStep DEF SharingInv
  <2>3. CASE TruncateHole
    BY <2>3, SharingDies DEF SharingInv, TruncateHole
  <2>4. CASE UNCHANGED vars
    <3>1. Alive'
      <4>1. UNCHANGED <<rows, fileBlocks, heap, fh, op>> /\ op' # Down
        BY <1>2, <2>4 DEF vars, Alive
      <4>2. HandlesKnow'
        BY <1>2, <4>1, SameInfosKnown
      <4>3. Placing' = Placing /\ \A n : Uncounted(n)' = Uncounted(n) /\ Users(n)' = Users(n)
        BY <4>1 DEF Placing, Uncounted, Users
      <4>4. NothingErased' /\ InMemory'
        BY <1>2, <4>1, <4>3 DEF Alive, NothingErased, InMemory, Awaited, Counted
      <4> QED BY <1>2, <4>1, <4>2, <4>4, TablesStay
    <3> QED BY <2>1, <2>4, <3>1 DEF SharingInv, vars
  <2> QED BY <2>2, <2>3, <2>4, NoRestart DEF Next
<1> QED BY <1>1, <1>2 DEF SharingInv

----------------------------------------------------------------------------
(* What it shows                                                           *)

\* No two files have a storage block in common without its being counted, and
\* no block_info takes a file block for another's: the inductive invariant.
THEOREM SharingCounted == Undisturbed => (Spec => [](Settled /\ SharingInv))
<1> SUFFICES ASSUME Undisturbed PROVE Spec => [](Settled /\ SharingInv)
  OBVIOUS
<1>1. SizeInv /\ CacheInv /\ [Next]_vars => SizeInv'
  BY SizeStep DEF Undisturbed
<1>2. Spec => []SizeInv
  BY <1>1, SizeInit, CacheInvariant, PTL DEF Spec
<1>3. Spec => []Settled
  <2>1. CacheInv /\ SizeInv /\ T!UniqueHash => Settled
    BY DEF Settled
  <2> QED BY <1>2, <2>1, CacheInvariant, CacheNeverSplits, PTL
<1>4. Settled /\ SharingInv /\ [Next]_vars => SharingInv'
  BY SharingStep
<1> QED BY <1>3, <1>4, SharingInit, PTL DEF Spec

\* The count held in memory never falls below the number of file blocks that
\* refer to the content, although every step between transaction and cache
\* update changes one and not the other: what the decision to overwrite a block
\* in place (replaceStorageBlock) rests on.
THEOREM CountsSuffice == Undisturbed => (Spec => []NeverUndercounted)
<1>1. Settled /\ SharingInv => NeverUndercounted
  <2> SUFFICES ASSUME Settled, SharingInv, op.kind # "place",
                      NEW n \in DOMAIN rows, heap[n] # Null
               PROVE  heap[n].use >= Cardinality({k \in Keys : fileBlocks[k] = rows[n].hash})
    BY DEF NeverUndercounted
  <2>1. CacheInv /\ n \in Numbers /\ heap \in Objects
    BY RowTyped, InvParts DEF Settled, StoreSafe
  <2>2. Alive
    BY <2>1 DEF SharingInv, Dead
  <2>3. Counted(n) /\ Uncounted(n) = 0
    BY <2>2 DEF Alive, InMemory, Placing, Uncounted
  <2>4. heap[n].use \in Int
    BY <2>1 DEF Objects, Item
  <2>5. Cardinality(Users(n)) \in Nat
    BY <2>1, <2>2, UsersFinite
  <2>6. heap[n].use >= Cardinality(Users(n))
    BY <2>3, <2>4, <2>5 DEF Counted
  <2> QED BY <2>6 DEF Users
<1> QED BY <1>1, SharingCounted, PTL

\* A handle that has been writing reads its file's content, or zeroes, from the
\* block_info it keeps (readBuf): never the content that some other file has in a
\* block this one has left.
THEOREM HandlesReadTheirOwn == Undisturbed => (Spec => []NoForeignData)
<1>1. Settled /\ SharingInv => NoForeignData
  <2> SUFFICES ASSUME Settled, SharingInv, op.kind # "place",
                      NEW h \in Handles, fh[h] # Null,
                      NEW b \in Blocks, fh[h].blocks[b] # Null
               PROVE  HandleReads(fh[h].blocks[b]) \in {Zero, Delivered(<<fh[h].file, b>>)}
    BY DEF NoForeignData
  <2> DEFINE i == fh[h].blocks[b]
             k == <<fh[h].file, b>>
  <2>1. Alive
    BY DEF SharingInv, Dead
  <2>2. Known(i, k)
    BY <2>1 DEF Alive, HandlesKnow
  <2> HIDE DEF i, k
  <2>3. CASE i.empty \/ i.num = 0
    BY <2>3 DEF HandleReads, i
  <2>4. CASE ~(i.empty \/ i.num = 0)
    <3>1. /\ i.num \in DOMAIN rows /\ rows[i.num].hash = fileBlocks[k] /\ fileBlocks[k] # Null
          /\ i.ref # Null => i.ref = i.num
      BY <2>2, <2>4 DEF Known
    <3>2. T!Present(fileBlocks[k]) /\ T!IdOf(fileBlocks[k]) = i.num
      BY <3>1, IdOfRow DEF Settled
    <3>3. Counted(i.num) /\ Placing = {}
      BY <2>1, <3>1, NoPlacing DEF Alive, InMemory
    <3>4. heap[i.num] # Null /\ heap[i.num].data # Null
      BY <3>1, <3>3 DEF Counted
    <3>5. HandleReads(i) = heap[i.num].data
      BY <2>4, <3>1, <3>4 DEF HandleReads, Stored, StoredIn
    <3>6. Delivered(k) = heap[i.num].data
      BY <3>1, <3>2, <3>3, <3>4 DEF Delivered, Stored, StoredIn
    <3> QED BY <3>5, <3>6 DEF i, k
  <2> QED BY <2>3, <2>4
<1> QED BY <1>1, SharingCounted, PTL

LEMMA HonestWrite ==
    ASSUME Settled, Alive, WritePresent \/ WriteInPlace \/ WriteInsert
    PROVE  T!HonestNext
<1>1. op.kind = "write" /\ T!UsesBounded' /\ CacheInv
  BY DEF WritePresent, WriteInPlace, WriteInsert, ChunkReady, CountsBounded, Settled
<1>2. Key \in Keys
  BY <1>1, ChunkFacts
<1>3. \E d \in Contents : T!HonestReplace(Key, d, OldBlock, OldUse)
  <2>1. PICK d \in NewData : \/ T!ReplacePresent(Key, d, OldBlock, OldUse)
                             \/ T!ReplaceInPlace(Key, d, OldBlock, OldUse)
                             \/ T!ReplaceInsert(Key, d, OldBlock, OldUse)
    BY DEF WritePresent, WriteInPlace, WriteInsert
  <2>2. d \in Contents
    BY DEF NewData
  <2>3. ASSUME T!ReplaceInPlace(Key, d, OldBlock, OldUse) PROVE T!SoleUser(Key, OldBlock)
    <3>1. T!InPlaceAllowed(OldBlock, OldUse)
      BY <2>3 DEF T!ReplaceInPlace
    <3>2. Users(OldBlock) = {Key}
      BY <1>1, <3>1, InPlaceSole
    <3> QED BY <3>2 DEF T!SoleUser, Users
  <2> QED BY <2>1, <2>2, <2>3 DEF T!HonestReplace
<1> QED BY <1>1, <1>2, <1>3, CacheHolds DEF T!HonestNext

LEMMA HonestStep ==
    ASSUME Undisturbed, Settled, SharingInv, [Next]_vars
    PROVE  [T!HonestNext]_T!tvars
<1>1. CASE Dead \/ UNCHANGED vars
  <2>1. UNCHANGED vars
    BY <1>1, DeadStays DEF SharingInv
  <2> QED BY <2>1 DEF vars, T!tvars
<1>2. CASE Alive /\ (WritePresent \/ WriteInPlace \/ WriteInsert)
  BY <1>2, HonestWrite
<1>3. CASE TruncateBlock
  <2> DEFINE i == InfoOf(op.h, op.next)
             k == <<fh[op.h].file, op.next>>
  <2>1. /\ op.kind = "truncate" /\ op.next < op.end /\ i.hash # Null
        /\ T!Release(k, i.hash) /\ T!UsesBounded' /\ CacheInv
    BY <1>3 DEF TruncateBlock, Truncating, CountsBounded, Settled
  <2>2. op.h \in Handles /\ fh[op.h] # Null /\ op.next \in Blocks /\ k \in Keys
    BY <2>1, TruncateFacts
  <2>3. i \in Info
    BY <2>1, <2>2, LookupSafe
  <2> HIDE DEF i, k
  <2>4. i.hash \in Contents \cup {EmptyBlob}
    BY <2>1, <2>3 DEF Info
  <2> QED BY <2>1, <2>2, <2>4 DEF T!HonestNext
<1>4. CASE Request \/ WriterStep \/ TruncateHole \/ Crash \/ Restart
  <2>1. UNCHANGED tvars
    BY <1>4 DEF Request, Open, Release, Read, Hang, WriteBuf, Extend, TruncateBegin,
        WriterStep, WriterFlushes, WriterEvicts, WriterPicks, WriterEndsPick, WriterErases,
        WriterEndsErase, Reclaim, TruncateHole, Crash, Dies, Restart, tvars
  <2> QED BY <2>1 DEF tvars, T!tvars
<1>5. CASE WriteFails \/ PlacePresent \/ PlaceData \/ TruncateEnd
  BY <1>5 DEF WriteFails, PlacePresent, PlaceData, Unlocked, TruncateEnd, T!tvars
<1> QED BY <1>1, <1>2, <1>3, <1>4, <1>5 DEF Next, WriteStep, TruncateStep, SharingInv

\* The callers of replaceStorageBlock are honest: a storage block is only
\* overwritten in place by its only user, so that no file loses a block to
\* another's write and no reference dangles.
THEOREM CallersHonest == Undisturbed => (Spec => HonestTablesSpec)
<1> SUFFICES ASSUME Undisturbed PROVE Spec => HonestTablesSpec
  OBVIOUS
<1>1. Init => T!Init
  BY DEF Init
<1>2. Settled /\ SharingInv /\ [Next]_vars => [T!HonestNext]_T!tvars
  BY HonestStep
<1> QED BY <1>1, <1>2, SharingCounted, PTL DEF Spec, HonestTablesSpec, T!HonestSpec

----------------------------------------------------------------------------
(* The cache implements FileContents                                       *)

\* The content that the tables give a file block.
Content(k) == IF fileBlocks[k] = Null THEN Zero ELSE fileBlocks[k]

UnitsFrom(f, from, end) ==
    {w \in Keys \X Units : w[1][1] = f /\ w[1][2] * BlockSize + w[2] \in from..(end - 1)}

BlocksFrom(f, from, end) ==
    {w \in Keys \X Units : w[1][1] = f /\ w[1][2] \in from..(end - 1)}

DeliversContent == \A k \in Keys : Delivered(k) = Content(k)

LEMMA DeliveredContent == Settled /\ Alive => DeliversContent
<1> SUFFICES ASSUME Settled, Alive, NEW k \in Keys, fileBlocks[k] # Null
             PROVE  Delivered(k) = fileBlocks[k]
  BY DEF DeliversContent, Delivered, Content
<1>1. PICK n \in DOMAIN rows : rows[n].hash = fileBlocks[k]
  BY DEF Alive, T!NoDangling, T!Present
<1>2. T!Present(fileBlocks[k]) /\ T!IdOf(fileBlocks[k]) = n
  BY <1>1, IdOfRow DEF Settled
<1>3. CASE n \in Placing
  BY <1>1, <1>2, <1>3 DEF Delivered, Alive, InMemory, Awaited
<1>4. CASE n \notin Placing
  <2>1. heap[n] # Null /\ heap[n].data = fileBlocks[k]
    BY <1>1, <1>4 DEF Alive, InMemory, Counted
  <2> QED BY <1>2, <1>4, <2>1 DEF Delivered, Stored, StoredIn
<1> QED BY <1>3, <1>4

LEMMA DeliveredContentNext == Settled' /\ Alive' => DeliversContent'
  BY DeliveredContent, PTL

LEMMA RequestNow ==
    /\ op.kind \in {"write", "place"} =>
         RequestAtWork = [kind |-> "write", units |-> UnitsFrom(fh[op.h].file, op.next, op.end)]
    /\ op.kind = "truncate" =>
         RequestAtWork = [kind |-> "drop", units |-> BlocksFrom(fh[op.h].file, op.next, op.end)]
    /\ op.kind \notin {"write", "place", "truncate"} =>
         RequestAtWork = [kind |-> "none", units |-> {}]
  BY DEF RequestAtWork, UnitsFrom, BlocksFrom

LEMMA RequestNext ==
    /\ op'.kind \in {"write", "place"} =>
         RequestAtWork' = [kind |-> "write",
                           units |-> UnitsFrom(fh'[op'.h].file, op'.next, op'.end)]
    /\ op'.kind = "truncate" =>
         RequestAtWork' = [kind |-> "drop",
                           units |-> BlocksFrom(fh'[op'.h].file, op'.next, op'.end)]
    /\ op'.kind \notin {"write", "place", "truncate"} =>
         RequestAtWork' = [kind |-> "none", units |-> {}]
  BY DEF RequestAtWork, UnitsFrom, BlocksFrom

LEMMA RequestTyped == RequestAtWork' \in F!Requests
  BY DEF RequestAtWork, F!Requests

\* Steps that leave every content alone.
LEMMA ContentsStay ==
    ASSUME Settled, Alive, Settled', Alive', UNCHANGED fileBlocks
    PROVE  /\ UNCHANGED <<[k \in Keys |-> Delivered(k)], op # Down>>
           /\ op # Down
<1>1. \A k \in Keys : Delivered(k)' = Delivered(k)
  BY DeliveredContent, DeliveredContentNext DEF DeliversContent, Content
<1> QED BY <1>1 DEF Alive

LEMMA StutterFollows ==
    ASSUME Settled, Alive, Settled', Alive', UNCHANGED <<fileBlocks, RequestAtWork>>
    PROVE  [F!Next]_F!fvars
  BY ContentsStay DEF F!fvars

LEMMA BeginFollows ==
    ASSUME Settled, Alive, Settled', Alive', UNCHANGED fileBlocks, op = Idle
    PROVE  F!Next
<1>1. RequestAtWork.kind = "none"
  BY RequestNow DEF Idle
<1> QED BY <1>1, ContentsStay, RequestTyped DEF F!Next, F!Begin

LEMMA EndFollows ==
    ASSUME Settled, Alive, Settled', Alive', UNCHANGED fileBlocks,
           op'.kind \notin {"write", "place", "truncate"}
    PROVE  F!Next
<1>1. RequestAtWork' = F!NoRequest
  BY RequestNext DEF F!NoRequest
<1> QED BY <1>1, ContentsStay DEF F!Next, F!End

\* A file block of the request at work gets its content.
LEMMA StoreFollows ==
    ASSUME Settled, Alive, Settled', Alive',
           NEW k \in Keys, NEW d \in Contents \cup {Null},
           fileBlocks' = [fileBlocks EXCEPT ![k] = d],
           NEW kind, NEW old, NEW new,
           RequestAtWork = [kind |-> kind, units |-> old],
           RequestAtWork' = [kind |-> kind, units |-> new],
           new = old \ F!Of(k), old \cap F!Of(k) # {},
           \/ /\ kind = "write" /\ d # Null
              /\ \/ \A u \in Units : <<k, u>> \notin old => d[u] = Content(k)[u]
                 \/ \A u \in Units : <<k, u>> \notin old => d[u] = 0
           \/ kind = "drop" /\ d = Null
    PROVE  F!Next
<1> DEFINE now == [j \in Keys |-> Delivered(j)]
<1>1. CacheInv /\ DOMAIN fileBlocks = Keys
  BY InvParts DEF Settled, T!TypeOK
<1>2. \A j \in Keys : now[j] = Content(j) /\ now'[j] = Content(j)'
  BY DeliveredContent, DeliveredContentNext DEF DeliversContent
<1>3. now'[k] = IF d = Null THEN Zero ELSE d
  BY <1>1, <1>2 DEF Content
<1>4. \A j \in Keys \ {k} : now'[j] = now[j]
  BY <1>1, <1>2 DEF Content
<1>5. now'[k] \in [Units -> Bytes]
  BY <1>3, CacheAssumption DEF Contents, Zero
<1> HIDE DEF now
<1>6. RequestAtWork' = [RequestAtWork EXCEPT !.units = @ \ F!Of(k)]
  OBVIOUS
<1>7. (op # Down) /\ UNCHANGED (op # Down)
  BY DEF Alive
<1>8. F!Store(k)
  BY <1>2, <1>3, <1>4, <1>5, <1>6, <1>7 DEF F!Store, now, Zero
<1> QED BY <1>7, <1>8 DEF F!Next

\* Units of earlier and of later blocks.
LEMMA UnitOrder ==
    ASSUME NEW b \in Nat, NEW c \in Nat, NEW u \in Units
    PROVE  /\ b < c => b * BlockSize + u < c * BlockSize
           /\ b > c => b * BlockSize + u >= (c + 1) * BlockSize
           /\ b * BlockSize + u < (b + 1) * BlockSize
           /\ b * BlockSize + u \in Nat /\ c * BlockSize \in Nat /\ (c + 1) * BlockSize \in Nat
<1>1. BlockSize \in Nat /\ BlockSize > 0 /\ u \in Nat /\ u < BlockSize
  BY SizeFacts DEF Units
<1>2. b * BlockSize \in Nat /\ c * BlockSize \in Nat
      /\ (b + 1) * BlockSize = b * BlockSize + BlockSize
      /\ (c + 1) * BlockSize = c * BlockSize + BlockSize
  BY <1>1
<1>3. ASSUME b < c PROVE b * BlockSize + BlockSize =< c * BlockSize
  <2>1. b + 1 =< c
    BY <1>3
  <2>2. (b + 1) * BlockSize =< c * BlockSize
    BY <1>1, <2>1
  <2> QED BY <1>2, <2>2
<1>4. ASSUME b > c PROVE c * BlockSize + BlockSize =< b * BlockSize
  <2>1. c + 1 =< b
    BY <1>4
  <2>2. (c + 1) * BlockSize =< b * BlockSize
    BY <1>1, <2>1
  <2> QED BY <1>2, <2>2
<1> QED BY <1>1, <1>2, <1>3, <1>4

\* A chunk takes the units of its block out of the request, and at least one.
LEMMA ChunkUnits ==
    ASSUME CacheInv, op.kind = "write", NEW f, f = fh[op.h].file
    PROVE  /\ UnitsFrom(f, NextChunk, op.end) = UnitsFrom(f, op.next, op.end) \ F!Of(Key)
           /\ UnitsFrom(f, op.next, op.end) \cap F!Of(Key) # {}
           /\ \A u \in Units : <<Key, u>> \notin UnitsFrom(f, op.next, op.end) => u \notin Chunk
<1> DEFINE c == ChunkBlock
<1>1. /\ op \in Write /\ op.next \in Nat /\ op.end \in Nat /\ op.next < op.end
      /\ Key \in Keys /\ c \in Blocks /\ Key = <<f, c>>
  <2>1. op \in Write /\ Key \in Keys /\ c \in Blocks
    BY ChunkFacts
  <2>2. op.next < op.end
    BY InvParts DEF RequestSafe
  <2> QED BY <2>1, <2>2, SizeFacts DEF Write, Key
<1>2. c \in Nat /\ c * BlockSize =< op.next /\ op.next < (c + 1) * BlockSize
  <2>1. op.next \in Nat /\ BlockSize \in Nat /\ BlockSize > 0 /\ c = op.next \div BlockSize
    BY <1>1, SizeFacts DEF ChunkBlock
  <2> HIDE DEF c
  <2> QED BY <2>1
<1>3. NextChunk = IF (c + 1) * BlockSize < op.end THEN (c + 1) * BlockSize ELSE op.end
  BY DEF NextChunk
<1>4. Chunk = {u \in Units : c * BlockSize + u \in op.next..(op.end - 1)}
  BY DEF Chunk
<1> HIDE DEF c
<1>5. (c + 1) * BlockSize \in Nat /\ c * BlockSize \in Nat
  BY <1>2, SizeFacts
<1>6. ASSUME NEW w \in Keys \X Units, w[1][1] = f
      PROVE  w[1][2] * BlockSize + w[2] \in NextChunk..(op.end - 1) <=>
               /\ w[1][2] * BlockSize + w[2] \in op.next..(op.end - 1)
               /\ w \notin F!Of(Key)
  <2>1. PICK b \in Blocks, u \in Units : w = <<<<f, b>>, u>>
    BY <1>6 DEF Keys
  <2>2. w[1][2] = b /\ w[2] = u /\ b \in Nat
    BY <2>1 DEF Blocks
  <2>3. w \in F!Of(Key) <=> b = c
    BY <1>1, <2>1 DEF F!Of
  <2>4. PICK p : p = b * BlockSize + u
    OBVIOUS
  <2>5. /\ b < c => p < c * BlockSize
        /\ b > c => p >= (c + 1) * BlockSize
        /\ b = c => p < (c + 1) * BlockSize
        /\ p \in Nat
    BY <1>2, <2>2, <2>4, UnitOrder
  <2>6. p \in NextChunk..(op.end - 1) <=> p \in op.next..(op.end - 1) /\ b # c
    <3>1. PICK e \in Nat : e = (c + 1) * BlockSize
      BY <1>5
    <3>2. PICK s \in Nat : s = c * BlockSize
      BY <1>5
    <3>3. /\ b < c => p < s
          /\ b > c => p >= e
          /\ b = c => p < e
          /\ s =< op.next /\ op.next < e
          /\ NextChunk = IF e < op.end THEN e ELSE op.end
      BY <1>2, <1>3, <2>5, <3>1, <3>2
    <3> QED BY <1>1, <1>2, <2>2, <2>5, <3>3
  <2> QED BY <2>2, <2>3, <2>4, <2>6
<1>7. UnitsFrom(f, NextChunk, op.end) = UnitsFrom(f, op.next, op.end) \ F!Of(Key)
  BY <1>6 DEF UnitsFrom
<1>8. UnitsFrom(f, op.next, op.end) \cap F!Of(Key) # {}
  <2> DEFINE u == op.next - c * BlockSize
             w == <<Key, u>>
  <2>1. u \in Units /\ c * BlockSize + u = op.next
    <3>1. (c + 1) * BlockSize = c * BlockSize + BlockSize
      BY <1>2, SizeFacts
    <3> QED BY <1>1, <1>2, <1>5, <3>1, SizeFacts DEF Units
  <2> HIDE DEF u
  <2>2. w \in UnitsFrom(f, op.next, op.end)
    BY <1>1, <2>1 DEF UnitsFrom
  <2>3. w \in F!Of(Key)
    BY <2>1 DEF F!Of
  <2> QED BY <2>2, <2>3
<1>9. \A u \in Units : <<Key, u>> \notin UnitsFrom(f, op.next, op.end) => u \notin Chunk
  BY <1>1, <1>4 DEF UnitsFrom
<1> QED BY <1>7, <1>8, <1>9

LEMMA BlockUnits ==
    ASSUME CacheInv, op.kind = "truncate", op.next < op.end,
           NEW f, f = fh[op.h].file, NEW k, k = <<f, op.next>>
    PROVE  /\ BlocksFrom(f, op.next + 1, op.end) = BlocksFrom(f, op.next, op.end) \ F!Of(k)
           /\ BlocksFrom(f, op.next, op.end) \cap F!Of(k) # {}
<1>1. op.next \in Nat /\ op.end \in Nat /\ k \in Keys
  BY TruncateFacts, SizeFacts DEF Truncate
<1>2. ASSUME NEW w \in Keys \X Units, w[1][1] = f
      PROVE  w[1][2] \in (op.next + 1)..(op.end - 1) <=>
               w[1][2] \in op.next..(op.end - 1) /\ w \notin F!Of(k)
  <2>1. PICK b \in Blocks, u \in Units : w = <<<<f, b>>, u>>
    BY <1>2 DEF Keys
  <2>2. w \in F!Of(k) <=> b = op.next
    BY <2>1 DEF F!Of
  <2>3. b \in Nat
    BY DEF Blocks
  <2> QED BY <1>1, <2>1, <2>2, <2>3
<1>3. BlocksFrom(f, op.next + 1, op.end) = BlocksFrom(f, op.next, op.end) \ F!Of(k)
  BY <1>2 DEF BlocksFrom
<1>4. 0 \in Units
  BY SizeFacts DEF Units
<1>5. <<k, 0>> \in BlocksFrom(f, op.next, op.end) /\ <<k, 0>> \in F!Of(k)
  BY <1>1, <1>4 DEF BlocksFrom, F!Of
<1> QED BY <1>3, <1>5

\* The transaction of a write stores the chunk's block: the units around the chunk
\* keep the old content, which is in memory, or are zero.
LEMMA CommittedFollows ==
    ASSUME Settled, Alive, Settled', Alive', op.kind = "write",
           NEW d \in NewData, fileBlocks' = [fileBlocks EXCEPT ![Key] = d],
           NEW info \in Info, NEW objects, NEW present, Committed(info, objects, d, present)
    PROVE  F!Next
<1>0. PICK f : f = fh[op.h].file
  OBVIOUS
<1>1. CacheInv /\ d \in Contents /\ d # Null /\ Key \in Keys
  BY ChunkFacts, NullAssumption DEF Settled, NewData
<1>2. op.h \in Handles /\ fh[op.h] # Null /\ ChunkBlock \in Blocks
  BY <1>1, ChunkFacts
<1>3. /\ op'.kind = "place" /\ op'.h = op.h /\ op'.next = NextChunk /\ op'.end = op.end
      /\ fh' = WithInfo(op.h, ChunkBlock, [info EXCEPT !.locked = TRUE])
  BY DEF Committed
<1>4. fh'[op'.h].file = f
  <2>1. [info EXCEPT !.locked = TRUE] \in Info
    BY DEF Info
  <2> QED BY <1>0, <1>1, <1>2, <1>3, <2>1, OneInfo
<1>5. RequestAtWork = [kind |-> "write", units |-> UnitsFrom(f, op.next, op.end)]
  BY <1>0, RequestNow
<1>6. RequestAtWork' = [kind |-> "write", units |-> UnitsFrom(f, NextChunk, op.end)]
  BY <1>3, <1>4, RequestNext
<1>7. /\ UnitsFrom(f, NextChunk, op.end) = UnitsFrom(f, op.next, op.end) \ F!Of(Key)
      /\ UnitsFrom(f, op.next, op.end) \cap F!Of(Key) # {}
      /\ \A u \in Units : <<Key, u>> \notin UnitsFrom(f, op.next, op.end) => u \notin Chunk
  BY <1>0, <1>1, ChunkUnits
<1>8. \/ \A u \in Units \ Chunk : d[u] = Content(Key)[u]
      \/ \A u \in Units \ Chunk : d[u] = 0
  <2>1. \A u \in Units \ Chunk : d[u] = IF Merging THEN Merged[Target.ref].data[u] ELSE 0
    BY DEF NewData
  <2>2. ASSUME Merging PROVE Merged[Target.ref].data = Content(Key)
    <3>1. Merged = heap /\ Known(Target, Key) /\ Placing = {}
      BY WriteKnown
    <3>2. Target.ref # Null
      BY <2>2 DEF Merging
    <3>3. /\ Target.ref = Target.num /\ rows[Target.num].hash = fileBlocks[Key]
          /\ Target.num \in DOMAIN rows
          /\ Counted(Target.num)
      BY <3>1, <3>2, RefInMemory
    <3>4. fileBlocks[Key] # Null
      BY <1>1, <3>3, RowTyped
    <3> QED BY <3>1, <3>3, <3>4 DEF Counted, Content
  <2>3. CASE Merging
    BY <2>1, <2>2, <2>3
  <2>4. CASE ~Merging
    BY <2>1, <2>4
  <2> QED BY <2>3, <2>4
<1>9. \/ \A u \in Units : <<Key, u>> \notin UnitsFrom(f, op.next, op.end) => d[u] = Content(Key)[u]
      \/ \A u \in Units : <<Key, u>> \notin UnitsFrom(f, op.next, op.end) => d[u] = 0
  BY <1>7, <1>8
<1> QED BY <1>1, <1>5, <1>6, <1>7, <1>9, StoreFollows

LEMMA WriteFollows ==
    ASSUME Settled, Alive, Settled', Alive', WritePresent \/ WriteInPlace \/ WriteInsert
    PROVE  F!Next
<1>1. op.kind = "write" /\ CacheInv
  BY DEF WritePresent, WriteInPlace, WriteInsert, ChunkReady, Settled
<1>2. Target \in Info /\ Key \in Keys
  BY <1>1, ChunkFacts
<1>3. CASE WritePresent
  <2>1. PICK d \in NewData :
          /\ T!ReplacePresent(Key, d, OldBlock, OldUse)
          /\ Committed([Target EXCEPT !.num = T!IdOf(d), !.hash = d, !.ref = Null],
                       AddUse(Merged, Target.ref, -1), d, TRUE)
    BY <1>3 DEF WritePresent
  <2>2. d \in Contents /\ fileBlocks' = [fileBlocks EXCEPT ![Key] = d] /\ T!Present(d)
    BY <2>1 DEF T!ReplacePresent, NewData
  <2>3. T!IdOf(d) \in Numbers
    BY <1>1, <2>2, IdOfPresent, RowTyped
  <2>4. [Target EXCEPT !.num = T!IdOf(d), !.hash = d, !.ref = Null] \in Info
    BY <1>2, <2>2, <2>3 DEF Info
  <2> QED BY <1>1, <2>1, <2>2, <2>4, CommittedFollows
<1>4. CASE WriteInPlace
  <2>1. PICK d \in NewData :
          /\ T!ReplaceInPlace(Key, d, OldBlock, OldUse)
          /\ Committed([Target EXCEPT !.hash = d], Merged, d, FALSE)
    BY <1>4 DEF WriteInPlace
  <2>2. d \in Contents /\ fileBlocks' = [fileBlocks EXCEPT ![Key] = d]
    BY <2>1 DEF T!ReplaceInPlace, NewData
  <2>3. [Target EXCEPT !.hash = d] \in Info
    BY <1>2, <2>2 DEF Info
  <2> QED BY <1>1, <2>1, <2>2, <2>3, CommittedFollows
<1>5. CASE WriteInsert
  <2>1. PICK d \in NewData :
          /\ T!ReplaceInsert(Key, d, OldBlock, OldUse)
          /\ Committed([Target EXCEPT !.num = Len(rows) + 1, !.hash = d, !.ref = Null],
                       AddUse(Merged, Target.ref, -1), d, FALSE)
    BY <1>5 DEF WriteInsert
  <2>2. d \in Contents /\ fileBlocks' = [fileBlocks EXCEPT ![Key] = d] /\ Len(rows) < MaxRows
    BY <2>1 DEF T!ReplaceInsert, NewData
  <2>3. Len(rows) + 1 \in Numbers
    BY <1>1, <2>2, RowsAreNumbers, CacheAssumption DEF Numbers
  <2>4. [Target EXCEPT !.num = Len(rows) + 1, !.hash = d, !.ref = Null] \in Info
    BY <1>2, <2>2, <2>3 DEF Info
  <2> QED BY <1>1, <2>1, <2>2, <2>4, CommittedFollows
<1> QED BY <1>3, <1>4, <1>5

LEMMA PlaceFollows ==
    ASSUME Settled, Alive, Settled', Alive', PlacePresent \/ PlaceData
    PROVE  [F!Next]_F!fvars
<1>1. CacheInv /\ op.kind = "place"
  BY DEF PlacePresent, PlaceData, Settled
<1> DEFINE i == fh[op.h].blocks[op.block]
<1>2. /\ op.h \in Handles /\ fh[op.h] # Null /\ op.block \in Blocks /\ i \in Info
      /\ i.num \in Numbers
  BY <1>1, PlaceFacts
<1>3. PICK info \in Info : Unlocked(info)
  <2>1. i \in Info /\ [i EXCEPT !.ref = i.num] \in Info
    BY <1>2 DEF Info
  <2>2. Unlocked(i) \/ Unlocked([i EXCEPT !.ref = i.num])
    BY DEF PlacePresent, PlaceData
  <2> QED BY <2>1, <2>2
<1> HIDE DEF i
<1>4. UNCHANGED fileBlocks /\ fh' = WithInfo(op.h, op.block, [info EXCEPT !.locked = FALSE])
      /\ op' = IF op.next = op.end THEN Idle
               ELSE [kind |-> "write", h |-> op.h, next |-> op.next, end |-> op.end]
  BY <1>3 DEF Unlocked
<1>5. CASE op.next = op.end
  BY <1>4, <1>5, EndFollows DEF Idle
<1>6. CASE op.next # op.end
  <2>1. op'.kind = "write" /\ op'.h = op.h /\ op'.next = op.next /\ op'.end = op.end
    BY <1>4, <1>6
  <2>2. fh'[op.h].file = fh[op.h].file
    <3>1. [info EXCEPT !.locked = FALSE] \in Info
      BY DEF Info
    <3> QED BY <1>1, <1>2, <1>4, <3>1, OneInfo
  <2>3. UNCHANGED RequestAtWork
    BY <1>1, <2>1, <2>2, RequestNow, RequestNext
  <2> QED BY <1>4, <2>3, StutterFollows
<1> QED BY <1>5, <1>6

LEMMA TruncateFollows ==
    ASSUME Settled, Alive, Settled', Alive', TruncateBlock
    PROVE  F!Next
<1>0. PICK f : f = fh[op.h].file
  OBVIOUS
<1>1. PICK k : k = <<f, op.next>>
  OBVIOUS
<1>2. /\ CacheInv /\ op.kind = "truncate" /\ op.next < op.end
      /\ fileBlocks' = [fileBlocks EXCEPT ![k] = Null]
      /\ fh' = WithInfo(op.h, op.next, Null)
      /\ op' = [op EXCEPT !.next = @ + 1]
  BY <1>0, <1>1 DEF TruncateBlock, Truncating, T!Release, Settled
<1>3. /\ op \in Truncate /\ op.h \in Handles /\ fh[op.h] # Null
      /\ op.next \in Blocks /\ k \in Keys
  BY <1>0, <1>1, <1>2, TruncateFacts
<1>4. op'.kind = "truncate" /\ op'.h = op.h /\ op'.next = op.next + 1 /\ op'.end = op.end
  BY <1>2, <1>3 DEF Truncate
<1>5. fh'[op.h].file = f
  BY <1>0, <1>2, <1>3, OneInfo
<1>6. RequestAtWork = [kind |-> "drop", units |-> BlocksFrom(f, op.next, op.end)]
  BY <1>0, <1>2, RequestNow
<1>7. RequestAtWork' = [kind |-> "drop", units |-> BlocksFrom(f, op.next + 1, op.end)]
  BY <1>4, <1>5, RequestNext
<1>8. /\ BlocksFrom(f, op.next + 1, op.end) = BlocksFrom(f, op.next, op.end) \ F!Of(k)
      /\ BlocksFrom(f, op.next, op.end) \cap F!Of(k) # {}
  BY <1>0, <1>1, <1>2, BlockUnits
<1> QED BY <1>2, <1>3, <1>6, <1>7, <1>8, StoreFollows

LEMMA RequestFollows ==
    ASSUME Settled, Alive, Settled', Alive', Request
    PROVE  [F!Next]_F!fvars
<1>1. UNCHANGED fileBlocks
  BY DEF Request, Open, Release, Read, Hang, WriteBuf, Extend, TruncateBegin
<1>2. CASE op = Idle /\ op' = Idle
  <2>1. UNCHANGED RequestAtWork
    BY <1>2, RequestNow, RequestNext DEF Idle
  <2> QED BY <1>1, <2>1, StutterFollows
<1>3. CASE op' = Hung
  BY <1>1, <1>3, EndFollows DEF Hung
<1>4. CASE op = Idle
  BY <1>1, <1>4, BeginFollows
<1>5. op = Idle \/ op' = Hung
  BY DEF Request, Open, Release, Read, Hang, WriteBuf, Extend, TruncateBegin
<1> QED BY <1>3, <1>4, <1>5

LEMMA FlushFollows ==
    ASSUME Settled, Alive, Settled', Alive', UNCHANGED <<fileBlocks, fh, op>>
    PROVE  [F!Next]_F!fvars
<1>1. UNCHANGED RequestAtWork
  BY DEF RequestAtWork
<1> QED BY <1>1, StutterFollows

LEMMA ContentsStep ==
    ASSUME Undisturbed, Settled, SharingInv, Settled', SharingInv', [Next]_vars
    PROVE  [F!Next]_F!fvars
<1>1. CASE UNCHANGED vars
  <2>1. UNCHANGED <<rows, fileBlocks, heap, disk, fh, op>>
    BY <1>1 DEF vars
  <2>2. /\ UNCHANGED RequestAtWork
        /\ UNCHANGED [k \in Keys |-> Delivered(k)]
        /\ UNCHANGED (op # Down)
    BY <2>1 DEF RequestAtWork, Delivered, T!Present, T!IdOf, Placing, Stored, StoredIn, OnDisk
  <2> QED BY <2>2 DEF F!fvars
<1>2. CASE Dead
  <2>1. UNCHANGED vars
    BY <1>2, DeadStays DEF SharingInv
  <2> QED BY <1>1, <2>1
<1>3. ASSUME Alive, TruncateHole PROVE F!Next
  <2>1. op' = Down
    BY <1>3 DEF TruncateHole, Dies
  <2>2. (op # Down) = TRUE /\ (op # Down)' = FALSE
    BY <1>3, <2>1 DEF Alive
  <2> QED BY <2>2 DEF F!Next, F!Die
<1>4. ASSUME Alive, Next, ~TruncateHole PROVE [F!Next]_F!fvars
  <2>1. Alive'
    <3>1. Request \/ WriteStep \/ TruncateStep \/ WriterStep
      BY <1>4, NoRestart DEF Next
    <3> QED BY <1>4, <3>1, AliveStep DEF SharingInv
  <2>2. CASE Request
    BY <1>4, <2>1, <2>2, RequestFollows
  <2>3. CASE WriteStep
    BY <1>4, <2>1, <2>3, WriteFollows, NoWriteFails, PlaceFollows DEF WriteStep
  <2>4. CASE TruncateStep
    BY <1>4, <2>1, <2>4, TruncateFollows, EndFollows DEF TruncateStep, TruncateEnd, Idle
  <2>5. CASE WriterStep
    <3>1. UNCHANGED <<fileBlocks, fh, op>>
      <4>1. writer = Flushing /\ NothingErased
        BY <1>4 DEF SharingInv, Alive
      <4> QED BY <2>5, <4>1, OnlyFlushes DEF Undisturbed, WriterFlushes
    <3> QED BY <1>4, <2>1, <3>1, FlushFollows
  <2> QED BY <1>4, <2>2, <2>3, <2>4, <2>5, NoRestart DEF Next
<1> QED BY <1>1, <1>2, <1>3, <1>4 DEF SharingInv

LEMMA ContentsInit == Init => F!Init
<1> SUFFICES ASSUME Init PROVE F!Init
  OBVIOUS
<1>1. fileBlocks = [k \in Keys |-> Null] /\ op = Idle
  BY DEF Init, T!Init
<1>2. RequestAtWork = F!NoRequest /\ (op # Down) = TRUE
  BY <1>1, RequestNow DEF F!NoRequest, Idle, Down
<1>3. \A k \in Keys : Delivered(k) = Zero
  BY <1>1 DEF Delivered
<1> QED BY <1>2, <1>3 DEF F!Init, Zero

\* Deduplication is invisible: although files share storage blocks and blocks are
\* overwritten in place, a write changes its own file and the range it was asked
\* to, or at worst zeroes the rest of a block, and a truncate drops what lies
\* beyond the new size; nothing else ever changes the content of a file.
THEOREM FilesKeepContents == Undisturbed => (Spec => FileContentsSpec)
<1> SUFFICES ASSUME Undisturbed PROVE Spec => FileContentsSpec
  OBVIOUS
<1>1. Settled /\ SharingInv /\ (Settled /\ SharingInv)' /\ [Next]_vars => [F!Next]_F!fvars
  BY ContentsStep
<1> QED BY <1>1, ContentsInit, SharingCounted, PTL DEF Spec, FileContentsSpec, F!Spec
=============================================================================
