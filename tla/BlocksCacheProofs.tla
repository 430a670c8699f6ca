------------------------- MODULE BlocksCacheProofs -------------------------
(***************************************************************************)
(* Theorems about BlocksCache, for any files, handles, contents and        *)
(* bounds, with evictions, crashes and any number of handles of one file.  *)
(*                                                                         *)
(* The argument is that CacheInv is inductive.  Its parts about the        *)
(* objects and the handles (StoreSafe) are shown first for each operator   *)
(* that the actions build their new heap and handles from.                 *)
(***************************************************************************)
EXTENDS BlocksCache, TLAPS

TP == INSTANCE BlockTablesProofs
        WITH Hashes <- Contents, Counts <- (-MaxUse)..MaxUse

StoreSafe(files, objects) ==
    /\ files \in OpenFiles
    /\ objects \in Objects
    /\ BlockZeroUnused(objects)
    /\ RefsSafe(files, objects)

DiskSafe ==
    /\ disk \in [Numbers -> Contents \cup {Null, Signature}]
    /\ SignatureOnlyInZero

----------------------------------------------------------------------------
(* The objects and the handles *)

LEMMA NumbersFacts ==
    /\ Numbers \subseteq Nat /\ 0 \in Numbers
    /\ Orphans \subseteq Int /\ \A o \in Orphans : o < 0 /\ o \notin Numbers
    /\ Null \notin Numbers \cup Orphans
    /\ -MaxUse \in Int /\ MaxUse \in Int /\ 0 \in (-MaxUse)..MaxUse /\ 1 \in (-MaxUse)..MaxUse
  BY CacheAssumption, NullAssumption DEF Numbers, Orphans

\* Changing one object keeps the store safe if the object is still there, block
\* 0 is not made dirty, given data or used, and nothing reached as block 0 is used.
LEMMA ObjectChanged ==
    ASSUME NEW files, NEW objects, StoreSafe(files, objects),
           NEW n \in Numbers \cup Orphans, NEW item \in Item,
           n = 0 => ~item.dirty /\ item.data = Null /\ item.use =< 0,
           n \notin Numbers \ {0} => \/ item.use =< 0
                                     \/ objects[n] # Null /\ item.use =< objects[n].use
    PROVE  /\ StoreSafe(files, [objects EXCEPT ![n] = item])
           /\ Bounded(objects) /\ item.use \in (-MaxUse)..MaxUse
                => Bounded([objects EXCEPT ![n] = item])
<1> DEFINE new == [objects EXCEPT ![n] = item]
<1>1. item # Null
  BY NullAssumption
<1>2. objects \in Objects /\ new \in Objects
  BY DEF StoreSafe, Objects
<1>3. \A m \in Numbers \cup Orphans : new[m] = IF m = n THEN item ELSE objects[m]
  BY <1>2 DEF Objects
<1> HIDE DEF new
<1>4. BlockZeroUnused(new)
  BY <1>3, NumbersFacts DEF StoreSafe, BlockZeroUnused
<1>5. Bounded(objects) /\ item.use \in (-MaxUse)..MaxUse => Bounded(new)
  BY <1>3 DEF Bounded
<1>6. RefsSafe(files, new)
  <2> SUFFICES ASSUME NEW h \in Handles, NEW b \in Blocks,
                      files[h] # Null, files[h].blocks[b] # Null
               PROVE  InfoSafe(files[h].blocks[b], new)
    BY DEF RefsSafe
  <2> DEFINE i == files[h].blocks[b]
  <2>1. i \in Info /\ InfoSafe(i, objects)
    BY DEF StoreSafe, RefsSafe, OpenFiles, Handle
  <2> HIDE DEF i
  <2>2. ASSUME i.ref # Null
        PROVE  i.ref \in Numbers \cup Orphans /\ objects[i.ref] \in Item
    BY <1>2, <2>1, <2>2 DEF Info, InfoSafe, Objects
  <2>3. ASSUME i.ref # Null
        PROVE  new[i.ref] # Null
    BY <1>1, <1>3, <2>1, <2>2, <2>3 DEF InfoSafe
  <2>4. ASSUME i.ref # Null, i.num = 0
        PROVE  new[i.ref].use =< 0
    <3>1. objects[i.ref].use =< 0 /\ objects[i.ref].use \in Int
      BY <2>1, <2>2, <2>4 DEF InfoSafe, Item
    <3>2. i.ref \in Numbers => i.ref = 0
      BY <2>1, <2>4 DEF InfoSafe
    <3>3. CASE i.ref = n
      BY <1>3, <2>2, <2>4, <3>1, <3>2, <3>3, NumbersFacts DEF Item
    <3>4. CASE i.ref # n
      BY <1>3, <2>2, <2>4, <3>1, <3>4
    <3> QED BY <3>3, <3>4
  <2> QED BY <2>1, <2>3, <2>4 DEF i, InfoSafe
<1> QED BY <1>2, <1>4, <1>5, <1>6 DEF StoreSafe, new

\* Changing one block_info.
LEMMA InfoChanged ==
    ASSUME NEW objects, StoreSafe(fh, objects),
           NEW h \in Handles, fh[h] # Null, NEW b \in Blocks,
           NEW i \in Info \cup {Null}, i # Null => InfoSafe(i, objects)
    PROVE  /\ StoreSafe(WithInfo(h, b, i), objects)
           /\ WithInfo(h, b, i)[h] # Null /\ WithInfo(h, b, i)[h].blocks[b] = i
<1> DEFINE blocks == [fh[h].blocks EXCEPT ![b] = i]
           file == [fh[h] EXCEPT !.blocks = blocks]
           new == WithInfo(h, b, i)
<1>1. fh \in OpenFiles /\ fh[h] \in Handle
  BY DEF StoreSafe, OpenFiles
<1>2. blocks \in [Blocks -> Info \cup {Null}]
  BY <1>1 DEF Handle
<1>3. file \in Handle /\ file.blocks = blocks /\ file.file = fh[h].file
      /\ file.size = fh[h].size
  BY <1>1, <1>2 DEF Handle
<1>4. new = [fh EXCEPT ![h] = file]
  BY <1>1 DEF WithInfo
<1>5. file # Null
  BY <1>3, NullAssumption
<1>6. blocks[b] = i /\ \A c \in Blocks : c # b => blocks[c] = fh[h].blocks[c]
  BY <1>1 DEF Handle
<1> HIDE DEF blocks, file, new
<1>7. new \in OpenFiles /\ new[h] = file /\ \A g \in Handles : g # h => new[g] = fh[g]
  BY <1>1, <1>3, <1>4 DEF OpenFiles
<1>8. RefsSafe(new, objects)
  <2> SUFFICES ASSUME NEW g \in Handles, NEW c \in Blocks,
                      new[g] # Null, new[g].blocks[c] # Null
               PROVE  InfoSafe(new[g].blocks[c], objects)
    BY DEF RefsSafe
  <2>1. CASE g = h /\ c = b
    BY <1>3, <1>6, <1>7, <2>1
  <2>2. CASE g = h /\ c # b
    BY <1>3, <1>6, <1>7, <2>2 DEF StoreSafe, RefsSafe
  <2>3. CASE g # h
    BY <1>7, <2>3 DEF StoreSafe, RefsSafe
  <2> QED BY <2>1, <2>2, <2>3
<1> QED BY <1>3, <1>5, <1>6, <1>7, <1>8 DEF StoreSafe, new

\* Freeing the erased objects that nobody refers to.
LEMMA LiveSafe ==
    ASSUME NEW files, NEW objects, StoreSafe(files, objects)
    PROVE  /\ StoreSafe(files, Live(objects, files))
           /\ Bounded(objects) => Bounded(Live(objects, files))
<1> DEFINE new == Live(objects, files)
<1>1. objects \in Objects /\ DOMAIN objects = Numbers \cup Orphans
  BY DEF StoreSafe, Objects
<1>2. \A n \in Numbers \cup Orphans :
        new[n] = IF n < 0 /\ ~Refers(files, n) THEN Null ELSE objects[n]
  BY <1>1 DEF Live
<1>3. new \in Objects
  BY <1>1 DEF Live, Objects
<1> HIDE DEF new
<1>4. BlockZeroUnused(new) /\ (Bounded(objects) => Bounded(new))
  BY <1>2, NumbersFacts DEF StoreSafe, BlockZeroUnused, Bounded
<1>5. RefsSafe(files, new)
  <2> SUFFICES ASSUME NEW h \in Handles, NEW b \in Blocks,
                      files[h] # Null, files[h].blocks[b] # Null
               PROVE  InfoSafe(files[h].blocks[b], new)
    BY DEF RefsSafe
  <2>1. files[h].blocks[b] \in Info /\ InfoSafe(files[h].blocks[b], objects)
    BY DEF StoreSafe, RefsSafe, OpenFiles, Handle
  <2>2. ASSUME files[h].blocks[b].ref # Null
        PROVE  new[files[h].blocks[b].ref] = objects[files[h].blocks[b].ref]
    BY <1>2, <2>1, <2>2 DEF Refers, Info
  <2> QED BY <2>1, <2>2 DEF InfoSafe
<1> QED BY <1>3, <1>4, <1>5 DEF StoreSafe, new

\* Taking a use from an object.
LEMMA UseTaken ==
    ASSUME NEW files, NEW objects, StoreSafe(files, objects),
           NEW n \in Numbers \cup Orphans \cup {Null}
    PROVE  StoreSafe(files, AddUse(objects, n, -1))
<1>1. CASE n # Null /\ objects[n] # Null
  <2> DEFINE item == [objects[n] EXCEPT !.use = @ + (-1)]
  <2>1. objects \in Objects /\ objects[n] \in Item
    BY <1>1 DEF StoreSafe, Objects
  <2>2. item \in Item /\ item.use = objects[n].use - 1 /\ item.dirty = objects[n].dirty
        /\ item.data = objects[n].data /\ objects[n].use \in Int
    BY <2>1 DEF Item
  <2>3. AddUse(objects, n, -1) = [objects EXCEPT ![n] = item]
    BY <1>1 DEF AddUse
  <2> HIDE DEF item
  <2>4. n = 0 => ~item.dirty /\ item.data = Null /\ item.use =< 0
    BY <1>1, <2>2 DEF StoreSafe, BlockZeroUnused
  <2> QED BY <1>1, <2>2, <2>3, <2>4, ObjectChanged
<1>2. CASE ~(n # Null /\ objects[n] # Null)
  BY <1>2 DEF AddUse
<1> QED BY <1>1, <1>2

\* Counting a use of a storage block other than 0.
LEMMA UseAdded ==
    ASSUME NEW files, NEW objects, StoreSafe(files, objects), NEW n \in Numbers \ {0}
    PROVE  StoreSafe(files, AddUse(objects, n, 1))
<1>1. CASE n # Null /\ objects[n] # Null
  <2> DEFINE item == [objects[n] EXCEPT !.use = @ + 1]
  <2>1. objects \in Objects /\ objects[n] \in Item
    BY <1>1 DEF StoreSafe, Objects
  <2>2. item \in Item
    BY <2>1 DEF Item
  <2>3. AddUse(objects, n, 1) = [objects EXCEPT ![n] = item]
    BY <1>1 DEF AddUse
  <2> HIDE DEF item
  <2> QED BY <2>2, <2>3, ObjectChanged
<1>2. CASE ~(n # Null /\ objects[n] # Null)
  BY <1>2 DEF AddUse
<1> QED BY <1>1, <1>2

\* An object may leave its place for that of an erased one, or go; the
\* weak_ptrs follow it, or expire.
LEMMA RedirectFacts ==
    ASSUME NEW files \in OpenFiles, NEW n, NEW m \in Orphans \cup {Null}
    PROVE  /\ Redirect(files, n, m) \in OpenFiles
           /\ \A h \in Handles :
                /\ Redirect(files, n, m)[h] = Null <=> files[h] = Null
                /\ files[h] # Null =>
                     \A b \in Blocks :
                        LET i == files[h].blocks[b]
                            j == Redirect(files, n, m)[h].blocks[b]
                        IN  /\ j = Null <=> i = Null
                            /\ i # Null => /\ j.num = i.num
                                           /\ j.ref = IF i.ref = n THEN m ELSE i.ref
<1> DEFINE new == Redirect(files, n, m)
           info(i) == IF i # Null /\ i.ref = n THEN [i EXCEPT !.ref = m] ELSE i
           blocks(h) == [b \in Blocks |-> info(files[h].blocks[b])]
           file(h) == [files[h] EXCEPT !.blocks = blocks(h)]
<1>1. ASSUME NEW i \in Info \cup {Null}
      PROVE  /\ info(i) \in Info \cup {Null}
             /\ info(i) = Null <=> i = Null
             /\ i # Null => /\ info(i).num = i.num
                            /\ info(i).ref = IF i.ref = n THEN m ELSE i.ref
  <2>1. CASE i # Null /\ i.ref = n
    <3>1. i \in Info
      BY <2>1
    <3>2. /\ [i EXCEPT !.ref = m] \in Info
          /\ [i EXCEPT !.ref = m].num = i.num
          /\ [i EXCEPT !.ref = m].ref = m
      BY <3>1 DEF Info
    <3> QED BY <2>1, <3>2, NullAssumption
  <2>2. CASE ~(i # Null /\ i.ref = n)
    BY <2>2
  <2> QED BY <2>1, <2>2
<1>2. ASSUME NEW h \in Handles, files[h] # Null
      PROVE  files[h] \in Handle /\ \A b \in Blocks : files[h].blocks[b] \in Info \cup {Null}
  BY <1>2 DEF OpenFiles, Handle
<1>3. ASSUME NEW h \in Handles, files[h] # Null
      PROVE  blocks(h) \in [Blocks -> Info \cup {Null}]
  BY <1>1, <1>2, <1>3
<1> HIDE DEF info
<1>4. ASSUME NEW h \in Handles, files[h] # Null
      PROVE  file(h) \in Handle /\ file(h).blocks = blocks(h) /\ file(h) # Null
  <2> HIDE DEF blocks
  <2>1. file(h) \in Handle /\ file(h).blocks = blocks(h)
    BY <1>2, <1>3, <1>4 DEF Handle
  <2> QED BY <2>1, NullAssumption
<1>5. new = [h \in Handles |-> IF files[h] = Null THEN Null ELSE file(h)]
  BY DEF Redirect, info
<1> HIDE DEF file, new
<1>6. ASSUME NEW h \in Handles
      PROVE  /\ new[h] = IF files[h] = Null THEN Null ELSE file(h)
             /\ new[h] \in Handle \cup {Null}
             /\ new[h] = Null <=> files[h] = Null
  BY <1>4, <1>5
<1>7. new \in OpenFiles
  BY <1>5, <1>6 DEF OpenFiles
<1>8. ASSUME NEW h \in Handles, files[h] # Null, NEW b \in Blocks
      PROVE  new[h].blocks[b] = info(files[h].blocks[b])
  <2>1. blocks(h)[b] = info(files[h].blocks[b])
    OBVIOUS
  <2> HIDE DEF blocks
  <2> QED BY <1>4, <1>6, <1>8, <2>1
<1> QED BY <1>1, <1>2, <1>6, <1>7, <1>8 DEF new

\* The object of block n is erased from _blocks while handles still reach it.
LEMMA ErasedReachable ==
    ASSUME NEW files, NEW objects, StoreSafe(files, objects),
           NEW n \in Numbers, objects[n] # Null, NEW o \in Orphans, objects[o] = Null
    PROVE  /\ StoreSafe(Redirect(files, n, o), [objects EXCEPT ![o] = objects[n], ![n] = Null])
           /\ Bounded(objects)
                => Bounded([objects EXCEPT ![o] = objects[n], ![n] = Null])
<1> DEFINE new == [objects EXCEPT ![o] = objects[n], ![n] = Null]
           red == Redirect(files, n, o)
<1>1. files \in OpenFiles /\ objects \in Objects /\ objects[n] \in Item
  BY DEF StoreSafe, Objects
<1>2. n # o /\ o # 0 /\ o \notin Numbers
  BY NumbersFacts
<1>3. new \in Objects
  BY <1>1 DEF Objects
<1>4. \A m \in Numbers \cup Orphans :
        new[m] = IF m = n THEN Null ELSE IF m = o THEN objects[n] ELSE objects[m]
  BY <1>1, <1>2 DEF Objects
<1> HIDE DEF new, red
<1>5. BlockZeroUnused(new) /\ (Bounded(objects) => Bounded(new))
  BY <1>2, <1>4, NumbersFacts DEF StoreSafe, BlockZeroUnused, Bounded
<1>6. RefsSafe(red, new)
  <2> SUFFICES ASSUME NEW h \in Handles, NEW b \in Blocks,
                      red[h] # Null, red[h].blocks[b] # Null
               PROVE  InfoSafe(red[h].blocks[b], new)
    BY DEF RefsSafe
  <2> DEFINE i == files[h].blocks[b]
             j == red[h].blocks[b]
  <2>1. /\ files[h] # Null /\ i # Null
        /\ j.num = i.num
        /\ j.ref = IF i.ref = n THEN o ELSE i.ref
    BY <1>1, RedirectFacts DEF red
  <2>2. i \in Info /\ InfoSafe(i, objects)
    BY <1>1, <2>1 DEF StoreSafe, RefsSafe, OpenFiles, Handle
  <2> HIDE DEF i, j
  <2>3. i.ref \in Numbers \cup Orphans \cup {Null} /\ i.num \in Numbers
    BY <2>2 DEF Info
  <2>4. InfoSafe(j, new)
    <3>1. CASE i.ref = n
      BY <1>2, <1>4, <2>1, <2>2, <3>1, NumbersFacts DEF InfoSafe
    <3>2. CASE i.ref # n
      BY <1>2, <1>4, <2>1, <2>2, <2>3, <3>2 DEF InfoSafe
    <3> QED BY <3>1, <3>2
  <2> QED BY <2>4 DEF j
<1> QED BY <1>1, <1>3, <1>5, <1>6, RedirectFacts DEF StoreSafe, new, red

\* An object is gone.
LEMMA ObjectGone ==
    ASSUME NEW files, NEW objects, StoreSafe(files, objects), NEW n \in Numbers \cup Orphans
    PROVE  /\ StoreSafe(Redirect(files, n, Null), [objects EXCEPT ![n] = Null])
           /\ Bounded(objects) => Bounded([objects EXCEPT ![n] = Null])
<1> DEFINE new == [objects EXCEPT ![n] = Null]
           red == Redirect(files, n, Null)
<1>1. files \in OpenFiles /\ objects \in Objects /\ new \in Objects
  BY DEF StoreSafe, Objects
<1>2. \A m \in Numbers \cup Orphans : new[m] = IF m = n THEN Null ELSE objects[m]
  BY <1>1 DEF Objects
<1> HIDE DEF new, red
<1>3. BlockZeroUnused(new) /\ (Bounded(objects) => Bounded(new))
  BY <1>2, NumbersFacts DEF StoreSafe, BlockZeroUnused, Bounded
<1>4. RefsSafe(red, new)
  <2> SUFFICES ASSUME NEW h \in Handles, NEW b \in Blocks,
                      red[h] # Null, red[h].blocks[b] # Null
               PROVE  InfoSafe(red[h].blocks[b], new)
    BY DEF RefsSafe
  <2> DEFINE i == files[h].blocks[b]
             j == red[h].blocks[b]
  <2>1. /\ files[h] # Null /\ i # Null
        /\ j.num = i.num
        /\ j.ref = IF i.ref = n THEN Null ELSE i.ref
    BY <1>1, RedirectFacts DEF red
  <2>2. i \in Info /\ InfoSafe(i, objects)
    BY <1>1, <2>1 DEF StoreSafe, RefsSafe, OpenFiles, Handle
  <2> HIDE DEF i, j
  <2>3. i.ref \in Numbers \cup Orphans \cup {Null}
    BY <2>2 DEF Info
  <2> QED BY <1>2, <2>1, <2>2, <2>3 DEF InfoSafe, i, j
<1> QED BY <1>1, <1>3, <1>4, RedirectFacts DEF StoreSafe, new, red

----------------------------------------------------------------------------
(* Looking a block up *)

\* A block_info just loaded names an existing row or block 0, with a use count
\* that is 0 if it is block 0.
LEMMA LoadFacts ==
    ASSUME TypeOK, Len(rows) =< MaxRows, T!UsesBounded,
           NEW f \in Files, NEW size, NEW b \in Blocks
    PROVE  /\ Load(f, size, b) \in Info
           /\ Load(f, size, b).num =< Len(rows)
           /\ Load(f, size, b).ref = Null
           /\ LoadedUse(Load(f, size, b)) \in (-MaxUse)..MaxUse
           /\ Load(f, size, b).num = 0 => LoadedUse(Load(f, size, b)) = 0
<1> DEFINE x == fileBlocks[<<f, b>>]
           i == Load(f, size, b)
<1>1. rows \in Seq(T!Row) /\ Len(rows) \in Nat /\ DOMAIN rows = 1..Len(rows)
  BY DEF TypeOK, T!TypeOK
<1>2. x \in Contents \cup {Null}
  BY DEF TypeOK, T!TypeOK, Keys
<1>3. T!Present(x) => T!IdOf(x) \in 1..Len(rows)
  BY <1>1 DEF T!Present, T!IdOf
<1>4. /\ i.num = IF (b * DbBlockSize =< size /\ x # Null) /\ T!Present(x) THEN T!IdOf(x) ELSE 0
      /\ i.ref = Null
      /\ i \in Info
  <2>1. Len(rows) =< MaxRows /\ MaxRows \in Nat
    BY CacheAssumption
  <2>2. T!Present(x) => T!IdOf(x) \in 0..MaxRows
    BY <1>1, <1>3, <2>1
  <2>3. 0 \in 0..MaxRows
    BY <2>1
  <2> HIDE DEF x
  <2> QED BY <1>2, <2>2, <2>3 DEF Load, Info, Numbers, x
<1>5. i.num = 0 \/ i.num \in 1..Len(rows)
  BY <1>3, <1>4
<1> HIDE DEF i
<1>6. LoadedUse(i) \in (-MaxUse)..MaxUse /\ (i.num = 0 => LoadedUse(i) = 0)
  BY <1>1, <1>5, NumbersFacts DEF LoadedUse, T!UsesBounded
<1> QED BY <1>1, <1>4, <1>5, <1>6 DEF i

LEMMA StoreOfInv == ASSUME CacheInv PROVE StoreSafe(fh, heap) /\ Bounded(heap) /\ DiskSafe
  BY DEF CacheInv, TypeOK, StoreSafe, CountsBounded, DiskSafe

\* _getLockedFileBlock leaves the store safe, and the block_info at the object
\* of its number if it has any.
LEMMA LookupSafe ==
    ASSUME CacheInv, NEW h \in Handles, fh[h] # Null, NEW b \in Blocks
    PROVE  /\ InfoOf(h, b) \in Info /\ InfoOf(h, b).num =< Len(rows)
           /\ Locked(h, b) \in Info /\ Locked(h, b).num =< Len(rows)
           /\ StoreSafe(fh, Placed(h, b)) /\ Bounded(Placed(h, b))
           /\ InfoSafe(Locked(h, b), Placed(h, b))
<1> DEFINE i == InfoOf(h, b)
           j == Locked(h, b)
           objects == Placed(h, b)
           use == IF fh[h].blocks[b] = Null THEN LoadedUse(i) ELSE 0
           item == [use |-> use, data |-> Null, dirty |-> FALSE]
<1>1. fh[h] \in Handle /\ fh[h].blocks[b] \in Info \cup {Null} /\ fh[h].file \in Files
  BY DEF CacheInv, TypeOK, OpenFiles, Handle
<1>2. StoreSafe(fh, heap) /\ Bounded(heap)
  BY StoreOfInv
<1>3. TypeOK /\ Len(rows) =< MaxRows /\ T!UsesBounded
  BY DEF CacheInv, CountsBounded
<1>4. /\ i \in Info /\ i.num =< Len(rows)
      /\ use \in (-MaxUse)..MaxUse /\ (i.num = 0 => use = 0)
  <2>1. CASE fh[h].blocks[b] = Null
    BY <1>1, <1>3, <2>1, LoadFacts DEF InfoOf
  <2>2. CASE fh[h].blocks[b] # Null
    BY <1>1, <2>2, NumbersFacts DEF InfoOf, CacheInv, NumbersKnown
  <2> QED BY <2>1, <2>2
<1>5. InfoSafe(i, heap)
  <2>1. CASE fh[h].blocks[b] = Null
    <3>1. i.ref = Null
      BY <1>1, <1>3, <2>1, LoadFacts DEF InfoOf
    <3> QED BY <3>1 DEF InfoSafe
  <2>2. CASE fh[h].blocks[b] # Null
    BY <1>1, <1>2, <2>2 DEF InfoOf, StoreSafe, RefsSafe
  <2> QED BY <2>1, <2>2
<1>6. j = (IF i.empty \/ i.ref # Null THEN i ELSE [i EXCEPT !.ref = i.num])
  BY DEF Locked
<1>7. objects = IF i.empty \/ i.ref # Null \/ heap[i.num] # Null THEN heap
                ELSE [heap EXCEPT ![i.num] = item]
  BY DEF Placed
<1> HIDE DEF i, j, objects, use
<1>8. item \in Item /\ item # Null /\ item.use = use /\ item.data = Null /\ item.dirty = FALSE
  <2>1. use \in Int
    BY <1>4
  <2>2. item \in Item /\ item.use = use /\ item.data = Null /\ item.dirty = FALSE
    BY <2>1 DEF Item
  <2> QED BY <2>2, NullAssumption
<1>9. i.num \in Numbers /\ heap \in Objects
  BY <1>2, <1>4 DEF Info, StoreSafe
<1> HIDE DEF item
<1>10. CASE i.empty \/ i.ref # Null
  <2>1. j = i /\ objects = heap
    BY <1>6, <1>7, <1>10
  <2> QED BY <1>2, <1>4, <1>5, <2>1 DEF i, j, objects
<1>11. CASE ~(i.empty \/ i.ref # Null)
  <2>1. j = [i EXCEPT !.ref = i.num]
    BY <1>6, <1>11
  <2>2. j \in Info /\ j.num = i.num /\ j.ref = i.num
    BY <1>4, <1>9, <2>1 DEF Info
  <2>3. CASE heap[i.num] # Null
    <3>1. objects = heap
      BY <1>7, <2>3
    <3>2. InfoSafe(j, heap)
      BY <1>2, <2>2, <2>3 DEF InfoSafe, StoreSafe, BlockZeroUnused
    <3> QED BY <1>2, <1>4, <2>2, <3>1, <3>2 DEF i, j, objects
  <2>4. CASE heap[i.num] = Null
    <3>1. objects = [heap EXCEPT ![i.num] = item]
      BY <1>7, <1>11, <2>4
    <3>2. StoreSafe(fh, objects) /\ Bounded(objects)
      <4>1. i.num \notin Numbers \ {0} => item.use =< 0
        BY <1>4, <1>8, <1>9
      <4>2. i.num = 0 => ~item.dirty /\ item.data = Null /\ item.use =< 0
        BY <1>4, <1>8
      <4>3. item.use \in (-MaxUse)..MaxUse
        BY <1>4, <1>8
      <4> QED BY <1>2, <1>8, <1>9, <3>1, <4>1, <4>2, <4>3, ObjectChanged
    <3>3. objects[i.num] = item
      BY <1>9, <3>1 DEF Objects
    <3>4. InfoSafe(j, objects)
      BY <1>4, <1>8, <2>2, <3>3 DEF InfoSafe
    <3> QED BY <1>4, <2>2, <3>2, <3>4 DEF i, j, objects
  <2> QED BY <2>3, <2>4
<1> QED BY <1>10, <1>11

\* _populateStorageBlock gives an object data of the storage file, and block 0
\* none.
LEMMA PopulateSafe ==
    ASSUME DiskSafe, NEW files, NEW objects, StoreSafe(files, objects),
           NEW i \in Info, i.ref # Null, InfoSafe(i, objects),
           NEW new, new = [objects EXCEPT ![i.ref] = Populate(@, i.num)]
    PROVE  StoreSafe(files, new) /\ InfoSafe(i, new) /\ (Bounded(objects) => Bounded(new))
<1> DEFINE old == objects[i.ref]
           item == Populate(old, i.num)
<1>1. i.ref \in Numbers \cup Orphans /\ i.num \in Numbers /\ objects \in Objects
  BY DEF Info, StoreSafe
<1>2. old \in Item
  BY <1>1 DEF InfoSafe, Objects
<1>3. item \in Item /\ item.use = old.use /\ item.dirty = old.dirty
      /\ (i.num = 0 => item = old)
  <2>1. CASE old.data # Null \/ i.num = 0
    BY <1>2, <2>1 DEF Populate
  <2>2. CASE ~(old.data # Null \/ i.num = 0)
    <3> DEFINE d == IF disk[i.num] = Null THEN Zero ELSE disk[i.num]
    <3>1. Zero \in Contents
      BY CacheAssumption DEF Zero, Contents
    <3>2. disk[i.num] \in Contents \cup {Null}
      BY <1>1, <2>2 DEF DiskSafe, SignatureOnlyInZero
    <3>3. d \in Contents
      BY <3>1, <3>2
    <3>4. item = [old EXCEPT !.data = d]
      BY <2>2 DEF Populate
    <3> HIDE DEF d
    <3> QED BY <1>2, <2>2, <3>3, <3>4 DEF Item
  <2> QED BY <2>1, <2>2
<1>4. new = [objects EXCEPT ![i.ref] = item]
  OBVIOUS
<1> HIDE DEF item
<1>5. /\ old.use \in Int /\ old # Null
      /\ Bounded(objects) => old.use \in (-MaxUse)..MaxUse
  BY <1>1, <1>2 DEF Bounded, InfoSafe, Item
<1>6. i.ref = 0 => i.num = 0
  BY NumbersFacts DEF InfoSafe
<1>7. i.ref = 0 => ~item.dirty /\ item.data = Null /\ item.use =< 0
  BY <1>3, <1>5, <1>6 DEF StoreSafe, BlockZeroUnused
<1>8. StoreSafe(files, new) /\ (Bounded(objects) => Bounded(new))
  <2>1. Bounded(objects) => item.use \in (-MaxUse)..MaxUse
    BY <1>3, <1>5
  <2>2. objects[i.ref] # Null /\ item.use =< objects[i.ref].use
    BY <1>3, <1>5
  <2>3. item \in Item
    BY <1>3
  <2>4. /\ StoreSafe(files, [objects EXCEPT ![i.ref] = item])
        /\ Bounded(objects) => Bounded([objects EXCEPT ![i.ref] = item])
    BY <1>1, <1>7, <2>1, <2>2, <2>3, ObjectChanged
  <2> QED BY <1>4, <2>4
<1>9. new[i.ref] = item
  BY <1>1, <1>4 DEF Objects
<1>10. InfoSafe(i, new)
  BY <1>3, <1>9, NullAssumption DEF InfoSafe
<1> QED BY <1>8, <1>10

----------------------------------------------------------------------------
(* Arithmetic of blocks and units *)

LEMMA SizeFacts ==
    /\ NumBlocks \in Nat /\ BlockSize \in Nat /\ BlockSize > 0
    /\ MaxSize \in Nat /\ MaxSize = NumBlocks * BlockSize
  BY CacheAssumption DEF MaxSize

LEMMA BlockOfUnit ==
    ASSUME NEW n \in Nat, n < MaxSize
    PROVE  n \div BlockSize \in Blocks
<1> DEFINE q == n \div BlockSize
<1>1. q \in Int /\ q * BlockSize =< n /\ n < (q + 1) * BlockSize
  BY SizeFacts
<1> HIDE DEF q
<1>2. q * BlockSize < NumBlocks * BlockSize
  BY <1>1, SizeFacts
<1>3. q < NumBlocks
  BY <1>1, <1>2, SizeFacts
<1>4. q >= 0
  BY <1>1, SizeFacts
<1> QED BY <1>1, <1>3, <1>4, SizeFacts DEF Blocks, q

LEMMA BlocksForFacts ==
    ASSUME NEW n \in 0..MaxSize
    PROVE  BlocksFor(n) \in 0..NumBlocks
<1> DEFINE m == n + BlockSize - 1
           q == m \div BlockSize
<1>1. m \in Int /\ m >= 0 /\ m < (NumBlocks + 1) * BlockSize
  BY SizeFacts
<1> HIDE DEF m
<1>2. q \in Int /\ q * BlockSize =< m /\ m < (q + 1) * BlockSize
  BY <1>1, SizeFacts
<1> HIDE DEF q
<1>3. q < NumBlocks + 1
  BY <1>1, <1>2, SizeFacts
<1>4. q >= 0
  BY <1>1, <1>2, SizeFacts
<1> QED BY <1>2, <1>3, <1>4, SizeFacts DEF BlocksFor, m, q

----------------------------------------------------------------------------
(* The transactions, as BlockTables proves them *)

LEMMA TablesAssumed == TP!TablesAssumption
  BY CacheAssumption, NullAssumption DEF TP!TablesAssumption

\* Only use counts change.
KeepsHashes ==
    DOMAIN rows' = DOMAIN rows /\ \A n \in DOMAIN rows : rows'[n].hash = rows[n].hash

LEMMA PresentTables ==
    ASSUME T!TypeOK, NEW k \in Keys, NEW x \in Contents, NEW s, NEW c \in Int,
           T!ReplacePresent(k, x, s, c)
    PROVE  T!TypeOK' /\ Len(rows') = Len(rows) /\ T!IdOf(x) \in 1..Len(rows) /\ KeepsHashes
<1>1. TP!TypeOK /\ TP!ReplacePresent(k, x, s, c)
  BY DEF T!TypeOK, TP!TypeOK, T!Row, TP!Row, T!ReplacePresent, TP!ReplacePresent,
         T!Present, TP!Present, T!SetUse, TP!SetUse, T!IdOf, TP!IdOf
<1>2. rows' \in Seq(TP!Row) /\ KeepsHashes
  BY <1>1, TablesAssumed, TP!ReplacePresentRows DEF TP!SameHashes, KeepsHashes
<1>3. fileBlocks' \in [Keys -> Contents \cup {Null}]
  BY DEF T!TypeOK, T!ReplacePresent
<1>4. T!TypeOK'
  BY <1>2, <1>3 DEF T!TypeOK, T!Row, TP!Row
<1>5. T!IdOf(x) \in DOMAIN rows
  BY DEF T!ReplacePresent, T!Present, T!IdOf
<1>6. Len(rows') = Len(rows)
  BY <1>2, <1>4 DEF T!TypeOK, KeepsHashes
<1> QED BY <1>2, <1>4, <1>5, <1>6 DEF T!TypeOK

LEMMA InPlaceTables ==
    ASSUME T!TypeOK, NEW k \in Keys, NEW x \in Contents, NEW s, NEW c \in Int,
           T!ReplaceInPlace(k, x, s, c)
    PROVE  /\ T!TypeOK' /\ Len(rows') = Len(rows) /\ DOMAIN rows' = DOMAIN rows
           /\ \A n \in DOMAIN rows : rows'[n].hash = IF n = s THEN x ELSE rows[n].hash
<1>1. TP!TypeOK /\ TP!ReplaceInPlace(k, x, s, c)
  BY DEF T!TypeOK, TP!TypeOK, T!Row, TP!Row, T!ReplaceInPlace, TP!ReplaceInPlace,
         T!Present, TP!Present, T!SetUse, TP!SetUse, T!SetHash, TP!SetHash,
         T!InPlaceAllowed, TP!InPlaceAllowed
<1>2. /\ rows' \in Seq(TP!Row) /\ DOMAIN rows' = DOMAIN rows
      /\ \A n \in DOMAIN rows : rows'[n].hash = IF n = s THEN x ELSE rows[n].hash
  BY <1>1, TablesAssumed, TP!ReplaceInPlaceRows
<1>3. fileBlocks' \in [Keys -> Contents \cup {Null}]
  BY DEF T!TypeOK, T!ReplaceInPlace
<1>4. T!TypeOK'
  BY <1>2, <1>3 DEF T!TypeOK, T!Row, TP!Row
<1> QED BY <1>2, <1>4 DEF T!TypeOK

LEMMA SameIntervals ==
    ASSUME NEW m \in Nat, NEW n \in Nat, 1..m = 1..(n + 1)
    PROVE  m = n + 1
<1>1. n + 1 \in 1..m
  OBVIOUS
<1>2. m \in 1..(n + 1)
  BY <1>1
<1> QED BY <1>1, <1>2

LEMMA InsertTables ==
    ASSUME T!TypeOK, NEW k \in Keys, NEW x \in Contents, NEW s, NEW c \in Int,
           T!ReplaceInsert(k, x, s, c)
    PROVE  /\ T!TypeOK' /\ Len(rows') = Len(rows) + 1 /\ Len(rows) < MaxRows
           /\ DOMAIN rows' = DOMAIN rows \cup {Len(rows) + 1}
           /\ rows'[Len(rows) + 1].hash = x
           /\ \A n \in DOMAIN rows : rows'[n].hash = rows[n].hash
<1>1. TP!TypeOK /\ TP!ReplaceInsert(k, x, s, c)
  BY DEF T!TypeOK, TP!TypeOK, T!Row, TP!Row, T!ReplaceInsert, TP!ReplaceInsert,
         T!Present, TP!Present, T!SetUse, TP!SetUse, T!InPlaceAllowed, TP!InPlaceAllowed
<1>2. /\ rows' \in Seq(TP!Row) /\ DOMAIN rows' = DOMAIN rows \cup {Len(rows) + 1}
      /\ rows'[Len(rows) + 1].hash = x
      /\ \A n \in DOMAIN rows : rows'[n].hash = rows[n].hash
  BY <1>1, TablesAssumed, TP!ReplaceInsertRows
<1>3. fileBlocks' \in [Keys -> Contents \cup {Null}]
  BY DEF T!TypeOK, T!ReplaceInsert
<1>4. T!TypeOK'
  BY <1>2, <1>3 DEF T!TypeOK, T!Row, TP!Row
<1>5. Len(rows') = Len(rows) + 1
  <2>1. Len(rows) \in Nat /\ DOMAIN rows = 1..Len(rows)
    BY DEF T!TypeOK
  <2>2. Len(rows') \in Nat /\ DOMAIN rows' = 1..Len(rows')
    BY <1>4 DEF T!TypeOK
  <2>3. 1..Len(rows') = 1..(Len(rows) + 1)
    BY <1>2, <2>1, <2>2
  <2> QED BY <2>1, <2>2, <2>3, SameIntervals
<1> QED BY <1>2, <1>4, <1>5 DEF T!ReplaceInsert

LEMMA ReleaseTables ==
    ASSUME T!TypeOK, NEW k \in Keys, NEW x, T!Release(k, x)
    PROVE  T!TypeOK' /\ Len(rows') = Len(rows) /\ KeepsHashes
<1>1. rows \in Seq(TP!Row) /\ rows' = TP!DecreaseUse(rows, x)
  BY DEF T!TypeOK, T!Row, TP!Row, T!Release, T!DecreaseUse, TP!DecreaseUse
<1>2. rows' \in Seq(TP!Row) /\ KeepsHashes
  BY <1>1, TablesAssumed, TP!DecreaseUseFacts DEF TP!SameHashes, KeepsHashes
<1>3. fileBlocks' \in [Keys -> Contents \cup {Null}]
  BY DEF T!TypeOK, T!Release
<1>4. T!TypeOK'
  BY <1>2, <1>3 DEF T!TypeOK, T!Row, TP!Row
<1> QED BY <1>2, <1>4 DEF T!TypeOK, KeepsHashes

----------------------------------------------------------------------------
(* Requests *)

\* CacheInv in parts, as the steps below show it.
LEMMA InvParts ==
    CacheInv <=> /\ T!TypeOK /\ Len(rows) =< MaxRows /\ T!UsesBounded
                 /\ fsize \in [Files -> 0..MaxSize]
                 /\ DiskSafe
                 /\ StoreSafe(fh, heap) /\ Bounded(heap)
                 /\ NumbersKnown
                 /\ op \in {Idle, Hung, Down} \cup Write \cup Place \cup Truncate
                 /\ RequestSafe
                 /\ writer \in Writer
                 /\ restarts \in 0..MaxRestarts
                 /\ lost \subseteq Numbers
  BY DEF CacheInv, TypeOK, CountsBounded, DiskSafe, StoreSafe

LEMMA InvPartsNext ==
    CacheInv' <=> /\ T!TypeOK' /\ Len(rows') =< MaxRows /\ T!UsesBounded'
                 /\ fsize' \in [Files -> 0..MaxSize]
                 /\ DiskSafe'
                 /\ StoreSafe(fh', heap') /\ Bounded(heap')
                 /\ NumbersKnown'
                 /\ op' \in {Idle, Hung, Down} \cup Write \cup Place \cup Truncate
                 /\ RequestSafe'
                 /\ writer' \in Writer
                 /\ restarts' \in 0..MaxRestarts
                 /\ lost' \subseteq Numbers
  BY DEF CacheInv, TypeOK, CountsBounded, DiskSafe, StoreSafe, BlockZeroUnused, RefsSafe, InfoSafe, Bounded

\* The parts that an action leaves alone.
LEMMA SameTables ==
    ASSUME CacheInv, UNCHANGED <<rows, fileBlocks>>
    PROVE  T!TypeOK' /\ T!UsesBounded' /\ Len(rows') =< MaxRows
  BY InvParts DEF T!TypeOK, T!UsesBounded

LEMMA SameDisk ==
    ASSUME CacheInv, UNCHANGED disk
    PROVE  DiskSafe'
  BY InvParts DEF DiskSafe, SignatureOnlyInZero

\* One block_info changes, and the tables do not lose rows.
LEMMA NumbersAfterInfo ==
    ASSUME CacheInv, NEW h \in Handles, fh[h] # Null, NEW b \in Blocks,
           NEW i \in Info \cup {Null}, fh' = WithInfo(h, b, i),
           i # Null => i.num =< Len(rows'), Len(rows) =< Len(rows'), Len(rows') \in Nat
    PROVE  NumbersKnown'
<1>1. fh \in OpenFiles /\ fh[h] \in Handle /\ Len(rows) \in Nat
  BY InvParts DEF StoreSafe, OpenFiles, T!TypeOK
<1>2. \A g \in Handles, c \in Blocks : fh[g] # Null =>
        fh'[g].blocks[c] = IF g = h /\ c = b THEN i ELSE fh[g].blocks[c]
  <2> SUFFICES ASSUME NEW g \in Handles, NEW c \in Blocks, fh[g] # Null
               PROVE  fh'[g].blocks[c] = IF g = h /\ c = b THEN i ELSE fh[g].blocks[c]
    OBVIOUS
  <2>1. fh[g] \in Handle
    BY <1>1 DEF OpenFiles
  <2> QED BY <1>1, <2>1 DEF WithInfo, OpenFiles, Handle
<1>3. \A g \in Handles : g # h => fh'[g] = fh[g]
  BY <1>1 DEF WithInfo, OpenFiles
<1>4. \A g \in Handles, c \in Blocks : fh[g] # Null /\ fh[g].blocks[c] # Null
          => fh[g].blocks[c] \in Info /\ fh[g].blocks[c].num =< Len(rows)
  BY <1>1, InvParts DEF NumbersKnown, OpenFiles, Handle
<1> SUFFICES ASSUME NEW g \in Handles, NEW c \in Blocks,
                    fh'[g] # Null, fh'[g].blocks[c] # Null
             PROVE  fh'[g].blocks[c].num =< Len(rows')
  BY DEF NumbersKnown
<1>5. fh[g] # Null
  BY <1>3
<1>6. CASE g = h /\ c = b
  BY <1>2, <1>5, <1>6
<1>7. CASE ~(g = h /\ c = b)
  <2>1. fh'[g].blocks[c] = fh[g].blocks[c]
    BY <1>2, <1>5, <1>7
  <2>2. fh[g].blocks[c] \in Info /\ fh[g].blocks[c].num =< Len(rows)
    BY <1>4, <1>5, <2>1
  <2>3. fh[g].blocks[c].num \in Int
    BY <2>2, CacheAssumption DEF Info, Numbers
  <2> QED BY <1>1, <2>1, <2>2, <2>3
<1> QED BY <1>6, <1>7

\* A file_info as it is opened.
LEMMA InvOpen ==
    ASSUME CacheInv, NEW h \in Handles, NEW f \in Files, Open(h, f)
    PROVE  CacheInv'
<1> DEFINE file == [file |-> f, size |-> fsize[f], blocks |-> [b \in Blocks |-> Null]]
<1>1. /\ op = Idle /\ fh' = [fh EXCEPT ![h] = file]
      /\ UNCHANGED <<rows, fileBlocks, fsize, disk, heap, op, writer, restarts, lost>>
  BY DEF Open
<1>2. file \in Handle
  BY InvParts DEF Handle
<1>3. file.blocks = [b \in Blocks |-> Null]
  OBVIOUS
<1> HIDE DEF file
<1>4. fh \in OpenFiles
  BY InvParts DEF StoreSafe
<1>5. fh' \in OpenFiles /\ \A g \in Handles : fh'[g] = IF g = h THEN file ELSE fh[g]
  BY <1>1, <1>2, <1>4 DEF OpenFiles
<1>6. RefsSafe(fh', heap) /\ NumbersKnown'
  BY <1>1, <1>3, <1>5, InvParts DEF RefsSafe, StoreSafe, NumbersKnown
<1>7. StoreSafe(fh', heap')
  BY <1>1, <1>5, <1>6, InvParts DEF StoreSafe
<1>8. RequestSafe'
  BY <1>1 DEF RequestSafe, Idle
<1> QED BY <1>1, <1>6, <1>7, <1>8, SameTables, SameDisk, InvParts, InvPartsNext

LEMMA InvRelease ==
    ASSUME CacheInv, NEW h \in Handles, Release(h)
    PROVE  CacheInv'
<1>1. /\ op = Idle /\ fh' = [fh EXCEPT ![h] = Null] /\ heap' = Live(heap, fh')
      /\ UNCHANGED <<rows, fileBlocks, fsize, disk, op, writer, restarts, lost>>
  BY DEF Release
<1>2. fh \in OpenFiles
  BY InvParts DEF StoreSafe
<1>3. fh' \in OpenFiles /\ \A g \in Handles : fh'[g] = IF g = h THEN Null ELSE fh[g]
  BY <1>1, <1>2 DEF OpenFiles
<1>4. NumbersKnown'
  BY <1>1, <1>3, InvParts DEF NumbersKnown
<1>5. StoreSafe(fh', heap)
  BY <1>3, InvParts DEF StoreSafe, RefsSafe
<1>6. StoreSafe(fh', heap') /\ Bounded(heap')
  BY <1>1, <1>5, InvParts, LiveSafe
<1>7. RequestSafe'
  BY <1>1 DEF RequestSafe, Idle
<1> QED BY <1>1, <1>4, <1>6, <1>7, SameTables, SameDisk, InvParts, InvPartsNext

LEMMA InvRead ==
    ASSUME CacheInv, NEW h \in Handles, NEW b \in Blocks, Read(h, b)
    PROVE  CacheInv'
<1> DEFINE i == Locked(h, b)
           objects == Placed(h, b)
           new == [objects EXCEPT ![i.ref] = Populate(@, i.num)]
<1>1. /\ op = Idle /\ fh[h] # Null
      /\ fh' = WithInfo(h, b, i)
      /\ heap' = IF i.ref = Null THEN objects ELSE new
      /\ UNCHANGED <<rows, fileBlocks, fsize, disk, op, writer, restarts, lost>>
  BY DEF Read
<1>2. /\ i \in Info /\ i.num =< Len(rows)
      /\ StoreSafe(fh, objects) /\ Bounded(objects) /\ InfoSafe(i, objects)
  BY <1>1, LookupSafe
<1> HIDE DEF i, objects
<1>3. StoreSafe(fh, heap') /\ InfoSafe(i, heap') /\ Bounded(heap')
  <2>1. CASE i.ref = Null
    BY <1>1, <1>2, <2>1
  <2>2. CASE i.ref # Null
    <3>1. heap' = new /\ DiskSafe
      BY <1>1, <2>2, InvParts
    <3>2. \A r : r = new => StoreSafe(fh, r) /\ InfoSafe(i, r) /\ Bounded(r)
      BY <1>2, <2>2, <3>1, PopulateSafe
    <3> QED BY <3>1, <3>2
  <2> QED BY <2>1, <2>2
<1>4. StoreSafe(fh', heap')
  BY <1>1, <1>2, <1>3, InfoChanged
<1>5. NumbersKnown'
  BY <1>1, <1>2, NumbersAfterInfo, InvParts DEF T!TypeOK
<1>6. RequestSafe'
  BY <1>1 DEF RequestSafe, Idle
<1> QED BY <1>1, <1>3, <1>4, <1>5, <1>6, SameTables, SameDisk, InvParts, InvPartsNext

\* A handle that only gets another size.
LEMMA SizeChanged ==
    ASSUME CacheInv, NEW h \in Handles, fh[h] # Null, NEW n \in 0..MaxSize,
           fh' = [fh EXCEPT ![h].size = n]
    PROVE  /\ StoreSafe(fh', heap)
           /\ fh'[h] # Null
           /\ UNCHANGED rows => NumbersKnown'
<1>1. fh \in OpenFiles /\ fh[h] \in Handle
  BY InvParts DEF StoreSafe, OpenFiles
<1>2. [fh[h] EXCEPT !.size = n] \in Handle
      /\ [fh[h] EXCEPT !.size = n].blocks = fh[h].blocks
  BY <1>1 DEF Handle
<1>3. fh' \in OpenFiles /\ fh'[h] # Null
      /\ \A g \in Handles : /\ fh'[g] = Null <=> fh[g] = Null
                           /\ fh[g] # Null => fh'[g].blocks = fh[g].blocks
  BY <1>1, <1>2, NullAssumption DEF OpenFiles
<1>4. RefsSafe(fh', heap)
  BY <1>3, InvParts DEF StoreSafe, RefsSafe
<1> QED BY <1>3, <1>4, InvParts DEF StoreSafe, NumbersKnown

LEMMA SetSizeFacts ==
    ASSUME CacheInv, NEW h \in Handles, NEW n \in 0..MaxSize
    PROVE  SetSize(h, n) \in [Files -> 0..MaxSize]
  BY InvParts DEF SetSize

LEMMA InvWriteBuf ==
    ASSUME CacheInv, NEW h \in Handles, NEW from \in 0..MaxSize, NEW end \in 0..MaxSize,
           WriteBuf(h, from, end)
    PROVE  CacheInv'
<1>1. /\ fh[h] # Null /\ from < end
      /\ op' = [kind |-> "write", h |-> h, next |-> from, end |-> end]
      /\ UNCHANGED <<rows, fileBlocks, disk, heap, writer, restarts, lost>>
  BY DEF WriteBuf
<1>2. op' \in Write
  BY <1>1 DEF Write
<1>3. /\ StoreSafe(fh', heap) /\ fh'[h] # Null /\ NumbersKnown'
      /\ fsize' \in [Files -> 0..MaxSize]
  <2>1. CASE end > fh[h].size
    BY <1>1, <2>1, SizeChanged, SetSizeFacts DEF WriteBuf
  <2>2. CASE ~(end > fh[h].size)
    BY <1>1, <2>2, InvParts DEF WriteBuf, NumbersKnown
  <2> QED BY <2>1, <2>2
<1>4. RequestSafe'
  BY <1>1, <1>3 DEF RequestSafe
<1> QED BY <1>1, <1>2, <1>3, <1>4, SameTables, SameDisk, InvParts, InvPartsNext

LEMMA InvExtend ==
    ASSUME CacheInv, NEW h \in Handles, NEW n \in 0..MaxSize, Extend(h, n)
    PROVE  CacheInv'
<1>1. /\ op = Idle /\ fh[h] # Null
      /\ fsize' = SetSize(h, n) /\ fh' = [fh EXCEPT ![h].size = n]
      /\ UNCHANGED <<rows, fileBlocks, disk, heap, op, writer, restarts, lost>>
  BY DEF Extend
<1>2. RequestSafe'
  BY <1>1 DEF RequestSafe, Idle
<1> QED BY <1>1, <1>2, SizeChanged, SetSizeFacts, SameTables, SameDisk, InvParts, InvPartsNext

LEMMA InvTruncateBegin ==
    ASSUME CacheInv, NEW h \in Handles, NEW n \in 0..MaxSize, TruncateBegin(h, n)
    PROVE  CacheInv'
<1>1. /\ op = Idle /\ fh[h] # Null /\ fh[h].size > n
      /\ op' = [kind |-> "truncate", h |-> h, next |-> BlocksFor(n),
                end |-> BlocksFor(fh[h].size), size |-> n]
      /\ UNCHANGED <<rows, fileBlocks, fsize, disk, heap, fh, writer, restarts, lost>>
  BY DEF TruncateBegin
<1>2. fh[h].size \in 0..MaxSize
  BY <1>1, InvParts DEF StoreSafe, OpenFiles, Handle
<1>3. op' \in Truncate
  BY <1>1, <1>2, BlocksForFacts DEF Truncate
<1>4. RequestSafe' /\ NumbersKnown'
  BY <1>1, InvParts DEF RequestSafe, NumbersKnown
<1> QED BY <1>1, <1>3, <1>4, SameTables, SameDisk, InvParts, InvPartsNext

LEMMA InvHang ==
    ASSUME CacheInv, NEW h \in Handles, NEW b \in Blocks, Hang(h, b)
    PROVE  CacheInv'
<1>1. /\ op' = Hung
      /\ UNCHANGED <<rows, fileBlocks, fsize, disk, heap, fh, writer, restarts, lost>>
  BY DEF Hang
<1>2. RequestSafe' /\ NumbersKnown'
  BY <1>1, InvParts DEF RequestSafe, NumbersKnown, Hung
<1> QED BY <1>1, <1>2, SameTables, SameDisk, InvParts, InvPartsNext

----------------------------------------------------------------------------
(* Writing *)

\* What a write has to hand when it comes to a block.
LEMMA ChunkFacts ==
    ASSUME CacheInv, op.kind = "write"
    PROVE  /\ op \in Write /\ op.h \in Handles /\ fh[op.h] # Null
           /\ ChunkBlock \in Blocks /\ Key \in Keys
           /\ NextChunk \in 0..MaxSize /\ op.end \in 0..MaxSize /\ NextChunk =< op.end
           /\ Target \in Info /\ Target.num =< Len(rows)
           /\ StoreSafe(fh, Merged) /\ Bounded(Merged) /\ InfoSafe(Target, Merged)
           /\ OldUse \in (-MaxUse)..MaxUse
<1>1. op \in Write
  BY InvParts DEF Idle, Hung, Down, Place, Truncate
<1>2. /\ op.h \in Handles /\ fh[op.h] # Null
      /\ op.next \in 0..MaxSize /\ op.end \in 0..MaxSize /\ op.next < op.end
  BY <1>1, InvParts DEF Write, RequestSafe
<1>3. ChunkBlock \in Blocks
  BY <1>2, BlockOfUnit, SizeFacts DEF ChunkBlock
<1>4. fh[op.h].file \in Files
  BY <1>2, InvParts DEF StoreSafe, OpenFiles, Handle
<1>5. Key \in Keys
  BY <1>3, <1>4 DEF Key, Keys
<1>6. NextChunk \in 0..MaxSize /\ NextChunk =< op.end
  <2> DEFINE m == (ChunkBlock + 1) * BlockSize
  <2>1. m \in Nat
    BY <1>3, SizeFacts DEF Blocks
  <2>2. NextChunk = IF m < op.end THEN m ELSE op.end
    BY DEF NextChunk
  <2> HIDE DEF m
  <2> QED BY <1>2, <2>1, <2>2, SizeFacts
<1>7. /\ Target \in Info /\ Target.num =< Len(rows)
      /\ StoreSafe(fh, Placed(op.h, ChunkBlock)) /\ Bounded(Placed(op.h, ChunkBlock))
      /\ InfoSafe(Target, Placed(op.h, ChunkBlock))
  BY <1>2, <1>3, LookupSafe DEF Target
<1>8. StoreSafe(fh, Merged) /\ Bounded(Merged) /\ InfoSafe(Target, Merged)
  <2>1. CASE Merging
    <3>1. Merged = [Placed(op.h, ChunkBlock) EXCEPT ![Target.ref] = Populate(@, Target.num)]
      BY <2>1 DEF Merged
    <3>2. Target.ref # Null /\ DiskSafe
      BY <2>1, InvParts DEF Merging
    <3> QED BY <1>7, <3>1, <3>2, PopulateSafe
  <2>2. CASE ~Merging
    BY <1>7, <2>2 DEF Merged
  <2> QED BY <2>1, <2>2
<1>9. OldUse \in (-MaxUse)..MaxUse
  <2>1. CASE Target.ref = Null
    BY <2>1, NumbersFacts DEF OldUse
  <2>2. CASE Target.ref # Null
    BY <1>7, <1>8, <2>2 DEF OldUse, InfoSafe, Bounded, Info
  <2> QED BY <2>1, <2>2
<1> QED BY <1>1, <1>2, <1>3, <1>5, <1>6, <1>7, <1>8, <1>9

\* The old data cannot be read.
LEMMA InvWriteFails ==
    ASSUME CacheInv, WriteFails
    PROVE  CacheInv'
<1> DEFINE i == [Target EXCEPT !.locked = TRUE]
<1>1. /\ op.kind = "write" /\ heap' = Merged /\ op' = Idle
      /\ fh' = WithInfo(op.h, ChunkBlock, i)
      /\ UNCHANGED <<rows, fileBlocks, fsize, disk, writer, restarts, lost>>
  BY DEF WriteFails
<1>2. /\ op.h \in Handles /\ fh[op.h] # Null /\ ChunkBlock \in Blocks
      /\ Target \in Info /\ Target.num =< Len(rows)
      /\ StoreSafe(fh, Merged) /\ Bounded(Merged) /\ InfoSafe(Target, Merged)
  BY <1>1, ChunkFacts
<1>3. i \in Info /\ i.num = Target.num /\ i.ref = Target.ref
  BY <1>2 DEF Info
<1>4. InfoSafe(i, Merged)
  BY <1>2, <1>3 DEF InfoSafe
<1> HIDE DEF i
<1>5. StoreSafe(fh', heap')
  BY <1>1, <1>2, <1>3, <1>4, InfoChanged
<1>6. NumbersKnown'
  BY <1>1, <1>2, <1>3, NumbersAfterInfo, InvParts DEF T!TypeOK
<1>7. RequestSafe'
  BY <1>1 DEF RequestSafe, Idle
<1> QED BY <1>1, <1>2, <1>5, <1>6, <1>7, SameTables, SameDisk, InvParts, InvPartsNext

\* After the transaction: the tables are as BlockTables left them, the
\* block_info has a row's number and the cache has not followed yet.
LEMMA InvCommitted ==
    ASSUME CacheInv, op.kind = "write",
           T!TypeOK', Len(rows) =< Len(rows'), Len(rows') =< MaxRows, CountsBounded',
           NEW info \in Info, info.num # 0, info.num =< Len(rows'),
           NEW objects, StoreSafe(fh, objects), InfoSafe(info, objects),
           NEW data \in Contents, NEW present \in BOOLEAN,
           Committed(info, objects, data, present)
    PROVE  CacheInv'
<1> DEFINE i == [info EXCEPT !.locked = TRUE]
<1>1. /\ fh' = WithInfo(op.h, ChunkBlock, i)
      /\ heap' = Live(objects, fh')
      /\ op' = [kind |-> "place", h |-> op.h, next |-> NextChunk, end |-> op.end,
                block |-> ChunkBlock, present |-> present, data |-> data]
      /\ UNCHANGED <<fsize, disk, writer, restarts, lost>>
  BY DEF Committed
<1>2. /\ op.h \in Handles /\ fh[op.h] # Null /\ ChunkBlock \in Blocks
      /\ NextChunk \in 0..MaxSize /\ op.end \in 0..MaxSize /\ NextChunk =< op.end
  BY ChunkFacts
<1>3. i \in Info /\ i.num = info.num /\ i.ref = info.ref /\ i # Null
  <2>1. i \in Info /\ i.num = info.num /\ i.ref = info.ref
    BY DEF Info
  <2> QED BY <2>1, NullAssumption
<1>4. InfoSafe(i, objects)
  BY <1>3 DEF InfoSafe
<1> HIDE DEF i
<1>5. /\ StoreSafe(fh', objects)
      /\ fh'[op.h] # Null /\ fh'[op.h].blocks[ChunkBlock] = i
  BY <1>1, <1>2, <1>3, <1>4, InfoChanged
<1>6. StoreSafe(fh', heap')
  BY <1>1, <1>5, LiveSafe
<1>7. Len(rows') \in Nat
  BY DEF T!TypeOK
<1>8. NumbersKnown'
  BY <1>1, <1>2, <1>3, <1>7, NumbersAfterInfo
<1>9. op' \in Place
  BY <1>1, <1>2 DEF Place
<1>10. RequestSafe'
  BY <1>1, <1>2, <1>3, <1>5 DEF RequestSafe
<1>11. Bounded(heap') /\ T!UsesBounded'
  BY DEF CountsBounded, Bounded
<1> QED BY <1>1, <1>6, <1>8, <1>9, <1>10, <1>11, SameDisk, InvParts, InvPartsNext

\* The old block loses a use in memory, the block_info its object.
LEMMA LeftBehind ==
    ASSUME CacheInv, op.kind = "write"
    PROVE  StoreSafe(fh, AddUse(Merged, Target.ref, -1))
<1>1. Target.ref \in Numbers \cup Orphans \cup {Null} /\ StoreSafe(fh, Merged)
  BY ChunkFacts DEF Info
<1> QED BY <1>1, UseTaken

LEMMA InvWritePresent ==
    ASSUME CacheInv, WritePresent
    PROVE  CacheInv'
<1>1. op.kind = "write" /\ CountsBounded'
  BY DEF WritePresent, ChunkReady
<1>2. PICK d \in NewData :
        /\ T!ReplacePresent(Key, d, OldBlock, OldUse)
        /\ Committed([Target EXCEPT !.num = T!IdOf(d), !.hash = d, !.ref = Null],
                     AddUse(Merged, Target.ref, -1), d, TRUE)
  BY DEF WritePresent
<1> DEFINE info == [Target EXCEPT !.num = T!IdOf(d), !.hash = d, !.ref = Null]
<1>3. d \in Contents
  BY DEF NewData
<1>4. Key \in Keys /\ OldUse \in Int /\ Target \in Info /\ T!TypeOK
      /\ Len(rows) =< MaxRows /\ Len(rows) \in Nat
  BY <1>1, ChunkFacts, InvParts DEF T!TypeOK
<1>5. T!TypeOK' /\ Len(rows') = Len(rows) /\ T!IdOf(d) \in 1..Len(rows)
  BY <1>2, <1>3, <1>4, PresentTables
<1>6. T!IdOf(d) \in Numbers /\ T!IdOf(d) # 0 /\ T!IdOf(d) =< Len(rows)
  BY <1>4, <1>5, CacheAssumption DEF Numbers
<1>7. info \in Info /\ info.num = T!IdOf(d) /\ info.ref = Null
  BY <1>3, <1>4, <1>6 DEF Info
<1>8. Committed(info, AddUse(Merged, Target.ref, -1), d, TRUE)
  BY <1>2
<1> HIDE DEF info
<1>9. InfoSafe(info, AddUse(Merged, Target.ref, -1))
  BY <1>7 DEF InfoSafe
<1>10. info.num # 0 /\ info.num =< Len(rows') /\ Len(rows) =< Len(rows') /\ Len(rows') =< MaxRows
  BY <1>4, <1>5, <1>6, <1>7
<1> QED BY <1>1, <1>3, <1>5, <1>7, <1>8, <1>9, <1>10, LeftBehind, InvCommitted

LEMMA InvWriteInsert ==
    ASSUME CacheInv, WriteInsert
    PROVE  CacheInv'
<1>1. op.kind = "write" /\ CountsBounded'
  BY DEF WriteInsert, ChunkReady
<1>2. PICK d \in NewData :
        /\ T!ReplaceInsert(Key, d, OldBlock, OldUse)
        /\ Committed([Target EXCEPT !.num = Len(rows) + 1, !.hash = d, !.ref = Null],
                     AddUse(Merged, Target.ref, -1), d, FALSE)
  BY DEF WriteInsert
<1> DEFINE info == [Target EXCEPT !.num = Len(rows) + 1, !.hash = d, !.ref = Null]
<1>3. d \in Contents
  BY DEF NewData
<1>4. Key \in Keys /\ OldUse \in Int /\ Target \in Info /\ T!TypeOK /\ Len(rows) \in Nat
  BY <1>1, ChunkFacts, InvParts DEF T!TypeOK
<1>5. T!TypeOK' /\ Len(rows') = Len(rows) + 1 /\ Len(rows) < MaxRows
  BY <1>2, <1>3, <1>4, InsertTables
<1>6. Len(rows) + 1 \in Numbers /\ Len(rows) + 1 # 0
  BY <1>4, <1>5, CacheAssumption DEF Numbers
<1>7. info \in Info /\ info.num = Len(rows) + 1 /\ info.ref = Null
  BY <1>3, <1>4, <1>6 DEF Info
<1>8. Committed(info, AddUse(Merged, Target.ref, -1), d, FALSE)
  BY <1>2
<1> HIDE DEF info
<1>9. InfoSafe(info, AddUse(Merged, Target.ref, -1))
  BY <1>7 DEF InfoSafe
<1>10. /\ info.num # 0 /\ info.num =< Len(rows')
       /\ Len(rows) =< Len(rows') /\ Len(rows') =< MaxRows
  BY <1>4, <1>5, <1>6, <1>7, CacheAssumption
<1> QED BY <1>1, <1>3, <1>5, <1>7, <1>8, <1>9, <1>10, LeftBehind, InvCommitted

\* Only a block with a use is overwritten in place, hence never block 0.
LEMMA InPlaceNotZero ==
    ASSUME CacheInv, op.kind = "write", T!InPlaceAllowed(OldBlock, OldUse)
    PROVE  Target.ref # Null /\ OldBlock = Target.num /\ Target.num # 0
<1>1. InfoSafe(Target, Merged)
  BY ChunkFacts
<1>2. Target.ref # Null /\ OldBlock = Target.num /\ OldUse = Merged[Target.ref].use
      /\ OldUse = 1
  BY DEF T!InPlaceAllowed, OldBlock, OldUse
<1> QED BY <1>1, <1>2 DEF InfoSafe

LEMMA InvWriteInPlace ==
    ASSUME CacheInv, WriteInPlace
    PROVE  CacheInv'
<1>1. op.kind = "write" /\ CountsBounded'
  BY DEF WriteInPlace, ChunkReady
<1>2. PICK d \in NewData :
        /\ T!ReplaceInPlace(Key, d, OldBlock, OldUse)
        /\ Committed([Target EXCEPT !.hash = d], Merged, d, FALSE)
  BY DEF WriteInPlace
<1> DEFINE info == [Target EXCEPT !.hash = d]
<1>3. d \in Contents
  BY DEF NewData
<1>4. /\ Key \in Keys /\ OldUse \in Int /\ T!TypeOK
      /\ Len(rows) =< MaxRows /\ Len(rows) \in Nat
      /\ Target \in Info /\ Target.num =< Len(rows)
      /\ StoreSafe(fh, Merged) /\ InfoSafe(Target, Merged)
  BY <1>1, ChunkFacts, InvParts DEF T!TypeOK
<1>5. T!TypeOK' /\ Len(rows') = Len(rows)
  BY <1>2, <1>3, <1>4, InPlaceTables
<1>6. Target.num # 0
  BY <1>1, <1>2, InPlaceNotZero DEF T!ReplaceInPlace
<1>7. info \in Info /\ info.num = Target.num /\ info.ref = Target.ref
  BY <1>3, <1>4 DEF Info
<1>8. Committed(info, Merged, d, FALSE)
  BY <1>2
<1> HIDE DEF info
<1>9. InfoSafe(info, Merged)
  BY <1>4, <1>7 DEF InfoSafe
<1>10. info.num # 0 /\ info.num =< Len(rows') /\ Len(rows) =< Len(rows') /\ Len(rows') =< MaxRows
  BY <1>4, <1>5, <1>6, <1>7
<1> QED BY <1>1, <1>3, <1>4, <1>5, <1>7, <1>8, <1>9, <1>10, InvCommitted

\* What is known between commit and cache update.
LEMMA PlaceFacts ==
    ASSUME CacheInv, op.kind = "place"
    PROVE  /\ op \in Place /\ op.h \in Handles /\ fh[op.h] # Null /\ op.block \in Blocks
           /\ fh[op.h].blocks[op.block] \in Info
           /\ fh[op.h].blocks[op.block].num \in Numbers \ {0}
           /\ fh[op.h].blocks[op.block].num =< Len(rows)
           /\ InfoSafe(fh[op.h].blocks[op.block], heap)
<1>1. op \in Place
  BY InvParts DEF Idle, Hung, Down, Write, Truncate
<1>2. op.h \in Handles /\ op.block \in Blocks
  BY <1>1 DEF Place
<1>3. fh[op.h] # Null /\ fh[op.h].blocks[op.block] # Null
      /\ fh[op.h].blocks[op.block].num # 0
  BY InvParts DEF RequestSafe
<1>4. fh[op.h].blocks[op.block] \in Info
  BY <1>2, <1>3, InvParts DEF StoreSafe, OpenFiles, Handle
<1>5. /\ InfoSafe(fh[op.h].blocks[op.block], heap)
      /\ fh[op.h].blocks[op.block].num =< Len(rows)
  BY <1>2, <1>3, InvParts DEF StoreSafe, RefsSafe, NumbersKnown
<1>6. fh[op.h].blocks[op.block].num \in Numbers
  BY <1>4 DEF Info
<1> QED BY <1>1, <1>2, <1>3, <1>4, <1>5, <1>6

\* The block is done: its block_info is unlocked, the request goes on or ends.
LEMMA UnlockedFacts ==
    ASSUME CacheInv, op.kind = "place", NEW objects, StoreSafe(fh, objects),
           NEW info \in Info, InfoSafe(info, objects), info.num =< Len(rows),
           Unlocked(info)
    PROVE  /\ StoreSafe(fh', objects) /\ NumbersKnown' /\ RequestSafe'
           /\ op' \in {Idle} \cup Write
           /\ T!TypeOK' /\ T!UsesBounded' /\ Len(rows') =< MaxRows
           /\ UNCHANGED <<rows, fsize, disk, writer, restarts>>
<1> DEFINE i == [info EXCEPT !.locked = FALSE]
<1>1. /\ fh' = WithInfo(op.h, op.block, i)
      /\ op' = IF op.next = op.end THEN Idle
               ELSE [kind |-> "write", h |-> op.h, next |-> op.next, end |-> op.end]
      /\ UNCHANGED <<rows, fileBlocks, fsize, disk, writer, restarts>>
  BY DEF Unlocked
<1>2. /\ op \in Place /\ op.h \in Handles /\ fh[op.h] # Null /\ op.block \in Blocks
      /\ op.next =< op.end
  BY PlaceFacts, InvParts DEF RequestSafe
<1>3. i \in Info /\ i.num = info.num /\ i.ref = info.ref
  BY DEF Info
<1>4. InfoSafe(i, objects)
  BY <1>3 DEF InfoSafe
<1> HIDE DEF i
<1>5. StoreSafe(fh', objects) /\ fh'[op.h] # Null
  BY <1>1, <1>2, <1>3, <1>4, InfoChanged
<1>6. Len(rows) \in Nat /\ UNCHANGED rows
  BY <1>1, InvParts DEF T!TypeOK
<1>7. NumbersKnown'
  BY <1>1, <1>2, <1>3, <1>6, NumbersAfterInfo
<1>8. /\ op.next \in 0..MaxSize /\ op.end \in 0..MaxSize
  BY <1>2 DEF Place
<1>9. op' \in {Idle} \cup Write /\ RequestSafe'
  <2>1. CASE op.next = op.end
    BY <1>1, <2>1 DEF Idle, RequestSafe
  <2>2. CASE op.next # op.end
    <3>1. op.next < op.end
      BY <1>2, <1>8, <2>2, SizeFacts
    <3> QED BY <1>1, <1>2, <1>5, <1>8, <2>2, <3>1 DEF Write, RequestSafe
  <2> QED BY <2>1, <2>2
<1> QED BY <1>1, <1>5, <1>7, <1>9, SameTables

LEMMA InvPlacePresent ==
    ASSUME CacheInv, PlacePresent
    PROVE  CacheInv'
<1> DEFINE i == fh[op.h].blocks[op.block]
<1>1. /\ op.kind = "place" /\ heap' = AddUse(heap, i.num, 1) /\ Unlocked(i)
      /\ CountsBounded' /\ UNCHANGED lost
  BY DEF PlacePresent
<1>2. i \in Info /\ i.num \in Numbers \ {0} /\ i.num =< Len(rows) /\ InfoSafe(i, heap)
  BY <1>1, PlaceFacts
<1> HIDE DEF i
<1>3. StoreSafe(fh, heap')
  BY <1>1, <1>2, InvParts, UseAdded
<1>4. InfoSafe(i, heap')
  <2>1. i.ref # Null => i.ref \in Numbers \cup Orphans /\ heap[i.ref] \in Item
    BY <1>2, InvParts DEF Info, InfoSafe, StoreSafe, Objects
  <2>2. heap \in Objects /\ heap' \in Objects
    BY <1>3, InvParts DEF StoreSafe
  <2>3. \A n \in Numbers \cup Orphans : heap[n] # Null => heap'[n] # Null
    BY <1>1, <1>2, <2>2, NullAssumption DEF AddUse, Objects, Item
  <2> QED BY <1>2, <2>1, <2>3 DEF InfoSafe
<1>5. /\ StoreSafe(fh', heap') /\ NumbersKnown' /\ RequestSafe'
      /\ op' \in {Idle} \cup Write
      /\ T!TypeOK' /\ T!UsesBounded' /\ Len(rows') =< MaxRows
      /\ UNCHANGED <<rows, fsize, disk, writer, restarts>>
  BY <1>1, <1>2, <1>3, <1>4, UnlockedFacts
<1>6. Bounded(heap')
  BY <1>1 DEF CountsBounded, Bounded
<1> QED BY <1>1, <1>5, <1>6, SameDisk, InvParts, InvPartsNext

LEMMA InvPlaceData ==
    ASSUME CacheInv, PlaceData
    PROVE  CacheInv'
<1> DEFINE old == fh[op.h].blocks[op.block]
           i == [old EXCEPT !.ref = old.num]
           item == [use |-> 1, data |-> op.data, dirty |-> TRUE]
           objects == [heap EXCEPT ![old.num] = item]
<1>1. /\ op.kind = "place" /\ Unlocked(i)
      /\ heap' = Live(objects, fh') /\ lost' = lost \ {old.num}
  BY DEF PlaceData
<1>2. /\ op \in Place /\ old \in Info /\ old.num \in Numbers \ {0} /\ old.num =< Len(rows)
  BY <1>1, PlaceFacts
<1>3. item \in Item
  BY <1>2 DEF Item, Place
<1>4. item.use \in (-MaxUse)..MaxUse /\ item # Null
  BY <1>3, NumbersFacts, NullAssumption
<1>5. i \in Info /\ i.num = old.num /\ i.ref = old.num
  BY <1>2 DEF Info
<1> HIDE DEF old, i, item
<1>6. StoreSafe(fh, objects) /\ Bounded(objects)
  BY <1>2, <1>3, <1>4, InvParts, ObjectChanged
<1>7. objects[old.num] = item
  BY <1>2, InvParts DEF StoreSafe, Objects
<1> HIDE DEF objects
<1>8. InfoSafe(i, objects)
  BY <1>2, <1>4, <1>5, <1>7 DEF InfoSafe
<1>9. /\ StoreSafe(fh', objects) /\ NumbersKnown' /\ RequestSafe'
      /\ op' \in {Idle} \cup Write
      /\ T!TypeOK' /\ T!UsesBounded' /\ Len(rows') =< MaxRows
      /\ UNCHANGED <<rows, fsize, disk, writer, restarts>>
  BY <1>1, <1>2, <1>5, <1>6, <1>8, UnlockedFacts
<1>10. StoreSafe(fh', heap') /\ Bounded(heap')
  BY <1>1, <1>6, <1>9, LiveSafe
<1> QED BY <1>1, <1>9, <1>10, SameDisk, InvParts, InvPartsNext

----------------------------------------------------------------------------
(* Truncating *)

LEMMA TruncateFacts ==
    ASSUME CacheInv, op.kind = "truncate"
    PROVE  /\ op \in Truncate /\ op.h \in Handles /\ fh[op.h] # Null
           /\ op.size \in 0..MaxSize
           /\ op.next < op.end => op.next \in Blocks /\ <<fh[op.h].file, op.next>> \in Keys
<1>1. op \in Truncate
  BY InvParts DEF Idle, Hung, Down, Write, Place
<1>2. op.h \in Handles /\ op.size \in 0..MaxSize /\ fh[op.h] # Null
      /\ op.next \in 0..NumBlocks /\ op.end \in 0..NumBlocks
  BY <1>1, InvParts DEF Truncate, RequestSafe
<1>3. fh[op.h].file \in Files
  BY <1>2, InvParts DEF StoreSafe, OpenFiles, Handle
<1>4. op.next < op.end => op.next \in Blocks
  BY <1>2, SizeFacts DEF Blocks
<1> QED BY <1>1, <1>2, <1>3, <1>4 DEF Keys

LEMMA InvTruncateBlock ==
    ASSUME CacheInv, TruncateBlock
    PROVE  CacheInv'
<1> DEFINE i == InfoOf(op.h, op.next)
           objects == IF i.num = 0 THEN heap ELSE AddUse(heap, i.num, -1)
<1>1. /\ op.kind = "truncate" /\ op.next < op.end
      /\ T!Release(<<fh[op.h].file, op.next>>, i.hash)
      /\ fh' = WithInfo(op.h, op.next, Null)
      /\ heap' = Live(objects, fh')
      /\ op' = [op EXCEPT !.next = @ + 1]
      /\ CountsBounded' /\ UNCHANGED <<fsize, disk, writer, restarts, lost>>
  BY DEF TruncateBlock, Truncating
<1>2. /\ op \in Truncate /\ op.h \in Handles /\ fh[op.h] # Null
      /\ op.next \in Blocks /\ <<fh[op.h].file, op.next>> \in Keys
  BY <1>1, TruncateFacts
<1>3. i \in Info /\ i.num \in Numbers
  BY <1>2, LookupSafe DEF Info
<1> HIDE DEF i
<1>4. StoreSafe(fh, objects)
  BY <1>3, InvParts, UseTaken
<1> HIDE DEF objects
<1>5. StoreSafe(fh', objects) /\ fh'[op.h] # Null
  BY <1>1, <1>2, <1>4, InfoChanged
<1>6. StoreSafe(fh', heap')
  BY <1>1, <1>5, LiveSafe
<1>7. T!TypeOK' /\ Len(rows') = Len(rows) /\ Len(rows) \in Nat /\ Len(rows) =< MaxRows
  BY <1>1, <1>2, InvParts, ReleaseTables DEF T!TypeOK
<1>8. NumbersKnown'
  BY <1>1, <1>2, <1>7, NumbersAfterInfo
<1>9. op' \in Truncate /\ op'.h = op.h /\ op'.kind = "truncate"
  BY <1>1, <1>2, SizeFacts DEF Truncate, Blocks
<1>10. RequestSafe'
  BY <1>5, <1>9 DEF RequestSafe
<1>11. Bounded(heap') /\ T!UsesBounded'
  BY <1>1 DEF CountsBounded, Bounded
<1> QED BY <1>1, <1>6, <1>7, <1>8, <1>9, <1>10, <1>11, SameDisk, InvParts, InvPartsNext

LEMMA InvTruncateEnd ==
    ASSUME CacheInv, TruncateEnd
    PROVE  CacheInv'
<1>1. /\ op.kind = "truncate" /\ op' = Idle
      /\ fsize' = SetSize(op.h, op.size) /\ fh' = [fh EXCEPT ![op.h].size = op.size]
      /\ UNCHANGED <<rows, fileBlocks, disk, heap, writer, restarts, lost>>
  BY DEF TruncateEnd
<1>2. op.h \in Handles /\ fh[op.h] # Null /\ op.size \in 0..MaxSize
  BY <1>1, TruncateFacts
<1>3. fsize' \in [Files -> 0..MaxSize]
  BY <1>1, <1>2, SetSizeFacts
<1>4. StoreSafe(fh', heap) /\ NumbersKnown'
  BY <1>1, <1>2, SizeChanged
<1>5. RequestSafe'
  BY <1>1 DEF RequestSafe, Idle
<1> QED BY <1>1, <1>3, <1>4, <1>5, SameTables, SameDisk, InvParts, InvPartsNext

----------------------------------------------------------------------------
(* The writer thread *)

\* Flushing an object writes only committed data, and never block 0.
LEMMA FlushedSafe ==
    ASSUME CacheInv, NEW n \in Numbers, heap[n] # Null, Flushed(n)
    PROVE  StoreSafe(fh, heap') /\ Bounded(heap') /\ DiskSafe'
<1> DEFINE item == [heap[n] EXCEPT !.dirty = FALSE]
<1>1. /\ disk' = IF heap[n].dirty THEN [disk EXCEPT ![n] = heap[n].data] ELSE disk
      /\ heap' = [heap EXCEPT ![n] = item]
  BY DEF Flushed
<1>2. heap \in Objects /\ heap[n] \in Item /\ DiskSafe
      /\ (n = 0 => ~heap[n].dirty /\ heap[n].data = Null /\ heap[n].use =< 0)
      /\ heap[n].use \in (-MaxUse)..MaxUse
  BY InvParts DEF StoreSafe, Objects, BlockZeroUnused, Bounded
<1>3. item \in Item /\ item.use = heap[n].use /\ item.data = heap[n].data /\ ~item.dirty
  BY <1>2 DEF Item
<1> HIDE DEF item
<1>4. StoreSafe(fh, heap') /\ Bounded(heap')
  BY <1>1, <1>2, <1>3, InvParts, ObjectChanged
<1>5. DiskSafe'
  <2>1. CASE heap[n].dirty
    <3>1. heap[n].data \in Contents \cup {Null} /\ heap[n].data # Signature /\ n # 0
      BY <1>2, <2>1, NullAssumption DEF Item
    <3> QED BY <1>1, <1>2, <2>1, <3>1 DEF DiskSafe, SignatureOnlyInZero
  <2>2. CASE ~heap[n].dirty
    BY <1>1, <1>2, <2>2 DEF DiskSafe, SignatureOnlyInZero
  <2> QED BY <2>1, <2>2
<1> QED BY <1>4, <1>5

LEMMA InvWriterFlushes ==
    ASSUME CacheInv, NEW n \in Numbers, WriterFlushes(n)
    PROVE  CacheInv'
<1>1. /\ heap[n] # Null /\ Flushed(n)
      /\ UNCHANGED <<rows, fileBlocks, fsize, fh, op, writer, restarts, lost>>
  BY DEF WriterFlushes
<1>2. NumbersKnown' /\ RequestSafe'
  BY <1>1, InvParts DEF NumbersKnown, RequestSafe
<1> QED BY <1>1, <1>2, FlushedSafe, SameTables, InvParts, InvPartsNext

LEMMA InvWriterPicks ==
    ASSUME CacheInv, NEW n \in Numbers, WriterPicks(n)
    PROVE  CacheInv'
<1>1. /\ heap[n] # Null /\ Flushed(n)
      /\ writer' = [writer EXCEPT !.victims = @ \cup {n}]
      /\ UNCHANGED <<rows, fileBlocks, fsize, fh, op, restarts, lost>>
  BY DEF WriterPicks
<1>2. NumbersKnown' /\ RequestSafe'
  BY <1>1, InvParts DEF NumbersKnown, RequestSafe
<1>3. writer' \in Writer
  BY <1>1, InvParts DEF Writer
<1> QED BY <1>1, <1>2, <1>3, FlushedSafe, SameTables, InvParts, InvPartsNext

\* The steps that only move the writer on.
LEMMA InvWriterMoves ==
    ASSUME CacheInv, WriterEvicts \/ WriterEndsPick \/ WriterEndsErase
    PROVE  CacheInv'
<1>1. UNCHANGED <<rows, fileBlocks, fsize, disk, heap, fh, op, restarts, lost>>
  BY DEF WriterEvicts, WriterEndsPick, WriterEndsErase
<1>2. writer' \in Writer
  BY InvParts DEF WriterEvicts, WriterEndsPick, WriterEndsErase, Writer, Flushing
<1>3. NumbersKnown' /\ RequestSafe'
  BY <1>1, InvParts DEF NumbersKnown, RequestSafe
<1> QED BY <1>1, <1>2, <1>3, SameTables, SameDisk, InvParts, InvPartsNext

\* Handles and requests do not notice where a weak_ptr points.
LEMMA RedirectRest ==
    ASSUME CacheInv, NEW n, NEW m \in Orphans \cup {Null}, fh' = Redirect(fh, n, m),
           UNCHANGED <<rows, op>>
    PROVE  NumbersKnown' /\ RequestSafe'
<1>1. fh \in OpenFiles
  BY InvParts DEF StoreSafe
<1>2. NumbersKnown'
  BY <1>1, InvParts, RedirectFacts DEF NumbersKnown
<1>3. CASE op.kind \in {"write", "truncate"}
  <2>1. op.h \in Handles
    BY <1>3, ChunkFacts, TruncateFacts
  <2> QED BY <1>1, <1>2, <1>3, <2>1, InvParts, RedirectFacts DEF RequestSafe
<1>4. CASE op.kind = "place"
  <2>1. op.h \in Handles /\ op.block \in Blocks
    BY <1>4, PlaceFacts
  <2> QED BY <1>1, <1>2, <1>4, <2>1, InvParts, RedirectFacts DEF RequestSafe
<1>5. CASE op.kind \notin {"write", "place", "truncate"}
  BY <1>2, <1>5 DEF RequestSafe
<1> QED BY <1>3, <1>4, <1>5

LEMMA InvWriterErases ==
    ASSUME CacheInv, NEW n \in Numbers, WriterErases(n)
    PROVE  CacheInv'
<1>1. /\ lost' = IF heap[n].dirty THEN lost \cup {n} ELSE lost
      /\ writer' = [writer EXCEPT !.victims = @ \ {n}]
      /\ UNCHANGED <<rows, fileBlocks, fsize, disk, op, restarts>>
  BY DEF WriterErases
<1>2. writer' \in Writer /\ lost' \subseteq Numbers
  BY <1>1, InvParts DEF Writer
<1>3. StoreSafe(fh', heap') /\ Bounded(heap') /\ NumbersKnown' /\ RequestSafe'
  <2>1. CASE \E o \in Orphans : /\ heap[o] = Null /\ Refers(fh, n)
                                /\ fh' = Redirect(fh, n, o)
                                /\ heap' = [heap EXCEPT ![o] = heap[n], ![n] = Null]
    <3>1. heap[n] # Null
      <4>1. PICK h \in Handles, b \in Blocks :
              fh[h] # Null /\ fh[h].blocks[b] # Null /\ fh[h].blocks[b].ref = n
        BY <2>1 DEF Refers
      <4> QED BY <4>1, InvParts, NumbersFacts DEF StoreSafe, RefsSafe, InfoSafe
    <3>2. PICK o \in Orphans : /\ heap[o] = Null
                               /\ fh' = Redirect(fh, n, o)
                               /\ heap' = [heap EXCEPT ![o] = heap[n], ![n] = Null]
      BY <2>1
    <3>3. StoreSafe(fh', heap') /\ Bounded(heap')
      BY <3>1, <3>2, InvParts, ErasedReachable
    <3>4. NumbersKnown' /\ RequestSafe'
      BY <1>1, <3>2, RedirectRest
    <3> QED BY <3>3, <3>4
  <2>2. CASE fh' = Redirect(fh, n, Null) /\ heap' = [heap EXCEPT ![n] = Null]
    BY <1>1, <2>2, InvParts, ObjectGone, RedirectRest
  <2> QED BY <2>1, <2>2 DEF WriterErases
<1> QED BY <1>1, <1>2, <1>3, SameTables, SameDisk, InvParts, InvPartsNext

LEMMA InvReclaim ==
    ASSUME CacheInv, NEW o \in Orphans, Reclaim(o)
    PROVE  CacheInv'
<1>1. /\ heap' = [heap EXCEPT ![o] = Null] /\ fh' = Redirect(fh, o, Null)
      /\ UNCHANGED <<rows, fileBlocks, fsize, disk, op, writer, restarts, lost>>
  BY DEF Reclaim
<1>2. StoreSafe(fh', heap') /\ Bounded(heap') /\ NumbersKnown' /\ RequestSafe'
  BY <1>1, InvParts, ObjectGone, RedirectRest
<1> QED BY <1>1, <1>2, SameTables, SameDisk, InvParts, InvPartsNext

----------------------------------------------------------------------------
(* The process *)

LEMMA InvDies ==
    ASSUME CacheInv, Dies
    PROVE  CacheInv'
<1>1. /\ op' = Down /\ writer' = Flushing
      /\ heap' = [n \in DOMAIN heap |-> Null] /\ fh' = [h \in Handles |-> Null]
      /\ lost' = lost \cup Unwritten
      /\ UNCHANGED <<rows, fileBlocks, fsize, disk, restarts>>
  BY DEF Dies
<1>2. DOMAIN heap = Numbers \cup Orphans
  BY InvParts DEF StoreSafe, Objects
<1>3. StoreSafe(fh', heap') /\ Bounded(heap') /\ NumbersKnown'
  BY <1>1, <1>2, NumbersFacts
     DEF StoreSafe, OpenFiles, Objects, BlockZeroUnused, RefsSafe, Bounded, NumbersKnown
<1>4. lost' \subseteq Numbers
  <2>1. op.kind = "place" => fh[op.h].blocks[op.block].num \in Numbers
    BY PlaceFacts
  <2> QED BY <1>1, <2>1, InvParts DEF Unwritten, Cached
<1>5. RequestSafe' /\ writer' \in Writer
  BY <1>1 DEF RequestSafe, Down, Writer, Flushing
<1> QED BY <1>1, <1>3, <1>4, <1>5, SameTables, SameDisk, InvParts, InvPartsNext

LEMMA InvRestart ==
    ASSUME CacheInv, Restart
    PROVE  CacheInv'
<1>1. /\ op' = Idle /\ restarts < MaxRestarts /\ restarts' = restarts + 1
      /\ UNCHANGED <<rows, fileBlocks, fsize, disk, heap, fh, writer, lost>>
  BY DEF Restart
<1>2. RequestSafe' /\ NumbersKnown'
  BY <1>1, InvParts DEF RequestSafe, NumbersKnown, Idle
<1>3. restarts' \in 0..MaxRestarts
  BY <1>1, InvParts, CacheAssumption
<1> QED BY <1>1, <1>2, <1>3, SameTables, SameDisk, InvParts, InvPartsNext
----------------------------------------------------------------------------

LEMMA InvInit == Init => CacheInv
<1> SUFFICES ASSUME Init PROVE CacheInv
  OBVIOUS
<1>1. T!TypeOK /\ Len(rows) =< MaxRows /\ T!UsesBounded
  BY CacheAssumption DEF Init, T!Init, T!TypeOK, T!UsesBounded
<1>2. fsize \in [Files -> 0..MaxSize]
  BY SizeFacts DEF Init
<1>3. DiskSafe
  BY NumbersFacts, NullAssumption DEF Init, DiskSafe, SignatureOnlyInZero
<1>4. StoreSafe(fh, heap) /\ Bounded(heap) /\ NumbersKnown
  BY NumbersFacts
     DEF Init, StoreSafe, OpenFiles, Objects, BlockZeroUnused, RefsSafe, Bounded, NumbersKnown
<1>5. /\ op = Idle /\ RequestSafe /\ writer \in Writer
      /\ restarts \in 0..MaxRestarts /\ lost \subseteq Numbers
  BY CacheAssumption DEF Init, RequestSafe, Idle, Writer, Flushing
<1> QED BY <1>1, <1>2, <1>3, <1>4, <1>5, InvParts

\* Every action preserves CacheInv.
LEMMA InvStep == CacheInv /\ [Next]_vars => CacheInv'
<1> SUFFICES ASSUME CacheInv, [Next]_vars PROVE CacheInv'
  OBVIOUS
<1>1. CASE Request
  BY <1>1, InvOpen, InvRelease, InvRead, InvHang, InvWriteBuf, InvExtend, InvTruncateBegin
     DEF Request
<1>2. CASE WriteStep
  BY <1>2, InvWritePresent, InvWriteInPlace, InvWriteInsert, InvWriteFails,
     InvPlacePresent, InvPlaceData DEF WriteStep
<1>3. CASE TruncateStep
  BY <1>3, InvTruncateBlock, InvTruncateEnd DEF TruncateStep
<1>4. CASE WriterStep
  BY <1>4, InvWriterFlushes, InvWriterPicks, InvWriterMoves, InvWriterErases, InvReclaim
     DEF WriterStep
<1>5. CASE TruncateHole \/ Crash
  BY <1>5, InvDies DEF TruncateHole, Crash
<1>6. CASE Restart
  BY <1>6, InvRestart
<1>7. CASE UNCHANGED vars
  <2>1. NumbersKnown' /\ RequestSafe' /\ UNCHANGED vars
    BY <1>7, InvParts DEF vars, NumbersKnown, RequestSafe
  <2> QED BY <2>1, SameTables, SameDisk, InvParts, InvPartsNext DEF vars
<1> QED BY <1>1, <1>2, <1>3, <1>4, <1>5, <1>6, <1>7 DEF Next

\* Whatever evictions, crashes and handles of the same file do, a weak_ptr reaches
\* the object of its block_info's number or one that was evicted, the object of
\* block 0 has no users and no data, and a request at work has its handle and row.
THEOREM CacheInvariant == Spec => []CacheInv
  BY InvInit, InvStep, PTL DEF Spec

\* Numbers, counts, references and requests stay within their types and bounds.
THEOREM CacheTyped == Spec => []TypeOK
<1>1. CacheInv => TypeOK
  BY DEF CacheInv
<1> QED BY <1>1, CacheInvariant, PTL

\* Nothing ever overwrites the signature in block 0 of the storage file,
\* although a reference without a row loads as block 0 and its object is placed,
\* counted, flushed and evicted like any other: without it the file system
\* could not be mounted again.
THEOREM SignatureSurvives == Spec => []SignatureSafe
<1>1. CacheInv => SignatureSafe
  BY NumbersFacts DEF CacheInv, SignatureSafe, SignatureOnlyInZero, BlockZeroUnused
<1> QED BY <1>1, CacheInvariant, PTL

----------------------------------------------------------------------------
(* The cache implements BlockTables *)

\* What the cache passes to replaceStorageBlock: no storage block and no use,
\* one that exists, or block 0 with a count other than 1.
LEMMA CacheHolds ==
    ASSUME CacheInv, op.kind = "write"
    PROVE  /\ T!CallerHolds(OldBlock, OldUse)
           /\ OldBlock \in (0..MaxRows) \cup {Null}
           /\ OldUse \in (-MaxUse)..MaxUse
<1>1. /\ Target \in Info /\ Target.num =< Len(rows) /\ InfoSafe(Target, Merged)
      /\ OldUse \in (-MaxUse)..MaxUse /\ Len(rows) \in Nat
  BY ChunkFacts, InvParts DEF T!TypeOK
<1>2. Target.num \in 0..MaxRows
  BY <1>1 DEF Info, Numbers
<1>3. CASE Target.ref = Null
  BY <1>1, <1>3 DEF OldBlock, OldUse, T!CallerHolds
<1>4. CASE Target.ref # Null
  <2>1. OldBlock = Target.num /\ OldUse = Merged[Target.ref].use
    BY <1>4 DEF OldBlock, OldUse
  <2>2. CASE Target.num = 0
    <3>1. Merged[Target.ref].use =< 0
      BY <1>1, <1>4, <2>2 DEF InfoSafe
    <3>2. OldUse # 1
      BY <2>1, <3>1
    <3> QED BY <1>1, <1>2, <2>1, <2>2, <3>2 DEF T!CallerHolds
  <2>3. CASE Target.num # 0
    <3>1. Target.num \in 1..Len(rows)
      BY <1>1, <1>2, <2>3
    <3> QED BY <1>1, <1>2, <2>1, <3>1 DEF T!CallerHolds
  <2> QED BY <2>2, <2>3
<1> QED BY <1>3, <1>4

LEMMA TablesStep ==
    ASSUME CacheInv, [Next]_vars
    PROVE  [T!Next]_tvars
<1>1. ASSUME WritePresent \/ WriteInPlace \/ WriteInsert
      PROVE  T!Next
  <2>1. op.kind = "write" /\ T!UsesBounded'
    BY <1>1 DEF WritePresent, WriteInPlace, WriteInsert, ChunkReady, CountsBounded
  <2>2. Key \in Keys
    BY <2>1, ChunkFacts
  <2>3. \E d \in Contents : T!Replace(Key, d, OldBlock, OldUse)
    BY <1>1 DEF WritePresent, WriteInPlace, WriteInsert, NewData, T!Replace
  <2> QED BY <2>1, <2>2, <2>3, CacheHolds DEF T!Next
<1>2. ASSUME TruncateBlock
      PROVE  T!Next
  <2> DEFINE i == InfoOf(op.h, op.next)
             k == <<fh[op.h].file, op.next>>
  <2>1. /\ op.kind = "truncate" /\ op.next < op.end /\ i.hash # Null
        /\ T!Release(k, i.hash) /\ T!UsesBounded'
    BY <1>2 DEF TruncateBlock, Truncating, CountsBounded
  <2>2. op.h \in Handles /\ fh[op.h] # Null /\ op.next \in Blocks /\ k \in Keys
    BY <2>1, TruncateFacts
  <2>3. i \in Info
    BY <2>2, LookupSafe
  <2> HIDE DEF i, k
  <2>4. i.hash \in Contents \cup {EmptyBlob}
    BY <2>1, <2>3 DEF Info
  <2> QED BY <2>1, <2>2, <2>4 DEF T!Next
<1>3. CASE Request \/ WriterStep \/ TruncateHole \/ Crash \/ Restart \/ UNCHANGED vars
  <2>1. UNCHANGED tvars
    BY <1>3 DEF Request, Open, T!Next, Release, Read, Hang, WriteBuf, Extend, TruncateBegin,
        WriterStep, WriterFlushes, WriterEvicts, WriterPicks, WriterEndsPick, WriterErases,
        WriterEndsErase, Reclaim, TruncateHole, Crash, Dies, Restart, vars, tvars
  <2> QED BY <2>1
<1>4. CASE WriteFails \/ PlacePresent \/ PlaceData \/ TruncateEnd
  BY <1>4 DEF WriteFails, PlacePresent, PlaceData, Unlocked, TruncateEnd, tvars
<1> QED BY <1>1, <1>2, <1>3, <1>4 DEF Next, WriteStep, TruncateStep

\* The tables only change by transactions of BlockTables, whatever the writer, a
\* crash or a stale handle has done to the counts in memory.
THEOREM CacheImplementsTables == Spec => TablesSpec
<1>1. Init => T!Init
  BY DEF Init
<1>2. CacheInv /\ [Next]_vars => [T!Next]_tvars
  BY TablesStep
<1>3. CacheInv /\ [Next]_vars => [T!Next]_T!tvars
  BY <1>2 DEF tvars, T!tvars
<1> QED BY <1>1, <1>3, CacheInvariant, PTL DEF Spec, TablesSpec, T!Spec

\* The two instances of BlockTables are one specification.
LEMMA SameTablesSpec == TablesSpec => TP!Spec
<1>1. T!Init => TP!Init
  BY DEF T!Init, TP!Init
<1>2. [T!Next]_T!tvars => [TP!Next]_TP!tvars
  BY DEF T!Next, TP!Next, T!tvars, TP!tvars, T!CallerHolds, TP!CallerHolds,
         T!Replace, TP!Replace, T!ReplacePresent, TP!ReplacePresent,
         T!ReplaceInPlace, TP!ReplaceInPlace, T!ReplaceInsert, TP!ReplaceInsert,
         T!Release, TP!Release, T!DecreaseUse, TP!DecreaseUse, T!Present, TP!Present,
         T!SetUse, TP!SetUse, T!SetHash, TP!SetHash, T!IdOf, TP!IdOf,
         T!InPlaceAllowed, TP!InPlaceAllowed, T!UsesBounded, TP!UsesBounded
<1> QED BY <1>1, <1>2, PTL DEF TablesSpec, T!Spec, TP!Spec

\* In the running cache no hash ever gets two storage blocks: two files with
\* the same content always meet in one row.
THEOREM CacheNeverSplits == Spec => []T!UniqueHash
<1>1. TP!UniqueHash => T!UniqueHash
  BY DEF TP!UniqueHash, T!UniqueHash
<1>2. TablesSpec => []TP!UniqueHash
  BY SameTablesSpec, TablesAssumed, TP!NoTwoBlocksOfOneHash, PTL
<1> QED BY <1>1, <1>2, CacheImplementsTables, PTL

----------------------------------------------------------------------------
(* Rows within the size of their file, through evictions and crashes       *)
(* inside writes and truncates, as long as a file has one handle at a time *)

\* The handles of a file agree with its row.
HandlesAgree ==
    /\ \A g, h \in Handles :
          fh[g] # Null /\ fh[h] # Null /\ fh[g].file = fh[h].file => g = h
    /\ \A h \in Handles : fh[h] # Null => fh[h].size = fsize[fh[h].file]

\* A write stays within the size it has extended the file to.
WriteFits == op.kind \in {"write", "place"} => op.end =< fh[op.h].size

\* A truncate has released what lies between the new size and where it has come.
TruncateFits ==
    op.kind = "truncate" =>
        /\ op.size < fh[op.h].size /\ op.end = BlocksFor(fh[op.h].size)
        /\ \A b \in Blocks : BlocksFor(op.size) =< b /\ b < op.next
                               => fileBlocks[<<fh[op.h].file, b>>] = Null

SizeInv == HandlesAgree /\ WriteFits /\ TruncateFits /\ RowsWithinSize

\* The handles are open on the same files, with the same sizes.
SameHandles(files) ==
    \A h \in Handles :
        /\ files[h] = Null <=> fh[h] = Null
        /\ fh[h] # Null => files[h].file = fh[h].file /\ files[h].size = fh[h].size

----------------------------------------------------------------------------
(* Blocks and sizes; handles.                                              *)

\* The blocks of a file of size n.
LEMMA BlocksWithin ==
    ASSUME NEW n \in 0..MaxSize, NEW b \in Blocks
    PROVE  b * BlockSize < n <=> b < BlocksFor(n)
<1> DEFINE m == n + BlockSize - 1
           q == m \div BlockSize
<1>1. n \in Nat /\ b \in Nat /\ BlockSize \in Nat /\ BlockSize > 0 /\ m \in Nat
  BY SizeFacts DEF Blocks
<1> HIDE DEF m
<1>2. q \in Int /\ q * BlockSize =< m /\ m < (q + 1) * BlockSize
  BY <1>1, SizeFacts
<1> HIDE DEF q
<1>3. b * BlockSize \in Int /\ q * BlockSize \in Int
      /\ (q + 1) * BlockSize = q * BlockSize + BlockSize
  BY <1>1, <1>2
<1>4. ASSUME b < q PROVE b * BlockSize < n
  <2>1. b * BlockSize + BlockSize =< q * BlockSize
    BY <1>1, <1>2, <1>4
  <2>2. b * BlockSize + BlockSize =< n + BlockSize - 1
    BY <1>1, <1>2, <1>3, <2>1 DEF m
  <2> QED BY <1>1, <1>3, <2>2
<1>5. ASSUME ~(b < q) PROVE ~(b * BlockSize < n)
  <2>1. q * BlockSize =< b * BlockSize
    BY <1>1, <1>2, <1>5
  <2>2. n + BlockSize - 1 < q * BlockSize + BlockSize
    BY <1>1, <1>2, <1>3 DEF m
  <2> QED BY <1>1, <1>3, <2>1, <2>2
<1>6. BlocksFor(n) = q
  BY DEF BlocksFor, m, q
<1> QED BY <1>4, <1>5, <1>6

LEMMA HandleTyped ==
    ASSUME CacheInv, NEW h \in Handles, fh[h] # Null
    PROVE  fh \in OpenFiles /\ fh[h] \in Handle /\ fh[h].file \in Files /\ fh[h].size \in 0..MaxSize
  BY InvParts DEF StoreSafe, OpenFiles, Handle

LEMMA OneInfoChanges ==
    ASSUME CacheInv, NEW h \in Handles, fh[h] # Null, NEW b \in Blocks,
           NEW i \in Info \cup {Null}
    PROVE  SameHandles(WithInfo(h, b, i))
<1> DEFINE blocks == [fh[h].blocks EXCEPT ![b] = i]
           file == [fh[h] EXCEPT !.blocks = blocks]
<1>1. fh \in OpenFiles /\ fh[h] \in Handle
  BY HandleTyped
<1>2. WithInfo(h, b, i) = [fh EXCEPT ![h] = file]
  BY <1>1 DEF WithInfo, OpenFiles, Handle
<1>3. file \in Handle /\ file.file = fh[h].file /\ file.size = fh[h].size
  BY <1>1 DEF Handle
<1>4. file # Null
  BY <1>3, NullAssumption
<1> HIDE DEF file
<1> QED BY <1>1, <1>2, <1>3, <1>4 DEF SameHandles, OpenFiles

LEMMA RedirectKeepsHandles ==
    ASSUME CacheInv, NEW n, NEW m \in Orphans \cup {Null}
    PROVE  SameHandles(Redirect(fh, n, m))
<1>1. fh \in OpenFiles
  BY InvParts DEF StoreSafe
<1>2. \A h \in Handles : Redirect(fh, n, m)[h] = Null <=> fh[h] = Null
  BY <1>1, RedirectFacts
<1>3. ASSUME NEW h \in Handles, fh[h] # Null
      PROVE  /\ Redirect(fh, n, m)[h].file = fh[h].file
             /\ Redirect(fh, n, m)[h].size = fh[h].size
  BY <1>1, <1>3 DEF Redirect, OpenFiles, Handle
<1> QED BY <1>2, <1>3 DEF SameHandles

\* A step that opens and closes no handle, resizes nothing and leaves the request
\* where it is, or ends it.
LEMMA SizesKept ==
    ASSUME CacheInv, SizeInv, SameHandles(fh'), UNCHANGED <<fileBlocks, fsize>>,
           op' = op \/ op' \in {Idle, Hung}
    PROVE  SizeInv'
<1>1. HandlesAgree' /\ RowsWithinSize'
  BY DEF SizeInv, HandlesAgree, RowsWithinSize, SameHandles
<1>2. op.kind = "write" \/ op.kind = "place" \/ op.kind = "truncate"
        => op.h \in Handles /\ fh[op.h] # Null
  BY ChunkFacts, PlaceFacts, TruncateFacts
<1>3. CASE op' = op
  BY <1>1, <1>2, <1>3 DEF SizeInv, WriteFits, TruncateFits, SameHandles
<1>4. CASE op' \in {Idle, Hung}
  BY <1>1, <1>4 DEF SizeInv, WriteFits, TruncateFits, Idle, Hung
<1> QED BY <1>3, <1>4

\* ftruncate, and the handle's size: they go on agreeing.
LEMMA Resized ==
    ASSUME CacheInv, SizeInv, NEW h \in Handles, fh[h] # Null, NEW n \in 0..MaxSize,
           fsize' = SetSize(h, n), fh' = [fh EXCEPT ![h].size = n]
    PROVE  /\ HandlesAgree'
           /\ fh'[h] # Null /\ fh'[h].file = fh[h].file /\ fh'[h].size = n
           /\ fsize' = [fsize EXCEPT ![fh[h].file] = n]
           /\ fh[h].size = fsize[fh[h].file]
<1> DEFINE file == [fh[h] EXCEPT !.size = n]
<1>1. fh \in OpenFiles /\ fh[h] \in Handle /\ fh[h].file \in Files /\ fsize \in [Files -> 0..MaxSize]
  BY HandleTyped, InvParts
<1>2. file \in Handle /\ file # Null /\ file.file = fh[h].file /\ file.size = n
  BY <1>1, NullAssumption DEF Handle
<1>3. \A g \in Handles : fh'[g] = IF g = h THEN file ELSE fh[g]
  BY <1>1 DEF OpenFiles
<1>4. fh[h].size = fsize[fh[h].file]
  BY DEF SizeInv, HandlesAgree
<1>5. fsize' = [fsize EXCEPT ![fh[h].file] = n]
  BY <1>1, <1>4 DEF SetSize
<1> HIDE DEF file
<1>6. \A g \in Handles : fh'[g] # Null <=> fh[g] # Null
  BY <1>2, <1>3
<1>7. \A g \in Handles : fh[g] # Null => fh[g].file \in Files /\ fh'[g].file = fh[g].file
  BY <1>2, <1>3, HandleTyped
<1>8. \A g \in Handles : fh[g] # Null => fh'[g].size = fsize'[fh[g].file]
  BY <1>1, <1>2, <1>3, <1>5, <1>7 DEF SizeInv, HandlesAgree
<1>9. HandlesAgree'
  BY <1>6, <1>7, <1>8 DEF SizeInv, HandlesAgree
<1> QED BY <1>2, <1>3, <1>4, <1>5, <1>9

\* No row was beyond the old size, so none is beyond a larger one.
LEMMA GrownKeepsRows ==
    ASSUME CacheInv, SizeInv, UNCHANGED fileBlocks, NEW f \in Files, NEW n \in 0..MaxSize,
           fsize[f] =< n, fsize' = [fsize EXCEPT ![f] = n]
    PROVE  RowsWithinSize'
<1> SUFFICES ASSUME NEW k \in Keys, fileBlocks[k] # Null
             PROVE  k[2] * BlockSize < fsize'[k[1]]
  BY DEF RowsWithinSize
<1>1. k[1] \in Files /\ k[2] \in Nat /\ BlockSize \in Nat
  BY SizeFacts DEF Keys, Blocks
<1>2. fsize \in [Files -> 0..MaxSize] /\ MaxSize \in Nat
  BY InvParts, SizeFacts
<1>3. k[2] * BlockSize < fsize[k[1]]
  BY DEF SizeInv, RowsWithinSize
<1>4. fsize'[k[1]] = IF k[1] = f THEN n ELSE fsize[k[1]]
  BY <1>1, <1>2
<1>5. k[2] * BlockSize \in Nat
  BY <1>1
<1> QED BY <1>1, <1>2, <1>3, <1>4, <1>5

----------------------------------------------------------------------------
(* The actions.                                                            *)

LEMMA SizeOpen ==
    ASSUME CacheInv, SizeInv, Exclusive, NEW h \in Handles, NEW f \in Files, Open(h, f)
    PROVE  SizeInv'
<1> DEFINE file == [file |-> f, size |-> fsize[f], blocks |-> [b \in Blocks |-> Null]]
<1>1. /\ op = Idle /\ op' = Idle /\ fh[h] = Null /\ fh' = [fh EXCEPT ![h] = file]
      /\ UNCHANGED <<fileBlocks, fsize>>
      /\ \A g \in Handles : fh[g] # Null => fh[g].file # f
  BY DEF Open
<1>2. fh \in OpenFiles
  BY InvParts DEF StoreSafe
<1>3. \A g \in Handles : fh'[g] = IF g = h THEN file ELSE fh[g]
  BY <1>1, <1>2 DEF OpenFiles
<1>4. file.file = f /\ file.size = fsize[f]
  OBVIOUS
<1> HIDE DEF file
<1>5. HandlesAgree'
  BY <1>1, <1>3, <1>4 DEF SizeInv, HandlesAgree
<1>6. RowsWithinSize'
  BY <1>1 DEF SizeInv, RowsWithinSize
<1> QED BY <1>1, <1>5, <1>6 DEF SizeInv, WriteFits, TruncateFits, Idle

\* Handles are closed, and no request is at work.
LEMMA SizeClosed ==
    ASSUME CacheInv, SizeInv, UNCHANGED <<fileBlocks, fsize>>,
           \A h \in Handles : fh'[h] \in {fh[h], Null}, op' \in {Idle, Down}
    PROVE  SizeInv'
<1>1. HandlesAgree' /\ RowsWithinSize'
  BY DEF SizeInv, HandlesAgree, RowsWithinSize
<1> QED BY <1>1 DEF SizeInv, WriteFits, TruncateFits, Idle, Down

LEMMA SizeRelease ==
    ASSUME CacheInv, SizeInv, NEW h \in Handles, Release(h)
    PROVE  SizeInv'
<1>1. fh \in OpenFiles
  BY InvParts DEF StoreSafe
<1>2. op' = Idle /\ fh' = [fh EXCEPT ![h] = Null] /\ UNCHANGED <<fileBlocks, fsize>>
  BY DEF Release
<1>3. \A g \in Handles : fh'[g] \in {fh[g], Null}
  BY <1>1, <1>2 DEF OpenFiles
<1> QED BY <1>2, <1>3, SizeClosed

LEMMA SizeRead ==
    ASSUME CacheInv, SizeInv, NEW h \in Handles, NEW b \in Blocks, Read(h, b)
    PROVE  SizeInv'
<1>1. /\ op' = op /\ fh[h] # Null /\ fh' = WithInfo(h, b, Locked(h, b))
      /\ UNCHANGED <<fileBlocks, fsize>>
  BY DEF Read
<1>2. Locked(h, b) \in Info
  BY <1>1, LookupSafe
<1> QED BY <1>1, <1>2, OneInfoChanges, SizesKept

LEMMA SizeExtend ==
    ASSUME CacheInv, SizeInv, NEW h \in Handles, NEW n \in 0..MaxSize, Extend(h, n)
    PROVE  SizeInv'
<1>1. /\ op = Idle /\ op' = Idle /\ fh[h] # Null /\ fh[h].size =< n /\ UNCHANGED fileBlocks
      /\ fsize' = SetSize(h, n) /\ fh' = [fh EXCEPT ![h].size = n]
  BY DEF Extend
<1>2. RowsWithinSize'
  BY <1>1, Resized, GrownKeepsRows, HandleTyped
<1> QED BY <1>1, <1>2, Resized DEF SizeInv, WriteFits, TruncateFits, Idle

LEMMA SizeWriteBuf ==
    ASSUME CacheInv, SizeInv, NEW h \in Handles, NEW from \in 0..MaxSize,
           NEW end \in 0..MaxSize, WriteBuf(h, from, end)
    PROVE  SizeInv'
<1>1. /\ fh[h] # Null /\ UNCHANGED fileBlocks
      /\ op' = [kind |-> "write", h |-> h, next |-> from, end |-> end]
  BY DEF WriteBuf
<1>2. fh[h].size \in Nat /\ end \in Nat
  BY <1>1, HandleTyped, SizeFacts
<1>3. TruncateFits'
  BY <1>1 DEF TruncateFits
<1>4. CASE end > fh[h].size
  <2>1. fsize' = SetSize(h, end) /\ fh' = [fh EXCEPT ![h].size = end]
    BY <1>4 DEF WriteBuf
  <2>2. HandlesAgree' /\ fh'[h].size = end
    BY <1>1, <2>1, Resized
  <2>3. RowsWithinSize'
    <3>1. fsize' = [fsize EXCEPT ![fh[h].file] = end] /\ fh[h].size = fsize[fh[h].file]
      BY <1>1, <2>1, Resized
    <3>2. fh[h].file \in Files /\ fsize[fh[h].file] =< end
      BY <1>1, <1>2, <1>4, <3>1, HandleTyped
    <3> QED BY <1>1, <3>1, <3>2, GrownKeepsRows
  <2>4. WriteFits'
    BY <1>1, <1>2, <2>2 DEF WriteFits
  <2> QED BY <1>3, <2>2, <2>3, <2>4 DEF SizeInv
<1>5. CASE ~(end > fh[h].size)
  <2>1. UNCHANGED <<fsize, fh>>
    BY <1>5 DEF WriteBuf
  <2>2. HandlesAgree' /\ RowsWithinSize'
    BY <1>1, <2>1 DEF SizeInv, HandlesAgree, RowsWithinSize
  <2>3. WriteFits'
    BY <1>1, <1>2, <1>5, <2>1 DEF WriteFits
  <2> QED BY <1>3, <2>2, <2>3 DEF SizeInv
<1> QED BY <1>4, <1>5

LEMMA SizeTruncateBegin ==
    ASSUME CacheInv, SizeInv, NEW h \in Handles, NEW n \in 0..MaxSize, TruncateBegin(h, n)
    PROVE  SizeInv'
<1>1. /\ fh[h] # Null /\ fh[h].size > n
      /\ op' = [kind |-> "truncate", h |-> h, next |-> BlocksFor(n),
                end |-> BlocksFor(fh[h].size), size |-> n]
      /\ UNCHANGED <<fileBlocks, fsize, fh>>
  BY DEF TruncateBegin
<1>2. HandlesAgree' /\ RowsWithinSize'
  BY <1>1 DEF SizeInv, HandlesAgree, RowsWithinSize
<1>3. BlocksFor(n) \in Int /\ \A b \in Blocks : b \in Int
  BY BlocksForFacts DEF Blocks
<1>4. TruncateFits'
  <2>1. n < fh[h].size
    BY <1>1, HandleTyped, SizeFacts
  <2>2. \A b \in Blocks : ~(BlocksFor(n) =< b /\ b < BlocksFor(n))
    BY <1>3
  <2> QED BY <1>1, <2>1, <2>2 DEF TruncateFits, BlocksFor
<1>5. WriteFits'
  BY <1>1 DEF WriteFits
<1> QED BY <1>2, <1>4, <1>5 DEF SizeInv

LEMMA SizeHang ==
    ASSUME CacheInv, SizeInv, NEW h \in Handles, NEW b \in Blocks, Hang(h, b)
    PROVE  SizeInv'
  BY SizesKept DEF Hang, SameHandles

\* A block is committed within the size: the unit that the write has come to is.
LEMMA SizeCommitted ==
    ASSUME CacheInv, SizeInv, op.kind = "write", NEW d \in Contents,
           fileBlocks' = [fileBlocks EXCEPT ![Key] = d],
           NEW i \in Info, NEW objects, NEW present, Committed(i, objects, d, present)
    PROVE  SizeInv'
<1> DEFINE j == [i EXCEPT !.locked = TRUE]
<1>1. /\ op.h \in Handles /\ fh[op.h] # Null /\ ChunkBlock \in Blocks /\ Key \in Keys
      /\ op \in Write /\ op.next < op.end
  BY ChunkFacts, InvParts DEF RequestSafe
<1>2. /\ fh' = WithInfo(op.h, ChunkBlock, j) /\ fsize' = fsize
      /\ op' = [kind |-> "place", h |-> op.h, next |-> NextChunk, end |-> op.end,
                block |-> ChunkBlock, present |-> present, data |-> d]
  BY DEF Committed
<1>3. SameHandles(fh')
  <2>1. j \in Info
    BY DEF Info
  <2> QED BY <1>1, <1>2, <2>1, OneInfoChanges
<1>4. HandlesAgree'
  BY <1>2, <1>3 DEF SizeInv, HandlesAgree, SameHandles
<1>5. op.end =< fh[op.h].size
  BY DEF SizeInv, WriteFits
<1>6. ChunkBlock * BlockSize < fsize[fh[op.h].file]
  <2>1. ChunkBlock * BlockSize =< op.next
    <3>1. op.next \in Nat
      BY <1>1, SizeFacts DEF Write
    <3> QED BY <3>1, SizeFacts DEF ChunkBlock
  <2>2. op.end =< fsize[fh[op.h].file]
    BY <1>1, <1>5 DEF SizeInv, HandlesAgree
  <2>3. op.next \in Int /\ op.end \in Int /\ ChunkBlock * BlockSize \in Int
        /\ fsize[fh[op.h].file] \in Int
    BY <1>1, HandleTyped, InvParts, SizeFacts DEF Write, Blocks
  <2> QED BY <1>1, <2>1, <2>2, <2>3
<1>7. RowsWithinSize'
  <2>1. DOMAIN fileBlocks = Keys
    BY InvParts DEF T!TypeOK
  <2>2. \A k \in Keys : fileBlocks'[k] # Null => fileBlocks[k] # Null \/ k = Key
    BY <1>1, <2>1
  <2>3. Key[1] = fh[op.h].file /\ Key[2] = ChunkBlock
    BY DEF Key
  <2> QED BY <1>2, <1>6, <2>2, <2>3 DEF SizeInv, RowsWithinSize
<1>8. WriteFits' /\ TruncateFits'
  BY <1>1, <1>2, <1>3, <1>5 DEF WriteFits, TruncateFits, SameHandles
<1> QED BY <1>4, <1>7, <1>8 DEF SizeInv

LEMMA SizeWrites ==
    ASSUME CacheInv, SizeInv, WritePresent \/ WriteInPlace \/ WriteInsert
    PROVE  SizeInv'
<1>1. op.kind = "write"
  BY DEF WritePresent, WriteInPlace, WriteInsert, ChunkReady
<1>2. Target \in Info /\ NewData \subseteq Contents
  BY <1>1, ChunkFacts DEF NewData
<1>3. CASE WriteInPlace
  <2>1. PICK d \in NewData :
          /\ T!ReplaceInPlace(Key, d, OldBlock, OldUse)
          /\ Committed([Target EXCEPT !.hash = d], Merged, d, FALSE)
    BY <1>3 DEF WriteInPlace
  <2>2. d \in Contents /\ [Target EXCEPT !.hash = d] \in Info
    BY <1>2 DEF Info
  <2>3. fileBlocks' = [fileBlocks EXCEPT ![Key] = d]
    BY <2>1 DEF T!ReplaceInPlace
  <2> QED BY <1>1, <2>1, <2>2, <2>3, SizeCommitted
<1>4. CASE WritePresent
  <2>1. PICK d \in NewData :
          /\ T!ReplacePresent(Key, d, OldBlock, OldUse)
          /\ Committed([Target EXCEPT !.num = T!IdOf(d), !.hash = d, !.ref = Null],
                       AddUse(Merged, Target.ref, -1), d, TRUE)
    BY <1>4 DEF WritePresent
  <2>2. d \in Contents /\ Key \in Keys /\ OldUse \in Int
    BY <1>1, <1>2, <2>1, ChunkFacts
  <2>3. T!IdOf(d) \in 1..Len(rows)
    BY <2>1, <2>2, InvParts, PresentTables
  <2>4. [Target EXCEPT !.num = T!IdOf(d), !.hash = d, !.ref = Null] \in Info
    <3>1. T!IdOf(d) \in Numbers
      BY <2>3, InvParts, CacheAssumption DEF Numbers, T!TypeOK
    <3> QED BY <1>2, <2>2, <3>1 DEF Info
  <2>5. fileBlocks' = [fileBlocks EXCEPT ![Key] = d]
    BY <2>1 DEF T!ReplacePresent
  <2> QED BY <1>1, <2>1, <2>2, <2>4, <2>5, SizeCommitted
<1>5. CASE WriteInsert
  <2>1. PICK d \in NewData :
          /\ T!ReplaceInsert(Key, d, OldBlock, OldUse)
          /\ Committed([Target EXCEPT !.num = Len(rows) + 1, !.hash = d, !.ref = Null],
                       AddUse(Merged, Target.ref, -1), d, FALSE)
    BY <1>5 DEF WriteInsert
  <2>2. Len(rows) + 1 \in Numbers /\ d \in Contents
    BY <1>2, <2>1, InvParts, CacheAssumption DEF T!ReplaceInsert, T!TypeOK, Numbers
  <2>3. [Target EXCEPT !.num = Len(rows) + 1, !.hash = d, !.ref = Null] \in Info
    BY <1>2, <2>2 DEF Info
  <2>4. fileBlocks' = [fileBlocks EXCEPT ![Key] = d]
    BY <2>1 DEF T!ReplaceInsert
  <2> QED BY <1>1, <2>1, <2>2, <2>3, <2>4, SizeCommitted
<1> QED BY <1>3, <1>4, <1>5

LEMMA SizeWriteFails ==
    ASSUME CacheInv, SizeInv, WriteFails
    PROVE  SizeInv'
<1>1. /\ op.kind = "write" /\ op' = Idle /\ UNCHANGED <<fileBlocks, fsize>>
      /\ fh' = WithInfo(op.h, ChunkBlock, [Target EXCEPT !.locked = TRUE])
  BY DEF WriteFails
<1>2. [Target EXCEPT !.locked = TRUE] \in Info
  BY <1>1, ChunkFacts DEF Info
<1> QED BY <1>1, <1>2, ChunkFacts, OneInfoChanges, SizesKept

LEMMA SizePlaced ==
    ASSUME CacheInv, SizeInv, PlacePresent \/ PlaceData
    PROVE  SizeInv'
<1>1. op.kind = "place" /\ UNCHANGED <<fileBlocks, fsize>>
  BY DEF PlacePresent, PlaceData, Unlocked
<1>2. /\ op.h \in Handles /\ fh[op.h] # Null /\ op.block \in Blocks
      /\ fh[op.h].blocks[op.block] \in Info
  BY <1>1, PlaceFacts
<1>3. PICK i \in Info : Unlocked(i)
  <2> DEFINE i == fh[op.h].blocks[op.block]
  <2>1. CASE PlacePresent
    BY <1>2, <2>1 DEF PlacePresent
  <2>2. CASE PlaceData
    <3>1. [i EXCEPT !.ref = i.num] \in Info
      BY <1>2 DEF Info
    <3> QED BY <2>2, <3>1 DEF PlaceData
  <2> QED BY <2>1, <2>2
<1>4. /\ fh' = WithInfo(op.h, op.block, [i EXCEPT !.locked = FALSE])
      /\ op' = IF op.next = op.end THEN Idle
               ELSE [kind |-> "write", h |-> op.h, next |-> op.next, end |-> op.end]
  BY <1>3 DEF Unlocked
<1>5. SameHandles(fh')
  <2>1. [i EXCEPT !.locked = FALSE] \in Info
    BY <1>3 DEF Info
  <2> QED BY <1>2, <1>4, <2>1, OneInfoChanges
<1>6. HandlesAgree' /\ RowsWithinSize'
  BY <1>1, <1>5 DEF SizeInv, HandlesAgree, RowsWithinSize, SameHandles
<1>7. WriteFits' /\ TruncateFits'
  BY <1>1, <1>2, <1>4, <1>5 DEF SizeInv, WriteFits, TruncateFits, SameHandles, Idle
<1> QED BY <1>6, <1>7 DEF SizeInv

LEMMA SizeTruncateBlock ==
    ASSUME CacheInv, SizeInv, TruncateBlock
    PROVE  SizeInv'
<1> DEFINE k == <<fh[op.h].file, op.next>>
<1>1. /\ op.kind = "truncate" /\ op.next < op.end /\ fsize' = fsize
      /\ fileBlocks' = [fileBlocks EXCEPT ![k] = Null]
      /\ fh' = WithInfo(op.h, op.next, Null)
      /\ op' = [op EXCEPT !.next = @ + 1]
  BY DEF TruncateBlock, Truncating, T!Release
<1>2. /\ op \in Truncate /\ op.h \in Handles /\ fh[op.h] # Null
      /\ op.next \in Blocks /\ k \in Keys
  BY <1>1, TruncateFacts
<1>3. SameHandles(fh')
  BY <1>1, <1>2, OneInfoChanges
<1>4. DOMAIN fileBlocks = Keys
  BY InvParts DEF T!TypeOK
<1>5. HandlesAgree'
  BY <1>1, <1>3 DEF SizeInv, HandlesAgree, SameHandles
<1>6. \A c \in Keys : fileBlocks'[c] = IF c = k THEN Null ELSE fileBlocks[c]
  BY <1>1, <1>2, <1>4
<1>7. RowsWithinSize'
  BY <1>1, <1>6 DEF SizeInv, RowsWithinSize
<1>8. /\ op'.kind = "truncate" /\ op'.h = op.h /\ op'.size = op.size
      /\ op'.end = op.end /\ op'.next = op.next + 1
  BY <1>1, <1>2 DEF Truncate
<1>9. TruncateFits'
  <2>1. /\ op.size < fh[op.h].size /\ op.end = BlocksFor(fh[op.h].size)
        /\ \A b \in Blocks : BlocksFor(op.size) =< b /\ b < op.next
                               => fileBlocks[<<fh[op.h].file, b>>] = Null
    BY <1>1 DEF SizeInv, TruncateFits
  <2>2. fh'[op.h].file = fh[op.h].file /\ fh'[op.h].size = fh[op.h].size
    BY <1>2, <1>3 DEF SameHandles
  <2>3. ASSUME NEW b \in Blocks, BlocksFor(op.size) =< b, b < op.next + 1
        PROVE  fileBlocks'[<<fh[op.h].file, b>>] = Null
    <3>1. <<fh[op.h].file, b>> \in Keys
      BY <1>2, HandleTyped DEF Keys
    <3>2. CASE b = op.next
      BY <1>6, <3>1, <3>2
    <3>3. CASE b # op.next
      <4>1. b < op.next
        BY <1>2, <2>3, <3>3 DEF Blocks
      <4>2. fileBlocks[<<fh[op.h].file, b>>] = Null
        BY <2>1, <2>3, <4>1
      <4> QED BY <1>6, <3>1, <4>2
    <3> QED BY <3>2, <3>3
  <2> HIDE DEF k
  <2>4. BlocksFor(op.size)' = BlocksFor(op.size) /\ BlocksFor(fh[op.h].size)' = BlocksFor(fh[op.h].size)
    BY <1>8, <2>2 DEF BlocksFor
  <2> QED BY <1>8, <2>1, <2>2, <2>3, <2>4 DEF TruncateFits
<1>10. WriteFits'
  BY <1>8 DEF WriteFits
<1> QED BY <1>5, <1>7, <1>9, <1>10 DEF SizeInv

\* All that the file had beyond the new size is released by now.
LEMMA SizeTruncateEnd ==
    ASSUME CacheInv, SizeInv, TruncateEnd
    PROVE  SizeInv'
<1> DEFINE f == fh[op.h].file
<1>1. /\ op.kind = "truncate" /\ op.next = op.end /\ op' = Idle /\ UNCHANGED fileBlocks
      /\ fsize' = SetSize(op.h, op.size) /\ fh' = [fh EXCEPT ![op.h].size = op.size]
  BY DEF TruncateEnd
<1>2. op.h \in Handles /\ fh[op.h] # Null /\ op.size \in 0..MaxSize
  BY <1>1, TruncateFacts
<1>3. HandlesAgree' /\ fsize' = [fsize EXCEPT ![f] = op.size] /\ fh[op.h].size = fsize[f]
  BY <1>1, <1>2, Resized
<1>4. /\ op.next = BlocksFor(fsize[f])
      /\ \A b \in Blocks : BlocksFor(op.size) =< b /\ b < op.next
                             => fileBlocks[<<f, b>>] = Null
  BY <1>1, <1>3 DEF SizeInv, TruncateFits
<1>5. f \in Files /\ fsize \in [Files -> 0..MaxSize]
  BY <1>2, HandleTyped, InvParts
<1> HIDE DEF f
<1>6. RowsWithinSize'
  <2> SUFFICES ASSUME NEW c \in Keys, fileBlocks[c] # Null
               PROVE  c[2] * BlockSize < fsize'[c[1]]
    BY <1>1 DEF RowsWithinSize
  <2>1. c[1] \in Files /\ c[2] \in Blocks /\ c = <<c[1], c[2]>>
    BY DEF Keys
  <2>2. c[2] * BlockSize < fsize[c[1]]
    BY DEF SizeInv, RowsWithinSize
  <2>3. CASE c[1] = f
    <3>1. c[2] < op.next
      BY <1>4, <1>5, <2>1, <2>2, <2>3, BlocksWithin
    <3>2. ~(BlocksFor(op.size) =< c[2])
      BY <1>4, <2>1, <2>3, <3>1
    <3>3. c[2] < BlocksFor(op.size)
      BY <1>2, <2>1, <3>2, BlocksForFacts DEF Blocks
    <3>4. c[2] * BlockSize < op.size
      BY <1>2, <2>1, <3>3, BlocksWithin
    <3> QED BY <1>3, <1>5, <2>3, <3>4
  <2>4. CASE c[1] # f
    BY <1>3, <1>5, <2>1, <2>2, <2>4
  <2> QED BY <2>3, <2>4
<1> QED BY <1>1, <1>3, <1>6 DEF SizeInv, WriteFits, TruncateFits, Idle

LEMMA SizeWriterStep ==
    ASSUME CacheInv, SizeInv, WriterStep
    PROVE  SizeInv'
<1>1. UNCHANGED <<fileBlocks, fsize, op>>
  BY DEF WriterStep, WriterFlushes, WriterEvicts, WriterPicks, WriterEndsPick,
         WriterErases, WriterEndsErase, Reclaim
<1>2. fh' = fh \/ \E n \in Numbers \cup Orphans, m \in Orphans \cup {Null} : fh' = Redirect(fh, n, m)
  BY DEF WriterStep, WriterFlushes, WriterEvicts, WriterPicks, WriterEndsPick,
         WriterErases, WriterEndsErase, Reclaim
<1>3. SameHandles(fh')
  BY <1>2, RedirectKeepsHandles DEF SameHandles
<1> QED BY <1>1, <1>3, SizesKept

----------------------------------------------------------------------------

LEMMA SizeInit == Init => SizeInv
<1> SUFFICES ASSUME Init PROVE SizeInv
  OBVIOUS
<1>1. \A k \in Keys : fileBlocks[k] = Null
  BY DEF Init, T!Init
<1> QED BY <1>1 DEF Init, SizeInv, HandlesAgree, WriteFits, TruncateFits, RowsWithinSize, Idle

LEMMA SizeStep ==
    ASSUME Exclusive, CacheInv, SizeInv, [Next]_vars
    PROVE  SizeInv'
<1>1. CASE Request
  BY <1>1, SizeOpen, SizeRelease, SizeRead, SizeHang, SizeWriteBuf, SizeExtend,
     SizeTruncateBegin DEF Request
<1>2. CASE WriteStep
  BY <1>2, SizeWrites, SizeWriteFails, SizePlaced DEF WriteStep
<1>3. CASE TruncateStep
  BY <1>3, SizeTruncateBlock, SizeTruncateEnd DEF TruncateStep
<1>4. CASE WriterStep
  BY <1>4, SizeWriterStep
<1>5. CASE TruncateHole \/ Crash
  BY <1>5, SizeClosed DEF TruncateHole, Crash, Dies
<1>6. CASE Restart
  BY <1>6, SizeClosed DEF Restart
<1>7. CASE UNCHANGED vars
  BY <1>7, SizesKept DEF vars, SameHandles
<1> QED BY <1>1, <1>2, <1>3, <1>4, <1>5, <1>6, <1>7 DEF Next

\* No row of file_blocks lies beyond the end of its file: a write extends the
\* file before it stores a block, and a truncate releases blocks before it
\* shortens the file, whatever step a crash comes after; as long as no file is
\* opened while it is open.
THEOREM RowsStayWithinSize == Exclusive => (Spec => []RowsWithinSize)
<1>1. ASSUME Exclusive PROVE SizeInv /\ CacheInv /\ [Next]_vars => SizeInv'
  BY <1>1, SizeStep
<1>2. SizeInv => RowsWithinSize
  BY DEF SizeInv
<1>3. ASSUME Exclusive PROVE Spec => []RowsWithinSize
  BY <1>1, <1>2, <1>3, SizeInit, CacheInvariant, PTL DEF Spec
<1> QED BY <1>3
============================================================================
