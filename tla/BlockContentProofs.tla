------------------------ MODULE BlockContentProofs -------------------------
(***************************************************************************)
(* HashIsContent for any files, handles, contents and bounds: a storage    *)
(* block delivers the content of its hash unless its data was dropped      *)
(* dirty.                                                                  *)
(*                                                                         *)
(* The argument: what is clean equals the file (CleanAsOnDisk), so loading *)
(* and evicting change nothing that can be read; a hash only changes       *)
(* together with the request at work (PlacingAsCommitted), which then puts *)
(* the content there; and what else goes is dirty, hence lost.             *)
(***************************************************************************)
EXTENDS BlocksCacheProofs, FiniteSetTheorems

\* The same can be read of every storage block, what is clean still is, what is
\* dirty too, and nothing is erased.
KeepsData(old, new) ==
    /\ \A n \in Numbers \ {0} : StoredIn(new, n) = StoredIn(old, n)
    /\ CleanAsOnDisk(old) => CleanAsOnDisk(new)
    /\ \A n \in Numbers \ {0} : old[n] # Null /\ old[n].dirty => new[n] # Null /\ new[n].dirty
    /\ \A o \in Orphans : old[o] = Null => new[o] = Null

LEMMA KeepsTransitive ==
    ASSUME NEW a, NEW b, NEW c, KeepsData(a, b), KeepsData(b, c)
    PROVE  KeepsData(a, c)
  BY DEF KeepsData

\* Objects that hold the same data under every number.
LEMMA SameDataKept ==
    ASSUME NEW old, NEW new,
           \A n \in Numbers \ {0} :
              /\ new[n] = Null <=> old[n] = Null
              /\ old[n] # Null => new[n].data = old[n].data /\ new[n].dirty = old[n].dirty,
           \A o \in Orphans : old[o] = Null => new[o] = Null
    PROVE  KeepsData(old, new)
  BY DEF KeepsData, StoredIn, CleanAsOnDisk

LEMMA LiveKeeps ==
    ASSUME NEW files, NEW objects \in Objects
    PROVE  KeepsData(objects, Live(objects, files))
<1>1. /\ \A n \in Numbers : Live(objects, files)[n] = objects[n]
      /\ \A o \in Orphans : objects[o] = Null => Live(objects, files)[o] = Null
  BY NumbersFacts DEF Live, Objects
<1> QED BY <1>1, SameDataKept

LEMMA AddUseKeeps ==
    ASSUME NEW objects \in Objects, NEW n \in Numbers \cup Orphans \cup {Null}, NEW d \in Int
    PROVE  KeepsData(objects, AddUse(objects, n, d))
<1>1. CASE n # Null /\ objects[n] # Null
  <2> DEFINE item == [objects[n] EXCEPT !.use = @ + d]
  <2>1. AddUse(objects, n, d) = [objects EXCEPT ![n] = item]
    BY <1>1 DEF AddUse
  <2>2. objects[n] \in Item
    BY <1>1 DEF Objects
  <2>3. item \in Item /\ item.data = objects[n].data /\ item.dirty = objects[n].dirty
    BY <2>2 DEF Item
  <2>4. item # Null
    BY <2>3, NullAssumption
  <2> HIDE DEF item
  <2>5. \A m \in Numbers \cup Orphans :
          AddUse(objects, n, d)[m] = IF m = n THEN item ELSE objects[m]
    BY <2>1 DEF Objects
  <2> QED BY <1>1, <2>3, <2>4, <2>5, SameDataKept
<1>2. CASE ~(n # Null /\ objects[n] # Null)
  BY <1>2, SameDataKept DEF AddUse
<1> QED BY <1>1, <1>2

\* Loading the data of block n gives what the file has.
LEMMA PopulateKeeps ==
    ASSUME NEW objects \in Objects, NEW i \in Info, i.ref # Null, InfoSafe(i, objects),
           DiskSafe, NEW new, new = [objects EXCEPT ![i.ref] = Populate(@, i.num)]
    PROVE  KeepsData(objects, new)
<1> DEFINE old == objects[i.ref]
           item == Populate(old, i.num)
<1>1. i.ref \in Numbers \cup Orphans /\ i.num \in Numbers /\ old \in Item
  BY DEF Info, InfoSafe, Objects
<1>2. \A m \in Numbers \cup Orphans : new[m] = IF m = i.ref THEN item ELSE objects[m]
  BY <1>1 DEF Objects
<1>3. CASE old.data # Null \/ i.num = 0
  <2>1. item = old
    BY <1>3 DEF Populate
  <2> HIDE DEF old, item
  <2>2. \A m \in Numbers \cup Orphans : new[m] = objects[m]
    <3>1. \A m \in Numbers \cup Orphans : m = i.ref => old = objects[m]
      BY DEF old
    <3> QED BY <1>2, <2>1, <3>1
  <2> QED BY <2>2 DEF KeepsData, StoredIn, CleanAsOnDisk
<1>4. CASE ~(old.data # Null \/ i.num = 0)
  <2>1. item = [old EXCEPT !.data = OnDisk(i.num)]
    BY <1>4 DEF Populate, OnDisk
  <2>2. OnDisk(i.num) \in Contents
    <3>1. Zero \in Contents
      BY CacheAssumption DEF Zero, Contents
    <3>2. disk[i.num] \in Contents \cup {Null}
      BY <1>1, <1>4 DEF DiskSafe, SignatureOnlyInZero
    <3> QED BY <3>1, <3>2 DEF OnDisk
  <2>3. /\ item \in Item /\ item # Null /\ item.data = OnDisk(i.num) /\ item.data # Null
        /\ item.dirty = old.dirty
    <3>1. item \in Item /\ item.data = OnDisk(i.num) /\ item.dirty = old.dirty
      BY <1>1, <2>1, <2>2 DEF Item
    <3> QED BY <2>2, <3>1, NullAssumption
  <2>4. i.ref \in Numbers => i.ref = i.num
    BY DEF InfoSafe
  <2> HIDE DEF item
  <2>5. old # Null /\ old.data = Null
    BY <1>4 DEF InfoSafe
  <2>6. ASSUME NEW n \in Numbers \ {0}
        PROVE  StoredIn(new, n) = StoredIn(objects, n)
    BY <1>2, <2>3, <2>4, <2>5 DEF StoredIn
  <2>7. ASSUME NEW n \in Numbers \ {0}, CleanAsOnDisk(objects), new[n] # Null
        PROVE  IF new[n].dirty THEN new[n].data # Null ELSE new[n].data \in {Null, OnDisk(n)}
    BY <1>2, <2>3, <2>4, <2>5, <2>7 DEF CleanAsOnDisk
  <2>8. ASSUME NEW n \in Numbers \ {0}, objects[n] # Null, objects[n].dirty
        PROVE  new[n] # Null /\ new[n].dirty
    BY <1>2, <2>3, <2>8
  <2>9. ASSUME NEW o \in Orphans, objects[o] = Null
        PROVE  new[o] = Null
    BY <1>2, <2>5, <2>9
  <2> QED BY <2>6, <2>7, <2>8, <2>9 DEF KeepsData, CleanAsOnDisk
<1> QED BY <1>3, <1>4

\* A new object has no data yet.
LEMMA PlacedKeeps ==
    ASSUME heap \in Objects, NEW h, NEW b, InfoOf(h, b) \in Info
    PROVE  KeepsData(heap, Placed(h, b))
<1> DEFINE i == InfoOf(h, b)
           use == IF fh[h].blocks[b] = Null THEN LoadedUse(i) ELSE 0
           item == [use |-> use, data |-> Null, dirty |-> FALSE]
<1>1. Placed(h, b) = IF i.empty \/ i.ref # Null \/ heap[i.num] # Null THEN heap
                     ELSE [heap EXCEPT ![i.num] = item]
  BY DEF Placed
<1>2. item.data = Null /\ item.dirty = FALSE
  OBVIOUS
<1>3. i.num \in Numbers
  BY DEF Info
<1> HIDE DEF i, item
<1>4. CASE i.empty \/ i.ref # Null \/ heap[i.num] # Null
  BY <1>1, <1>4, SameDataKept
<1>5. CASE ~(i.empty \/ i.ref # Null \/ heap[i.num] # Null)
  <2>1. \A m \in Numbers \cup Orphans : Placed(h, b)[m] = IF m = i.num THEN item ELSE heap[m]
    BY <1>1, <1>3, <1>5 DEF Objects
  <2> QED BY <1>2, <1>3, <1>5, <2>1, NumbersFacts DEF KeepsData, StoredIn, CleanAsOnDisk
<1> QED BY <1>4, <1>5

LEMMA MergedKeeps ==
    ASSUME CacheInv, op.kind = "write"
    PROVE  KeepsData(heap, Merged)
<1>1. /\ op.h \in Handles /\ fh[op.h] # Null /\ ChunkBlock \in Blocks
      /\ Target \in Info
  BY ChunkFacts
<1>2. /\ InfoOf(op.h, ChunkBlock) \in Info
      /\ StoreSafe(fh, Placed(op.h, ChunkBlock))
      /\ InfoSafe(Target, Placed(op.h, ChunkBlock))
  BY <1>1, LookupSafe DEF Target
<1>3. heap \in Objects /\ DiskSafe /\ Placed(op.h, ChunkBlock) \in Objects
  BY <1>2, InvParts DEF StoreSafe
<1>4. KeepsData(heap, Placed(op.h, ChunkBlock))
  BY <1>2, <1>3, PlacedKeeps
<1>5. CASE Merging
  <2>1. Merged = [Placed(op.h, ChunkBlock) EXCEPT ![Target.ref] = Populate(@, Target.num)]
    BY <1>5 DEF Merged
  <2>2. Target.ref # Null
    BY <1>5 DEF Merging
  <2>3. KeepsData(Placed(op.h, ChunkBlock), Merged)
    BY <1>1, <1>2, <1>3, <2>1, <2>2, PopulateKeeps
  <2> QED BY <1>4, <2>3, KeepsTransitive
<1>6. CASE ~Merging
  BY <1>4, <1>6 DEF Merged
<1> QED BY <1>5, <1>6

----------------------------------------------------------------------------
(* Steps *)

DataInv == CacheInv /\ DataSafe /\ HashIsContent

LEMMA RowsAreNumbers ==
    ASSUME CacheInv
    PROVE  DOMAIN rows \subseteq Numbers \ {0} /\ DOMAIN rows = 1..Len(rows) /\ Len(rows) \in Nat
  BY InvParts, CacheAssumption DEF T!TypeOK, Numbers

\* A step that changes no hash, nothing in the file and nothing that can be read,
\* but for blocks that are lost.
LEMMA DataKept ==
    ASSUME DataInv, CacheInv', KeepsHashes, UNCHANGED disk, lost \subseteq lost',
           CleanAsOnDisk(heap'),
           \A n \in Numbers \ {0} : n \notin lost' => StoredIn(heap', n) = StoredIn(heap, n),
           Placing' = Placing, Placing # {} => op'.data = op.data
    PROVE  DataInv'
<1>1. DOMAIN rows \subseteq Numbers \ {0}
  BY RowsAreNumbers DEF DataInv
<1>2. HashIsContent'
  BY <1>1 DEF DataInv, HashIsContent, KeepsHashes, Stored, StoredIn, OnDisk
<1>3. CleanAsOnDisk(heap)'
  BY DEF CleanAsOnDisk, OnDisk
<1>4. PlacingAsCommitted'
  BY DEF DataInv, DataSafe, PlacingAsCommitted, KeepsHashes
<1> QED BY <1>2, <1>3, <1>4 DEF DataInv, DataSafe

\* The common case.
LEMMA DataKeptByObjects ==
    ASSUME DataInv, CacheInv', KeepsHashes, UNCHANGED <<disk, lost>>, KeepsData(heap, heap'),
           Placing' = Placing, Placing # {} => op'.data = op.data
    PROVE  DataInv'
  BY DataKept DEF DataInv, DataSafe, KeepsData

LEMMA NoPlacing ==
    ASSUME op.kind # "place"
    PROVE  Placing = {}
  BY DEF Placing

LEMMA NoPlacingNext ==
    ASSUME op'.kind # "place" \/ op'.present
    PROVE  Placing' = {}
  BY DEF Placing

LEMMA SameHashesKept == ASSUME UNCHANGED rows PROVE KeepsHashes
  BY DEF KeepsHashes

LEMMA DataRead ==
    ASSUME DataInv, NEW h \in Handles, NEW b \in Blocks, Read(h, b)
    PROVE  KeepsData(heap, heap')
<1> DEFINE i == Locked(h, b)
           objects == Placed(h, b)
<1>1. /\ fh[h] # Null /\ CacheInv
      /\ heap' = IF i.ref = Null THEN objects
                 ELSE [objects EXCEPT ![i.ref] = Populate(@, i.num)]
  BY DEF Read, DataInv
<1>2. /\ i \in Info /\ StoreSafe(fh, objects) /\ InfoSafe(i, objects)
      /\ InfoOf(h, b) \in Info
  BY <1>1, LookupSafe
<1>3. heap \in Objects /\ objects \in Objects /\ DiskSafe
  BY <1>1, <1>2, InvParts DEF StoreSafe
<1>4. KeepsData(heap, objects)
  BY <1>2, <1>3, PlacedKeeps
<1> HIDE DEF i, objects
<1>5. CASE i.ref = Null
  BY <1>1, <1>4, <1>5
<1>6. CASE i.ref # Null
  <2>1. heap' = [objects EXCEPT ![i.ref] = Populate(@, i.num)]
    BY <1>1, <1>6
  <2>2. KeepsData(objects, heap')
    BY <1>2, <1>3, <1>6, <2>1, PopulateKeeps
  <2> QED BY <1>4, <2>2, KeepsTransitive
<1> QED BY <1>5, <1>6

\* Requests begin and end without touching data.
LEMMA RequestKeeps ==
    ASSUME DataInv, Request
    PROVE  KeepsData(heap, heap')
<1>1. heap \in Objects
  BY InvParts DEF DataInv, StoreSafe
<1>2. ASSUME NEW h \in Handles, Release(h)
      PROVE  KeepsData(heap, heap')
  BY <1>1, <1>2, LiveKeeps DEF Release
<1>3. CASE UNCHANGED heap
  BY <1>3, SameDataKept
<1> QED BY <1>2, <1>3, DataRead
        DEF Request, Open, Hang, WriteBuf, Extend, TruncateBegin

LEMMA DataRequest ==
    ASSUME DataInv, Request, CacheInv'
    PROVE  DataInv'
<1>1. Placing = {} /\ Placing' = {}
  <2>1. op.kind \in {"idle", "write"}
    BY DEF Request, Open, Release, Read, Hang, WriteBuf, Extend, TruncateBegin, Idle
  <2>2. op'.kind \in {"idle", "write", "truncate", "hung"}
    BY <2>1 DEF Request, Open, Release, Read, Hang, WriteBuf, Extend, TruncateBegin, Idle, Hung
  <2> QED BY <2>1, <2>2, NoPlacing, NoPlacingNext
<1>2. UNCHANGED <<rows, disk, lost>>
  BY DEF Request, Open, Release, Read, Hang, WriteBuf, Extend, TruncateBegin
<1> QED BY <1>1, <1>2, RequestKeeps, SameHashesKept, DataKeptByObjects

\* What the two writes that leave the old block behind do to the objects.
LEMMA LeftBehindKeeps ==
    ASSUME CacheInv, op.kind = "write", NEW files
    PROVE  KeepsData(heap, Live(AddUse(Merged, Target.ref, -1), files))
<1>1. /\ Target.ref \in Numbers \cup Orphans \cup {Null}
      /\ Merged \in Objects
  BY ChunkFacts DEF Info, StoreSafe
<1>2. AddUse(Merged, Target.ref, -1) \in Objects
  BY LeftBehind DEF StoreSafe
<1>3. KeepsData(Merged, AddUse(Merged, Target.ref, -1))
  BY <1>1, AddUseKeeps
<1>4. KeepsData(AddUse(Merged, Target.ref, -1), Live(AddUse(Merged, Target.ref, -1), files))
  BY <1>2, LiveKeeps
<1> QED BY <1>3, <1>4, MergedKeeps, KeepsTransitive

LEMMA DataWritePresent ==
    ASSUME DataInv, WritePresent, CacheInv'
    PROVE  DataInv'
<1>1. op.kind = "write" /\ CacheInv
  BY DEF WritePresent, ChunkReady, DataInv
<1>2. PICK d \in NewData :
        /\ T!ReplacePresent(Key, d, OldBlock, OldUse)
        /\ Committed([Target EXCEPT !.num = T!IdOf(d), !.hash = d, !.ref = Null],
                     AddUse(Merged, Target.ref, -1), d, TRUE)
  BY DEF WritePresent
<1>3. /\ heap' = Live(AddUse(Merged, Target.ref, -1), fh')
      /\ op'.present = TRUE /\ UNCHANGED <<disk, lost>>
  BY <1>2 DEF Committed
<1>4. d \in Contents /\ Key \in Keys /\ OldUse \in Int /\ T!TypeOK
  BY <1>1, ChunkFacts, InvParts DEF NewData
<1>5. KeepsHashes
  BY <1>2, <1>4, PresentTables
<1>6. KeepsData(heap, heap')
  BY <1>1, <1>3, LeftBehindKeeps
<1>7. Placing = {} /\ Placing' = {}
  BY <1>1, <1>3, NoPlacing, NoPlacingNext
<1> QED BY <1>3, <1>5, <1>6, <1>7, DataKeptByObjects

\* A write that promises content d in block n, and changes no other hash.
LEMMA DataCommitted ==
    ASSUME DataInv, op.kind = "write", CacheInv', KeepsData(heap, heap'),
           UNCHANGED <<disk, lost>>,
           NEW n \in DOMAIN rows', Placing' = {n}, rows'[n].hash = op'.data,
           \A m \in DOMAIN rows' : m # n => m \in DOMAIN rows /\ rows'[m].hash = rows[m].hash
    PROVE  DataInv'
<1>1. DOMAIN rows \subseteq Numbers \ {0} /\ Placing = {}
  BY RowsAreNumbers, NoPlacing DEF DataInv
<1>2. HashIsContent'
  <2> SUFFICES ASSUME NEW m \in DOMAIN rows', m \notin lost' \cup Placing'
               PROVE  Stored(m)' = rows'[m].hash
    BY DEF HashIsContent
  <2>1. m \in DOMAIN rows /\ rows'[m].hash = rows[m].hash /\ m \notin lost
    OBVIOUS
  <2>2. StoredIn(heap, m) = rows[m].hash
    BY <1>1, <2>1 DEF DataInv, HashIsContent, Stored
  <2>3. StoredIn(heap', m) = StoredIn(heap, m)
    BY <1>1, <2>1 DEF KeepsData
  <2>4. Stored(m)' = StoredIn(heap', m)
    BY DEF Stored, StoredIn, OnDisk
  <2> QED BY <2>1, <2>2, <2>3, <2>4
<1>3. CleanAsOnDisk(heap)'
  BY DEF DataInv, DataSafe, KeepsData, CleanAsOnDisk, OnDisk
<1>4. PlacingAsCommitted'
  BY DEF PlacingAsCommitted
<1> QED BY <1>2, <1>3, <1>4 DEF DataInv, DataSafe

\* The block that will be placed is the one the block_info was given.
LEMMA PlacingCommitted ==
    ASSUME CacheInv, op.kind = "write", NEW info \in Info, NEW objects, NEW d,
           Committed(info, objects, d, FALSE)
    PROVE  /\ Placing' = {info.num} /\ op'.data = d /\ UNCHANGED <<disk, lost>>
           /\ heap' = Live(objects, fh')
<1> DEFINE i == [info EXCEPT !.locked = TRUE]
<1>1. /\ fh' = WithInfo(op.h, ChunkBlock, i)
      /\ op' = [kind |-> "place", h |-> op.h, next |-> NextChunk, end |-> op.end,
                block |-> ChunkBlock, present |-> FALSE, data |-> d]
      /\ heap' = Live(objects, fh') /\ UNCHANGED <<disk, lost>>
  BY DEF Committed
<1>2. op.h \in Handles /\ fh[op.h] # Null /\ ChunkBlock \in Blocks /\ fh \in OpenFiles
  BY ChunkFacts, InvParts DEF StoreSafe
<1>3. fh[op.h] \in Handle
  BY <1>2 DEF OpenFiles
<1>4. i.num = info.num
  BY DEF Info
<1> HIDE DEF i
<1>5. fh'[op.h].blocks[ChunkBlock] = i
  BY <1>1, <1>2, <1>3 DEF WithInfo, OpenFiles, Handle
<1>6. op'.kind = "place" /\ ~op'.present /\ op'.h = op.h /\ op'.block = ChunkBlock /\ op'.data = d
  BY <1>1
<1>7. Placing' = {fh'[op'.h].blocks[op'.block].num}
  BY <1>6 DEF Placing
<1> QED BY <1>1, <1>4, <1>5, <1>6, <1>7

LEMMA DataWriteInPlace ==
    ASSUME DataInv, WriteInPlace, CacheInv'
    PROVE  DataInv'
<1>1. op.kind = "write" /\ CacheInv
  BY DEF WriteInPlace, ChunkReady, DataInv
<1>2. PICK d \in NewData :
        /\ T!ReplaceInPlace(Key, d, OldBlock, OldUse)
        /\ Committed([Target EXCEPT !.hash = d], Merged, d, FALSE)
  BY DEF WriteInPlace
<1> DEFINE info == [Target EXCEPT !.hash = d]
<1>3. d \in Contents /\ Key \in Keys /\ OldUse \in Int /\ T!TypeOK /\ Target \in Info
      /\ Target.num =< Len(rows) /\ Merged \in Objects
  BY <1>1, ChunkFacts, InvParts DEF NewData, StoreSafe
<1>4. T!InPlaceAllowed(OldBlock, OldUse)
  BY <1>2 DEF T!ReplaceInPlace
<1>5. OldBlock = Target.num /\ Target.num # 0
  BY <1>1, <1>4, InPlaceNotZero
<1>6. /\ DOMAIN rows' = DOMAIN rows
      /\ \A n \in DOMAIN rows : rows'[n].hash = IF n = OldBlock THEN d ELSE rows[n].hash
  BY <1>2, <1>3, InPlaceTables
<1>7. info \in Info /\ info.num = Target.num
  BY <1>3 DEF Info
<1> HIDE DEF info
<1>8. Placing' = {info.num} /\ op'.data = d /\ UNCHANGED <<disk, lost>> /\ heap' = Live(Merged, fh')
  BY <1>1, <1>2, <1>7, PlacingCommitted DEF info
<1>9. Target.num \in DOMAIN rows
  <2>1. Target.num \in Nat
    BY <1>3, NumbersFacts DEF Info
  <2> QED BY <1>1, <1>3, <1>5, <2>1, RowsAreNumbers
<1>10. KeepsData(heap, heap')
  <2>1. KeepsData(Merged, heap')
    BY <1>3, <1>8, LiveKeeps
  <2> QED BY <1>1, <2>1, MergedKeeps, KeepsTransitive
<1>11. /\ Target.num \in DOMAIN rows' /\ rows'[Target.num].hash = op'.data
       /\ \A m \in DOMAIN rows' : m # Target.num => m \in DOMAIN rows /\ rows'[m].hash = rows[m].hash
  BY <1>5, <1>6, <1>8, <1>9
<1> QED BY <1>1, <1>7, <1>8, <1>10, <1>11, DataCommitted

LEMMA DataWriteInsert ==
    ASSUME DataInv, WriteInsert, CacheInv'
    PROVE  DataInv'
<1>1. op.kind = "write" /\ CacheInv
  BY DEF WriteInsert, ChunkReady, DataInv
<1>2. PICK d \in NewData :
        /\ T!ReplaceInsert(Key, d, OldBlock, OldUse)
        /\ Committed([Target EXCEPT !.num = Len(rows) + 1, !.hash = d, !.ref = Null],
                     AddUse(Merged, Target.ref, -1), d, FALSE)
  BY DEF WriteInsert
<1> DEFINE info == [Target EXCEPT !.num = Len(rows) + 1, !.hash = d, !.ref = Null]
           n == Len(rows) + 1
<1>3. d \in Contents /\ Key \in Keys /\ OldUse \in Int /\ T!TypeOK /\ Target \in Info
  BY <1>1, ChunkFacts, InvParts DEF NewData
<1>4. /\ DOMAIN rows' = DOMAIN rows \cup {n} /\ rows'[n].hash = d /\ Len(rows) < MaxRows
      /\ \A m \in DOMAIN rows : rows'[m].hash = rows[m].hash
  BY <1>2, <1>3, InsertTables
<1>5. n \in Numbers
  BY <1>1, <1>4, RowsAreNumbers, CacheAssumption DEF Numbers
<1>6. info \in Info /\ info.num = n
  BY <1>3, <1>5 DEF Info
<1> HIDE DEF info, n
<1>7. Placing' = {n} /\ op'.data = d /\ UNCHANGED <<disk, lost>>
      /\ heap' = Live(AddUse(Merged, Target.ref, -1), fh')
  BY <1>1, <1>2, <1>6, PlacingCommitted DEF info
<1>8. KeepsData(heap, heap')
  BY <1>1, <1>7, LeftBehindKeeps
<1>9. /\ n \in DOMAIN rows' /\ rows'[n].hash = op'.data
      /\ \A m \in DOMAIN rows' : m # n => m \in DOMAIN rows /\ rows'[m].hash = rows[m].hash
  BY <1>4, <1>7
<1> QED BY <1>1, <1>7, <1>8, <1>9, DataCommitted

LEMMA DataWriteFails ==
    ASSUME DataInv, WriteFails, CacheInv'
    PROVE  DataInv'
<1>1. /\ op.kind = "write" /\ op' = Idle /\ heap' = Merged
      /\ UNCHANGED <<rows, disk, lost>> /\ CacheInv
  BY DEF WriteFails, DataInv
<1>2. Placing = {} /\ Placing' = {}
  BY <1>1, NoPlacing, NoPlacingNext DEF Idle
<1> QED BY <1>1, <1>2, MergedKeeps, SameHashesKept, DataKeptByObjects

LEMMA DataPlacePresent ==
    ASSUME DataInv, PlacePresent, CacheInv'
    PROVE  DataInv'
<1> DEFINE i == fh[op.h].blocks[op.block]
<1>1. /\ op.kind = "place" /\ op.present /\ CacheInv
      /\ heap' = AddUse(heap, i.num, 1) /\ Unlocked(i) /\ UNCHANGED lost
  BY DEF PlacePresent, DataInv
<1>2. UNCHANGED <<rows, disk>> /\ op'.kind \in {"idle", "write"}
  BY <1>1 DEF Unlocked, Idle
<1>3. Placing = {} /\ Placing' = {}
  BY <1>1, <1>2, NoPlacingNext DEF Placing
<1>4. i.num \in Numbers \cup Orphans \cup {Null} /\ heap \in Objects
  BY <1>1, PlaceFacts, InvParts DEF StoreSafe
<1> HIDE DEF i
<1>5. KeepsData(heap, heap')
  BY <1>1, <1>4, AddUseKeeps
<1> QED BY <1>1, <1>2, <1>3, <1>5, SameHashesKept, DataKeptByObjects

\* The block gets the content that its row promises.
LEMMA DataPlaceData ==
    ASSUME DataInv, PlaceData, CacheInv'
    PROVE  DataInv'
<1> DEFINE n == fh[op.h].blocks[op.block].num
           item == [use |-> 1, data |-> op.data, dirty |-> TRUE]
<1>1. /\ op.kind = "place" /\ ~op.present /\ CacheInv
      /\ heap' = Live([heap EXCEPT ![n] = item], fh')
      /\ lost' = lost \ {n}
      /\ UNCHANGED <<rows, disk>> /\ op'.kind \in {"idle", "write"}
  BY DEF PlaceData, Unlocked, Idle, DataInv
<1>2. Placing = {n} /\ Placing' = {}
  BY <1>1, NoPlacingNext DEF Placing
<1>3. n \in Numbers \ {0} /\ op \in Place /\ heap \in Objects
  BY <1>1, PlaceFacts, InvParts DEF StoreSafe
<1>4. op.data \in Contents /\ op.data # Null
  BY <1>3, NullAssumption DEF Place
<1>5. item \in Item /\ item.data = op.data /\ item.dirty = TRUE
  BY <1>4 DEF Item
<1>6. item # Null
  BY <1>5, NullAssumption
<1>7. n \in DOMAIN rows /\ rows[n].hash = op.data
  BY <1>2 DEF DataInv, DataSafe, PlacingAsCommitted
<1>8. DOMAIN rows \subseteq Numbers \ {0}
  BY <1>1, RowsAreNumbers
<1> HIDE DEF n, item
<1>9. \A m \in Numbers : heap'[m] = IF m = n THEN item ELSE heap[m]
  BY <1>1, <1>3, NumbersFacts DEF Live, Objects
<1>10. HashIsContent'
  <2> SUFFICES ASSUME NEW m \in DOMAIN rows, m \notin lost'
               PROVE  StoredIn(heap', m) = rows[m].hash
    BY <1>1 DEF HashIsContent, Stored, StoredIn, OnDisk
  <2>1. CASE m = n
    BY <1>3, <1>4, <1>5, <1>6, <1>7, <1>9, <2>1 DEF StoredIn
  <2>2. CASE m # n
    <3>1. m \notin lost \cup Placing /\ m \in Numbers
      BY <1>1, <1>2, <1>8, <2>2
    <3>2. StoredIn(heap, m) = rows[m].hash
      BY <3>1 DEF DataInv, HashIsContent, Stored
    <3> QED BY <1>9, <2>2, <3>1, <3>2 DEF StoredIn
  <2> QED BY <2>1, <2>2
<1>11. CleanAsOnDisk(heap)'
  <2> SUFFICES ASSUME NEW m \in Numbers \ {0}, heap'[m] # Null
               PROVE  IF heap'[m].dirty THEN heap'[m].data # Null
                      ELSE heap'[m].data \in {Null, OnDisk(m)}
    BY <1>1 DEF CleanAsOnDisk, OnDisk
  <2>1. CASE m = n
    BY <1>4, <1>5, <1>9, <2>1
  <2>2. CASE m # n
    BY <1>9, <2>2 DEF DataInv, DataSafe, CleanAsOnDisk
  <2> QED BY <2>1, <2>2
<1>12. PlacingAsCommitted'
  BY <1>2 DEF PlacingAsCommitted
<1> QED BY <1>10, <1>11, <1>12 DEF DataInv, DataSafe

LEMMA TruncateKeeps ==
    ASSUME CacheInv, TruncateBlock
    PROVE  KeepsHashes /\ KeepsData(heap, heap')
<1> DEFINE i == InfoOf(op.h, op.next)
<1>1. /\ op.kind = "truncate" /\ op.next < op.end
      /\ T!Release(<<fh[op.h].file, op.next>>, i.hash)
      /\ heap' = Live(IF i.num = 0 THEN heap ELSE AddUse(heap, i.num, -1), fh')
  BY DEF TruncateBlock, Truncating
<1>2. /\ op \in Truncate /\ op.h \in Handles /\ fh[op.h] # Null
      /\ op.next \in Blocks /\ <<fh[op.h].file, op.next>> \in Keys
  BY <1>1, TruncateFacts
<1>3. i \in Info /\ T!TypeOK /\ heap \in Objects /\ StoreSafe(fh, heap)
  BY <1>1, <1>2, LookupSafe, InvParts DEF StoreSafe
<1>4. KeepsHashes
  BY <1>1, <1>2, <1>3, ReleaseTables
<1>7. i.num \in Numbers \cup Orphans \cup {Null}
  BY <1>3 DEF Info
<1> HIDE DEF i
<1> DEFINE objects == IF i.num = 0 THEN heap ELSE AddUse(heap, i.num, -1)
<1>8. objects \in Objects /\ KeepsData(heap, objects)
  <2>1. CASE i.num = 0
    BY <1>3, <2>1, SameDataKept
  <2>2. CASE i.num # 0
    <3>1. KeepsData(heap, AddUse(heap, i.num, -1))
      BY <1>3, <1>7, AddUseKeeps
    <3>2. StoreSafe(fh, AddUse(heap, i.num, -1))
      BY <1>3, <1>7, UseTaken
    <3> QED BY <2>2, <3>1, <3>2 DEF StoreSafe
  <2> QED BY <2>1, <2>2
<1> HIDE DEF objects
<1>9. KeepsData(objects, heap')
  BY <1>1, <1>8, LiveKeeps DEF objects
<1> QED BY <1>4, <1>8, <1>9, KeepsTransitive

LEMMA DataTruncateBlock ==
    ASSUME DataInv, TruncateBlock, CacheInv'
    PROVE  DataInv'
<1>1. /\ op.kind = "truncate" /\ op.next < op.end /\ CacheInv
      /\ op' = [op EXCEPT !.next = @ + 1] /\ UNCHANGED <<disk, lost>>
  BY DEF TruncateBlock, Truncating, DataInv
<1>2. op'.kind = "truncate"
  BY <1>1, TruncateFacts DEF Truncate
<1>3. Placing = {} /\ Placing' = {}
  BY <1>1, <1>2, NoPlacing, NoPlacingNext
<1> QED BY <1>1, <1>3, TruncateKeeps, DataKeptByObjects

LEMMA DataTruncateEnd ==
    ASSUME DataInv, TruncateEnd, CacheInv'
    PROVE  DataInv'
<1>1. op.kind = "truncate" /\ op' = Idle /\ UNCHANGED <<rows, disk, heap, lost>>
  BY DEF TruncateEnd
<1>2. Placing = {} /\ Placing' = {}
  BY <1>1, NoPlacing, NoPlacingNext DEF Idle
<1>3. KeepsData(heap, heap')
  BY <1>1, SameDataKept
<1> QED BY <1>1, <1>2, <1>3, SameHashesKept, DataKeptByObjects

----------------------------------------------------------------------------
(* The writer *)

\* Writing a block changes the file and nothing that can be read.
LEMMA DataFlushed ==
    ASSUME DataInv, NEW n \in Numbers, heap[n] # Null, Flushed(n), CacheInv',
           UNCHANGED <<rows, fh, op, lost>>
    PROVE  DataInv'
<1> DEFINE item == [heap[n] EXCEPT !.dirty = FALSE]
<1>1. /\ heap' = [heap EXCEPT ![n] = item]
      /\ disk' = IF heap[n].dirty THEN [disk EXCEPT ![n] = heap[n].data] ELSE disk
  BY DEF Flushed
<1>2. CacheInv /\ heap \in Objects /\ heap[n] \in Item /\ disk \in [Numbers -> Contents \cup {Null, Signature}]
  BY InvParts DEF DataInv, StoreSafe, Objects, CacheInv, TypeOK
<1>3. item \in Item /\ item.data = heap[n].data /\ item.dirty = FALSE
  BY <1>2 DEF Item
<1>4. item # Null
  BY <1>3, NullAssumption
<1> HIDE DEF item
<1>5. \A m \in Numbers : heap'[m] = IF m = n THEN item ELSE heap[m]
  BY <1>1, <1>2 DEF Objects
<1>6. \A m \in Numbers : disk'[m] = IF m = n /\ heap[n].dirty THEN heap[n].data ELSE disk[m]
  BY <1>1, <1>2
<1>7. n # 0 => IF heap[n].dirty THEN heap[n].data # Null
               ELSE heap[n].data \in {Null, OnDisk(n)}
  BY DEF DataInv, DataSafe, CleanAsOnDisk
<1>8. ASSUME NEW m \in Numbers \ {0}
      PROVE  Stored(m)' = Stored(m)
  <2>1. CASE m = n
    BY <1>3, <1>4, <1>5, <1>6, <1>7, <2>1 DEF Stored, StoredIn, OnDisk
  <2>2. CASE m # n
    BY <1>5, <1>6, <2>2 DEF Stored, StoredIn, OnDisk
  <2> QED BY <2>1, <2>2
<1>9. Placing' = Placing
  BY DEF Placing
<1>10. HashIsContent'
  BY <1>2, <1>8, <1>9, RowsAreNumbers DEF DataInv, HashIsContent
<1>11. CleanAsOnDisk(heap)'
  <2> SUFFICES ASSUME NEW m \in Numbers \ {0}, heap'[m] # Null
               PROVE  IF heap'[m].dirty THEN heap'[m].data # Null
                      ELSE heap'[m].data \in {Null, OnDisk(m)'}
    BY DEF CleanAsOnDisk
  <2>1. CASE m = n
    BY <1>3, <1>4, <1>5, <1>6, <1>7, <2>1 DEF OnDisk
  <2>2. CASE m # n
    BY <1>5, <1>6, <2>2 DEF DataInv, DataSafe, CleanAsOnDisk, OnDisk
  <2> QED BY <2>1, <2>2
<1>12. PlacingAsCommitted'
  BY <1>9 DEF PlacingAsCommitted, DataInv, DataSafe
<1> QED BY <1>10, <1>11, <1>12 DEF DataInv, DataSafe

LEMMA DataWriterMoves ==
    ASSUME DataInv, WriterEvicts \/ WriterEndsPick \/ WriterEndsErase, CacheInv'
    PROVE  DataInv'
<1>1. UNCHANGED <<rows, disk, heap, fh, op, lost>>
  BY DEF WriterEvicts, WriterEndsPick, WriterEndsErase
<1>2. Placing' = Placing /\ op'.data = op.data
  BY <1>1 DEF Placing
<1>3. KeepsData(heap, heap')
  BY <1>1, SameDataKept
<1> QED BY <1>1, <1>2, <1>3, SameHashesKept, DataKeptByObjects

\* The request at work keeps the number of its block, whatever is erased.
LEMMA PlacingRedirected ==
    ASSUME CacheInv, NEW n, NEW m \in Orphans \cup {Null}, fh' = Redirect(fh, n, m),
           UNCHANGED op
    PROVE  Placing' = Placing
<1>1. CASE op.kind = "place"
  <2>1. /\ op.h \in Handles /\ fh[op.h] # Null /\ op.block \in Blocks
        /\ fh[op.h].blocks[op.block] \in Info /\ fh \in OpenFiles
    BY <1>1, PlaceFacts, InvParts DEF StoreSafe
  <2>2. fh[op.h].blocks[op.block] # Null
    BY <2>1, NullAssumption
  <2>3. fh'[op.h].blocks[op.block].num = fh[op.h].blocks[op.block].num
    BY <2>1, <2>2, RedirectFacts
  <2> QED BY <2>3 DEF Placing
<1>2. CASE op.kind # "place"
  BY <1>2 DEF Placing
<1> QED BY <1>1, <1>2

\* What is erased clean is on disk.
LEMMA DataWriterErases ==
    ASSUME DataInv, NEW n \in Numbers, WriterErases(n), CacheInv'
    PROVE  DataInv'
<1>1. CacheInv /\ heap \in Objects
  BY InvParts DEF DataInv, StoreSafe
<1>2. UNCHANGED <<rows, disk, op>> /\ lost' = IF heap[n].dirty THEN lost \cup {n} ELSE lost
  BY DEF WriterErases
<1>3. \A m \in Numbers : heap'[m] = IF m = n THEN Null ELSE heap[m]
  <2>1. ASSUME NEW o \in Orphans, heap' = [heap EXCEPT ![o] = heap[n], ![n] = Null]
        PROVE  \A m \in Numbers : heap'[m] = IF m = n THEN Null ELSE heap[m]
    BY <1>1, <2>1, NumbersFacts DEF Objects
  <2>2. CASE heap' = [heap EXCEPT ![n] = Null]
    BY <1>1, <2>2 DEF Objects
  <2> QED BY <2>1, <2>2 DEF WriterErases
<1>4. Placing' = Placing /\ op'.data = op.data
  <2>1. PICK m \in Orphans \cup {Null} : fh' = Redirect(fh, n, m)
    BY DEF WriterErases
  <2> QED BY <1>1, <1>2, <2>1, PlacingRedirected
<1>5. CleanAsOnDisk(heap')
  BY <1>3 DEF DataInv, DataSafe, CleanAsOnDisk
<1>6. ASSUME NEW m \in Numbers \ {0}, m \notin lost'
      PROVE  StoredIn(heap', m) = StoredIn(heap, m)
  BY <1>2, <1>3, <1>6 DEF DataInv, DataSafe, CleanAsOnDisk, StoredIn
<1> QED BY <1>2, <1>4, <1>5, <1>6, SameHashesKept, DataKept

LEMMA DataReclaim ==
    ASSUME DataInv, NEW o \in Orphans, Reclaim(o), CacheInv'
    PROVE  DataInv'
<1>1. /\ CacheInv /\ heap \in Objects /\ heap' = [heap EXCEPT ![o] = Null]
      /\ fh' = Redirect(fh, o, Null) /\ UNCHANGED <<rows, disk, op, lost>>
  BY InvParts DEF DataInv, StoreSafe, Reclaim
<1>2. Placing' = Placing /\ op'.data = op.data
  BY <1>1, PlacingRedirected
<1>3. /\ \A m \in Numbers : heap'[m] = heap[m]
      /\ \A p \in Orphans : heap[p] = Null => heap'[p] = Null
  BY <1>1, NumbersFacts DEF Objects
<1>4. KeepsData(heap, heap')
  BY <1>3, SameDataKept
<1> QED BY <1>1, <1>2, <1>4, SameHashesKept, DataKeptByObjects

----------------------------------------------------------------------------
(* Crash and restart *)

\* What was neither dirty nor about to be placed is on disk.
LEMMA DataDies ==
    ASSUME DataInv, Dies, CacheInv'
    PROVE  DataInv'
<1>1. /\ CacheInv /\ heap \in Objects /\ op' = Down /\ UNCHANGED <<rows, disk>>
      /\ heap' = [n \in DOMAIN heap |-> Null]
      /\ lost' = lost \cup {n \in Cached : heap[n].dirty} \cup Placing
  BY InvParts DEF DataInv, StoreSafe, Dies, Unwritten, Placing
<1>2. \A m \in Numbers : heap'[m] = Null
  BY <1>1 DEF Objects
<1>3. Placing' = {}
  BY <1>1, NoPlacingNext DEF Down
<1>4. DOMAIN rows \subseteq Numbers \ {0}
  BY <1>1, RowsAreNumbers
<1>5. HashIsContent'
  <2> SUFFICES ASSUME NEW m \in DOMAIN rows, m \notin lost'
               PROVE  StoredIn(heap', m) = rows[m].hash
    BY <1>1 DEF HashIsContent, Stored, StoredIn, OnDisk
  <2>1. m \in Numbers \ {0} /\ m \notin lost \cup Placing /\ (heap[m] # Null => ~heap[m].dirty)
    BY <1>1, <1>4 DEF Cached
  <2>2. StoredIn(heap, m) = rows[m].hash
    BY <2>1 DEF DataInv, HashIsContent, Stored
  <2>3. StoredIn(heap, m) = OnDisk(m)
    BY <2>1 DEF DataInv, DataSafe, CleanAsOnDisk, StoredIn
  <2> QED BY <1>2, <2>1, <2>2, <2>3 DEF StoredIn
<1>6. CleanAsOnDisk(heap)'
  BY <1>2 DEF CleanAsOnDisk
<1>7. PlacingAsCommitted'
  BY <1>3 DEF PlacingAsCommitted
<1> QED BY <1>5, <1>6, <1>7 DEF DataInv, DataSafe

LEMMA DataRestart ==
    ASSUME DataInv, Restart, CacheInv'
    PROVE  DataInv'
<1>1. op = Down /\ op' = Idle /\ UNCHANGED <<rows, disk, heap, lost>>
  BY DEF Restart
<1>2. Placing = {} /\ Placing' = {}
  BY <1>1, NoPlacing, NoPlacingNext DEF Idle, Down
<1>3. KeepsData(heap, heap')
  BY <1>1, SameDataKept
<1> QED BY <1>1, <1>2, <1>3, SameHashesKept, DataKeptByObjects

----------------------------------------------------------------------------
(* Lost old data: with room in the cache, what is in no file is dirty      *)

\* The cache has room for every storage block.
Roomy == MaxRows < CacheLimit

NothingErased == \A o \in Orphans : heap[o] = Null

\* The content of a storage block is in the file, in memory waiting to be
\* written, about to be placed there, or lost.
Backed ==
    \A n \in DOMAIN rows :
        \/ n \in lost \cup Placing
        \/ disk[n] # Null
        \/ heap[n] # Null /\ heap[n].dirty

RoomInv == writer = Flushing /\ NothingErased /\ Backed

\* The cache never gets too large.
LEMMA NothingToEvict ==
    ASSUME Roomy
    PROVE  ~(Cardinality(Cached) > CacheLimit)
<1>1. MaxRows \in Nat /\ CacheLimit \in Nat /\ MaxRows < CacheLimit /\ Numbers = 0..MaxRows
  BY CacheAssumption DEF Roomy, Numbers
<1>2. IsFiniteSet(Numbers) /\ Cardinality(Numbers) = MaxRows + 1
  BY <1>1, FS_Interval
<1>3. Cached \subseteq Numbers
  BY DEF Cached
<1>4. Cardinality(Cached) =< Cardinality(Numbers) /\ IsFiniteSet(Cached)
  BY <1>2, <1>3, FS_Subset
<1>5. Cardinality(Cached) \in Nat
  BY <1>4, FS_CardinalityType
<1> QED BY <1>1, <1>2, <1>4, <1>5

\* All that the writer ever does is write dirty blocks.
LEMMA OnlyFlushes ==
    ASSUME Roomy, writer = Flushing, NothingErased, WriterStep
    PROVE  \E n \in Numbers : WriterFlushes(n)
<1>1. writer.phase = "flush"
  BY DEF Flushing
<1>2. ~WriterEvicts
  BY NothingToEvict DEF WriterEvicts
<1>3. \A o \in Orphans : ~Reclaim(o)
  BY DEF Reclaim, NothingErased
<1>4. /\ \A n \in Numbers : ~WriterPicks(n) /\ ~WriterErases(n)
      /\ ~WriterEndsPick /\ ~WriterEndsErase
  BY <1>1 DEF WriterPicks, WriterErases, WriterEndsPick, WriterEndsErase
<1> QED BY <1>2, <1>3, <1>4 DEF WriterStep

\* A step that keeps the objects, and adds no row but one about to be placed.
LEMMA RoomKept ==
    ASSUME CacheInv, RoomInv, KeepsData(heap, heap'), UNCHANGED <<disk, writer>>,
           lost \subseteq lost', Placing \subseteq Placing',
           DOMAIN rows' \subseteq DOMAIN rows \cup Placing'
    PROVE  RoomInv'
<1>1. DOMAIN rows \subseteq Numbers \ {0}
  BY RowsAreNumbers
<1>2. NothingErased'
  BY DEF RoomInv, NothingErased, KeepsData
<1>3. Backed'
  BY <1>1 DEF RoomInv, Backed, KeepsData
<1> QED BY <1>2, <1>3 DEF RoomInv

LEMMA RoomRequest ==
    ASSUME DataInv, RoomInv, Request
    PROVE  RoomInv'
<1>1. UNCHANGED <<rows, disk, lost, writer>> /\ CacheInv
  BY DEF Request, Open, Release, Read, Hang, WriteBuf, Extend, TruncateBegin, DataInv
<1>2. Placing = {}
  <2>1. op.kind \in {"idle", "write"}
    BY DEF Request, Open, Release, Read, Hang, WriteBuf, Extend, TruncateBegin, Idle
  <2> QED BY <2>1, NoPlacing
<1> QED BY <1>1, <1>2, RequestKeeps, RoomKept

\* The three writes, and the one that fails.
LEMMA RoomWrites ==
    ASSUME DataInv, RoomInv, WritePresent \/ WriteInPlace \/ WriteInsert \/ WriteFails
    PROVE  RoomInv'
<1>1. op.kind = "write" /\ CacheInv /\ Placing = {} /\ Merged \in Objects /\ T!TypeOK
  <2>1. op.kind = "write" /\ CacheInv
    BY DEF WritePresent, WriteInPlace, WriteInsert, WriteFails, ChunkReady, DataInv
  <2> QED BY <2>1, NoPlacing, ChunkFacts, InvParts DEF StoreSafe
<1>2. Target \in Info /\ Key \in Keys /\ OldUse \in Int /\ NewData \subseteq Contents
  BY <1>1, ChunkFacts DEF NewData
<1>3. CASE WritePresent
  <2>1. PICK d \in NewData :
          /\ T!ReplacePresent(Key, d, OldBlock, OldUse)
          /\ Committed([Target EXCEPT !.num = T!IdOf(d), !.hash = d, !.ref = Null],
                       AddUse(Merged, Target.ref, -1), d, TRUE)
    BY <1>3 DEF WritePresent
  <2>2. DOMAIN rows' = DOMAIN rows
    BY <1>1, <1>2, <2>1, PresentTables DEF KeepsHashes
  <2>3. heap' = Live(AddUse(Merged, Target.ref, -1), fh') /\ UNCHANGED <<disk, writer, lost>>
    BY <2>1 DEF Committed
  <2>4. KeepsData(heap, heap')
    BY <1>1, <2>3, LeftBehindKeeps
  <2> QED BY <1>1, <2>2, <2>3, <2>4, RoomKept
<1>4. CASE WriteInPlace
  <2>1. PICK d \in NewData :
          /\ T!ReplaceInPlace(Key, d, OldBlock, OldUse)
          /\ Committed([Target EXCEPT !.hash = d], Merged, d, FALSE)
    BY <1>4 DEF WriteInPlace
  <2>2. DOMAIN rows' = DOMAIN rows
    BY <1>1, <1>2, <2>1, InPlaceTables
  <2>3. heap' = Live(Merged, fh') /\ UNCHANGED <<disk, writer, lost>>
    BY <2>1 DEF Committed
  <2>4. KeepsData(heap, heap')
    BY <1>1, <2>3, LiveKeeps, MergedKeeps, KeepsTransitive
  <2> QED BY <1>1, <2>2, <2>3, <2>4, RoomKept
<1>5. CASE WriteInsert
  <2>1. PICK d \in NewData :
          /\ T!ReplaceInsert(Key, d, OldBlock, OldUse)
          /\ Committed([Target EXCEPT !.num = Len(rows) + 1, !.hash = d, !.ref = Null],
                       AddUse(Merged, Target.ref, -1), d, FALSE)
    BY <1>5 DEF WriteInsert
  <2> DEFINE info == [Target EXCEPT !.num = Len(rows) + 1, !.hash = d, !.ref = Null]
  <2>2. DOMAIN rows' = DOMAIN rows \cup {Len(rows) + 1} /\ Len(rows) < MaxRows
    BY <1>1, <1>2, <2>1, InsertTables
  <2>3. Len(rows) + 1 \in Numbers
    BY <1>1, <2>2, RowsAreNumbers, CacheAssumption DEF Numbers
  <2>4. info \in Info /\ info.num = Len(rows) + 1
    BY <1>2, <2>1, <2>3 DEF Info
  <2>5. heap' = Live(AddUse(Merged, Target.ref, -1), fh') /\ UNCHANGED <<disk, writer, lost>>
    BY <2>1 DEF Committed
  <2>6. Placing' = {info.num}
    <3> HIDE DEF info
    <3>1. Committed(info, AddUse(Merged, Target.ref, -1), d, FALSE)
      BY <2>1 DEF info
    <3> QED BY <1>1, <2>4, <3>1, PlacingCommitted
  <2>7. KeepsData(heap, heap')
    BY <1>1, <2>5, LeftBehindKeeps
  <2> HIDE DEF info
  <2> QED BY <1>1, <2>2, <2>4, <2>5, <2>6, <2>7, RoomKept
<1>6. CASE WriteFails
  <2>1. heap' = Merged /\ UNCHANGED <<rows, disk, writer, lost>>
    BY <1>6 DEF WriteFails
  <2> QED BY <1>1, <2>1, MergedKeeps, RoomKept
<1> QED BY <1>3, <1>4, <1>5, <1>6

LEMMA RoomPlaces ==
    ASSUME DataInv, RoomInv, PlacePresent \/ PlaceData
    PROVE  RoomInv'
<1> DEFINE i == fh[op.h].blocks[op.block]
           n == i.num
           item == [use |-> 1, data |-> op.data, dirty |-> TRUE]
<1>1. /\ op.kind = "place" /\ CacheInv /\ heap \in Objects
      /\ n \in Numbers \ {0} /\ DOMAIN rows \subseteq Numbers \ {0}
  <2>1. op.kind = "place" /\ CacheInv
    BY DEF PlacePresent, PlaceData, DataInv
  <2> QED BY <2>1, PlaceFacts, InvParts, RowsAreNumbers DEF StoreSafe
<1>2. UNCHANGED <<rows, disk, writer>>
  BY DEF PlacePresent, PlaceData, Unlocked
<1>3. CASE PlacePresent
  <2>1. op.present /\ heap' = AddUse(heap, n, 1) /\ lost' = lost
    BY <1>3 DEF PlacePresent
  <2>2. Placing = {}
    BY <2>1 DEF Placing
  <2> HIDE DEF n
  <2>3. KeepsData(heap, heap')
    BY <1>1, <2>1, AddUseKeeps
  <2> QED BY <1>1, <1>2, <2>1, <2>2, <2>3, RoomKept
<1>4. CASE PlaceData
  <2>1. /\ ~op.present /\ heap' = Live([heap EXCEPT ![n] = item], fh')
        /\ lost' = lost \ {n}
    BY <1>4 DEF PlaceData
  <2>2. Placing = {n}
    BY <1>1, <2>1 DEF Placing
  <2>3. item # Null /\ item.dirty = TRUE
    <3>1. op.data \in Contents
      BY <1>1, PlaceFacts DEF Place
    <3>2. item \in Item
      BY <3>1 DEF Item
    <3> QED BY <3>2, NullAssumption
  <2> HIDE DEF n, item
  <2>4. /\ \A m \in Numbers : heap'[m] = IF m = n THEN item ELSE heap[m]
        /\ \A o \in Orphans : heap[o] = Null => heap'[o] = Null
    BY <1>1, <2>1, NumbersFacts DEF Live, Objects
  <2>5. NothingErased'
    BY <2>4 DEF RoomInv, NothingErased
  <2>6. Backed'
    BY <1>1, <1>2, <2>1, <2>2, <2>3, <2>4 DEF RoomInv, Backed
  <2> QED BY <1>2, <2>5, <2>6 DEF RoomInv
<1> HIDE DEF i
<1> QED BY <1>3, <1>4

LEMMA RoomTruncates ==
    ASSUME DataInv, RoomInv, TruncateBlock \/ TruncateEnd
    PROVE  RoomInv'
<1>1. CacheInv /\ Placing = {} /\ UNCHANGED <<disk, writer, lost>>
  BY NoPlacing DEF TruncateBlock, TruncateEnd, Truncating, DataInv
<1>2. CASE TruncateBlock
  BY <1>1, <1>2, TruncateKeeps, RoomKept DEF KeepsHashes
<1>3. CASE TruncateEnd
  BY <1>1, <1>3, SameDataKept, RoomKept DEF TruncateEnd
<1> QED BY <1>2, <1>3

\* A dirty block has data, which is then in the file.
LEMMA RoomWriter ==
    ASSUME Roomy, DataInv, RoomInv, WriterStep
    PROVE  RoomInv'
<1>1. PICK n \in Numbers : WriterFlushes(n)
  BY OnlyFlushes DEF RoomInv
<1>2. /\ heap[n] # Null /\ heap[n].dirty /\ disk' = [disk EXCEPT ![n] = heap[n].data]
      /\ heap' = [heap EXCEPT ![n].dirty = FALSE]
      /\ UNCHANGED <<rows, fh, op, lost, writer>>
  BY <1>1 DEF WriterFlushes, Flushed
<1>3. /\ CacheInv /\ heap \in Objects /\ DOMAIN rows \subseteq Numbers \ {0}
      /\ disk \in [Numbers -> Contents \cup {Null, Signature}]
  BY InvParts, RowsAreNumbers DEF DataInv, StoreSafe, CacheInv, TypeOK
<1>4. /\ \A m \in Numbers : m # n => heap'[m] = heap[m] /\ disk'[m] = disk[m]
      /\ disk'[n] = heap[n].data
  BY <1>2, <1>3 DEF Objects
<1>5. NothingErased'
  BY <1>2, <1>3, NumbersFacts DEF RoomInv, NothingErased, Objects
<1>6. n # 0 => heap[n].data # Null
  BY <1>2 DEF DataInv, DataSafe, CleanAsOnDisk
<1>7. Placing' = Placing
  BY <1>2 DEF Placing
<1>8. Backed'
  BY <1>2, <1>3, <1>4, <1>6, <1>7 DEF RoomInv, Backed
<1> QED BY <1>2, <1>5, <1>8 DEF RoomInv

LEMMA RoomDies ==
    ASSUME DataInv, RoomInv, Dies
    PROVE  RoomInv'
<1>1. /\ UNCHANGED <<rows, disk>> /\ heap' = [n \in DOMAIN heap |-> Null] /\ writer' = Flushing
      /\ lost' = lost \cup {n \in Cached : heap[n].dirty} \cup Placing
  BY DEF Dies, Unwritten, Placing
<1>2. heap \in Objects /\ DOMAIN rows \subseteq Numbers \ {0}
  BY InvParts, RowsAreNumbers DEF DataInv, StoreSafe
<1>3. NothingErased'
  BY <1>1, <1>2 DEF NothingErased, Objects
<1>4. Backed'
  BY <1>1, <1>2 DEF RoomInv, Backed, Cached
<1> QED BY <1>1, <1>3, <1>4 DEF RoomInv

LEMMA RoomStep == Roomy /\ DataInv /\ RoomInv /\ [Next]_vars => RoomInv'
<1> SUFFICES ASSUME Roomy, DataInv, RoomInv, [Next]_vars PROVE RoomInv'
  OBVIOUS
<1>1. CASE Request
  BY <1>1, RoomRequest
<1>2. CASE WriteStep
  BY <1>2, RoomWrites, RoomPlaces DEF WriteStep
<1>3. CASE TruncateStep
  BY <1>3, RoomTruncates DEF TruncateStep
<1>4. CASE WriterStep
  BY <1>4, RoomWriter
<1>5. CASE TruncateHole \/ Crash
  BY <1>5, RoomDies DEF TruncateHole, Crash
<1>6. CASE Restart \/ UNCHANGED vars
  <2>1. UNCHANGED <<rows, disk, heap, lost, writer>> /\ CacheInv
    BY <1>6 DEF Restart, vars, DataInv
  <2>2. Placing \subseteq Placing'
    BY <1>6 DEF Restart, vars, Placing, Down
  <2> QED BY <2>1, <2>2, SameDataKept, RoomKept
<1> QED BY <1>1, <1>2, <1>3, <1>4, <1>5, <1>6 DEF Next

\* Only old data that is nowhere cannot be read.
LEMMA LockLeaks ==
    ASSUME DataInv, RoomInv, WriteFails
    PROVE  Target.num \in lost
<1>1. /\ CacheInv /\ op.kind = "write" /\ Target.ref # Null /\ Target.num # 0
      /\ PopulateFails(Placed(op.h, ChunkBlock)[Target.ref], Target.num)
  BY DEF WriteFails, Merging, DataInv
<1> DEFINE objects == Placed(op.h, ChunkBlock)
           n == Target.num
<1>2. /\ Target \in Info /\ n =< Len(rows)
      /\ op.h \in Handles /\ fh[op.h] # Null /\ ChunkBlock \in Blocks
  BY <1>1, ChunkFacts
<1>3. InfoOf(op.h, ChunkBlock) \in Info /\ InfoSafe(Target, objects)
  BY <1>1, <1>2, LookupSafe DEF Target
<1>4. KeepsData(heap, objects)
  BY <1>1, <1>3, InvParts, PlacedKeeps DEF StoreSafe
<1>5. n \in DOMAIN rows /\ n \in Numbers \ {0}
  <2>1. n \in Nat /\ n \in Numbers \ {0}
    BY <1>1, <1>2, NumbersFacts DEF Info
  <2> QED BY <1>1, <1>2, <2>1, RowsAreNumbers
<1>6. /\ objects[Target.ref] # Null /\ objects[Target.ref].data = Null
      /\ \A m \in n..MaxRows : disk[m] = Null
  BY <1>1, <1>3 DEF PopulateFails, InfoSafe
<1> HIDE DEF objects, n
<1>7. Target.ref = n
  <2>1. Target.ref \in Numbers \cup Orphans
    BY <1>1, <1>2 DEF Info
  <2>2. Target.ref \notin Orphans
    BY <1>4, <1>6 DEF KeepsData, RoomInv, NothingErased
  <2> QED BY <1>1, <1>3, <2>1, <2>2 DEF InfoSafe, n
<1>8. disk[n] = Null
  BY <1>5, <1>6, CacheAssumption DEF Numbers
<1>9. ~(heap[n] # Null /\ heap[n].dirty)
  BY <1>4, <1>5, <1>6, <1>7 DEF KeepsData, DataInv, DataSafe, CleanAsOnDisk
<1>10. Placing = {}
  BY <1>1, NoPlacing
<1>11. n \in lost
  BY <1>5, <1>8, <1>9, <1>10 DEF RoomInv, Backed
<1> QED BY <1>11 DEF n

\* No other step leaves a block_info locked but the gap between the commit of a
\* write and its cache update.
LEMMA LeakStep ==
    ASSUME Roomy, DataInv, RoomInv, Next, NEW h \in Handles, NEW b \in Blocks,
           fh[h] # Null, fh'[h] # Null, ~Blocked(h, b), Blocked(h, b)', op'.kind # "place"
    PROVE  fh'[h].blocks[b].num \in lost
<1> DEFINE old == fh[h].blocks[b]
           new == fh'[h].blocks[b]
<1>1. CacheInv /\ fh \in OpenFiles /\ fh[h] \in Handle
  BY InvParts DEF DataInv, StoreSafe, OpenFiles
<1>2. new # Null /\ new.locked
  BY DEF Blocked
<1>3. new # old
  BY <1>2 DEF Blocked
<1>4. ASSUME NEW g \in Handles, NEW c \in Blocks, NEW i, fh[g] # Null, fh' = WithInfo(g, c, i)
      PROVE  h = g /\ b = c /\ new = i
  <2>1. fh[g] \in Handle
    BY <1>1, <1>4 DEF OpenFiles
  <2> QED BY <1>1, <1>3, <1>4, <2>1 DEF WithInfo, OpenFiles, Handle
<1>5. ASSUME NEW g \in Handles, NEW s, fh' = [fh EXCEPT ![g].size = s]
      PROVE  FALSE
  BY <1>1, <1>3, <1>5 DEF OpenFiles, Handle
<1>6. CASE Request
  <2>1. ASSUME NEW g \in Handles, NEW f \in Files, Open(g, f)
        PROVE  FALSE
    BY <1>1, <1>2, <1>3, <2>1 DEF Open, OpenFiles
  <2>2. ASSUME NEW g \in Handles, Release(g)
        PROVE  FALSE
    BY <1>1, <1>3, <2>2 DEF Release, OpenFiles
  <2>3. ASSUME NEW g \in Handles, NEW c \in Blocks, Read(g, c)
        PROVE  FALSE
    <3>1. fh[g] # Null /\ ~Blocked(g, c) /\ fh' = WithInfo(g, c, Locked(g, c))
      BY <2>3 DEF Read
    <3>2. /\ new = Locked(g, c) /\ InfoOf(g, c) \in Info
      BY <1>1, <1>4, <3>1, LookupSafe
    <3>3. ~InfoOf(g, c).locked
      BY <3>1 DEF InfoOf, Blocked, Load
    <3>4. Locked(g, c).locked = InfoOf(g, c).locked
      BY <3>2 DEF Locked, Info
    <3> QED BY <1>2, <3>2, <3>3, <3>4
  <2>4. ASSUME NEW g \in Handles, NEW from \in 0..MaxSize, NEW end \in 0..MaxSize,
               WriteBuf(g, from, end)
        PROVE  FALSE
    BY <1>3, <1>5, <2>4 DEF WriteBuf
  <2>5. ASSUME NEW g \in Handles, NEW n \in 0..MaxSize, Extend(g, n) \/ TruncateBegin(g, n)
        PROVE  FALSE
    BY <1>3, <1>5, <2>5 DEF Extend, TruncateBegin
  <2>6. ASSUME NEW g \in Handles, NEW c \in Blocks, Hang(g, c)
        PROVE  FALSE
    BY <1>3, <2>6 DEF Hang
  <2> QED BY <1>6, <2>1, <2>2, <2>3, <2>4, <2>5, <2>6 DEF Request
<1>7. ~(WritePresent \/ WriteInPlace \/ WriteInsert)
  <2>1. ASSUME NEW info, NEW objects, NEW d, NEW present, Committed(info, objects, d, present)
        PROVE  FALSE
    BY <2>1 DEF Committed
  <2> QED BY <2>1 DEF WritePresent, WriteInPlace, WriteInsert
<1>8. CASE WriteFails
  <2>1. /\ op.kind = "write" /\ fh' = WithInfo(op.h, ChunkBlock, [Target EXCEPT !.locked = TRUE])
    BY <1>8 DEF WriteFails
  <2>2. op.h \in Handles /\ fh[op.h] # Null /\ ChunkBlock \in Blocks /\ Target \in Info
    BY <1>1, <2>1, ChunkFacts
  <2>3. new = [Target EXCEPT !.locked = TRUE]
    BY <1>4, <2>1, <2>2
  <2>4. new.num = Target.num
    BY <2>2, <2>3 DEF Info
  <2> QED BY <1>8, <2>4, LockLeaks
<1>9. CASE PlacePresent \/ PlaceData
  <2>1. op.kind = "place"
    BY <1>9 DEF PlacePresent, PlaceData
  <2>2. PICK i \in Info : fh' = WithInfo(op.h, op.block, [i EXCEPT !.locked = FALSE])
    <3>1. fh[op.h].blocks[op.block] \in Info /\ fh[op.h].blocks[op.block].num \in Numbers
      BY <1>1, <2>1, PlaceFacts DEF Info
    <3>2. [fh[op.h].blocks[op.block] EXCEPT !.ref = fh[op.h].blocks[op.block].num] \in Info
      BY <3>1 DEF Info
    <3> QED BY <1>9, <3>1, <3>2 DEF PlacePresent, PlaceData, Unlocked
  <2>3. op.h \in Handles /\ fh[op.h] # Null /\ op.block \in Blocks
    BY <1>1, <2>1, PlaceFacts
  <2>4. new = [i EXCEPT !.locked = FALSE]
    BY <1>4, <2>2, <2>3
  <2>5. ~new.locked
    BY <2>4 DEF Info
  <2> QED BY <1>2, <2>5
<1>10. CASE TruncateBlock
  <2>1. op.kind = "truncate" /\ op.next < op.end /\ fh' = WithInfo(op.h, op.next, Null)
    BY <1>10 DEF TruncateBlock, Truncating
  <2>2. op.h \in Handles /\ fh[op.h] # Null /\ op.next \in Blocks
    BY <1>1, <2>1, TruncateFacts
  <2> QED BY <1>2, <1>4, <2>1, <2>2
<1>11. CASE TruncateEnd
  <2>1. op.kind = "truncate" /\ fh' = [fh EXCEPT ![op.h].size = op.size]
    BY <1>11 DEF TruncateEnd
  <2>2. op.h \in Handles
    <3>1. op \in Truncate
      BY <1>1, <2>1, InvParts DEF Idle, Hung, Down, Write, Place
    <3> QED BY <3>1 DEF Truncate
  <2> QED BY <1>5, <2>1, <2>2
<1>12. CASE WriterStep
  BY <1>3, <1>12, OnlyFlushes DEF RoomInv, WriterFlushes
<1>13. CASE TruncateHole \/ Crash
  BY <1>13 DEF TruncateHole, Crash, Dies
<1>14. CASE Restart
  BY <1>3, <1>14 DEF Restart
<1> QED BY <1>6, <1>7, <1>8, <1>9, <1>10, <1>11, <1>12, <1>13, <1>14
        DEF Next, WriteStep, TruncateStep

----------------------------------------------------------------------------
(* The theorems *)

LEMMA DataInit == Init => DataInv
<1> SUFFICES ASSUME Init PROVE DataInv
  OBVIOUS
<1>1. CacheInv
  BY InvInit
<1>2. rows = <<>> /\ heap = [n \in Numbers \cup Orphans |-> Null] /\ op = Idle
  BY DEF Init, T!Init
<1>3. Placing = {}
  BY <1>2, NoPlacing DEF Idle
<1>4. HashIsContent
  BY <1>2 DEF HashIsContent
<1>5. CleanAsOnDisk(heap) /\ PlacingAsCommitted
  BY <1>2, <1>3 DEF CleanAsOnDisk, PlacingAsCommitted
<1> QED BY <1>1, <1>4, <1>5 DEF DataInv, DataSafe

LEMMA DataStep == DataInv /\ [Next]_vars => DataInv'
<1> SUFFICES ASSUME DataInv, [Next]_vars PROVE DataInv'
  OBVIOUS
<1>1. CacheInv'
  BY InvStep DEF DataInv
<1>2. CASE Request
  BY <1>1, <1>2, DataRequest
<1>3. CASE WriteStep
  BY <1>1, <1>3, DataWritePresent, DataWriteInPlace, DataWriteInsert, DataWriteFails,
     DataPlacePresent, DataPlaceData DEF WriteStep
<1>4. CASE TruncateStep
  BY <1>1, <1>4, DataTruncateBlock, DataTruncateEnd DEF TruncateStep
<1>5. CASE WriterStep
  <2>1. ASSUME NEW n \in Numbers, WriterFlushes(n) \/ WriterPicks(n)
        PROVE  DataInv'
    BY <1>1, <2>1, DataFlushed DEF WriterFlushes, WriterPicks
  <2> QED BY <1>1, <1>5, <2>1, DataWriterMoves, DataWriterErases, DataReclaim DEF WriterStep
<1>6. CASE TruncateHole \/ Crash
  BY <1>1, <1>6, DataDies DEF TruncateHole, Crash
<1>7. CASE Restart
  BY <1>1, <1>7, DataRestart
<1>8. CASE UNCHANGED vars
  <2>1. UNCHANGED <<rows, disk, heap, fh, op, lost>>
    BY <1>8 DEF vars
  <2>2. Placing' = Placing /\ op'.data = op.data
    BY <2>1 DEF Placing
  <2>3. KeepsData(heap, heap')
    BY <2>1, SameDataKept
  <2> QED BY <1>1, <2>1, <2>2, <2>3, SameHashesKept, DataKeptByObjects
<1> QED BY <1>2, <1>3, <1>4, <1>5, <1>6, <1>7, <1>8 DEF Next

\* What is clean in the cache is in the storage file, or not loaded; and between
\* commit and cache update the data on its way is what the row promises.
THEOREM CleanLosesNothing == Spec => []DataSafe
<1>1. DataInv => DataSafe
  BY DEF DataInv
<1> QED BY <1>1, DataInit, DataStep, PTL DEF Spec

\* Every storage block delivers the content of its hash through rewrites in
\* place, flushes, evictions, reloads and crashes, unless its data was dropped
\* before it was written.
THEOREM BlocksKeepContent == Spec => []HashIsContent
<1>1. DataInv => HashIsContent
  BY DEF DataInv
<1> QED BY <1>1, DataInit, DataStep, PTL DEF Spec

\* As long as the cache has room for every storage block, a write is refused,
\* and its block_info left locked, only over a block whose data was dropped
\* before it was written: what was stored can be read back, whatever requests,
\* flushes and restarts came between.
THEOREM LeaksOnlyOnLost == Roomy => (Spec => LocksLeakOnlyOnLost)
<1> SUFFICES ASSUME Roomy PROVE Spec => LocksLeakOnlyOnLost
  OBVIOUS
<1>1. Init => RoomInv
  <2> SUFFICES ASSUME Init PROVE RoomInv
    OBVIOUS
  <2>1. rows = <<>> /\ heap = [n \in Numbers \cup Orphans |-> Null] /\ writer = Flushing
    BY DEF Init, T!Init
  <2> QED BY <2>1 DEF RoomInv, NothingErased, Backed
<1>2. DataInv /\ RoomInv /\ [Next]_vars => RoomInv'
  BY RoomStep
<1> DEFINE LeaksOnLost ==
             \A h \in Handles : fh[h] # Null /\ fh'[h] # Null =>
                \A b \in Blocks :
                   /\ ~Blocked(h, b)
                   /\ Blocked(h, b)'
                   /\ op'.kind # "place"
                   => fh'[h].blocks[b].num \in lost
<1>3. DataInv /\ RoomInv /\ [Next]_vars => [LeaksOnLost]_vars
  BY LeakStep
<1> QED BY <1>1, <1>2, <1>3, DataInit, DataStep, PTL DEF Spec, LocksLeakOnlyOnLost
============================================================================
