----------------------------- MODULE BlocksCache -----------------------------
(***************************************************************************)
(* Class BlocksCache (blockscache.cpp): the deduplicating block cache,     *)
(* with the block tables of class DataBase, the storage file, the open     *)
(* files (file_info, block_info) and the background writer thread.         *)
(*                                                                         *)
(* One FUSE thread (fuse -s) and the writer thread interleave.  A FUSE     *)
(* request is several steps: each block written is one transaction of the  *)
(* tables and then one update of the cache, each block released is one     *)
(* transaction, and the writer or a crash may come between any two.        *)
(*                                                                         *)
(* A block's content has BlockSize units; a unit stands for a run of bytes *)
(* that requests never split.  The MurmurHash3 of a block is taken to be   *)
(* injective, so a hash IS the content it was computed from.               *)
(***************************************************************************)
EXTENDS Integers, Sequences, FiniteSets

CONSTANTS
    Files,        \* rows of the files table, by _ID
    NumBlocks,    \* bound on the blocks of a file
    BlockSize,    \* block_size, in units
    DbBlockSize,  \* DataBase::block_size, in units: the constructor reads it
                  \* from the wrong structure, so it is not BlockSize
    Bytes,        \* values of a unit; 0 is the zero fill
    Handles,      \* file_info objects, one per open
    Exclusive,    \* TRUE: no file is opened while it is open
    CacheLimit,   \* the writer evicts above it (500)
    EvictBatch,   \* at most this many blocks a round (64)
    MaxOrphans,   \* bound on evicted objects that handles still reach
    MaxRows,      \* bound on block_hashes
    MaxUse,       \* bound on use counts
    MaxRestarts,  \* bound on restarts of the process
    Null, EmptyBlob, Signature

ASSUME CacheAssumption ==
    /\ NumBlocks \in Nat \ {0}
    /\ BlockSize \in Nat \ {0}
    /\ DbBlockSize \in 0..BlockSize
    /\ Bytes \subseteq Nat /\ 0 \in Bytes
    /\ Exclusive \in BOOLEAN
    /\ CacheLimit \in Nat /\ EvictBatch \in Nat \ {0}
    /\ MaxOrphans \in Nat /\ MaxRows \in Nat /\ MaxUse \in Nat \ {0}
    /\ MaxRestarts \in Nat

VARIABLES
    rows,        \* block_hashes; a row's index is its _ID
    fileBlocks,  \* file_blocks: the hash of each written file block
    fsize,       \* files.size
    disk,        \* storage.blk, by block number; Null: never written
    heap,        \* storage_block objects: n >= 0 is the one in _blocks under
                 \* number n, n < 0 one erased from _blocks and not yet freed
    fh,          \* the open file_info objects
    op,          \* what the FUSE thread is doing
    writer,      \* where the writer thread is
    restarts,    \* restarts so far
    lost         \* history: blocks whose data was dropped before it was written

tvars == <<rows, fileBlocks>>
vars == <<rows, fileBlocks, fsize, disk, heap, fh, op, writer, restarts, lost>>

Blocks == 0..(NumBlocks - 1)
Keys == Files \X Blocks
Units == 0..(BlockSize - 1)
Contents == [Units -> Bytes]
Zero == [i \in Units |-> 0]
MaxSize == NumBlocks * BlockSize
Numbers == 0..MaxRows
Orphans == (-MaxOrphans)..(-1)

T == INSTANCE BlockTables WITH Hashes <- Contents, Counts <- (-MaxUse)..MaxUse

\* storage_block; its hash and loaded flag are only ever printed.
Item == [use : Int, data : Contents \cup {Null}, dirty : BOOLEAN]

\* block_info; ref is the weak_ptr storageBlock.
Info == [num : Numbers, hash : Contents \cup {Null, EmptyBlob}, empty : BOOLEAN,
         ref : Numbers \cup Orphans \cup {Null}, locked : BOOLEAN]

Handle == [file : Files, size : 0..MaxSize, blocks : [Blocks -> Info \cup {Null}]]

Idle == [kind |-> "idle"]
Hung == [kind |-> "hung"]
Down == [kind |-> "down"]
Write == [kind : {"write"}, h : Handles, next : 0..MaxSize, end : 0..MaxSize]
Place == [kind : {"place"}, h : Handles, next : 0..MaxSize, end : 0..MaxSize,
          block : Blocks, present : BOOLEAN, data : Contents]
Truncate == [kind : {"truncate"}, h : Handles, next : 0..NumBlocks, end : 0..NumBlocks,
             size : 0..MaxSize]

\* Null, EmptyBlob and Signature are values of their own.
ASSUME NullAssumption ==
    /\ Null \notin Contents \cup Int \cup Item \cup Info \cup Handle
    /\ EmptyBlob \notin Contents \cup {Null}
    /\ Signature \notin Contents \cup {Null}

Objects == [Numbers \cup Orphans -> Item \cup {Null}]
OpenFiles == [Handles -> Handle \cup {Null}]

Flushing == [phase |-> "flush", victims |-> {}]
Writer == [phase : {"flush", "pick", "erase"}, victims : SUBSET Numbers]

TypeOK ==
    /\ T!TypeOK
    /\ fsize \in [Files -> 0..MaxSize]
    /\ disk \in [Numbers -> Contents \cup {Null, Signature}]
    /\ heap \in Objects
    /\ fh \in OpenFiles
    /\ op \in {Idle, Hung, Down} \cup Write \cup Place \cup Truncate
    /\ writer \in Writer
    /\ restarts \in 0..MaxRestarts
    /\ lost \subseteq Numbers

Init ==
    /\ T!Init
    /\ fsize = [f \in Files |-> 0]
    /\ disk = [n \in Numbers |-> IF n = 0 THEN Signature ELSE Null]
    /\ heap = [n \in Numbers \cup Orphans |-> Null]
    /\ fh = [h \in Handles |-> Null]
    /\ op = Idle
    /\ writer = Flushing
    /\ restarts = 0
    /\ lost = {}

----------------------------------------------------------------------------
(* Objects *)

Cached == {n \in Numbers : heap[n] # Null}

Refers(files, n) ==
    \E h \in Handles : /\ files[h] # Null
                       /\ \E b \in Blocks : /\ files[h].blocks[b] # Null
                                            /\ files[h].blocks[b].ref = n

\* An erased object nobody refers to is gone.
Live(objects, files) ==
    [n \in DOMAIN objects |->
        IF n < 0 /\ ~Refers(files, n) THEN Null ELSE objects[n]]

\* Every weak_ptr to n now points to m.
Redirect(files, n, m) ==
    [h \in Handles |->
        IF files[h] = Null THEN Null
        ELSE [files[h] EXCEPT !.blocks = [b \in Blocks |->
                LET i == files[h].blocks[b]
                IN  IF i # Null /\ i.ref = n THEN [i EXCEPT !.ref = m] ELSE i]]]

WithInfo(h, b, i) == [fh EXCEPT ![h].blocks[b] = i]

\* item->use_count changes by d, if there is an item.
AddUse(objects, n, d) ==
    IF n # Null /\ objects[n] # Null
    THEN [objects EXCEPT ![n].use = @ + d] ELSE objects

\* Populating block 0 as well.
PopulateAny(item, n) ==
    IF item.data # Null THEN item
    ELSE [item EXCEPT !.data = IF disk[n] = Null THEN Zero ELSE disk[n]]

\* _populateStorageBlock: the data of block n, read from the file if the object
\* has none.  A read that comes back short throws, and leaves the zeroes of
\* the resize before it; between blocks that are written, a hole reads zero.
Populate(item, n) ==
    IF item.data # Null \/ n = 0 THEN item
    ELSE [item EXCEPT !.data = IF disk[n] = Null THEN Zero ELSE disk[n]]

PopulateFails(item, n) ==
    item.data = Null /\ n # 0 /\ \A m \in n..MaxRows : disk[m] = Null

\* loadFileBlock, by a handle that takes the file's size for size.  A hash
\* without a row gives the NULLs of the LEFT JOIN.
Load(f, size, b) ==
    LET x == fileBlocks[<<f, b>>]
        found == b * DbBlockSize =< size /\ x # Null
    IN  [num   |-> IF found /\ T!Present(x) THEN T!IdOf(x) ELSE 0,
         hash  |-> IF ~found THEN Null ELSE IF T!Present(x) THEN x ELSE EmptyBlob,
         empty |-> ~found,
         ref   |-> Null,
         locked |-> FALSE]

\* A reference without a row loaded as a block with one user.
LoadedUseOne(i) == IF i.num = 0 THEN 1 ELSE rows[i.num].use

\* The use_count that loadFileBlock returns beside it.
LoadedUse(i) == IF i.num = 0 THEN 0 ELSE rows[i.num].use

\* _getLockedFileBlock: the handle's block_info, loaded when it is new ...
InfoOf(h, b) ==
    IF fh[h].blocks[b] = Null THEN Load(fh[h].file, fh[h].size, b) ELSE fh[h].blocks[b]

\* ... pointing at the cache's object unless it is empty or points at one ...
Locked(h, b) ==
    LET i == InfoOf(h, b)
    IN  IF i.empty \/ i.ref # Null THEN i ELSE [i EXCEPT !.ref = i.num]

\* ... which is placed in the cache when missing, with the use count just
\* loaded: zero, if it was this handle's block_info that was there before.
Placed(h, b) ==
    LET i == InfoOf(h, b)
        use == IF fh[h].blocks[b] = Null THEN LoadedUse(i) ELSE 0
    IN  IF i.empty \/ i.ref # Null \/ heap[i.num] # Null THEN heap
        ELSE [heap EXCEPT ![i.num] = [use |-> use, data |-> Null, dirty |-> FALSE]]

Blocked(h, b) == fh[h].blocks[b] # Null /\ fh[h].blocks[b].locked

----------------------------------------------------------------------------
(* The FUSE thread: requests.  Path-based Truncate is Open, Ftruncate and  *)
(* Release of a file_info of its own, as in dedupfs.cpp.                   *)

Bounded(objects) ==
    \A n \in Numbers \cup Orphans :
        objects[n] # Null => objects[n].use \in (-MaxUse)..MaxUse

CountsBounded == T!UsesBounded /\ Bounded(heap)

Open(h, f) ==
    /\ op = Idle /\ fh[h] = Null
    /\ Exclusive => \A g \in Handles : fh[g] # Null => fh[g].file # f
    /\ fh' = [fh EXCEPT ![h] =
                [file |-> f, size |-> fsize[f], blocks |-> [b \in Blocks |-> Null]]]
    /\ UNCHANGED <<rows, fileBlocks, fsize, disk, heap, op, writer, restarts, lost>>

Release(h) ==
    /\ op = Idle /\ fh[h] # Null
    /\ fh' = [fh EXCEPT ![h] = Null]
    /\ heap' = Live(heap, fh')
    /\ UNCHANGED <<rows, fileBlocks, fsize, disk, op, writer, restarts, lost>>

\* DataBase::ftruncate; a handle that believes the file has this size already
\* writes nothing.
SetSize(h, n) ==
    IF fh[h].size = n THEN fsize ELSE [fsize EXCEPT ![fh[h].file] = n]

\* readBuf, of (part of) one block.
Read(h, b) ==
    /\ op = Idle /\ fh[h] # Null /\ ~Blocked(h, b)
    /\ b * BlockSize < fh[h].size
    /\ LET i == Locked(h, b)
           objects == Placed(h, b)
       IN  /\ fh' = WithInfo(h, b, i)
           /\ heap' = IF i.ref = Null THEN objects
                      ELSE [objects EXCEPT ![i.ref] = Populate(@, i.num)]
    /\ UNCHANGED <<rows, fileBlocks, fsize, disk, op, writer, restarts, lost>>

\* A block_info that an exception left locked: whoever needs it waits for ever.
Hang(h, b) ==
    /\ fh[h] # Null /\ Blocked(h, b)
    /\ \/ op = Idle /\ b * BlockSize < fh[h].size
       \/ op.kind = "write" /\ op.h = h /\ op.next \div BlockSize = b
    /\ op' = Hung
    /\ UNCHANGED <<rows, fileBlocks, fsize, disk, heap, fh, writer, restarts, lost>>

----------------------------------------------------------------------------
(* writeBuf: extend the file first, then write it block by block. *)

WriteBuf(h, from, end) ==
    /\ op = Idle /\ fh[h] # Null /\ from < end
    /\ IF end > fh[h].size
       THEN fsize' = SetSize(h, end) /\ fh' = [fh EXCEPT ![h].size = end]
       ELSE UNCHANGED <<fsize, fh>>
    /\ op' = [kind |-> "write", h |-> h, next |-> from, end |-> end]
    /\ UNCHANGED <<rows, fileBlocks, disk, heap, writer, restarts, lost>>

\* The block the write has come to, and the units of it that it changes.
ChunkBlock == op.next \div BlockSize
\* One unit too many.
ChunkTooLong == {u \in Units : ChunkBlock * BlockSize + u \in op.next..op.end}
Chunk == {u \in Units : ChunkBlock * BlockSize + u \in op.next..(op.end - 1)}
NextChunk == IF (ChunkBlock + 1) * BlockSize < op.end
             THEN (ChunkBlock + 1) * BlockSize ELSE op.end

Target == Locked(op.h, ChunkBlock)

\* The old data is needed: the chunk is part of a block, and there is a block.
\* A block_info that is marked empty, or whose object is block 0, has none.
Merging == Target.ref # Null /\ Target.num # 0 /\ Chunk # Units

\* The objects once the old data has been read in.
Merged ==
    IF Merging
    THEN [Placed(op.h, ChunkBlock) EXCEPT ![Target.ref] = Populate(@, Target.num)]
    ELSE Placed(op.h, ChunkBlock)

\* What the block may contain after the write: any new units in the chunk,
\* and the old data, or zeroes, around it.
NewData ==
    {d \in Contents : \A u \in Units \ Chunk :
        d[u] = IF Merging THEN Merged[Target.ref].data[u] ELSE 0}

ChunkReady ==
    /\ op.kind = "write" /\ ~Blocked(op.h, ChunkBlock)
    /\ ~(Merging /\ PopulateFails(Placed(op.h, ChunkBlock)[Target.ref], Target.num))

\* replaceStorageBlock's arguments, as BlockTables takes them.
Key == <<fh[op.h].file, ChunkBlock>>
OldBlock == IF Target.ref = Null THEN Null ELSE Target.num
OldUse == IF Target.ref = Null THEN 0 ELSE Merged[Target.ref].use

\* The transaction is committed, the cache not yet updated; the block_info
\* stays locked until it is.
Committed(info, objects, data, present) ==
    /\ fh' = WithInfo(op.h, ChunkBlock, [info EXCEPT !.locked = TRUE])
    /\ heap' = Live(objects, fh')
    /\ op' = [kind |-> "place", h |-> op.h, next |-> NextChunk, end |-> op.end,
              block |-> ChunkBlock, present |-> present, data |-> data]
    /\ UNCHANGED <<fsize, disk, writer, restarts, lost>>

\* The known content, and the block_info left at the object of the old block.
WritePresentStaleRef ==
    /\ ChunkReady
    /\ \E d \in NewData :
          /\ T!ReplacePresent(Key, d, OldBlock, OldUse)
          /\ Committed([Target EXCEPT !.num = T!IdOf(d), !.hash = d],
                       AddUse(Merged, Target.ref, -1), d, TRUE)
    /\ CountsBounded'

WritePresent ==
    /\ ChunkReady
    /\ \E d \in NewData :
          /\ T!ReplacePresent(Key, d, OldBlock, OldUse)
          /\ Committed([Target EXCEPT !.num = T!IdOf(d), !.hash = d, !.ref = Null],
                       AddUse(Merged, Target.ref, -1), d, TRUE)
    /\ CountsBounded'

WriteInPlace ==
    /\ ChunkReady
    /\ \E d \in NewData :
          /\ T!ReplaceInPlace(Key, d, OldBlock, OldUse)
          /\ Committed([Target EXCEPT !.hash = d], Merged, d, FALSE)
    /\ CountsBounded'

\* The new row inserted with no use.
WriteInsertUnused ==
    /\ ChunkReady
    /\ \E d \in NewData :
          /\ ~T!Present(d) /\ ~T!InPlaceAllowed(OldBlock, OldUse) /\ Len(rows) < MaxRows
          /\ rows' = Append(T!SetUse(rows, OldBlock, OldUse - 1), [hash |-> d, use |-> 0])
          /\ fileBlocks' = [fileBlocks EXCEPT ![Key] = d]
          /\ Committed([Target EXCEPT !.num = Len(rows) + 1, !.hash = d, !.ref = Null],
                       AddUse(Merged, Target.ref, -1), d, FALSE)
    /\ CountsBounded'

WriteInsert ==
    /\ ChunkReady
    /\ \E d \in NewData :
          /\ T!ReplaceInsert(Key, d, OldBlock, OldUse)
          /\ Committed([Target EXCEPT !.num = Len(rows) + 1, !.hash = d, !.ref = Null],
                       AddUse(Merged, Target.ref, -1), d, FALSE)
    /\ CountsBounded'

\* The old data cannot be read: the exception ends the request with -EIO, and
\* nothing unlocks the block_info.
WriteFails ==
    /\ op.kind = "write" /\ ~Blocked(op.h, ChunkBlock)
    /\ Merging /\ PopulateFails(Placed(op.h, ChunkBlock)[Target.ref], Target.num)
    /\ fh' = WithInfo(op.h, ChunkBlock, [Target EXCEPT !.locked = TRUE])
    /\ heap' = Merged
    /\ op' = Idle
    /\ UNCHANGED <<rows, fileBlocks, fsize, disk, writer, restarts, lost>>

Unlocked(info) ==
    /\ fh' = WithInfo(op.h, op.block, [info EXCEPT !.locked = FALSE])
    /\ op' = IF op.next = op.end THEN Idle
             ELSE [kind |-> "write", h |-> op.h, next |-> op.next, end |-> op.end]
    /\ UNCHANGED <<rows, fileBlocks, fsize, disk, writer, restarts>>

\* Known content whose use is not counted in the cache.
PlacePresentUncounted ==
    /\ op.kind = "place" /\ op.present
    /\ Unlocked(fh[op.h].blocks[op.block])
    /\ UNCHANGED <<heap, lost>>

\* The rest of _writeBlock.  Known content: count the use, if the block is in
\* the cache.  The block_info gets no object.
PlacePresent ==
    /\ op.kind = "place" /\ op.present
    /\ LET i == fh[op.h].blocks[op.block]
       IN  /\ heap' = AddUse(heap, i.num, 1)
           /\ Unlocked(i)
    /\ CountsBounded'
    /\ UNCHANGED lost

\* New data that is not marked dirty.
PlaceDataClean ==
    /\ op.kind = "place" /\ ~op.present
    /\ LET i == fh[op.h].blocks[op.block]
       IN  /\ Unlocked([i EXCEPT !.ref = i.num])
           /\ heap' = Live([heap EXCEPT ![i.num] =
                             [use |-> 1, data |-> op.data, dirty |-> FALSE]], fh')
           /\ lost' = lost \ {i.num}

\* New content: the object, placed if missing, gets the data and one use.
PlaceData ==
    /\ op.kind = "place" /\ ~op.present
    /\ LET i == fh[op.h].blocks[op.block]
       IN  /\ Unlocked([i EXCEPT !.ref = i.num])
           /\ heap' = Live([heap EXCEPT ![i.num] =
                             [use |-> 1, data |-> op.data, dirty |-> TRUE]], fh')
           /\ lost' = lost \ {i.num}

----------------------------------------------------------------------------
(* truncate: one transaction for each block beyond the new size, then the  *)
(* size itself.                                                            *)

\* One block too many when the size is a whole number of blocks.
BlocksForAny(n) == n \div BlockSize + 1

BlocksFor(n) == (n + BlockSize - 1) \div BlockSize

\* The file grows, or keeps its size.
Extend(h, n) ==
    /\ op = Idle /\ fh[h] # Null /\ fh[h].size =< n
    /\ fsize' = SetSize(h, n)
    /\ fh' = [fh EXCEPT ![h].size = n]
    /\ UNCHANGED <<rows, fileBlocks, disk, heap, op, writer, restarts, lost>>

\* The size shrunk before the blocks are released.
TruncateShrinksFirst(h, n) ==
    /\ op = Idle /\ fh[h] # Null /\ fh[h].size > n
    /\ op' = [kind |-> "truncate", h |-> h, next |-> BlocksFor(n),
              end |-> BlocksFor(fh[h].size), size |-> n]
    /\ fsize' = SetSize(h, n)
    /\ UNCHANGED <<rows, fileBlocks, disk, heap, fh, writer, restarts, lost>>

TruncateBegin(h, n) ==
    /\ op = Idle /\ fh[h] # Null /\ fh[h].size > n
    /\ op' = [kind |-> "truncate", h |-> h, next |-> BlocksFor(n),
              end |-> BlocksFor(fh[h].size), size |-> n]
    /\ UNCHANGED <<rows, fileBlocks, fsize, disk, heap, fh, writer, restarts, lost>>

Truncating == op.kind = "truncate" /\ op.next < op.end

\* releaseStorageBlock takes the block_info out of the handle, or loads one.
TruncateBlock ==
    /\ Truncating
    /\ LET i == InfoOf(op.h, op.next)
       IN  /\ i.hash # Null
           /\ T!Release(<<fh[op.h].file, op.next>>, i.hash)
           /\ fh' = WithInfo(op.h, op.next, Null)
           /\ heap' = Live(IF i.num = 0 THEN heap ELSE AddUse(heap, i.num, -1), fh')
    /\ op' = [op EXCEPT !.next = @ + 1]
    /\ CountsBounded'
    /\ UNCHANGED <<fsize, disk, writer, restarts, lost>>

TruncateEnd ==
    /\ op.kind = "truncate" /\ op.next = op.end
    /\ fsize' = SetSize(op.h, op.size)
    /\ fh' = [fh EXCEPT ![op.h].size = op.size]
    /\ op' = Idle
    /\ UNCHANGED <<rows, fileBlocks, disk, heap, writer, restarts, lost>>

----------------------------------------------------------------------------
(* The writer thread: BlocksCache::run.  Between passes it waits, five     *)
(* seconds or until sync; nothing here tells a wait from a pass that has   *)
(* not reached the next block, and the order of a pass is left open.       *)

\* The block marked clean, and not written.
FlushedUnwritten(n) ==
    /\ heap' = [heap EXCEPT ![n].dirty = FALSE]
    /\ UNCHANGED disk

\* pwrite, if the block is dirty.  Its result is not looked at.
Flushed(n) ==
    /\ disk' = IF heap[n].dirty THEN [disk EXCEPT ![n] = heap[n].data] ELSE disk
    /\ heap' = [heap EXCEPT ![n].dirty = FALSE]

WriterFlushes(n) ==
    /\ writer.phase = "flush" /\ heap[n] # Null /\ heap[n].dirty
    /\ Flushed(n)
    /\ UNCHANGED <<rows, fileBlocks, fsize, fh, op, writer, restarts, lost>>

\* The cache is too large: a round of evictions begins.
WriterEvicts ==
    /\ writer.phase = "flush" /\ Cardinality(Cached) > CacheLimit
    /\ writer' = [writer EXCEPT !.phase = "pick"]
    /\ UNCHANGED <<rows, fileBlocks, fsize, disk, heap, fh, op, restarts, lost>>

\* A block is picked if its atime is old enough: any block may be.
WriterPicks(n) ==
    /\ writer.phase = "pick" /\ heap[n] # Null
    /\ n \notin writer.victims /\ Cardinality(writer.victims) < EvictBatch
    /\ Flushed(n)
    /\ writer' = [writer EXCEPT !.victims = @ \cup {n}]
    /\ UNCHANGED <<rows, fileBlocks, fsize, fh, op, restarts, lost>>

\* The iterator is at the end, or enough blocks are picked.
WriterEndsPick ==
    /\ writer.phase = "pick"
    /\ writer' = [writer EXCEPT !.phase = "erase"]
    /\ UNCHANGED <<rows, fileBlocks, fsize, disk, heap, fh, op, restarts, lost>>

\* _blocks->erase, whatever has happened to the block since it was picked.
\* Handles keep reaching the object until libcds frees it.
WriterErases(n) ==
    /\ writer.phase = "erase" /\ n \in writer.victims
    /\ \A m \in writer.victims : n =< m
    /\ \/ \E o \in Orphans :
             /\ heap[o] = Null /\ Refers(fh, n)
             /\ fh' = Redirect(fh, n, o)
             /\ heap' = [heap EXCEPT ![o] = heap[n], ![n] = Null]
       \/ /\ fh' = Redirect(fh, n, Null)
          /\ heap' = [heap EXCEPT ![n] = Null]
    /\ lost' = IF heap[n].dirty THEN lost \cup {n} ELSE lost
    /\ writer' = [writer EXCEPT !.victims = @ \ {n}]
    /\ UNCHANGED <<rows, fileBlocks, fsize, disk, op, restarts>>

WriterEndsErase ==
    /\ writer.phase = "erase" /\ writer.victims = {}
    /\ writer' = Flushing
    /\ UNCHANGED <<rows, fileBlocks, fsize, disk, heap, fh, op, restarts, lost>>

\* libcds frees an erased object; the weak_ptrs to it expire.
Reclaim(o) ==
    /\ heap[o] # Null
    /\ heap' = [heap EXCEPT ![o] = Null]
    /\ fh' = Redirect(fh, o, Null)
    /\ UNCHANGED <<rows, fileBlocks, fsize, disk, op, writer, restarts, lost>>

----------------------------------------------------------------------------
(* The process dies and is started again.  The tables and the storage file *)
(* (O_DSYNC) keep what was committed and written.                          *)

\* Blocks whose committed content is nowhere but in memory.
Unwritten ==
    {n \in Cached : heap[n].dirty}
      \cup (IF op.kind = "place" /\ ~op.present
            THEN {fh[op.h].blocks[op.block].num} ELSE {})

Dies ==
    /\ op' = Down
    /\ heap' = [n \in DOMAIN heap |-> Null]
    /\ fh' = [h \in Handles |-> Null]
    /\ writer' = Flushing
    /\ lost' = lost \cup Unwritten
    /\ UNCHANGED <<rows, fileBlocks, fsize, disk, restarts>>

\* Also a clean unmount: nothing is flushed that the writer has not reached.
Crash == op # Down /\ restarts < MaxRestarts /\ Dies

\* releaseStorageBlock dereferences the null hash of a block never written.
TruncateHole ==
    /\ Truncating
    /\ InfoOf(op.h, op.next).hash = Null
    /\ Dies

\* The constructor refuses a storage file without the signature.
Restart ==
    /\ op = Down /\ restarts < MaxRestarts
    /\ disk[0] = Signature
    /\ op' = Idle
    /\ restarts' = restarts + 1
    /\ UNCHANGED <<rows, fileBlocks, fsize, disk, heap, fh, writer, lost>>

----------------------------------------------------------------------------

Request ==
    \/ \E h \in Handles, f \in Files : Open(h, f)
    \/ \E h \in Handles : Release(h)
    \/ \E h \in Handles, b \in Blocks : Read(h, b)
    \/ \E h \in Handles, b \in Blocks : Hang(h, b)
    \/ \E h \in Handles, from, end \in 0..MaxSize : WriteBuf(h, from, end)
    \/ \E h \in Handles, n \in 0..MaxSize : Extend(h, n)
    \/ \E h \in Handles, n \in 0..MaxSize : TruncateBegin(h, n)

WriteStep ==
    \/ WritePresent \/ WriteInPlace \/ WriteInsert \/ WriteFails
    \/ PlacePresent \/ PlaceData

TruncateStep == TruncateBlock \/ TruncateEnd

WriterStep ==
    \/ \E n \in Numbers : WriterFlushes(n)
    \/ WriterEvicts
    \/ \E n \in Numbers : WriterPicks(n)
    \/ WriterEndsPick
    \/ \E n \in Numbers : WriterErases(n)
    \/ WriterEndsErase
    \/ \E o \in Orphans : Reclaim(o)

Next == Request \/ WriteStep \/ TruncateStep \/ WriterStep \/ TruncateHole \/ Crash \/ Restart

Spec == Init /\ [][Next]_vars

----------------------------------------------------------------------------
(* Properties *)

\* Whatever the writer, a crash or a handle does, the tables only change by
\* transactions of BlockTables whose caller holds an existing storage block,
\* or block 0 with a count other than 1: the assumption under which
\* BlockTables shows that no hash gets two blocks.
TablesSpec == T!Spec

\* As long as nothing is evicted, nothing restarts and a file has one handle at
\* a time, the callers are honest: a block is only overwritten in place by its
\* only user, so (BlockTables) no reference dangles and no file loses a block
\* to another's write.
HonestTablesSpec == T!HonestSpec

\* Under the same conditions the count held in memory never falls below the
\* number of file blocks that refer to the content, although the one in the
\* database does (a rewrite with the same content loses one there).
NeverUndercounted ==
    op.kind # "place" =>
        \A n \in DOMAIN rows : heap[n] # Null =>
            heap[n].use >= Cardinality({k \in Keys : fileBlocks[k] = rows[n].hash})

\* Block 0 of the storage file keeps the signature, without which the
\* constructor refuses to start: a reference without a row loads as block 0, and
\* that object is placed, counted, flushed and evicted like any other.
SignatureSafe ==
    /\ disk[0] = Signature
    /\ heap[0] # Null => ~heap[0].dirty /\ heap[0].data = Null

\* What keeps block 0 safe, and the tables' callers within CallerHolds: a
\* weak_ptr reaches the object of its block_info's number, or one that was
\* evicted; whatever is reached as block 0 has no user, so it is never taken for
\* a block to overwrite in place; and the signature is in block 0 only.
BlockZeroUnused(objects) ==
    objects[0] # Null => /\ ~objects[0].dirty
                         /\ objects[0].data = Null
                         /\ objects[0].use =< 0

InfoSafe(i, objects) ==
    i.ref # Null => /\ objects[i.ref] # Null
                    /\ i.ref \in Numbers => i.ref = i.num
                    /\ i.num = 0 => objects[i.ref].use =< 0

RefsSafe(files, objects) ==
    \A h \in Handles, b \in Blocks :
        files[h] # Null /\ files[h].blocks[b] # Null
            => InfoSafe(files[h].blocks[b], objects)

NumbersKnown ==
    \A h \in Handles, b \in Blocks :
        fh[h] # Null /\ fh[h].blocks[b] # Null => fh[h].blocks[b].num =< Len(rows)

SignatureOnlyInZero == \A n \in Numbers : disk[n] = Signature <=> n = 0

\* A request at work has its handle, and between commit and cache update the
\* block_info has the number of a row.
RequestSafe ==
    /\ op.kind \in {"write", "place", "truncate"} => fh[op.h] # Null
    /\ op.kind = "write" => op.next < op.end
    /\ op.kind = "place" => /\ op.next =< op.end
                            /\ fh[op.h].blocks[op.block] # Null
                            /\ fh[op.h].blocks[op.block].num # 0

\* All of this together is inductive: whatever evictions, crashes and handles of
\* the same file do, a write (_writeBlockWrapper) takes the count that decides
\* between overwriting and inserting from the object of the block it replaces.
CacheInv ==
    /\ TypeOK
    /\ Len(rows) =< MaxRows
    /\ CountsBounded
    /\ BlockZeroUnused(heap)
    /\ RefsSafe(fh, heap)
    /\ NumbersKnown
    /\ SignatureOnlyInZero
    /\ RequestSafe

\* What reading storage block n from the file gives, and from the cache.
OnDisk(n) == IF disk[n] = Null THEN Zero ELSE disk[n]

StoredIn(objects, n) ==
    IF objects[n] # Null /\ objects[n].data # Null THEN objects[n].data ELSE OnDisk(n)

Stored(n) == StoredIn(heap, n)

\* The block whose data the FUSE thread is about to put into the cache.
Placing == IF op.kind = "place" /\ ~op.present
           THEN {fh[op.h].blocks[op.block].num} ELSE {}

\* A storage block delivers the content its row promises, through rewrites in
\* place, flushes, evictions and reloads, unless it was dropped while dirty (by
\* a crash, or by an eviction that raced with a write): deduplication against
\* the row then gives every file the data it wrote.
HashIsContent ==
    \A n \in DOMAIN rows : n \notin lost \cup Placing => Stored(n) = rows[n].hash

\* What that rests on: an object that is not dirty has the data of the file, or
\* none, so that dropping it loses nothing; and what is about to be placed is
\* the content that the row just written promises.
CleanAsOnDisk(objects) ==
    \A n \in Numbers \ {0} : objects[n] # Null =>
        IF objects[n].dirty THEN objects[n].data # Null
        ELSE objects[n].data \in {Null, OnDisk(n)}

PlacingAsCommitted ==
    \A n \in Placing : n \in DOMAIN rows /\ rows[n].hash = op.data

\* Evicting a clean block loses nothing, and the gap in _writeBlock between the
\* commit and the cache update cannot mix up contents.
DataSafe == CleanAsOnDisk(heap) /\ PlacingAsCommitted

\* With one handle at a time, file_blocks never has a block that begins at or
\* beyond the file's size, also when the process dies in the middle of a write or
\* a truncate: extending is done before writing, releasing before shrinking.
RowsWithinSize ==
    \A k \in Keys : fileBlocks[k] # Null => k[2] * BlockSize < fsize[k[1]]

\* A write is refused, and its block_info left locked for ever, only over a
\* storage block whose data was lost: old data that was stored can be read back
\* whatever was written, dropped or restarted since (as long as nothing is
\* evicted).
LocksLeakOnlyOnLost ==
    [][\A h \in Handles : fh[h] # Null /\ fh'[h] # Null =>
          \A b \in Blocks :
             /\ ~Blocked(h, b)
             /\ Blocked(h, b)'
             /\ op'.kind # "place"
             => fh'[h].blocks[b].num \in lost]_vars

\* What a new handle of the file reads of a file block.
Delivered(k) ==
    IF fileBlocks[k] = Null THEN Zero
    ELSE IF ~T!Present(fileBlocks[k]) THEN Null
    ELSE IF T!IdOf(fileBlocks[k]) \in Placing THEN op.data
    ELSE Stored(T!IdOf(fileBlocks[k]))

\* The units that the request at work may change yet.
RequestAtWork ==
    CASE op.kind \in {"write", "place"} ->
           [kind  |-> "write",
            units |-> {w \in Keys \X Units :
                         /\ w[1][1] = fh[op.h].file
                         /\ w[1][2] * BlockSize + w[2] \in op.next..(op.end - 1)}]
      [] op.kind = "truncate" ->
           [kind  |-> "drop",
            units |-> {w \in Keys \X Units :
                         /\ w[1][1] = fh[op.h].file
                         /\ w[1][2] \in op.next..(op.end - 1)}]
      [] OTHER -> [kind |-> "none", units |-> {}]

F == INSTANCE FileContents WITH
        content <- [k \in Keys |-> Delivered(k)], request <- RequestAtWork,
        alive <- op # Down

\* Deduplication is invisible (as long as nothing is evicted, nothing restarts
\* and a file has one handle at a time): a write changes the file and the range
\* it was asked to, although the storage blocks are shared; at worst it zeroes
\* the rest of the block.
FileContentsSpec == F!Spec

\* What the handle itself would read, from the block_info it keeps.
HandleReads(i) ==
    IF i.empty \/ i.num = 0 THEN Zero
    ELSE IF i.ref # Null /\ heap[i.ref].data # Null THEN heap[i.ref].data
    ELSE Stored(i.num)

\* Under the same conditions a handle that has been writing reads its file's
\* content, or zeroes, from the block_info it keeps: never the content that
\* some other file has in a block this one has left.
NoForeignData ==
    op.kind # "place" =>
        \A h \in Handles : fh[h] # Null =>
            \A b \in Blocks : fh[h].blocks[b] # Null =>
                HandleReads(fh[h].blocks[b]) \in {Zero, Delivered(<<fh[h].file, b>>)}

\* assert(!use_count || (item->use_count == use_count)) in _getLockedFileBlock:
\* a block that a handle loads while it is cached has the count loaded with it.
UseCountAssert ==
    op = Idle =>
        \A h \in Handles, b \in Blocks :
            /\ fh[h] # Null
            /\ fh[h].blocks[b] = Null
            /\ b * BlockSize < fh[h].size
            => LET i == InfoOf(h, b)
               IN  \/ i.empty \/ heap[i.num] = Null
                   \/ LoadedUse(i) = 0 \/ heap[i.num].use = LoadedUse(i)
============================================================================
