---------------------------- MODULE CacheThreads ----------------------------
(***************************************************************************)
(* Several FUSE threads in BlocksCache at once: the locks of block_info    *)
(* and storage_block, the write lock of the database, the use counts that  *)
(* are changed without a lock after the transaction, and the position of   *)
(* the one descriptor _storage, which lseek and read share.                *)
(*                                                                         *)
(* The files have one block each and are open once.  Nothing is evicted    *)
(* and nothing restarts (BlocksCache has both, for one thread).  Counts in *)
(* the database, which are only read when a file is opened again, are left *)
(* out.  The kernel lets one write or truncate at a time into a file, and  *)
(* reads at any time.                                                      *)
(***************************************************************************)
EXTENDS Integers, Sequences, FiniteSets

CONSTANTS
    Threads, Files, Hashes,
    MaxRows,   \* bound on block_hashes
    MaxUse,    \* bound on the uses counted when a request begins
    Null,      \* nobody, nothing
    Foreign,   \* the data of another block, or zeroes
    Leaked     \* the holder of a lock that an exception left locked

VARIABLES
    rows,        \* block_hashes: the hash of each row
    fileBlocks,  \* file_blocks: the hash of each file's block
    info,        \* the block_info of each file
    item,        \* the storage_block of each row, in _blocks
    disk,        \* what is in the storage file, for items without data
    pos,         \* the position of the descriptor _storage
    dbOwner,     \* who has the write lock of the database
    th,          \* the request of each thread
    raced        \* history: what two threads have done at once

vars == <<rows, fileBlocks, info, item, disk, pos, dbOwner, th, raced>>
tables == <<rows, fileBlocks>>

Numbers == 1..MaxRows
Contents == Hashes \cup {Null, Foreign}
Empty == [num |-> 0, ref |-> FALSE, empty |-> TRUE, lock |-> Null]
Idle == [at |-> "idle"]

\* ref: the weak_ptr storageBlock has an object, that of num.
Info == [num : 0..MaxRows, ref : BOOLEAN, empty : BOOLEAN, lock : Threads \cup {Null, Leaked}]
Item == [use : Int, data : Contents, lock : Threads \cup {Null}]

\* n: the block at hand.  part: the write is of part of a block.  use: read, and
\* not yet written back.  changed: the file was written while it was read.
Request == [op : {"read", "write", "truncate"}, file : Files, hash : Hashes \cup {Null},
            at : {"info", "item", "seek", "fetch", "have", "begin", "object", "body",
                  "count", "counted", "place"},
            n : 0..MaxRows, part : BOOLEAN, use : Int, changed : BOOLEAN]

ASSUME ThreadsAssumption ==
    /\ MaxRows \in Nat \ {0} /\ MaxUse \in Nat /\ IsFiniteSet(Files)
    /\ Null \notin Hashes \cup Threads \cup Item
    /\ Foreign \notin Hashes \cup {Null} /\ Leaked \notin Threads

At(t, place) == th[t].at = place
F(t) == th[t].file
N(t) == th[t].n

TypeOK ==
    /\ rows \in Seq(Hashes) /\ fileBlocks \in [Files -> Hashes \cup {Null}]
    /\ info \in [Files -> Info] /\ item \in [Numbers -> Item \cup {Null}]
    /\ pos \in 0..(MaxRows + 1) /\ raced \subseteq {"count", "seek"}
    /\ \A t \in Threads : th[t] = Idle \/ th[t] \in Request
    /\ \A t \in Threads : dbOwner = t <=> th[t].at \in {"object", "body"}
    /\ \A i, j \in DOMAIN rows : rows[i] = rows[j] => i = j

Users(n) == {f \in Files : fileBlocks[f] = rows[n]}

\* The files are open, and their blocks in the cache without data (others have
\* been writing over their copies of them).
Init ==
    /\ fileBlocks \in [Files -> Hashes \cup {Null}]
    /\ LET used == {fileBlocks[f] : f \in Files} \ {Null}
       IN  /\ Cardinality(used) =< MaxRows
           /\ rows \in {s \in [1..Cardinality(used) -> used] : \A x \in used : \E i \in DOMAIN s : s[i] = x}
    /\ disk = [n \in Numbers |-> IF n \in DOMAIN rows THEN rows[n] ELSE Null]
    /\ item = [n \in Numbers |-> IF n \in DOMAIN rows
                                 THEN [use |-> Cardinality(Users(n)), data |-> Null, lock |-> Null]
                                 ELSE Null]
    /\ info = [f \in Files |->
                 IF fileBlocks[f] = Null THEN Empty
                 ELSE [num |-> CHOOSE n \in DOMAIN rows : rows[n] = fileBlocks[f],
                       ref |-> TRUE, empty |-> FALSE, lock |-> Null]]
    /\ pos = 0 /\ dbOwner = Null /\ raced = {}
    /\ th = [t \in Threads |-> Idle]

----------------------------------------------------------------------------
(* Requests begin.                                                         *)

\* Bound: no request begins after a race (those on their way go on), and no
\* write or truncate with more uses counted than MaxUse.
Bounded == \A n \in Numbers : item[n] # Null => item[n].use <= MaxUse

Begins(t, op, f, x, part, place) ==
    /\ At(t, "idle") /\ raced = {}
    /\ th' = [th EXCEPT ![t] = [op |-> op, at |-> place, file |-> f, hash |-> x, n |-> 0,
                                part |-> part, use |-> 0, changed |-> FALSE]]
    /\ UNCHANGED <<tables, info, item, disk, pos, dbOwner, raced>>

\* i_rwsem of the inode.
InHand == {u \in Threads : ~At(u, "idle")}
Alone(f) == \A u \in InHand : F(u) = f => th[u].op = "read"

Read(t, f) == fileBlocks[f] # Null /\ Begins(t, "read", f, Null, FALSE, "info")
Write(t, f, x, part) == Bounded /\ Alone(f) /\ Begins(t, "write", f, x, part, "info")
Truncate(t, f) ==
    Bounded /\ fileBlocks[f] # Null /\ Alone(f) /\ Begins(t, "truncate", f, Null, FALSE, "begin")

Goes(t, place) == th' = [th EXCEPT ![t].at = place]
Ends(t) == th' = [th EXCEPT ![t] = Idle]

----------------------------------------------------------------------------
(* _getLockedFileBlock, then the data of its block.                        *)

\* The object of num, placed if it is missing, with use_count 0.
Found(i) == ~i.empty /\ (i.ref \/ i.num # 0)
PlacedItem(i) ==
    IF Found(i) /\ item[i.num] = Null
    THEN [item EXCEPT ![i.num] = [use |-> 0, data |-> Null, lock |-> Null]] ELSE item

HasObject(i) == i.ref \/ Found(i)

\* A read (_getStorageBlock) unlocks the block_info at once, and reads zeroes if
\* there is no object; a write keeps it.
LockInfo(t) ==
    /\ At(t, "info") /\ info[F(t)].lock = Null
    /\ LET i == info[F(t)]
       IN  /\ item' = PlacedItem(i)
           /\ info' = [info EXCEPT ![F(t)].ref = HasObject(i),
                                   ![F(t)].lock = IF th[t].op = "read" THEN Null ELSE t]
           /\ th' = [th EXCEPT ![t] =
                IF th[t].op = "read" /\ ~HasObject(i) THEN Idle
                ELSE [th[t] EXCEPT !.n = IF HasObject(i) THEN i.num ELSE 0, !.part = FALSE,
                                   !.at = IF th[t].op = "read" \/ (th[t].part /\ HasObject(i))
                                          THEN "item" ELSE "begin"]]
    /\ UNCHANGED <<tables, disk, pos, dbOwner, raced>>

\* unique_lock guard(block->lock), and data.empty()
LockItem(t) ==
    /\ At(t, "item") /\ item[N(t)].lock = Null
    /\ item' = [item EXCEPT ![N(t)].lock = t]
    /\ Goes(t, IF item[N(t)].data = Null THEN "seek" ELSE "have")
    /\ UNCHANGED <<tables, info, disk, pos, dbOwner, raced>>

\* _populateStorageBlock, its lseek ...
Seek(t) ==
    /\ At(t, "seek")
    /\ pos' = N(t)
    /\ raced' = IF \E u \in Threads : At(u, "fetch") THEN raced \cup {"seek"} ELSE raced
    /\ Goes(t, "fetch")
    /\ UNCHANGED <<tables, info, item, disk, dbOwner>>

\* ... and its read, from wherever the position is by now.
Fetch(t) ==
    /\ At(t, "fetch")
    /\ item' = [item EXCEPT ![N(t)].data =
                   IF pos = N(t) /\ disk[pos] # Null THEN disk[pos] ELSE Foreign]
    /\ pos' = IF pos > MaxRows THEN pos ELSE pos + 1
    /\ Goes(t, "have")
    /\ UNCHANGED <<tables, info, disk, dbOwner, raced>>

\* The lock not released.
HaveLocked(t) ==
    /\ At(t, "have")
    /\ IF th[t].op = "read" THEN Ends(t) ELSE Goes(t, "begin")
    /\ UNCHANGED <<tables, info, item, disk, pos, dbOwner, raced>>

\* memcpy to the reader, or into the data to write.
Have(t) ==
    /\ At(t, "have")
    /\ item' = [item EXCEPT ![N(t)].lock = Null]
    /\ IF th[t].op = "read" THEN Ends(t) ELSE Goes(t, "begin")
    /\ UNCHANGED <<tables, info, disk, pos, dbOwner, raced>>

----------------------------------------------------------------------------
(* replaceStorageBlock and releaseStorageBlock.                            *)

\* BEGIN EXCLUSIVE TRANSACTION
Begin(t) ==
    /\ At(t, "begin") /\ dbOwner = Null
    /\ dbOwner' = t
    /\ Goes(t, IF th[t].op = "write" /\ N(t) # 0 THEN "object" ELSE "body")
    /\ UNCHANGED <<tables, info, item, disk, pos, raced>>

\* "database is locked": -EIO, and a write leaves its block_info locked.
Busy(t) ==
    /\ At(t, "begin") /\ dbOwner # Null
    /\ info' = IF th[t].op = "write" THEN [info EXCEPT ![F(t)].lock = Leaked] ELSE info
    /\ Ends(t)
    /\ UNCHANGED <<tables, item, disk, pos, dbOwner, raced>>

\* sblock->lock.lock(), inside the transaction; it is held until the commit.
LockObject(t) ==
    /\ At(t, "object") /\ item[N(t)].lock = Null
    /\ item' = [item EXCEPT ![N(t)].lock = t]
    /\ Goes(t, "body")
    /\ UNCHANGED <<tables, info, disk, pos, dbOwner, raced>>

\* What other threads have committed and not yet done to the cache.
Committed(t) == th[t].at \in {"count", "counted", "place"}
Pending(t) == {N(u) : u \in {v \in Threads \ {t} : Committed(v)}}

Known(x) == \E i \in DOMAIN rows : rows[i] = x
IdOf(x) == CHOOSE i \in DOMAIN rows : rows[i] = x

\* The rest of the transaction: file f has content x, in block m; what is left
\* to do is at the place.  Whoever reads f sees it change.
Commits(t, x, m, place) ==
    /\ fileBlocks' = [fileBlocks EXCEPT ![F(t)] = x]
    /\ th' = [u \in Threads |->
                IF u = t THEN [th[t] EXCEPT !.at = place, !.n = m]
                ELSE IF u \in InHand /\ F(u) = F(t) THEN [th[u] EXCEPT !.changed = TRUE]
                ELSE th[u]]
    /\ dbOwner' = Null
    /\ raced' = IF {m, N(t)} \cap Pending(t) # {} THEN raced \cup {"count"} ELSE raced
    /\ UNCHANGED <<disk, pos>>

\* sblock->use_count--, and the unlock.
LeavesObject(t) ==
    item' = IF N(t) = 0 THEN item
            ELSE [item EXCEPT ![N(t)].use = @ - 1, ![N(t)].lock = Null]

ReplacePresent(t) ==
    /\ At(t, "body") /\ th[t].op = "write" /\ Known(th[t].hash)
    /\ LET m == IdOf(th[t].hash)
       IN  /\ Commits(t, th[t].hash, m, "count")
           /\ info' = [info EXCEPT ![F(t)].num = m, ![F(t)].ref = FALSE]
    /\ LeavesObject(t)
    /\ UNCHANGED rows

InPlaceIfUsed(t) == N(t) # 0 /\ item[N(t)].use >= 1
InPlaceAllowed(t) == N(t) # 0 /\ item[N(t)].use = 1

ReplaceInPlace(t) ==
    /\ At(t, "body") /\ th[t].op = "write" /\ ~Known(th[t].hash) /\ InPlaceAllowed(t)
    /\ rows' = [rows EXCEPT ![N(t)] = th[t].hash]
    /\ Commits(t, th[t].hash, N(t), "place")
    /\ item' = [item EXCEPT ![N(t)].lock = Null]
    /\ UNCHANGED info

ReplaceInsert(t) ==
    /\ At(t, "body") /\ th[t].op = "write" /\ ~Known(th[t].hash) /\ ~InPlaceAllowed(t)
    /\ Len(rows) < MaxRows
    /\ rows' = Append(rows, th[t].hash)
    /\ Commits(t, th[t].hash, Len(rows) + 1, "place")
    /\ info' = [info EXCEPT ![F(t)].num = Len(rows) + 1, ![F(t)].ref = FALSE]
    /\ LeavesObject(t)

\* The block_info is taken out of the handle, locked or not.
Release(t) ==
    /\ At(t, "body") /\ th[t].op = "truncate"
    /\ Commits(t, Null, info[F(t)].num, "count")
    /\ info' = [info EXCEPT ![F(t)] = Empty]
    /\ UNCHANGED <<rows, item>>

----------------------------------------------------------------------------
(* The cache, after the commit.                                            *)

\* use_count++ and use_count--, without a lock: read ...
Count(t) ==
    /\ At(t, "count") /\ item[N(t)] # Null
    /\ th' = [th EXCEPT ![t].at = "counted", ![t].use = item[N(t)].use]
    /\ UNCHANGED <<tables, info, item, disk, pos, dbOwner, raced>>

\* _writeBlockWrapper unlocks the block_info.
Unlocked(t) ==
    info' = IF th[t].op = "write" THEN [info EXCEPT ![F(t)].lock = Null] ELSE info

\* Not in the cache: nothing to count.
CountMissing(t) ==
    /\ At(t, "count") /\ item[N(t)] = Null
    /\ Unlocked(t) /\ Ends(t)
    /\ UNCHANGED <<tables, item, disk, pos, dbOwner, raced>>

\* The new use forgotten.
CountedNot(t) ==
    /\ At(t, "counted")
    /\ item' = IF th[t].op = "write" THEN item ELSE [item EXCEPT ![N(t)].use = th[t].use - 1]
    /\ Unlocked(t) /\ Ends(t)
    /\ UNCHANGED <<tables, disk, pos, dbOwner, raced>>

\* ... and written.
Counted(t) ==
    /\ At(t, "counted")
    /\ item' = [item EXCEPT ![N(t)].use = IF th[t].op = "write" THEN th[t].use + 1
                                          ELSE th[t].use - 1]
    /\ Unlocked(t) /\ Ends(t)
    /\ UNCHANGED <<tables, disk, pos, dbOwner, raced>>

\* _blocks->ensure: the object, old or new, gets the data and one use.
Place(t) ==
    /\ At(t, "place")
    /\ item[N(t)] # Null => item[N(t)].lock = Null
    /\ item' = [item EXCEPT ![N(t)] = [use |-> 1, data |-> th[t].hash, lock |-> Null]]
    /\ info' = [info EXCEPT ![F(t)].ref = TRUE, ![F(t)].lock = Null]
    /\ Ends(t)
    /\ UNCHANGED <<tables, disk, pos, dbOwner, raced>>

----------------------------------------------------------------------------

Requests(t) ==
    \/ \E f \in Files : Read(t, f)
    \/ \E f \in Files, x \in Hashes, part \in BOOLEAN : Write(t, f, x, part)
    \/ \E f \in Files : Truncate(t, f)

Step(t) ==
    \/ LockInfo(t) \/ LockItem(t) \/ Seek(t) \/ Fetch(t) \/ Have(t)
    \/ Begin(t) \/ Busy(t) \/ LockObject(t)
    \/ ReplacePresent(t) \/ ReplaceInPlace(t) \/ ReplaceInsert(t) \/ Release(t)
    \/ Count(t) \/ CountMissing(t) \/ Counted(t) \/ Place(t)

Next == \E t \in Threads : Requests(t) \/ Step(t)

Spec == Init /\ [][Next]_vars

----------------------------------------------------------------------------
(* Properties *)

\* No deadlock of threads: who waits for a block_info holds nothing, and who
\* holds a storage_block waits for nothing, so every chain of waits ends with a
\* thread that can go on, or at a block_info that a busy database left locked.
\* replaceStorageBlock waits for a storage_block with the database locked, but
\* nobody waits for the database.
NoDeadlock ==
    /\ \A f \in Files, t \in Threads : info[f].lock = t => ~At(t, "idle") /\ ~At(t, "info")
    /\ \A n \in Numbers, t \in Threads :
          item[n] # Null /\ item[n].lock = t
             => th[t].at \in {"seek", "fetch", "have", "body"} /\ N(t) = n
    /\ dbOwner # Null => ~At(dbOwner, "info")

\* With several threads, too, the count in memory covers the files that refer to
\* a block, so that no write in place takes it from one of them; unless one
\* thread has committed a change of its users while another had committed and
\* was still to update the cache (_writeBlock, truncate).
CountsCoverUsers ==
    \A n \in DOMAIN rows :
        "count" \notin raced /\ item[n] # Null /\ (\A t \in Threads : Committed(t) => N(t) # n)
           => item[n].use >= Cardinality(Users(n))

\* A read gives the content its file has, whatever other threads do to blocks it
\* shares, between its locks too: unless the file itself was changed meanwhile,
\* the block was raced for as above, or two threads moved the position of the
\* descriptor at once.
ReadsOwn ==
    \A t \in Threads :
        At(t, "have") /\ th[t].op = "read" /\ ~th[t].changed /\ raced = {}
           => item[N(t)].data = fileBlocks[F(t)]
=============================================================================
