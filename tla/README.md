# A specification of wwdedup

wwdedup is a FUSE file system that stores each distinct block of its files
once. This directory holds TLA+ modules that describe how it does so, TLC
configurations that check them on small instances, and TLAPS proofs.

## The system

| Component | State | Operations |
|---|---|---|
| block tables (`database.cpp`) | SQLite tables `block_hashes` (hash, use count; `_ID` is the block's number in the storage file) and `file_blocks` (file, block, hash) | `replaceStorageBlock`, `releaseStorageBlock`, `loadFileBlock` |
| file table (`database.cpp`) | SQLite table `files` (path, depth, size, mode) | `getByPath`, `create`, `remove`, `rename`, `ftruncate`, `utime`, `readdir`, `dirEmpty` |
| block cache (`blockscache.cpp`, `dedup_types.*`) | the set `_blocks` of `storage_block` objects, the storage file, and per open file a `file_info` with its `block_info`s | `readBuf`, `writeBuf`, `truncate` |
| writer thread (`BlocksCache::run`) | `writerMutex`, `writerFlag`, `writeTriggered`, `terminated` | flush pass, eviction round; `sync`, `stop` |
| FUSE operations (`dedupfs.cpp`, `wrap.cpp`) | per-thread `DedupFS`, `DataBase`, `BlocksCache` | one handler per request; an exception becomes `-EIO`; each thread makes its connection with its first request |
| SQLite statements (`easySQLite/SqlPreparedStmt.cpp`, `SqlDatabase.cpp`) | bindings and position of each prepared statement, the open transaction | bind, step, reset, begin, commit, rollback |
| start and stop (`main.cpp`) | the process | start the cache, `fuse_main` (which may fork), stop |

How they interact. A FUSE request runs in one thread and calls the cache, which
calls the database of its thread. The cache's objects are shared by all
threads: a `block_info` holds a `weak_ptr` to the `storage_block` in `_blocks`,
and a write changes that object's use count *and* the row in `block_hashes`,
one in memory, one in a transaction. The decision that matters most, whether a
storage block may be overwritten in place, is taken from the count in memory.
The writer thread flushes dirty objects and evicts old ones at any moment. What
is on disk after a crash is what was committed and what the writer had written.

What is hard:

- a shared block must never be overwritten in place, whatever happened to the
  two copies of its use count: rewrites, evictions, stale handles, restarts;
- `_blocks`, the handles and libcds's deferred reclamation keep three views of
  an object; a handle may go on using one that was evicted;
- the tables promise content that is still only in memory;
- a truncate is many transactions; a write of several blocks likewise;
- a `block_info` stays locked when an exception passes through a write;
- the writer gives its mutex up only while it waits, and `sync` only sets a flag
  under it: what a sync promises, and whether it returns, is a matter of order;
- use counts in memory change without a lock after the transaction, and all
  threads share the position of one descriptor;
- a statement that fails is not reset, and goes wrong once more when used next;
- the file table has no transactions: a rename is many statements, and finds the
  files below a directory with LIKE;
- every handle has a copy of its file's size, and writes and truncates by it;
- errors at start are swallowed, while threads race to make the tables and `/`;
- block 0 of the storage file is the signature, and also the number a missing
  row loads as.

`PROJECT.json` lists each hazard at its line with the properties about it.

## Modules

| Module | Models |
|---|---|
| `BlockTables` | the two block tables and their transactions, for callers that may hold any use counts; and for *honest* callers, which overwrite in place only what no other file block uses |
| `BlocksCache` | the cache, the handles, the storage file, the writer's flushing and evicting, crashes and restarts. It uses the transactions of `BlockTables` (`T == INSTANCE BlockTables`) inside its actions |
| `FileContents` | the abstract promise: every file block has content of its own, and a request changes only what it names |
| `WriterLoop` | `start`, `fuse_main` and `stop`; the loop of the writer with its mutex, condition variable and flags; `sync` |
| `CacheThreads` | several FUSE threads in the cache: locks, counts changed after the commit, the shared descriptor |
| `Statements` | the transactions of `BlockTables` statement by statement, on several connections, with statements that fail |
| `Namespace` | the paths of the file table and the requests that create, remove and rename |
| `FileHandles` | the sizes, blocks and `_ID`s of files, with several handles on one file |
| `Connections` | `DedupFS::Instance` and the constructors: how each thread gets its connection, the tables and `/` |
| `Service` | `FileHandles` served by the threads of `Connections`, over one database and process |
| `BlockHash` | MurmurHash3_x64_128 on words of any width |
| `MCBlockTables`, `MCBlocksCache`, `MCCacheThreads`, `MCStatements`, `MCNamespace`, `MCService` | constants and symmetry for TLC (`WriterLoop` needs none) |
| `BlockTablesProofs` | theorems about `BlockTables` |
| `BlocksCacheProofs` | `CacheInv` is inductive; the cache implements `BlockTables`; no row of `file_blocks` lies beyond the end of its file |
| `BlockContentProofs` | `HashIsContent` and the invariant it rests on; `LocksLeakOnlyOnLost` |
| `SharingProofs` | the counts in memory suffice, and deduplication is invisible |
| `WriterLoopProofs` | a clean unmount loses nothing that was synced |
| `CacheThreadsProofs` | the locks of the cache do not deadlock, the counts cover the users, a read gives its file's content |
| `StatementsProofs` | the write lock is let go; a failure misdirects one statement; the statements of a transaction together are the step of `BlockTables` asked for |
| `NamespaceProofs` | the tree stays connected, a rename moves all of it, and directories list their children |

How they fit together. `BlockTables` is the contract. `BlocksCache` implements it
for one FUSE thread with everything that happens to data; `Statements`
implements it on several connections, with the statements inside a transaction
as steps of their own. `CacheThreads` takes a transaction as given and looks at
what the threads do to the cache around it. `WriterLoop` has of the cache only
which blocks are in it, dirty and unwritten, and adds when passes happen.
`Namespace` has of a file only its row and path; `FileHandles` has names without
directories, and of a file's blocks which there are. `Service` composes it with
`Connections`: no request reaches the code but in a thread that has come through
`Instance`, no file is created without the row of `/`, and the end of the process
takes handles and connections together.

### BlockTables

`rows` is `block_hashes` as a sequence (nothing deletes a row, so the index is
`_ID`), `fileBlocks` is `file_blocks` as a function. `ReplacePresent`,
`ReplaceInPlace` and `ReplaceInsert` are the three outcomes of
`replaceStorageBlock`; `Release` is `releaseStorageBlock`. Each is one
transaction under `BEGIN EXCLUSIVE`, hence one step. The arguments `s` and `c`
are the storage block the caller's `block_info` points at and the count the
caller holds for it. The final `UPDATE ... SET use_count = c - 1` comes after
the increment of the row found, as in the code, and so wins when both are the
same row.

### BlocksCache

One FUSE thread (`fuse -s`) and the writer interleave. State and code:

| Variable | Code |
|---|---|
| `rows`, `fileBlocks`, `fsize` | the tables; `files.size` |
| `disk` | `storage.blk`, with `Null` for a block never written; reading such a block gives zeroes before the end of the file and a short read, thus an exception, at the end |
| `heap` | `storage_block` objects: indices from 0 are the members of `_blocks`, negative ones objects erased from `_blocks` that libcds has not freed, which a handle still reaches through its `weak_ptr` |
| `fh` | `file_info` per open: size and `block_info`s (`num`, `hash`, `empty`, the `weak_ptr` as `ref`, the mutex as `locked`) |
| `op` | the request at work: idle, between two blocks of a write, between commit and cache update (`place`), between two blocks of a truncate, hung on a locked `block_info`, or the process down |
| `writer` | flushing, picking victims, erasing them |
| `lost` | history only: blocks whose data was dropped before it was written |

Writing one block is two steps. The first (`WritePresent`, `WriteInPlace`,
`WriteInsert`, or `WriteFails`) is everything up to the commit in
`replaceStorageBlock`: `_getLockedFileBlock`, reading the old data in, merging,
hashing and the transaction. Nothing another actor does can come between these
in a way that matters: the writer's flush and pick take the object's lock, and
an eviction in between leaves the write with the object it holds. The second
(`PlacePresent`, `PlaceData`) is the rest of `_writeBlock`. Reading one block is
one step, releasing one block another.

Abstractions: a block has `BlockSize` units, each standing for bytes that
requests do not split; a hash is the content it was computed from; the
`hash` and `loaded` fields of `storage_block`, which are only printed, are left
out; `atime` is left out, so any block may be picked for eviction; a pass of the
writer visits blocks in any order and the wait between passes is not told from
a pass that has not started (`WriterLoop` has the loop). A clean unmount is
treated as a crash, because stopping the writer does not flush; what was synced
before it is a matter of `WriterLoop`. Assertions are off, as in the default
build (`-DNDEBUG`). `truncate(path)` is an open, a truncate and a release of a
`file_info` of its own. The set of files is fixed; unlinking, a truncate to 0
followed by the removal of the `files` row, is in `FileHandles`.

`DbBlockSize` is `DataBase::block_size`. The constructor reads it from the FUSE
context cast to the options, which gives the upper half of a pointer, 0 or a
number below 2^15 and so below the real 2^16; the assumption
`DbBlockSize \in 0..BlockSize` is that; every instance uses 1, the theorems hold
for all of it.

### FileContents

`Store(k)` changes block `k` only, inside it only units of the request, and
leaves the rest as it was or all zero. The second alternative is needed: a write
through a `block_info` that a write of known content left `empty` does not merge
the old data. The refinement maps `content` to what a *new* handle would be
delivered: the hash in `file_blocks`, its row, and that row's storage block in
the cache or on disk.

### WriterLoop

| Variable | Code |
|---|---|
| `main` | where `main` is: before `fuse_main`, in it, in `stop`, ended, or dead of a null pointer |
| `daemon`, `single` | the options: no `-f` or `-d`, so that `fuse_main` forks; `-s` |
| `writer` | where `run` is, the number its iterator has reached, `toDelete`, `repeat` |
| `writerMutex`, `writeTriggered`, `terminated`, `created` | as in the code; `created` when `_blocks` is allocated |
| `cached`, `dirty` | `_blocks` and the flag `dirty` of its members |
| `storage` | the descriptor `_storage`: open on the storage file, closed by some `~BlocksCache`, or open on what got its number |
| `unwritten`, `promised`, `mishap` | history: what is not in the file, what of it a sync found the writer waiting for, and whether a write failed, a dirty block was dropped or a worker ended |

`Visits` is one turn of the first loop of a pass, `Picks` one of the second,
`Erases` one of the third. `wait_for` is `Waits`, then `Notified` or `TimesOut`;
or `WaitsNot`, when the flag is already set. `Forks` leaves the child without
writer, and with the mutex locked if the writer held it (`"ghost"`). Five
seconds and atimes are not counted: a wait may time out at any moment, and any
block may be old enough to be evicted. Threads become idle workers, end and
begin in `WorkerEnds` and `WorkerBegins`.

### CacheThreads

The files have one block each and one handle, and nothing is evicted or
restarted. A request goes through the places `info`, `item`, `seek`, `fetch`,
`have` (`_getLockedFileBlock`, `_populateStorageBlock`), `begin`, `object`,
`body` (the transaction of `replaceStorageBlock` or `releaseStorageBlock`, with
the object's lock taken inside it) and `count`, `counted`, `place` (the rest of
`_writeBlock` and `truncate`). `LockInfo` is the guarded callback and the lock
of the `block_info` in one step. `use_count++` is a read and a write. `Busy` is
`BEGIN EXCLUSIVE` refused, which ends a write with its `block_info` locked for
ever (`Leaked`). The kernel's lock on an inode keeps writes and truncates of one
file apart, not reads. `raced` is history; once something was raced for, no new
request begins, and the ones at work go on to their end.

### Statements

`rows`, `fileBlocks` and `sizes` are what is committed; `view` is what the owner
of the write lock sees (WAL: the others read what is committed). `call` is the
transaction a connection is in: the statement that comes next and the values of
`replaceStorageBlock` or `releaseStorageBlock`. `held` has what is bound to a
statement that failed and was not reset; `Used` is what the next step of it runs
with, as `sqlite3_bind` refuses and nobody looks at its result. `RolledBack` is
the catch of a transaction. Statements outside transactions are `Reads`
(`getByPath`, `loadFileBlock`) and `FTruncate`. `Reconnects` is a worker that
ends and another that begins; `Crash` the end of the process.

### Namespace

`files` has the rows by `_ID`: path, depth and whether it is a directory. A path is a
sequence of names. The two places that treat it as a string are given by constants:

- the prefix test of `rename`, by a relation between names (`StartsWith`);
- the pattern of LIKE, which runs on the string. `Alike` relates names of the same
  length in bytes that match; `NamesMatch` is the match of a path below the pattern,
  name by name. Whatever else LIKE matches, when `_` takes a `/` or a character of
  several bytes, or `%` in a name takes anything, is `OtherLike`, any relation
  between paths, and `Splice(o, n, q)` is what becomes of such a path `q` when
  as many bytes as `o` has are replaced at its beginning. Of either nothing is
  assumed but that `q` has more names than `o`.

`MovedPath` and `DepthDiff` are thus independent of each other, as in the code: the
depth changes by one number for all rows, whatever LIKE has matched. `strayed` is
history: a rename has taken along a path that did not match name by name.

A request of one changing statement is one step. `Rename` is `RenameReplaces`, one
`RenameMoves` for each row the SELECT finds, in the order of `_ID`, and `RenameEnds`;
between any two comes `RenameFails`, an exception or the end of the process.
`op.depth` is the depth that the target gets: its directory's row is read once,
before anything is moved. `cut` is history: which rename was cut short and not
repeated, or `Damaged` once something has come between or LIKE took a directory
along that it should not have (`TakesParent`, `MovesTwice`, see Findings). The
kernel's and libfuse's locks on paths keep requests on the same directories apart,
so one request is at work at a time. `Unlink` is one step here, as its truncate
sets neither path nor depth.

### FileHandles

| Variable | Code |
|---|---|
| `files` | table `files`: `_ID` and size, by path |
| `blocks` | `file_blocks`: which `(file_id, offset)` there are |
| `handles` | the `file_info` of each open file: `st_ino` and `st_size` |
| `shared`, `loose` | history: the files resized while another handle was open; the files whose row a rename removed, or that a handle with another size than the row's wrote or resized |

A request is one step, as the kernel keeps writes and truncates of one inode apart,
and requests on different files touch different rows; `CreateCut`, `TruncateCut`,
`RenameCut` and the argument `upto` of `Write` are the requests cut short between
two of their statements. `Write(h, first, to, upto)` writes from block `first` to byte
`to`: the size first, if `to` is beyond that of the handle, then block after block.
`Released` releases what `BlocksCache::truncate` does: the blocks from the new size
up to that of its `file_info`, and none beyond. `Truncate` and `Unlink` have a
`file_info` of their own. `NextId` is SQLite's choice for an `INTEGER PRIMARY KEY`
without `AUTOINCREMENT`. That no open file is unlinked or replaced (`Closed`) is
libfuse, which renames it to a hidden name instead.

### Connections and Service

`once` is `init_flag`; `stage` is where a thread is between `Instance` and the end of
`DataBase`'s constructor; `tables` counts the `CREATE TABLE`s of `init` that have
committed; `root` is the row of `/`. `InitFails` and `CreateFails` are the two catches,
`StartFails` the exception that nobody catches before the wrapper. `InsertLoses` is
the INSERT that meets the unique path or a lock. `failed` is history: a statement of
`create("/")` failed otherwise than that. `journal_mode=WAL`, the first statement
of `init`, is taken to have succeeded once, so that readers lock nobody out; a lock
is always another thread's, and another program at the database is left out.

### BlockHash

`Hash` is the function that `_writeBlock` calls, with the constants, rotations, shifts
and the width of a word as parameters. A block has 2^16 bytes, so that groups of 16
leave no tail. `OneGroupTells` says that blocks which differ in one group have
different hashes: each group is taken in, and the end is, by a permutation of the
two halves. It is evaluated for words of 2 bits with 2 groups and of 3 bits with one
(`BlocksToldApart`, an assumption of `MCBlockTables` that TLC evaluates), with small
constants in place of the real ones that have what it rests on: odd factors. Blocks
that differ in several groups may collide; elsewhere a hash stands for its content.

## Runs

| Run | Instance | Shows |
|---|---|---|
| `tables` | 3 keys, 3 hashes, counts -1..2, use counts within 3 (7,630 states) | `UniqueHash`, whatever counts callers hold; `NeverDangles` and `OthersKeepTheirBlock`: an honest caller makes no reference dangle and takes no block from another, from any state that callers of any kind have left; and `BlocksToldApart` |
| `cache_exclusive` | 2 files of 1 block, 2 handles, no eviction, no restart | the cache is an honest caller (`HonestTablesSpec`), `NeverUndercounted`, `NoForeignData`, and deduplication is invisible (`FileContentsSpec`) |
| `cache_partial` | 1 file, blocks of 2 units | `FileContentsSpec` for writes of part of a block |
| `cache_crash` | 1 file of 2 blocks, 1 row, 1 restart | `HashIsContent` and `RowsWithinSize` across crashes inside writes and truncates; `CacheInv`, `SignatureSafe` and `TablesSpec` (the cache refines `BlockTables`) with the counts and dangling references a restart leaves |
| `cache_evict` | cache limit 0, rounds of 2, 1 evicted object still reachable | while handles use evicted objects: `DataSafe`, an inductive invariant of the proofs, and `HashIsContent` |
| `cache_reload` | 1 file, blocks of 2 units, 1 restart | `LocksLeakOnlyOnLost`: a write is refused, and its `block_info` left locked for ever, only over a storage block whose data a crash lost |
| `writer_loop` | 2 blocks, 2 threads, cache limit 1, rounds of 2, writes may fail (15,640 states) | `SyncedSurvivesStop`; `DirtyIsWritten`, `SyncedIsWritten`, `SyncEnds`, `StopEnds` under fairness |
| `cache_threads` | 2 threads, 2 files, 2 contents, 2 rows (992,713 states) | `NoDeadlock`, `CountsCoverUsers`, `ReadsOwn` |
| `statements` | 2 connections of which one fails once, 2 files, 2 hashes (678,284 states) | `LockReleased`, `MisdirectedOnce`, `CommitsWhatWasAsked` (the statements together are the transaction of `BlockTables` that was asked for), `NumberAgrees` |
| `namespace` | names `a`, `A` and `___`, depth 3, 4 files (792,116 states) | `TreeConnected`, `ListsEveryChild`, `RenameMovesAll` |
| `service` | 2 names, 2 handles, 2 `_ID`s, blocks of 2 bytes, sizes up to 3, 2 threads (922,068 states) | `HandleSizesAgree`, `BlocksWithinSize`, `RootIsMade` |
| `use_count_assert` | as `cache_exclusive` | finding: the assertion at `blockscache.cpp:359` fails |

`TypeOK` is checked in one run of each component, but for `CacheThreads`, where it
is proved, as are `CommittedResolves` and what `NeverDangles` means for callers that
are always honest. What is proved as well (see
Proofs) holds for all values of the constants; one or two small runs of each such
property show that it says something.

Where a property has a condition, the condition is a constant of the run, and
the hazard list says what happens without it:

- `HonestTablesSpec`, `NeverUndercounted`, `NoForeignData`, `FileContentsSpec`
  need one handle per file at a time, no eviction and no restart. After a
  restart the count comes from the table, which may be too low; after an
  eviction a handle puts a block back with count 0; two handles of one file do
  not see each other's changes. In each case a shared block can be overwritten.
- `RowsWithinSize` needs one handle per file, but holds across crashes.
- `LocksLeakOnlyOnLost` needs that nothing is evicted: a block that is evicted
  after it was picked and written again also cannot be read back.
- `TablesSpec`, `HashIsContent` and `SignatureSafe` need none of this.
  `HashIsContent` leaves out blocks in `lost`: those dirty at a crash, and those
  written between the writer's pick and its erase.
- `SyncedSurvivesStop`, `DirtyIsWritten` and `SyncedIsWritten` stop at a
  `mishap`: a failed `pwrite` marks its block clean all the same, a block written
  between pick and erase is dropped, and a worker that ends closes the storage
  file for all. They speak of a process in the foreground: one that forks has no
  writer, and writes nothing ever. As an unmount ends the workers of a process
  with several threads before `stop`, `SyncedSurvivesStop` says something only
  with `-f -s`, where the one thread is `main`'s. What is promised is what was
  unwritten when a sync found the writer *waiting*; a sync can find it nowhere
  else, but for the moment before it has begun.
- `SyncEnds` leaves out the fork with the mutex locked, and takes for granted that
  from some time on the writer asks for no repeated pass (`<>[]~writer.repeat`).
  That is more than that each sync finds a pass that is not repeated: a cache that
  fills up now and then for ever is left out as well.
- `CountsCoverUsers` and `ReadsOwn` hold as long as no two threads race: for a
  count, when one commits a change to the users of a block while another is
  between its commit and the cache; or for the position of the descriptor, when
  one seeks between another's seek and read. `raced` names these two races, and
  the runs show that there is no third.
- `CommitsWhatWasAsked` and `NumberAgrees` leave out a call one of whose own
  statements ran with the values of an earlier, failed call. After such a call
  there may be two rows of one hash, and then `BlockTables` says nothing.
- `TreeConnected` and `RenameMovesAll` leave out the time after a rename that was
  cut short, until it is repeated; and all that follows when something else
  comes between (`Damaged`). `Damaged` is also a rename after which LIKE has taken
  along the directory that its target lies in, and one cut short of which a repeat
  could move rows a second time. These two and `ListsEveryChild` also leave out
  what follows after LIKE has matched otherwise than name by name (`strayed`): then
  paths and depths go wrong, as described under Findings.
- `HandleSizesAgree` leaves out files resized while another handle was open, and
  `BlocksWithinSize` those a rename replaced and those a handle with another size
  than the file's wrote or resized. In each of these the code does go wrong; that
  there is no other way to it is what the properties say.
- `RootIsMade` leaves out a `create("/")` that failed for more than a lock.

### Bounds

A content is a function from units to bytes, so with 1 unit and 2 bytes there
are 2 contents, enough for sharing, for a write that must not be in place and
for one that may. As no two rows carry one hash, `MaxRows` equal to the number
of contents never stops an insert; `cache_partial` (4 contents, 2 rows),
`cache_crash` and `cache_reload` (2 contents, 1 row) are bounded by it. One row is
enough for a dangling reference: two blocks share it, writing one again lowers
the row's count, after a restart the other is overwritten in place. `MaxUse` bounds counts on both sides of 0, in memory and in the
table; a step that would exceed it is not taken. Dangling references and
counts that are one too low already appear within 1. With 2 contents the only
content without a row may be that of the dangling reference itself, so that
overwriting block 0 in place would leave the tables as they are and `TablesSpec`
unbroken; `CacheInv`, in the same run, forbids the count that would allow it, and
`CacheImplementsTables` is proved for any contents. One restart suffices for
the table's count to replace the one in memory. `MaxOrphans` bounds evicted
objects that handles still reach: above it the object is freed at once, which
libcds may also do. Deadlock is not checked in the cache runs, as the process
may die of the null hash (`TruncateHole`) and stay down when no restart is left.
Files and handles are interchangeable, and symmetric in the runs that have more
than one.

`writer_loop`: with two blocks one can be visited and dirtied again behind the
iterator while the other is ahead of it; with a limit of 1 both pick and erase,
and the repeated pass, happen. Two threads let one sync wait while another comes
and goes. The process may stop, so deadlock is not checked.

`cache_threads`: two threads suffice for each race and for a cycle of waits; two
files for a shared block and its second user; two contents for an overwrite in
place, a row found and a row inserted. No request begins after a race, and none
that writes while a count exceeds `MaxUse`; then everything stops, and deadlock
in TLC's sense is not checked (`NoDeadlock` is about threads that wait for each
other).

`statements`: one connection fails at most once, at any statement, and may then
go on with the statement it left; the other takes the write lock in between.
With one size, a misdirected `ftruncate` is told from a right one by its file.
`MisdirectedOnce` is proved for any number of failures.

`namespace`: `"a"` and `"A"` are alike to LIKE and not to `=`; `"___"` is as a pattern
like itself, and takes `a/A` and its likes, so that renaming it moves paths whose depth
then differs from their length. No name is the beginning of another, so that the
string test of `rename` (`SubdirRefused`) is never met here (its effect is described
under Findings). Paths with `"___"` anywhere but at the root are not asked for
(`Asked`), nor in any other way different from those with `"a"` there. Depth 3 and 3
files beside the root allow a directory in a directory with a file in it, a directory
with a file in it beside a directory of the like name, and `___` beside `a/A` with a
file in it. A rename that takes its own target's directory along needs depth 4 to
be whole, of `A` to `a/b/A`; the theorems hold for any depth.

`service`: two handles can be on one file or on two; two names let a rename replace
a file, and with two `_ID`s an `_ID` comes into use again. With blocks of two bytes
and sizes up to 3 a file has up to two blocks, whole or in part: enough for a stale
size to lie in the same block as the file's, a block below it or above. Two threads
suffice for one to wait, lose or find the row while the other makes it.

### Fairness

Only `WriterLoop` has liveness properties. `Fairness` in it is:

- `WF_vars(WriterWorks)`: the writer is a thread, and the scheduler runs it when
  it can go on. It covers all it does but the time-out of its wait;
- `WF_vars(Joins)`: `main` goes on when the writer has ended;
- `SF_vars(SyncReturns(t))`: a thread that waits for `writerMutex` gets it, when
  the mutex is free again and again. Weak fairness is not enough, as the writer
  takes it back after each wait, and other threads take it for their syncs.

That five seconds pass, `WF_vars(TimesOut)`, is a hypothesis of the properties
that need it and not of the specification: `SyncedIsWritten` holds without it,
as a sync notifies the writer; `DirtyIsWritten` and `StopEnds` do not, as a
write and `stop` do not notify. No request is fair: none ever has to come.

## Findings

Rewriting a block with the content it has makes the row's use count one too
low (`use_count_assert`). In memory the count is right, so the error shows at
the next open in a debug build, and after a restart as an overwrite in place
of a block that other files use.

Met while modelling, and not runs of their own:

- the comment at `blockscache.cpp:180`, that a block no longer referenced gets use
  count 0, is not always true: it is -1 after the rewrite above, or 1 when the
  block is left through a `block_info` without object;
- the prefix test at `database.cpp:151` refuses to rename a directory `a` onto an
  empty directory `ab` with `-EINVAL`, though `ab` does not lie in `a`; what it
  is for, the kernel already refuses;
- renaming over a file leaves its rows in `file_blocks`; a file created later may get
  the `_ID` and with it the blocks;
- blocks beyond a file's size are left behind by handles with a stale size as well,
  without any rename. Two handles are opened at size 0, one writes three blocks and
  the other one: the size is then that of one block (`blockscache.cpp:219`,
  `database.cpp:238`), and an unlink releases one. The same comes of a truncate by path
  while a handle is open: the handle keeps the larger size, writes within it, and
  the row's size stays the smaller one. `BlocksWithinSize` says that these and the
  rename are all there is;
- `rename` finds what lies below a directory with LIKE, which ignores case. A
  rename of `A` to `a/b/x` moves `a/b`, which is LIKE `A/%`, to `a/b/x/b`; then no
  directory is left for `a/b/x` to lie in (`TakesParent`);
- as `_` also matches `/`, a rename of `/a_b` to `/x` moves `/a/b/c` to `/x/c`, with its
  depth of 3: neither `readdir` nor `dirEmpty` of `/x` finds it, so that `rmdir /x`
  succeeds. With a `%` in the name, of `/a%` to `/x`, `/abc/d` becomes `/xc/d`
  (`strayed`; without that condition `ListsEveryChild` and `TreeConnected` fail in
  the run `namespace`);
- a rename of `A` to `a/x` that is cut short and repeated finds the rows it has
  moved, as `a/x/...` is LIKE `A/%`, and moves them again, to `a/x/x/...`
  (`MovesTwice`).

## Proofs

Every theorem holds for any sets of files, handles, threads, connections,
contents and keys and any bounds. The assumptions are `TablesAssumption`,
`CacheAssumption` (the numbers are numbers, 0 is a byte, at least one block, unit
and use), `NullAssumption` (the null values are not values of the types they are
added to), `LoopAssumption` (numbers again), `ThreadsAssumption` (there are
finitely many files, as use counts count them; what is read is told from no data)
and `StatementsAssumption` (numbers again, and null values that are of no type
they are added to). Of `Namespace` they are `NamesAssumption` (a name begins with
itself and is like itself, what LIKE matches otherwise has more names than the
pattern's directory, and numbers again; nothing else is assumed of what is alike)
and again `NullAssumption`. `ServiceAssumption` (numbers again) is used by no proof.
Three more are hypotheses of the theorems that need them: `Exclusive` (one handle per file at a time), `Roomy` (`MaxRows <
CacheLimit`: the cache has room for every storage block there can be, so that
none is evicted) and `Undisturbed` (both, and no restart). The instances of
`cache_exclusive`, `cache_partial` and `cache_reload` satisfy those that the
properties they check need.

| Module | Theorem | Statement |
|---|---|---|
| `BlockTablesProofs` | `TablesTyped` | `Spec => []TypeOK` |
| | `NoTwoBlocksOfOneHash` | `Spec => []UniqueHash` |
| | `TransactionsResolve` | `Spec => CommittedResolves` |
| | `SpecNeverDangles` | `Spec => NeverDangles` |
| | `HonestCallersNeverDangle` | `HonestSpec => []NoDangling` |
| | `HonestCallersHarmNoOther` | `Spec => OthersKeepTheirBlock` |
| `BlocksCacheProofs` | `CacheInvariant` | `Spec => []CacheInv` |
| | `CacheTyped` | `Spec => []TypeOK` |
| | `SignatureSurvives` | `Spec => []SignatureSafe` |
| | `CacheImplementsTables` | `Spec => TablesSpec` |
| | `CacheNeverSplits` | `Spec => []T!UniqueHash` |
| | `RowsStayWithinSize` | `Exclusive => (Spec => []RowsWithinSize)` |
| `BlockContentProofs` | `CleanLosesNothing` | `Spec => []DataSafe` |
| | `BlocksKeepContent` | `Spec => []HashIsContent` |
| | `LeaksOnlyOnLost` | `Roomy => (Spec => LocksLeakOnlyOnLost)` |
| `SharingProofs` | `SharingCounted` | `Undisturbed => (Spec => [](Settled /\ SharingInv))` |
| | `CountsSuffice` | `Undisturbed => (Spec => []NeverUndercounted)` |
| | `HandlesReadTheirOwn` | `Undisturbed => (Spec => []NoForeignData)` |
| | `CallersHonest` | `Undisturbed => (Spec => HonestTablesSpec)` |
| | `FilesKeepContents` | `Undisturbed => (Spec => FileContentsSpec)` |
| `WriterLoopProofs` | `SpecStopInv` | `Spec => []StopInv` |
| | `SpecTypeOK` | `Spec => []TypeOK` |
| | `SpecSyncedSurvivesStop` | `Spec => []SyncedSurvivesStop` |
| `CacheThreadsProofs` | `SpecLockInv` | `Spec => []LockInv` |
| | `SpecThreadsTypeOK` | `Spec => []TypeOK` |
| | `SpecNoDeadlock` | `Spec => []NoDeadlock` |
| | `SpecThreadsInv` | `Spec => []ThreadsInv` |
| | `SpecCountsCoverUsers` | `Spec => []CountsCoverUsers` |
| | `SpecReadsOwn` | `Spec => []ReadsOwn` |
| `StatementsProofs` | `SpecLockInv` | `Spec => []LockInv` |
| | `SpecLockReleased` | `Spec => []LockReleased` |
| | `SpecMisdirectedOnce` | `Spec => []MisdirectedOnce` |
| | `SpecCallsInv` | `Spec => []CallsInv` |
| | `SpecStatementsTypeOK` | `Spec => []TypeOK` |
| | `SpecCommitsWhatWasAsked` | `Spec => CommitsWhatWasAsked` |
| | `SpecNumberAgrees` | `Spec => NumberAgrees` |
| `NamespaceProofs` | `SpecNamespaceTypeOK` | `Spec => []TypeOK` |
| | `SpecTreeConnected` | `Spec => []TreeConnected` |
| | `SpecListsEveryChild` | `Spec => []ListsEveryChild` |
| | `SpecRenameMovesAll` | `Spec => RenameMovesAll` |

**The tables.** Every statement either rewrites use counts and keeps all hashes
(`SetUseFacts`, `DecreaseUseFacts`), changes the hash of one row
(`ReplaceInPlaceRows`) or appends a row (`ReplaceInsertRows`); the last two only
under a hash just found absent. With `TypeOK`, `UniqueHash` and `NoDangling` are
each inductive as they stand: no strengthening is needed, because the use counts
play no part in them. `HonestCallersNeverDangle` says that the one condition the
counts are kept for is sufficient; that the cache meets it is `CallersHonest`.
`TransactionsResolve` follows each transaction to the row its file block ends up
with; only a hash that is already there twice could mislead it, and `UniqueHash`
excludes that.

**The cache implements the tables.** A step of `BlocksCache` that runs a
transaction must pass it a block and count within `CallerHolds`: an existing
storage block, or block 0 with a count other than 1. Neither `TypeOK` nor
`SignatureSafe` is inductive, and the condition on the caller is not a state
predicate at all; `CacheInv` is what makes them so:

- `RefsSafe`: a `weak_ptr` is never left pointing at a freed object, and when it
  points into the cache, then at the object of its `block_info`'s own number.
  Without it the count passed for one block could be read off another;
- `BlockZeroUnused` and the last part of `InfoSafe`: the object of block 0, in
  the cache or evicted, is clean, empty and has a count of at most 0. Counts
  move by the handle's own number, and a reference without a row loads with
  count 0, so block 0 is never taken for a block with a single user and never
  overwritten in place (`InPlaceNotZero`);
- `NumbersKnown`: a `block_info`'s number has a row or is 0, as rows are never
  deleted; so the block left behind exists;
- `RequestSafe`: the request at work has its handle, and its block a row;
- `SignatureOnlyInZero` and `CountsBounded`: what is read from the file is a
  content, and counts stay in the type of `BlockTables`.

The proof has one lemma per action (`InvOpen` to `InvRestart`), over lemmas that
say what one operator does to handles and objects together, `StoreSafe`
(`ObjectChanged`, `LiveSafe`, `UseTaken`, `ErasedReachable`, `ObjectGone`,
`LookupSafe`, `PopulateSafe`). `TablesStep` then maps each step to a transaction
or a stutter, and `CacheNeverSplits` is `NoTwoBlocksOfOneHash` carried over.

**Contents.** `HashIsContent` is not inductive either: an eviction could drop a
clean object whose data differs from the file's, and `PlaceData` could put
anything under the hash. `DataSafe` rules both out. `KeepsData` names the steps
after which the same can be read of every block; loading, counting, evicting
clean objects and freeing them are such steps (`PopulateKeeps`, `AddUseKeeps`,
`PlacedKeeps`, `LiveKeeps`); a hash changes only in `DataCommitted`, where its
block becomes the one being placed; `DataPlaceData` discharges that, and whatever
else is dropped is dirty, hence in `lost`.

**Lost old data.** A write is refused when the old data cannot be read back. For
`LocksLeakOnlyOnLost` it is not enough to know when data is dropped: `RoomInv` says
where the content of each storage block is, in the file, in memory and dirty,
about to be placed, or lost (`Backed`). It needs that nothing is erased from the
cache, which `NothingToEvict` derives from `Roomy`: with room for all rows the
writer never leaves its flushing pass. Restarts are allowed.

**Sharing.** `NeverUndercounted` counts all users of a block at once, and so does
what protects them: `SharingInv` says of a process that runs (`Alive`) that each
storage block has its object in memory, with the content of its row and a count
that is at least the number of file blocks referring to it, but for the one use
that a request has committed and not counted yet (`Counted`, `Uncounted`); that
a block about to be placed has one user (`Awaited`); that a `block_info` has the
hash and number that the tables have for its file block (`HandlesKnow`); and
that no reference dangles. Each part needs the others: a count of 1 and
`HandlesKnow` make the writer the only user, so that a write in place
(`ReplaceInPlace`) takes nothing from anyone, which keeps `HandlesKnow` true of
the others; and the count of the block that is left can be lowered because the
writer was one of its users. The users are compared as finite sets, one element
more or less at a time. `CallersHonest` and `FilesKeepContents` then map each step
to one of `HonestSpec` and of `FileContents`, where the content of a file block
is read through the object in memory. What each hypothesis of `Undisturbed`
prevents is listed under Runs.

**Sizes.** `RowsWithinSize` alone is not inductive: the size in the table is
written from that of a handle, before the rows of a write and after those a
truncate releases. `SizeInv` adds that the one handle of a file has the size of
its row (`HandlesAgree`), that a write at work ends within it (`WriteFits`), and
that the rows between a truncate's new size and where its loop has come are
released (`TruncateFits`). `Exclusive` (one handle per file) is needed: the size
of a second handle may be stale, and its write then shrinks the file. A crash
inside a truncate leaves the old size with fewer rows, which is safe; this is
where releasing after the size is saved would break the proof. `BlocksWithin` is
the arithmetic of block numbers against sizes that every case comes down to.

**The last pass.** `SyncedSurvivesStop` says that nothing promised is left at the
end; why is a matter of where the writer is. `StopInv` adds to the types:
`UnwrittenIsDirty` (without mishap, a block whose content is not in the file is
dirty, so that a pass writes it), `PromisedIsAhead` (during a pass what is
promised lies at or before the iterator's next block, and once the pass is over,
or before any wait, there is none) and `InOrder` (nothing is promised before
`fuse_main` serves, and `main` ends after the writer). A promise is made only
while the writer waits, so the next thing it does is a pass from block 1: the
step from `wait` is where a check of `terminated` would break the proof. Fairness
plays no part.

**Threads.** `NoDeadlock` says where holders of locks are, but not that those
places hold the right lock. `LockInv` adds which block a thread has at hand
(`BlocksAtHand`: an object that nobody takes away, for a write that of its file's
`block_info`), which places belong to which request (`OpsInPlace`), that two
requests on one file are not both writes (`OneWriter`, the kernel's lock) and who
holds what (`Holders`). The steps fall into those that only move a thread, those
that change one object or one `block_info`, and the four that commit; a lemma for
each kind says what it leaves of the parts. A `block_info` may be `Leaked`: the
theorem is that threads do not wait in a circle, not that no one waits for ever.

**Counts among threads.** `CountsCoverUsers` says nothing of a block while a thread
is between its commit and its update of the cache, and so cannot be inductive.
`ThreadsInv` says what is owed then: at most one thread is (`OnePending`, unless
`raced` has it), and the count falls short of the users by the one use it will
add, exceeds them by the one it will take, or is the number it has read (`Due`);
a block it is to place has one user. All else is counted (`UsesCovered`), and the
`block_info` of a file has the number of its row (`BlocksKnown`), which is why a
count of 1 means that the writer is the only user. For `ReadsOwn`, `HoldInv` adds
that a thread that works on an object holds its lock, and that the block of a
read stays that of its file as long as nobody writes the file (`ReadsBlock`); and
`ContentInv` that an object has the content of its row, or none while the file
has it. The one window in which an object and its row disagree is a commit in
place before `Place`; a read of that block by another file would make two users
of a block that has one. The lemmas named `...Rest` carry these through each
action, over `LockInv`.

**Statements.** `CallInv` is that the write lock belongs to the connection whose
call is not idle; every way out of a call (`Commits`, `RolledBack`) gives both up
at once. `Budget` counts: the statements of a connection that are held, and those
that were misdirected so far, are together at most the failures. A failing
statement is held, or still held, for one failure; one that runs with held
values is held no more and counts as misdirected.

`CommitsWhatWasAsked` speaks of a COMMIT, the one step that changes the tables
(`OnlyCommits`), but what it commits was done in the steps before. `CallsInv`
carries that along: `ViewInv` gives for each place in a call what its connection
sees of the tables, namely the committed ones with the statements run so far
applied (`StoredRows`, `Pointed`), and what the call has noted of the count and
the number by then (`Stored`). It stays because nobody else commits while one
connection has the lock, and because a statement that is not misdirected runs
with the values of its call. A call that was misdirected is let go from there on.
At the COMMIT this is compared with the three outcomes of `BlockTables`:
`IncreaseOne` needs that one row has the hash, as the code updates all rows that
have it, and `InsertThenSetUse` that the block replaced is not the one just
inserted.

**The tree.** A path is a sequence of names that a rename rebuilds (`Image`), and
LIKE may match more than what lies below a directory. `FilesInv` has what does not
depend on the shape of the tree: the types with the bound on depth, which a rename
at work carries for the rows it has to do (`RenameInv`); and that a row's depth is the
length of its path, unless something strayed (`RowsInv`, which is all that
`ListsEveryChild` needs). It holds of a row that is moved only because LIKE matched
it name by name, so that its path grows by as many names as `DepthDiff`.
`TreeConnected` is about times when no rename is at work; `TreeInv` says what holds
in between. Half way (`Halfway`), a row's directory is where its path says, or has
been moved ahead of the row, or the row has been moved ahead of it (`Parented`);
all that LIKE matches has been moved or is still to do (`Gone`); and what is moved
twice stays where it is (`Once`). `RowMovedHalfway` is the step of one row. The
same, with all that LIKE still matches as what is to do, holds after a rename that
was cut short (`CutInv`), and so the repeat finds the rows it must (`MoveBegins`).
That nothing lies below a path that does not exist (`AncestorsAre`) is an
induction on the length of paths, by the least one that would contradict it.
`NothingLeft` and `RenameMovesAll` follow from `Gone`, as what lies below the
source is LIKE it. The exemptions `TakesParent` and `MovesTwice` are where
`Parented` and `Once` do not hold, and `strayed` is where `RowsInv` does not.

**Model-checked only**: the liveness of `WriterLoop`, which is out of reach of the
prover; `Service` with `FileHandles` and `Connections`; and `BlockHash`, of which TLC
evaluates small instances.

## Not modelled

- `utime`, the columns mode (but for the type), uid, gid and times: no decision
  depends on them;
- directory handles: `readdir` uses the path of its `opendir` (listed as a hazard);
- the operations that answer `-ENOSYS`: they change nothing; that they too make a
  thread's connection first is in `Service`;
- `RecordSet`'s rows, which no caller looks at;
- descriptors: the connection that `~DataBase` fails to close;
- the memory behind a `block_info` pointer kept after its callback, which is up to
  libcds and the allocator; `CacheThreads` lets callback and lock be one step;
- offsets inside the units of a block, and a read beyond a stale size;
- what LIKE's matches other than name by name become, letter by letter: `Splice` is any
  function, and a path that is none any more ends the rename;
- directories and sizes together: `FileHandles` has names without directories;
- a `block_info` carried over from a call that failed inside `Statements`;
- collisions of MurmurHash3 beyond `OneGroupTells`, its other functions, and the
  classes of easySQLite that the program does not call;
- what is compiled out (`#if 0`): the second half of `DataBase::ftruncate`,
  `getStorageBlock` and `allocateStorageBlock`.

## Plan

Done: every module above. Left, in this order:

1. `Chunking`: the arithmetic of `readBuf`, `writeBuf` and `truncate` on byte
   offsets, against a reference definition.
2. `Statements` and `CacheThreads` composed: a failed statement's number and
   count taken into the cache by the thread's next request.
3. Directory handles in `Namespace`.
4. Proofs of `BlocksWithinSize` and `HandleSizesAgree`.
