----------------------------- MODULE WriterLoop -----------------------------
(***************************************************************************)
(* The life of the block cache: BlocksCache::start and stop around         *)
(* fuse_main, the writer thread between them (BlocksCache::run), and the   *)
(* requests that wait for it in sync (flush, fsync, release).              *)
(*                                                                         *)
(* A pass of the writer visits the cached blocks by number.  The writer    *)
(* holds writerMutex throughout and lets go of it only in wait_for.        *)
(* Blocks are made dirty at any moment, under a lock of their own.         *)
(***************************************************************************)
EXTENDS Naturals, FiniteSets

CONSTANTS
    NumBlocks,    \* storage blocks 1..NumBlocks
    Threads,      \* FUSE threads
    CacheLimit,   \* blocks cached above which the writer evicts
    EvictBatch,   \* blocks evicted per round
    Failing       \* TRUE if pwrite may fail

ASSUME LoopAssumption ==
    /\ NumBlocks \in Nat \ {0} /\ CacheLimit \in Nat /\ EvictBatch \in Nat \ {0}
    /\ Failing \in BOOLEAN

Blocks == 1..NumBlocks

VARIABLES
    daemon,       \* no -f or -d: fuse_main forks
    single,       \* -s: requests are served by the main thread
    main,         \* where main is
    writer,       \* the writer thread: where it is, the next block, victims, repeat
    writerMutex,  \* its holder; "ghost" is a thread that was not forked
    writeTriggered, terminated,
    created,      \* _blocks has been allocated
    cached,       \* the members of _blocks
    dirty,        \* those with the flag dirty
    thread,       \* what each FUSE thread does
    storage,      \* what the descriptor _storage is open on
    unwritten,    \* history: blocks whose latest content is not in the storage file
    promised,     \* history: those unwritten when a sync found the writer waiting
    mishap        \* history: a write failed or was dropped, or a worker has ended

vars == <<daemon, single, main, writer, writerMutex, writeTriggered, terminated,
          created, cached, dirty, thread, storage, unwritten, promised, mishap>>
config == <<daemon, single>>
flags == <<writeTriggered, terminated, created>>
store == <<cached, dirty, storage, unwritten, promised, mishap>>

Places == {"created", "enter", "loop", "wait", "pass", "pick", "erase", "ended", "gone"}

TypeOK ==
    /\ daemon \in BOOLEAN /\ single \in BOOLEAN
    /\ main \in {"starting", "serving", "stopping", "ended", "dead"}
    /\ writer \in [at : Places, next : 1..(NumBlocks + 1), victims : SUBSET Blocks,
                   repeat : BOOLEAN]
    /\ writerMutex \in {"free", "writer", "ghost"}
    /\ writeTriggered \in BOOLEAN /\ terminated \in BOOLEAN /\ created \in BOOLEAN
    /\ dirty \subseteq cached /\ cached \subseteq Blocks
    /\ thread \in [Threads -> {"idle", "sync"}]
    /\ storage \in {"open", "closed", "foreign"}
    /\ promised \subseteq unwritten /\ unwritten \subseteq Blocks
    /\ mishap \in BOOLEAN

\* BlocksCache::start has opened the storage file and started the thread.
Init ==
    /\ daemon \in BOOLEAN /\ single \in BOOLEAN
    /\ main = "starting"
    /\ writer = [at |-> "created", next |-> 1, victims |-> {}, repeat |-> FALSE]
    /\ writerMutex = "free"
    /\ writeTriggered = FALSE /\ terminated = FALSE /\ created = FALSE
    /\ cached = {} /\ dirty = {} /\ unwritten = {} /\ promised = {}
    /\ thread = [t \in Threads |-> "idle"]
    /\ storage = "open"
    /\ mishap = FALSE

At(place) == main # "dead" /\ writer.at = place
Goes(place) == writer' = [writer EXCEPT !.at = place]

----------------------------------------------------------------------------
(* The main thread: fuse_main, which forks unless told not to, and stop.   *)

Serves == main = "starting" /\ main' = "serving"

FuseMain ==
    /\ Serves /\ ~daemon
    /\ UNCHANGED <<config, writer, writerMutex, flags, thread, store>>

\* The child has what memory was, a locked mutex included, and no writer.
Forks ==
    /\ Serves /\ daemon
    /\ writer' = [writer EXCEPT !.at = "gone"]
    /\ writerMutex' = IF writerMutex = "free" THEN "free" ELSE "ghost"
    /\ UNCHANGED <<config, flags, thread, store>>

\* A request that comes before _blocks is allocated: a null pointer.
Dies ==
    /\ main = "serving" /\ ~created
    /\ main' = "dead"
    /\ UNCHANGED <<config, writer, writerMutex, flags, thread, store>>

\* fuse_main returns, when unmounted or as it could not mount.  Its worker
\* threads have ended: each destroys a BlocksCache of its own, and with the
\* first of them the descriptor is closed.
FuseReturns ==
    /\ main \in {"starting", "serving"}
    /\ \A t \in Threads : thread[t] = "idle"
    /\ main' = "stopping"
    /\ terminated' = TRUE
    /\ storage' = IF single \/ main = "starting" THEN storage ELSE "closed"
    /\ mishap' = (mishap \/ storage' # "open")
    /\ UNCHANGED <<config, writer, writerMutex, writeTriggered, created, cached,
                   dirty, thread, unwritten, promised>>

\* thr.join(): for ever, when the thread was not forked.
Joins ==
    /\ main = "stopping" /\ writer.at = "ended"
    /\ main' = "ended"
    /\ storage' = "closed"
    /\ UNCHANGED <<config, writer, writerMutex, flags, cached, dirty, thread,
                   unwritten, promised, mishap>>

----------------------------------------------------------------------------
(* Requests.                                                               *)

Free(t) ==
    /\ main = "serving" /\ thread[t] = "idle"
    /\ single => \A u \in Threads : thread[u] = "idle"

\* _getLockedFileBlock puts a block into the cache.
Reads(t, b) ==
    /\ created /\ Free(t)
    /\ cached' = cached \cup {b}
    /\ UNCHANGED <<config, main, writer, writerMutex, flags, dirty, thread, storage,
                   unwritten, promised, mishap>>

\* _writeBlock.  A content that is new is not yet promised by a sync.
Writes(t, b) ==
    /\ created /\ Free(t)
    /\ cached' = cached \cup {b}
    /\ dirty' = dirty \cup {b}
    /\ unwritten' = unwritten \cup {b}
    /\ promised' = promised \ {b}
    /\ UNCHANGED <<config, main, writer, writerMutex, flags, thread, storage, mishap>>

\* Flush, Fsync, Release.
Syncs(t) ==
    /\ Free(t)
    /\ thread' = [thread EXCEPT ![t] = "sync"]
    /\ UNCHANGED <<config, main, writer, writerMutex, flags, store>>

\* The flag not set: notify_one alone, which the predicate turns down.
SyncReturnsUnasked(t) ==
    /\ main = "serving" /\ thread[t] = "sync" /\ writerMutex = "free"
    /\ thread' = [thread EXCEPT ![t] = "idle"]
    /\ promised' = IF At("wait") THEN unwritten ELSE promised
    /\ UNCHANGED <<config, main, writer, writerMutex, flags, cached, dirty, storage,
                   unwritten, mishap>>

\* BlocksCache::sync, once it has the mutex.
SyncReturns(t) ==
    /\ main = "serving" /\ thread[t] = "sync" /\ writerMutex = "free"
    /\ writeTriggered' = TRUE
    /\ thread' = [thread EXCEPT ![t] = "idle"]
    /\ promised' = IF At("wait") THEN unwritten ELSE promised
    /\ UNCHANGED <<config, main, writer, writerMutex, terminated, created, cached,
                   dirty, storage, unwritten, mishap>>

\* libfuse ends an idle worker (more than 10): ~BlocksCache closes _storage.
WorkerEnds ==
    /\ main = "serving" /\ ~single
    /\ storage' = "closed"
    /\ mishap' = TRUE
    /\ UNCHANGED <<config, main, writer, writerMutex, flags, cached, dirty, thread,
                   unwritten, promised>>

\* A new worker opens the database, which may get the number just freed.
WorkerBegins ==
    /\ main = "serving" /\ ~single /\ storage = "closed"
    /\ storage' = "foreign"
    /\ UNCHANGED <<config, main, writer, writerMutex, flags, cached, dirty, thread,
                   unwritten, promised, mishap>>

----------------------------------------------------------------------------
(* The writer thread.                                                      *)

Creates ==
    /\ At("created") /\ Goes("enter")
    /\ created' = TRUE
    /\ UNCHANGED <<config, main, writerMutex, writeTriggered, terminated, thread, store>>

Enters ==
    /\ At("enter") /\ writerMutex = "free" /\ Goes("loop")
    /\ writerMutex' = "writer"
    /\ UNCHANGED <<config, main, flags, thread, store>>

\* The iterator of the last pass goes on.
BeginPassResuming == writer' = [writer EXCEPT !.at = "pass", !.repeat = FALSE]

BeginPass == writer' = [writer EXCEPT !.at = "pass", !.next = 1, !.repeat = FALSE]

\* Sleeping instead of waiting on the condition variable.
WaitsHolding ==
    /\ At("loop") /\ ~terminated /\ ~writer.repeat /\ ~writeTriggered /\ Goes("wait")
    /\ UNCHANGED <<config, main, writerMutex, flags, thread, store>>

\* while (!terminated)
Waits ==
    /\ At("loop") /\ ~terminated /\ ~writer.repeat /\ ~writeTriggered /\ Goes("wait")
    /\ writerMutex' = "free"
    /\ UNCHANGED <<config, main, flags, thread, store>>

\* wait_for returns at once if a sync came before the loop was reached.
WaitsNot ==
    /\ At("loop") /\ ~terminated /\ ~writer.repeat /\ writeTriggered /\ BeginPass
    /\ writeTriggered' = FALSE
    /\ UNCHANGED <<config, main, writerMutex, terminated, created, thread, store>>

Repeats ==
    /\ At("loop") /\ ~terminated /\ writer.repeat /\ BeginPass
    /\ UNCHANGED <<config, main, writerMutex, flags, thread, store>>

\* terminated looked at after the wait as well.
EndsFromWait ==
    /\ \/ At("loop")
       \/ At("wait") /\ writerMutex = "free"
    /\ terminated /\ Goes("ended")
    /\ writerMutex' = "free"
    /\ UNCHANGED <<config, main, flags, thread, store>>

Ends ==
    /\ At("loop") /\ terminated /\ Goes("ended")
    /\ writerMutex' = "free"
    /\ UNCHANGED <<config, main, flags, thread, store>>

Wakes ==
    /\ At("wait") /\ writerMutex = "free" /\ BeginPass
    /\ writerMutex' = "writer"
    /\ writeTriggered' = FALSE
    /\ UNCHANGED <<config, main, terminated, created, thread, store>>

Notified == writeTriggered /\ Wakes

\* wait instead of wait_for.
WaitsForever == FALSE

\* Five seconds have passed.
TimesOut == ~writeTriggered /\ Wakes

\* pwrite and dirty = false, whatever pwrite returned.
Flush(b) ==
    /\ dirty' = dirty \ {b}
    /\ \/ b \notin dirty /\ UNCHANGED <<unwritten, promised, mishap>>
       \/ /\ b \in dirty /\ storage = "open"
          /\ unwritten' = unwritten \ {b}
          /\ promised' = promised \ {b}
          /\ UNCHANGED mishap
       \/ /\ b \in dirty /\ (Failing \/ storage # "open")
          /\ mishap' = TRUE
          /\ UNCHANGED <<unwritten, promised>>

Visits(b) ==
    /\ At("pass") /\ b = writer.next
    /\ Flush(b)
    /\ writer' = [writer EXCEPT !.next = @ + 1]
    /\ UNCHANGED <<config, main, writerMutex, flags, cached, thread, storage>>

Full == Cardinality(cached) > CacheLimit

EndsPass ==
    /\ At("pass") /\ writer.next > NumBlocks
    /\ writer' = [writer EXCEPT !.at = IF Full THEN "pick" ELSE "loop",
                               !.next = IF Full THEN 1 ELSE @]
    /\ UNCHANGED <<config, main, writerMutex, flags, thread, store>>

\* atime decides; any block may be old enough.
Picks(b) ==
    /\ At("pick") /\ b \in cached \ writer.victims /\ b >= writer.next
    /\ Cardinality(writer.victims) < EvictBatch
    /\ Flush(b)
    /\ writer' = [writer EXCEPT !.victims = @ \cup {b}, !.next = b + 1]
    /\ UNCHANGED <<config, main, writerMutex, flags, cached, thread, storage>>

EndsPick ==
    /\ At("pick") /\ Goes("erase")
    /\ UNCHANGED <<config, main, writerMutex, flags, thread, store>>

\* Erased, and still in the list of dirty blocks.
ErasesKeepingDirty(b) ==
    /\ At("erase") /\ b \in writer.victims
    /\ writer' = [writer EXCEPT !.victims = @ \ {b}]
    /\ cached' = cached \ {b}
    /\ UNCHANGED <<config, main, writerMutex, flags, dirty, thread, storage, unwritten,
                   promised, mishap>>

Erases(b) ==
    /\ At("erase") /\ b \in writer.victims
    /\ writer' = [writer EXCEPT !.victims = @ \ {b}]
    /\ cached' = cached \ {b}
    /\ dirty' = dirty \ {b}
    /\ mishap' = (mishap \/ b \in dirty)
    /\ UNCHANGED <<config, main, writerMutex, flags, thread, storage, unwritten, promised>>

EndsErase ==
    /\ At("erase") /\ writer.victims = {}
    /\ writer' = [writer EXCEPT !.at = "loop", !.repeat = Full]
    /\ UNCHANGED <<config, main, writerMutex, flags, thread, store>>

----------------------------------------------------------------------------

Main == FuseMain \/ Forks \/ FuseReturns \/ Joins

\* All the writer does without waiting for five seconds to pass.
WriterWorks ==
    \/ Creates \/ Enters \/ Waits \/ WaitsNot \/ Repeats \/ Ends \/ Notified
    \/ \E b \in Blocks : Visits(b)
    \/ EndsPass \/ EndsPick
    \/ \E b \in Blocks : Picks(b)
    \/ \E b \in Blocks : Erases(b)
    \/ EndsErase

Requests ==
    \/ \E t \in Threads, b \in Blocks : Reads(t, b)
    \/ \E t \in Threads, b \in Blocks : Writes(t, b)
    \/ \E t \in Threads : Syncs(t)
    \/ \E t \in Threads : SyncReturns(t)
    \/ WorkerEnds \/ WorkerBegins \/ Dies

Next == Main \/ WriterWorks \/ TimesOut \/ Requests

(* The writer is a thread that the scheduler runs.  A sync that waits for  *)
(* the mutex gets it although others come and go: the writer leaves it     *)
(* free while it waits, which is enabled again and again but not always.   *)
(* That five seconds pass is assumed only where a property says so.        *)
Fairness ==
    /\ WF_vars(WriterWorks)
    /\ WF_vars(Joins)
    /\ \A t \in Threads : SF_vars(SyncReturns(t))

Spec == Init /\ [][Next]_vars /\ Fairness

----------------------------------------------------------------------------
(* Properties *)

Running == main = "serving" /\ ~daemon

\* A clean unmount (fuse_main returns, BlocksCache::stop) loses nothing that was
\* in the cache when a flush, fsync or release returned, although sync only asks
\* for a pass: terminated is looked at before a wait, so that one more pass
\* follows the last sync.  In the foreground, once the writer has begun, and as long
\* as no write failed, no block was evicted with new data, and no worker thread had
\* closed the file: with one thread (-f -s), that is, as the end of every worker
\* closes it, and an unmount of several ends them before the stop.
SyncedSurvivesStop == main = "ended" /\ ~mishap => promised = {}

\* What is dirty is written in the end, without any sync, while requests go on
\* dirtying blocks before and behind the iterator and the cache is evicted
\* (BlocksCache::run): every wait times out, and every pass reaches every block.
DirtyIsWritten ==
    WF_vars(TimesOut) =>
        \A b \in Blocks : (Running /\ ~mishap /\ b \in unwritten)
                            ~> (b \notin unwritten \/ mishap \/ ~Running)

\* A sync wakes the writer: what was promised is written, or replaced, without
\* the five seconds having to pass.
SyncedIsWritten ==
    \A b \in Blocks : (~daemon /\ b \in promised /\ ~mishap) ~> (b \notin promised \/ mishap)

\* A sync returns, unless the process was forked with the mutex locked, provided
\* that from some time on the writer does not ask to repeat a pass any more, as it
\* does while the cache is too full and keeps the mutex.
SyncEnds ==
    (WF_vars(TimesOut) /\ <>[]~writer.repeat) =>
        \A t \in Threads : (thread[t] = "sync" /\ writerMutex # "ghost")
                            ~> (thread[t] = "idle" \/ main = "dead")

\* BlocksCache::stop returns in the foreground, although it does not notify: the
\* writer finds terminated when its wait has timed out.
StopEnds == WF_vars(TimesOut) => ((main = "stopping" /\ ~daemon) ~> (main = "ended"))
=============================================================================
