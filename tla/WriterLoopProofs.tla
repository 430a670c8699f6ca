------------------------- MODULE WriterLoopProofs -------------------------
(***************************************************************************)
(* What the writer thread keeps, for any number of blocks and threads, any *)
(* limit and batch, and whether or not writes fail: types, and that a      *)
(* clean unmount loses nothing that was synced.                            *)
(***************************************************************************)
EXTENDS WriterLoop, TLAPS

\* A block whose content is not in the file is dirty, until a write fails or a
\* block is dropped.
UnwrittenIsDirty == ~mishap => unwritten \subseteq dirty

\* What a sync has promised lies before the iterator of the pass it asked for,
\* and there is none left once that pass is over.
PromisedIsAhead ==
    ~mishap =>
        /\ writer.at = "pass" => \A b \in promised : b >= writer.next
        /\ writer.at \notin {"wait", "pass"} => promised = {}

\* Nothing is promised before fuse_main serves, and main ends after the writer.
InOrder ==
    /\ main = "starting" => promised = {}
    /\ main = "ended" => writer.at = "ended"

StopInv == TypeOK /\ UnwrittenIsDirty /\ PromisedIsAhead /\ InOrder

WriterType == [at : Places, next : 1..(NumBlocks + 1), victims : SUBSET Blocks,
               repeat : BOOLEAN]

USE LoopAssumption

\* A writer of which every field has its type.
LEMMA WriterTyped ==
    ASSUME NEW p \in Places, NEW n \in 1..(NumBlocks + 1), NEW v \in SUBSET Blocks,
           NEW r \in BOOLEAN
    PROVE  [at |-> p, next |-> n, victims |-> v, repeat |-> r] \in WriterType
  BY DEF WriterType

\* What the steps of the writer make of its record.
LEMMA BeginPassTyped ==
    ASSUME writer \in WriterType, BeginPass
    PROVE  /\ writer' = [at |-> "pass", next |-> 1, victims |-> writer.victims,
                         repeat |-> FALSE]
           /\ writer' \in WriterType
<1>1. writer' = [at |-> "pass", next |-> 1, victims |-> writer.victims, repeat |-> FALSE]
  BY DEF BeginPass, WriterType
<1>2. "pass" \in Places /\ 1 \in 1..(NumBlocks + 1) /\ writer.victims \in SUBSET Blocks
  BY LoopAssumption DEF Places, WriterType
<1> QED BY <1>1, <1>2, WriterTyped

LEMMA StopInit == Init => StopInv
<1> SUFFICES ASSUME Init PROVE StopInv
  OBVIOUS
<1>1. writer \in WriterType
  <2>1. writer = [at |-> "created", next |-> 1, victims |-> {}, repeat |-> FALSE]
    BY DEF Init
  <2>2. "created" \in Places /\ 1 \in 1..(NumBlocks + 1) /\ {} \in SUBSET Blocks
    BY DEF Places
  <2> QED BY <2>1, <2>2, WriterTyped
<1>2. TypeOK
  BY <1>1 DEF Init, TypeOK, WriterType
<1> QED BY <1>2 DEF Init, StopInv, UnwrittenIsDirty, PromisedIsAhead, InOrder

\* Every step but the failing of a write and the dropping of a block keeps what
\* is not written dirty; Writes alone adds to it.
LEMMA StopNext == StopInv /\ [Next]_vars => StopInv'
<1> SUFFICES ASSUME StopInv, [Next]_vars PROVE StopInv'
  OBVIOUS
<1> USE DEF StopInv, TypeOK, UnwrittenIsDirty, PromisedIsAhead, InOrder, Places, Blocks,
            flags, store, config
<1>1. CASE FuseMain
  BY <1>1 DEF FuseMain, Serves
<1>2. CASE Forks
  BY <1>2 DEF Forks, Serves
<1>3. CASE FuseReturns
  BY <1>3 DEF FuseReturns
<1>4. CASE Joins
  BY <1>4 DEF Joins
<1>5. CASE Dies
  BY <1>5 DEF Dies
<1>6. ASSUME NEW t \in Threads, NEW b \in Blocks, Reads(t, b) PROVE StopInv'
  BY <1>6 DEF Reads, Free
<1>7. ASSUME NEW t \in Threads, NEW b \in Blocks, Writes(t, b) PROVE StopInv'
  BY <1>7 DEF Writes, Free
<1>8. ASSUME NEW t \in Threads, Syncs(t) PROVE StopInv'
  BY <1>8 DEF Syncs, Free
<1>9. ASSUME NEW t \in Threads, SyncReturns(t) PROVE StopInv'
  BY <1>9 DEF SyncReturns, At
<1>10. CASE WorkerEnds
  BY <1>10 DEF WorkerEnds
<1>11. CASE WorkerBegins
  BY <1>11 DEF WorkerBegins
<1>12. CASE Creates
  BY <1>12 DEF Creates, At, Goes
<1>13. CASE Enters
  BY <1>13 DEF Enters, At, Goes
<1>14. CASE Waits
  BY <1>14 DEF Waits, At, Goes
<1>15. CASE WaitsNot
  <2>1. writer \in WriterType /\ BeginPass
    BY <1>15 DEF WaitsNot, WriterType
  <2>2. /\ writer' = [at |-> "pass", next |-> 1, victims |-> writer.victims, repeat |-> FALSE]
        /\ writer' \in WriterType
    BY <2>1, BeginPassTyped
  <2>3. TypeOK'
    BY <1>15, <2>2 DEF WaitsNot, WriterType
  <2>4. (UnwrittenIsDirty /\ PromisedIsAhead /\ InOrder)'
    BY <1>15, <2>2 DEF WaitsNot, At
  <2> QED BY <2>3, <2>4
<1>16. CASE Repeats
  <2>1. writer \in WriterType /\ BeginPass
    BY <1>16 DEF Repeats, WriterType
  <2>2. /\ writer' = [at |-> "pass", next |-> 1, victims |-> writer.victims, repeat |-> FALSE]
        /\ writer' \in WriterType
    BY <2>1, BeginPassTyped
  <2>3. TypeOK'
    BY <1>16, <2>2 DEF Repeats, WriterType
  <2>4. (UnwrittenIsDirty /\ PromisedIsAhead /\ InOrder)'
    BY <1>16, <2>2 DEF Repeats, At
  <2> QED BY <2>3, <2>4
<1>17. CASE Ends
  BY <1>17 DEF Ends, At, Goes
<1>18. CASE Notified
  <2>1. writer \in WriterType /\ BeginPass
    BY <1>18 DEF Notified, Wakes, WriterType
  <2>2. /\ writer' = [at |-> "pass", next |-> 1, victims |-> writer.victims, repeat |-> FALSE]
        /\ writer' \in WriterType
    BY <2>1, BeginPassTyped
  <2>3. TypeOK'
    BY <1>18, <2>2 DEF Notified, Wakes, WriterType
  <2>4. (UnwrittenIsDirty /\ PromisedIsAhead /\ InOrder)'
    BY <1>18, <2>2 DEF Notified, Wakes, At
  <2> QED BY <2>3, <2>4
<1>19. CASE TimesOut
  <2>1. writer \in WriterType /\ BeginPass
    BY <1>19 DEF TimesOut, Wakes, WriterType
  <2>2. /\ writer' = [at |-> "pass", next |-> 1, victims |-> writer.victims, repeat |-> FALSE]
        /\ writer' \in WriterType
    BY <2>1, BeginPassTyped
  <2>3. TypeOK'
    BY <1>19, <2>2 DEF TimesOut, Wakes, WriterType
  <2>4. (UnwrittenIsDirty /\ PromisedIsAhead /\ InOrder)'
    BY <1>19, <2>2 DEF TimesOut, Wakes, At
  <2> QED BY <2>3, <2>4
<1>20. ASSUME NEW b \in Blocks, Visits(b) PROVE StopInv'
  <2>1. writer' = [at |-> "pass", next |-> b + 1,
                   victims |-> writer.victims, repeat |-> writer.repeat]
    BY <1>20 DEF Visits, At
  <2>2. writer' \in WriterType
    BY <2>1, WriterTyped
  <2>3. Flush(b) /\ UNCHANGED <<config, main, writerMutex, flags, cached, thread, storage>>
    BY <1>20 DEF Visits
  <2>4. dirty' \subseteq cached /\ promised' \subseteq unwritten' /\ unwritten' \subseteq Blocks
    BY <2>3 DEF Flush
  <2>5. mishap' \in BOOLEAN
    BY <2>3 DEF Flush
  <2>6. TypeOK'
    BY <2>2, <2>3, <2>4, <2>5 DEF WriterType
  <2>7. (UnwrittenIsDirty /\ PromisedIsAhead /\ InOrder)'
    BY <1>20, <2>1 DEF Visits, Flush, At
  <2> QED BY <2>6, <2>7
<1>21. CASE EndsPass
  <2>1. writer' = [at |-> IF Full THEN "pick" ELSE "loop",
                   next |-> IF Full THEN 1 ELSE writer.next,
                   victims |-> writer.victims, repeat |-> writer.repeat]
    BY <1>21 DEF EndsPass, At
  <2>2. writer' \in WriterType
    <3>1. CASE Full
      <4>1. writer' = [at |-> "pick", next |-> 1, victims |-> writer.victims,
                       repeat |-> writer.repeat]
        BY <2>1, <3>1
      <4> QED BY <4>1, WriterTyped
    <3>2. CASE ~Full
      <4>1. writer' = [at |-> "loop", next |-> writer.next, victims |-> writer.victims,
                       repeat |-> writer.repeat]
        BY <2>1, <3>2
      <4> QED BY <4>1, WriterTyped
    <3> QED BY <3>1, <3>2
  <2>3. TypeOK'
    BY <1>21, <2>2 DEF EndsPass, WriterType
  <2>4. (UnwrittenIsDirty /\ PromisedIsAhead /\ InOrder)'
    BY <1>21, <2>1 DEF EndsPass, At
  <2> QED BY <2>3, <2>4
<1>22. CASE EndsPick
  BY <1>22 DEF EndsPick, At, Goes
<1>23. ASSUME NEW b \in Blocks, Picks(b) PROVE StopInv'
  <2>1. writer' = [at |-> "pick", next |-> b + 1,
                   victims |-> writer.victims \cup {b}, repeat |-> writer.repeat]
    BY <1>23 DEF Picks, At
  <2>2. writer' \in WriterType
    BY <2>1, WriterTyped
  <2>3. Flush(b) /\ UNCHANGED <<config, main, writerMutex, flags, cached, thread, storage>>
    BY <1>23 DEF Picks
  <2>4. dirty' \subseteq cached /\ promised' \subseteq unwritten' /\ unwritten' \subseteq Blocks
    BY <2>3 DEF Flush
  <2>5. mishap' \in BOOLEAN
    BY <2>3 DEF Flush
  <2>6. TypeOK'
    BY <2>2, <2>3, <2>4, <2>5 DEF WriterType
  <2>7. (UnwrittenIsDirty /\ PromisedIsAhead /\ InOrder)'
    BY <1>23, <2>1 DEF Picks, Flush, At
  <2> QED BY <2>6, <2>7
<1>24. ASSUME NEW b \in Blocks, Erases(b) PROVE StopInv'
  <2>1. writer' = [at |-> "erase", next |-> writer.next,
                   victims |-> writer.victims \ {b}, repeat |-> writer.repeat]
    BY <1>24 DEF Erases, At
  <2>2. writer' \in WriterType
    BY <1>24, <2>1, WriterTyped DEF Erases, At
  <2>3. TypeOK'
    BY <1>24, <2>2 DEF Erases, At, WriterType
  <2>4. (UnwrittenIsDirty /\ PromisedIsAhead /\ InOrder)'
    BY <1>24, <2>1 DEF Erases, At
  <2> QED BY <2>3, <2>4
<1>25. CASE EndsErase
  <2>1. writer' = [at |-> "loop", next |-> writer.next,
                   victims |-> writer.victims, repeat |-> Full]
    BY <1>25 DEF EndsErase, At
  <2>2. Full \in BOOLEAN
    BY DEF Full
  <2>3. writer' \in WriterType
    BY <2>1, <2>2, WriterTyped
  <2>4. TypeOK'
    BY <1>25, <2>3 DEF EndsErase, WriterType
  <2>5. (UnwrittenIsDirty /\ PromisedIsAhead /\ InOrder)'
    BY <1>25, <2>1 DEF EndsErase, At
  <2> QED BY <2>4, <2>5
<1>26. CASE UNCHANGED vars
  BY <1>26 DEF vars
<1> QED
  BY <1>1, <1>2, <1>3, <1>4, <1>5, <1>6, <1>7, <1>8, <1>9, <1>10, <1>11, <1>12, <1>13,
     <1>14, <1>15, <1>16, <1>17, <1>18, <1>19, <1>20, <1>21, <1>22, <1>23, <1>24, <1>25, <1>26
     DEF Next, Main, WriterWorks, Requests

\* The inductive invariant of the writer's loop.
THEOREM SpecStopInv == Spec => []StopInv
  BY StopInit, StopNext, PTL DEF Spec

\* Whatever fuse_main, the writer and the FUSE threads do, the iterator stays
\* within the cache and only cached blocks are dirty (BlocksCache::run).
THEOREM SpecTypeOK == Spec => []TypeOK
<1>1. StopInv => TypeOK
  BY DEF StopInv
<1> QED BY <1>1, SpecStopInv, PTL

\* BlocksCache::stop loses nothing that a sync had promised.  The writer has ended,
\* and it ends only from the head of its loop, which it reaches by finishing the
\* pass that every sync asks for.
THEOREM SpecSyncedSurvivesStop == Spec => []SyncedSurvivesStop
<1>1. StopInv => SyncedSurvivesStop
  BY DEF StopInv, PromisedIsAhead, InOrder, SyncedSurvivesStop
<1> QED BY <1>1, SpecStopInv, PTL
=============================================================================
