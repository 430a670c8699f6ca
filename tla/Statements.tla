----------------------------- MODULE Statements -----------------------------
(***************************************************************************)
(* The transactions of class DataBase statement by statement, on the       *)
(* connections of several FUSE threads (one DataBase each).                *)
(*                                                                         *)
(* A statement is prepared once and used again: its parameters are bound,  *)
(* it is stepped, and reset.  After a step that failed it is not reset:    *)
(* sqlite3_bind refuses (MISUSE, which nobody looks at) and the next step  *)
(* starts over with the values bound before.                               *)
(*                                                                         *)
(* The database is in WAL mode: BEGIN EXCLUSIVE takes the one write lock,  *)
(* at once or not at all, and its owner alone sees what it has changed.    *)
(* A file has one block here, so that its _ID is the key of file_blocks.   *)
(***************************************************************************)
EXTENDS Integers, Sequences

CONSTANTS
    Conns,        \* FUSE threads, each with its connection
    Files, Sizes, \* _IDs and sizes in the table files
    Hashes, Null, EmptyBlob, Counts, MaxRows, MaxUse,   \* as in BlockTables
    Failing,      \* bound: the connections whose statements may fail
    MaxFailures   \* bound on failing statements of each

ASSUME StatementsAssumption ==
    /\ MaxFailures \in Nat /\ Failing \subseteq Conns
    /\ MaxRows \in Nat /\ MaxUse \in Nat /\ Counts \subseteq Int
    /\ Null \notin Conns \cup Files \cup Sizes \cup Hashes \cup Int
    /\ EmptyBlob \notin Hashes

VARIABLES
    rows, fileBlocks, sizes,  \* the tables as committed
    owner,        \* the connection that has the write lock
    view,         \* the block tables as their owner sees them
    held,         \* what is bound to statements that a failure left unreset
    call,         \* the transaction each connection is in
    failures,     \* history: statements that failed
    misdirected   \* history: statements that ran with values of an earlier call

tables == <<rows, fileBlocks>>
vars == <<rows, fileBlocks, sizes, owner, view, held, call, failures, misdirected>>

T == INSTANCE BlockTables WITH Keys <- Files

NoView == [rows |-> <<>>, fileBlocks |-> [f \in Files |-> Null]]
V == INSTANCE BlockTables WITH
        Keys <- Files, rows <- view.rows, fileBlocks <- view.fileBlocks

\* The prepared statements and what is bound to them.
Bound == [getByPath        |-> Files,
          getFileBlock     |-> Files,
          updateFileSize   |-> Files \X Sizes,
          increaseUseCount |-> Hashes,
          updateBlockHash  |-> (0..MaxRows) \X Hashes,
          insertBlockHash  |-> Hashes,
          replaceFileBlock |-> Files \X Hashes,
          setUseCount      |-> (0..MaxRows) \X Int,
          deleteFileBlock  |-> Files,
          decreaseUseCount |-> Hashes \cup {EmptyBlob}]
Names == DOMAIN Bound

Idle == [at |-> "idle"]

\* at: the statement to come.  block, use: what the caller holds for the block
\* it replaces; count: its use_count by now; num: the block_info's number.
Call == [at : {"select", "increase", "update", "insert", "point", "setUse",
               "load", "delete", "decrease", "commit"},
         kind : {"replace", "release"}, file : Files,
         hash : Hashes \cup {EmptyBlob, Null}, block : (0..MaxRows) \cup {Null},
         use : Int, count : Int, num : (0..MaxRows) \cup {Null}, misled : BOOLEAN]

TypeOK ==
    /\ T!TypeOK /\ V!TypeOK
    /\ sizes \in [Files -> Sizes]
    /\ owner \in Conns \cup {Null}
    /\ view # NoView => owner # Null
    /\ \A c \in Conns : call[c] # Idle => call[c] \in Call /\ owner = c
    /\ \A c \in Conns, s \in Names : held[c][s] \in Bound[s] \cup {Null}
    /\ failures \in [Conns -> 0..MaxFailures]

Init ==
    /\ T!Init
    /\ \E n \in Sizes : sizes = [f \in Files |-> n]
    /\ owner = Null /\ view = NoView
    /\ held = [c \in Conns |-> [s \in Names |-> Null]]
    /\ call = [c \in Conns |-> Idle]
    /\ failures = [c \in Conns |-> 0]
    /\ misdirected = [c \in Conns |-> 0]

----------------------------------------------------------------------------
(* One statement: bind, step, reset.                                       *)

\* What the step runs with: sqlite3_bind is refused when the statement is held.
Used(c, s, args) == IF held[c][s] = Null THEN args ELSE held[c][s]

\* executeUpdate without the reset.
KeepsBound(used) == used

\* reset() after SQLITE_DONE or SQLITE_ROW.
AfterStep(used) == Null

Stepped(c, s, args) ==
    /\ held' = [held EXCEPT ![c][s] = AfterStep(Used(c, s, args))]
    /\ misdirected' = [misdirected EXCEPT ![c] =
                         IF Used(c, s, args) = args THEN @ ELSE @ + 1]
    /\ UNCHANGED failures

MayFail(c) ==
    /\ c \in Failing /\ failures[c] < MaxFailures
    /\ failures' = [failures EXCEPT ![c] = @ + 1]

\* The exception is thrown before the reset.
Failed(c, s, args) ==
    /\ MayFail(c)
    /\ held' = [held EXCEPT ![c][s] = Used(c, s, args)]
    /\ UNCHANGED misdirected

\* The request has its answer; an exception is caught by its wrapper: -EIO.
Answered(c) == call' = [call EXCEPT ![c] = Idle]

----------------------------------------------------------------------------
(* Statements outside transactions.                                        *)

\* getByPath and loadFileBlock: WAL lets them read whoever has the write lock.
\* The answer concerns the values used.
Reads(c, s, f) ==
    /\ call[c] = Idle /\ s \in {"getByPath", "getFileBlock"}
    /\ Stepped(c, s, f) \/ Failed(c, s, f)
    /\ UNCHANGED <<tables, sizes, owner, view, call>>

\* DataBase::ftruncate commits by itself, if nobody has the write lock;
\* otherwise "Database is locked".
FTruncate(c, f, n) ==
    /\ call[c] = Idle
    /\ \/ /\ owner = Null
          /\ Stepped(c, "updateFileSize", <<f, n>>)
          /\ LET u == Used(c, "updateFileSize", <<f, n>>)
             IN  sizes' = [sizes EXCEPT ![u[1]] = u[2]]
       \/ Failed(c, "updateFileSize", <<f, n>>) /\ UNCHANGED sizes
    /\ UNCHANGED <<tables, owner, view, call>>

----------------------------------------------------------------------------
(* Transactions.                                                           *)

\* BEGIN TRANSACTION: nothing is locked.
BeginsDeferred(c, first) ==
    /\ call[c] = Idle
    /\ view' = [rows |-> rows, fileBlocks |-> fileBlocks]
    /\ call' = [call EXCEPT ![c] = first]
    /\ UNCHANGED <<tables, sizes, owner, held, failures, misdirected>>

\* When another connection has the lock, "database is locked" ends the call
\* before anything is changed.
Begins(c, first) ==
    /\ call[c] = Idle /\ owner = Null
    /\ owner' = c
    /\ view' = [rows |-> rows, fileBlocks |-> fileBlocks]
    /\ call' = [call EXCEPT ![c] = first]
    /\ UNCHANGED <<tables, sizes, held, failures, misdirected>>

\* A catch that only throws on.
NotRolledBack(c) ==
    /\ Answered(c)
    /\ UNCHANGED <<tables, owner, view>>

\* A catch that commits.
CommittedPartly(c) ==
    /\ rows' = view.rows /\ fileBlocks' = view.fileBlocks
    /\ owner' = Null /\ view' = NoView
    /\ Answered(c)

\* transactionRollback, in the catch.
RolledBack(c) ==
    /\ owner' = Null /\ view' = NoView
    /\ Answered(c)
    /\ UNCHANGED tables

At(c, place) == call[c].at = place

\* A statement of the transaction: it runs, and the next one comes ...
Runs(c, s, args, next) ==
    /\ Stepped(c, s, args)
    /\ call' = [call EXCEPT ![c] =
                   [next EXCEPT !.misled = @ \/ Used(c, s, args) # args]]
    /\ UNCHANGED <<tables, sizes, owner>>

\* ... or fails.
Fails(c, s, args) == Failed(c, s, args) /\ RolledBack(c) /\ UNCHANGED sizes

SetRows(rs) == view' = [view EXCEPT !.rows = rs]
SetFileBlocks(fb) == view' = [view EXCEPT !.fileBlocks = fb]
Next1(c, place) == [call[c] EXCEPT !.at = place]

----------------------------------------------------------------------------
(* replaceStorageBlock                                                     *)

Replace(c, f, x, s, n) ==
    /\ T!CallerHolds(s, n)
    /\ Begins(c, [at |-> "select", kind |-> "replace", file |-> f, hash |-> x,
                  block |-> s, use |-> n, count |-> n, num |-> s, misled |-> FALSE])

\* stSelectBlockHash is reset on every way out, also by the catch.
Selects(c) ==
    /\ At(c, "select")
    /\ LET k == call[c]
       IN  call' = [call EXCEPT ![c] =
              IF V!Present(k.hash)
              THEN [k EXCEPT !.at = "increase", !.num = V!IdOf(k.hash)]
              ELSE [k EXCEPT !.at = IF V!InPlaceAllowed(k.block, k.use)
                                    THEN "update" ELSE "insert"]]
    /\ UNCHANGED <<tables, sizes, owner, view, held, failures, misdirected>>

SelectFails(c) ==
    /\ At(c, "select") /\ MayFail(c)
    /\ RolledBack(c)
    /\ UNCHANGED <<sizes, held, misdirected>>

IncreaseUse(rs, x) ==
    [i \in DOMAIN rs |-> IF rs[i].hash = x THEN [rs[i] EXCEPT !.use = @ + 1] ELSE rs[i]]

Increases(c) ==
    /\ At(c, "increase")
    /\ LET x == call[c].hash
       IN  \/ /\ Runs(c, "increaseUseCount", x, [Next1(c, "point") EXCEPT !.count = @ - 1])
              /\ SetRows(IncreaseUse(view.rows, Used(c, "increaseUseCount", x)))
           \/ Fails(c, "increaseUseCount", x)

\* modified hash inplace
Updates(c) ==
    /\ At(c, "update")
    /\ LET args == <<call[c].block, call[c].hash>>
           u == Used(c, "updateBlockHash", args)
       IN  \/ /\ Runs(c, "updateBlockHash", args, Next1(c, "point"))
              /\ SetRows(V!SetHash(view.rows, u[1], u[2]))
           \/ Fails(c, "updateBlockHash", args)

\* Without lastInsertId.
InsertsUnnumbered(c) ==
    /\ At(c, "insert") /\ Len(view.rows) < MaxRows
    /\ LET x == call[c].hash
           u == Used(c, "insertBlockHash", x)
       IN  \/ /\ Runs(c, "insertBlockHash", x, [Next1(c, "point") EXCEPT !.count = @ - 1])
              /\ SetRows(Append(view.rows, [hash |-> u, use |-> 1]))
           \/ Fails(c, "insertBlockHash", x)

\* allocated new
Inserts(c) ==
    /\ At(c, "insert") /\ Len(view.rows) < MaxRows
    /\ LET x == call[c].hash
           u == Used(c, "insertBlockHash", x)
       IN  \/ /\ Runs(c, "insertBlockHash", x,
                      [Next1(c, "point") EXCEPT !.count = @ - 1, !.num = Len(view.rows) + 1])
              /\ SetRows(Append(view.rows, [hash |-> u, use |-> 1]))
           \/ Fails(c, "insertBlockHash", x)

Points(c) ==
    /\ At(c, "point")
    /\ LET args == <<call[c].file, call[c].hash>>
           u == Used(c, "replaceFileBlock", args)
       IN  \/ /\ Runs(c, "replaceFileBlock", args,
                      Next1(c, IF call[c].block = Null THEN "commit" ELSE "setUse"))
              /\ SetFileBlocks([view.fileBlocks EXCEPT ![u[1]] = u[2]])
           \/ Fails(c, "replaceFileBlock", args)

SetsUse(c) ==
    /\ At(c, "setUse")
    /\ LET args == <<call[c].block, call[c].count>>
           u == Used(c, "setUseCount", args)
       IN  \/ /\ Runs(c, "setUseCount", args, Next1(c, "commit"))
              /\ SetRows(V!SetUse(view.rows, u[1], u[2]))
           \/ Fails(c, "setUseCount", args)

----------------------------------------------------------------------------
(* releaseStorageBlock                                                     *)

\* The hash comes from the block_info taken out of the handle, or is loaded.
Release(c, f, x) ==
    Begins(c, [at |-> IF x = Null THEN "load" ELSE "delete", kind |-> "release",
               file |-> f, hash |-> x, block |-> Null, use |-> 0, count |-> 0, num |-> Null,
               misled |-> FALSE])

\* getBlob gives an empty string for the NULL of a LEFT JOIN without a match.
Blob(x) == IF V!Present(x) THEN x ELSE EmptyBlob

\* The hash stays null when there is no row of file_blocks.
LoadedHash(f) ==
    IF view.fileBlocks[f] = Null THEN Null ELSE Blob(view.fileBlocks[f])

Loads(c) ==
    /\ At(c, "load")
    /\ LET f == call[c].file
           u == Used(c, "getFileBlock", f)
       IN  \/ /\ Runs(c, "getFileBlock", f, [Next1(c, "delete") EXCEPT !.hash = LoadedHash(u)])
              /\ UNCHANGED view
           \/ Fails(c, "getFileBlock", f)

Deletes(c) ==
    /\ At(c, "delete")
    /\ LET f == call[c].file
       IN  \/ /\ Runs(c, "deleteFileBlock", f, Next1(c, "decrease"))
              /\ SetFileBlocks([view.fileBlocks EXCEPT ![Used(c, "deleteFileBlock", f)] = Null])
           \/ Fails(c, "deleteFileBlock", f)

\* With a null hash the process ends here: see Crash.
Decreases(c) ==
    /\ At(c, "decrease") /\ call[c].hash # Null
    /\ LET x == call[c].hash
       IN  \/ /\ Runs(c, "decreaseUseCount", x, Next1(c, "commit"))
              /\ SetRows(V!DecreaseUse(view.rows, Used(c, "decreaseUseCount", x)))
           \/ Fails(c, "decreaseUseCount", x)

----------------------------------------------------------------------------

Commits(c) ==
    /\ At(c, "commit") /\ V!UsesBounded
    /\ rows' = view.rows /\ fileBlocks' = view.fileBlocks
    /\ owner' = Null /\ view' = NoView
    /\ Answered(c)
    /\ UNCHANGED <<sizes, held, failures, misdirected>>

CommitFails(c) ==
    /\ At(c, "commit") /\ MayFail(c)
    /\ RolledBack(c)
    /\ UNCHANGED <<sizes, held, misdirected>>

\* libfuse ends an idle worker, and starts another: its DataBase has a connection
\* and statements of its own.  (The old connection is never closed: ~DataBase
\* closes it before its statements are finalized, which SQLite refuses.)
Reconnects(c) ==
    /\ call[c] = Idle
    /\ held' = [held EXCEPT ![c] = [s \in Names |-> Null]]
    /\ failures' = [failures EXCEPT ![c] = 0]
    /\ misdirected' = [misdirected EXCEPT ![c] = 0]
    /\ UNCHANGED <<tables, sizes, owner, view, call>>

\* The process ends, and is started again.
Crash ==
    /\ owner' = Null /\ view' = NoView
    /\ held' = [c \in Conns |-> [s \in Names |-> Null]]
    /\ call' = [c \in Conns |-> Idle]
    /\ failures' = [c \in Conns |-> 0]
    /\ misdirected' = [c \in Conns |-> 0]
    /\ UNCHANGED <<tables, sizes>>

Request(c) ==
    \/ \E f \in Files : Reads(c, "getByPath", f) \/ Reads(c, "getFileBlock", f)
    \/ \E f \in Files, n \in Sizes : FTruncate(c, f, n)
    \/ \E f \in Files, x \in Hashes, s \in (0..MaxRows) \cup {Null}, n \in Counts :
          Replace(c, f, x, s, n)
    \/ \E f \in Files, x \in Hashes \cup {EmptyBlob, Null} : Release(c, f, x)

Step(c) ==
    \/ Selects(c) \/ SelectFails(c) \/ Increases(c) \/ Updates(c) \/ Inserts(c)
    \/ Points(c) \/ SetsUse(c)
    \/ Loads(c) \/ Deletes(c) \/ Decreases(c)
    \/ Commits(c) \/ CommitFails(c)

Next ==
    \/ \E c \in Conns : Request(c)
    \/ \E c \in Conns : Step(c) \/ Reconnects(c)
    \/ Crash

Spec == Init /\ [][Next]_vars

----------------------------------------------------------------------------
(* Properties *)

\* No way out of a transaction keeps the write lock: not a failing statement, a
\* failing COMMIT or a release of a block never written.  A connection that kept
\* it would lock every other thread out until the process ends.
LockReleased == \A c \in Conns : call[c] = Idle => owner # c

\* The statements of a call together change the tables as one step of
\* BlockTables, the one that was asked for, whatever other connections do
\* between them and wherever a statement fails or the process dies; unless a
\* statement of this very call was misdirected by an earlier failure, or one
\* before it has inserted a second row with one hash.
CommitsWhatWasAsked ==
    [][\E c \in Conns :
          /\ owner = c /\ call[c] # Idle
          /\ \/ call[c].misled \/ ~T!UniqueHash
             \/ /\ call[c].kind = "release"
                /\ T!Release(call[c].file, call[c].hash)
             \/ /\ call[c].kind = "replace"
                /\ T!Replace(call[c].file, call[c].hash, call[c].block, call[c].use)
      ]_tables

\* The number a block_info is left with is that of the row with the content
\* just written, found, changed in place or inserted.
NumberAgrees ==
    [][\A c \in Conns :
          owner = c /\ call[c] # Idle /\ ~call[c].misled /\ call[c].kind = "replace"
             => \E i \in DOMAIN rows' :
                   i = call[c].num /\ rows'[i].hash = call[c].hash]_tables

\* A statement runs with values of an earlier call at most once for each failure:
\* a failing statement misdirects one later use of it, of any file, and is then
\* right again; and without a failure there is none, however calls end.
MisdirectedOnce == \A c \in Conns : misdirected[c] =< failures[c]
=============================================================================
