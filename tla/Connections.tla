----------------------------- MODULE Connections -----------------------------
(***************************************************************************)
(* How a FUSE thread comes by its connection to the database: DedupFS's    *)
(* Instance, which every wrapper of wrap.cpp calls first, and the          *)
(* constructors of DedupFS and DataBase.                                   *)
(*                                                                         *)
(* The first thread of the process makes the tables, under call_once,      *)
(* while the others wait.  An error there is caught, and init is not       *)
(* called again.  Each thread then prepares its statements, where an error *)
(* is not caught: the request is answered with -EIO, and the thread's next *)
(* request starts over.  Last, each thread creates "/", and whatever goes  *)
(* wrong with that is caught.                                              *)
(*                                                                         *)
(* Locks are held by these threads only; another program at the database   *)
(* is left out.                                                            *)
(***************************************************************************)
EXTENDS Integers

CONSTANT Workers     \* FUSE threads

VARIABLES
    tables,      \* how many of the tables there are, in the order init makes them
    root,        \* the row of "/"
    once,        \* init_flag
    stage,       \* where each thread is in Instance
    failed       \* history: the INSERT of "/", or the query before it, failed
                 \* otherwise than for a lock, and the row has not come since

cvars == <<tables, root, once, stage, failed>>

NumTables == 3
Stages == {"none", "init", "prepare", "look", "insert", "commit", "ready"}

TypeOK ==
    /\ tables \in 0..NumTables
    /\ root \in BOOLEAN
    /\ once \in {"new", "running", "done"}
    /\ stage \in [Workers -> Stages]
    /\ failed \in BOOLEAN

Init ==
    /\ tables = 0
    /\ root = FALSE
    /\ once = "new"
    /\ stage = [w \in Workers |-> "none"]
    /\ failed = FALSE

Ready == {w \in Workers : stage[w] = "ready"}

Goes(w, from, to) ==
    /\ stage[w] = from
    /\ stage' = [stage EXCEPT ![w] = to]

----------------------------------------------------------------------------

\* _instance is not set, and a request has DedupFS and DataBase constructed: the
\* connection is opened, and then call_once(init_flag, init).
EntersOnce(w) ==
    /\ once = "new" /\ Goes(w, "none", "init")
    /\ once' = "running"
    /\ UNCHANGED <<tables, root, failed>>

\* Later threads, and those that waited.
PassesOnce(w) ==
    /\ once = "done" /\ Goes(w, "none", "prepare")
    /\ UNCHANGED <<tables, root, once, failed>>

\* CREATE TABLE IF NOT EXISTS; a lock is waited for.
MakesTable(w) ==
    /\ stage[w] = "init" /\ tables < NumTables
    /\ tables' = tables + 1
    /\ UNCHANGED <<root, once, stage, failed>>

InitEnds(w) ==
    /\ tables = NumTables /\ Goes(w, "init", "prepare")
    /\ once' = "done"
    /\ UNCHANGED <<tables, root, failed>>

\* init catches what its statements throw, and returns as ever.
InitFails(w) ==
    /\ Goes(w, "init", "prepare")
    /\ once' = "done"
    /\ UNCHANGED <<tables, root, failed>>

\* prepareStatements: it takes every table.
Prepares(w) ==
    /\ tables = NumTables /\ Goes(w, "prepare", "look")
    /\ UNCHANGED <<tables, root, once, failed>>

\* -EIO; the constructor has thrown, so _instance is not set.  It is the same when
\* the connection does not open.
StartFails(w) ==
    /\ Goes(w, "prepare", "none")
    /\ UNCHANGED <<tables, root, once, failed>>

\* getByPath("/"): -EEXIST.
FindsRoot(w) ==
    /\ root /\ Goes(w, "look", "ready")
    /\ UNCHANGED <<tables, root, once, failed>>

FindsNoRoot(w) ==
    /\ ~root /\ Goes(w, "look", "insert")
    /\ UNCHANGED <<tables, root, once, failed>>

Committing == \E w \in Workers : stage[w] = "commit"

\* The INSERT takes the database's write lock, and commits.
Inserts(w) ==
    /\ ~root /\ ~Committing /\ Goes(w, "insert", "commit")
    /\ UNCHANGED <<tables, root, once, failed>>

CommitsRoot(w) ==
    /\ Goes(w, "commit", "ready")
    /\ root' = TRUE
    /\ failed' = FALSE
    /\ UNCHANGED <<tables, once>>

\* Outside of WAL: locked while others read.
InsertLockedByReaders(w) ==
    /\ root \/ \E v \in Workers \ {w} : stage[v] \in {"look", "commit"}
    /\ Goes(w, "insert", "ready")
    /\ UNCHANGED <<tables, root, once, failed>>

\* Another thread has inserted the row (path_uniq), or is about to (the database
\* is locked, and next does not wait): caught.
InsertLoses(w) ==
    /\ root \/ Committing
    /\ Goes(w, "insert", "ready")
    /\ UNCHANGED <<tables, root, once, failed>>

\* Anything else: caught as well.
CreateFails(w) ==
    /\ \E from \in {"look", "insert", "commit"} : Goes(w, from, "ready")
    /\ failed' = ~root
    /\ UNCHANGED <<tables, root, once>>

\* libfuse ends a thread that has nothing to do: ~DedupFS closes the database.
Ends(w) ==
    /\ Goes(w, "ready", "none")
    /\ UNCHANGED <<tables, root, once, failed>>

\* The end of the process, and a new one.
Restarts ==
    /\ once' = "new"
    /\ stage' = [w \in Workers |-> "none"]
    /\ failed' = FALSE
    /\ UNCHANGED <<tables, root>>

Starts(w) ==
    \/ EntersOnce(w) \/ PassesOnce(w)
    \/ MakesTable(w) \/ InitEnds(w) \/ InitFails(w)
    \/ Prepares(w) \/ StartFails(w)
    \/ FindsRoot(w) \/ FindsNoRoot(w)
    \/ Inserts(w) \/ CommitsRoot(w) \/ InsertLoses(w) \/ CreateFails(w)

Next == (\E w \in Workers : Starts(w) \/ Ends(w)) \/ Restarts

Spec == Init /\ [][Next]_cvars

----------------------------------------------------------------------------
(* Properties *)

\* Although init swallows its errors and is never called again, and every thread
\* gives up on the row of "/" whatever goes wrong: as soon as some thread serves
\* requests, there is every table, and the row is there too or another thread has
\* it half written, unless a statement of create failed for more than a lock.
RootIsMade == Ready # {} => tables = NumTables /\ (root \/ Committing \/ failed)
=============================================================================
