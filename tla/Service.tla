------------------------------- MODULE Service -------------------------------
(***************************************************************************)
(* The file system as its threads serve it: FileHandles, whose requests    *)
(* reach the code in a thread that has come by its connection, and         *)
(* Connections, over one database.  When the process ends, its handles and *)
(* connections go together; what has been committed stays.                 *)
(*                                                                         *)
(* Every wrapper of wrap.cpp, also those of the operations that are not    *)
(* supported, first calls Instance, and answers -EIO to any exception.     *)
(***************************************************************************)
EXTENDS Integers, FiniteSets

CONSTANTS Names, Handles, NumFiles, BlockSize, MaxSize, Null, Workers

ASSUME ServiceAssumption ==
    /\ NumFiles \in Nat \ {0} /\ BlockSize \in Nat \ {0} /\ MaxSize \in Nat
    /\ Null \notin [id : 1..NumFiles, size : 0..MaxSize]

VARIABLES
    files, blocks, handles, shared, loose,    \* FileHandles
    tables, root, once, stage, failed         \* Connections

F == INSTANCE FileHandles
C == INSTANCE Connections

vars == <<files, blocks, handles, shared, loose, tables, root, once, stage, failed>>

TypeOK == F!TypeOK /\ C!TypeOK

Init == F!Init /\ C!Init

----------------------------------------------------------------------------

\* The first call of each wrapper: Instance returns the thread's DedupFS or makes it.
Connects ==
    /\ \E w \in Workers : C!Starts(w) \/ C!Ends(w)
    /\ UNCHANGED <<files, blocks, handles, shared, loose>>

\* create: ENOENT without the directory's row.
Creates == root /\ F!Creates

\* What a wrapper does with it, once it is there.
Served ==
    /\ C!Ready # {}
    /\ Creates \/ F!Requests
    /\ UNCHANGED <<tables, root, once, stage, failed>>

ProcessEnds == C!Restarts /\ F!Forget

Next == Connects \/ Served \/ ProcessEnds

Spec == Init /\ [][Next]_vars

----------------------------------------------------------------------------
(* Properties *)

\* FileHandles's, with the requests that the threads come to serve.
HandleSizesAgree == F!HandleSizesAgree
BlocksWithinSize == F!BlocksWithinSize

\* Connections's, while requests are being served.
RootIsMade == C!RootIsMade
=============================================================================
