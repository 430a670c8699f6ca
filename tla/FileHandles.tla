----------------------------- MODULE FileHandles -----------------------------
(***************************************************************************)
(* Files, their sizes and their open handles: the tables files and         *)
(* file_blocks, and the file_info objects that requests work with.         *)
(*                                                                         *)
(* A file_info takes a copy of the file's row when the file is opened, and *)
(* no other handle's changes reach that copy.  A write compares its end,   *)
(* and a truncate its new size, with the copy, and files.size is set from  *)
(* it.  Which blocks there are is what file_blocks says; their contents    *)
(* and counts are in BlocksCache.                                          *)
(*                                                                         *)
(* Each statement commits on its own, so a request may be cut short        *)
(* between any two of them (-EIO, or the end of the process).  The kernel  *)
(* keeps the requests that write or resize one file apart, and requests on *)
(* different files touch different rows, so each request is one step here, *)
(* with an action of its own for what a request that was cut short leaves. *)
(* Names are without directories, which are in Namespace and have numbers  *)
(* of the same _ID.  A block that was never written may be released here;  *)
(* that the process may die of it is in BlocksCache.                       *)
(***************************************************************************)
EXTENDS Integers, FiniteSetsExt

CONSTANTS
    Names,
    Handles,
    NumFiles,    \* bound on _ID
    BlockSize,
    MaxSize,     \* bound on files.size
    Null

Ids == 1..NumFiles
Sizes == 0..MaxSize

\* A row of files, and a file_info.
Info == [id : Ids, size : Sizes]

VARIABLES
    files,       \* the table, by path
    blocks,      \* file_blocks: (file_id, offset)
    handles,     \* the file_info of each open file
    shared,      \* history: files resized while another handle was open
    loose        \* history: files whose row a rename removed, and files written
                 \* or resized by a handle that had another size than the file's

fvars == <<files, blocks, handles, shared, loose>>

\* The blocks that a file of this size has.
BlocksIn(size) == (size + BlockSize - 1) \div BlockSize

Present == {n \in Names : files[n] # Null}
Infos == {files[n] : n \in Names} \cup {handles[h] : h \in Handles}
NameOf(i) == CHOOSE n \in Present : files[n].id = i
OpenOn(i) == {h \in Handles : handles[h] # Null /\ handles[h].id = i}

TypeOK ==
    /\ files \in [Names -> Info \cup {Null}]
    /\ \A m, n \in Present : files[m].id = files[n].id => m = n
    /\ blocks \subseteq Ids \X (0..BlocksIn(MaxSize) - 1)
    /\ handles \in [Handles -> Info \cup {Null}]
    /\ shared \subseteq Ids /\ loose \subseteq Ids

Init ==
    /\ files = [n \in Names |-> Null]
    /\ blocks = {}
    /\ handles = [h \in Handles |-> Null]
    /\ shared = {} /\ loose = {}

----------------------------------------------------------------------------
(* Open and close.                                                         *)

\* One more than the number of files.
NextIdByCount == Cardinality(Present) + 1

\* _ID is one more than the largest, also if that was in use before.
NextId == Max({0} \cup {files[n].id : n \in Present}) + 1

\* The INSERT of DataBase::create.
NewFile(n) ==
    /\ files[n] = Null /\ NextId \in Ids
    /\ files' = [files EXCEPT ![n] = [id |-> NextId, size |-> 0]]
    /\ shared' = shared \ {NextId}

Create(h, n) ==
    /\ handles[h] = Null
    /\ NewFile(n)
    /\ handles' = [handles EXCEPT ![h] = [id |-> NextId, size |-> 0]]
    /\ UNCHANGED <<blocks, loose>>

\* getByPath fails after create.
CreateCut(n) ==
    /\ NewFile(n)
    /\ UNCHANGED <<blocks, handles, loose>>

Open(h, n) ==
    /\ handles[h] = Null /\ files[n] # Null
    /\ handles' = [handles EXCEPT ![h] = files[n]]
    /\ UNCHANGED <<files, blocks, shared, loose>>

Release(h) ==
    /\ handles[h] # Null
    /\ handles' = [handles EXCEPT ![h] = Null]
    /\ UNCHANGED <<files, blocks, shared, loose>>

----------------------------------------------------------------------------
(* Write and truncate.                                                     *)

\* DataBase::ftruncate by a file_info, held by some handle or by none: the
\* size is set unless the file_info has it already.
Resize(info, size, holders) ==
    IF info.size = size THEN UNCHANGED <<files, shared>>
    ELSE /\ files' = [files EXCEPT ![NameOf(info.id)].size = size]
         /\ shared' = IF OpenOn(info.id) \subseteq holders THEN shared
                      ELSE shared \cup {info.id}

\* A change by this file_info.
Loosened(info) ==
    loose' = IF files[NameOf(info.id)] = info THEN loose ELSE loose \cup {info.id}

\* The file_info is not told.
KeepsSize(h, size) == UNCHANGED handles

\* fi->st.st_size
WithSize(h, size) == handles' = [handles EXCEPT ![h].size = size]

\* The size set after the blocks.
WriteSizeLast(h, first, to, upto) ==
    /\ handles[h] # Null
    /\ blocks' = blocks \cup ({handles[h].id} \X (first..upto - 1))
    /\ IF upto = BlocksIn(to)
       THEN /\ Resize(handles[h], Max({to, handles[h].size}), {h})
            /\ WithSize(h, Max({to, handles[h].size}))
       ELSE UNCHANGED <<files, handles, shared>>
    /\ Loosened(handles[h])

\* From a byte of block first up to byte to.  First the size, when the end is
\* beyond that of the handle, and then one block after the other; cut short, the
\* ones below upto.
Write(h, first, to, upto) ==
    /\ handles[h] # Null
    /\ Resize(handles[h], Max({to, handles[h].size}), {h})
    /\ WithSize(h, Max({to, handles[h].size}))
    /\ blocks' = blocks \cup ({handles[h].id} \X (first..upto - 1))
    /\ Loosened(handles[h])

\* The blocks that lie in the file_info's size and not in the new one, below
\* upto: none when the file grows.
Released(info, size, upto) ==
    blocks' = blocks \ ({info.id} \X (BlocksIn(size)..upto - 1))

Ftruncate(h, size) ==
    /\ handles[h] # Null
    /\ Released(handles[h], size, BlocksIn(handles[h].size))
    /\ Resize(handles[h], size, {h})
    /\ WithSize(h, size)
    /\ Loosened(handles[h])

\* DedupFS::Truncate, with a file_info of its own.
Truncate(n, size) ==
    /\ files[n] # Null
    /\ Released(files[n], size, BlocksIn(files[n].size))
    /\ Resize(files[n], size, {})
    /\ UNCHANGED <<handles, loose>>

\* Either of them, cut short before the size is set.
TruncateCut(info, size, upto) ==
    /\ size < info.size
    /\ Released(info, size, upto)
    /\ UNCHANGED <<files, handles, shared, loose>>

----------------------------------------------------------------------------
(* Unlink and rename.  libfuse gives a file that is open another name,     *)
(* with a rename, and removes it when it has been closed.                  *)

Closed(n) == files[n] # Null /\ OpenOn(files[n].id) = {}

\* truncate to 0, and remove; cut short, it is Truncate(n, 0), or TruncateCut.
Unlink(n) ==
    /\ Closed(n)
    /\ Released(files[n], 0, BlocksIn(files[n].size))
    /\ files' = [files EXCEPT ![n] = Null]
    /\ UNCHANGED <<handles, shared, loose>>

\* The file that had the new name loses its row, and keeps its blocks.
Replaced(new) == loose' = IF files[new] = Null THEN loose ELSE loose \cup {files[new].id}

Rename(old, new) ==
    /\ old # new /\ files[old] # Null
    /\ files[new] = Null \/ Closed(new)
    /\ files' = [files EXCEPT ![new] = files[old], ![old] = Null]
    /\ Replaced(new)
    /\ UNCHANGED <<blocks, handles, shared>>

\* Cut short after remove(newPath).
RenameCut(old, new) ==
    /\ old # new /\ files[old] # Null
    /\ Closed(new)
    /\ files' = [files EXCEPT ![new] = Null]
    /\ Replaced(new)
    /\ UNCHANGED <<blocks, handles, shared>>

\* The end of the process, and a new one.
Forget == /\ handles' = [h \in Handles |-> Null]
          /\ UNCHANGED <<files, blocks, shared, loose>>

----------------------------------------------------------------------------

\* A write's first block and its end, and how far it comes.
Changes ==
    \/ \E h \in Handles, to \in Sizes \ {0} :
          \E first \in 0..BlocksIn(to) - 1 : \E upto \in first..BlocksIn(to) :
             Write(h, first, to, upto)
    \/ \E h \in Handles, size \in Sizes : Ftruncate(h, size)
    \/ \E n \in Names, size \in Sizes : Truncate(n, size)
    \/ \E info \in Infos \ {Null}, size \in Sizes :
          \E upto \in BlocksIn(size)..BlocksIn(info.size) : TruncateCut(info, size, upto)

Creates ==
    \/ \E h \in Handles, n \in Names : Create(h, n)
    \/ \E n \in Names : CreateCut(n)

Requests ==
    \/ \E h \in Handles, n \in Names : Open(h, n)
    \/ \E h \in Handles : Release(h)
    \/ \E n \in Names : Unlink(n)
    \/ \E old, new \in Names : Rename(old, new) \/ RenameCut(old, new)
    \/ Changes

Next == Creates \/ Requests \/ Forget

Spec == Init /\ [][Next]_fvars

----------------------------------------------------------------------------
(* Properties *)

\* The size that a handle has is that of its file, which is still there, unless
\* the file was resized while another handle was open on it: also after a rename
\* or a request that was cut short.
HandleSizesAgree ==
    \A h \in Handles : handles[h] # Null /\ handles[h].id \notin shared =>
        \E n \in Present : files[n] = handles[h]

\* No block outlives its file or lies beyond its size, so that a new file, which
\* may get the _ID of one that was removed, and a file that grows again read as
\* zeroes: unless a rename replaced the file, whose blocks nobody releases, or a
\* handle with another size than the file's has written or resized it.
BlocksWithinSize ==
    \A b \in blocks : b[1] \notin loose =>
        \E n \in Present : files[n].id = b[1] /\ b[2] < BlocksIn(files[n].size)
=============================================================================
