------------------------------ MODULE Namespace ------------------------------
(***************************************************************************)
(* The directory tree: the table files of DataBase, and the FUSE requests  *)
(* that read and change it.                                                *)
(*                                                                         *)
(* A file's row has its whole path and its depth.  There are no            *)
(* transactions here: each statement commits on its own, and a request     *)
(* that needs several may be cut short between any two of them, when the   *)
(* database is locked by another thread, a constraint fails (the wrapper   *)
(* turns the exception into -EIO), or the process dies.  Requests that     *)
(* concern the same directories are kept apart by the kernel's and         *)
(* libfuse's locks on paths, so one request is at work at a time.          *)
(*                                                                         *)
(* A path is a sequence of names.  Where the code works on paths as        *)
(* strings, that is given by constants: relations between names, and for   *)
(* LIKE, which may match a path that does not lie below the pattern name   *)
(* by name, a relation between paths.                                      *)
(***************************************************************************)
EXTENDS Integers, SequencesExt, FiniteSetsExt

CONSTANTS
    Names,
    StartsWith,  \* <<m, n>>: the string n begins with m
    Alike,       \* <<m, n>>: n LIKE m, and of as many bytes (case is ignored, "_"
                 \* is any character)
    OtherLike,   \* <<o, q>>: q LIKE "o/%" otherwise than name by name, when "_"
                 \* takes a "/" or a character of several bytes, or o has a "%"
    Splice(_, _, _), \* what such a q becomes when as many bytes as o has at its
                 \* beginning are replaced by n, for o, n and q
    MaxDepth,    \* bound on depth
    Asked,       \* bound on the paths that are created and renamed to
    NumFiles,    \* bound on _ID
    Null

Paths == UNION {[1..n -> Names] : n \in 0..MaxDepth}

ASSUME NamesAssumption ==
    /\ StartsWith \subseteq Names \X Names /\ Alike \subseteq Names \X Names
    /\ \A n \in Names : <<n, n>> \in StartsWith /\ <<n, n>> \in Alike
    /\ OtherLike \subseteq Paths \X Paths
    /\ \A m \in OtherLike : Len(m[1]) < Len(m[2])
    /\ Asked \subseteq Paths
    /\ MaxDepth \in Nat /\ NumFiles \in Nat \ {0}

VARIABLES
    files,      \* the table: rows by _ID
    op,         \* the request between two of its statements
    cut,        \* history: the rename that was cut short and not repeated since
    strayed     \* history: a rename took along what LIKE matches otherwise than
                \* name by name

vars == <<files, op, cut, strayed>>

Ids == 1..NumFiles
Root == 1
Row == [path : Paths, depth : 0..MaxDepth, dir : BOOLEAN]

ASSUME NullAssumption == Null \notin Row

Idle == [kind |-> "idle"]
NoCut == <<>>
Damaged == <<Null>>

TypeOK ==
    /\ files \in [Ids -> Row \cup {Null}]
    /\ \A i, j \in Ids : files[i] # Null /\ files[j] # Null /\ i # j
                            => files[i].path # files[j].path
    /\ strayed \in BOOLEAN
    /\ \/ op = Idle
       \/ op \in [kind : {"replace", "move"}, id : Ids, old : Paths, new : Paths,
                  depth : 0..MaxDepth, todo : SUBSET Ids]
    /\ cut \in {NoCut, Damaged} \cup (Paths \X Paths)

\* DataBase's constructor creates "/".
Init ==
    /\ files = [i \in Ids |-> IF i = Root THEN [path |-> <<>>, depth |-> 0,
                                                dir |-> TRUE] ELSE Null]
    /\ op = Idle
    /\ cut = NoCut
    /\ strayed = FALSE

----------------------------------------------------------------------------
(* Queries.                                                                *)

Present == {i \in Ids : files[i] # Null}
With(p) == {i \in Present : files[i].path = p}
Exists(p) == With(p) # {}

\* getByPath, when there is a row.
Lookup(p) == CHOOSE i \in With(p) : TRUE
IsDir(p) == Exists(p) /\ files[Lookup(p)].dir
IsFile(p) == Exists(p) /\ ~files[Lookup(p)].dir

\* path LIKE 'p/%'
AlikeAsFar(p, q) == \A n \in DOMAIN p \cap DOMAIN q : <<p[n], q[n]>> \in Alike
NamesMatch(p, q) == Len(p) < Len(q) /\ AlikeAsFar(p, q)
Matches(p, q) == NamesMatch(p, q) \/ <<p, q>> \in OtherLike
Below(p) == {i \in Present : Matches(p, files[i].path)}

\* readdir: what is listed of directory p.
Listed(p) == {i \in Below(p) : files[i].depth = files[Lookup(p)].depth + 1}
DirEmpty(p) == Listed(p) = {}

\* The string q begins with the string p.
IsStringPrefix(p, q) ==
    /\ p # <<>> /\ Len(p) =< Len(q)
    /\ IsPrefix(Front(p), q)
    /\ <<Last(p), q[Len(p)]>> \in StartsWith

----------------------------------------------------------------------------
(* Requests of one statement that changes anything.                        *)

\* The rename cut short is not repeated at once.
Spoilt == IF cut = NoCut THEN NoCut ELSE Damaged

Insert(p, isDir) ==
    /\ Max(Present) < NumFiles /\ files[Lookup(Front(p))].depth < MaxDepth
    /\ files' = [files EXCEPT ![Max(Present) + 1] =
                    [path |-> p, depth |-> files[Lookup(Front(p))].depth + 1,
                     dir |-> isDir]]

\* DataBase::create for Mkdir and Create: ENOENT, ENOTDIR, EEXIST.  _ID is one
\* more than the largest, also if that was in use before.
Create(p, isDir) ==
    /\ op = Idle
    /\ p # <<>> /\ IsDir(Front(p)) /\ ~Exists(p)
    /\ Insert(p, isDir)
    /\ cut' = Spoilt
    /\ UNCHANGED <<op, strayed>>

\* DataBase::remove
DeleteRow(i) == files' = [files EXCEPT ![i] = Null]

\* dirEmpty not asked.
RmdirFull(p) ==
    /\ op = Idle
    /\ p # <<>> /\ IsDir(p)
    /\ DeleteRow(Lookup(p))
    /\ cut' = Spoilt
    /\ UNCHANGED <<op, strayed>>

\* The kernel does not remove the root, nor ask for what it has not found.
Rmdir(p) ==
    /\ op = Idle
    /\ p # <<>> /\ IsDir(p) /\ DirEmpty(p)
    /\ DeleteRow(Lookup(p))
    /\ cut' = Spoilt
    /\ UNCHANGED <<op, strayed>>

\* truncate, which sets no path and no depth, and then remove; EISDIR and ENOENT
\* otherwise.
Unlink(p) ==
    /\ op = Idle /\ IsFile(p)
    /\ DeleteRow(Lookup(p))
    /\ cut' = Spoilt
    /\ UNCHANGED <<op, strayed>>

----------------------------------------------------------------------------
(* Rename.                                                                 *)

\* -EINVAL, "DST is a subdir of SRC"
SubdirRefused(old, new) ==
    /\ IsDir(old) /\ IsDir(new) /\ DirEmpty(new)
    /\ IsStringPrefix(old, new)

\* ENOENT, ENOTDIR, ENOTEMPTY, EISDIR
RenameAllowed(old, new) ==
    /\ Exists(old) /\ IsDir(Front(new))
    /\ Exists(new) => /\ IsDir(old) <=> IsDir(new)
                      /\ IsDir(new) => DirEmpty(new)
    /\ ~SubdirRefused(old, new)

\* The kernel lets no directory be renamed to what lies in it.
KernelAllows(old, new) ==
    /\ old # <<>> /\ new # <<>> /\ old # new
    /\ ~IsStrictPrefix(old, new)

\* What readdir lists, instead of all that lies below.
ToMoveChildren(old) == IF IsDir(old) THEN Listed(old) ELSE {}

ToMove(old) == IF IsDir(old) THEN Below(old) ELSE {}

\* fil.replace(0, oldPath.length(), newPath)
MovedPath(q) ==
    IF NamesMatch(op.old, q) THEN op.new \o SubSeq(q, Len(op.old) + 1, Len(q))
    ELSE Splice(op.old, op.new, q)

\* Without "+ 1".
DepthDiffOfParent == op.depth - 1 - files[op.id].depth

\* destDir is read once, before anything is moved.
DepthDiff == op.depth - files[op.id].depth

\* LIKE takes the directory that the target is to be in along with the source.
TakesParent == files[op.id].dir /\ NamesMatch(op.old, Front(op.new))

\* LIKE may take what has been moved once again when the rename is repeated.
MovesTwice ==
    files[op.id].dir /\ Len(op.old) # Len(op.new) /\ AlikeAsFar(op.old, op.new)

\* A row taken along that LIKE matches otherwise than name by name.
Strays(old, todo) == \E i \in todo : ~NamesMatch(old, files[i].path)

Rename(old, new) ==
    /\ op = Idle
    /\ KernelAllows(old, new) /\ RenameAllowed(old, new)
    /\ files[Lookup(Front(new))].depth < MaxDepth
    /\ LET todo == IF Exists(new) THEN {} ELSE ToMove(old)
       IN  /\ op' = [kind |-> IF Exists(new) THEN "replace" ELSE "move", id |-> Lookup(old),
                     old |-> old, new |-> new, depth |-> files[Lookup(Front(new))].depth + 1,
                     todo |-> todo]
           /\ strayed' = (strayed \/ Strays(old, todo))
    /\ UNCHANGED <<files, cut>>

\* remove(newPath)
RenameReplaces ==
    /\ op.kind = "replace"
    /\ DeleteRow(Lookup(op.new))
    /\ LET todo == ToMove(op.old) \ {Lookup(op.new)}
       IN  /\ op' = [op EXCEPT !.kind = "move", !.todo = todo]
           /\ strayed' = (strayed \/ Strays(op.old, todo))
    /\ cut' = IF cut = <<op.old, op.new>> THEN cut ELSE Spoilt

\* One UPDATE for each row that the SELECT steps to, in the order of _ID.
Moves(i) ==
    /\ files[i].depth + DepthDiff \in 0..MaxDepth /\ MovedPath(files[i].path) \in Paths
    /\ files' = [files EXCEPT ![i].path = MovedPath(@), ![i].depth = @ + DepthDiff]
    /\ op' = [op EXCEPT !.todo = @ \ {i}]
    /\ UNCHANGED <<cut, strayed>>

\* path_uniq left out of the table.
RenameMovesOnto ==
    /\ op.kind = "move" /\ op.todo # {}
    /\ Moves(Min(op.todo))

RenameMoves ==
    /\ op.kind = "move" /\ op.todo # {}
    /\ With(MovedPath(files[Min(op.todo)].path)) \subseteq {Min(op.todo)}
    /\ Moves(Min(op.todo))

RenameEnds ==
    /\ op.kind = "move" /\ op.todo = {}
    /\ ~Exists(op.new)
    /\ files' = [files EXCEPT ![op.id].path = op.new, ![op.id].depth = op.depth]
    /\ op' = Idle
    /\ cut' = CASE TakesParent -> Damaged
                [] ~TakesParent /\ cut = <<op.old, op.new>> -> NoCut
                [] OTHER -> Spoilt
    /\ UNCHANGED strayed

\* Cut short: -EIO, or the end of the process.
RenameFails ==
    /\ op # Idle
    /\ op' = Idle
    /\ cut' = CASE op.kind = "replace" -> cut
                [] /\ op.kind = "move" /\ cut \in {NoCut, <<op.old, op.new>>}
                   /\ ~MovesTwice -> <<op.old, op.new>>
                [] OTHER -> Damaged
    /\ UNCHANGED <<files, strayed>>

----------------------------------------------------------------------------

Next ==
    \/ \E p \in Asked : Create(p, TRUE) \/ Create(p, FALSE)
    \/ \E p \in Paths : Rmdir(p)
    \/ \E p \in Paths : Unlink(p)
    \/ \E i \in Present, new \in Asked : Rename(files[i].path, new)
    \/ RenameReplaces \/ RenameMoves \/ RenameEnds \/ RenameFails

Spec == Init /\ [][Next]_vars

----------------------------------------------------------------------------
(* Properties *)

\* Every file is in a directory, whatever has been created, removed and renamed
\* (rmdir, and rename over a directory, ask dirEmpty), unless a rename was cut
\* short half way through a tree; and then the tree is whole again when the same
\* rename is repeated at once and returns 0.  Three renames are outside of this:
\* one that takes along the directory its target is to be in (TakesParent); one
\* that is cut short, and repeated would move what it has moved once more
\* (MovesTwice); and one that takes along a path that LIKE does not match name by
\* name (strayed).
TreeConnected ==
    op = Idle /\ cut = NoCut /\ ~strayed =>
        \A i \in Present \ {Root} : IsDir(Front(files[i].path))

\* readdir leaves out no child of a directory, also in a tree that a rename is
\* moving or has left half moved: depth is changed by what the directory's path
\* grows by, which is what the child's path does, as long as LIKE has matched
\* all that was moved name by name.
ListsEveryChild ==
    ~strayed =>
        \A d \in Present, i \in Present \ {Root} :
            Front(files[i].path) = files[d].path => i \in Listed(files[d].path)

\* A rename that returns 0 leaves nothing at or below the old path, also when an
\* earlier attempt at it was cut short, and when rows of another directory, alike
\* by LIKE, were taken along: unless one of these does not lie below the old path
\* name by name.
RenameMovesAll ==
    [][op.kind = "move" /\ op' = Idle /\ files' # files
       /\ cut \in {NoCut, <<op.old, op.new>>} /\ ~strayed =>
          \A i \in Present' : ~IsPrefix(op.old, files'[i].path)]_vars
=============================================================================
