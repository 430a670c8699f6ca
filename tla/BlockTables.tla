---------------------------- MODULE BlockTables ----------------------------
(***************************************************************************)
(* The two block tables of class DataBase (database.cpp): block_hashes,    *)
(* one row per storage block with its content hash and its use count, and  *)
(* file_blocks, which gives each written block of each file its hash.      *)
(*                                                                         *)
(* replaceStorageBlock and releaseStorageBlock run inside BEGIN EXCLUSIVE  *)
(* TRANSACTION, so each is one atomic step here.  What they do depends on  *)
(* use counts that the CALLER holds in memory; this module lets those      *)
(* counts be anything, so what it shows holds whatever the caches believe. *)
(*                                                                         *)
(* Nothing ever deletes a row of block_hashes, and _ID is the primary key  *)
(* that SQLite hands out in sequence: the table is the sequence of its     *)
(* rows, and a row's index is its _ID, which is also its block number in   *)
(* the storage file.                                                       *)
(***************************************************************************)
EXTENDS Integers, Sequences

CONSTANTS
    Keys,        \* (file, block of the file): the unique key of file_blocks
    Hashes,      \* content hashes
    Null,        \* no row in file_blocks; no storage block held by the caller
    EmptyBlob,   \* the hash column of a LEFT JOIN that found no block_hashes row
    Counts,      \* use counts a caller may hold for the storage block it replaces
    MaxRows,     \* bound on the rows of block_hashes
    MaxUse       \* bound on their use counts

ASSUME TablesAssumption ==
    /\ Null \notin Hashes
    /\ EmptyBlob \notin Hashes
    /\ Null \notin Int
    /\ Counts \subseteq Int
    /\ MaxRows \in Nat
    /\ MaxUse \in Nat

VARIABLES
    rows,        \* block_hashes
    fileBlocks   \* file_blocks

tvars == <<rows, fileBlocks>>

Row == [hash : Hashes, use : Int]

TypeOK ==
    /\ rows \in Seq(Row)
    /\ fileBlocks \in [Keys -> Hashes \cup {Null}]

Init ==
    /\ rows = <<>>
    /\ fileBlocks = [k \in Keys |-> Null]

----------------------------------------------------------------------------
(* The statements the transactions are made of. *)

\* What the lookup would be if it skipped the rows no block uses any more.
PresentIfUsed(x) == \E i \in DOMAIN rows : rows[i].hash = x /\ rows[i].use > 0

\* stSelectBlockHash: some row has this hash.
Present(x) == \E i \in DOMAIN rows : rows[i].hash = x

\* The _ID that stSelectBlockHash returns.
IdOf(x) == CHOOSE i \in DOMAIN rows : rows[i].hash = x

\* UPDATE block_hashes SET use_count = c WHERE _ID = s; no row, no effect.
SetUse(rs, s, c) ==
    IF s \in DOMAIN rs THEN [rs EXCEPT ![s].use = c] ELSE rs

\* The same statement without its WHERE.
SetEveryHash(rs, s, x) ==
    IF s \in DOMAIN rs THEN [i \in DOMAIN rs |-> [rs[i] EXCEPT !.hash = x]] ELSE rs

\* UPDATE block_hashes SET hash = x WHERE _ID = s.
SetHash(rs, s, x) ==
    IF s \in DOMAIN rs THEN [rs EXCEPT ![s].hash = x] ELSE rs

\* UPDATE block_hashes SET use_count = use_count - 1 WHERE hash = x.
DecreaseUse(rs, x) ==
    [i \in DOMAIN rs |-> IF rs[i].hash = x THEN [rs[i] EXCEPT !.use = @ - 1] ELSE rs[i]]

----------------------------------------------------------------------------
(* replaceStorageBlock: file block k gets content with hash x.  s is the   *)
(* storage block its cache entry points at (Null: none) and c the use      *)
(* count the caller holds for it.  The three outcomes are those of the     *)
(* comment "case present / case replaced / case new" in _writeBlock.       *)

\* Overwriting whatever has a user, not what has one user.
InPlaceIfUsed(s, c) == s # Null /\ c >= 1

InPlaceAllowed(s, c) == s # Null /\ c = 1

\* The hash is known: its row gains a use, the block left behind gets the
\* caller's count less one (last, so that it wins when both are one row).
ReplacePresent(k, x, s, c) ==
    /\ Present(x)
    /\ fileBlocks' = [fileBlocks EXCEPT ![k] = x]
    /\ rows' = SetUse([rows EXCEPT ![IdOf(x)].use = @ + 1], s, c - 1)

\* The hash is new and the caller takes itself for the only user of s: the
\* row of s changes hash.
ReplaceInPlace(k, x, s, c) ==
    /\ ~Present(x)
    /\ InPlaceAllowed(s, c)
    /\ fileBlocks' = [fileBlocks EXCEPT ![k] = x]
    /\ rows' = SetUse(SetHash(rows, s, x), s, c)

\* The reference written without the row it refers to.
ReplaceWithoutInsert(k, x, s, c) ==
    /\ ~Present(x)
    /\ ~InPlaceAllowed(s, c)
    /\ Len(rows) < MaxRows
    /\ fileBlocks' = [fileBlocks EXCEPT ![k] = x]
    /\ rows' = SetUse(rows, s, c - 1)

\* The hash is new and s may not be overwritten: a row is inserted.
ReplaceInsert(k, x, s, c) ==
    /\ ~Present(x)
    /\ ~InPlaceAllowed(s, c)
    /\ Len(rows) < MaxRows
    /\ fileBlocks' = [fileBlocks EXCEPT ![k] = x]
    /\ rows' = Append(SetUse(rows, s, c - 1), [hash |-> x, use |-> 1])

\* A release that blanks the reference where it should delete it.
ReleaseBlanks(k, x) ==
    /\ fileBlocks' = [fileBlocks EXCEPT ![k] = EmptyBlob]
    /\ rows' = DecreaseUse(rows, x)

\* releaseStorageBlock: the file block goes away; x is the hash the caller's
\* cache entry, or loadFileBlock, gave for it.
Release(k, x) ==
    /\ fileBlocks' = [fileBlocks EXCEPT ![k] = Null]
    /\ rows' = DecreaseUse(rows, x)

----------------------------------------------------------------------------
(* What callers may pass.  A storage block is one that exists, or block 0, *)
(* which a dangling reference loads as: its count is never 1 (BlocksCache  *)
(* shows this of the real caller).                                         *)

CallerHolds(s, c) ==
    \/ s = Null /\ c = 0
    \/ s = 0 /\ c # 1
    \/ s \in 1..Len(rows)

\* No transaction leaves a use count beyond the bound.
UsesBounded == \A i \in DOMAIN rows : rows[i].use \in -MaxUse..MaxUse

\* One call of replaceStorageBlock.
Replace(k, x, s, c) ==
    \/ ReplacePresent(k, x, s, c)
    \/ ReplaceInPlace(k, x, s, c)
    \/ ReplaceInsert(k, x, s, c)

Next ==
    \/ \E k \in Keys, x \in Hashes, c \in Counts, s \in (0..MaxRows) \cup {Null} :
          CallerHolds(s, c) /\ Replace(k, x, s, c) /\ UsesBounded'
    \/ \E k \in Keys, x \in Hashes \cup {EmptyBlob} : Release(k, x) /\ UsesBounded'

Spec == Init /\ [][Next]_tvars

\* A caller is honest when it overwrites a storage block in place only if no
\* other file block refers to the content it replaces.
SoleUser(k, s) ==
    s \in DOMAIN rows => \A k2 \in Keys : fileBlocks[k2] = rows[s].hash => k2 = k

HonestReplace(k, x, s, c) ==
    \/ ReplacePresent(k, x, s, c)
    \/ SoleUser(k, s) /\ ReplaceInPlace(k, x, s, c)
    \/ ReplaceInsert(k, x, s, c)

HonestNext ==
    \/ \E k \in Keys, x \in Hashes, c \in Counts, s \in (0..MaxRows) \cup {Null} :
          CallerHolds(s, c) /\ HonestReplace(k, x, s, c) /\ UsesBounded'
    \/ \E k \in Keys, x \in Hashes \cup {EmptyBlob} : Release(k, x) /\ UsesBounded'

HonestSpec == Init /\ [][HonestNext]_tvars

----------------------------------------------------------------------------
(* Properties *)

\* No two rows of block_hashes carry the same hash, although the schema only
\* has the plain index hash_idx on that column: deduplication never splits.
\* It rests on every path to INSERT or to UPDATE ... SET hash having looked
\* the hash up inside the same exclusive transaction.
UniqueHash ==
    \A i, j \in DOMAIN rows : rows[i].hash = rows[j].hash => i = j

\* Every reference of file_blocks has its row in block_hashes, so the LEFT
\* JOIN of loadFileBlock finds the storage block of every written file block.
NoDangling ==
    \A k \in Keys : fileBlocks[k] # Null => Present(fileBlocks[k])

\* A transaction that gives a file block a hash leaves a row with that hash
\* behind, whatever counts the caller passed.
CommittedResolves ==
    [][\A k \in Keys :
          fileBlocks'[k] # fileBlocks[k] /\ fileBlocks'[k] # Null
             => \E i \in DOMAIN rows' : rows'[i].hash = fileBlocks'[k]]_tvars

\* Only a caller that is not honest leaves a reference without its row, whatever
\* it passes for a count and however the callers before it came to theirs.
NeverDangles == [][NoDangling => NoDangling' \/ ~HonestNext]_tvars

\* Nor does any other take away another file block's content: the hash a file
\* block refers to keeps its row and its row keeps its number, unless that very
\* file block is the one written or released.
OthersKeep ==
    \A k \in Keys, i \in DOMAIN rows :
       fileBlocks[k] = rows[i].hash /\ fileBlocks'[k] = fileBlocks[k]
          => i \in DOMAIN rows' /\ rows'[i].hash = rows[i].hash

OthersKeepTheirBlock == [][OthersKeep \/ ~HonestNext]_tvars
============================================================================
