------------------------ MODULE CacheThreadsProofs ------------------------
(***************************************************************************)
(* Types, that the locks of the cache do not deadlock, that the counts in  *)
(* memory cover the users of the blocks, and that a read gives the content *)
(* of its file: for any number of threads, files, contents and rows.       *)
(***************************************************************************)
EXTENDS CacheThreads, FiniteSetTheorems, SequenceTheorems, TLAPS

LockTypes ==
    /\ TypeOK
    /\ th \in [Threads -> Request \cup {Idle}]
    /\ disk \in [Numbers -> Contents]
    /\ Len(rows) =< MaxRows
    /\ dbOwner \in Threads \cup {Null}
    /\ \A f \in Files : fileBlocks[f] # Null => info[f].num # 0

\* Who has a block at hand has an object for it, which nobody takes away; and a
\* write, that of its file.
Refers(f) == info[f].ref => info[f].num # 0 /\ item[info[f].num] # Null

AtHand(t) ==
    /\ th[t].at \notin {"idle", "info", "count", "place"} /\ N(t) # 0 => item[N(t)] # Null
    /\ th[t].at \in {"item", "seek", "fetch", "have", "object", "count", "counted", "place"}
          => N(t) # 0

OwnAtHand(t) ==
    /\ th[t].at \notin {"idle", "info", "count", "counted"} /\ th[t].op = "write" /\ N(t) # 0
          => info[F(t)].num = N(t)
    /\ th[t].at \in {"begin", "body"} /\ th[t].op = "truncate" => info[F(t)].num # 0

BlocksAtHand ==
    /\ \A f \in Files : Refers(f)
    /\ \A t \in Threads : AtHand(t) /\ OwnAtHand(t)

\* What is done by which request.
OpsInPlace ==
    \A t \in Threads :
       /\ th[t].at \in {"object", "place"} => th[t].op = "write"
       /\ th[t].at # "idle" /\ th[t].op = "write" => th[t].hash \in Hashes
       /\ th[t].at \in {"info", "item", "seek", "fetch", "have"} => th[t].op # "truncate"
       /\ th[t].at \in {"begin", "body"} => th[t].op # "read"
       /\ th[t].at \in {"begin", "body"} /\ th[t].op = "truncate" => N(t) = 0

\* i_rwsem of the inode.
OneWriter ==
    \A t, u \in Threads :
       t # u /\ ~At(t, "idle") /\ ~At(u, "idle") /\ F(t) = F(u)
          => th[t].op = "read" \/ th[u].op = "read"

\* Where the holders of the locks are.
Holders ==
    /\ \A f \in Files, t \in Threads :
          info[f].lock = t
             => th[t].at \notin {"idle", "info"} /\ th[t].op = "write" /\ F(t) = f
    /\ \A n \in Numbers, t \in Threads :
          item[n] # Null /\ item[n].lock = t
             => th[t].at \in {"seek", "fetch", "have", "body"} /\ N(t) = n

LockInv == LockTypes /\ BlocksAtHand /\ OpsInPlace /\ OneWriter /\ Holders

----------------------------------------------------------------------------
(* Records and functions.                                                  *)

Places == {"info", "item", "seek", "fetch", "have", "begin", "object", "body",
           "count", "counted", "place"}

\* What a request consists of.
LEMMA RequestFields ==
    ASSUME NEW r \in Request
    PROVE  /\ r.at \in Places /\ r.op \in {"read", "write", "truncate"}
           /\ r.file \in Files /\ r.n \in 0..MaxRows /\ r.hash \in Hashes \cup {Null}
           /\ r.use \in Int
  BY DEF Request, Places

LEMMA IdleAt == Idle.at = "idle"
  BY DEF Idle

LEMMA RequestMoves ==
    ASSUME NEW r \in Request, NEW p \in Places
    PROVE  LET s == [r EXCEPT !.at = p]
           IN  /\ s \in Request /\ s.at = p /\ s.op = r.op /\ s.file = r.file /\ s.n = r.n
               /\ s.hash = r.hash
  BY DEF Request, Places

\* A thread at work is in a request.
LEMMA AtWork ==
    ASSUME LockTypes, NEW t \in Threads, th[t].at # "idle"
    PROVE  th[t] \in Request
  BY IdleAt DEF LockTypes

\* The other threads are where they were.
OthersStay(t) ==
    /\ th' \in [Threads -> Request \cup {Idle}]
    /\ \A u \in Threads \ {t} :
          /\ th'[u].at = th[u].at /\ th'[u].op = th[u].op
          /\ th'[u].file = th[u].file /\ th'[u].n = th[u].n /\ th'[u].hash = th[u].hash

\* Thread t is now at p, with block m.
MovedTo(t, p, m) ==
    /\ OthersStay(t)
    /\ th'[t] \in Request
    /\ th'[t].at = p /\ th'[t].op = th[t].op /\ th'[t].file = th[t].file /\ th'[t].n = m
    /\ th'[t].hash = th[t].hash

Moved(t, p) == MovedTo(t, p, th[t].n)

\* Thread t is idle.
Gone(t) == OthersStay(t) /\ th'[t] = Idle

LEMMA RequestChanged ==
    ASSUME NEW r \in Request
    PROVE  LET s == [r EXCEPT !.changed = TRUE]
           IN  /\ s \in Request /\ s.at = r.at /\ s.op = r.op /\ s.file = r.file /\ s.n = r.n
               /\ s.hash = r.hash
  BY DEF Request

LEMMA CommitsMoves ==
    ASSUME LockTypes, NEW t \in Threads, th[t] \in Request, NEW x, NEW m \in 0..MaxRows,
           NEW p \in Places, Commits(t, x, m, p)
    PROVE  MovedTo(t, p, m)
<1> DEFINE r == [th[t] EXCEPT !.at = p, !.n = m]
           s(u) == [th[u] EXCEPT !.changed = TRUE]
<1>1. /\ r \in Request /\ r.at = p /\ r.op = th[t].op
      /\ r.file = th[t].file /\ r.n = m /\ r.hash = th[t].hash
  BY DEF Request, Places
<1>2. \A u \in InHand : /\ u \in Threads /\ s(u) \in Request
                        /\ s(u).at = th[u].at /\ s(u).op = th[u].op
                        /\ s(u).file = th[u].file /\ s(u).n = th[u].n
                        /\ s(u).hash = th[u].hash
  BY AtWork, RequestChanged DEF InHand, At
<1>3. th' = [u \in Threads |-> IF u = t THEN r
                              ELSE IF u \in InHand /\ F(u) = F(t) THEN s(u) ELSE th[u]]
  BY DEF Commits
<1> HIDE DEF r, s
<1>4. OthersStay(t)
  BY <1>1, <1>2, <1>3 DEF OthersStay, LockTypes
<1> QED BY <1>1, <1>3, <1>4 DEF MovedTo

LEMMA GoesMoves ==
    ASSUME LockTypes, NEW t \in Threads, NEW p \in Places, th[t] \in Request, Goes(t, p)
    PROVE  Moved(t, p)
<1>1. th' = [th EXCEPT ![t] = [th[t] EXCEPT !.at = p]]
  BY DEF Goes, LockTypes
<1>2. [th[t] EXCEPT !.at = p] \in Request
  BY RequestMoves
<1>3. th' \in [Threads -> Request \cup {Idle}]
  BY <1>1, <1>2 DEF LockTypes
<1>4. th'[t] = [th[t] EXCEPT !.at = p] /\ \A u \in Threads \ {t} : th'[u] = th[u]
  BY <1>1 DEF LockTypes
<1> QED BY <1>2, <1>3, <1>4, RequestMoves DEF Moved, MovedTo, OthersStay

LEMMA EndsGone ==
    ASSUME LockTypes, NEW t \in Threads, Ends(t)
    PROVE  Gone(t)
  BY DEF Ends, Gone, OthersStay, LockTypes

\* Only the object n is changed, to r.
ItemIs(n, r) ==
    /\ item' \in [Numbers -> Item \cup {Null}]
    /\ \A m \in Numbers \ {n} : item'[m] = item[m]
    /\ item'[n] = r

LEMMA ItemChanges ==
    ASSUME LockTypes, NEW n \in Numbers, NEW r \in Item, item' = [item EXCEPT ![n] = r]
    PROVE  ItemIs(n, r)
  BY DEF ItemIs, LockTypes, TypeOK

LEMMA ItemLocked ==
    ASSUME NEW r \in Item, NEW l \in Threads \cup {Null}
    PROVE  [r EXCEPT !.lock = l] \in Item /\ [r EXCEPT !.lock = l].lock = l
  BY DEF Item

LEMMA ItemCounted ==
    ASSUME NEW r \in Item, NEW u \in Int
    PROVE  r.use \in Int /\ [r EXCEPT !.use = u] \in Item /\ [r EXCEPT !.use = u].lock = r.lock
  BY DEF Item

LEMMA ItemFetched ==
    ASSUME NEW r \in Item, NEW d \in Contents
    PROVE  [r EXCEPT !.data = d] \in Item /\ [r EXCEPT !.data = d].lock = r.lock
  BY DEF Item

LEMMA ItemLeft ==
    ASSUME NEW r \in Item
    PROVE  LET s == [r EXCEPT !.use = @ - 1, !.lock = Null] IN s \in Item /\ s.lock = Null
<1>1. r.use - 1 \in Int
  BY DEF Item
<1>2. [r EXCEPT !.use = r.use - 1] \in Item
  BY <1>1, ItemCounted
<1> QED BY <1>2, ItemLocked DEF Item

LEMMA ItemNew ==
    ASSUME NEW u \in Int, NEW d \in Contents
    PROVE  LET s == [use |-> u, data |-> d, lock |-> Null] IN s \in Item /\ s.lock = Null
  BY DEF Item

\* Only the block_info of f is changed, to r.
InfoIs(f, r) ==
    /\ info' \in [Files -> Info]
    /\ \A g \in Files \ {f} : info'[g] = info[g]
    /\ info'[f] = r

LEMMA InfoChanges ==
    ASSUME LockTypes, NEW f \in Files, NEW r \in Info, info' = [info EXCEPT ![f] = r]
    PROVE  InfoIs(f, r)
  BY DEF InfoIs, LockTypes, TypeOK

LEMMA InfoLocked ==
    ASSUME NEW r \in Info, NEW l \in Threads \cup {Null, Leaked}
    PROVE  LET s == [r EXCEPT !.lock = l]
           IN  s \in Info /\ s.lock = l /\ s.num = r.num /\ s.ref = r.ref
  BY DEF Info

LEMMA InfoNumbered ==
    ASSUME NEW r \in Info, NEW m \in 0..MaxRows
    PROVE  LET s == [r EXCEPT !.num = m, !.ref = FALSE]
           IN  s \in Info /\ s.num = m /\ s.ref = FALSE /\ s.lock = r.lock
  BY DEF Info

\* The object that a thread has at hand is there.
LEMMA ObjectAtHand ==
    ASSUME LockInv, NEW t \in Threads, th[t].at \notin {"idle", "info", "count", "place"},
           N(t) # 0
    PROVE  N(t) \in Numbers /\ item[N(t)] \in Item
<1>1. th[t] \in Request
  BY AtWork DEF LockInv
<1>2. N(t) \in Numbers
  BY <1>1, RequestFields, ThreadsAssumption DEF N, Numbers
<1> QED BY <1>2 DEF LockInv, LockTypes, TypeOK, BlocksAtHand, AtHand

\* The numbers at hand and referred to are those of rows.
LEMMA NumbersInUse ==
    ASSUME LockTypes
    PROVE  /\ \A f \in Files : info[f] \in Info /\ (info[f].num # 0 => info[f].num \in Numbers)
           /\ \A t \in Threads : th[t] \in Request => F(t) \in Files
                                  /\ N(t) \in 0..MaxRows /\ (N(t) # 0 => N(t) \in Numbers)
<1>1. \A f \in Files : info[f] \in Info /\ info[f].num \in 0..MaxRows
  BY DEF LockTypes, TypeOK, Info
<1>2. \A t \in Threads : th[t] \in Request => F(t) \in Files /\ N(t) \in 0..MaxRows
  BY RequestFields DEF F, N
<1> QED BY <1>1, <1>2, ThreadsAssumption DEF Numbers

\* No step takes an object away ...
Stay == \A n \in Numbers : item[n] # Null => item'[n] # Null

\* ... and only LockItem and LockObject lock one.
ItemsKept ==
    /\ item' \in [Numbers -> Item \cup {Null}]
    /\ Stay
    /\ \A n \in Numbers, u \in Threads :
          item'[n] # Null /\ item'[n].lock = u => item[n] # Null /\ item[n].lock = u

LEMMA ItemKept ==
    ASSUME LockTypes, NEW n \in Numbers, NEW r \in Item, item' = [item EXCEPT ![n] = r],
           r.lock = Null \/ (item[n] # Null /\ r.lock = item[n].lock)
    PROVE  ItemsKept
<1>1. ItemIs(n, r)
  BY ItemChanges
<1> QED BY <1>1, ThreadsAssumption DEF ItemIs, ItemsKept, Stay

LEMMA ItemsUnchanged ==
    ASSUME LockTypes, UNCHANGED item
    PROVE  ItemsKept
  BY DEF LockTypes, TypeOK, ItemsKept, Stay

\* Block_infos keep what they refer to, and nobody locks one.
InfosKept ==
    /\ info' \in [Files -> Info]
    /\ \A f \in Files :
          /\ info'[f].num = info[f].num /\ info'[f].ref = info[f].ref
          /\ \A u \in Threads : info'[f].lock = u => info[f].lock = u

LEMMA InfosUnchanged ==
    ASSUME LockTypes, UNCHANGED info
    PROVE  InfosKept
  BY DEF LockTypes, TypeOK, InfosKept

LEMMA InfoUnlocks ==
    ASSUME LockTypes, NEW f \in Files, NEW l \in {Null, Leaked},
           info' = [info EXCEPT ![f].lock = l]
    PROVE  InfosKept /\ info'[f].lock = l
<1>1. info[f] \in Info
  BY DEF LockTypes, TypeOK
<1> DEFINE r == [info[f] EXCEPT !.lock = l]
<1>2. r \in Info /\ r.lock = l /\ r.num = info[f].num /\ r.ref = info[f].ref
  BY <1>1, InfoLocked
<1>3. info' = [info EXCEPT ![f] = r]
  BY DEF LockTypes, TypeOK
<1> HIDE DEF r
<1>4. InfoIs(f, r)
  BY <1>2, <1>3, InfoChanges
<1> QED BY <1>2, <1>4, ThreadsAssumption DEF InfoIs, InfosKept

\* The threads that do not move keep what they have at hand.
LEMMA OthersRefer ==
    ASSUME LockInv, Stay
    PROVE  /\ \A f \in Files : info'[f].num = info[f].num /\ info'[f].ref = info[f].ref => Refers(f)'
           /\ \A u \in Threads : th'[u].at = th[u].at /\ th'[u].n = th[u].n => AtHand(u)'
  BY NumbersInUse, AtWork DEF LockInv, BlocksAtHand, Refers, AtHand, Stay, N

LEMMA OthersOwn ==
    ASSUME LockInv, NEW t \in Threads, OthersStay(t), InfosKept
    PROVE  \A u \in Threads \ {t} : OwnAtHand(u)'
  BY NumbersInUse, AtWork DEF LockInv, BlocksAtHand, OwnAtHand, OthersStay, InfosKept, N, F

\* Nobody locks a block_info.
InfoLocksKept == \A f \in Files, u \in Threads : info'[f].lock = u => info[f].lock = u

\* A step that moves one thread in its request and locks nothing.
LEMMA MoveHolds ==
    ASSUME LockInv, NEW t \in Threads, th[t] \in Request, NEW p \in Places, NEW m,
           MovedTo(t, p, m), InfoLocksKept, ItemsKept, p # "info",
           \A n \in Numbers : item'[n] # Null /\ item'[n].lock = t
                             => p \in {"seek", "fetch", "have", "body"} /\ m = n
    PROVE  OneWriter' /\ Holders'
<1>1. p # "idle" /\ th[t].at # "idle"
  BY RequestFields DEF Places
<1>2. OneWriter'
  BY <1>1 DEF LockInv, OneWriter, MovedTo, OthersStay, F, At
<1>3. \A f \in Files, u \in Threads :
         info'[f].lock = u => th'[u].at \notin {"idle", "info"} /\ th'[u].op = "write" /\ F(u)' = f
  BY <1>1 DEF LockInv, Holders, MovedTo, OthersStay, InfoLocksKept, F
<1>4. \A n \in Numbers, u \in Threads :
         item'[n] # Null /\ item'[n].lock = u
            => th'[u].at \in {"seek", "fetch", "have", "body"} /\ N(u)' = n
  BY <1>1 DEF LockInv, Holders, MovedTo, OthersStay, ItemsKept, N
<1> QED BY <1>2, <1>3, <1>4 DEF Holders

LEMMA StepHolds ==
    ASSUME LockInv, NEW t \in Threads, th[t] \in Request, NEW p \in Places, NEW m,
           MovedTo(t, p, m), InfosKept, ItemsKept, p # "info",
           th[t].at \in {"seek", "fetch", "have", "body"} =>
              \A n \in Numbers : item'[n] # Null /\ item'[n].lock = t
                                    => p \in {"seek", "fetch", "have", "body"} /\ m = n
    PROVE  OneWriter' /\ Holders'
<1>1. InfoLocksKept
  BY DEF InfosKept, InfoLocksKept
<1>2. \A n \in Numbers : item'[n] # Null /\ item'[n].lock = t
                           => p \in {"seek", "fetch", "have", "body"} /\ m = n
  BY DEF LockInv, Holders, ItemsKept
<1> QED BY <1>1, <1>2, MoveHolds

\* A step that ends a request, whose thread has no lock.
LEMMA EndHolds ==
    ASSUME LockInv, NEW t \in Threads, Gone(t), InfosKept, ItemsKept,
           \A f \in Files : info'[f].lock # t,
           \A n \in Numbers : item'[n] = Null \/ item'[n].lock # t
    PROVE  OneWriter' /\ Holders' /\ OpsInPlace' /\ BlocksAtHand'
<1>1. OneWriter'
  BY IdleAt DEF LockInv, OneWriter, Gone, OthersStay, F, At
<1>2. Holders'
  BY DEF LockInv, Holders, Gone, OthersStay, InfosKept, ItemsKept, N, F
<1>3. OpsInPlace'
  BY IdleAt DEF LockInv, OpsInPlace, Gone, OthersStay, N
<1>4. AtHand(t)' /\ OwnAtHand(t)'
  BY IdleAt DEF Gone, AtHand, OwnAtHand
<1>5. \A u \in Threads \ {t} : AtHand(u)' /\ OwnAtHand(u)'
  BY OthersRefer, OthersOwn DEF Gone, OthersStay, ItemsKept
<1>6. \A f \in Files : Refers(f)'
  BY OthersRefer DEF InfosKept, ItemsKept
<1> QED BY <1>1, <1>2, <1>3, <1>4, <1>5, <1>6 DEF BlocksAtHand

LEMMA StepRefers ==
    ASSUME LockInv, NEW t \in Threads, NEW p, NEW m, MovedTo(t, p, m), InfosKept, ItemsKept,
           AtHand(t)', OwnAtHand(t)'
    PROVE  BlocksAtHand'
<1>1. \A u \in Threads \ {t} : AtHand(u)' /\ OwnAtHand(u)'
  BY OthersRefer, OthersOwn DEF MovedTo, OthersStay, ItemsKept
<1>2. \A f \in Files : Refers(f)'
  BY OthersRefer DEF InfosKept, ItemsKept
<1> QED BY <1>1, <1>2 DEF BlocksAtHand

LEMMA StepTyped ==
    ASSUME LockTypes, NEW t \in Threads, OthersStay(t), InfosKept, ItemsKept,
           UNCHANGED <<rows, fileBlocks, disk, pos, dbOwner, raced>>,
           th[t].at \notin {"object", "body"}, th'[t].at \notin {"object", "body"}
    PROVE  LockTypes'
<1>1. TypeOK'
  BY DEF LockTypes, TypeOK, OthersStay, InfosKept, ItemsKept
<1>2. \A f \in Files : fileBlocks'[f] # Null => info'[f].num # 0
  BY DEF LockTypes, InfosKept
<1> QED BY <1>1, <1>2 DEF LockTypes, OthersStay

----------------------------------------------------------------------------
(* The steps.                                                              *)

LEMMA LockItemKeeps ==
    ASSUME LockInv, NEW t \in Threads, LockItem(t)
    PROVE  LockInv'
<1> USE DEF LockInv
<1>1. th[t] \in Request /\ th[t].at = "item"
  BY AtWork DEF LockItem, At
<1>2. N(t) \in Numbers /\ item[N(t)] \in Item
  BY <1>1, ObjectAtHand DEF BlocksAtHand, AtHand
<1>3. PICK p \in {"seek", "have"} : Moved(t, p)
  BY <1>1, GoesMoves DEF LockItem, Places
<1>4. PICK r \in Item : ItemIs(N(t), r) /\ r.lock = t
  <2>1. item' = [item EXCEPT ![N(t)] = [item[N(t)] EXCEPT !.lock = t]]
    BY <1>2 DEF LockItem, LockTypes, TypeOK
  <2>2. [item[N(t)] EXCEPT !.lock = t] \in Item /\ [item[N(t)] EXCEPT !.lock = t].lock = t
    BY <1>2, ItemLocked
  <2> QED BY <1>2, <2>1, <2>2, ItemChanges
<1>5. UNCHANGED <<rows, fileBlocks, info, disk, pos, dbOwner, raced>>
  BY DEF LockItem, tables
<1>6. LockTypes'
  BY <1>1, <1>3, <1>4, <1>5 DEF LockTypes, TypeOK, Moved, MovedTo, OthersStay, ItemIs
<1>7. BlocksAtHand'
  <2>1. Stay
    BY <1>2, <1>4, ThreadsAssumption DEF Stay, ItemIs
  <2>2. AtHand(t)' /\ OwnAtHand(t)'
    <3>1. AtHand(t)'
      BY <1>2, <1>3, <2>1, ThreadsAssumption DEF AtHand, Moved, MovedTo, Stay, N, Numbers
    <3>2. OwnAtHand(t)'
      BY <1>1, <1>3, <1>5 DEF BlocksAtHand, OwnAtHand, OpsInPlace, Moved, MovedTo, N, F
    <3> QED BY <3>1, <3>2
  <2>3. \A u \in Threads \ {t} : AtHand(u)' /\ OwnAtHand(u)'
    BY <1>3, <1>5, <2>1, OthersRefer, OthersOwn, InfosUnchanged DEF Moved, MovedTo, OthersStay
  <2>4. \A f \in Files : Refers(f)'
    BY <1>5, <2>1, OthersRefer
  <2> QED BY <2>2, <2>3, <2>4 DEF BlocksAtHand
<1>8. OpsInPlace'
  BY <1>1, <1>3 DEF OpsInPlace, Moved, MovedTo, OthersStay, N
<1>9. OneWriter'
  BY <1>1, <1>3 DEF OneWriter, Moved, MovedTo, OthersStay, F, At
<1>10. Holders'
  BY <1>1, <1>2, <1>3, <1>4, <1>5 DEF Holders, Moved, MovedTo, OthersStay, ItemIs, N, F
<1> QED BY <1>6, <1>7, <1>8, <1>9, <1>10

LEMMA SeekKeeps ==
    ASSUME LockInv, NEW t \in Threads, Seek(t)
    PROVE  LockInv'
<1> USE DEF LockInv
<1>1. th[t] \in Request /\ th[t].at = "seek"
  BY AtWork DEF Seek, At
<1>2. N(t) \in Numbers /\ item[N(t)] \in Item
  BY <1>1, ObjectAtHand DEF BlocksAtHand, AtHand
<1>3. Moved(t, "fetch")
  BY <1>1, GoesMoves DEF Seek, Places
<1>4. InfosKept /\ ItemsKept
  BY InfosUnchanged, ItemsUnchanged DEF Seek
<1>5. UNCHANGED <<rows, fileBlocks, info, item, disk, dbOwner>>
  BY DEF Seek, tables
<1>6. pos' \in 0..(MaxRows + 1) /\ raced' \subseteq {"count", "seek"}
  BY <1>2, ThreadsAssumption DEF Seek, LockTypes, TypeOK, Numbers
<1>7. LockTypes'
  BY <1>1, <1>3, <1>5, <1>6 DEF LockTypes, TypeOK, Moved, MovedTo, OthersStay
<1>8. AtHand(t)' /\ OwnAtHand(t)'
  BY <1>1, <1>3, <1>5 DEF BlocksAtHand, AtHand, OwnAtHand, Moved, MovedTo, N, F
<1>9. BlocksAtHand'
  BY <1>3, <1>4, <1>8, StepRefers DEF Moved
<1>10. OpsInPlace'
  BY <1>1, <1>3 DEF OpsInPlace, Moved, MovedTo, OthersStay, N
<1>11. OneWriter' /\ Holders'
  BY <1>1, <1>3, <1>4, <1>5, StepHolds DEF Holders, Moved, Places, N
<1> QED BY <1>7, <1>9, <1>10, <1>11

LEMMA FetchKeeps ==
    ASSUME LockInv, NEW t \in Threads, Fetch(t)
    PROVE  LockInv'
<1> USE DEF LockInv
<1>1. th[t] \in Request /\ th[t].at = "fetch"
  BY AtWork DEF Fetch, At
<1>2. N(t) \in Numbers /\ item[N(t)] \in Item
  BY <1>1, ObjectAtHand DEF BlocksAtHand, AtHand
<1>3. Moved(t, "have")
  BY <1>1, GoesMoves DEF Fetch, Places
<1> DEFINE d == IF pos = N(t) /\ disk[pos] # Null THEN disk[pos] ELSE Foreign
           r == [item[N(t)] EXCEPT !.data = d]
<1>4. d \in Contents
  BY <1>2 DEF LockTypes, Contents
<1>5. r \in Item /\ r.lock = item[N(t)].lock
  <2> HIDE DEF d
  <2> QED BY <1>2, <1>4, ItemFetched
<1>6. item' = [item EXCEPT ![N(t)] = r]
  BY <1>2 DEF Fetch, LockTypes, TypeOK
<1> HIDE DEF r
<1>7. InfosKept /\ ItemsKept
  BY <1>2, <1>5, <1>6, ThreadsAssumption, InfosUnchanged, ItemKept DEF Fetch
<1>8. UNCHANGED <<rows, fileBlocks, info, disk, dbOwner, raced>>
  BY DEF Fetch, tables
<1>9. pos' \in 0..(MaxRows + 1)
  BY ThreadsAssumption DEF Fetch, LockTypes, TypeOK
<1>10. LockTypes'
  BY <1>1, <1>3, <1>7, <1>8, <1>9 DEF LockTypes, TypeOK, Moved, MovedTo, OthersStay, ItemsKept
<1>11. AtHand(t)' /\ OwnAtHand(t)'
  BY <1>1, <1>2, <1>3, <1>7, <1>8, ThreadsAssumption
     DEF BlocksAtHand, AtHand, OwnAtHand, Moved, MovedTo, ItemsKept, Stay, N, F
<1>12. BlocksAtHand'
  BY <1>3, <1>7, <1>11, StepRefers DEF Moved
<1>13. OpsInPlace'
  BY <1>1, <1>3 DEF OpsInPlace, Moved, MovedTo, OthersStay, N
<1>14. OneWriter' /\ Holders'
  <2>1. \A n \in Numbers : item'[n] # Null /\ item'[n].lock = t => N(t) = n
    BY <1>7 DEF ItemsKept, Holders
  <2> QED BY <1>1, <1>3, <1>7, <2>1, StepHolds DEF Moved, Places, N
<1> QED BY <1>10, <1>12, <1>13, <1>14

LEMMA BeginKeeps ==
    ASSUME LockInv, NEW t \in Threads, Begin(t)
    PROVE  LockInv'
<1> USE DEF LockInv
<1>1. th[t] \in Request /\ th[t].at = "begin"
  BY AtWork DEF Begin, At
<1>2. PICK p \in {"object", "body"} :
        Moved(t, p) /\ (p = "object" => th[t].op = "write" /\ N(t) # 0)
  BY <1>1, GoesMoves DEF Begin, Places
<1>3. InfosKept /\ ItemsKept
  BY InfosUnchanged, ItemsUnchanged DEF Begin
<1>4. UNCHANGED <<rows, fileBlocks, info, item, disk, pos, raced>> /\ dbOwner = Null /\ dbOwner' = t
  BY DEF Begin, tables
<1>5. LockTypes'
  BY <1>1, <1>2, <1>4, ThreadsAssumption DEF LockTypes, TypeOK, Moved, MovedTo, OthersStay
<1>6. AtHand(t)' /\ OwnAtHand(t)'
  BY <1>1, <1>2, <1>4 DEF BlocksAtHand, AtHand, OwnAtHand, Moved, MovedTo, N, F
<1>7. BlocksAtHand'
  BY <1>2, <1>3, <1>6, StepRefers DEF Moved
<1>8. OpsInPlace'
  BY <1>1, <1>2 DEF OpsInPlace, Moved, MovedTo, OthersStay, N
<1>9. OneWriter' /\ Holders'
  BY <1>1, <1>2, <1>3, StepHolds DEF Moved, Places, N
<1> QED BY <1>5, <1>7, <1>8, <1>9

LEMMA BusyKeeps ==
    ASSUME LockInv, NEW t \in Threads, Busy(t)
    PROVE  LockInv'
<1> USE DEF LockInv
<1>1. th[t] \in Request /\ th[t].at = "begin"
  BY AtWork DEF Busy, At
<1>2. F(t) \in Files
  BY <1>1, NumbersInUse
<1>3. Gone(t)
  BY EndsGone DEF Busy
<1>4. InfosKept /\ (th[t].op = "write" => info'[F(t)].lock = Leaked)
  <2>1. CASE th[t].op = "write"
    BY <1>2, <2>1, InfoUnlocks DEF Busy
  <2>2. CASE th[t].op # "write"
    BY <2>2, InfosUnchanged DEF Busy
  <2> QED BY <2>1, <2>2
<1>5. UNCHANGED <<rows, fileBlocks, item, disk, pos, dbOwner, raced>> /\ ItemsKept
  BY ItemsUnchanged DEF Busy, tables
<1>6. LockTypes'
  BY <1>1, <1>3, <1>4, <1>5, IdleAt DEF LockTypes, TypeOK, Gone, OthersStay, InfosKept
<1>7. \A f \in Files : info'[f].lock # t
  BY <1>4, ThreadsAssumption DEF Holders, InfosKept
<1>8. \A n \in Numbers : item'[n] = Null \/ item'[n].lock # t
  BY <1>1, <1>5 DEF Holders
<1>9. OneWriter' /\ Holders' /\ OpsInPlace' /\ BlocksAtHand'
  BY <1>3, <1>4, <1>5, <1>7, <1>8, EndHolds
<1> QED BY <1>6, <1>9

LEMMA HaveKeeps ==
    ASSUME LockInv, NEW t \in Threads, Have(t)
    PROVE  LockInv'
<1> USE DEF LockInv
<1>1. th[t] \in Request /\ th[t].at = "have"
  BY AtWork DEF Have, At
<1>2. N(t) \in Numbers /\ item[N(t)] \in Item
  BY <1>1, ObjectAtHand DEF BlocksAtHand, AtHand
<1> DEFINE r == [item[N(t)] EXCEPT !.lock = Null]
<1>3. r \in Item /\ r.lock = Null
  BY <1>2, ItemLocked
<1>4. item' = [item EXCEPT ![N(t)] = r]
  BY <1>2 DEF Have, LockTypes, TypeOK
<1> HIDE DEF r
<1>5. InfosKept /\ ItemsKept
  BY <1>2, <1>3, <1>4, InfosUnchanged, ItemKept DEF Have
<1>6. \A n \in Numbers : item'[n] = Null \/ item'[n].lock # t
  <2>1. ItemIs(N(t), r)
    BY <1>2, <1>3, <1>4, ItemChanges
  <2> QED BY <1>2, <1>3, <2>1, ThreadsAssumption DEF ItemIs, Holders
<1>7. UNCHANGED <<rows, fileBlocks, info, disk, pos, dbOwner, raced>>
  BY DEF Have, tables
<1>8. CASE th[t].op = "read"
  <2>1. Gone(t)
    BY <1>8, EndsGone DEF Have
  <2>2. LockTypes'
    BY <1>1, <1>5, <1>7, <2>1, IdleAt, StepTyped DEF Gone
  <2>3. \A f \in Files : info'[f].lock # t
    BY <1>7, <1>8 DEF Holders
  <2>4. OneWriter' /\ Holders' /\ OpsInPlace' /\ BlocksAtHand'
    BY <1>5, <1>6, <2>1, <2>3, EndHolds
  <2> QED BY <2>2, <2>4
<1>9. CASE th[t].op # "read"
  <2>1. Moved(t, "begin")
    BY <1>1, <1>9, GoesMoves DEF Have, Places
  <2>2. LockTypes'
    BY <1>1, <1>5, <1>7, <2>1, StepTyped DEF Moved, MovedTo
  <2>3. AtHand(t)' /\ OwnAtHand(t)'
    <3>1. AtHand(t)'
      BY <1>2, <1>5, <2>1, ThreadsAssumption DEF AtHand, Moved, MovedTo, ItemsKept, Stay, N
    <3>2. OwnAtHand(t)'
      BY <1>1, <1>7, <2>1 DEF BlocksAtHand, OwnAtHand, OpsInPlace, Moved, MovedTo, N, F
    <3> QED BY <3>1, <3>2
  <2>4. BlocksAtHand'
    BY <1>5, <2>1, <2>3, StepRefers DEF Moved
  <2>5. OpsInPlace'
    BY <1>1, <1>9, <2>1 DEF OpsInPlace, Moved, MovedTo, OthersStay, N
  <2>6. OneWriter' /\ Holders'
    BY <1>1, <1>5, <1>6, <2>1, StepHolds DEF Moved, Places
  <2> QED BY <2>2, <2>4, <2>5, <2>6
<1> QED BY <1>8, <1>9

LEMMA LockObjectKeeps ==
    ASSUME LockInv, NEW t \in Threads, LockObject(t)
    PROVE  LockInv'
<1> USE DEF LockInv
<1>1. th[t] \in Request /\ th[t].at = "object"
  BY AtWork DEF LockObject, At
<1>2. N(t) \in Numbers /\ item[N(t)] \in Item
  BY <1>1, ObjectAtHand DEF BlocksAtHand, AtHand
<1>3. Moved(t, "body")
  BY <1>1, GoesMoves DEF LockObject, Places
<1>4. PICK r \in Item : ItemIs(N(t), r) /\ r.lock = t
  <2>1. item' = [item EXCEPT ![N(t)] = [item[N(t)] EXCEPT !.lock = t]]
    BY <1>2 DEF LockObject, LockTypes, TypeOK
  <2>2. [item[N(t)] EXCEPT !.lock = t] \in Item /\ [item[N(t)] EXCEPT !.lock = t].lock = t
    BY <1>2, ItemLocked
  <2> QED BY <1>2, <2>1, <2>2, ItemChanges
<1>5. UNCHANGED <<rows, fileBlocks, info, disk, pos, dbOwner, raced>>
  BY DEF LockObject, tables
<1>6. LockTypes'
  BY <1>1, <1>3, <1>4, <1>5 DEF LockTypes, TypeOK, Moved, MovedTo, OthersStay, ItemIs
<1>7. BlocksAtHand'
  <2>1. Stay
    BY <1>2, <1>4, ThreadsAssumption DEF Stay, ItemIs
  <2>2. AtHand(t)' /\ OwnAtHand(t)'
    <3>1. AtHand(t)'
      BY <1>2, <1>3, <2>1, ThreadsAssumption DEF AtHand, Moved, MovedTo, Stay, N, Numbers
    <3>2. OwnAtHand(t)'
      BY <1>1, <1>3, <1>5 DEF BlocksAtHand, OwnAtHand, OpsInPlace, Moved, MovedTo, N, F
    <3> QED BY <3>1, <3>2
  <2>3. \A u \in Threads \ {t} : AtHand(u)' /\ OwnAtHand(u)'
    BY <1>3, <1>5, <2>1, OthersRefer, OthersOwn, InfosUnchanged DEF Moved, MovedTo, OthersStay
  <2>4. \A f \in Files : Refers(f)'
    BY <1>5, <2>1, OthersRefer
  <2> QED BY <2>2, <2>3, <2>4 DEF BlocksAtHand
<1>8. OpsInPlace'
  BY <1>1, <1>2, <1>3, ThreadsAssumption DEF OpsInPlace, Moved, MovedTo, OthersStay, N, Numbers
<1>9. OneWriter'
  BY <1>1, <1>3 DEF OneWriter, Moved, MovedTo, OthersStay, F, At
<1>10. Holders'
  BY <1>1, <1>2, <1>3, <1>4, <1>5 DEF Holders, Moved, MovedTo, OthersStay, ItemIs, N, F
<1> QED BY <1>6, <1>7, <1>8, <1>9, <1>10

LEMMA CountKeeps ==
    ASSUME LockInv, NEW t \in Threads, Count(t)
    PROVE  LockInv'
<1> USE DEF LockInv
<1>1. th[t] \in Request /\ th[t].at = "count"
  BY AtWork DEF Count, At
<1>2. N(t) \in Numbers /\ item[N(t)] \in Item
  <2>1. N(t) \in Numbers
    BY <1>1, NumbersInUse DEF BlocksAtHand, AtHand
  <2> QED BY <2>1 DEF Count, LockTypes, TypeOK
<1>3. Moved(t, "counted")
  <2> DEFINE r == [th[t] EXCEPT !.at = "counted", !.use = item[N(t)].use]
  <2>1. item[N(t)].use \in Int
    BY <1>2, ItemCounted DEF Item
  <2>2. /\ r \in Request /\ r.at = "counted" /\ r.op = th[t].op
        /\ r.file = th[t].file /\ r.n = th[t].n /\ r.hash = th[t].hash
    BY <1>1, <2>1 DEF Request
  <2>3. th' = [th EXCEPT ![t] = r]
    BY DEF Count, LockTypes
  <2> HIDE DEF r
  <2> QED BY <2>2, <2>3 DEF LockTypes, Moved, MovedTo, OthersStay
<1>4. InfosKept /\ ItemsKept
  BY InfosUnchanged, ItemsUnchanged DEF Count
<1>5. UNCHANGED <<rows, fileBlocks, info, item, disk, pos, dbOwner, raced>>
  BY DEF Count, tables
<1>6. LockTypes'
  BY <1>1, <1>3, <1>5 DEF LockTypes, TypeOK, Moved, MovedTo, OthersStay
<1>7. AtHand(t)' /\ OwnAtHand(t)'
  BY <1>1, <1>2, <1>3, <1>5, ThreadsAssumption
     DEF BlocksAtHand, AtHand, OwnAtHand, Moved, MovedTo, N, F
<1>8. BlocksAtHand'
  BY <1>3, <1>4, <1>7, StepRefers DEF Moved
<1>9. OpsInPlace'
  BY <1>1, <1>3 DEF OpsInPlace, Moved, MovedTo, OthersStay, N
<1>10. OneWriter' /\ Holders'
  BY <1>1, <1>3, <1>4, StepHolds DEF Moved, Places
<1> QED BY <1>6, <1>8, <1>9, <1>10

\* _writeBlockWrapper has unlocked the block_info.
LEMMA UnlockedKeeps ==
    ASSUME LockInv, NEW t \in Threads, th[t] \in Request, Unlocked(t)
    PROVE  InfosKept /\ \A f \in Files : info'[f].lock # t
<1> USE DEF LockInv
<1>1. F(t) \in Files
  BY NumbersInUse
<1>2. CASE th[t].op = "write"
  <2>1. InfosKept /\ info'[F(t)].lock = Null
    BY <1>1, <1>2, InfoUnlocks DEF Unlocked
  <2> QED BY <2>1, ThreadsAssumption DEF Holders, InfosKept
<1>3. CASE th[t].op # "write"
  BY <1>3, InfosUnchanged DEF Unlocked, Holders
<1> QED BY <1>2, <1>3

LEMMA CountMissingKeeps ==
    ASSUME LockInv, NEW t \in Threads, CountMissing(t)
    PROVE  LockInv'
<1> USE DEF LockInv
<1>1. th[t] \in Request /\ th[t].at = "count"
  BY AtWork DEF CountMissing, At
<1>2. Gone(t)
  BY EndsGone DEF CountMissing
<1>3. InfosKept /\ \A f \in Files : info'[f].lock # t
  BY <1>1, UnlockedKeeps DEF CountMissing
<1>4. UNCHANGED <<rows, fileBlocks, item, disk, pos, dbOwner, raced>> /\ ItemsKept
  BY ItemsUnchanged DEF CountMissing, tables
<1>5. LockTypes'
  BY <1>1, <1>2, <1>3, <1>4, IdleAt DEF LockTypes, TypeOK, Gone, OthersStay, InfosKept
<1>6. \A n \in Numbers : item'[n] = Null \/ item'[n].lock # t
  BY <1>1, <1>4 DEF Holders
<1>7. OneWriter' /\ Holders' /\ OpsInPlace' /\ BlocksAtHand'
  BY <1>2, <1>3, <1>4, <1>6, EndHolds
<1> QED BY <1>5, <1>7

LEMMA CountedKeeps ==
    ASSUME LockInv, NEW t \in Threads, Counted(t)
    PROVE  LockInv'
<1> USE DEF LockInv
<1>1. th[t] \in Request /\ th[t].at = "counted"
  BY AtWork DEF Counted, At
<1>2. N(t) \in Numbers /\ item[N(t)] \in Item
  BY <1>1, ObjectAtHand DEF BlocksAtHand, AtHand
<1>3. Gone(t)
  BY EndsGone DEF Counted
<1>4. InfosKept /\ \A f \in Files : info'[f].lock # t
  BY <1>1, UnlockedKeeps DEF Counted
<1>5. ItemsKept
  <2> DEFINE u == IF th[t].op = "write" THEN th[t].use + 1 ELSE th[t].use - 1
             r == [item[N(t)] EXCEPT !.use = u]
  <2>1. u \in Int
    BY <1>1, RequestFields
  <2>2. r \in Item /\ r.lock = item[N(t)].lock
    <3> HIDE DEF u
    <3> QED BY <1>2, <2>1, ItemCounted
  <2>3. item' = [item EXCEPT ![N(t)] = r]
    BY <1>2 DEF Counted, LockTypes, TypeOK
  <2> HIDE DEF r
  <2> QED BY <1>2, <2>2, <2>3, ThreadsAssumption, ItemKept
<1>6. UNCHANGED <<rows, fileBlocks, disk, pos, dbOwner, raced>>
  BY DEF Counted, tables
<1>7. LockTypes'
  BY <1>1, <1>3, <1>4, <1>5, <1>6, IdleAt
     DEF LockTypes, TypeOK, Gone, OthersStay, InfosKept, ItemsKept
<1>8. \A n \in Numbers : item'[n] = Null \/ item'[n].lock # t
  BY <1>1, <1>5 DEF Holders, ItemsKept
<1>9. OneWriter' /\ Holders' /\ OpsInPlace' /\ BlocksAtHand'
  BY <1>3, <1>4, <1>5, <1>8, EndHolds
<1> QED BY <1>7, <1>9

\* The end of a transaction, whatever it did.  Nobody else writes to the file.
LEMMA CommitKeeps ==
    ASSUME LockInv, NEW t \in Threads, th[t] \in Request, th[t].at = "body",
           NEW p \in {"count", "place"}, NEW m \in Numbers, NEW x \in Hashes \cup {Null},
           Commits(t, x, m, p),
           rows' \in Seq(Hashes), Len(rows') =< MaxRows,
           \A i, j \in DOMAIN rows' : rows'[i] = rows'[j] => i = j,
           NEW r \in Info, InfoIs(F(t), r), r.lock \in {Null, info[F(t)].lock},
           x # Null => r.num # 0,
           r.ref => r.num # 0 /\ item'[r.num] # Null,
           p = "place" => th[t].op = "write" /\ r.num = m,
           ItemsKept, \A n \in Numbers : item'[n] = Null \/ item'[n].lock # t
    PROVE  LockInv'
<1> USE DEF LockInv
<1>1. MovedTo(t, p, m)
  BY CommitsMoves, ThreadsAssumption DEF Places, Numbers
<1>2. /\ F(t) \in Files /\ th[t].op # "read"
      /\ fileBlocks' = [fileBlocks EXCEPT ![F(t)] = x] /\ dbOwner' = Null
      /\ raced' \subseteq raced \cup {"count"} /\ UNCHANGED <<disk, pos>>
  BY NumbersInUse DEF Commits, OpsInPlace
<1>3. LockTypes'
  <2>1. TypeOK'
    <3>1. rows' \in Seq(Hashes) /\ fileBlocks' \in [Files -> Hashes \cup {Null}]
      BY <1>2 DEF LockTypes, TypeOK
    <3>2. info' \in [Files -> Info] /\ item' \in [Numbers -> Item \cup {Null}]
      BY DEF InfoIs, ItemsKept
    <3>3. pos' \in 0..(MaxRows + 1) /\ raced' \subseteq {"count", "seek"}
      BY <1>2 DEF LockTypes, TypeOK
    <3>4. \A u \in Threads : th'[u] = Idle \/ th'[u] \in Request
      BY <1>1 DEF MovedTo, OthersStay
    <3>5. \A u \in Threads : dbOwner' = u <=> th'[u].at \in {"object", "body"}
      BY <1>1, <1>2, ThreadsAssumption DEF LockTypes, TypeOK, MovedTo, OthersStay
    <3> QED BY <3>1, <3>2, <3>3, <3>4, <3>5 DEF TypeOK
  <2>2. \A f \in Files : fileBlocks'[f] # Null => info'[f].num # 0
    BY <1>2 DEF LockTypes, TypeOK, InfoIs
  <2> QED BY <1>1, <1>2, <2>1, <2>2 DEF LockTypes, MovedTo, OthersStay
<1>4. BlocksAtHand'
  <2>1. \A f \in Files : f = F(t) => Refers(f)'
    BY <1>2 DEF InfoIs, Refers
  <2>2. \A f \in Files \ {F(t)} : Refers(f)'
    BY OthersRefer DEF InfoIs, ItemsKept
  <2>3. AtHand(t)' /\ OwnAtHand(t)'
    <3>1. AtHand(t)'
      BY <1>1, ThreadsAssumption DEF AtHand, MovedTo, N, Numbers
    <3>2. OwnAtHand(t)'
      BY <1>1, <1>2 DEF OwnAtHand, MovedTo, InfoIs, N, F
    <3> QED BY <3>1, <3>2
  <2>4. \A u \in Threads \ {t} : AtHand(u)'
    BY <1>1, OthersRefer DEF MovedTo, OthersStay, ItemsKept
  <2>5. \A u \in Threads \ {t} : OwnAtHand(u)'
    <3> SUFFICES ASSUME NEW u \in Threads \ {t}, th[u].at # "idle", th[u].op # "read"
                 PROVE  OwnAtHand(u)'
      BY <1>1 DEF OwnAtHand, MovedTo, OthersStay
    <3>1. F(u) \in Files \ {F(t)}
      BY <1>2, AtWork, NumbersInUse DEF OneWriter, At
    <3>2. /\ th'[u].at = th[u].at /\ th'[u].op = th[u].op
          /\ N(u)' = N(u) /\ F(u)' = F(u) /\ info'[F(u)] = info[F(u)]
      BY <1>1, <3>1 DEF MovedTo, OthersStay, InfoIs, N, F
    <3>3. OwnAtHand(u) /\ info'[F(u)'] = info[F(u)]
      BY <3>2 DEF BlocksAtHand
    <3> QED BY <3>2, <3>3 DEF OwnAtHand
  <2> QED BY <2>1, <2>2, <2>3, <2>4, <2>5, <1>2 DEF BlocksAtHand
<1>5. OpsInPlace'
  BY <1>1 DEF OpsInPlace, MovedTo, OthersStay, N
<1>6. OneWriter' /\ Holders'
  <2>1. InfoLocksKept
    BY <1>2, ThreadsAssumption DEF InfoLocksKept, InfoIs
  <2> QED BY <1>1, <2>1, MoveHolds DEF Places
<1> QED BY <1>3, <1>4, <1>5, <1>6

\* sblock->lock is held no longer.
LEMMA ObjectLeft ==
    ASSUME LockInv, NEW t \in Threads, th[t] \in Request, th[t].at = "body", N(t) # 0,
           NEW r \in Item, r.lock = Null, item' = [item EXCEPT ![N(t)] = r]
    PROVE  ItemsKept /\ \A n \in Numbers : item'[n] = Null \/ item'[n].lock # t
<1> USE DEF LockInv
<1>1. N(t) \in Numbers
  BY NumbersInUse
<1>2. ItemsKept /\ ItemIs(N(t), r)
  BY <1>1, ItemKept, ItemChanges
<1> QED BY <1>1, <1>2, ThreadsAssumption DEF ItemIs, Holders

LEMMA LeavesObjectKeeps ==
    ASSUME LockInv, NEW t \in Threads, th[t] \in Request, th[t].at = "body", LeavesObject(t)
    PROVE  ItemsKept /\ \A n \in Numbers : item'[n] = Null \/ item'[n].lock # t
<1> USE DEF LockInv
<1>1. CASE N(t) = 0
  <2>1. \A n \in Numbers : N(t) # n
    BY <1>1, ThreadsAssumption DEF Numbers
  <2> QED BY <1>1, <2>1, ItemsUnchanged DEF LeavesObject, Holders
<1>2. CASE N(t) # 0
  <2>1. N(t) \in Numbers /\ item[N(t)] \in Item
    BY <1>2, ObjectAtHand
  <2> DEFINE r == [item[N(t)] EXCEPT !.use = @ - 1, !.lock = Null]
  <2>2. r \in Item /\ r.lock = Null
    BY <2>1, ItemLeft
  <2>3. item' = [item EXCEPT ![N(t)] = r]
    BY <1>2, <2>1 DEF LeavesObject, LockTypes, TypeOK
  <2> HIDE DEF r
  <2> QED BY <1>2, <2>2, <2>3, ObjectLeft
<1> QED BY <1>1, <1>2

\* The rows of a transaction that changes none.
LEMMA RowsTyped ==
    ASSUME LockInv, UNCHANGED rows
    PROVE  /\ rows' \in Seq(Hashes) /\ Len(rows') =< MaxRows
           /\ \A i, j \in DOMAIN rows' : rows'[i] = rows'[j] => i = j
  BY DEF LockInv, LockTypes, TypeOK

LEMMA ReplacePresentKeeps ==
    ASSUME LockInv, NEW t \in Threads, ReplacePresent(t)
    PROVE  LockInv'
<1> USE DEF LockInv
<1>1. th[t] \in Request /\ th[t].at = "body" /\ th[t].op = "write"
  BY AtWork DEF ReplacePresent, At
<1> DEFINE m == IdOf(th[t].hash)
           r == [info[F(t)] EXCEPT !.num = m, !.ref = FALSE]
<1>2. m \in Numbers
  <2>1. m \in DOMAIN rows
    BY DEF ReplacePresent, Known, IdOf
  <2>2. DOMAIN rows = 1..Len(rows) /\ Len(rows) \in Nat /\ Len(rows) =< MaxRows
    BY DEF LockTypes, TypeOK
  <2> HIDE DEF m
  <2> QED BY <2>1, <2>2, ThreadsAssumption DEF Numbers
<1>3. Commits(t, th[t].hash, m, "count")
  BY DEF ReplacePresent
<1>4. th[t].hash \in Hashes \cup {Null}
  BY <1>1, RequestFields
<1>5. info' = [info EXCEPT ![F(t)] = r] /\ UNCHANGED rows
  BY DEF ReplacePresent, LockTypes, TypeOK
<1> HIDE DEF m
<1>6. F(t) \in Files /\ info[F(t)] \in Info /\ m # 0 /\ m \in 0..MaxRows
  BY <1>1, <1>2, NumbersInUse, ThreadsAssumption DEF Numbers
<1>7. r \in Info /\ r.num = m /\ r.ref = FALSE /\ r.lock = info[F(t)].lock
  BY <1>6, InfoNumbered
<1> HIDE DEF r
<1>8. InfoIs(F(t), r)
  BY <1>5, <1>6, <1>7, InfoChanges
<1>9. ItemsKept /\ \A n \in Numbers : item'[n] = Null \/ item'[n].lock # t
  BY <1>1, LeavesObjectKeeps DEF ReplacePresent
<1> QED BY <1>1, <1>2, <1>3, <1>4, <1>5, <1>6, <1>7, <1>8, <1>9, RowsTyped, CommitKeeps

LEMMA ReplaceInsertKeeps ==
    ASSUME LockInv, NEW t \in Threads, ReplaceInsert(t)
    PROVE  LockInv'
<1> USE DEF LockInv
<1>1. th[t] \in Request /\ th[t].at = "body" /\ th[t].op = "write"
  BY AtWork DEF ReplaceInsert, At
<1> DEFINE m == Len(rows) + 1
           r == [info[F(t)] EXCEPT !.num = m, !.ref = FALSE]
<1>2. m \in Numbers
  BY ThreadsAssumption DEF ReplaceInsert, LockTypes, TypeOK, Numbers
<1>3. Commits(t, th[t].hash, m, "place")
  BY DEF ReplaceInsert
<1>4. th[t].hash \in Hashes
  BY <1>1 DEF OpsInPlace
<1>5. /\ info' = [info EXCEPT ![F(t)] = r]
      /\ rows' = Append(rows, th[t].hash) /\ Len(rows) < MaxRows /\ ~Known(th[t].hash)
  BY DEF ReplaceInsert, LockTypes, TypeOK
<1>6. /\ rows' \in Seq(Hashes) /\ Len(rows') =< MaxRows
      /\ \A i, j \in DOMAIN rows' : rows'[i] = rows'[j] => i = j
  <2>1. \A i \in DOMAIN rows : rows[i] # th[t].hash
    BY <1>5 DEF Known
  <2> QED BY <1>4, <1>5, <2>1, ThreadsAssumption DEF LockTypes, TypeOK
<1> HIDE DEF m
<1>7. F(t) \in Files /\ info[F(t)] \in Info /\ m # 0 /\ m \in 0..MaxRows
  BY <1>1, <1>2, NumbersInUse, ThreadsAssumption DEF Numbers
<1>8. r \in Info /\ r.num = m /\ r.ref = FALSE /\ r.lock = info[F(t)].lock
  BY <1>7, InfoNumbered
<1> HIDE DEF r
<1>9. InfoIs(F(t), r)
  BY <1>5, <1>7, <1>8, InfoChanges
<1>10. ItemsKept /\ \A n \in Numbers : item'[n] = Null \/ item'[n].lock # t
  BY <1>1, LeavesObjectKeeps DEF ReplaceInsert
<1> QED BY <1>1, <1>2, <1>3, <1>4, <1>6, <1>7, <1>8, <1>9, <1>10, CommitKeeps

LEMMA ReplaceInPlaceKeeps ==
    ASSUME LockInv, NEW t \in Threads, ReplaceInPlace(t)
    PROVE  LockInv'
<1> USE DEF LockInv
<1>1. th[t] \in Request /\ th[t].at = "body" /\ th[t].op = "write" /\ N(t) # 0
  BY AtWork DEF ReplaceInPlace, InPlaceAllowed, At
<1>2. N(t) \in Numbers /\ item[N(t)] \in Item /\ F(t) \in Files /\ info[F(t)] \in Info
  BY <1>1, ObjectAtHand, NumbersInUse
<1>3. Commits(t, th[t].hash, N(t), "place")
  BY DEF ReplaceInPlace
<1>4. th[t].hash \in Hashes
  BY <1>1 DEF OpsInPlace
<1>5. /\ rows' = [rows EXCEPT ![N(t)] = th[t].hash] /\ ~Known(th[t].hash) /\ UNCHANGED info
      /\ item' = [item EXCEPT ![N(t)].lock = Null]
  BY DEF ReplaceInPlace
<1>6. /\ rows' \in Seq(Hashes) /\ Len(rows') =< MaxRows
      /\ \A i, j \in DOMAIN rows' : rows'[i] = rows'[j] => i = j
  <2>1. \A i \in DOMAIN rows : rows[i] # th[t].hash
    BY <1>5 DEF Known
  <2>2. CASE N(t) \in 1..Len(rows)
    <3>1. /\ rows' \in Seq(Hashes) /\ Len(rows') = Len(rows)
          /\ \A j \in 1..Len(rows) : rows'[j] = IF j = N(t) THEN th[t].hash ELSE rows[j]
      BY <1>4, <1>5, <2>2, ExceptSeq DEF LockTypes, TypeOK
    <3>2. DOMAIN rows = 1..Len(rows) /\ DOMAIN rows' = 1..Len(rows)
      BY <3>1 DEF LockTypes, TypeOK
    <3>3. \A i, j \in DOMAIN rows : rows[i] = rows[j] => i = j
      BY DEF LockTypes, TypeOK
    <3>4. \A i, j \in DOMAIN rows' : rows'[i] = rows'[j] => i = j
      BY <2>1, <3>1, <3>2, <3>3
    <3> QED BY <3>1, <3>4 DEF LockTypes
  <2>3. CASE N(t) \notin 1..Len(rows)
    <3>1. rows' = rows
      BY <1>5, <2>3 DEF LockTypes, TypeOK
    <3> QED BY <3>1, RowsTyped
  <2> QED BY <2>2, <2>3
<1> DEFINE r == info[F(t)]
<1>7. InfoIs(F(t), r) /\ r.num = N(t)
  BY <1>1, <1>2, <1>5 DEF InfoIs, LockTypes, TypeOK, BlocksAtHand, OwnAtHand
<1>8. ItemsKept /\ \A n \in Numbers : item'[n] = Null \/ item'[n].lock # t
  <2> DEFINE s == [item[N(t)] EXCEPT !.lock = Null]
  <2>1. s \in Item /\ s.lock = Null
    BY <1>2, ItemLocked
  <2>2. item' = [item EXCEPT ![N(t)] = s]
    BY <1>2, <1>5 DEF LockTypes, TypeOK
  <2> HIDE DEF s
  <2> QED BY <1>1, <2>1, <2>2, ObjectLeft
<1>9. r.ref => r.num # 0 /\ item'[r.num] # Null
  BY <1>1, <1>2, <1>7, <1>8 DEF BlocksAtHand, Refers, ItemsKept, Stay
<1>10. r \in Info /\ r.lock = info[F(t)].lock
  BY <1>2
<1> HIDE DEF r
<1> QED BY <1>1, <1>2, <1>3, <1>4, <1>6, <1>7, <1>8, <1>9, <1>10, CommitKeeps

LEMMA ReleaseKeeps ==
    ASSUME LockInv, NEW t \in Threads, Release(t)
    PROVE  LockInv'
<1> USE DEF LockInv
<1>1. th[t] \in Request /\ th[t].at = "body" /\ th[t].op = "truncate"
  BY AtWork DEF Release, At
<1>2. F(t) \in Files /\ info[F(t)].num \in Numbers
  BY <1>1, NumbersInUse DEF BlocksAtHand, OwnAtHand
<1>3. Commits(t, Null, info[F(t)].num, "count") /\ UNCHANGED <<rows, item>>
  BY DEF Release
<1>4. Empty \in Info /\ Empty.lock = Null /\ Empty.ref = FALSE
  BY ThreadsAssumption DEF Empty, Info
<1>5. InfoIs(F(t), Empty)
  BY <1>2, <1>4, InfoChanges DEF Release
<1>6. ItemsKept /\ \A n \in Numbers : item'[n] = Null \/ item'[n].lock # t
  <2>1. N(t) = 0 /\ \A n \in Numbers : n # 0
    BY <1>1, ThreadsAssumption DEF OpsInPlace, Numbers
  <2> QED BY <1>3, <2>1, ItemsUnchanged DEF Holders
<1> QED BY <1>1, <1>2, <1>3, <1>4, <1>5, <1>6, RowsTyped, CommitKeeps

LEMMA PlaceKeeps ==
    ASSUME LockInv, NEW t \in Threads, Place(t)
    PROVE  LockInv'
<1> USE DEF LockInv
<1>1. th[t] \in Request /\ th[t].at = "place"
  BY AtWork DEF Place, At
<1>2. F(t) \in Files /\ info[F(t)] \in Info /\ N(t) \in Numbers /\ N(t) # 0 /\ info[F(t)].num = N(t)
  BY <1>1, NumbersInUse DEF BlocksAtHand, AtHand, OwnAtHand, OpsInPlace
<1>3. Gone(t)
  BY EndsGone DEF Place
<1> DEFINE i == [use |-> 1, data |-> th[t].hash, lock |-> Null]
           r == [info[F(t)] EXCEPT !.ref = TRUE, !.lock = Null]
<1>4. i \in Item /\ i.lock = Null
  BY <1>1, RequestFields, ItemNew DEF Contents
<1>5. r \in Info /\ r.num = N(t) /\ r.ref = TRUE /\ r.lock = Null
  BY <1>2 DEF Info
<1>6. /\ item' = [item EXCEPT ![N(t)] = i]
      /\ info' = [info EXCEPT ![F(t)] = r]
      /\ UNCHANGED <<rows, fileBlocks, disk, pos, dbOwner, raced>>
  BY DEF Place, LockTypes, TypeOK, tables
<1> HIDE DEF i, r
<1>7. ItemsKept /\ ItemIs(N(t), i)
  BY <1>2, <1>4, <1>6, ItemKept, ItemChanges
<1>8. InfoIs(F(t), r)
  BY <1>2, <1>5, <1>6, InfoChanges
<1>9. LockTypes'
  <2>1. TypeOK'
    BY <1>1, <1>3, <1>6, <1>7, <1>8, IdleAt
       DEF LockTypes, TypeOK, Gone, OthersStay, InfoIs, ItemsKept
  <2>2. \A f \in Files : fileBlocks'[f] # Null => info'[f].num # 0
    BY <1>2, <1>5, <1>6, <1>8 DEF LockTypes, InfoIs
  <2> QED BY <1>3, <1>6, <2>1, <2>2 DEF LockTypes, Gone, OthersStay
<1>10. BlocksAtHand'
  <2>1. \A f \in Files : f = F(t) => Refers(f)'
    BY <1>2, <1>4, <1>5, <1>7, <1>8, ThreadsAssumption DEF InfoIs, ItemIs, Refers
  <2>2. \A f \in Files \ {F(t)} : Refers(f)'
    BY <1>7, <1>8, OthersRefer DEF InfoIs, ItemsKept
  <2>3. AtHand(t)' /\ OwnAtHand(t)'
    BY <1>3, IdleAt DEF Gone, AtHand, OwnAtHand
  <2>4. \A u \in Threads \ {t} : AtHand(u)'
    BY <1>3, <1>7, OthersRefer DEF Gone, OthersStay, ItemsKept
  <2>5. \A f \in Files : info'[f].num = info[f].num
    BY <1>2, <1>5, <1>8 DEF InfoIs
  <2>6. \A u \in Threads \ {t} : OwnAtHand(u)'
    BY <1>3, <2>5, AtWork, NumbersInUse DEF BlocksAtHand, OwnAtHand, Gone, OthersStay, N, F
  <2> QED BY <2>1, <2>2, <2>3, <2>4, <2>6 DEF BlocksAtHand
<1>11. OpsInPlace'
  BY <1>3, IdleAt DEF OpsInPlace, Gone, OthersStay, N
<1>12. OneWriter'
  BY <1>3, IdleAt DEF OneWriter, Gone, OthersStay, F, At
<1>13. Holders'
  <2>1. \A f \in Files, u \in Threads : info'[f].lock = u => info[f].lock = u /\ u # t
    BY <1>2, <1>5, <1>8, ThreadsAssumption DEF InfoIs, Holders
  <2>2. \A n \in Numbers, u \in Threads : item'[n] # Null /\ item'[n].lock = u
                                       => item[n] # Null /\ item[n].lock = u /\ u # t
    BY <1>1, <1>7 DEF ItemsKept, Holders
  <2> QED BY <1>3, <2>1, <2>2 DEF Holders, Gone, OthersStay, N, F
<1> QED BY <1>9, <1>10, <1>11, <1>12, <1>13

\* A request begins: the inode lets no other write in.
LEMMA BeginsKeeps ==
    ASSUME LockInv, NEW t \in Threads, NEW op \in {"read", "write", "truncate"}, NEW f \in Files,
           NEW x \in Hashes \cup {Null}, NEW part \in BOOLEAN, NEW p \in {"info", "begin"},
           Begins(t, op, f, x, part, p), op = "read" \/ Alone(f),
           p = "begin" <=> op = "truncate", op = "write" => x \in Hashes,
           op = "truncate" => fileBlocks[f] # Null
    PROVE  LockInv'
<1> USE DEF LockInv
<1> DEFINE r == [op |-> op, at |-> p, file |-> f, hash |-> x, n |-> 0,
                 part |-> part, use |-> 0, changed |-> FALSE]
<1>1. /\ r \in Request /\ r.at = p /\ r.op = op /\ r.file = f /\ r.n = 0 /\ r.hash = x
  BY ThreadsAssumption DEF Request
<1>2. th' = [th EXCEPT ![t] = r] /\ th[t].at = "idle"
      /\ UNCHANGED <<rows, fileBlocks, info, item, disk, pos, dbOwner, raced>>
  BY DEF Begins, At, tables
<1> HIDE DEF r
<1>3. /\ th' \in [Threads -> Request \cup {Idle}] /\ th'[t] = r
      /\ \A u \in Threads \ {t} : th'[u] = th[u]
  BY <1>1, <1>2 DEF LockTypes
<1>4. LockTypes'
  BY <1>1, <1>2, <1>3 DEF LockTypes, TypeOK
<1>5. BlocksAtHand'
  <2>1. \A g \in Files : Refers(g)'
    BY <1>2 DEF BlocksAtHand, Refers
  <2>2. AtHand(t)' /\ OwnAtHand(t)'
    BY <1>1, <1>2, <1>3 DEF AtHand, OwnAtHand, LockTypes, N, F
  <2>3. \A u \in Threads \ {t} : AtHand(u)' /\ OwnAtHand(u)'
    BY <1>2, <1>3 DEF BlocksAtHand, AtHand, OwnAtHand, N, F
  <2> QED BY <2>1, <2>2, <2>3 DEF BlocksAtHand
<1>6. OpsInPlace'
  BY <1>1, <1>3 DEF OpsInPlace, N
<1>7. OneWriter'
  BY <1>1, <1>2, <1>3 DEF OneWriter, Alone, InHand, F, At
<1>8. Holders'
  BY <1>2, <1>3 DEF Holders, N, F
<1> QED BY <1>4, <1>5, <1>6, <1>7, <1>8

\* _getLockedFileBlock finds, places or makes do without the object.
LEMMA LockInfoKeeps ==
    ASSUME LockInv, NEW t \in Threads, LockInfo(t)
    PROVE  LockInv'
<1> USE DEF LockInv
<1>1. th[t] \in Request /\ th[t].at = "info" /\ th[t].op # "truncate"
  BY AtWork DEF LockInfo, At, OpsInPlace
<1> DEFINE i == info[F(t)]
           has == HasObject(i)
           l == IF th[t].op = "read" THEN Null ELSE t
           r == [i EXCEPT !.ref = has, !.lock = l]
<1>2. F(t) \in Files /\ i \in Info /\ (i.num # 0 => i.num \in Numbers)
  BY <1>1, NumbersInUse
<1>3. has \in BOOLEAN /\ l \in Threads \cup {Null, Leaked}
  BY <1>2 DEF HasObject, Found, Info
<1>4. info' = [info EXCEPT ![F(t)] = r] /\ item' = PlacedItem(i)
  BY DEF LockInfo, LockTypes, TypeOK
<1>5. r \in Info /\ r.num = i.num /\ r.ref = has /\ r.lock = l
  <2> HIDE DEF has, l, i
  <2> QED BY <1>2, <1>3 DEF Info
<1>6. InfoIs(F(t), r)
  <2> HIDE DEF r
  <2> QED BY <1>2, <1>4, <1>5, InfoChanges
<1>7. ItemsKept /\ (has => i.num \in Numbers /\ item'[i.num] # Null)
  <2>1. CASE Found(i) /\ item[i.num] = Null
    <3> DEFINE o == [use |-> 0, data |-> Null, lock |-> Null]
    <3>1. o \in Item /\ o.lock = Null
      BY ItemNew DEF Contents
    <3>2. i.num \in Numbers
      BY <1>1, <1>2, <2>1 DEF Found, BlocksAtHand, Refers
    <3>3. item' = [item EXCEPT ![i.num] = o]
      BY <1>4, <2>1 DEF PlacedItem
    <3> HIDE DEF o, i
    <3>4. ItemsKept /\ ItemIs(i.num, o)
      BY <3>1, <3>2, <3>3, ItemKept, ItemChanges
    <3> QED BY <3>1, <3>2, <3>4, ThreadsAssumption DEF ItemIs
  <2>2. CASE ~(Found(i) /\ item[i.num] = Null)
    <3>1. item' = item
      BY <1>4, <2>2 DEF PlacedItem
    <3>2. has => i.num # 0 /\ item[i.num] # Null
      BY <1>2, <2>2 DEF HasObject, Found, BlocksAtHand, Refers
    <3> QED BY <1>2, <3>1, <3>2, ItemsUnchanged
  <2> QED BY <2>1, <2>2
<1>8. UNCHANGED <<rows, fileBlocks, disk, pos, dbOwner, raced>>
  BY DEF LockInfo, tables
<1>9. \A n \in Numbers : item'[n] = Null \/ item'[n].lock # t
  BY <1>1, <1>7 DEF ItemsKept, Holders
<1>10. \A f \in Files, u \in Threads :
          info'[f].lock = u => IF u = t THEN f = F(t) /\ th[t].op # "read" ELSE info[f].lock = u
  <2>1. r.lock = IF th[t].op = "read" THEN Null ELSE t
    BY <1>5
  <2> HIDE DEF r
  <2> QED BY <1>1, <1>2, <1>6, <2>1, ThreadsAssumption DEF InfoIs, Holders
<1>11. \A f \in Files : info'[f].num = info[f].num
  <2> HIDE DEF r
  <2> QED BY <1>2, <1>5, <1>6 DEF InfoIs
<1>12. \A f \in Files : Refers(f)'
  <2>1. \A f \in Files : f = F(t) => Refers(f)'
    <3> HIDE DEF r, has
    <3>1. info'[F(t)].ref => info'[F(t)].num # 0 /\ item'[info'[F(t)].num] # Null
      BY <1>2, <1>5, <1>6, <1>7, ThreadsAssumption DEF InfoIs, Numbers
    <3> QED BY <3>1 DEF Refers
  <2>2. \A f \in Files \ {F(t)} : Refers(f)'
    BY <1>6, <1>7, OthersRefer DEF InfoIs, ItemsKept
  <2> QED BY <2>1, <2>2
<1>13. ASSUME OthersStay(t)
       PROVE  \A u \in Threads \ {t} : AtHand(u)' /\ OwnAtHand(u)'
  <2>1. \A u \in Threads \ {t} : AtHand(u)'
    BY <1>7, <1>13, OthersRefer DEF OthersStay, ItemsKept
  <2>2. \A u \in Threads \ {t} : OwnAtHand(u)'
    BY <1>11, <1>13, AtWork, NumbersInUse DEF BlocksAtHand, OwnAtHand, OthersStay, N, F
  <2> QED BY <2>1, <2>2
<1>14. ASSUME OthersStay(t), th'[t].at \notin {"object", "body"} PROVE LockTypes'
  <2>1. TypeOK'
    BY <1>1, <1>6, <1>7, <1>8, <1>14 DEF LockTypes, TypeOK, OthersStay, InfoIs, ItemsKept
  <2>2. \A f \in Files : fileBlocks'[f] # Null => info'[f].num # 0
    BY <1>8, <1>11 DEF LockTypes
  <2> QED BY <1>8, <1>14, <2>1, <2>2 DEF LockTypes, OthersStay
<1>15. CASE th[t].op = "read" /\ ~has
  <2>1. Gone(t)
    BY <1>15 DEF LockInfo, LockTypes, Gone, OthersStay
  <2>2. LockTypes'
    BY <1>14, <2>1, IdleAt DEF Gone
  <2>3. BlocksAtHand'
    BY <1>12, <1>13, <2>1, IdleAt DEF BlocksAtHand, AtHand, OwnAtHand, Gone
  <2>4. OpsInPlace'
    BY <2>1, IdleAt DEF OpsInPlace, Gone, OthersStay, N
  <2>5. OneWriter'
    BY <2>1, IdleAt DEF OneWriter, Gone, OthersStay, F, At
  <2>6. Holders'
    BY <1>7, <1>9, <1>10, <1>15, <2>1 DEF Holders, Gone, OthersStay, ItemsKept, N, F
  <2> QED BY <2>2, <2>3, <2>4, <2>5, <2>6
<1>16. CASE ~(th[t].op = "read" /\ ~has)
  <2> DEFINE m == IF has THEN i.num ELSE 0
             p == IF th[t].op = "read" \/ (th[t].part /\ has) THEN "item" ELSE "begin"
  <2>1. m \in 0..MaxRows /\ p \in Places /\ (m # 0 => m = i.num /\ item'[m] # Null)
        /\ (p = "item" => m # 0) /\ (p = "begin" => th[t].op = "write")
        /\ p \in {"item", "begin"}
    BY <1>1, <1>2, <1>7, <1>16, RequestFields, ThreadsAssumption DEF Places, Numbers
  <2>2. th' = [th EXCEPT ![t] = [th[t] EXCEPT !.n = m, !.part = FALSE, !.at = p]]
    BY <1>16 DEF LockInfo
  <2> HIDE DEF m, p
  <2>3. MovedTo(t, p, m)
    <3> DEFINE q == [th[t] EXCEPT !.n = m, !.part = FALSE, !.at = p]
    <3>1. /\ q \in Request /\ q.at = p /\ q.op = th[t].op
          /\ q.file = th[t].file /\ q.n = m /\ q.hash = th[t].hash
      BY <1>1, <2>1 DEF Request, Places
    <3>2. th' = [th EXCEPT ![t] = q]
      BY <2>2
    <3> HIDE DEF q
    <3> QED BY <3>1, <3>2 DEF LockTypes, MovedTo, OthersStay
  <2>4. LockTypes'
    BY <1>14, <2>1, <2>3 DEF MovedTo
  <2>5. BlocksAtHand'
    <3>1. AtHand(t)'
      BY <2>1, <2>3 DEF AtHand, MovedTo, N
    <3>2. OwnAtHand(t)'
      BY <1>1, <1>2, <1>11, <2>1, <2>3 DEF OwnAtHand, MovedTo, N, F
    <3> QED BY <1>12, <1>13, <2>3, <3>1, <3>2 DEF BlocksAtHand, MovedTo
  <2>6. OpsInPlace'
    BY <1>1, <2>1, <2>3 DEF OpsInPlace, MovedTo, OthersStay, N
  <2>7. OneWriter'
    BY <1>1, <2>3 DEF OneWriter, MovedTo, OthersStay, F, At
  <2>8. Holders'
    <3>1. \A f \in Files, u \in Threads :
             info'[f].lock = u => th'[u].at \notin {"idle", "info"} /\ th'[u].op = "write" /\ F(u)' = f
      BY <1>1, <1>10, <2>1, <2>3, RequestFields DEF Holders, MovedTo, OthersStay, F
    <3>2. \A n \in Numbers, u \in Threads :
             item'[n] # Null /\ item'[n].lock = u
                => th'[u].at \in {"seek", "fetch", "have", "body"} /\ N(u)' = n
      BY <1>7, <1>9, <2>3 DEF Holders, MovedTo, OthersStay, ItemsKept, N
    <3> QED BY <3>1, <3>2 DEF Holders
  <2> QED BY <2>4, <2>5, <2>6, <2>7, <2>8
<1> QED BY <1>15, <1>16

LEMMA LockInit == Init => LockInv
<1> SUFFICES ASSUME Init PROVE LockInv
  OBVIOUS
<1> DEFINE all == {fileBlocks[f] : f \in Files}
           used == all \ {Null}
           c == Cardinality(used)
<1>1. fileBlocks \in [Files -> Hashes \cup {Null}]
  BY DEF Init
<1>2. IsFiniteSet(used) /\ c \in Nat /\ c =< MaxRows /\ used \subseteq Hashes
  <2>1. fileBlocks \in Surjection(Files, all)
    BY <1>1 DEF Surjection
  <2>2. IsFiniteSet(all)
    BY <2>1, FS_Surjection, ThreadsAssumption
  <2> HIDE DEF all
  <2>3. IsFiniteSet(used)
    BY <2>2, FS_Subset
  <2>4. c =< MaxRows
    BY DEF Init, all
  <2>5. used \subseteq Hashes
    BY <1>1 DEF all
  <2> QED BY <2>3, <2>4, <2>5, FS_CardinalityType
<1>3. rows \in [1..c -> used] /\ \A x \in used : \E i \in DOMAIN rows : rows[i] = x
  BY DEF Init
<1> HIDE DEF used, c
<1>4. \A i, j \in DOMAIN rows : rows[i] = rows[j] => i = j
  <2>1. IsFiniteSet(1..c) /\ Cardinality(1..c) = c
    BY <1>2, FS_Interval
  <2>2. rows \in Surjection(1..c, used)
    BY <1>3 DEF Surjection
  <2>3. rows \in Injection(1..c, used)
    BY <1>2, <2>1, <2>2, FS_Surjection DEF c
  <2> QED BY <1>3, <2>3 DEF Injection, IsInjective
<1>5. rows \in Seq(Hashes) /\ Len(rows) = c /\ DOMAIN rows = 1..c /\ 1..c \subseteq Numbers
  BY <1>2, <1>3, ThreadsAssumption DEF Numbers
<1>6. /\ item \in [Numbers -> Item \cup {Null}]
      /\ \A n \in Numbers :
            /\ item[n] # Null => item[n].lock = Null
            /\ n \in DOMAIN rows => item[n] # Null
  <2> DEFINE i(n) == [use |-> Cardinality(Users(n)), data |-> Null, lock |-> Null]
  <2>1. \A n : i(n) \in Item /\ i(n).lock = Null
    <3> SUFFICES ASSUME NEW n PROVE i(n) \in Item /\ i(n).lock = Null
      OBVIOUS
    <3>1. Cardinality(Users(n)) \in Int
      BY FS_Subset, FS_CardinalityType, ThreadsAssumption DEF Users
    <3> QED BY <3>1 DEF Item, Contents
  <2>2. item = [n \in Numbers |-> IF n \in DOMAIN rows THEN i(n) ELSE Null]
    BY DEF Init
  <2> HIDE DEF i
  <2> QED BY <2>1, <2>2, ThreadsAssumption
<1>7. /\ info \in [Files -> Info]
      /\ \A f \in Files :
            /\ info[f].lock = Null
            /\ info[f].ref => info[f].num # 0 /\ item[info[f].num] # Null
            /\ fileBlocks[f] # Null => info[f].num # 0
  <2> DEFINE m(f) == CHOOSE n \in DOMAIN rows : rows[n] = fileBlocks[f]
             r(f) == [num |-> m(f), ref |-> TRUE, empty |-> FALSE, lock |-> Null]
             i(f) == IF fileBlocks[f] = Null THEN Empty ELSE r(f)
  <2>1. info = [f \in Files |-> i(f)]
    BY DEF Init
  <2>2. \A f \in Files : fileBlocks[f] # Null => m(f) \in DOMAIN rows
    BY <1>3 DEF used
  <2>3. Empty \in Info /\ Empty.lock = Null /\ Empty.ref = FALSE
    BY ThreadsAssumption DEF Empty, Info
  <2>4. \A n \in DOMAIN rows : n \in Numbers /\ n # 0 /\ n \in 0..MaxRows /\ item[n] # Null
    BY <1>2, <1>5, <1>6, ThreadsAssumption DEF Numbers
  <2> HIDE DEF m
  <2>5. \A f \in Files : fileBlocks[f] # Null
                         => /\ r(f) \in Info /\ r(f).lock = Null
                            /\ r(f).num # 0 /\ item[r(f).num] # Null
    BY <2>2, <2>4 DEF Info
  <2> HIDE DEF r
  <2>6. \A f \in Files : /\ i(f) \in Info /\ i(f).lock = Null
                         /\ i(f).ref => i(f).num # 0 /\ item[i(f).num] # Null
                         /\ fileBlocks[f] # Null => i(f).num # 0
    BY <2>3, <2>5
  <2> HIDE DEF i
  <2> QED BY <2>1, <2>6
<1>8. \A t \in Threads : th[t] = Idle /\ th[t].at = "idle"
  BY IdleAt DEF Init
<1>9. TypeOK
  <2>1. pos \in 0..(MaxRows + 1) /\ raced = {} /\ dbOwner = Null
    BY ThreadsAssumption DEF Init
  <2> QED BY <1>1, <1>4, <1>5, <1>6, <1>7, <1>8, <2>1, ThreadsAssumption DEF TypeOK
<1>10. LockTypes
  <2>1. th \in [Threads -> Request \cup {Idle}] /\ dbOwner \in Threads \cup {Null}
    BY DEF Init
  <2>2. \A n \in DOMAIN rows : rows[n] \in Contents
    BY <1>2, <1>3 DEF Contents
  <2>3. disk \in [Numbers -> Contents]
    BY <2>2 DEF Init, Contents
  <2>4. Len(rows) =< MaxRows
    BY <1>2, <1>5
  <2>5. \A f \in Files : fileBlocks[f] # Null => info[f].num # 0
    BY <1>7
  <2> QED BY <1>9, <2>1, <2>3, <2>4, <2>5 DEF LockTypes
<1>11. BlocksAtHand
  <2>1. \A f \in Files : Refers(f)
    BY <1>7 DEF Refers
  <2>2. \A t \in Threads : AtHand(t) /\ OwnAtHand(t)
    BY <1>8 DEF AtHand, OwnAtHand
  <2> QED BY <2>1, <2>2 DEF BlocksAtHand
<1>12. OpsInPlace /\ OneWriter
  BY <1>8 DEF OpsInPlace, OneWriter, At
<1>13. Holders
  <2>1. \A t \in Threads : t # Null
    BY ThreadsAssumption
  <2>2. \A f \in Files, t \in Threads : info[f].lock # t
    BY <1>7, <2>1
  <2>3. \A n \in Numbers, t \in Threads : item[n] # Null => item[n].lock # t
    BY <1>6, <2>1
  <2> QED BY <2>2, <2>3 DEF Holders
<1> QED BY <1>10, <1>11, <1>12, <1>13 DEF LockInv

LEMMA LockNext == LockInv /\ [Next]_vars => LockInv'
<1> SUFFICES ASSUME LockInv, [Next]_vars PROVE LockInv'
  OBVIOUS
<1>1. ASSUME NEW t \in Threads, Requests(t) PROVE LockInv'
  <2>1. ASSUME NEW f \in Files, Read(t, f) PROVE LockInv'
    BY <2>1, BeginsKeeps DEF Read
  <2>2. ASSUME NEW f \in Files, NEW x \in Hashes, NEW part \in BOOLEAN, Write(t, f, x, part)
        PROVE  LockInv'
    BY <2>2, BeginsKeeps DEF Write
  <2>3. ASSUME NEW f \in Files, Truncate(t, f) PROVE LockInv'
    BY <2>3, BeginsKeeps DEF Truncate
  <2> QED BY <1>1, <2>1, <2>2, <2>3 DEF Requests
<1>2. ASSUME NEW t \in Threads, Step(t) PROVE LockInv'
  BY <1>2, LockInfoKeeps, LockItemKeeps, SeekKeeps, FetchKeeps, HaveKeeps, BeginKeeps, BusyKeeps,
     LockObjectKeeps, ReplacePresentKeeps, ReplaceInPlaceKeeps, ReplaceInsertKeeps, ReleaseKeeps,
     CountKeeps, CountMissingKeeps, CountedKeeps, PlaceKeeps DEF Step
<1>3. CASE UNCHANGED vars
  BY <1>3 DEF vars, LockInv, LockTypes, TypeOK, BlocksAtHand, Refers, AtHand, OwnAtHand,
              OpsInPlace, OneWriter, Holders, At, F, N
<1> QED BY <1>1, <1>2, <1>3 DEF Next

\* The inductive invariant of the threads in the cache.
THEOREM SpecLockInv == Spec => []LockInv
  BY LockInit, LockNext, PTL DEF Spec

\* Threads in BlocksCache keep types, one row for a hash, and the database locked
\* exactly between BEGIN EXCLUSIVE and COMMIT (DataBase::replaceStorageBlock).
THEOREM SpecThreadsTypeOK == Spec => []TypeOK
<1>1. LockInv => TypeOK
  BY DEF LockInv, LockTypes
<1> QED BY <1>1, SpecLockInv, PTL

\* The locks of block_info, storage_block and the database do not deadlock, for any
\* number of threads: whoever holds a storage_block waits for nothing, whoever
\* holds the database waits for no block_info (_getLockedFileBlock, _writeBlock).
THEOREM SpecNoDeadlock == Spec => []NoDeadlock
<1>1. LockInv => NoDeadlock
  <2> SUFFICES ASSUME LockInv PROVE NoDeadlock
    OBVIOUS
  <2>1. dbOwner # Null => ~At(dbOwner, "info")
    BY DEF LockInv, LockTypes, TypeOK, At
  <2> QED BY <2>1 DEF LockInv, Holders, NoDeadlock, At
<1> QED BY <1>1, SpecLockInv, PTL

----------------------------------------------------------------------------
(* Uses and contents.                                                      *)
(*                                                                         *)
(* A thread that works on an object holds its lock, and a write that of    *)
(* its block_info; so the block of a read that nobody writes to stays the  *)
(* same.  As long as no two threads have committed changes of the users of *)
(* one block, what is still to be counted of a block is due to one thread, *)
(* and the count falls short of the users by no more than that.            *)

HoldsLocks(t) ==
    /\ th[t].at \in {"seek", "fetch", "have"} \/ (At(t, "body") /\ N(t) # 0)
          => item[N(t)] # Null /\ item[N(t)].lock = t
    /\ th[t].at \in {"seek", "fetch"} => item[N(t)].data = Null
    /\ At(t, "have") => item[N(t)].data # Null
    /\ th[t].at \notin {"idle", "info"} /\ th[t].op = "write" => info[F(t)].lock = t

Reading(t) ==
    th[t].at \notin {"idle", "info"} /\ th[t].op = "read" /\ ~th[t].changed

\* The block of a file that is read, and not written, stays.
ReadsBlock(t) ==
    Reading(t) => /\ info[F(t)].num = N(t)
                  /\ \A u \in Threads : At(u, "place") => F(u) # F(t)

HoldInv == \A t \in Threads : HoldsLocks(t) /\ ReadsBlock(t)

\* The block_info of a file has the block that the tables have.
BlocksKnown ==
    \A f \in Files :
       /\ info[f].num = 0 => fileBlocks[f] = Null
       /\ info[f].num # 0 => info[f].num \in DOMAIN rows /\ fileBlocks[f] = rows[info[f].num]

OnePending ==
    \A t, u \in Threads : Committed(t) /\ Committed(u) /\ N(t) = N(u) => t = u

Covered(n) == item[n] # Null /\ Cardinality(Users(n)) =< item[n].use

\* What the thread has committed and not counted.
Due(t) ==
    /\ At(t, "place") => Cardinality(Users(N(t))) =< 1 /\ th[t].hash = rows[N(t)]
    /\ th[t].at \in {"count", "counted"} => item[N(t)] # Null
    /\ th[t].at \in {"count", "counted"} /\ th[t].op = "write"
          => Cardinality(Users(N(t))) =< item[N(t)].use + 1
    /\ th[t].at \in {"count", "counted"} /\ th[t].op # "write"
          => Cardinality(Users(N(t))) + 1 =< item[N(t)].use
    /\ At(t, "counted") => th[t].use = item[N(t)].use

UsesCovered ==
    /\ \A n \in DOMAIN rows : (\A t \in Threads : Committed(t) => N(t) # n) => Covered(n)
    /\ \A t \in Threads : Committed(t) => N(t) \in DOMAIN rows /\ Due(t)

UsesKnown == BlocksKnown /\ OnePending /\ UsesCovered
UseInv == "count" \notin raced => UsesKnown

\* An object has the content of its row, or none while the file has it.
ContentsKept ==
    \A n \in DOMAIN rows : (\A t \in Threads : At(t, "place") => N(t) # n) =>
       /\ item[n] # Null
       /\ item[n].data = rows[n] \/ (item[n].data = Null /\ disk[n] = rows[n])

OneFetch ==
    \A t \in Threads : At(t, "fetch") => pos = N(t) /\ \A u \in Threads : At(u, "fetch") => u = t

ContentInv == raced = {} => ContentsKept /\ OneFetch

ThreadsInv == LockInv /\ HoldInv /\ UseInv /\ ContentInv

----------------------------------------------------------------------------

\* Thread t goes on to p.
WentTo(t, p) ==
    /\ \A u \in Threads \ {t} : th'[u] = th[u]
    /\ th'[t].at = p /\ th'[t].op = th[t].op /\ th'[t].file = th[t].file /\ th'[t].n = th[t].n
    /\ th'[t].hash = th[t].hash /\ th'[t].use = th[t].use /\ th'[t].changed = th[t].changed

WentIdle(t) == (\A u \in Threads \ {t} : th'[u] = th[u]) /\ th'[t] = Idle

LEMMA GoesOn ==
    ASSUME LockTypes, NEW t \in Threads, NEW p \in Places, th[t] \in Request, Goes(t, p)
    PROVE  WentTo(t, p)
<1>1. th' = [th EXCEPT ![t] = [th[t] EXCEPT !.at = p]]
  BY DEF Goes, LockTypes
<1>2. th'[t] = [th[t] EXCEPT !.at = p] /\ \A u \in Threads \ {t} : th'[u] = th[u]
  BY <1>1 DEF LockTypes
<1> QED BY <1>2 DEF WentTo, Request

LEMMA GoesIdle ==
    ASSUME LockTypes, NEW t \in Threads, Ends(t)
    PROVE  WentIdle(t)
  BY DEF Ends, WentIdle, LockTypes

\* Objects stay, with their counts and data ...
UsesStay == \A n \in Numbers : item[n] # Null => item'[n] # Null /\ item'[n].use = item[n].use
DataStays == \A n \in Numbers : item[n] # Null => item'[n] # Null /\ item'[n].data = item[n].data
NumsStay == \A f \in Files : info'[f].num = info[f].num

\* ... and what other threads hold they go on holding.
LocksStay(t) ==
    /\ \A n \in Numbers, u \in Threads \ {t} :
          item[n] # Null /\ item[n].lock = u
             => item'[n] # Null /\ item'[n].lock = u /\ item'[n].data = item[n].data
    /\ \A f \in Files, u \in Threads \ {t} : info[f].lock = u => info'[f].lock = u

LEMMA RowNumbers ==
    ASSUME LockTypes
    PROVE  DOMAIN rows = 1..Len(rows) /\ Len(rows) \in Nat /\ DOMAIN rows \subseteq Numbers
<1>1. DOMAIN rows = 1..Len(rows) /\ Len(rows) \in Nat /\ Len(rows) =< MaxRows
  BY DEF LockTypes, TypeOK
<1> QED BY <1>1, ThreadsAssumption DEF Numbers

LEMMA UsersFinite ==
    ASSUME NEW n
    PROVE  IsFiniteSet(Users(n)) /\ Cardinality(Users(n)) \in Nat
  BY FS_Subset, FS_CardinalityType, ThreadsAssumption DEF Users

\* Threads that do not move and are not disturbed.
LEMMA OthersHold ==
    ASSUME LockInv, HoldInv, NEW t \in Threads, LocksStay(t), NEW u \in Threads \ {t},
           th'[u].at = th[u].at, th'[u].op = th[u].op, th'[u].file = th[u].file,
           th'[u].n = th[u].n
    PROVE  HoldsLocks(u)'
<1>1. HoldsLocks(u)
  BY DEF HoldInv
<1>2. th[u].at # "idle" => F(u) \in Files /\ (N(u) # 0 => N(u) \in Numbers)
  BY AtWork, NumbersInUse DEF LockInv
<1>3. th[u].at \in {"seek", "fetch", "have"} => N(u) # 0
  BY DEF LockInv, BlocksAtHand, AtHand
<1> QED BY <1>1, <1>2, <1>3 DEF HoldsLocks, LocksStay, At, N, F

LEMMA OthersRead ==
    ASSUME LockInv, HoldInv, NEW t \in Threads, NumsStay, NEW u \in Threads \ {t},
           \A v \in Threads \ {t} : th'[v] = th[v],
           ~At(t, "place")'
    PROVE  ReadsBlock(u)'
<1>1. ReadsBlock(u)
  BY DEF HoldInv
<1>2. th[u].at # "idle" => F(u) \in Files
  BY AtWork, NumbersInUse DEF LockInv
<1> QED BY <1>1, <1>2 DEF ReadsBlock, Reading, NumsStay, At, N, F

LEMMA HoldStep ==
    ASSUME LockInv, HoldInv, NEW t \in Threads, LocksStay(t), NumsStay,
           \A u \in Threads \ {t} : th'[u] = th[u],
           ~At(t, "place")', HoldsLocks(t)', ReadsBlock(t)'
    PROVE  HoldInv'
<1>1. \A u \in Threads \ {t} : HoldsLocks(u)' /\ ReadsBlock(u)'
  BY OthersHold, OthersRead
<1> QED BY <1>1 DEF HoldInv

LEMMA EndsHold ==
    ASSUME LockInv, HoldInv, NEW t \in Threads, LocksStay(t), NumsStay, WentIdle(t)
    PROVE  HoldInv'
<1>1. ~At(t, "place")' /\ HoldsLocks(t)' /\ ReadsBlock(t)'
  BY IdleAt DEF WentIdle, HoldsLocks, ReadsBlock, Reading, At
<1> QED BY <1>1, HoldStep DEF WentIdle

\* A step that counts nothing and commits nothing.
LEMMA UsesStep ==
    ASSUME LockInv, UseInv, UNCHANGED tables, UsesStay, NumsStay,
           "count" \in raced => "count" \in raced',
           \A u \in Threads : Committed(u) \/ Committed(u)' => th'[u] = th[u]
    PROVE  UseInv'
<1> SUFFICES ASSUME "count" \notin raced' PROVE UsesKnown'
  BY DEF UseInv
<1>1. UsesKnown /\ UNCHANGED <<rows, fileBlocks>>
  BY DEF UseInv, tables
<1>2. BlocksKnown'
  BY <1>1 DEF UsesKnown, BlocksKnown, NumsStay
<1>3. \A u \in Threads : Committed(u)' => Committed(u) /\ N(u)' = N(u)
  BY DEF Committed, N
<1>4. \A u \in Threads : Committed(u) => Committed(u)' /\ N(u)' = N(u)
  BY DEF Committed, N
<1>5. OnePending'
  BY <1>1, <1>3 DEF UsesKnown, OnePending
<1>6. DOMAIN rows \subseteq Numbers
  BY RowNumbers DEF LockInv
<1>7. ASSUME NEW n \in DOMAIN rows, \A u \in Threads : Committed(u)' => N(u)' # n
      PROVE  Covered(n)'
  <2>1. Covered(n)
    BY <1>1, <1>4, <1>7 DEF UsesKnown, UsesCovered
  <2>2. Users(n)' = Users(n)
    BY <1>1 DEF Users
  <2> QED BY <1>6, <2>1, <2>2 DEF Covered, UsesStay
<1>8. ASSUME NEW u \in Threads, Committed(u)'
      PROVE  N(u)' \in DOMAIN rows' /\ Due(u)'
  <2>1. N(u) \in DOMAIN rows /\ Due(u) /\ th'[u] = th[u] /\ N(u)' = N(u)
    BY <1>1, <1>3, <1>8 DEF UsesKnown, UsesCovered
  <2>2. Users(N(u))' = Users(N(u))
    BY <1>1, <2>1 DEF Users
  <2> QED BY <1>1, <1>6, <2>1, <2>2 DEF Due, UsesStay, At, N
<1> QED BY <1>1, <1>2, <1>5, <1>7, <1>8 DEF UsesKnown, UsesCovered

\* A step that changes no data.
LEMMA ContentStep ==
    ASSUME LockInv, ContentInv, UNCHANGED <<rows, disk, pos>>, DataStays, raced \subseteq raced',
           \A u \in Threads : /\ At(u, "place") => At(u, "place")' /\ N(u)' = N(u)
                              /\ At(u, "fetch")' => At(u, "fetch") /\ N(u)' = N(u)
    PROVE  ContentInv'
<1> SUFFICES ASSUME raced' = {} PROVE ContentsKept' /\ OneFetch'
  BY DEF ContentInv
<1>1. ContentsKept /\ OneFetch
  BY DEF ContentInv
<1>2. DOMAIN rows \subseteq Numbers
  BY RowNumbers DEF LockInv
<1>3. ContentsKept'
  BY <1>1, <1>2 DEF ContentsKept, DataStays
<1>4. OneFetch'
  BY <1>1 DEF OneFetch
<1> QED BY <1>3, <1>4

----------------------------------------------------------------------------

\* All but the locks and types.
RestInv == HoldInv /\ UseInv /\ ContentInv

LEMMA BeginsRest ==
    ASSUME LockInv, RestInv, NEW t \in Threads, NEW op, NEW f, NEW x, NEW part,
           NEW p \in {"info", "begin"}, p = "begin" <=> op = "truncate",
           Begins(t, op, f, x, part, p)
    PROVE  RestInv'
<1> DEFINE r == [op |-> op, at |-> p, file |-> f, hash |-> x, n |-> 0, part |-> part,
                 use |-> 0, changed |-> FALSE]
<1>1. /\ th[t].at = "idle" /\ th' = [th EXCEPT ![t] = r]
      /\ UNCHANGED <<rows, fileBlocks, info, item, disk, pos, raced>>
  BY DEF Begins, At, tables
<1>2. r.at = p /\ r.op = op
  OBVIOUS
<1> HIDE DEF r
<1>3. th'[t] = r /\ \A u \in Threads \ {t} : th'[u] = th[u]
  BY <1>1 DEF LockInv, LockTypes
<1>4. LocksStay(t) /\ NumsStay /\ UsesStay /\ DataStays /\ UNCHANGED tables
  BY <1>1 DEF LocksStay, NumsStay, UsesStay, DataStays, tables
<1>5. HoldInv'
  <2>1. ~At(t, "place")' /\ HoldsLocks(t)' /\ ReadsBlock(t)'
    BY <1>2, <1>3 DEF At, HoldsLocks, ReadsBlock, Reading
  <2> QED BY <1>3, <1>4, <2>1, HoldStep DEF RestInv
<1>6. UseInv'
  <2>1. \A u \in Threads : Committed(u) \/ Committed(u)' => th'[u] = th[u]
    BY <1>1, <1>2, <1>3 DEF Committed
  <2> QED BY <1>1, <1>4, <2>1, UsesStep DEF RestInv
<1>7. ContentInv'
  <2>1. \A u \in Threads : /\ At(u, "place") => At(u, "place")' /\ N(u)' = N(u)
                           /\ At(u, "fetch")' => At(u, "fetch") /\ N(u)' = N(u)
    BY <1>1, <1>2, <1>3 DEF At, N
  <2> QED BY <1>1, <1>4, <2>1, ContentStep DEF RestInv
<1> QED BY <1>5, <1>6, <1>7 DEF RestInv

\* A thread goes on, before its transaction is committed, and changes no data.
LEMMA GoingRest ==
    ASSUME LockInv, RestInv, NEW t \in Threads, NEW p, th[t] \in Request,
           th'[t].at = p, \A u \in Threads \ {t} : th'[u] = th[u],
           ~Committed(t), p \notin {"fetch", "count", "counted", "place"},
           LocksStay(t), NumsStay, UsesStay, DataStays,
           UNCHANGED <<rows, fileBlocks, disk>>,
           UNCHANGED <<pos, raced>>,
           HoldsLocks(t)', ReadsBlock(t)'
    PROVE  RestInv'
<1>1. HoldInv'
  BY HoldStep DEF At, RestInv
<1>2. UseInv'
  <2>1. \A u \in Threads : Committed(u) \/ Committed(u)' => th'[u] = th[u]
    BY DEF Committed
  <2> QED BY <2>1, UsesStep DEF RestInv, tables
<1>3. ContentInv'
  <2>1. \A u \in Threads : /\ At(u, "place") => At(u, "place")' /\ N(u)' = N(u)
                           /\ At(u, "fetch")' => At(u, "fetch") /\ N(u)' = N(u)
    BY DEF At, N, Committed
  <2> QED BY <2>1, ContentStep DEF RestInv
<1> QED BY <1>1, <1>2, <1>3 DEF RestInv

\* The fields of an object under another lock.
LEMMA ItemRelocked ==
    ASSUME NEW r \in Item, NEW l \in Threads \cup {Null}
    PROVE  LET s == [r EXCEPT !.lock = l]
           IN  s \in Item /\ s.lock = l /\ s.use = r.use /\ s.data = r.data
  BY DEF Item

\* A thread locks an object that is free, or unlocks the one it holds.
LEMMA RelockedStays ==
    ASSUME LockInv, NEW t \in Threads, NEW n \in Numbers, item[n] \in Item,
           NEW l \in {t, Null}, item[n].lock \in {t, Null},
           item' = [item EXCEPT ![n].lock = l], UNCHANGED info
    PROVE  /\ LocksStay(t) /\ NumsStay /\ UsesStay /\ DataStays
           /\ item'[n] # Null /\ item'[n].lock = l /\ item'[n].data = item[n].data
<1> DEFINE r == [item[n] EXCEPT !.lock = l]
<1>1. r \in Item /\ r.lock = l /\ r.use = item[n].use /\ r.data = item[n].data
  BY ItemRelocked
<1>2. item' = [item EXCEPT ![n] = r]
  BY DEF LockInv, LockTypes, TypeOK
<1> HIDE DEF r
<1>3. ItemIs(n, r)
  BY <1>1, <1>2, ItemChanges DEF LockInv
<1> QED BY <1>1, <1>3, ThreadsAssumption
        DEF ItemIs, LocksStay, NumsStay, UsesStay, DataStays

LEMMA LockItemRest ==
    ASSUME LockInv, RestInv, NEW t \in Threads, LockItem(t)
    PROVE  RestInv'
<1>1. th[t] \in Request /\ th[t].at = "item"
  BY AtWork DEF LockItem, At, LockInv
<1>2. N(t) # 0 /\ N(t) \in Numbers /\ item[N(t)] \in Item
  BY <1>1, ObjectAtHand DEF LockInv, BlocksAtHand, AtHand
<1> DEFINE p == IF item[N(t)].data = Null THEN "seek" ELSE "have"
<1>3. /\ item[N(t)].lock = Null /\ item' = [item EXCEPT ![N(t)].lock = t] /\ Goes(t, p)
      /\ UNCHANGED <<rows, fileBlocks, info, disk, pos, dbOwner, raced>>
  BY DEF LockItem, tables
<1>4. p \in Places /\ p \in {"seek", "have"} /\ (p = "seek" <=> item[N(t)].data = Null)
  BY DEF Places
<1> HIDE DEF p
<1>5. WentTo(t, p)
  BY <1>1, <1>3, <1>4, GoesOn DEF LockInv
<1>6. /\ LocksStay(t) /\ NumsStay /\ UsesStay /\ DataStays
      /\ item'[N(t)] # Null /\ item'[N(t)].lock = t /\ item'[N(t)].data = item[N(t)].data
  BY <1>2, <1>3, RelockedStays
<1>7. HoldsLocks(t) /\ ReadsBlock(t)
  BY DEF RestInv, HoldInv
<1>8. HoldsLocks(t)'
  BY <1>1, <1>3, <1>4, <1>5, <1>6, <1>7 DEF HoldsLocks, WentTo, At, N, F
<1>9. ReadsBlock(t)'
  BY <1>1, <1>3, <1>4, <1>5, <1>7 DEF ReadsBlock, Reading, WentTo, At, N, F
<1>10. th'[t].at = p /\ \A u \in Threads \ {t} : th'[u] = th[u]
  BY <1>5 DEF WentTo
<1>11. ~Committed(t) /\ p \notin {"fetch", "count", "counted", "place"}
  BY <1>1, <1>4 DEF Committed
<1> QED BY <1>1, <1>3, <1>6, <1>8, <1>9, <1>10, <1>11, GoingRest

LEMMA HaveRest ==
    ASSUME LockInv, RestInv, NEW t \in Threads, Have(t)
    PROVE  RestInv'
<1>1. th[t] \in Request /\ th[t].at = "have"
  BY AtWork DEF Have, At, LockInv
<1>2. N(t) # 0 /\ N(t) \in Numbers /\ item[N(t)] \in Item /\ item[N(t)].lock = t
  BY <1>1, ObjectAtHand DEF LockInv, BlocksAtHand, AtHand, RestInv, HoldInv, HoldsLocks
<1>3. /\ item' = [item EXCEPT ![N(t)].lock = Null]
      /\ UNCHANGED <<rows, fileBlocks, info, disk, pos, dbOwner, raced>>
  BY DEF Have, tables
<1>4. LocksStay(t) /\ NumsStay /\ UsesStay /\ DataStays
  BY <1>2, <1>3, RelockedStays
<1>5. HoldsLocks(t) /\ ReadsBlock(t)
  BY DEF RestInv, HoldInv
<1>6. CASE th[t].op = "read"
  <2>1. WentIdle(t)
    BY <1>6, GoesIdle DEF Have, LockInv
  <2>2. HoldsLocks(t)' /\ ReadsBlock(t)'
    BY <2>1, IdleAt DEF WentIdle, HoldsLocks, ReadsBlock, Reading, At
  <2>3. th'[t].at = "idle" /\ ~Committed(t) /\ \A u \in Threads \ {t} : th'[u] = th[u]
    BY <1>1, <2>1, IdleAt DEF WentIdle, Committed
  <2> QED BY <1>1, <1>3, <1>4, <2>2, <2>3, GoingRest
<1>7. CASE th[t].op # "read"
  <2>1. WentTo(t, "begin")
    BY <1>1, <1>7, GoesOn DEF Have, LockInv, Places
  <2>2. HoldsLocks(t)' /\ ReadsBlock(t)'
    BY <1>1, <1>3, <1>5, <1>7, <2>1 DEF WentTo, HoldsLocks, ReadsBlock, Reading, At, F
  <2>3. th'[t].at = "begin" /\ ~Committed(t) /\ \A u \in Threads \ {t} : th'[u] = th[u]
    BY <1>1, <2>1 DEF WentTo, Committed
  <2> QED BY <1>1, <1>3, <1>4, <2>2, <2>3, GoingRest
<1> QED BY <1>6, <1>7

\* A step that leaves objects and block_infos alone.
LEMMA NothingTouched ==
    ASSUME NEW t \in Threads, UNCHANGED <<info, item>>
    PROVE  LocksStay(t) /\ NumsStay /\ UsesStay /\ DataStays
  BY DEF LocksStay, NumsStay, UsesStay, DataStays

LEMMA BeginRest ==
    ASSUME LockInv, RestInv, NEW t \in Threads, Begin(t)
    PROVE  RestInv'
<1>1. th[t] \in Request /\ th[t].at = "begin"
  BY AtWork DEF Begin, At, LockInv
<1> DEFINE p == IF th[t].op = "write" /\ N(t) # 0 THEN "object" ELSE "body"
<1>2. Goes(t, p) /\ UNCHANGED <<rows, fileBlocks, info, item, disk, pos, raced>>
  BY DEF Begin, tables
<1>3. p \in Places /\ p \in {"object", "body"} /\ (p = "body" => N(t) = 0)
  <2>1. th[t].op = "write" \/ (th[t].op = "truncate" /\ N(t) = 0)
    BY <1>1, RequestFields DEF LockInv, OpsInPlace
  <2> QED BY <2>1 DEF Places
<1> HIDE DEF p
<1>4. WentTo(t, p)
  BY <1>1, <1>2, <1>3, GoesOn DEF LockInv
<1>5. HoldsLocks(t) /\ th[t].op # "read"
  BY <1>1 DEF RestInv, HoldInv, LockInv, OpsInPlace
<1>6. HoldsLocks(t)' /\ ReadsBlock(t)'
  BY <1>1, <1>2, <1>3, <1>4, <1>5 DEF WentTo, HoldsLocks, ReadsBlock, Reading, At, F, N
<1>7. th'[t].at = p /\ ~Committed(t) /\ p \notin {"fetch", "count", "counted", "place"}
      /\ \A u \in Threads \ {t} : th'[u] = th[u]
  BY <1>1, <1>3, <1>4 DEF WentTo, Committed
<1> QED BY <1>1, <1>2, <1>6, <1>7, NothingTouched, GoingRest

LEMMA LockObjectRest ==
    ASSUME LockInv, RestInv, NEW t \in Threads, LockObject(t)
    PROVE  RestInv'
<1>1. th[t] \in Request /\ th[t].at = "object"
  BY AtWork DEF LockObject, At, LockInv
<1>2. N(t) # 0 /\ N(t) \in Numbers /\ item[N(t)] \in Item
  BY <1>1, ObjectAtHand DEF LockInv, BlocksAtHand, AtHand
<1>3. /\ item[N(t)].lock = Null /\ item' = [item EXCEPT ![N(t)].lock = t] /\ Goes(t, "body")
      /\ UNCHANGED <<rows, fileBlocks, info, disk, pos, raced>>
  BY DEF LockObject, tables
<1>4. WentTo(t, "body")
  BY <1>1, <1>3, GoesOn DEF LockInv, Places
<1>5. /\ LocksStay(t) /\ NumsStay /\ UsesStay /\ DataStays
      /\ item'[N(t)] # Null /\ item'[N(t)].lock = t
  BY <1>2, <1>3, RelockedStays
<1>6. HoldsLocks(t) /\ th[t].op = "write"
  BY <1>1 DEF RestInv, HoldInv, LockInv, OpsInPlace
<1>7. HoldsLocks(t)' /\ ReadsBlock(t)'
  BY <1>1, <1>3, <1>4, <1>5, <1>6 DEF WentTo, HoldsLocks, ReadsBlock, Reading, At, F, N
<1>8. th'[t].at = "body" /\ ~Committed(t) /\ \A u \in Threads \ {t} : th'[u] = th[u]
  BY <1>1, <1>4 DEF WentTo, Committed
<1> QED BY <1>1, <1>3, <1>5, <1>7, <1>8, GoingRest

\* A block_info of the thread's own file gets another holder.
LEMMA InfoRelocked ==
    ASSUME LockInv, NEW t \in Threads, NEW f \in Files, NEW l \in {Null, Leaked},
           info' = [info EXCEPT ![f].lock = l], info[f].lock = t, UNCHANGED item
    PROVE  LocksStay(t) /\ NumsStay /\ UsesStay /\ DataStays
<1>1. InfosKept /\ info[f] \in Info
  BY InfoUnlocks DEF LockInv, LockTypes, TypeOK
<1>2. \A g \in Files \ {f} : info'[g] = info[g]
  BY DEF LockInv, LockTypes, TypeOK
<1> QED BY <1>1, <1>2 DEF InfosKept, LocksStay, NumsStay, UsesStay, DataStays

LEMMA BusyRest ==
    ASSUME LockInv, RestInv, NEW t \in Threads, Busy(t)
    PROVE  RestInv'
<1>1. th[t] \in Request /\ th[t].at = "begin" /\ F(t) \in Files
  BY AtWork, NumbersInUse DEF Busy, At, LockInv
<1>2. WentIdle(t)
  BY GoesIdle DEF Busy, LockInv
<1>3. UNCHANGED <<rows, fileBlocks, item, disk, pos, raced>>
  BY DEF Busy, tables
<1>4. LocksStay(t) /\ NumsStay /\ UsesStay /\ DataStays
  <2>1. CASE th[t].op = "write"
    <3>1. info[F(t)].lock = t /\ info' = [info EXCEPT ![F(t)].lock = Leaked]
      BY <1>1, <2>1 DEF Busy, RestInv, HoldInv, HoldsLocks
    <3> QED BY <1>1, <1>3, <3>1, InfoRelocked
  <2>2. CASE th[t].op # "write"
    BY <1>3, <2>2, NothingTouched DEF Busy
  <2> QED BY <2>1, <2>2
<1>5. HoldsLocks(t)' /\ ReadsBlock(t)'
  BY <1>2, IdleAt DEF WentIdle, HoldsLocks, ReadsBlock, Reading, At
<1>6. th'[t].at = "idle" /\ ~Committed(t) /\ \A u \in Threads \ {t} : th'[u] = th[u]
  BY <1>1, <1>2, IdleAt DEF WentIdle, Committed
<1> QED BY <1>1, <1>3, <1>4, <1>5, <1>6, GoingRest

\* What _getLockedFileBlock finds, it finds in the cache or places there.
LEMMA LockInfoRest ==
    ASSUME LockInv, RestInv, NEW t \in Threads, LockInfo(t)
    PROVE  RestInv'
<1> DEFINE i == info[F(t)]
           r == [i EXCEPT !.ref = HasObject(i), !.lock = IF th[t].op = "read" THEN Null ELSE t]
           p == IF th[t].op = "read" \/ (th[t].part /\ HasObject(i)) THEN "item" ELSE "begin"
           s == [th[t] EXCEPT !.n = IF HasObject(i) THEN i.num ELSE 0, !.part = FALSE, !.at = p]
           gone == th[t].op = "read" /\ ~HasObject(i)
<1>1. th[t] \in Request /\ th[t].at = "info" /\ F(t) \in Files /\ i \in Info /\ i.lock = Null
      /\ th[t].op # "truncate" /\ (i.num # 0 => i.num \in Numbers)
  BY AtWork, NumbersInUse DEF LockInfo, At, LockInv, OpsInPlace
<1>2. /\ item' = PlacedItem(i)
      /\ info' = [info EXCEPT ![F(t)].ref = HasObject(i),
                              ![F(t)].lock = IF th[t].op = "read" THEN Null ELSE t]
      /\ th' = [th EXCEPT ![t] = IF gone THEN Idle ELSE s]
      /\ UNCHANGED <<rows, fileBlocks, disk, pos, raced>>
  BY DEF LockInfo, tables
<1>3. /\ r \in Info /\ r.num = i.num
      /\ r.lock = IF th[t].op = "read" THEN Null ELSE t
  <2>1. HasObject(i) \in BOOLEAN
    BY <1>1 DEF HasObject, Found, Info
  <2> QED BY <1>1, <2>1 DEF Info
<1>4. info' = [info EXCEPT ![F(t)] = r]
  BY <1>1, <1>2 DEF LockInv, LockTypes, TypeOK
<1>5. /\ s.at = p /\ s.op = th[t].op /\ s.file = th[t].file /\ s.changed = th[t].changed
      /\ (HasObject(i) => s.n = i.num)
  BY <1>1 DEF Request
<1>6. p \in {"item", "begin"} /\ (p = "item" => th[t].op = "read" \/ HasObject(i))
  OBVIOUS
<1>7. /\ gone => th[t].op = "read"
      /\ ~gone => (th[t].op = "read" => HasObject(i) /\ p = "item")
      /\ th[t].op \in {"read", "write"}
  BY <1>1, RequestFields
<1>8. UsesStay /\ DataStays /\ \A n \in Numbers : item[n] # Null => item'[n] = item[n]
  <2>1. \A n \in Numbers : item[n] # Null => item'[n] = item[n]
    BY <1>1, <1>2 DEF PlacedItem, Found, LockInv, LockTypes, TypeOK
  <2> QED BY <2>1 DEF UsesStay, DataStays
<1> HIDE DEF i, r, p, s, gone
<1>9. InfoIs(F(t), r)
  BY <1>1, <1>3, <1>4, InfoChanges DEF LockInv
<1>10. NumsStay
  BY <1>3, <1>9 DEF InfoIs, NumsStay, i
<1>11. LocksStay(t)
  <2>1. \A u \in Threads : u # Null
    BY ThreadsAssumption
  <2> QED BY <1>1, <1>8, <1>9, <2>1 DEF InfoIs, LocksStay, i
<1>12. th'[t] = (IF gone THEN Idle ELSE s) /\ \A u \in Threads \ {t} : th'[u] = th[u]
  BY <1>2 DEF LockInv, LockTypes
<1>13. CASE gone
  <2>1. HoldsLocks(t)' /\ ReadsBlock(t)' /\ th'[t].at = "idle"
    BY <1>12, <1>13, IdleAt DEF HoldsLocks, ReadsBlock, Reading, At
  <2>2. ~Committed(t)
    BY <1>1 DEF Committed
  <2> QED BY <1>1, <1>2, <1>8, <1>10, <1>11, <1>12, <2>1, <2>2, GoingRest
<1>14. CASE ~gone
  <2>1. th'[t] = s
    BY <1>12, <1>14
  <2>2. HoldsLocks(t)'
    <3>1. th'[t].op = "write" => info'[F(t)'].lock = t
      BY <1>3, <1>5, <1>9, <2>1 DEF InfoIs, F
    <3> QED BY <1>5, <1>6, <2>1, <3>1 DEF HoldsLocks, At
  <2>3. ReadsBlock(t)'
    <3> SUFFICES ASSUME Reading(t)'
                 PROVE  /\ info'[F(t)'].num = N(t)'
                        /\ \A u \in Threads : At(u, "place")' => F(u)' # F(t)'
      BY DEF ReadsBlock
    <3>1. th[t].op = "read"
      BY <1>5, <2>1 DEF Reading
    <3>2. F(t)' = F(t) /\ N(t)' = i.num
      BY <1>5, <1>7, <1>14, <2>1, <3>1 DEF F, N
    <3>3. ASSUME NEW u \in Threads, At(u, "place")'
          PROVE  F(u)' # F(t)
      <4>1. u # t /\ th'[u] = th[u] /\ At(u, "place")
        BY <1>5, <1>6, <1>12, <2>1, <3>3 DEF At
      <4>2. info[F(u)].lock = u
        BY <4>1 DEF RestInv, HoldInv, HoldsLocks, LockInv, OpsInPlace, At
      <4> QED BY <1>1, <4>1, <4>2, ThreadsAssumption DEF F, i
    <3> QED BY <1>3, <1>9, <3>2, <3>3 DEF InfoIs
  <2>4. th'[t].at = p /\ ~Committed(t) /\ p \notin {"fetch", "count", "counted", "place"}
    BY <1>1, <1>5, <1>6, <2>1 DEF Committed
  <2> QED BY <1>1, <1>2, <1>8, <1>10, <1>11, <1>12, <2>2, <2>3, <2>4, GoingRest
<1> QED BY <1>13, <1>14

LEMMA SeekRest ==
    ASSUME LockInv, RestInv, NEW t \in Threads, Seek(t)
    PROVE  RestInv'
<1>1. th[t] \in Request /\ th[t].at = "seek"
  BY AtWork DEF Seek, At, LockInv
<1>2. /\ pos' = N(t) /\ UNCHANGED <<rows, fileBlocks, info, item, disk>>
      /\ raced' = IF \E u \in Threads : At(u, "fetch") THEN raced \cup {"seek"} ELSE raced
  BY DEF Seek, tables
<1>3. WentTo(t, "fetch")
  BY <1>1, GoesOn DEF Seek, LockInv, Places
<1>4. LocksStay(t) /\ NumsStay /\ UsesStay /\ DataStays
  BY <1>2, NothingTouched
<1>5. HoldInv'
  <2>1. HoldsLocks(t) /\ ReadsBlock(t)
    BY DEF RestInv, HoldInv
  <2>2. HoldsLocks(t)' /\ ReadsBlock(t)' /\ ~At(t, "place")'
    BY <1>1, <1>2, <1>3, <2>1 DEF WentTo, HoldsLocks, ReadsBlock, Reading, At, F, N
  <2> QED BY <1>3, <1>4, <2>2, HoldStep DEF RestInv, WentTo
<1>6. UseInv'
  <2>1. \A u \in Threads : Committed(u) \/ Committed(u)' => th'[u] = th[u]
    BY <1>1, <1>3 DEF Committed, WentTo
  <2> QED BY <1>2, <1>4, <2>1, UsesStep DEF RestInv, tables
<1>7. ContentInv'
  <2> SUFFICES ASSUME raced' = {} PROVE ContentsKept' /\ OneFetch'
    BY DEF ContentInv
  <2>1. raced = {} /\ \A u \in Threads : ~At(u, "fetch")
    BY <1>2
  <2>2. ContentsKept
    BY <2>1 DEF RestInv, ContentInv
  <2>3. \A u \in Threads : At(u, "place") => At(u, "place")' /\ N(u)' = N(u)
    BY <1>1, <1>3 DEF WentTo, At, N
  <2>4. ContentsKept'
    BY <1>2, <2>2, <2>3 DEF ContentsKept
  <2>5. OneFetch'
    <3>1. \A u \in Threads : At(u, "fetch")' => u = t
      BY <1>3, <2>1 DEF WentTo, At
    <3>2. pos' = N(t)'
      BY <1>2, <1>3 DEF WentTo, N
    <3> QED BY <3>1, <3>2 DEF OneFetch
  <2> QED BY <2>4, <2>5
<1> QED BY <1>5, <1>6, <1>7 DEF RestInv

\* The data is that of the row, read into the object whose lock is held.
LEMMA FetchRest ==
    ASSUME LockInv, RestInv, NEW t \in Threads, Fetch(t)
    PROVE  RestInv'
<1> DEFINE d == IF pos = N(t) /\ disk[pos] # Null THEN disk[pos] ELSE Foreign
           r == [item[N(t)] EXCEPT !.data = d]
<1>1. th[t] \in Request /\ th[t].at = "fetch"
  BY AtWork DEF Fetch, At, LockInv
<1>2. /\ item' = [item EXCEPT ![N(t)].data = d]
      /\ UNCHANGED <<rows, fileBlocks, info, disk, raced>>
  BY DEF Fetch, tables
<1>3. N(t) # 0 /\ N(t) \in Numbers /\ item[N(t)] \in Item
  BY <1>1, ObjectAtHand DEF LockInv, BlocksAtHand, AtHand
<1>4. HoldsLocks(t) /\ ReadsBlock(t) /\ item[N(t)].lock = t /\ item[N(t)].data = Null
  BY <1>1 DEF RestInv, HoldInv, HoldsLocks
<1>5. d \in Contents /\ d # Null
  BY <1>3, ThreadsAssumption DEF LockInv, LockTypes, Contents
<1> HIDE DEF d
<1>6. r \in Item /\ r.data = d /\ r.use = item[N(t)].use /\ r.lock = t
  BY <1>3, <1>4, <1>5 DEF Item
<1>7. item' = [item EXCEPT ![N(t)] = r]
  BY <1>2, <1>3 DEF LockInv, LockTypes, TypeOK
<1> HIDE DEF r
<1>8. ItemIs(N(t), r) /\ r # Null
  BY <1>3, <1>6, <1>7, ItemChanges, ThreadsAssumption DEF LockInv
<1>9. LocksStay(t) /\ NumsStay /\ UsesStay
  BY <1>2, <1>3, <1>4, <1>6, <1>8 DEF ItemIs, LocksStay, NumsStay, UsesStay
<1>10. WentTo(t, "have")
  BY <1>1, GoesOn DEF Fetch, LockInv, Places
<1>11. HoldInv'
  <2>1. N(t)' = N(t) /\ F(t)' = F(t) /\ item'[N(t)] = r
    BY <1>8, <1>10 DEF WentTo, N, F, ItemIs
  <2>2. HoldsLocks(t)' /\ ReadsBlock(t)' /\ ~At(t, "place")'
    BY <1>1, <1>2, <1>4, <1>5, <1>6, <1>8, <1>10, <2>1
       DEF WentTo, HoldsLocks, ReadsBlock, Reading, At, F
  <2> QED BY <1>9, <1>10, <2>2, HoldStep DEF RestInv, WentTo
<1>12. UseInv'
  <2>1. \A u \in Threads : Committed(u) \/ Committed(u)' => th'[u] = th[u]
    BY <1>1, <1>10 DEF Committed, WentTo
  <2> QED BY <1>2, <1>9, <2>1, UsesStep DEF RestInv, tables
<1>13. ContentInv'
  <2> SUFFICES ASSUME raced = {} PROVE ContentsKept' /\ OneFetch'
    BY <1>2 DEF ContentInv
  <2>1. ContentsKept /\ pos = N(t) /\ \A u \in Threads : At(u, "fetch") => u = t
    BY <1>1 DEF RestInv, ContentInv, OneFetch, At
  <2>2. \A u \in Threads : At(u, "place") => At(u, "place")' /\ N(u)' = N(u)
    BY <1>1, <1>10 DEF WentTo, At, N
  <2>3. ASSUME NEW n \in DOMAIN rows, \A u \in Threads : At(u, "place")' => N(u)' # n
        PROVE  /\ item'[n] # Null
               /\ item'[n].data = rows[n] \/ (item'[n].data = Null /\ disk[n] = rows[n])
    <3>1. /\ item[n] # Null
          /\ item[n].data = rows[n] \/ (item[n].data = Null /\ disk[n] = rows[n])
      BY <2>1, <2>2, <2>3 DEF ContentsKept
    <3>2. n \in Numbers /\ rows[n] \in Hashes /\ rows[n] # Null
      BY RowNumbers, ThreadsAssumption DEF LockInv, LockTypes, TypeOK
    <3>3. CASE n = N(t)
      <4>1. d = rows[n]
        BY <1>4, <2>1, <3>1, <3>2, <3>3 DEF d
      <4> QED BY <1>6, <1>8, <3>3, <4>1 DEF ItemIs
    <3>4. CASE n # N(t)
      BY <1>8, <3>1, <3>2, <3>4 DEF ItemIs
    <3> QED BY <3>3, <3>4
  <2>4. OneFetch'
    BY <1>1, <1>10, <2>1 DEF OneFetch, WentTo, At
  <2> QED BY <1>2, <2>3, <2>4 DEF ContentsKept
<1> QED BY <1>11, <1>12, <1>13 DEF RestInv

----------------------------------------------------------------------------
(* The cache, after the commit.                                            *)

LEMMA CountRest ==
    ASSUME LockInv, RestInv, NEW t \in Threads, Count(t)
    PROVE  RestInv'
<1> DEFINE r == [th[t] EXCEPT !.at = "counted", !.use = item[N(t)].use]
<1>1. th[t] \in Request /\ th[t].at = "count"
  BY AtWork DEF Count, At, LockInv
<1>2. /\ th' = [th EXCEPT ![t] = r]
      /\ UNCHANGED <<rows, fileBlocks, info, item, disk, pos, raced>>
  <2>1. th' = [th EXCEPT ![t].at = "counted", ![t].use = item[N(t)].use]
    BY DEF Count
  <2> QED BY <2>1 DEF Count, tables, LockInv, LockTypes
<1>3. /\ r.at = "counted" /\ r.op = th[t].op /\ r.file = th[t].file /\ r.n = th[t].n
      /\ r.changed = th[t].changed /\ r.use = item[N(t)].use
  BY <1>1 DEF Request
<1> HIDE DEF r
<1>4. th'[t] = r /\ \A u \in Threads \ {t} : th'[u] = th[u]
  BY <1>2 DEF LockInv, LockTypes
<1>5. LocksStay(t) /\ NumsStay /\ DataStays
  BY <1>2, NothingTouched
<1>6. F(t)' = F(t) /\ N(t)' = N(t)
  BY <1>3, <1>4 DEF F, N
<1>7. HoldInv'
  <2>1. HoldsLocks(t) /\ ReadsBlock(t)
    BY DEF RestInv, HoldInv
  <2>2. HoldsLocks(t)' /\ ReadsBlock(t)' /\ ~At(t, "place")'
    BY <1>1, <1>2, <1>3, <1>4, <1>6, <2>1 DEF HoldsLocks, ReadsBlock, Reading, At, F
  <2> QED BY <1>4, <1>5, <2>2, HoldStep DEF RestInv
<1>8. UseInv'
  <2> SUFFICES ASSUME "count" \notin raced PROVE UsesKnown'
    BY <1>2 DEF UseInv
  <2>1. UsesKnown
    BY DEF RestInv, UseInv
  <2>2. /\ \A n : Users(n)' = Users(n) /\ Covered(n)' = Covered(n)
        /\ \A u \in Threads : Committed(u)' = Committed(u) /\ N(u)' = N(u)
    BY <1>1, <1>2, <1>3, <1>4, <1>6 DEF Users, Covered, Committed, N
  <2>3. BlocksKnown' /\ OnePending'
    BY <1>2, <2>1, <2>2 DEF UsesKnown, BlocksKnown, OnePending
  <2>4. Due(t)'
    <3>1. Committed(t)
      BY <1>1 DEF Committed
    <3>2. Due(t)
      BY <2>1, <3>1 DEF UsesKnown, UsesCovered
    <3> QED BY <1>1, <1>2, <1>3, <1>4, <1>6, <2>2, <3>2 DEF Due, At
  <2>5. \A u \in Threads \ {t} : Due(u) => Due(u)'
    BY <1>2, <1>4, <2>2 DEF Due, At
  <2>6. UsesCovered'
    BY <1>2, <2>1, <2>2, <2>4, <2>5 DEF UsesKnown, UsesCovered
  <2> QED BY <2>3, <2>6 DEF UsesKnown
<1>9. ContentInv'
  <2>1. \A u \in Threads : /\ At(u, "place") => At(u, "place")' /\ N(u)' = N(u)
                           /\ At(u, "fetch")' => At(u, "fetch") /\ N(u)' = N(u)
    BY <1>1, <1>3, <1>4 DEF At, N
  <2> QED BY <1>2, <1>5, <2>1, ContentStep DEF RestInv
<1> QED BY <1>7, <1>8, <1>9 DEF RestInv

\* A thread has done what was due.
LEMMA UsesSettled ==
    ASSUME LockInv, UseInv, NEW t \in Threads, Committed(t), WentIdle(t), NumsStay,
           UNCHANGED <<rows, fileBlocks, raced>>,
           \A n \in Numbers : n # N(t) => item'[n] = item[n],
           UsesKnown => item'[N(t)] # Null /\ Cardinality(Users(N(t))) =< item'[N(t)].use
    PROVE  UseInv'
<1> SUFFICES ASSUME "count" \notin raced PROVE UsesKnown'
  BY DEF UseInv
<1>1. UsesKnown
  BY DEF UseInv
<1>2. /\ \A n : Users(n)' = Users(n)
      /\ \A u \in Threads \ {t} : Committed(u)' = Committed(u) /\ N(u)' = N(u)
      /\ ~Committed(t)'
  BY IdleAt DEF Users, Committed, N, WentIdle
<1>3. BlocksKnown' /\ OnePending'
  BY <1>1, <1>2 DEF UsesKnown, BlocksKnown, OnePending, NumsStay
<1>4. DOMAIN rows \subseteq Numbers
  BY RowNumbers DEF LockInv
<1>5. ASSUME NEW n \in DOMAIN rows, \A u \in Threads : Committed(u)' => N(u)' # n
      PROVE  Covered(n)'
  <2>1. CASE n = N(t)
    BY <1>1, <1>2, <2>1 DEF Covered
  <2>2. CASE n # N(t)
    <3>1. Covered(n)
      BY <1>1, <1>2, <1>5, <2>2 DEF UsesKnown, UsesCovered
    <3>2. item'[n] = item[n]
      BY <1>4, <2>2
    <3> QED BY <1>2, <3>1, <3>2 DEF Covered
  <2> QED BY <2>1, <2>2
<1>6. ASSUME NEW u \in Threads, Committed(u)'
      PROVE  N(u)' \in DOMAIN rows' /\ Due(u)'
  <2>1. u # t /\ Committed(u) /\ N(u)' = N(u) /\ th'[u] = th[u]
    BY <1>2, <1>6 DEF WentIdle
  <2>2. N(u) \in DOMAIN rows /\ Due(u) /\ N(u) # N(t)
    BY <1>1, <2>1 DEF UsesKnown, UsesCovered, OnePending
  <2>3. item'[N(u)] = item[N(u)]
    BY <1>4, <2>2
  <2> QED BY <1>2, <2>1, <2>2, <2>3 DEF Due, At
<1> QED BY <1>1, <1>3, <1>5, <1>6 DEF UsesKnown, UsesCovered

\* A write unlocks its own block_info.
LEMMA UnlockedStays ==
    ASSUME LockInv, RestInv, NEW t \in Threads, th[t] \in Request,
           th[t].at \in {"count", "counted"}, Unlocked(t)
    PROVE  NumsStay /\ \A f \in Files, u \in Threads \ {t} : info[f].lock = u => info'[f].lock = u
<1>1. F(t) \in Files
  BY NumbersInUse DEF LockInv
<1>2. CASE th[t].op = "write"
  <2>1. info[F(t)].lock = t /\ info' = [info EXCEPT ![F(t)].lock = Null]
    BY <1>2 DEF RestInv, HoldInv, HoldsLocks, Unlocked
  <2>2. InfosKept /\ \A g \in Files \ {F(t)} : info'[g] = info[g]
    BY <1>1, <2>1, InfoUnlocks DEF LockInv, LockTypes, TypeOK
  <2> QED BY <2>1, <2>2 DEF InfosKept, NumsStay
<1>3. CASE th[t].op # "write"
  BY <1>3 DEF Unlocked, NumsStay
<1> QED BY <1>2, <1>3

LEMMA CountMissingRest ==
    ASSUME LockInv, RestInv, NEW t \in Threads, CountMissing(t)
    PROVE  RestInv'
<1>1. th[t] \in Request /\ th[t].at = "count" /\ item[N(t)] = Null
  BY AtWork DEF CountMissing, At, LockInv
<1>2. UNCHANGED <<rows, fileBlocks, item, disk, pos, raced>> /\ Unlocked(t)
  BY DEF CountMissing, tables
<1>3. WentIdle(t) /\ Committed(t)
  BY <1>1, GoesIdle DEF CountMissing, LockInv, Committed
<1>4. LocksStay(t) /\ NumsStay /\ DataStays
  BY <1>1, <1>2, UnlockedStays DEF LocksStay, DataStays
<1>5. HoldInv'
  BY <1>3, <1>4, EndsHold DEF RestInv
<1>6. ~UsesKnown
  BY <1>1, <1>3 DEF UsesKnown, UsesCovered, Due
<1>7. UseInv'
  BY <1>2, <1>3, <1>4, <1>6, UsesSettled DEF RestInv
<1>8. ContentInv'
  <2>1. \A u \in Threads : /\ At(u, "place") => At(u, "place")' /\ N(u)' = N(u)
                           /\ At(u, "fetch")' => At(u, "fetch") /\ N(u)' = N(u)
    BY <1>1, <1>3, IdleAt DEF At, N, WentIdle
  <2> QED BY <1>2, <1>4, <2>1, ContentStep DEF RestInv
<1> QED BY <1>5, <1>7, <1>8 DEF RestInv

LEMMA CountedRest ==
    ASSUME LockInv, RestInv, NEW t \in Threads, Counted(t)
    PROVE  RestInv'
<1> DEFINE use == IF th[t].op = "write" THEN th[t].use + 1 ELSE th[t].use - 1
           r == [item[N(t)] EXCEPT !.use = use]
<1>1. th[t] \in Request /\ th[t].at = "counted"
  BY AtWork DEF Counted, At, LockInv
<1>2. /\ UNCHANGED <<rows, fileBlocks, disk, pos, raced>> /\ Unlocked(t)
      /\ item' = [item EXCEPT ![N(t)].use = use]
  BY DEF Counted, tables
<1>3. WentIdle(t) /\ Committed(t)
  BY <1>1, GoesIdle DEF Counted, LockInv, Committed
<1>4. N(t) # 0 /\ N(t) \in Numbers /\ item[N(t)] \in Item
  BY <1>1, ObjectAtHand DEF LockInv, BlocksAtHand, AtHand
<1>5. use \in Int
  BY <1>1, RequestFields
<1> HIDE DEF use
<1>6. r \in Item /\ r.data = item[N(t)].data /\ r.use = use /\ r.lock = item[N(t)].lock
  BY <1>4, <1>5 DEF Item
<1>7. item' = [item EXCEPT ![N(t)] = r]
  BY <1>2, <1>4 DEF LockInv, LockTypes, TypeOK
<1> HIDE DEF r
<1>8. ItemIs(N(t), r) /\ r # Null
  BY <1>4, <1>6, <1>7, ItemChanges, ThreadsAssumption DEF LockInv
<1>9. LocksStay(t) /\ NumsStay /\ DataStays
  BY <1>1, <1>2, <1>4, <1>6, <1>8, UnlockedStays DEF ItemIs, LocksStay, DataStays
<1>10. HoldInv'
  BY <1>3, <1>9, EndsHold DEF RestInv
<1>11. UsesKnown => Cardinality(Users(N(t))) =< use
  <2> SUFFICES ASSUME UsesKnown PROVE Cardinality(Users(N(t))) =< use
    OBVIOUS
  <2>1. Due(t)
    BY <1>3 DEF UsesKnown, UsesCovered
  <2>2. Cardinality(Users(N(t))) \in Nat /\ item[N(t)].use \in Int
    BY <1>4, UsersFinite DEF Item
  <2> QED BY <1>1, <2>1, <2>2 DEF Due, At, use
<1>12. UseInv'
  BY <1>2, <1>3, <1>6, <1>8, <1>9, <1>11, UsesSettled DEF RestInv, ItemIs
<1>13. ContentInv'
  <2>1. \A u \in Threads : /\ At(u, "place") => At(u, "place")' /\ N(u)' = N(u)
                           /\ At(u, "fetch")' => At(u, "fetch") /\ N(u)' = N(u)
    BY <1>1, <1>3, IdleAt DEF At, N, WentIdle
  <2> QED BY <1>2, <1>9, <2>1, ContentStep DEF RestInv
<1> QED BY <1>10, <1>12, <1>13 DEF RestInv

LEMMA PlaceRest ==
    ASSUME LockInv, RestInv, NEW t \in Threads, Place(t)
    PROVE  RestInv'
<1> DEFINE r == [use |-> 1, data |-> th[t].hash, lock |-> Null]
           i == [info[F(t)] EXCEPT !.ref = TRUE, !.lock = Null]
<1>1. th[t] \in Request /\ th[t].at = "place" /\ th[t].op = "write" /\ th[t].hash \in Hashes
  BY AtWork DEF Place, At, LockInv, OpsInPlace
<1>2. /\ UNCHANGED <<rows, fileBlocks, disk, pos, raced>>
      /\ item' = [item EXCEPT ![N(t)] = r]
      /\ item[N(t)] # Null => item[N(t)].lock = Null
  BY DEF Place, tables
<1>3. WentIdle(t) /\ Committed(t)
  BY <1>1, GoesIdle DEF Place, LockInv, Committed
<1>4. N(t) # 0 /\ N(t) \in Numbers /\ F(t) \in Files /\ info[F(t)] \in Info
  BY <1>1, NumbersInUse DEF LockInv, BlocksAtHand, AtHand
<1>5. r \in Item /\ r.data = th[t].hash /\ r.use = 1
  BY <1>1 DEF Item, Contents
<1>6. i \in Info /\ i.num = info[F(t)].num
  BY <1>4 DEF Info
<1>7. info' = [info EXCEPT ![F(t)] = i] /\ info[F(t)].lock = t
  BY <1>1, <1>4 DEF Place, LockInv, LockTypes, TypeOK, RestInv, HoldInv, HoldsLocks
<1> HIDE DEF r, i
<1>8. ItemIs(N(t), r) /\ r # Null /\ InfoIs(F(t), i)
  BY <1>2, <1>4, <1>5, <1>6, <1>7, ItemChanges, InfoChanges, ThreadsAssumption DEF LockInv
<1>9. LocksStay(t) /\ NumsStay
  <2>1. \A u \in Threads : u # Null
    BY ThreadsAssumption
  <2> QED BY <1>2, <1>6, <1>7, <1>8, <2>1 DEF ItemIs, InfoIs, LocksStay, NumsStay
<1>10. HoldInv'
  BY <1>3, <1>9, EndsHold DEF RestInv
<1>11. UsesKnown => Due(t)
  BY <1>3 DEF UsesKnown, UsesCovered
<1>12. UseInv'
  <2>1. UsesKnown => item'[N(t)] # Null /\ Cardinality(Users(N(t))) =< item'[N(t)].use
    BY <1>1, <1>5, <1>8, <1>11 DEF Due, At, ItemIs
  <2> QED BY <1>2, <1>3, <1>8, <1>9, <2>1, UsesSettled DEF RestInv, ItemIs
<1>13. ContentInv'
  <2> SUFFICES ASSUME raced = {} PROVE ContentsKept' /\ OneFetch'
    BY <1>2 DEF ContentInv
  <2>1. ContentsKept /\ OneFetch /\ UsesKnown
    BY DEF RestInv, ContentInv, UseInv
  <2>2. th[t].hash = rows[N(t)]
    BY <1>1, <1>11, <2>1 DEF Due, At
  <2>3. \A u \in Threads : /\ u # t /\ At(u, "place") => At(u, "place")' /\ N(u)' = N(u)
                           /\ At(u, "fetch")' => At(u, "fetch") /\ N(u)' = N(u)
    BY <1>1, <1>3, IdleAt DEF At, N, WentIdle
  <2>4. OneFetch'
    BY <1>2, <2>1, <2>3 DEF OneFetch
  <2>5. ASSUME NEW n \in DOMAIN rows, \A u \in Threads : At(u, "place")' => N(u)' # n
        PROVE  /\ item'[n] # Null
               /\ item'[n].data = rows[n] \/ (item'[n].data = Null /\ disk[n] = rows[n])
    <3>1. CASE n = N(t)
      BY <1>5, <1>8, <2>2, <3>1 DEF ItemIs
    <3>2. CASE n # N(t)
      <4>1. /\ item[n] # Null
            /\ item[n].data = rows[n] \/ (item[n].data = Null /\ disk[n] = rows[n])
        BY <2>1, <2>3, <2>5, <3>2 DEF ContentsKept
      <4>2. item'[n] = item[n]
        BY <1>8, <3>2, RowNumbers DEF ItemIs, LockInv
      <4> QED BY <4>1, <4>2
    <3> QED BY <3>1, <3>2
  <2> QED BY <1>2, <2>4, <2>5 DEF ContentsKept
<1> QED BY <1>10, <1>12, <1>13 DEF RestInv

----------------------------------------------------------------------------
(* The commits.                                                            *)

\* Thread t has committed; who has the same file in hand sees it change.
CommitsTo(t, p, m) ==
    /\ th'[t].at = p /\ th'[t].op = th[t].op /\ th'[t].file = th[t].file /\ th'[t].n = m
    /\ th'[t].hash = th[t].hash
    /\ \A u \in Threads \ {t} :
          /\ th'[u].at = th[u].at /\ th'[u].op = th[u].op /\ th'[u].file = th[u].file
          /\ th'[u].n = th[u].n /\ th'[u].hash = th[u].hash /\ th'[u].use = th[u].use
          /\ th[u].at # "idle" => IF F(u) = F(t) THEN th'[u].changed
                                  ELSE th'[u].changed = th[u].changed

LEMMA CommitsGoes ==
    ASSUME LockInv, NEW t \in Threads, th[t] \in Request, NEW x, NEW m, NEW p,
           Commits(t, x, m, p)
    PROVE  CommitsTo(t, p, m)
<1> DEFINE r == [th[t] EXCEPT !.at = p, !.n = m]
           s(u) == [th[u] EXCEPT !.changed = TRUE]
<1>1. /\ r.at = p /\ r.op = th[t].op /\ r.file = th[t].file /\ r.n = m
      /\ r.hash = th[t].hash
  BY DEF Request
<1>2. ASSUME NEW u \in InHand
      PROVE  /\ s(u).at = th[u].at /\ s(u).op = th[u].op /\ s(u).file = th[u].file
             /\ s(u).n = th[u].n /\ s(u).hash = th[u].hash /\ s(u).use = th[u].use
             /\ s(u).changed = TRUE
  <2>1. th[u] \in Request
    BY AtWork DEF InHand, At, LockInv
  <2> QED BY <2>1 DEF Request
<1>3. th' = [u \in Threads |-> IF u = t THEN r
                              ELSE IF u \in InHand /\ F(u) = F(t) THEN s(u) ELSE th[u]]
  BY DEF Commits
<1> HIDE DEF r, s
<1>4. th'[t] = r
  BY <1>3
<1>5. \A u \in Threads \ {t} :
         th'[u] = IF u \in InHand /\ F(u) = F(t) THEN s(u) ELSE th[u]
  BY <1>3
<1>6. \A u \in Threads : u \in InHand <=> th[u].at # "idle"
  BY DEF InHand, At
<1> QED BY <1>1, <1>2, <1>4, <1>5, <1>6 DEF CommitsTo

LEMMA CommitHolds ==
    ASSUME LockInv, HoldInv, NEW t \in Threads, th[t].at = "body", th[t].op # "read",
           NEW m, NEW p \in {"count", "place"}, CommitsTo(t, p, m),
           LocksStay(t), \A f \in Files \ {F(t)} : info'[f].num = info[f].num,
           th[t].op = "write" => info'[F(t)].lock = t
    PROVE  HoldInv'
<1>1. \A u \in Threads \ {t} : HoldsLocks(u)'
  BY OthersHold DEF CommitsTo
<1>2. HoldsLocks(t)' /\ ReadsBlock(t)'
  BY DEF CommitsTo, HoldsLocks, ReadsBlock, Reading, At, F
<1>3. ASSUME NEW u \in Threads \ {t}
      PROVE  ReadsBlock(u)'
  <2> SUFFICES ASSUME Reading(u)'
               PROVE  /\ info'[F(u)'].num = N(u)'
                      /\ \A v \in Threads : At(v, "place")' => F(v)' # F(u)'
    BY DEF ReadsBlock
  <2>1. th[u].at # "idle" /\ F(u) # F(t) /\ Reading(u)
    BY DEF CommitsTo, Reading
  <2>2. F(u) \in Files /\ F(u)' = F(u) /\ N(u)' = N(u) /\ F(t)' = F(t)
    BY <2>1, AtWork, NumbersInUse DEF LockInv, CommitsTo, F, N
  <2>3. ReadsBlock(u)
    BY DEF HoldInv
  <2>4. \A v \in Threads \ {t} : At(v, "place")' => At(v, "place") /\ F(v)' = F(v)
    BY DEF CommitsTo, At, F
  <2> QED BY <2>1, <2>2, <2>3, <2>4 DEF ReadsBlock
<1> QED BY <1>1, <1>2, <1>3 DEF HoldInv

\* What a commit owes to the users of the blocks: those of the block that is
\* left get no more, and are counted.
LEMMA CommitUses ==
    ASSUME LockInv, UseInv, NEW t \in Threads, th[t].at = "body", NEW x,
           NEW p \in {"count", "place"}, NEW m, Commits(t, x, m, p), CommitsTo(t, p, m),
           NEW k, k = N(t),
           DOMAIN rows \subseteq DOMAIN rows', m \in DOMAIN rows',
           \A n \in DOMAIN rows' \ {m} : n \in DOMAIN rows /\ rows'[n] = rows[n],
           \A n \in Numbers : n # N(t) /\ item[n] # Null => item'[n] # Null /\ item'[n].use = item[n].use,
           UsesKnown => /\ BlocksKnown'
                        /\ (\A u \in Threads : Committed(u) => N(u) \notin {m, N(t)}) =>
                              /\ Due(t)'
                              /\ k \in DOMAIN rows /\ k # m => Covered(k)',
           UsesKnown => \A n \in DOMAIN rows \ {m} : Users(n)' \subseteq Users(n)
    PROVE  UseInv'
<1> SUFFICES ASSUME "count" \notin raced' PROVE UsesKnown'
  BY DEF UseInv
<1>1. UsesKnown /\ {m, N(t)} \cap Pending(t) = {}
  BY DEF Commits, UseInv
<1>2. \A u \in Threads \ {t} :
         /\ Committed(u)' = Committed(u) /\ N(u)' = N(u)
         /\ Committed(u) => N(u) \notin {m, N(t)}
  BY <1>1 DEF CommitsTo, Committed, N, Pending
<1>3. ~Committed(t) /\ Committed(t)' /\ N(t)' = m
  BY DEF CommitsTo, Committed, N
<1>4. BlocksKnown' /\ Due(t)' /\ (k \in DOMAIN rows /\ k # m => Covered(k)')
  BY <1>1, <1>2, <1>3
<1>5. OnePending'
  BY <1>1, <1>2, <1>3 DEF UsesKnown, OnePending
<1>6. DOMAIN rows \subseteq Numbers
  BY RowNumbers DEF LockInv
<1>7. ASSUME NEW n \in DOMAIN rows'
      PROVE  (\A u \in Threads : Committed(u)' => N(u)' # n) => Covered(n)'
  <2> SUFFICES ASSUME \A u \in Threads : Committed(u)' => N(u)' # n
               PROVE  Covered(n)'
    OBVIOUS
  <2>1. n # m /\ n \in DOMAIN rows
    BY <1>3
  <2>2. CASE n = N(t)
    BY <1>4, <2>1, <2>2
  <2>3. CASE n # N(t)
    <3>1. Covered(n)
      BY <1>1, <1>2, <1>3, <2>1 DEF UsesKnown, UsesCovered
    <3>2. Cardinality(Users(n)') =< Cardinality(Users(n))
      BY <1>1, <2>1, UsersFinite, FS_Subset
    <3>3. /\ item'[n] # Null /\ item'[n].use = item[n].use
          /\ item[n].use \in Int
      <4>1. item[n] \in Item
        BY <1>6, <2>1, <3>1 DEF Covered, LockInv, LockTypes, TypeOK
      <4> QED BY <1>6, <2>1, <2>3, <3>1, <4>1 DEF Covered, Item
    <3>4. Cardinality(Users(n)) \in Nat /\ Cardinality(Users(n)') \in Nat
      BY <1>1, <2>1, UsersFinite, FS_Subset, FS_CardinalityType
    <3> QED BY <3>1, <3>2, <3>3, <3>4 DEF Covered
  <2> QED BY <2>2, <2>3
<1>8. ASSUME NEW u \in Threads, Committed(u)', u # t
      PROVE  N(u)' \in DOMAIN rows' /\ Due(u)'
  <2>1. Committed(u) /\ N(u)' = N(u) /\ N(u) \notin {m, N(t)}
    BY <1>2, <1>8
  <2>2. PICK n \in DOMAIN rows : n = N(u)
    BY <1>1, <2>1 DEF UsesKnown, UsesCovered
  <2>3. Due(u) /\ n # m /\ n # N(t) /\ n \in DOMAIN rows'
    BY <1>1, <2>1, <2>2 DEF UsesKnown, UsesCovered
  <2>4. Cardinality(Users(n)') =< Cardinality(Users(n))
    BY <1>1, <2>3, UsersFinite, FS_Subset
  <2>5. Cardinality(Users(n)) \in Nat /\ Cardinality(Users(n)') \in Nat
    BY <1>1, <2>3, UsersFinite, FS_Subset, FS_CardinalityType
  <2>6. rows'[n] = rows[n]
    BY <2>3
  <2>7. item[n] # Null => item'[n] # Null /\ item'[n].use = item[n].use /\ item[n].use \in Int
    <3>1. item[n] # Null => item[n] \in Item
      BY <1>6 DEF LockInv, LockTypes, TypeOK
    <3> QED BY <1>6, <2>3, <3>1 DEF Item
  <2>8. /\ th'[u].at = th[u].at /\ th'[u].op = th[u].op
        /\ th'[u].use = th[u].use /\ th'[u].hash = th[u].hash
    BY <1>8 DEF CommitsTo
  <2>9. Due(u)'
    <3>1. At(u, "place")' => Cardinality(Users(n)') =< 1 /\ th'[u].hash = rows'[n]
      BY <2>2, <2>3, <2>4, <2>5, <2>6, <2>8 DEF Due, At
    <3>2. th'[u].at \in {"count", "counted"} => item'[n] # Null
      BY <2>2, <2>3, <2>7, <2>8 DEF Due
    <3>3. th'[u].at \in {"count", "counted"} /\ th'[u].op = "write"
             => Cardinality(Users(n)') =< item'[n].use + 1
      BY <2>2, <2>3, <2>4, <2>5, <2>7, <2>8 DEF Due
    <3>4. th'[u].at \in {"count", "counted"} /\ th'[u].op # "write"
             => Cardinality(Users(n)') + 1 =< item'[n].use
      BY <2>2, <2>3, <2>4, <2>5, <2>7, <2>8 DEF Due
    <3>5. At(u, "counted")' => th'[u].use = item'[n].use
      BY <2>2, <2>3, <2>7, <2>8 DEF Due, At
    <3>6. N(u)' = n
      BY <2>1, <2>2
    <3> QED BY <3>1, <3>2, <3>3, <3>4, <3>5, <3>6 DEF Due
  <2> QED BY <2>1, <2>2, <2>3, <2>9
<1>9. m \in DOMAIN rows'
  OBVIOUS
<1>10. UsesCovered'
  BY <1>3, <1>4, <1>7, <1>8, <1>9 DEF UsesCovered
<1> QED BY <1>4, <1>5, <1>10 DEF UsesKnown

LEMMA CommitContents ==
    ASSUME LockInv, ContentInv, NEW t \in Threads, th[t].at = "body", NEW x,
           NEW p \in {"count", "place"}, NEW m, Commits(t, x, m, p), CommitsTo(t, p, m),
           \A n \in DOMAIN rows' : (p = "place" => n # m) => n \in DOMAIN rows /\ rows'[n] = rows[n],
           DataStays
    PROVE  ContentInv'
<1> SUFFICES ASSUME raced' = {} PROVE ContentsKept' /\ OneFetch'
  BY DEF ContentInv
<1>1. ContentsKept /\ OneFetch /\ UNCHANGED <<disk, pos>>
  BY DEF ContentInv, Commits
<1>2. \A u \in Threads : /\ At(u, "place") => At(u, "place")' /\ N(u)' = N(u)
                         /\ At(u, "fetch")' => At(u, "fetch") /\ N(u)' = N(u)
  BY DEF CommitsTo, At, N
<1>3. p = "place" => At(t, "place")' /\ N(t)' = m
  BY DEF CommitsTo, At, N
<1>4. DOMAIN rows \subseteq Numbers
  BY RowNumbers DEF LockInv
<1>5. ContentsKept'
  <2> SUFFICES ASSUME NEW n \in DOMAIN rows', \A u \in Threads : At(u, "place")' => N(u)' # n
               PROVE  /\ item'[n] # Null
                      /\ item'[n].data = rows'[n] \/ (item'[n].data = Null /\ disk'[n] = rows'[n])
    BY DEF ContentsKept
  <2>1. n \in DOMAIN rows /\ rows'[n] = rows[n]
    BY <1>3
  <2>2. /\ item[n] # Null
        /\ item[n].data = rows[n] \/ (item[n].data = Null /\ disk[n] = rows[n])
    BY <1>1, <1>2, <2>1 DEF ContentsKept
  <2> QED BY <1>1, <1>4, <2>1, <2>2 DEF DataStays
<1>6. OneFetch'
  BY <1>1, <1>2 DEF OneFetch
<1> QED BY <1>5, <1>6

LEMMA OneLess ==
    ASSUME NEW S, IsFiniteSet(S), NEW e \in S, NEW R, R \subseteq S \ {e}
    PROVE  IsFiniteSet(R) /\ Cardinality(R) \in Nat /\ Cardinality(R) + 1 =< Cardinality(S)
<1>1. /\ IsFiniteSet(S \ {e}) /\ Cardinality(S \ {e}) = Cardinality(S) - 1
      /\ Cardinality(S) \in Nat
  BY FS_RemoveElement, FS_CardinalityType
<1>2. IsFiniteSet(R) /\ Cardinality(R) =< Cardinality(S \ {e}) /\ Cardinality(R) \in Nat
  BY <1>1, FS_Subset, FS_CardinalityType
<1> QED BY <1>1, <1>2

LEMMA OneMore ==
    ASSUME NEW S, IsFiniteSet(S), NEW e, NEW R, R \subseteq S \cup {e}
    PROVE  IsFiniteSet(R) /\ Cardinality(R) \in Nat /\ Cardinality(R) =< Cardinality(S) + 1
<1>1. /\ IsFiniteSet(S \cup {e}) /\ Cardinality(S) \in Nat
      /\ Cardinality(S \cup {e}) = Cardinality(S) \/ Cardinality(S \cup {e}) = Cardinality(S) + 1
  BY FS_AddElement, FS_CardinalityType
<1>2. /\ IsFiniteSet(R) /\ Cardinality(R) =< Cardinality(S \cup {e}) /\ Cardinality(R) \in Nat
  BY <1>1, FS_Subset, FS_CardinalityType
<1> QED BY <1>1, <1>2

\* A writer's file uses the block that it is about to leave.
LEMMA WriterUses ==
    ASSUME LockInv, UsesKnown, NEW t \in Threads, th[t] \in Request, th[t].at = "body",
           th[t].op = "write", N(t) # 0
    PROVE  F(t) \in Users(N(t)) /\ N(t) \in DOMAIN rows /\ info[F(t)].num = N(t)
<1>1. F(t) \in Files /\ info[F(t)].num = N(t)
  BY NumbersInUse DEF LockInv, BlocksAtHand, OwnAtHand
<1> QED BY <1>1 DEF UsesKnown, BlocksKnown, Users

\* A record of Item with one use less, unlocked.
LEMMA UseLess ==
    ASSUME NEW r \in Item
    PROVE  LET s == [r EXCEPT !.use = @ - 1, !.lock = Null]
           IN  s \in Item /\ s.use = r.use - 1 /\ s.data = r.data /\ r.use \in Int
<1>1. r.use \in Int /\ r.use - 1 \in Int
  BY DEF Item
<1> QED BY <1>1 DEF Item

\* Its use and its lock go.
LEMMA LeftStays ==
    ASSUME LockInv, HoldInv, NEW t \in Threads, th[t] \in Request, th[t].at = "body",
           LeavesObject(t), NEW k, k = N(t)
    PROVE  /\ \A n \in Numbers : n # k => item'[n] = item[n]
           /\ k # 0 => item'[k] # Null /\ item'[k].use = item[k].use - 1 /\ item[k].use \in Int
           /\ DataStays
           /\ \A n \in Numbers, u \in Threads \ {t} :
                 item[n] # Null /\ item[n].lock = u
                    => item'[n] # Null /\ item'[n].lock = u /\ item'[n].data = item[n].data
<1>1. CASE N(t) = 0
  <2>1. \A n \in Numbers : N(t) # n
    BY <1>1, ThreadsAssumption DEF Numbers
  <2> QED BY <1>1, <2>1 DEF LeavesObject, DataStays
<1>2. CASE N(t) # 0
  <2> DEFINE r == [item[N(t)] EXCEPT !.use = @ - 1, !.lock = Null]
  <2>1. N(t) \in Numbers /\ item[N(t)] \in Item /\ item[N(t)].lock = t
    BY <1>2, ObjectAtHand DEF HoldInv, HoldsLocks, At
  <2>2. /\ r \in Item /\ r.use = item[N(t)].use - 1 /\ r.data = item[N(t)].data
        /\ item[N(t)].use \in Int
    BY <2>1, UseLess
  <2>3. item' = [item EXCEPT ![N(t)] = r]
    BY <1>2, <2>1 DEF LeavesObject, LockInv, LockTypes, TypeOK
  <2> HIDE DEF r
  <2>4. ItemIs(N(t), r) /\ r # Null
    BY <2>1, <2>2, <2>3, ItemChanges, ThreadsAssumption DEF LockInv
  <2> QED BY <2>1, <2>2, <2>4 DEF ItemIs, DataStays
<1> QED BY <1>1, <1>2

\* A block that a new user takes for himself has only him.
LEMMA OneUser ==
    ASSUME NEW f \in Files, NEW S \in SUBSET {f}
    PROVE  Cardinality(S) \in Nat /\ Cardinality(S) =< 1
<1>1. IsFiniteSet({f}) /\ Cardinality({f}) = 1
  BY FS_Singleton
<1> QED BY <1>1, FS_Subset, FS_CardinalityType

\* No file has a content that no row has.
LEMMA UnknownUnused ==
    ASSUME LockInv, BlocksKnown, NEW x \in Hashes, ~Known(x), NEW g \in Files
    PROVE  fileBlocks[g] # x
  BY ThreadsAssumption DEF BlocksKnown, Known, LockInv, LockTypes, TypeOK

\* The use of the block that a writer leaves for another one is counted off.
LEMMA LeftCovered ==
    ASSUME LockInv, UsesKnown, NEW t \in Threads, th[t] \in Request, th[t].at = "body",
           th[t].op = "write", NEW k, k = N(t), NEW f, f = F(t), k \in DOMAIN rows, Covered(k),
           Users(k)' \subseteq Users(k) \ {f},
           k # 0 => item'[k] # Null /\ item'[k].use = item[k].use - 1 /\ item[k].use \in Int
    PROVE  Covered(k)'
<1>1. k # 0
  BY RowNumbers DEF LockInv
<1>2. f \in Users(k)
  BY <1>1, WriterUses
<1>3. Cardinality(Users(k)') \in Nat /\ Cardinality(Users(k)') + 1 =< Cardinality(Users(k))
  BY <1>2, UsersFinite, OneLess
<1>4. Cardinality(Users(k)) =< item[k].use /\ Cardinality(Users(k)) \in Nat
  BY UsersFinite DEF Covered
<1> QED BY <1>1, <1>3, <1>4 DEF Covered

LEMMA TwoMembers ==
    ASSUME NEW S, IsFiniteSet(S), NEW a \in S, NEW b \in S, a # b
    PROVE  ~(Cardinality(S) =< 1)
<1>1. IsFiniteSet({b}) /\ Cardinality({b}) = 1
  BY FS_Singleton
<1>2. {b} \subseteq S \ {a}
  OBVIOUS
<1> QED BY <1>1, <1>2, OneLess, FS_CardinalityType

LEMMA ReplacePresentRest ==
    ASSUME LockInv, RestInv, NEW t \in Threads, ReplacePresent(t)
    PROVE  RestInv'
<1>1. /\ th[t] \in Request /\ th[t].at = "body" /\ th[t].op = "write" /\ F(t) \in Files
      /\ Known(th[t].hash)
  BY AtWork, NumbersInUse DEF ReplacePresent, At, LockInv
<1>2. PICK x : x = th[t].hash
  OBVIOUS
<1>3. PICK k : k = N(t)
  OBVIOUS
<1>4. PICK m \in DOMAIN rows : m = IdOf(x) /\ rows[m] = x
  BY <1>1, <1>2 DEF Known, IdOf
<1>5. PICK f \in Files : f = F(t)
  BY <1>1
<1>6. Commits(t, x, m, "count") /\ LeavesObject(t) /\ UNCHANGED rows
  BY <1>2, <1>4 DEF ReplacePresent
<1>7. CommitsTo(t, "count", m)
  BY <1>1, <1>6, CommitsGoes
<1>8. /\ fileBlocks' = [fileBlocks EXCEPT ![f] = x]
      /\ fileBlocks \in [Files -> Hashes \cup {Null}]
      /\ \A i, j \in DOMAIN rows : rows[i] = rows[j] => i = j
  BY <1>5, <1>6 DEF Commits, LockInv, LockTypes, TypeOK
<1> DEFINE r == [info[f] EXCEPT !.num = m, !.ref = FALSE]
<1>9. m \in Numbers /\ m # 0 /\ m \in 0..MaxRows /\ info[f] \in Info
  BY <1>1, <1>4, <1>5, RowNumbers, NumbersInUse, ThreadsAssumption DEF Numbers, LockInv
<1>10. r \in Info /\ r.num = m /\ r.lock = info[f].lock
  BY <1>9, InfoNumbered
<1>11. info' = [info EXCEPT ![f] = r]
  BY <1>2, <1>4, <1>5 DEF ReplacePresent, LockInv, LockTypes, TypeOK
<1> HIDE DEF r
<1>12. InfoIs(f, r)
  BY <1>10, <1>11, InfoChanges DEF LockInv
<1>13. /\ \A n \in Numbers : n # k => item'[n] = item[n]
       /\ k # 0 => item'[k] # Null /\ item'[k].use = item[k].use - 1 /\ item[k].use \in Int
       /\ DataStays
       /\ \A n \in Numbers, u \in Threads \ {t} :
             item[n] # Null /\ item[n].lock = u
                => item'[n] # Null /\ item'[n].lock = u /\ item'[n].data = item[n].data
  BY <1>1, <1>3, <1>6, LeftStays DEF RestInv
<1>14. HoldInv'
  <2>1. LocksStay(t)
    BY <1>10, <1>12, <1>13 DEF LocksStay, InfoIs
  <2>2. info[f].lock = t
    BY <1>1, <1>5 DEF RestInv, HoldInv, HoldsLocks
  <2> QED BY <1>1, <1>5, <1>7, <1>10, <1>12, <2>1, <2>2, CommitHolds DEF RestInv, InfoIs
<1>15. \A n \in DOMAIN rows \ {m} : Users(n)' \subseteq Users(n) \ {f}
  BY <1>4, <1>6, <1>8 DEF Users
<1>16. UsesKnown => BlocksKnown'
  BY <1>4, <1>6, <1>8, <1>9, <1>10, <1>12 DEF UsesKnown, BlocksKnown, InfoIs
<1>17. UsesKnown /\ (\A u \in Threads : Committed(u) => N(u) \notin {m, N(t)})
          => Due(t)' /\ (k \in DOMAIN rows /\ k # m => Covered(k)')
  <2> SUFFICES ASSUME UsesKnown, \A u \in Threads : Committed(u) => N(u) \notin {m, k}
               PROVE  Due(t)' /\ (k \in DOMAIN rows /\ k # m => Covered(k)')
    BY <1>3
  <2>1. k # 0 => f \in Users(k) /\ k \in DOMAIN rows
    BY <1>1, <1>3, <1>5, WriterUses
  <2>2. Covered(m) /\ (k # 0 => Covered(k))
    BY <1>3, <2>1 DEF UsesKnown, UsesCovered
  <2>3. k \in DOMAIN rows => k # 0
    BY RowNumbers DEF LockInv
  <2>4. k \in DOMAIN rows /\ k # m => Covered(k)'
    <3> SUFFICES ASSUME k \in DOMAIN rows, k # m PROVE Covered(k)'
      OBVIOUS
    <3> QED BY <1>1, <1>3, <1>5, <1>13, <1>15, <2>2, <2>3, LeftCovered
  <2>5. Users(m)' \subseteq Users(m) \cup {f}
    BY <1>4, <1>6, <1>8 DEF Users
  <2>6. Cardinality(Users(m)') =< item'[m].use + 1 /\ item'[m] # Null
    <3>1. /\ Cardinality(Users(m)) =< item[m].use /\ Cardinality(Users(m)) \in Nat
          /\ item[m] # Null /\ item[m].use \in Int
      <4>1. Covered(m) /\ item[m] \in Item
        BY <1>9, <2>2 DEF Covered, LockInv, LockTypes, TypeOK
      <4> QED BY <4>1, UsersFinite DEF Covered, Item
    <3>2. CASE m = k
      <4>1. k # 0
        BY <1>9, <3>2
      <4>2. Users(m)' \subseteq Users(m)
        BY <2>1, <2>5, <3>2, <4>1
      <4>3. Cardinality(Users(m)') =< Cardinality(Users(m)) /\ Cardinality(Users(m)') \in Nat
        BY <4>2, UsersFinite, FS_Subset, FS_CardinalityType
      <4> QED BY <1>13, <3>1, <3>2, <4>1, <4>3
    <3>3. CASE m # k
      <4>1. Cardinality(Users(m)') =< Cardinality(Users(m)) + 1 /\ Cardinality(Users(m)') \in Nat
        BY <2>5, UsersFinite, OneMore
      <4> QED BY <1>9, <1>13, <3>1, <3>3, <4>1
    <3> QED BY <3>2, <3>3
  <2>7. Due(t)'
    BY <1>1, <1>7, <2>6 DEF Due, CommitsTo, At, N
  <2> QED BY <2>4, <2>7
<1>18. UseInv'
  <2>1. \A n \in Numbers : n # N(t) /\ item[n] # Null => item'[n] # Null /\ item'[n].use = item[n].use
    BY <1>3, <1>13
  <2>2. \A n \in DOMAIN rows \ {m} : Users(n)' \subseteq Users(n)
    BY <1>15
  <2>3. UsesKnown /\ (\A u \in Threads : Committed(u) => N(u) \notin {m, N(t)})
           => Due(t)' /\ (k \in DOMAIN rows /\ k # m => Covered(k)')
    BY <1>17
  <2>4. UseInv
    BY DEF RestInv
  <2> QED BY <1>1, <1>3, <1>6, <1>7, <1>16, <2>1, <2>2, <2>3, <2>4, CommitUses
<1>19. ContentInv'
  BY <1>1, <1>6, <1>7, <1>13, CommitContents DEF RestInv
<1> QED BY <1>14, <1>18, <1>19 DEF RestInv

LEMMA ReplaceInsertRest ==
    ASSUME LockInv, RestInv, NEW t \in Threads, ReplaceInsert(t)
    PROVE  RestInv'
<1>1. /\ th[t] \in Request /\ th[t].at = "body" /\ th[t].op = "write" /\ F(t) \in Files
      /\ ~Known(th[t].hash) /\ th[t].hash \in Hashes
  BY AtWork, NumbersInUse DEF ReplaceInsert, At, LockInv, OpsInPlace
<1>2. PICK x \in Hashes : x = th[t].hash
  BY <1>1
<1>3. PICK k : k = N(t)
  OBVIOUS
<1>4. PICK m \in Nat : m = Len(rows) + 1
  BY DEF LockInv, LockTypes, TypeOK
<1>5. PICK f \in Files : f = F(t)
  BY <1>1
<1>6. Commits(t, x, m, "place") /\ LeavesObject(t) /\ rows' = Append(rows, x) /\ Len(rows) < MaxRows
  BY <1>2, <1>4 DEF ReplaceInsert
<1>7. CommitsTo(t, "place", m)
  BY <1>1, <1>6, CommitsGoes
<1>8. /\ fileBlocks' = [fileBlocks EXCEPT ![f] = x]
      /\ fileBlocks \in [Files -> Hashes \cup {Null}]
      /\ rows \in Seq(Hashes)
  BY <1>5, <1>6 DEF Commits, LockInv, LockTypes, TypeOK
<1>9. /\ DOMAIN rows' = DOMAIN rows \cup {m} /\ m \notin DOMAIN rows /\ rows'[m] = x
      /\ \A n \in DOMAIN rows : rows'[n] = rows[n]
  BY <1>4, <1>6, <1>8
<1> DEFINE r == [info[f] EXCEPT !.num = m, !.ref = FALSE]
<1>10. m \in Numbers /\ m # 0 /\ m \in 0..MaxRows /\ info[f] \in Info
  BY <1>1, <1>4, <1>5, <1>6, <1>8, NumbersInUse, ThreadsAssumption DEF Numbers, LockInv
<1>11. r \in Info /\ r.num = m /\ r.lock = info[f].lock
  BY <1>10, InfoNumbered
<1>12. info' = [info EXCEPT ![f] = r]
  BY <1>2, <1>4, <1>5 DEF ReplaceInsert, LockInv, LockTypes, TypeOK
<1> HIDE DEF r
<1>13. InfoIs(f, r)
  BY <1>11, <1>12, InfoChanges DEF LockInv
<1>14. /\ \A n \in Numbers : n # k => item'[n] = item[n]
       /\ k # 0 => item'[k] # Null /\ item'[k].use = item[k].use - 1 /\ item[k].use \in Int
       /\ DataStays
       /\ \A n \in Numbers, u \in Threads \ {t} :
             item[n] # Null /\ item[n].lock = u
                => item'[n] # Null /\ item'[n].lock = u /\ item'[n].data = item[n].data
  BY <1>1, <1>3, <1>6, LeftStays DEF RestInv
<1>15. HoldInv'
  <2>1. LocksStay(t)
    BY <1>11, <1>13, <1>14 DEF LocksStay, InfoIs
  <2>2. info[f].lock = t
    BY <1>1, <1>5 DEF RestInv, HoldInv, HoldsLocks
  <2> QED BY <1>1, <1>5, <1>7, <1>11, <1>13, <2>1, <2>2, CommitHolds DEF RestInv, InfoIs
<1>16. UsesKnown => /\ Users(m)' \subseteq {f}
                    /\ \A n \in DOMAIN rows : Users(n)' \subseteq Users(n) \ {f}
  <2> SUFFICES ASSUME UsesKnown
               PROVE  /\ Users(m)' \subseteq {f}
                      /\ \A n \in DOMAIN rows : Users(n)' \subseteq Users(n) \ {f}
    OBVIOUS
  <2>1. \A g \in Files : fileBlocks[g] # x
    BY <1>1, <1>2, UnknownUnused DEF UsesKnown
  <2>2. \A n \in DOMAIN rows : rows[n] # x
    BY <1>1, <1>2 DEF Known
  <2> QED BY <1>8, <1>9, <2>1, <2>2 DEF Users
<1>17. UsesKnown => BlocksKnown'
  BY <1>8, <1>9, <1>10, <1>11, <1>13 DEF UsesKnown, BlocksKnown, InfoIs
<1>18. UsesKnown /\ (\A u \in Threads : Committed(u) => N(u) \notin {m, N(t)})
          => Due(t)' /\ (k \in DOMAIN rows /\ k # m => Covered(k)')
  <2> SUFFICES ASSUME UsesKnown, \A u \in Threads : Committed(u) => N(u) \notin {m, k}
               PROVE  Due(t)' /\ (k \in DOMAIN rows => Covered(k)')
    BY <1>3
  <2>1. k \in DOMAIN rows => Covered(k)'
    <3> SUFFICES ASSUME k \in DOMAIN rows PROVE Covered(k)'
      OBVIOUS
    <3>1. Covered(k)
      BY DEF UsesKnown, UsesCovered
    <3> QED BY <1>1, <1>3, <1>5, <1>14, <1>16, <3>1, LeftCovered
  <2>2. Cardinality(Users(m)') =< 1
    BY <1>16, OneUser
  <2>3. Due(t)'
    BY <1>1, <1>2, <1>7, <1>9, <2>2 DEF Due, CommitsTo, At, N
  <2> QED BY <2>1, <2>3
<1>19. UseInv'
  <2>1. \A n \in Numbers : n # N(t) /\ item[n] # Null => item'[n] # Null /\ item'[n].use = item[n].use
    BY <1>3, <1>14
  <2>2. UsesKnown => \A n \in DOMAIN rows \ {m} : Users(n)' \subseteq Users(n)
    BY <1>16
  <2>3. UsesKnown /\ (\A u \in Threads : Committed(u) => N(u) \notin {m, N(t)})
           => Due(t)' /\ (k \in DOMAIN rows /\ k # m => Covered(k)')
    BY <1>18
  <2>4. UseInv
    BY DEF RestInv
  <2> QED BY <1>1, <1>3, <1>7, <1>6, <1>9, <1>17, <2>1, <2>2, <2>3, <2>4, CommitUses
<1>20. ContentInv'
  BY <1>1, <1>6, <1>7, <1>9, <1>14, CommitContents DEF RestInv
<1> QED BY <1>15, <1>19, <1>20 DEF RestInv

LEMMA ReplaceInPlaceRest ==
    ASSUME LockInv, RestInv, NEW t \in Threads, ReplaceInPlace(t)
    PROVE  RestInv'
<1>1. /\ th[t] \in Request /\ th[t].at = "body" /\ th[t].op = "write" /\ F(t) \in Files
      /\ ~Known(th[t].hash) /\ th[t].hash \in Hashes /\ N(t) # 0 /\ item[N(t)].use = 1
  BY AtWork, NumbersInUse DEF ReplaceInPlace, InPlaceAllowed, At, LockInv, OpsInPlace
<1>2. PICK x \in Hashes : x = th[t].hash
  BY <1>1
<1>3. PICK k \in Numbers : k = N(t)
  BY <1>1, ObjectAtHand DEF LockInv
<1>4. PICK f \in Files : f = F(t)
  BY <1>1
<1>5. /\ Commits(t, x, k, "place") /\ rows' = [rows EXCEPT ![k] = x]
      /\ item' = [item EXCEPT ![k].lock = Null] /\ UNCHANGED info
  BY <1>2, <1>3 DEF ReplaceInPlace
<1>6. CommitsTo(t, "place", k)
  BY <1>1, <1>5, CommitsGoes
<1>7. /\ fileBlocks' = [fileBlocks EXCEPT ![f] = x]
      /\ fileBlocks \in [Files -> Hashes \cup {Null}]
      /\ \A i, j \in DOMAIN rows : rows[i] = rows[j] => i = j
  BY <1>4, <1>5 DEF Commits, LockInv, LockTypes, TypeOK
<1>8. /\ DOMAIN rows' = DOMAIN rows /\ \A n \in DOMAIN rows \ {k} : rows'[n] = rows[n]
      /\ k \in DOMAIN rows => rows'[k] = x
  BY <1>5
<1>9. LocksStay(t) /\ NumsStay /\ UsesStay /\ DataStays
  <2>1. item[k] \in Item /\ item[k].lock = t
    BY <1>1, <1>3, ObjectAtHand DEF LockInv, RestInv, HoldInv, HoldsLocks, At
  <2> QED BY <1>5, <2>1, RelockedStays
<1>10. HoldInv'
  <2>1. info'[f].lock = t
    BY <1>1, <1>4, <1>5 DEF RestInv, HoldInv, HoldsLocks
  <2> QED BY <1>1, <1>4, <1>6, <1>5, <1>9, <2>1, CommitHolds DEF RestInv, NumsStay
<1>11. ContentInv'
  BY <1>1, <1>5, <1>6, <1>8, <1>9, CommitContents DEF RestInv
<1>12. UseInv'
  <2> SUFFICES ASSUME "count" \notin raced' PROVE UseInv'
    BY DEF UseInv
  <2>1. UsesKnown /\ \A u \in Threads : Committed(u) => N(u) # k
    <3>1. UsesKnown /\ k \notin Pending(t)
      BY <1>5 DEF Commits, RestInv, UseInv
    <3> QED BY <1>1, <3>1 DEF Pending, Committed
  <2>2. f \in Users(k) /\ k \in DOMAIN rows
    BY <1>1, <1>3, <1>4, <2>1, WriterUses
  <2>3. \A g \in Files : fileBlocks[g] # x
    BY <1>1, <1>2, <2>1, UnknownUnused DEF UsesKnown
  <2>4. Users(k)' \subseteq {f} /\ \A n \in DOMAIN rows \ {k} : Users(n)' \subseteq Users(n)
    <3>1. Users(k)' \subseteq {f}
      BY <1>7, <1>8, <2>2, <2>3 DEF Users
    <3>2. \A n \in DOMAIN rows : rows[n] # x
      BY <1>1, <1>2 DEF Known
    <3> QED BY <1>7, <1>8, <3>1, <3>2 DEF Users
  <2>5. Users(k) \subseteq {f}
    <3> SUFFICES ASSUME NEW g \in Users(k), g # f PROVE FALSE
      OBVIOUS
    <3>1. /\ IsFiniteSet(Users(k)) /\ Cardinality(Users(k)) =< 1
      BY <1>1, <1>3, <2>1, <2>2, UsersFinite DEF UsesKnown, UsesCovered, Covered
    <3> QED BY <2>2, <3>1, TwoMembers
  <2>6. BlocksKnown'
    <3> SUFFICES ASSUME NEW g \in Files
                 PROVE  /\ info[g].num = 0 => fileBlocks'[g] = Null
                        /\ info[g].num # 0 => /\ info[g].num \in DOMAIN rows'
                                              /\ fileBlocks'[g] = rows'[info[g].num]
      BY <1>5 DEF BlocksKnown
    <3>1. /\ info[g].num = 0 => fileBlocks[g] = Null
          /\ info[g].num # 0 => info[g].num \in DOMAIN rows /\ fileBlocks[g] = rows[info[g].num]
      BY <2>1 DEF UsesKnown, BlocksKnown
    <3>2. info[f].num = k /\ k # 0
      BY <1>1, <1>3, <1>4, <2>1, WriterUses
    <3>3. g # f => info[g].num # k
      BY <2>5, <3>1, <3>2 DEF Users
    <3> QED BY <1>7, <1>8, <2>2, <3>1, <3>2, <3>3
  <2>7. Due(t)'
    <3>1. Cardinality(Users(k)') =< 1
      BY <2>4, OneUser
    <3> QED BY <1>2, <1>6, <1>8, <2>2, <3>1 DEF Due, CommitsTo, At, N
  <2>8. UsesKnown => /\ BlocksKnown'
                     /\ (\A u \in Threads : Committed(u) => N(u) \notin {k, N(t)}) =>
                           Due(t)' /\ (k \in DOMAIN rows /\ k # k => Covered(k)')
    BY <2>6, <2>7
  <2>9. \A n \in Numbers : n # N(t) /\ item[n] # Null => item'[n] # Null /\ item'[n].use = item[n].use
    BY <1>9 DEF UsesStay
  <2>10. UseInv
    BY DEF RestInv
  <2> QED BY <1>1, <1>3, <1>5, <1>6, <1>8, <2>2, <2>4, <2>8, <2>9, <2>10, CommitUses
<1> QED BY <1>10, <1>11, <1>12 DEF RestInv

LEMMA ReleaseRest ==
    ASSUME LockInv, RestInv, NEW t \in Threads, Release(t)
    PROVE  RestInv'
<1>1. /\ th[t] \in Request /\ th[t].at = "body" /\ th[t].op = "truncate" /\ F(t) \in Files
      /\ N(t) = 0
  BY AtWork, NumbersInUse DEF Release, At, LockInv, OpsInPlace
<1>2. PICK f \in Files : f = F(t)
  BY <1>1
<1>3. PICK m \in Numbers : m = info[f].num
  BY <1>1, <1>2, NumbersInUse DEF LockInv, BlocksAtHand, OwnAtHand
<1>4. /\ Commits(t, Null, m, "count") /\ UNCHANGED <<rows, item>>
      /\ info' = [info EXCEPT ![f] = Empty]
  BY <1>2, <1>3 DEF Release
<1>5. CommitsTo(t, "count", m)
  BY <1>1, <1>4, CommitsGoes
<1>6. /\ fileBlocks' = [fileBlocks EXCEPT ![f] = Null]
      /\ fileBlocks \in [Files -> Hashes \cup {Null}]
      /\ rows \in Seq(Hashes)
  BY <1>2, <1>4 DEF Commits, LockInv, LockTypes, TypeOK
<1>7. InfoIs(f, Empty) /\ Empty.num = 0
  <2>1. Empty \in Info /\ Empty.num = 0
    BY ThreadsAssumption DEF Empty, Info
  <2> QED BY <1>4, <2>1, InfoChanges DEF LockInv
<1>8. DataStays
  BY <1>4 DEF DataStays
<1>9. HoldInv'
  <2>1. \A u \in Threads \ {t} : info[f].lock # u
    BY <1>1, <1>2, IdleAt DEF LockInv, Holders, OneWriter, At
  <2>2. LocksStay(t)
    BY <1>4, <1>7, <2>1 DEF LocksStay, InfoIs
  <2>3. \A g \in Files \ {F(t)} : info'[g].num = info[g].num
    BY <1>2, <1>7 DEF InfoIs
  <2> QED BY <1>1, <1>5, <2>2, <2>3, CommitHolds DEF RestInv
<1>10. ContentInv'
  BY <1>1, <1>4, <1>5, <1>8, CommitContents DEF RestInv
<1>11. UseInv'
  <2> SUFFICES ASSUME "count" \notin raced' PROVE UseInv'
    BY DEF UseInv
  <2>1. UsesKnown /\ \A u \in Threads : Committed(u) => N(u) # m
    <3>1. UsesKnown /\ m \notin Pending(t)
      BY <1>4 DEF Commits, RestInv, UseInv
    <3> QED BY <1>1, <3>1 DEF Pending, Committed
  <2>2. m \in DOMAIN rows /\ f \in Users(m) /\ m # 0
    <3>1. m # 0
      BY ThreadsAssumption DEF Numbers
    <3> QED BY <1>3, <2>1, <3>1 DEF UsesKnown, BlocksKnown, Users
  <2>3. \A n \in DOMAIN rows : Users(n)' \subseteq Users(n) \ {f}
    <3>1. \A n \in DOMAIN rows : rows[n] # Null
      BY <1>6, ThreadsAssumption
    <3> QED BY <1>4, <1>6, <3>1 DEF Users
  <2>4. BlocksKnown'
    BY <1>4, <1>6, <1>7, <2>1 DEF UsesKnown, BlocksKnown, InfoIs
  <2>5. Due(t)'
    <3>1. Cardinality(Users(m)') + 1 =< Cardinality(Users(m)) /\ Cardinality(Users(m)') \in Nat
      BY <2>2, <2>3, UsersFinite, OneLess
    <3>2. item[m] # Null /\ Cardinality(Users(m)) =< item[m].use /\ Cardinality(Users(m)) \in Nat
      BY <2>1, <2>2, UsersFinite DEF UsesKnown, UsesCovered, Covered
    <3>3. item[m].use \in Int
      BY <1>3, <3>2 DEF LockInv, LockTypes, TypeOK, Item
    <3>4. Cardinality(Users(m)') + 1 =< item'[m].use /\ item'[m] # Null
      BY <1>4, <3>1, <3>2, <3>3
    <3> QED BY <1>1, <1>5, <3>4 DEF Due, CommitsTo, At, N
  <2>6. N(t) \notin DOMAIN rows
    BY <1>1, <1>6
  <2>7. UsesKnown => /\ BlocksKnown'
                     /\ (\A u \in Threads : Committed(u) => N(u) \notin {m, N(t)}) =>
                           Due(t)' /\ (0 \in DOMAIN rows /\ 0 # m => Covered(0)')
    BY <1>1, <2>4, <2>5, <2>6
  <2>8. UseInv
    BY DEF RestInv
  <2> QED BY <1>1, <1>4, <1>5, <2>2, <2>3, <2>7, <2>8, CommitUses
<1> QED BY <1>9, <1>10, <1>11 DEF RestInv

LEMMA RestInit == Init => RestInv
<1> SUFFICES ASSUME Init PROVE RestInv
  OBVIOUS
<1>1. LockInv
  BY LockInit
<1>2. \A t \in Threads : th[t].at = "idle"
  BY IdleAt DEF Init
<1>3. HoldInv
  BY <1>2 DEF HoldInv, HoldsLocks, ReadsBlock, Reading, At
<1>4. DOMAIN rows \subseteq Numbers /\ \A n \in DOMAIN rows : rows[n] # Null
  BY <1>1, RowNumbers, ThreadsAssumption DEF LockInv, LockTypes, TypeOK
<1>5. \A n \in DOMAIN rows : /\ item[n] # Null /\ item[n].use = Cardinality(Users(n))
                             /\ item[n].data = Null /\ disk[n] = rows[n]
  <2> DEFINE i(n) == [use |-> Cardinality(Users(n)), data |-> Null, lock |-> Null]
  <2>1. \A n : i(n).use = Cardinality(Users(n)) /\ i(n).data = Null /\ i(n).lock = Null
    OBVIOUS
  <2>2. item = [n \in Numbers |-> IF n \in DOMAIN rows THEN i(n) ELSE Null]
    BY DEF Init
  <2> HIDE DEF i
  <2>3. \A n \in DOMAIN rows : item[n] = i(n) /\ disk[n] = rows[n]
    BY <1>4, <2>2 DEF Init
  <2>4. \A n \in DOMAIN rows : item[n] # Null
    <3>1. \A n \in DOMAIN rows : item[n] \in Item
      <4>1. \A n : i(n) \in Item
        BY UsersFinite DEF i, Item, Contents
      <4> QED BY <2>3, <4>1
    <3> QED BY <3>1, ThreadsAssumption
  <2> QED BY <2>1, <2>3, <2>4
<1>6. UseInv
  <2>1. OnePending /\ \A t \in Threads : ~Committed(t)
    BY <1>2 DEF OnePending, Committed
  <2>2. \A n \in DOMAIN rows : Covered(n)
    BY <1>5, UsersFinite DEF Covered
  <2>3. BlocksKnown
    <3> DEFINE m(f) == CHOOSE n \in DOMAIN rows : rows[n] = fileBlocks[f]
               r(f) == [num |-> m(f), ref |-> TRUE, empty |-> FALSE, lock |-> Null]
    <3>1. \A f \in Files : fileBlocks[f] # Null => \E n \in DOMAIN rows : rows[n] = fileBlocks[f]
      BY DEF Init
    <3>2. \A f \in Files : fileBlocks[f] # Null => m(f) \in DOMAIN rows /\ rows[m(f)] = fileBlocks[f]
      BY <3>1
    <3> HIDE DEF m
    <3>3. \A f \in Files : r(f).num = m(f)
      OBVIOUS
    <3>4. \A f \in Files : info[f] = IF fileBlocks[f] = Null THEN Empty ELSE r(f)
      BY DEF Init, m
    <3> HIDE DEF r
    <3>5. Empty.num = 0
      BY DEF Empty
    <3>6. \A n \in DOMAIN rows : n # 0
      BY <1>1, RowNumbers DEF LockInv
    <3> QED BY <3>2, <3>3, <3>4, <3>5, <3>6 DEF BlocksKnown
  <2> QED BY <2>1, <2>2, <2>3 DEF UseInv, UsesKnown, UsesCovered
<1>7. ContentInv
  BY <1>2, <1>5 DEF ContentInv, ContentsKept, OneFetch, At
<1> QED BY <1>3, <1>6, <1>7 DEF RestInv

LEMMA RestNext == LockInv /\ RestInv /\ [Next]_vars => RestInv'
<1> SUFFICES ASSUME LockInv, RestInv, [Next]_vars PROVE RestInv'
  OBVIOUS
<1>1. ASSUME NEW t \in Threads, Requests(t) PROVE RestInv'
  <2>1. ASSUME NEW f \in Files, Read(t, f) PROVE RestInv'
    <3>1. Begins(t, "read", f, Null, FALSE, "info")
      BY <2>1 DEF Read
    <3> QED BY <3>1, BeginsRest
  <2>2. ASSUME NEW f \in Files, NEW x \in Hashes, NEW part \in BOOLEAN, Write(t, f, x, part)
        PROVE  RestInv'
    <3>1. Begins(t, "write", f, x, part, "info")
      BY <2>2 DEF Write
    <3> QED BY <3>1, BeginsRest
  <2>3. ASSUME NEW f \in Files, Truncate(t, f) PROVE RestInv'
    <3>1. Begins(t, "truncate", f, Null, FALSE, "begin")
      BY <2>3 DEF Truncate
    <3> QED BY <3>1, BeginsRest
  <2> QED BY <1>1, <2>1, <2>2, <2>3 DEF Requests
<1>2. ASSUME NEW t \in Threads, Step(t) PROVE RestInv'
  BY <1>2, LockInfoRest, LockItemRest, SeekRest, FetchRest, HaveRest, BeginRest, BusyRest,
     LockObjectRest, ReplacePresentRest, ReplaceInPlaceRest, ReplaceInsertRest, ReleaseRest,
     CountRest, CountMissingRest, CountedRest, PlaceRest DEF Step
<1>3. CASE UNCHANGED vars
  <2>1. HoldInv'
    BY <1>3 DEF vars, RestInv, HoldInv, HoldsLocks, ReadsBlock, Reading, At, F, N
  <2>2. UseInv'
    BY <1>3, UsesStep DEF vars, tables, RestInv, UsesStay, NumsStay
  <2>3. ContentInv'
    BY <1>3, ContentStep DEF vars, RestInv, DataStays, At, N
  <2> QED BY <2>1, <2>2, <2>3 DEF RestInv
<1> QED BY <1>1, <1>2, <1>3 DEF Next

\* The locks, the counts and the contents together.
THEOREM SpecThreadsInv == Spec => []ThreadsInv
<1>1. Init => ThreadsInv
  BY LockInit, RestInit DEF ThreadsInv, RestInv
<1>2. ThreadsInv /\ [Next]_vars => ThreadsInv'
  BY LockNext, RestNext DEF ThreadsInv, RestInv
<1> QED BY <1>1, <1>2, PTL DEF Spec

\* For any number of threads and files, the count that a storage_block has in
\* memory is at least the number of files that use the block, so that no write in
\* place takes the block from one of them (_writeBlock, truncate): unless a thread
\* committed a change of a block's users while another was still to count his.
THEOREM SpecCountsCoverUsers == Spec => []CountsCoverUsers
<1>1. ThreadsInv => CountsCoverUsers
  BY DEF ThreadsInv, UseInv, UsesKnown, UsesCovered, Covered, CountsCoverUsers
<1> QED BY <1>1, SpecThreadsInv, PTL

\* For any number of threads and files, a read gives the content of its file
\* (_getStorageBlock, _populateStorageBlock) although it releases the block_info
\* before it locks the storage_block: unless the file is written to meanwhile, or
\* there was a race for a count or for the position of the descriptor.
THEOREM SpecReadsOwn == Spec => []ReadsOwn
<1>1. ThreadsInv => ReadsOwn
  <2> SUFFICES ASSUME ThreadsInv, NEW t \in Threads, At(t, "have"), th[t].op = "read",
                      ~th[t].changed, raced = {}
               PROVE  item[N(t)].data = fileBlocks[F(t)]
    BY DEF ReadsOwn
  <2>1. F(t) \in Files /\ N(t) # 0
    BY AtWork, NumbersInUse DEF ThreadsInv, LockInv, BlocksAtHand, AtHand, At
  <2>2. UsesKnown /\ ContentsKept
    BY DEF ThreadsInv, UseInv, ContentInv
  <2>3. info[F(t)].num = N(t) /\ \A u \in Threads : At(u, "place") => F(u) # F(t)
    BY DEF ThreadsInv, HoldInv, ReadsBlock, Reading, At
  <2>4. N(t) \in DOMAIN rows /\ fileBlocks[F(t)] = rows[N(t)]
    BY <2>1, <2>2, <2>3 DEF UsesKnown, BlocksKnown
  <2>5. \A u \in Threads : At(u, "place") => N(u) # N(t)
    <3> SUFFICES ASSUME NEW u \in Threads, At(u, "place"), N(u) = N(t) PROVE FALSE
      OBVIOUS
    <3>1. F(u) \in Files /\ info[F(u)].num = N(u)
      BY <2>1, AtWork, NumbersInUse
         DEF ThreadsInv, LockInv, BlocksAtHand, OwnAtHand, OpsInPlace, At
    <3>2. F(u) \in Users(N(t)) /\ F(t) \in Users(N(t)) /\ F(u) # F(t)
      BY <2>1, <2>2, <2>3, <2>4, <3>1 DEF UsesKnown, BlocksKnown, Users
    <3>3. Cardinality(Users(N(t))) =< 1
      BY <2>2 DEF UsesKnown, UsesCovered, Due, Committed, At
    <3> QED BY <3>2, <3>3, UsersFinite, TwoMembers
  <2>6. item[N(t)].data # Null
    BY DEF ThreadsInv, HoldInv, HoldsLocks, At
  <2> QED BY <2>2, <2>4, <2>5, <2>6 DEF ContentsKept
<1> QED BY <1>1, SpecThreadsInv, PTL
=============================================================================
