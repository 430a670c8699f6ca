------------------------- MODULE StatementsProofs -------------------------
(***************************************************************************)
(* The write lock of the database, the statements left bound, and what the *)
(* statements of a transaction together do to the tables, for any number   *)
(* of connections, files, contents and rows.                               *)
(***************************************************************************)
EXTENDS Statements, FiniteSets, FiniteSetTheorems, TLAPS

Fields == {"at", "kind", "file", "hash", "block", "use", "count", "num", "misled"}

\* The write lock belongs to the connection in a transaction.
CallInv ==
    /\ DOMAIN call = Conns /\ owner \in Conns \cup {Null}
    /\ \A c \in Conns : call[c] = Idle \/ DOMAIN call[c] = Fields
    /\ \A c \in Conns : owner = c <=> call[c].at # "idle"

Kept(c) == {s \in Names : held[c][s] # Null}

\* Each failure leaves one statement bound at most, and each that ran with the
\* values of another call is bound no more.
Budget ==
    /\ DOMAIN held = Conns /\ \A c \in Conns : DOMAIN held[c] = Names
    /\ misdirected \in [Conns -> Nat] /\ failures \in [Conns -> Nat]
    /\ \A c \in Conns : Cardinality(Kept(c)) + misdirected[c] =< failures[c]

----------------------------------------------------------------------------
(* Statements.                                                             *)

LEMMA NamesFinite ==
    /\ IsFiniteSet(Names)
    /\ Names = {"getByPath", "getFileBlock", "updateFileSize", "increaseUseCount",
                "updateBlockHash", "insertBlockHash", "replaceFileBlock", "setUseCount",
                "deleteFileBlock", "decreaseUseCount"}
<1>1. Names = {"getByPath", "getFileBlock", "updateFileSize", "increaseUseCount",
               "updateBlockHash", "insertBlockHash", "replaceFileBlock", "setUseCount",
               "deleteFileBlock", "decreaseUseCount"}
  BY DEF Names, Bound
<1>2. IsFiniteSet({}) /\ \A S, x : IsFiniteSet(S) => IsFiniteSet(S \cup {x})
  BY FS_EmptySet, FS_AddElement
<1>3. IsFiniteSet({"getByPath"} \cup {"getFileBlock"} \cup {"updateFileSize"}
                   \cup {"increaseUseCount"} \cup {"updateBlockHash"} \cup {"insertBlockHash"}
                   \cup {"replaceFileBlock"} \cup {"setUseCount"} \cup {"deleteFileBlock"}
                   \cup {"decreaseUseCount"})
  BY <1>2, FS_Singleton
<1>4. Names = {"getByPath"} \cup {"getFileBlock"} \cup {"updateFileSize"}
               \cup {"increaseUseCount"} \cup {"updateBlockHash"} \cup {"insertBlockHash"}
               \cup {"replaceFileBlock"} \cup {"setUseCount"} \cup {"deleteFileBlock"}
               \cup {"decreaseUseCount"}
  BY <1>1
<1> QED BY <1>1, <1>3, <1>4

LEMMA KeptFinite ==
    ASSUME NEW c
    PROVE  IsFiniteSet(Kept(c)) /\ Cardinality(Kept(c)) \in Nat
  BY NamesFinite, FS_Subset, FS_CardinalityType DEF Kept

\* A statement that ran is reset.
LEMMA SteppedKeeps ==
    ASSUME Budget, NEW c \in Conns, NEW s \in Names, NEW args, Stepped(c, s, args)
    PROVE  Budget'
<1>1. /\ DOMAIN held' = Conns /\ \A d \in Conns : DOMAIN held'[d] = Names
      /\ \A d \in Conns \ {c} : held'[d] = held[d]
      /\ held'[c][s] = Null /\ \A n \in Names \ {s} : held'[c][n] = held[c][n]
  BY DEF Stepped, AfterStep, Budget
<1>2. Kept(c)' = Kept(c) \ {s} /\ \A d \in Conns \ {c} : Kept(d)' = Kept(d)
  BY <1>1 DEF Kept
<1>3. misdirected' \in [Conns -> Nat] /\ failures' = failures
      /\ \A d \in Conns \ {c} : misdirected'[d] = misdirected[d]
  BY DEF Stepped, Budget
<1>4. Cardinality(Kept(c)') + misdirected'[c] =< failures'[c]
  <2>1. CASE held[c][s] = Null
    <3>1. Kept(c)' = Kept(c)
      BY <1>2, <2>1 DEF Kept
    <3>2. misdirected'[c] = misdirected[c]
      BY <2>1 DEF Stepped, Used, Budget
    <3> QED BY <1>3, <3>1, <3>2 DEF Budget
  <2>2. CASE held[c][s] # Null
    <3>1. Cardinality(Kept(c)') = Cardinality(Kept(c)) - 1
      <4>1. s \in Kept(c)
        BY <2>2 DEF Kept
      <4> QED BY <1>2, <4>1, KeptFinite, FS_RemoveElement
    <3>2. misdirected'[c] =< misdirected[c] + 1
      BY DEF Stepped, Budget
    <3> QED BY <1>3, <3>1, <3>2, KeptFinite DEF Budget
  <2> QED BY <2>1, <2>2
<1> QED BY <1>1, <1>2, <1>3, <1>4 DEF Budget

\* A statement that failed is left bound.
LEMMA FailedKeeps ==
    ASSUME Budget, NEW c \in Conns, NEW s \in Names, NEW args, Failed(c, s, args)
    PROVE  Budget'
<1>1. /\ DOMAIN held' = Conns /\ \A d \in Conns : DOMAIN held'[d] = Names
      /\ \A d \in Conns \ {c} : held'[d] = held[d]
      /\ \A n \in Names \ {s} : held'[c][n] = held[c][n]
  BY DEF Failed, Budget
<1>2. Kept(c)' \subseteq Kept(c) \cup {s} /\ \A d \in Conns \ {c} : Kept(d)' = Kept(d)
  BY <1>1 DEF Kept
<1>3. /\ misdirected' = misdirected /\ failures' \in [Conns -> Nat]
      /\ failures'[c] = failures[c] + 1
      /\ \A d \in Conns \ {c} : failures'[d] = failures[d]
  BY DEF Failed, MayFail, Budget
<1>4. Cardinality(Kept(c)') + misdirected'[c] =< failures'[c]
  <2>1. IsFiniteSet(Kept(c) \cup {s}) /\ Cardinality(Kept(c) \cup {s}) =< Cardinality(Kept(c)) + 1
    BY KeptFinite, FS_AddElement
  <2>2. Cardinality(Kept(c)') \in Nat /\ Cardinality(Kept(c)') =< Cardinality(Kept(c) \cup {s})
    BY <1>2, <2>1, FS_Subset, FS_CardinalityType
  <2>3. Cardinality(Kept(c)') =< Cardinality(Kept(c)) + 1
    BY <2>1, <2>2, KeptFinite, FS_CardinalityType
  <2> QED BY <1>3, <2>2, <2>3, KeptFinite DEF Budget
<1> QED BY <1>1, <1>2, <1>3, <1>4 DEF Budget

\* BEGIN, SELECT and COMMIT leave nothing bound.
LEMMA MayFailKeeps ==
    ASSUME Budget, NEW c \in Conns, MayFail(c), UNCHANGED <<held, misdirected>>
    PROVE  Budget'
<1>1. /\ failures' \in [Conns -> Nat] /\ failures'[c] = failures[c] + 1
      /\ \A d \in Conns \ {c} : failures'[d] = failures[d]
  BY DEF MayFail, Budget
<1>2. \A d \in Conns : Kept(d)' = Kept(d)
  BY DEF Kept
<1>3. \A d \in Conns : Cardinality(Kept(d)') + misdirected'[d] =< failures'[d]
  BY <1>1, <1>2, KeptFinite DEF Budget
<1> QED BY <1>1, <1>3 DEF Budget

----------------------------------------------------------------------------
(* The write lock.                                                         *)

\* The connections but c do nothing.
OthersWait(c) ==
    DOMAIN call' = Conns /\ \A d \in Conns \ {c} : call'[d] = call[d]

\* A call that is over has given the lock back.
LEMMA RolledBackKeeps ==
    ASSUME CallInv, NEW c \in Conns, owner = c, owner' = Null, Answered(c)
    PROVE  CallInv'
<1>1. OthersWait(c) /\ call'[c] = Idle
  BY DEF Answered, OthersWait, CallInv
<1>2. Idle.at = "idle"
  BY DEF Idle
<1> QED BY <1>1, <1>2, StatementsAssumption DEF CallInv, OthersWait

\* A call that goes on keeps it.
LEMMA GoesOnKeeps ==
    ASSUME CallInv, NEW c \in Conns, owner = c, owner' = owner, OthersWait(c),
           DOMAIN call'[c] = Fields, call'[c].at # "idle"
    PROVE  CallInv'
  BY DEF CallInv, OthersWait

LEMMA RunsKeeps ==
    ASSUME CallInv, NEW c \in Conns, owner = c, NEW s, NEW args, NEW next,
           DOMAIN next = Fields, next.at # "idle", Runs(c, s, args, next)
    PROVE  CallInv'
<1>1. OthersWait(c) /\ DOMAIN call'[c] = Fields /\ call'[c].at = next.at
  BY DEF Runs, OthersWait, CallInv, Fields
<1> QED BY <1>1, GoesOnKeeps DEF Runs

LEMMA BeginsKeeps ==
    ASSUME CallInv, NEW c \in Conns, NEW first, DOMAIN first = Fields, first.at # "idle",
           Begins(c, first)
    PROVE  CallInv'
<1>1. OthersWait(c) /\ call'[c] = first
  BY DEF Begins, OthersWait, CallInv
<1>2. owner = Null /\ owner' = c
  BY DEF Begins
<1> QED BY <1>1, <1>2, StatementsAssumption DEF CallInv, OthersWait

\* A connection at a statement has the lock, and its call all its fields.
LEMMA AtOwns ==
    ASSUME CallInv, NEW c \in Conns, NEW place, At(c, place), place # "idle"
    PROVE  owner = c /\ DOMAIN call[c] = Fields
<1>1. Idle.at = "idle"
  BY DEF Idle
<1> QED BY <1>1 DEF CallInv, At

LEMMA Next1Fields ==
    ASSUME NEW c \in Conns, DOMAIN call[c] = Fields, NEW place
    PROVE  DOMAIN Next1(c, place) = Fields /\ Next1(c, place).at = place
  BY DEF Next1, Fields

LockInv == CallInv /\ Budget

----------------------------------------------------------------------------
(* The steps.                                                              *)

LEMMA ReadsKeeps ==
    ASSUME LockInv, NEW c \in Conns, NEW s, NEW f, Reads(c, s, f)
    PROVE  LockInv'
<1>1. CallInv'
  BY DEF LockInv, CallInv, Reads
<1>2. s \in Names
  BY NamesFinite DEF Reads
<1> QED BY <1>1, <1>2, SteppedKeeps, FailedKeeps DEF LockInv, Reads

LEMMA FTruncateKeeps ==
    ASSUME LockInv, NEW c \in Conns, NEW f, NEW n, FTruncate(c, f, n)
    PROVE  LockInv'
<1>1. CallInv'
  BY DEF LockInv, CallInv, FTruncate
<1>2. "updateFileSize" \in Names
  BY NamesFinite
<1> QED BY <1>1, <1>2, SteppedKeeps, FailedKeeps DEF LockInv, FTruncate

LEMMA BudgetUnchanged ==
    ASSUME Budget, UNCHANGED <<held, failures, misdirected>>
    PROVE  Budget'
<1>1. \A c : Kept(c)' = Kept(c)
  BY DEF Kept
<1> QED BY <1>1 DEF Budget

LEMMA BeginKeeps ==
    ASSUME LockInv, NEW c \in Conns, NEW first, DOMAIN first = Fields, first.at # "idle",
           Begins(c, first)
    PROVE  LockInv'
  BY BeginsKeeps, BudgetUnchanged DEF LockInv, Begins

\* Any statement of a transaction.
LEMMA StatementKeeps ==
    ASSUME LockInv, NEW c \in Conns, owner = c, NEW s \in Names, NEW args, NEW next,
           DOMAIN next = Fields, next.at # "idle",
           Runs(c, s, args, next) \/ Fails(c, s, args)
    PROVE  LockInv'
<1>1. CASE Runs(c, s, args, next)
  BY <1>1, RunsKeeps, SteppedKeeps DEF LockInv, Runs
<1>2. CASE Fails(c, s, args)
  BY <1>2, RolledBackKeeps, FailedKeeps DEF LockInv, Fails, RolledBack
<1> QED BY <1>1, <1>2

LEMMA SelectKeeps ==
    ASSUME LockInv, NEW c \in Conns, Selects(c) \/ SelectFails(c)
    PROVE  LockInv'
<1>1. owner = c /\ DOMAIN call[c] = Fields
  BY AtOwns DEF LockInv, Selects, SelectFails
<1>2. CASE Selects(c)
  <2>1. OthersWait(c) /\ owner' = owner
    BY <1>2 DEF Selects, OthersWait, LockInv, CallInv
  <2>2. DOMAIN call'[c] = Fields /\ call'[c].at # "idle"
    BY <1>1, <1>2 DEF Selects, LockInv, CallInv, Fields
  <2> QED BY <1>1, <1>2, <2>1, <2>2, GoesOnKeeps, BudgetUnchanged DEF LockInv, Selects
<1>3. CASE SelectFails(c)
  BY <1>1, <1>3, RolledBackKeeps, MayFailKeeps DEF LockInv, SelectFails, RolledBack
<1> QED BY <1>2, <1>3

LEMMA CommitKeeps ==
    ASSUME LockInv, NEW c \in Conns, Commits(c) \/ CommitFails(c)
    PROVE  LockInv'
<1>1. owner = c
  BY AtOwns DEF LockInv, Commits, CommitFails
<1>2. CASE Commits(c)
  BY <1>1, <1>2, RolledBackKeeps, BudgetUnchanged DEF LockInv, Commits
<1>3. CASE CommitFails(c)
  BY <1>1, <1>3, RolledBackKeeps, MayFailKeeps DEF LockInv, CommitFails, RolledBack
<1> QED BY <1>2, <1>3

LEMMA IncreasesKeeps ==
    ASSUME LockInv, NEW c \in Conns, Increases(c)
    PROVE  LockInv'
<1> DEFINE next == [Next1(c, "point") EXCEPT !.count = @ - 1]
<1>1. owner = c /\ DOMAIN call[c] = Fields /\ "increaseUseCount" \in Names
  BY AtOwns, NamesFinite DEF LockInv, Increases
<1>2. DOMAIN next = Fields /\ next.at # "idle"
  BY <1>1, Next1Fields DEF Fields
<1>3. \/ Runs(c, "increaseUseCount", call[c].hash, next)
      \/ Fails(c, "increaseUseCount", call[c].hash)
  BY DEF Increases
<1> HIDE DEF next
<1> QED BY <1>1, <1>2, <1>3, StatementKeeps

LEMMA UpdatesKeeps ==
    ASSUME LockInv, NEW c \in Conns, Updates(c)
    PROVE  LockInv'
<1> DEFINE next == Next1(c, "point")
<1>1. owner = c /\ DOMAIN call[c] = Fields /\ "updateBlockHash" \in Names
  BY AtOwns, NamesFinite DEF LockInv, Updates
<1>2. DOMAIN next = Fields /\ next.at # "idle"
  BY <1>1, Next1Fields DEF Fields
<1>3. \/ Runs(c, "updateBlockHash", <<call[c].block, call[c].hash>>, next)
      \/ Fails(c, "updateBlockHash", <<call[c].block, call[c].hash>>)
  BY DEF Updates
<1> HIDE DEF next
<1> QED BY <1>1, <1>2, <1>3, StatementKeeps

LEMMA InsertsKeeps ==
    ASSUME LockInv, NEW c \in Conns, Inserts(c)
    PROVE  LockInv'
<1> DEFINE next == [Next1(c, "point") EXCEPT !.count = @ - 1, !.num = Len(view.rows) + 1]
<1>1. owner = c /\ DOMAIN call[c] = Fields /\ "insertBlockHash" \in Names
  BY AtOwns, NamesFinite DEF LockInv, Inserts
<1>2. DOMAIN next = Fields /\ next.at # "idle"
  BY <1>1, Next1Fields DEF Fields
<1>3. \/ Runs(c, "insertBlockHash", call[c].hash, next)
      \/ Fails(c, "insertBlockHash", call[c].hash)
  BY DEF Inserts
<1> HIDE DEF next
<1> QED BY <1>1, <1>2, <1>3, StatementKeeps

LEMMA PointsKeeps ==
    ASSUME LockInv, NEW c \in Conns, Points(c)
    PROVE  LockInv'
<1> DEFINE next == Next1(c, IF call[c].block = Null THEN "commit" ELSE "setUse")
<1>1. owner = c /\ DOMAIN call[c] = Fields /\ "replaceFileBlock" \in Names
  BY AtOwns, NamesFinite DEF LockInv, Points
<1>2. DOMAIN next = Fields /\ next.at # "idle"
  BY <1>1, Next1Fields DEF Fields
<1>3. \/ Runs(c, "replaceFileBlock", <<call[c].file, call[c].hash>>, next)
      \/ Fails(c, "replaceFileBlock", <<call[c].file, call[c].hash>>)
  BY DEF Points
<1> HIDE DEF next
<1> QED BY <1>1, <1>2, <1>3, StatementKeeps

LEMMA SetsUseKeeps ==
    ASSUME LockInv, NEW c \in Conns, SetsUse(c)
    PROVE  LockInv'
<1> DEFINE next == Next1(c, "commit")
<1>1. owner = c /\ DOMAIN call[c] = Fields /\ "setUseCount" \in Names
  BY AtOwns, NamesFinite DEF LockInv, SetsUse
<1>2. DOMAIN next = Fields /\ next.at # "idle"
  BY <1>1, Next1Fields DEF Fields
<1>3. \/ Runs(c, "setUseCount", <<call[c].block, call[c].count>>, next)
      \/ Fails(c, "setUseCount", <<call[c].block, call[c].count>>)
  BY DEF SetsUse
<1> HIDE DEF next
<1> QED BY <1>1, <1>2, <1>3, StatementKeeps

LEMMA LoadsKeeps ==
    ASSUME LockInv, NEW c \in Conns, Loads(c)
    PROVE  LockInv'
<1> DEFINE next == [Next1(c, "delete") EXCEPT !.hash = LoadedHash(Used(c, "getFileBlock", call[c].file))]
<1>1. owner = c /\ DOMAIN call[c] = Fields /\ "getFileBlock" \in Names
  BY AtOwns, NamesFinite DEF LockInv, Loads
<1>2. DOMAIN next = Fields /\ next.at # "idle"
  BY <1>1, Next1Fields DEF Fields
<1>3. \/ Runs(c, "getFileBlock", call[c].file, next)
      \/ Fails(c, "getFileBlock", call[c].file)
  BY DEF Loads
<1> HIDE DEF next
<1> QED BY <1>1, <1>2, <1>3, StatementKeeps

LEMMA DeletesKeeps ==
    ASSUME LockInv, NEW c \in Conns, Deletes(c)
    PROVE  LockInv'
<1> DEFINE next == Next1(c, "decrease")
<1>1. owner = c /\ DOMAIN call[c] = Fields /\ "deleteFileBlock" \in Names
  BY AtOwns, NamesFinite DEF LockInv, Deletes
<1>2. DOMAIN next = Fields /\ next.at # "idle"
  BY <1>1, Next1Fields DEF Fields
<1>3. \/ Runs(c, "deleteFileBlock", call[c].file, next)
      \/ Fails(c, "deleteFileBlock", call[c].file)
  BY DEF Deletes
<1> HIDE DEF next
<1> QED BY <1>1, <1>2, <1>3, StatementKeeps

LEMMA DecreasesKeeps ==
    ASSUME LockInv, NEW c \in Conns, Decreases(c)
    PROVE  LockInv'
<1> DEFINE next == Next1(c, "commit")
<1>1. owner = c /\ DOMAIN call[c] = Fields /\ "decreaseUseCount" \in Names
  BY AtOwns, NamesFinite DEF LockInv, Decreases
<1>2. DOMAIN next = Fields /\ next.at # "idle"
  BY <1>1, Next1Fields DEF Fields
<1>3. \/ Runs(c, "decreaseUseCount", call[c].hash, next)
      \/ Fails(c, "decreaseUseCount", call[c].hash)
  BY DEF Decreases
<1> HIDE DEF next
<1> QED BY <1>1, <1>2, <1>3, StatementKeeps

LEMMA RequestKeeps ==
    ASSUME LockInv, NEW c \in Conns, Request(c)
    PROVE  LockInv'
<1>1. ASSUME NEW f \in Files, Reads(c, "getByPath", f) \/ Reads(c, "getFileBlock", f)
      PROVE  LockInv'
  BY <1>1, ReadsKeeps
<1>2. ASSUME NEW f \in Files, NEW n \in Sizes, FTruncate(c, f, n) PROVE LockInv'
  BY <1>2, FTruncateKeeps
<1>3. ASSUME NEW f \in Files, NEW x \in Hashes, NEW s \in (0..MaxRows) \cup {Null},
             NEW n \in Counts, Replace(c, f, x, s, n)
      PROVE  LockInv'
  <2> DEFINE first == [at |-> "select", kind |-> "replace", file |-> f, hash |-> x,
                       block |-> s, use |-> n, count |-> n, num |-> s, misled |-> FALSE]
  <2>1. DOMAIN first = Fields /\ first.at # "idle"
    BY DEF Fields
  <2>2. Begins(c, first)
    BY <1>3 DEF Replace
  <2> HIDE DEF first
  <2> QED BY <2>1, <2>2, BeginKeeps
<1>4. ASSUME NEW f \in Files, NEW x \in Hashes \cup {EmptyBlob, Null}, Release(c, f, x)
      PROVE  LockInv'
  <2> DEFINE first == [at |-> IF x = Null THEN "load" ELSE "delete", kind |-> "release",
                       file |-> f, hash |-> x, block |-> Null, use |-> 0, count |-> 0,
                       num |-> Null, misled |-> FALSE]
  <2>1. DOMAIN first = Fields /\ first.at # "idle"
    BY DEF Fields
  <2>2. Begins(c, first)
    BY <1>4 DEF Release
  <2> HIDE DEF first
  <2> QED BY <2>1, <2>2, BeginKeeps
<1> QED BY <1>1, <1>2, <1>3, <1>4 DEF Request

LEMMA ReconnectsKeeps ==
    ASSUME LockInv, NEW c \in Conns, Reconnects(c)
    PROVE  LockInv'
<1>1. CallInv'
  BY DEF LockInv, CallInv, Reconnects
<1>2. /\ DOMAIN held' = Conns /\ \A d \in Conns : DOMAIN held'[d] = Names
      /\ \A d \in Conns \ {c} : held'[d] = held[d]
      /\ \A n \in Names : held'[c][n] = Null
  BY DEF LockInv, Budget, Reconnects
<1>3. Kept(c)' = {} /\ \A d \in Conns \ {c} : Kept(d)' = Kept(d)
  BY <1>2 DEF Kept
<1>4. /\ misdirected' \in [Conns -> Nat] /\ failures' \in [Conns -> Nat]
      /\ misdirected'[c] = 0 /\ failures'[c] = 0
      /\ \A d \in Conns \ {c} : misdirected'[d] = misdirected[d] /\ failures'[d] = failures[d]
  BY DEF LockInv, Budget, Reconnects
<1>5. \A d \in Conns : Cardinality(Kept(d)') + misdirected'[d] =< failures'[d]
  <2>1. Cardinality(Kept(c)') = 0
    BY <1>3, FS_EmptySet
  <2>2. \A d \in Conns \ {c} : Cardinality(Kept(d)') = Cardinality(Kept(d))
    BY <1>3
  <2> QED BY <1>4, <2>1, <2>2 DEF LockInv, Budget
<1> QED BY <1>1, <1>2, <1>4, <1>5 DEF LockInv, Budget

\* A connection that has nothing bound.
LEMMA FreshKeeps ==
    ASSUME held = [c \in Conns |-> [s \in Names |-> Null]],
           call = [c \in Conns |-> Idle], owner = Null,
           failures = [c \in Conns |-> 0], misdirected = [c \in Conns |-> 0]
    PROVE  LockInv
<1>1. CallInv
  BY StatementsAssumption DEF CallInv, Idle
<1>2. \A c \in Conns : Kept(c) = {}
  BY DEF Kept
<1> QED BY <1>1, <1>2, FS_EmptySet DEF LockInv, Budget

LEMMA LockInit == Init => LockInv
  BY FreshKeeps DEF Init

LEMMA CrashKeeps == Crash => LockInv'
<1> SUFFICES ASSUME Crash PROVE LockInv'
  OBVIOUS
<1>1. CallInv'
  BY StatementsAssumption DEF CallInv, Idle, Crash
<1>2. \A c \in Conns : Kept(c)' = {}
  BY DEF Kept, Crash
<1> QED BY <1>1, <1>2, FS_EmptySet DEF LockInv, Budget, Crash

LEMMA LockNext == LockInv /\ [Next]_vars => LockInv'
<1> SUFFICES ASSUME LockInv, [Next]_vars PROVE LockInv'
  OBVIOUS
<1>1. ASSUME NEW c \in Conns, Step(c) PROVE LockInv'
  BY <1>1, SelectKeeps, IncreasesKeeps, UpdatesKeeps, InsertsKeeps, PointsKeeps, SetsUseKeeps,
     LoadsKeeps, DeletesKeeps, DecreasesKeeps, CommitKeeps DEF Step
<1>2. CASE UNCHANGED vars
  <2>1. CallInv'
    BY <1>2 DEF vars, LockInv, CallInv
  <2> QED BY <1>2, <2>1, BudgetUnchanged DEF vars, LockInv
<1> QED BY <1>1, <1>2, RequestKeeps, ReconnectsKeeps, CrashKeeps DEF Next

\* The inductive invariant of the connections.
THEOREM SpecLockInv == Spec => []LockInv
  BY LockInit, LockNext, PTL DEF Spec

\* Every way out of replaceStorageBlock and releaseStorageBlock gives the write lock
\* back, a failing statement and a failing COMMIT included, however many threads
\* have a connection.
THEOREM SpecLockReleased == Spec => []LockReleased
<1>1. LockInv => LockReleased
  BY DEF LockInv, CallInv, LockReleased, Idle
<1> QED BY <1>1, SpecLockInv, PTL

\* A statement that was not reset after a failure (SqlPreparedStmt::executeUpdate)
\* misdirects one later use and no more: what ran with values of another call plus
\* what is still bound never exceeds the failures.
THEOREM SpecMisdirectedOnce == Spec => []MisdirectedOnce
<1>1. LockInv => MisdirectedOnce
  <2> SUFFICES ASSUME Budget, NEW c \in Conns PROVE misdirected[c] =< failures[c]
    BY DEF LockInv, MisdirectedOnce
  <2>1. Cardinality(Kept(c)) \in Nat /\ misdirected[c] \in Nat /\ failures[c] \in Nat
    BY KeptFinite DEF Budget
  <2>2. Cardinality(Kept(c)) + misdirected[c] =< failures[c]
    BY DEF Budget
  <2> QED BY <2>1, <2>2
<1> QED BY <1>1, SpecLockInv, PTL

----------------------------------------------------------------------------
(* What a transaction has done so far.                                     *)
(*                                                                         *)
(* The owner of the write lock sees the committed tables as the statements *)
(* of its call have changed them.  While it has the lock nobody commits.   *)

View == [rows : Seq(T!Row), fileBlocks : [Files -> Hashes \cup {Null}]]
Committed == [rows |-> rows, fileBlocks |-> fileBlocks]

\* The rows that one of the three outcomes of replaceStorageBlock leaves for the
\* last UPDATE, and what the call has by then.
StoredRows(k) ==
    IF T!Present(k.hash) THEN IncreaseUse(rows, k.hash)
    ELSE IF T!InPlaceAllowed(k.block, k.use) THEN V!SetHash(rows, k.block, k.hash)
    ELSE Append(rows, [hash |-> k.hash, use |-> 1])

Stored(k) ==
    IF T!Present(k.hash) THEN k.num = T!IdOf(k.hash) /\ k.count = k.use - 1
    ELSE IF T!InPlaceAllowed(k.block, k.use) THEN k.num = k.block /\ k.count = k.use
    ELSE k.num = Len(rows) + 1 /\ k.count = k.use - 1 /\ Len(rows) < MaxRows

Pointed(k, x) == [fileBlocks EXCEPT ![k.file] = x]

ReplaceView(k) ==
    /\ T!CallerHolds(k.block, k.use)
    /\ k.at \in {"select", "increase", "update", "insert"}
          => view = Committed /\ k.count = k.use /\ (k.at # "increase" => k.num = k.block)
    /\ k.at = "increase" => T!Present(k.hash) /\ k.num = T!IdOf(k.hash)
    /\ k.at = "update" => ~T!Present(k.hash) /\ T!InPlaceAllowed(k.block, k.use)
    /\ k.at = "insert" => ~T!Present(k.hash) /\ ~T!InPlaceAllowed(k.block, k.use)
    /\ k.at \in {"point", "setUse", "commit"} => Stored(k)
    /\ k.at \in {"point", "setUse"} => view.rows = StoredRows(k)
    /\ k.at = "point" => view.fileBlocks = fileBlocks
    /\ k.at \in {"setUse", "commit"} => view.fileBlocks = Pointed(k, k.hash)
    /\ k.at = "commit" => view.rows = V!SetUse(StoredRows(k), k.block, k.count)

ReleaseView(k) ==
    /\ k.at \in {"load", "delete"} => view = Committed
    /\ k.at = "decrease" => view.rows = rows
    /\ k.at = "commit" => view.rows = V!DecreaseUse(rows, k.hash)
    /\ k.at \in {"decrease", "commit"} => view.fileBlocks = Pointed(k, Null)

ViewOf(k) == IF k.kind = "replace" THEN ReplaceView(k) ELSE ReleaseView(k)

\* Calls at their statements.
CallTyped(k) ==
    /\ k \in Call
    /\ k.at \in {"select", "increase", "update", "insert", "point", "setUse"} => k.kind = "replace"
    /\ k.at \in {"load", "delete", "decrease"} => k.kind = "release"
    /\ k.kind = "replace" => k.hash \in Hashes
    /\ k.at \in {"update", "setUse"} => k.block # Null

TypeInv ==
    /\ TypeOK
    /\ view \in View /\ Len(rows) =< MaxRows /\ Len(view.rows) =< MaxRows
    /\ \A c \in Conns : call[c] # Idle => CallTyped(call[c])

ViewInv == \A c \in Conns : owner = c /\ ~call[c].misled => ViewOf(call[c])

CallsInv == LockInv /\ TypeInv /\ ViewInv

----------------------------------------------------------------------------
(* Rows and records.                                                       *)

SameHashes(rs, rt) ==
    DOMAIN rt = DOMAIN rs /\ \A i \in DOMAIN rs : rt[i].hash = rs[i].hash

\* A statement that changes rows, each for itself.
LEMMA RowsChanged ==
    ASSUME NEW rs \in Seq(T!Row), NEW rt \in [DOMAIN rs -> T!Row]
    PROVE  rt \in Seq(T!Row) /\ Len(rt) = Len(rs) /\ DOMAIN rt = DOMAIN rs
<1>1. DOMAIN rs = 1..Len(rs) /\ Len(rs) \in Nat
  OBVIOUS
<1>2. rt \in [1..Len(rs) -> T!Row]
  BY <1>1
<1>3. rt \in Seq(T!Row)
  BY <1>1, <1>2
<1>4. Len(rt) = Len(rs)
  BY <1>1, <1>2, <1>3
<1> QED BY <1>1, <1>2, <1>3, <1>4

LEMMA RowWith ==
    ASSUME NEW r \in T!Row
    PROVE  /\ r.use \in Int /\ r.hash \in Hashes
           /\ \A n \in Int : LET q == [r EXCEPT !.use = n]
                             IN  q \in T!Row /\ q.hash = r.hash /\ q.use = n
           /\ \A x \in Hashes : LET q == [r EXCEPT !.hash = x]
                                IN  q \in T!Row /\ q.hash = x /\ q.use = r.use
  BY DEF T!Row

LEMMA SetUseRows ==
    ASSUME NEW rs \in Seq(T!Row), NEW b, NEW n \in Int
    PROVE  LET rt == V!SetUse(rs, b, n)
           IN  rt \in Seq(T!Row) /\ Len(rt) = Len(rs) /\ SameHashes(rs, rt)
<1>1. CASE b \in DOMAIN rs
  <2> DEFINE q == [rs[b] EXCEPT !.use = n]
             rt == V!SetUse(rs, b, n)
  <2>1. rs[b] \in T!Row
    BY <1>1
  <2>2. q \in T!Row /\ q.hash = rs[b].hash
    BY <2>1, RowWith
  <2>3. rt = [rs EXCEPT ![b] = q]
    BY <1>1 DEF V!SetUse
  <2> HIDE DEF q, rt
  <2>4. rt \in [DOMAIN rs -> T!Row] /\ \A i \in DOMAIN rs : rt[i].hash = rs[i].hash
    <3>1. rs \in [DOMAIN rs -> T!Row]
      OBVIOUS
    <3>2. DOMAIN rt = DOMAIN rs /\ rt[b] = q /\ \A i \in DOMAIN rs \ {b} : rt[i] = rs[i]
      BY <1>1, <2>3, <3>1
    <3> QED BY <2>2, <2>3, <3>1, <3>2
  <2>5. rt \in Seq(T!Row) /\ Len(rt) = Len(rs) /\ SameHashes(rs, rt)
    BY <2>4, RowsChanged DEF SameHashes
  <2> QED BY <2>5 DEF rt
<1>2. CASE b \notin DOMAIN rs
  BY <1>2 DEF V!SetUse, SameHashes
<1> QED BY <1>1, <1>2

LEMMA SetHashRows ==
    ASSUME NEW rs \in Seq(T!Row), NEW b, NEW x \in Hashes
    PROVE  LET rt == V!SetHash(rs, b, x)
           IN  /\ rt \in Seq(T!Row) /\ Len(rt) = Len(rs) /\ DOMAIN rt = DOMAIN rs
               /\ b \in DOMAIN rs => rt[b].hash = x
<1>1. CASE b \in DOMAIN rs
  <2> DEFINE q == [rs[b] EXCEPT !.hash = x]
             rt == V!SetHash(rs, b, x)
  <2>1. rs[b] \in T!Row
    BY <1>1
  <2>2. q \in T!Row /\ q.hash = x
    BY <2>1, RowWith
  <2>3. rt = [rs EXCEPT ![b] = q]
    BY <1>1 DEF V!SetHash
  <2> HIDE DEF q, rt
  <2>4. rt \in [DOMAIN rs -> T!Row] /\ rt[b].hash = x
    BY <1>1, <2>2, <2>3
  <2>5. rt \in Seq(T!Row) /\ Len(rt) = Len(rs) /\ DOMAIN rt = DOMAIN rs /\ rt[b].hash = x
    BY <2>4, RowsChanged
  <2> QED BY <2>5 DEF rt
<1>2. CASE b \notin DOMAIN rs
  BY <1>2 DEF V!SetHash
<1> QED BY <1>1, <1>2

LEMMA IncreaseUseRows ==
    ASSUME NEW rs \in Seq(T!Row), NEW x
    PROVE  LET rt == IncreaseUse(rs, x)
           IN  rt \in Seq(T!Row) /\ Len(rt) = Len(rs) /\ SameHashes(rs, rt)
<1> DEFINE q(i) == [rs[i] EXCEPT !.use = @ + 1]
           rt == IncreaseUse(rs, x)
<1>1. \A i \in DOMAIN rs : rs[i] \in T!Row /\ q(i) \in T!Row /\ q(i).hash = rs[i].hash
  <2> SUFFICES ASSUME NEW i \in DOMAIN rs
               PROVE  rs[i] \in T!Row /\ q(i) \in T!Row /\ q(i).hash = rs[i].hash
    OBVIOUS
  <2>1. rs[i] \in T!Row
    OBVIOUS
  <2>2. rs[i].use + 1 \in Int
    BY <2>1, RowWith
  <2> QED BY <2>1, <2>2, RowWith
<1>2. rt = [i \in DOMAIN rs |-> IF rs[i].hash = x THEN q(i) ELSE rs[i]]
  BY DEF IncreaseUse
<1> HIDE DEF q, rt
<1>3. rt \in [DOMAIN rs -> T!Row] /\ \A i \in DOMAIN rs : rt[i].hash = rs[i].hash
  BY <1>1, <1>2
<1>4. rt \in Seq(T!Row) /\ Len(rt) = Len(rs) /\ SameHashes(rs, rt)
  BY <1>3, RowsChanged DEF SameHashes
<1> QED BY <1>4 DEF rt

LEMMA DecreaseUseRows ==
    ASSUME NEW rs \in Seq(T!Row), NEW x
    PROVE  LET rt == V!DecreaseUse(rs, x) IN rt \in Seq(T!Row) /\ Len(rt) = Len(rs)
<1> DEFINE q(i) == [rs[i] EXCEPT !.use = @ - 1]
           rt == V!DecreaseUse(rs, x)
<1>1. \A i \in DOMAIN rs : rs[i] \in T!Row /\ q(i) \in T!Row
  <2> SUFFICES ASSUME NEW i \in DOMAIN rs
               PROVE  rs[i] \in T!Row /\ q(i) \in T!Row
    OBVIOUS
  <2>1. rs[i] \in T!Row
    OBVIOUS
  <2>2. rs[i].use - 1 \in Int
    BY <2>1, RowWith
  <2> QED BY <2>1, <2>2, RowWith
<1>2. rt = [i \in DOMAIN rs |-> IF rs[i].hash = x THEN q(i) ELSE rs[i]]
  BY DEF V!DecreaseUse
<1> HIDE DEF q, rt
<1>3. rt \in [DOMAIN rs -> T!Row]
  BY <1>1, <1>2
<1>4. rt \in Seq(T!Row) /\ Len(rt) = Len(rs)
  BY <1>3, RowsChanged
<1> QED BY <1>4 DEF rt

Places == {"select", "increase", "update", "insert", "point", "setUse",
           "load", "delete", "decrease", "commit"}
Numbers == (0..MaxRows) \cup {Null}

\* Both are of one request.
Continues(k, r) ==
    r.kind = k.kind /\ r.file = k.file /\ r.block = k.block /\ r.use = k.use

LEMMA CallFields ==
    ASSUME NEW k \in Call
    PROVE  /\ k.at \in Places /\ k.kind \in {"replace", "release"} /\ k.file \in Files
           /\ k.hash \in Hashes \cup {EmptyBlob, Null} /\ k.block \in Numbers
           /\ k.use \in Int /\ k.count \in Int /\ k.num \in Numbers /\ k.misled \in BOOLEAN
           /\ k # Idle /\ k.at # "idle"
<1>1. Idle.at = "idle"
  BY DEF Idle
<1> QED BY <1>1 DEF Call, Places, Numbers

LEMMA CallAt ==
    ASSUME NEW k \in Call, NEW p \in Places
    PROVE  LET r == [k EXCEPT !.at = p]
           IN  /\ r \in Call /\ r.at = p /\ Continues(k, r) /\ r.misled = k.misled
               /\ r.hash = k.hash /\ r.count = k.count /\ r.num = k.num
  BY DEF Call, Places, Continues

\* The two outcomes that leave the replaced block one use less.
LEMMA Next1Counted ==
    ASSUME NEW c \in Conns, NEW k \in Call, k = call[c], k.count - 1 \in Int
    PROVE  LET r == [Next1(c, "point") EXCEPT !.count = @ - 1]
           IN  /\ r \in Call /\ r.at = "point" /\ Continues(k, r) /\ r.misled = k.misled
               /\ r.hash = k.hash /\ r.count = k.count - 1 /\ r.num = k.num
<1> PICK n \in Int : n = k.count - 1  OBVIOUS
<1>1. [Next1(c, "point") EXCEPT !.count = @ - 1] = [k EXCEPT !.at = "point", !.count = n]
  BY DEF Next1, Call
<1>2. LET r == [k EXCEPT !.at = "point", !.count = n]
      IN  /\ r \in Call /\ r.at = "point" /\ Continues(k, r) /\ r.misled = k.misled
          /\ r.hash = k.hash /\ r.count = n /\ r.num = k.num
  BY DEF Call, Continues
<1> QED BY <1>1, <1>2

\* Any other statement.
LEMMA Next1Call ==
    ASSUME NEW c \in Conns, NEW k \in Call, k = call[c], NEW p \in Places
    PROVE  LET r == Next1(c, p)
           IN  /\ r \in Call /\ r.at = p /\ Continues(k, r) /\ r.misled = k.misled
               /\ r.hash = k.hash /\ r.count = k.count /\ r.num = k.num
  BY CallAt DEF Next1

LEMMA CallMisled ==
    ASSUME NEW k, CallTyped(k), NEW b \in BOOLEAN
    PROVE  LET r == [k EXCEPT !.misled = b]
           IN  /\ CallTyped(r) /\ r.at = k.at /\ Continues(k, r) /\ r.misled = b
               /\ r.hash = k.hash /\ r.count = k.count /\ r.num = k.num
  BY DEF CallTyped, Call, Continues

----------------------------------------------------------------------------
(* Types.                                                                  *)

HeldTyped ==
    /\ \A c \in Conns, s \in Names : held[c][s] \in Bound[s] \cup {Null}
    /\ failures \in [Conns -> 0..MaxFailures]

\* What is bound to a statement is of its kind.
LEMMA UsedTyped ==
    ASSUME HeldTyped, NEW c \in Conns, NEW s \in Names, NEW args \in Bound[s]
    PROVE  Used(c, s, args) \in Bound[s]
  BY DEF HeldTyped, Used

LEMMA SteppedTyped ==
    ASSUME LockInv, HeldTyped, NEW c \in Conns, NEW s \in Names, NEW args, Stepped(c, s, args)
    PROVE  HeldTyped'
<1>1. /\ \A d \in Conns \ {c} : held'[d] = held[d]
      /\ held'[c][s] = Null /\ \A n \in Names \ {s} : held'[c][n] = held[c][n]
      /\ failures' = failures
  BY DEF Stepped, AfterStep, LockInv, Budget
<1> QED BY <1>1 DEF HeldTyped

LEMMA MayFailTyped ==
    ASSUME HeldTyped, NEW c \in Conns, MayFail(c)
    PROVE  failures' \in [Conns -> 0..MaxFailures]
<1>1. failures[c] \in 0..MaxFailures /\ failures[c] + 1 \in 0..MaxFailures
  BY StatementsAssumption DEF HeldTyped, MayFail
<1> QED BY <1>1 DEF HeldTyped, MayFail

LEMMA FailedTyped ==
    ASSUME LockInv, HeldTyped, NEW c \in Conns, NEW s \in Names, NEW args \in Bound[s],
           Failed(c, s, args)
    PROVE  HeldTyped'
<1> DEFINE u == Used(c, s, args)
<1>1. u \in Bound[s]
  BY UsedTyped
<1> HIDE DEF u
<1>2. held' = [held EXCEPT ![c] = [held[c] EXCEPT ![s] = u]]
  BY DEF Failed, u
<1>3. /\ \A d \in Conns \ {c} : held'[d] = held[d]
      /\ held'[c][s] = u /\ \A n \in Names \ {s} : held'[c][n] = held[c][n]
  BY <1>2 DEF LockInv, Budget
<1>4. failures' \in [Conns -> 0..MaxFailures]
  BY MayFailTyped DEF Failed
<1> QED BY <1>1, <1>3, <1>4 DEF HeldTyped

TablesTyped ==
    /\ rows \in Seq(T!Row) /\ fileBlocks \in [Files -> Hashes \cup {Null}]
    /\ sizes \in [Files -> Sizes] /\ Len(rows) =< MaxRows

ViewTyped == view \in View /\ Len(view.rows) =< MaxRows

LEMMA TypeParts ==
    ASSUME TypeInv
    PROVE  /\ HeldTyped /\ TablesTyped /\ ViewTyped
           /\ view.rows \in Seq(T!Row) /\ view.fileBlocks \in [Files -> Hashes \cup {Null}]
  BY DEF TypeInv, TypeOK, HeldTyped, TablesTyped, ViewTyped, T!TypeOK, View

LEMMA NoViewTyped == NoView \in View /\ Len(NoView.rows) = 0
  BY DEF NoView, View

\* A call that is over.
LEMMA EndsTyped ==
    ASSUME LockInv, TypeInv, NEW c \in Conns, owner = c, owner' = Null, view' = NoView,
           Answered(c), HeldTyped', TablesTyped'
    PROVE  TypeInv'
<1>1. call'[c] = Idle /\ \A d \in Conns \ {c} : call'[d] = call[d]
  BY DEF Answered, LockInv, CallInv
<1>2. \A d \in Conns \ {c} : call[d] = Idle
  BY DEF TypeInv, TypeOK
<1>3. T!TypeOK'
  BY DEF TablesTyped, T!TypeOK
<1>4. V!TypeOK'
  BY NoViewTyped DEF V!TypeOK, View, T!Row, V!Row
<1>5. \A d \in Conns : call'[d] = Idle
  BY <1>1, <1>2
<1>6. TypeOK'
  BY <1>3, <1>4, <1>5 DEF TypeOK, HeldTyped, TablesTyped
<1>7. view' \in View /\ Len(view'.rows) =< MaxRows
  BY NoViewTyped, StatementsAssumption
<1> QED BY <1>5, <1>6, <1>7 DEF TypeInv, TablesTyped

\* A call that goes on.
LEMMA GoesOnTyped ==
    ASSUME LockInv, TypeInv, NEW c \in Conns, owner = c, owner' = c, OthersWait(c),
           CallTyped(call'[c]), ViewTyped', HeldTyped', UNCHANGED <<rows, fileBlocks, sizes>>
    PROVE  TypeInv'
<1>1. \A d \in Conns \ {c} : call'[d] = Idle
  BY DEF TypeInv, TypeOK, OthersWait
<1>2. V!TypeOK'
  BY DEF V!TypeOK, View, ViewTyped, T!Row, V!Row
<1>3. T!TypeOK' /\ owner' # Null
  BY StatementsAssumption DEF TypeInv, TypeOK, T!TypeOK
<1> QED BY <1>1, <1>2, <1>3 DEF TypeInv, TypeOK, HeldTyped, ViewTyped, CallTyped

----------------------------------------------------------------------------
(* Statements of a transaction.                                            *)

\* The call of c has come to r.
LEMMA ViewGoesOn ==
    ASSUME LockInv, NEW c \in Conns, owner' = c, NEW r, r = call'[c],
           ~r.misled => ViewOf(r)'
    PROVE  ViewInv'
<1> SUFFICES ASSUME ~r.misled PROVE ViewOf(call[c])'
  BY DEF ViewInv
<1>1. ViewOf(r)'
  OBVIOUS
<1> QED BY <1>1 DEF ViewOf, ReplaceView, ReleaseView, Stored, StoredRows, Pointed, Committed,
                    T!CallerHolds, T!Present, T!IdOf

\* No call is at work.
LEMMA ViewEnds == owner' = Null => ViewInv'
  BY StatementsAssumption DEF ViewInv

LEMMA RunsTo ==
    ASSUME LockInv, TypeInv, NEW c \in Conns, owner = c, NEW s \in Names, NEW args,
           NEW next, CallTyped(next), Runs(c, s, args, next), ViewTyped', NEW r, r = call'[c]
    PROVE  /\ TypeInv'
           /\ owner' = c /\ UNCHANGED <<rows, fileBlocks>>
           /\ r.at = next.at /\ Continues(next, r)
           /\ r.hash = next.hash /\ r.count = next.count /\ r.num = next.num
           /\ ~r.misled => ~next.misled /\ Used(c, s, args) = args
<1> DEFINE b == next.misled \/ Used(c, s, args) # args
<1>1. OthersWait(c) /\ r = [next EXCEPT !.misled = b]
  BY DEF Runs, OthersWait, LockInv, CallInv
<1>2. b \in BOOLEAN /\ (~b => ~next.misled /\ Used(c, s, args) = args)
  OBVIOUS
<1>3. CallTyped(r) /\ r.at = next.at /\ Continues(next, r) /\ r.misled = b
      /\ r.hash = next.hash /\ r.count = next.count /\ r.num = next.num
  <2> HIDE DEF b
  <2> QED BY <1>1, <1>2, CallMisled
<1>4. owner' = c /\ UNCHANGED <<rows, fileBlocks, sizes>>
  BY DEF Runs, tables
<1>5. HeldTyped'
  BY TypeParts, SteppedTyped DEF Runs
<1>6. TypeInv'
  BY <1>1, <1>3, <1>4, <1>5, GoesOnTyped
<1> HIDE DEF b
<1> QED BY <1>2, <1>3, <1>4, <1>6

LEMMA FailsCalls ==
    ASSUME LockInv, TypeInv, NEW c \in Conns, owner = c, NEW s \in Names, NEW args \in Bound[s],
           Fails(c, s, args)
    PROVE  TypeInv' /\ ViewInv'
<1>1. owner' = Null /\ view' = NoView /\ Answered(c) /\ UNCHANGED <<rows, fileBlocks, sizes>>
  BY DEF Fails, RolledBack, tables
<1>2. HeldTyped'
  BY TypeParts, FailedTyped DEF Fails
<1>3. TablesTyped'
  BY <1>1, TypeParts DEF TablesTyped
<1> QED BY <1>1, <1>2, <1>3, EndsTyped, ViewEnds

LEMMA RowsSet ==
    ASSUME ViewTyped, NEW rs \in Seq(T!Row), Len(rs) =< MaxRows, SetRows(rs)
    PROVE  ViewTyped' /\ view'.rows = rs /\ view'.fileBlocks = view.fileBlocks
  BY DEF ViewTyped, SetRows, View

LEMMA FileBlocksSet ==
    ASSUME ViewTyped, NEW fb \in [Files -> Hashes \cup {Null}], SetFileBlocks(fb)
    PROVE  ViewTyped' /\ view'.rows = view.rows /\ view'.fileBlocks = fb
  BY DEF ViewTyped, SetFileBlocks, View

\* A call at a statement, and what it has.
LEMMA CallAtWork ==
    ASSUME CallsInv, NEW c \in Conns, NEW p \in Places, At(c, p), NEW k, k = call[c]
    PROVE  /\ owner = c /\ CallTyped(k) /\ k.at = p
           /\ ~k.misled => ViewOf(k)
<1>1. Idle.at = "idle"
  BY DEF Idle
<1>2. owner = c /\ k.at = p /\ k # Idle
  BY <1>1, AtOwns DEF CallsInv, LockInv, At, Places
<1> QED BY <1>2 DEF CallsInv, TypeInv, ViewInv

\* What depends on the committed tables alone stays.
LEMMA StoredStays ==
    ASSUME UNCHANGED <<rows, fileBlocks>>, NEW k, NEW r, Continues(k, r), r.hash = k.hash
    PROVE  /\ T!CallerHolds(k.block, k.use) => T!CallerHolds(r.block, r.use)'
           /\ T!Present(r.hash)' <=> T!Present(k.hash)
           /\ T!InPlaceAllowed(r.block, r.use) <=> T!InPlaceAllowed(k.block, k.use)
           /\ T!IdOf(r.hash)' = T!IdOf(k.hash)
           /\ StoredRows(r)' = StoredRows(k)
           /\ Pointed(r, k.hash)' = Pointed(k, k.hash)
           /\ r.num = k.num /\ r.count = k.count /\ Stored(k) => Stored(r)'
  BY DEF Continues, T!CallerHolds, T!Present, T!IdOf, StoredRows, Stored, Pointed,
         T!InPlaceAllowed

\* A statement of replaceStorageBlock that is not misdirected.
LEMMA IncreasesCalls ==
    ASSUME CallsInv, NEW c \in Conns, Increases(c)
    PROVE  TypeInv' /\ ViewInv'
<1> PICK k : k = call[c]  OBVIOUS
<1> PICK r : r = call'[c]  OBVIOUS
<1> DEFINE next == [Next1(c, "point") EXCEPT !.count = @ - 1]
           u == Used(c, "increaseUseCount", k.hash)
<1>1. owner = c /\ CallTyped(k) /\ k.at = "increase" /\ (~k.misled => ViewOf(k))
  BY CallAtWork DEF Increases, Places
<1>2. k \in Call /\ k.kind = "replace" /\ k.hash \in Hashes /\ k.count - 1 \in Int
  BY <1>1, CallFields DEF CallTyped
<1>3. /\ next \in Call /\ next.at = "point" /\ Continues(k, next) /\ next.misled = k.misled
      /\ next.hash = k.hash /\ next.count = k.count - 1 /\ next.num = k.num
  <2> HIDE DEF next
  <2> QED BY <1>2, Next1Counted DEF next
<1>4. CallTyped(next)
  <2> HIDE DEF next
  <2> QED BY <1>2, <1>3 DEF CallTyped, Continues
<1>5. "increaseUseCount" \in Names /\ k.hash \in Bound["increaseUseCount"]
  BY <1>2 DEF Names, Bound
<1>6. \/ Runs(c, "increaseUseCount", k.hash, next) /\ SetRows(IncreaseUse(view.rows, u))
      \/ Fails(c, "increaseUseCount", k.hash)
  BY DEF Increases
<1> HIDE DEF next, u
<1>7. CASE Fails(c, "increaseUseCount", k.hash)
  BY <1>1, <1>5, <1>7, FailsCalls DEF CallsInv
<1>8. CASE Runs(c, "increaseUseCount", k.hash, next) /\ SetRows(IncreaseUse(view.rows, u))
  <2>1. ViewTyped' /\ view'.rows = IncreaseUse(view.rows, u)
        /\ view'.fileBlocks = view.fileBlocks
    BY <1>8, TypeParts, IncreaseUseRows, RowsSet DEF CallsInv, ViewTyped
  <2>2. /\ TypeInv' /\ owner' = c /\ UNCHANGED <<rows, fileBlocks>>
        /\ r.at = "point" /\ Continues(k, r) /\ r.hash = k.hash /\ r.count = k.count - 1
        /\ r.num = k.num /\ (~r.misled => ~k.misled /\ u = k.hash)
    BY <1>1, <1>3, <1>4, <1>5, <1>8, <2>1, RunsTo DEF CallsInv, Continues, u
  <2>3. ASSUME ~r.misled PROVE ViewOf(r)'
    <3>1. ReplaceView(k) /\ u = k.hash
      BY <1>1, <1>2, <2>2, <2>3 DEF ViewOf
    <3>2. view = Committed /\ k.count = k.use /\ T!Present(k.hash) /\ k.num = T!IdOf(k.hash)
          /\ T!CallerHolds(k.block, k.use)
      BY <1>1, <3>1 DEF ReplaceView
    <3>3. view'.rows = IncreaseUse(rows, k.hash) /\ view'.fileBlocks = fileBlocks
      BY <2>1, <3>1, <3>2 DEF Committed
    <3>4. StoredRows(k) = IncreaseUse(rows, k.hash)
      BY <3>2 DEF StoredRows
    <3>5. (StoredRows(r))' = StoredRows(k) /\ T!CallerHolds(r.block, r.use)'
      BY <2>2, <3>2, StoredStays
    <3>6. Stored(r)'
      BY <2>2, <3>2, StoredStays DEF Stored, Continues
    <3> QED BY <1>2, <2>2, <3>3, <3>4, <3>5, <3>6 DEF ViewOf, ReplaceView, Continues
  <2> QED BY <2>2, <2>3, ViewGoesOn DEF CallsInv
<1> QED BY <1>6, <1>7, <1>8

LEMMA UpdatesCalls ==
    ASSUME CallsInv, NEW c \in Conns, Updates(c)
    PROVE  TypeInv' /\ ViewInv'
<1> PICK k : k = call[c]  OBVIOUS
<1> PICK r : r = call'[c]  OBVIOUS
<1> DEFINE next == Next1(c, "point")
           args == <<k.block, k.hash>>
           u == Used(c, "updateBlockHash", args)
           rs == V!SetHash(view.rows, u[1], u[2])
<1>1. owner = c /\ CallTyped(k) /\ k.at = "update" /\ (~k.misled => ViewOf(k))
  BY CallAtWork DEF Updates, Places
<1>2. k \in Call /\ k.kind = "replace" /\ k.hash \in Hashes /\ k.block \in 0..MaxRows
  BY <1>1, CallFields DEF CallTyped, Numbers
<1>3. /\ next \in Call /\ next.at = "point" /\ Continues(k, next) /\ next.misled = k.misled
      /\ next.hash = k.hash /\ next.count = k.count /\ next.num = k.num
  BY <1>2, Next1Call DEF Places
<1>4. (Runs(c, "updateBlockHash", args, next) /\ SetRows(rs)) \/ Fails(c, "updateBlockHash", args)
  BY DEF Updates
<1> HIDE DEF next
<1>5. CallTyped(next)
  BY <1>2, <1>3 DEF CallTyped, Continues
<1>6. "updateBlockHash" \in Names /\ args \in Bound["updateBlockHash"]
  BY <1>2 DEF Names, Bound
<1>7. u[2] \in Hashes
  <2>1. u \in Bound["updateBlockHash"]
    BY <1>6, UsedTyped, TypeParts DEF CallsInv
  <2> QED BY <2>1 DEF Bound
<1> HIDE DEF u, args
<1>8. CASE Fails(c, "updateBlockHash", args)
  BY <1>1, <1>6, <1>8, FailsCalls DEF CallsInv
<1>9. CASE Runs(c, "updateBlockHash", args, next) /\ SetRows(rs)
  <2>1. rs \in Seq(T!Row) /\ Len(rs) = Len(view.rows)
    BY <1>7, TypeParts, SetHashRows DEF CallsInv
  <2> HIDE DEF rs
  <2>2. ViewTyped' /\ view'.rows = rs /\ view'.fileBlocks = view.fileBlocks
    BY <1>9, <2>1, TypeParts, RowsSet DEF CallsInv, ViewTyped
  <2>3. /\ TypeInv' /\ owner' = c /\ UNCHANGED <<rows, fileBlocks>>
        /\ r.at = "point" /\ Continues(k, r) /\ r.hash = k.hash /\ r.count = k.count
        /\ r.num = k.num /\ (~r.misled => ~k.misled /\ u = args)
    BY <1>1, <1>3, <1>5, <1>6, <1>9, <2>2, RunsTo DEF CallsInv, Continues, u
  <2>4. ASSUME ~r.misled PROVE ViewOf(r)'
    <3>1. ReplaceView(k) /\ u[1] = k.block /\ u[2] = k.hash
      BY <1>1, <1>2, <2>3, <2>4 DEF ViewOf, args
    <3>2. view = Committed /\ k.count = k.use /\ k.num = k.block /\ ~T!Present(k.hash)
          /\ T!InPlaceAllowed(k.block, k.use) /\ T!CallerHolds(k.block, k.use)
      BY <1>1, <3>1 DEF ReplaceView
    <3>3. view'.rows = V!SetHash(rows, k.block, k.hash) /\ view'.fileBlocks = fileBlocks
      BY <2>2, <3>1, <3>2 DEF Committed, rs
    <3>4. StoredRows(k) = V!SetHash(rows, k.block, k.hash) /\ Stored(k)
      BY <3>2 DEF StoredRows, Stored
    <3>5. StoredRows(r)' = StoredRows(k) /\ T!CallerHolds(r.block, r.use)' /\ Stored(r)'
      BY <2>3, <3>2, <3>4, StoredStays
    <3> QED BY <1>2, <2>3, <3>3, <3>4, <3>5 DEF ViewOf, ReplaceView, Continues
  <2> QED BY <2>3, <2>4, ViewGoesOn DEF CallsInv
<1> QED BY <1>4, <1>8, <1>9

LEMMA InsertsCalls ==
    ASSUME CallsInv, NEW c \in Conns, Inserts(c)
    PROVE  TypeInv' /\ ViewInv'
<1> PICK k : k = call[c]  OBVIOUS
<1> PICK r : r = call'[c]  OBVIOUS
<1>0. PICK i : i = Len(view.rows) + 1  OBVIOUS
<1> DEFINE next == [Next1(c, "point") EXCEPT !.count = @ - 1, !.num = i]
           u == Used(c, "insertBlockHash", k.hash)
           rs == Append(view.rows, [hash |-> u, use |-> 1])
<1>1. owner = c /\ CallTyped(k) /\ k.at = "insert" /\ (~k.misled => ViewOf(k))
  BY CallAtWork DEF Inserts, Places
<1>2. k \in Call /\ k.kind = "replace" /\ k.hash \in Hashes /\ k.count - 1 \in Int
      /\ view.rows \in Seq(T!Row) /\ Len(view.rows) < MaxRows /\ i \in Numbers
  <2>1. view.rows \in Seq(T!Row) /\ Len(view.rows) < MaxRows /\ Len(view.rows) \in Nat
    BY TypeParts DEF CallsInv, Inserts
  <2> QED BY <1>0, <1>1, <2>1, CallFields, StatementsAssumption DEF CallTyped, Numbers
<1>3. /\ next \in Call /\ next.at = "point" /\ Continues(k, next) /\ next.misled = k.misled
      /\ next.hash = k.hash /\ next.count = k.count - 1 /\ next.num = i
  <2>1. k \in Call /\ k.count - 1 \in Int /\ i \in Numbers
    BY <1>2
  <2>2. PICK n \in Int : n = k.count - 1
    BY <2>1
  <2>3. next = [k EXCEPT !.at = "point", !.count = n, !.num = i]
    BY <2>1, <2>2 DEF Next1, Call
  <2> HIDE DEF next
  <2>4. LET q == [k EXCEPT !.at = "point", !.count = n, !.num = i]
        IN  /\ q \in Call /\ q.at = "point" /\ Continues(k, q) /\ q.misled = k.misled
            /\ q.hash = k.hash /\ q.count = n /\ q.num = i
    BY <2>1 DEF Call, Continues, Numbers
  <2> QED BY <2>2, <2>3, <2>4
<1>4. (Runs(c, "insertBlockHash", k.hash, next) /\ SetRows(rs)) \/ Fails(c, "insertBlockHash", k.hash)
  BY <1>0 DEF Inserts
<1> HIDE DEF next
<1>5. CallTyped(next)
  BY <1>2, <1>3 DEF CallTyped, Continues
<1>6. "insertBlockHash" \in Names /\ k.hash \in Bound["insertBlockHash"]
  BY <1>2 DEF Names, Bound
<1>7. u \in Hashes
  <2>1. u \in Bound["insertBlockHash"]
    BY <1>6, UsedTyped, TypeParts DEF CallsInv
  <2> QED BY <2>1 DEF Bound
<1> HIDE DEF u
<1>8. CASE Fails(c, "insertBlockHash", k.hash)
  BY <1>1, <1>6, <1>8, FailsCalls DEF CallsInv
<1>9. CASE Runs(c, "insertBlockHash", k.hash, next) /\ SetRows(rs)
  <2>1. rs \in Seq(T!Row) /\ Len(rs) = Len(view.rows) + 1
    BY <1>2, <1>7 DEF T!Row
  <2> HIDE DEF rs
  <2>2. ViewTyped' /\ view'.rows = rs /\ view'.fileBlocks = view.fileBlocks
    <3>1. Len(rs) =< MaxRows
      BY <1>2, <2>1, StatementsAssumption
    <3> QED BY <1>9, <2>1, <3>1, TypeParts, RowsSet DEF CallsInv
  <2>3. /\ TypeInv' /\ owner' = c /\ UNCHANGED <<rows, fileBlocks>>
        /\ r.at = "point" /\ Continues(k, r) /\ r.hash = k.hash /\ r.count = k.count - 1
        /\ r.num = i /\ (~r.misled => ~k.misled /\ u = k.hash)
    BY <1>1, <1>3, <1>5, <1>6, <1>9, <2>2, RunsTo DEF CallsInv, Continues, u
  <2>4. ASSUME ~r.misled PROVE ViewOf(r)'
    <3>1. ReplaceView(k) /\ u = k.hash
      BY <1>1, <1>2, <2>3, <2>4 DEF ViewOf
    <3>2. view = Committed /\ k.count = k.use /\ ~T!Present(k.hash)
          /\ ~T!InPlaceAllowed(k.block, k.use) /\ T!CallerHolds(k.block, k.use)
      BY <1>1, <3>1 DEF ReplaceView
    <3>3. view'.rows = Append(rows, [hash |-> k.hash, use |-> 1])
          /\ view'.fileBlocks = fileBlocks /\ i = Len(rows) + 1 /\ Len(rows) < MaxRows
      BY <1>0, <1>2, <2>2, <3>1, <3>2 DEF Committed, rs
    <3>4. StoredRows(k) = Append(rows, [hash |-> k.hash, use |-> 1])
      BY <3>2 DEF StoredRows
    <3>5. StoredRows(r)' = StoredRows(k) /\ T!CallerHolds(r.block, r.use)'
      BY <2>3, <3>2, StoredStays
    <3>6. Stored(r)'
      BY <2>3, <3>2, <3>3, StoredStays DEF Stored, Continues
    <3> QED BY <1>2, <2>3, <3>3, <3>4, <3>5, <3>6 DEF ViewOf, ReplaceView, Continues
  <2> QED BY <2>3, <2>4, ViewGoesOn DEF CallsInv
<1> QED BY <1>4, <1>8, <1>9

LEMMA PointsCalls ==
    ASSUME CallsInv, NEW c \in Conns, Points(c)
    PROVE  TypeInv' /\ ViewInv'
<1> PICK k : k = call[c]  OBVIOUS
<1> PICK r : r = call'[c]  OBVIOUS
<1>0. PICK p : p = IF k.block = Null THEN "commit" ELSE "setUse"  OBVIOUS
<1> DEFINE next == Next1(c, p)
           args == <<k.file, k.hash>>
           u == Used(c, "replaceFileBlock", args)
           fb == [view.fileBlocks EXCEPT ![u[1]] = u[2]]
<1>1. owner = c /\ CallTyped(k) /\ k.at = "point" /\ (~k.misled => ViewOf(k))
  BY CallAtWork DEF Points, Places
<1>2. k \in Call /\ k.kind = "replace" /\ k.hash \in Hashes /\ k.file \in Files /\ p \in Places
  BY <1>0, <1>1, CallFields DEF CallTyped, Places
<1>3. /\ next \in Call /\ next.at = p /\ Continues(k, next) /\ next.misled = k.misled
      /\ next.hash = k.hash /\ next.count = k.count /\ next.num = k.num
  BY <1>2, Next1Call
<1>4. \/ Runs(c, "replaceFileBlock", args, next) /\ SetFileBlocks(fb)
      \/ Fails(c, "replaceFileBlock", args)
  BY <1>0 DEF Points
<1> HIDE DEF next
<1>5. CallTyped(next)
  BY <1>0, <1>2, <1>3 DEF CallTyped, Continues
<1>6. "replaceFileBlock" \in Names /\ args \in Bound["replaceFileBlock"]
  BY <1>2 DEF Names, Bound
<1>7. u[1] \in Files /\ u[2] \in Hashes
  <2>1. u \in Bound["replaceFileBlock"]
    BY <1>6, UsedTyped, TypeParts DEF CallsInv
  <2> QED BY <2>1 DEF Bound
<1> HIDE DEF u, args
<1>8. CASE Fails(c, "replaceFileBlock", args)
  BY <1>1, <1>6, <1>8, FailsCalls DEF CallsInv
<1>9. CASE Runs(c, "replaceFileBlock", args, next) /\ SetFileBlocks(fb)
  <2>1. fb \in [Files -> Hashes \cup {Null}]
    BY <1>7, TypeParts DEF CallsInv
  <2> HIDE DEF fb
  <2>2. ViewTyped' /\ view'.rows = view.rows /\ view'.fileBlocks = fb
    BY <1>9, <2>1, TypeParts, FileBlocksSet DEF CallsInv
  <2>3. /\ TypeInv' /\ owner' = c /\ UNCHANGED <<rows, fileBlocks>>
        /\ r.at = p /\ Continues(k, r) /\ r.hash = k.hash /\ r.count = k.count
        /\ r.num = k.num /\ (~r.misled => ~k.misled /\ u = args)
    BY <1>1, <1>3, <1>5, <1>6, <1>9, <2>2, RunsTo DEF CallsInv, Continues, u
  <2>4. ASSUME ~r.misled PROVE ViewOf(r)'
    <3>1. ReplaceView(k) /\ u[1] = k.file /\ u[2] = k.hash
      BY <1>1, <1>2, <2>3, <2>4 DEF ViewOf, args
    <3>2. /\ Stored(k) /\ view.rows = StoredRows(k) /\ view.fileBlocks = fileBlocks
          /\ T!CallerHolds(k.block, k.use)
      BY <1>1, <3>1 DEF ReplaceView
    <3>3. view'.rows = StoredRows(k) /\ view'.fileBlocks = Pointed(k, k.hash)
      BY <2>2, <3>1, <3>2 DEF Pointed, fb
    <3>4. /\ StoredRows(r)' = StoredRows(k) /\ T!CallerHolds(r.block, r.use)' /\ Stored(r)'
          /\ Pointed(r, k.hash)' = Pointed(k, k.hash)
      BY <2>3, <3>2, StoredStays
    <3>5. k.block = Null => V!SetUse(StoredRows(k), k.block, k.count) = StoredRows(k)
      <4>1. StoredRows(k) \in Seq(T!Row)
        BY <3>2, TypeParts DEF CallsInv
      <4>2. k.block = Null => k.block \notin DOMAIN StoredRows(k)
        BY <4>1, StatementsAssumption
      <4> QED BY <4>2 DEF V!SetUse
    <3> QED BY <1>0, <1>2, <2>3, <3>3, <3>4, <3>5 DEF ViewOf, ReplaceView, Continues, V!SetUse
  <2> QED BY <2>3, <2>4, ViewGoesOn DEF CallsInv
<1> QED BY <1>4, <1>8, <1>9

LEMMA SetsUseCalls ==
    ASSUME CallsInv, NEW c \in Conns, SetsUse(c)
    PROVE  TypeInv' /\ ViewInv'
<1> PICK k : k = call[c]  OBVIOUS
<1> PICK r : r = call'[c]  OBVIOUS
<1> DEFINE next == Next1(c, "commit")
           args == <<k.block, k.count>>
           u == Used(c, "setUseCount", args)
           rs == V!SetUse(view.rows, u[1], u[2])
<1>1. owner = c /\ CallTyped(k) /\ k.at = "setUse" /\ (~k.misled => ViewOf(k))
  BY CallAtWork DEF SetsUse, Places
<1>2. k \in Call /\ k.kind = "replace" /\ k.hash \in Hashes /\ k.block \in 0..MaxRows
      /\ k.count \in Int
  BY <1>1, CallFields DEF CallTyped, Numbers
<1>3. /\ next \in Call /\ next.at = "commit" /\ Continues(k, next) /\ next.misled = k.misled
      /\ next.hash = k.hash /\ next.count = k.count /\ next.num = k.num
  BY <1>2, Next1Call DEF Places
<1>4. (Runs(c, "setUseCount", args, next) /\ SetRows(rs)) \/ Fails(c, "setUseCount", args)
  BY DEF SetsUse
<1> HIDE DEF next
<1>5. CallTyped(next)
  BY <1>2, <1>3 DEF CallTyped, Continues
<1>6. "setUseCount" \in Names /\ args \in Bound["setUseCount"]
  BY <1>2 DEF Names, Bound
<1>7. u[2] \in Int
  <2>1. u \in Bound["setUseCount"]
    BY <1>6, UsedTyped, TypeParts DEF CallsInv
  <2> QED BY <2>1 DEF Bound
<1> HIDE DEF u, args
<1>8. CASE Fails(c, "setUseCount", args)
  BY <1>1, <1>6, <1>8, FailsCalls DEF CallsInv
<1>9. CASE Runs(c, "setUseCount", args, next) /\ SetRows(rs)
  <2>1. rs \in Seq(T!Row) /\ Len(rs) = Len(view.rows)
    BY <1>7, TypeParts, SetUseRows DEF CallsInv
  <2> HIDE DEF rs
  <2>2. ViewTyped' /\ view'.rows = rs /\ view'.fileBlocks = view.fileBlocks
    BY <1>9, <2>1, TypeParts, RowsSet DEF CallsInv, ViewTyped
  <2>3. /\ TypeInv' /\ owner' = c /\ UNCHANGED <<rows, fileBlocks>>
        /\ r.at = "commit" /\ Continues(k, r) /\ r.hash = k.hash /\ r.count = k.count
        /\ r.num = k.num /\ (~r.misled => ~k.misled /\ u = args)
    BY <1>1, <1>3, <1>5, <1>6, <1>9, <2>2, RunsTo DEF CallsInv, Continues, u
  <2>4. ASSUME ~r.misled PROVE ViewOf(r)'
    <3>1. ReplaceView(k) /\ u[1] = k.block /\ u[2] = k.count
      BY <1>1, <1>2, <2>3, <2>4 DEF ViewOf, args
    <3>2. /\ Stored(k) /\ view.rows = StoredRows(k) /\ view.fileBlocks = Pointed(k, k.hash)
          /\ T!CallerHolds(k.block, k.use)
      BY <1>1, <3>1 DEF ReplaceView
    <3>3. view'.rows = V!SetUse(StoredRows(k), k.block, k.count)
          /\ view'.fileBlocks = Pointed(k, k.hash)
      BY <2>2, <3>1, <3>2 DEF rs
    <3>4. /\ StoredRows(r)' = StoredRows(k) /\ T!CallerHolds(r.block, r.use)' /\ Stored(r)'
          /\ Pointed(r, k.hash)' = Pointed(k, k.hash)
      BY <2>3, <3>2, StoredStays
    <3> QED BY <1>2, <2>3, <3>3, <3>4 DEF ViewOf, ReplaceView, Continues, V!SetUse
  <2> QED BY <2>3, <2>4, ViewGoesOn DEF CallsInv
<1> QED BY <1>4, <1>8, <1>9

\* A statement of releaseStorageBlock that is not misdirected.
LEMMA LoadsCalls ==
    ASSUME CallsInv, NEW c \in Conns, Loads(c)
    PROVE  TypeInv' /\ ViewInv'
<1> PICK k : k = call[c]  OBVIOUS
<1> PICK r : r = call'[c]  OBVIOUS
<1> DEFINE u == Used(c, "getFileBlock", k.file)
<1>0. PICK x : x = LoadedHash(u)  OBVIOUS
<1> DEFINE next == [Next1(c, "delete") EXCEPT !.hash = x]
<1>1. owner = c /\ CallTyped(k) /\ k.at = "load" /\ (~k.misled => ViewOf(k))
  BY CallAtWork DEF Loads, Places
<1>2. k \in Call /\ k.kind = "release" /\ k.file \in Files
  BY <1>1, CallFields DEF CallTyped
<1>3. "getFileBlock" \in Names /\ k.file \in Bound["getFileBlock"]
  BY <1>2 DEF Names, Bound
<1>4. x \in Hashes \cup {EmptyBlob, Null}
  <2>1. u \in Files
    BY <1>3, UsedTyped, TypeParts DEF CallsInv, Bound
  <2>2. view.fileBlocks[u] \in Hashes \cup {Null}
    BY <2>1, TypeParts DEF CallsInv
  <2> HIDE DEF u
  <2> QED BY <1>0, <2>2 DEF LoadedHash, Blob
<1>5. (Runs(c, "getFileBlock", k.file, next) /\ UNCHANGED view) \/ Fails(c, "getFileBlock", k.file)
  BY <1>0 DEF Loads
<1>6. /\ next \in Call /\ next.at = "delete" /\ Continues(k, next) /\ next.misled = k.misled
      /\ next.hash = x
  BY <1>2, <1>4 DEF Call, Continues, Next1
<1> HIDE DEF next
<1>7. CallTyped(next)
  BY <1>2, <1>6 DEF CallTyped, Continues
<1> HIDE DEF u
<1>8. CASE Fails(c, "getFileBlock", k.file)
  BY <1>1, <1>3, <1>8, FailsCalls DEF CallsInv
<1>9. CASE Runs(c, "getFileBlock", k.file, next) /\ UNCHANGED view
  <2>1. ViewTyped'
    BY <1>9, TypeParts DEF CallsInv, ViewTyped
  <2>2. /\ TypeInv' /\ owner' = c /\ UNCHANGED <<rows, fileBlocks>>
        /\ r.at = "delete" /\ Continues(k, r) /\ (~r.misled => ~k.misled)
    BY <1>1, <1>3, <1>6, <1>7, <1>9, <2>1, RunsTo DEF CallsInv, Continues
  <2>3. ASSUME ~r.misled PROVE ViewOf(r)'
    <3>1. view = Committed
      BY <1>1, <1>2, <2>2, <2>3 DEF ViewOf, ReleaseView
    <3>2. Committed' = Committed
      BY <2>2 DEF Committed
    <3> QED BY <1>2, <1>9, <2>2, <3>1, <3>2 DEF ViewOf, ReleaseView, Continues
  <2> QED BY <2>2, <2>3, ViewGoesOn DEF CallsInv
<1> QED BY <1>5, <1>8, <1>9

LEMMA DeletesCalls ==
    ASSUME CallsInv, NEW c \in Conns, Deletes(c)
    PROVE  TypeInv' /\ ViewInv'
<1> PICK k : k = call[c]  OBVIOUS
<1> PICK r : r = call'[c]  OBVIOUS
<1> DEFINE next == Next1(c, "decrease")
           u == Used(c, "deleteFileBlock", k.file)
           fb == [view.fileBlocks EXCEPT ![u] = Null]
<1>1. owner = c /\ CallTyped(k) /\ k.at = "delete" /\ (~k.misled => ViewOf(k))
  BY CallAtWork DEF Deletes, Places
<1>2. k \in Call /\ k.kind = "release" /\ k.file \in Files
  BY <1>1, CallFields DEF CallTyped
<1>3. next \in Call /\ next.at = "decrease" /\ Continues(k, next) /\ next.misled = k.misled
  BY <1>2, Next1Call DEF Places
<1>4. \/ Runs(c, "deleteFileBlock", k.file, next) /\ SetFileBlocks(fb)
      \/ Fails(c, "deleteFileBlock", k.file)
  BY DEF Deletes
<1> HIDE DEF next
<1>5. CallTyped(next)
  BY <1>2, <1>3 DEF CallTyped, Continues
<1>6. "deleteFileBlock" \in Names /\ k.file \in Bound["deleteFileBlock"]
  BY <1>2 DEF Names, Bound
<1> HIDE DEF u
<1>7. CASE Fails(c, "deleteFileBlock", k.file)
  BY <1>1, <1>6, <1>7, FailsCalls DEF CallsInv
<1>8. CASE Runs(c, "deleteFileBlock", k.file, next) /\ SetFileBlocks(fb)
  <2>1. fb \in [Files -> Hashes \cup {Null}]
    BY TypeParts DEF CallsInv
  <2> HIDE DEF fb
  <2>2. ViewTyped' /\ view'.rows = view.rows /\ view'.fileBlocks = fb
    BY <1>8, <2>1, TypeParts, FileBlocksSet DEF CallsInv
  <2>3. /\ TypeInv' /\ owner' = c /\ UNCHANGED <<rows, fileBlocks>>
        /\ r.at = "decrease" /\ Continues(k, r) /\ (~r.misled => ~k.misled /\ u = k.file)
    BY <1>1, <1>3, <1>5, <1>6, <1>8, <2>2, RunsTo DEF CallsInv, Continues, u
  <2>4. ASSUME ~r.misled PROVE ViewOf(r)'
    <3>1. view = Committed /\ u = k.file
      BY <1>1, <1>2, <2>3, <2>4 DEF ViewOf, ReleaseView
    <3>2. view'.rows = rows /\ view'.fileBlocks = Pointed(k, Null)
      BY <2>2, <3>1 DEF Committed, Pointed, fb
    <3>3. Pointed(r, Null)' = Pointed(k, Null)
      BY <2>3 DEF Pointed, Continues
    <3> QED BY <1>2, <2>3, <3>2, <3>3 DEF ViewOf, ReleaseView, Continues
  <2> QED BY <2>3, <2>4, ViewGoesOn DEF CallsInv
<1> QED BY <1>4, <1>7, <1>8

LEMMA DecreasesCalls ==
    ASSUME CallsInv, NEW c \in Conns, Decreases(c)
    PROVE  TypeInv' /\ ViewInv'
<1> PICK k : k = call[c]  OBVIOUS
<1> PICK r : r = call'[c]  OBVIOUS
<1> DEFINE next == Next1(c, "commit")
           u == Used(c, "decreaseUseCount", k.hash)
           rs == V!DecreaseUse(view.rows, u)
<1>1. owner = c /\ CallTyped(k) /\ k.at = "decrease" /\ (~k.misled => ViewOf(k))
  BY CallAtWork DEF Decreases, Places
<1>2. k \in Call /\ k.kind = "release" /\ k.hash \in Hashes \cup {EmptyBlob}
  <2>1. k \in Call /\ k.kind = "release" /\ k.hash \in Hashes \cup {EmptyBlob, Null}
    BY <1>1, CallFields DEF CallTyped
  <2> QED BY <2>1 DEF Decreases
<1>3. /\ next \in Call /\ next.at = "commit" /\ Continues(k, next) /\ next.misled = k.misled
      /\ next.hash = k.hash
  BY <1>2, Next1Call DEF Places
<1>4. \/ Runs(c, "decreaseUseCount", k.hash, next) /\ SetRows(rs)
      \/ Fails(c, "decreaseUseCount", k.hash)
  BY DEF Decreases
<1> HIDE DEF next
<1>5. CallTyped(next)
  BY <1>2, <1>3 DEF CallTyped, Continues
<1>6. "decreaseUseCount" \in Names /\ k.hash \in Bound["decreaseUseCount"]
  BY <1>2 DEF Names, Bound
<1> HIDE DEF u
<1>7. CASE Fails(c, "decreaseUseCount", k.hash)
  BY <1>1, <1>6, <1>7, FailsCalls DEF CallsInv
<1>8. CASE Runs(c, "decreaseUseCount", k.hash, next) /\ SetRows(rs)
  <2>1. rs \in Seq(T!Row) /\ Len(rs) = Len(view.rows)
    BY TypeParts, DecreaseUseRows DEF CallsInv
  <2> HIDE DEF rs
  <2>2. ViewTyped' /\ view'.rows = rs /\ view'.fileBlocks = view.fileBlocks
    BY <1>8, <2>1, TypeParts, RowsSet DEF CallsInv, ViewTyped
  <2>3. /\ TypeInv' /\ owner' = c /\ UNCHANGED <<rows, fileBlocks>>
        /\ r.at = "commit" /\ Continues(k, r) /\ r.hash = k.hash
        /\ (~r.misled => ~k.misled /\ u = k.hash)
    BY <1>1, <1>3, <1>5, <1>6, <1>8, <2>2, RunsTo DEF CallsInv, Continues, u
  <2>4. ASSUME ~r.misled PROVE ViewOf(r)'
    <3>1. view.rows = rows /\ view.fileBlocks = Pointed(k, Null) /\ u = k.hash
      BY <1>1, <1>2, <2>3, <2>4 DEF ViewOf, ReleaseView
    <3>2. view'.rows = V!DecreaseUse(rows, k.hash) /\ view'.fileBlocks = Pointed(k, Null)
      BY <2>2, <3>1 DEF rs
    <3>3. Pointed(r, Null)' = Pointed(k, Null)
      BY <2>3 DEF Pointed, Continues
    <3> QED BY <1>2, <2>3, <3>2, <3>3 DEF ViewOf, ReleaseView, Continues, V!DecreaseUse
  <2> QED BY <2>3, <2>4, ViewGoesOn DEF CallsInv
<1> QED BY <1>4, <1>7, <1>8

LEMMA SelectsCalls ==
    ASSUME CallsInv, NEW c \in Conns, Selects(c)
    PROVE  TypeInv' /\ ViewInv'
<1> PICK k : k = call[c]  OBVIOUS
<1> PICK r : r = call'[c]  OBVIOUS
<1>1. owner = c /\ CallTyped(k) /\ k.at = "select" /\ (~k.misled => ViewOf(k))
  BY CallAtWork DEF Selects, Places
<1>2. k \in Call /\ k.kind = "replace" /\ k.hash \in Hashes /\ k.block \in Numbers
  BY <1>1, CallFields DEF CallTyped
<1>3. OthersWait(c) /\ owner' = c /\ UNCHANGED <<rows, fileBlocks, sizes, view>>
      /\ HeldTyped' /\ ViewTyped'
  BY <1>1, TypeParts DEF Selects, OthersWait, tables, CallsInv, LockInv, CallInv, HeldTyped,
                         ViewTyped
<1>4. r = IF V!Present(k.hash)
          THEN [k EXCEPT !.at = "increase", !.num = V!IdOf(k.hash)]
          ELSE [k EXCEPT !.at = IF V!InPlaceAllowed(k.block, k.use) THEN "update" ELSE "insert"]
  BY DEF Selects, CallsInv, LockInv, CallInv
<1>5. CASE V!Present(k.hash)
  <2>1. V!IdOf(k.hash) \in Numbers
    <3>1. V!IdOf(k.hash) \in DOMAIN view.rows
      BY <1>5 DEF V!Present, V!IdOf
    <3>2. view.rows \in Seq(T!Row) /\ Len(view.rows) =< MaxRows /\ DOMAIN view.rows = 1..Len(view.rows)
      BY TypeParts DEF CallsInv, ViewTyped
    <3> QED BY <3>1, <3>2, StatementsAssumption DEF Numbers
  <2>2. PICK i \in Numbers : i = V!IdOf(k.hash)
    BY <2>1
  <2>3. /\ r \in Call /\ r.at = "increase" /\ Continues(k, r) /\ r.misled = k.misled
        /\ r.hash = k.hash /\ r.count = k.count /\ r.num = i
    BY <1>2, <1>4, <1>5, <2>2 DEF Call, Continues, Numbers
  <2>4. CallTyped(r)
    BY <1>2, <2>3 DEF CallTyped, Continues
  <2>5. ASSUME ~r.misled PROVE ViewOf(r)'
    <3>1. view = Committed /\ k.count = k.use /\ T!CallerHolds(k.block, k.use)
      BY <1>1, <1>2, <2>3, <2>5 DEF ViewOf, ReplaceView
    <3>2. view.rows = rows /\ view' = Committed'
      BY <1>3, <3>1 DEF Committed
    <3>3. T!Present(k.hash) /\ i = T!IdOf(k.hash)
      BY <1>5, <2>2, <3>2 DEF V!Present, V!IdOf, T!Present, T!IdOf
    <3>4. T!Present(r.hash)' /\ r.num = T!IdOf(r.hash)' /\ T!CallerHolds(r.block, r.use)'
      BY <1>3, <2>3, <3>1, <3>3, StoredStays
    <3> QED BY <1>2, <2>3, <3>1, <3>2, <3>4 DEF ViewOf, ReplaceView, Continues
  <2> QED BY <1>1, <1>3, <2>4, <2>5, GoesOnTyped, ViewGoesOn DEF CallsInv
<1>6. CASE ~V!Present(k.hash)
  <2>1. PICK p : p = IF V!InPlaceAllowed(k.block, k.use) THEN "update" ELSE "insert"
    OBVIOUS
  <2>2. /\ r \in Call /\ r.at = p /\ Continues(k, r) /\ r.misled = k.misled
        /\ r.hash = k.hash /\ r.count = k.count /\ r.num = k.num
    <3>1. p \in Places /\ r = [k EXCEPT !.at = p]
      BY <1>4, <1>6, <2>1 DEF Places
    <3> QED BY <1>2, <3>1, CallAt
  <2>3. CallTyped(r)
    BY <1>2, <2>1, <2>2 DEF CallTyped, Continues, V!InPlaceAllowed
  <2>4. ASSUME ~r.misled PROVE ViewOf(r)'
    <3>1. view = Committed /\ k.count = k.use /\ k.num = k.block /\ T!CallerHolds(k.block, k.use)
      BY <1>1, <1>2, <2>2, <2>4 DEF ViewOf, ReplaceView
    <3>2. view.rows = rows /\ view' = Committed'
      BY <1>3, <3>1 DEF Committed
    <3>3. ~T!Present(k.hash) /\ p = IF T!InPlaceAllowed(k.block, k.use) THEN "update" ELSE "insert"
      BY <1>6, <2>1, <3>2 DEF V!Present, T!Present, V!InPlaceAllowed, T!InPlaceAllowed
    <3>4. ~T!Present(r.hash)' /\ T!CallerHolds(r.block, r.use)'
          /\ (T!InPlaceAllowed(r.block, r.use) <=> T!InPlaceAllowed(k.block, k.use))
      BY <1>3, <2>2, <3>1, <3>3, StoredStays
    <3> QED BY <1>2, <2>2, <3>1, <3>2, <3>3, <3>4
            DEF ViewOf, ReplaceView, Continues, T!InPlaceAllowed
  <2> QED BY <1>1, <1>3, <2>3, <2>4, GoesOnTyped, ViewGoesOn DEF CallsInv
<1> QED BY <1>5, <1>6

\* A SELECT or a COMMIT that fails.
LEMMA EndFailsCalls ==
    ASSUME CallsInv, NEW c \in Conns, SelectFails(c) \/ CommitFails(c)
    PROVE  TypeInv' /\ ViewInv'
<1>1. owner = c
  BY CallAtWork DEF SelectFails, CommitFails, Places
<1>2. /\ owner' = Null /\ view' = NoView /\ Answered(c) /\ MayFail(c)
      /\ UNCHANGED <<rows, fileBlocks, sizes, held>>
  BY DEF SelectFails, CommitFails, RolledBack, tables
<1>3. HeldTyped'
  BY <1>2, TypeParts, MayFailTyped DEF CallsInv, HeldTyped
<1>4. TablesTyped'
  BY <1>2, TypeParts DEF TablesTyped, CallsInv
<1> QED BY <1>1, <1>2, <1>3, <1>4, EndsTyped, ViewEnds DEF CallsInv

LEMMA CommitsCalls ==
    ASSUME CallsInv, NEW c \in Conns, Commits(c)
    PROVE  TypeInv' /\ ViewInv'
<1>1. owner = c
  BY CallAtWork DEF Commits, Places
<1>2. /\ owner' = Null /\ view' = NoView /\ Answered(c)
      /\ rows' = view.rows /\ fileBlocks' = view.fileBlocks /\ UNCHANGED <<sizes, held, failures>>
  BY DEF Commits
<1>3. HeldTyped'
  BY <1>2, TypeParts DEF CallsInv, HeldTyped
<1>4. TablesTyped'
  BY <1>2, TypeParts DEF TablesTyped, ViewTyped, CallsInv
<1> QED BY <1>1, <1>2, <1>3, <1>4, EndsTyped, ViewEnds DEF CallsInv

----------------------------------------------------------------------------
(* What is not a statement of a transaction.                               *)

\* Nothing of a transaction changes.
LEMMA AsideCalls ==
    ASSUME CallsInv, UNCHANGED <<rows, fileBlocks, owner, view, call>>, HeldTyped', TablesTyped'
    PROVE  TypeInv' /\ ViewInv'
<1>1. TypeInv'
  BY DEF CallsInv, TypeInv, TypeOK, HeldTyped, TablesTyped, T!TypeOK, V!TypeOK
<1>2. ViewInv'
  <2> SUFFICES ASSUME NEW c \in Conns, owner = c, NEW k, k = call[c], k = call'[c], ~k.misled
               PROVE  ViewOf(k)'
    BY ViewGoesOn DEF ViewInv, CallsInv
  <2>1. ViewOf(k) /\ Committed' = Committed /\ Pointed(k, Null)' = Pointed(k, Null)
    BY DEF CallsInv, ViewInv, Committed, Pointed
  <2>2. /\ T!CallerHolds(k.block, k.use) => T!CallerHolds(k.block, k.use)'
        /\ T!Present(k.hash)' <=> T!Present(k.hash)
        /\ T!IdOf(k.hash)' = T!IdOf(k.hash)
        /\ StoredRows(k)' = StoredRows(k)
        /\ Pointed(k, k.hash)' = Pointed(k, k.hash)
        /\ Stored(k) => Stored(k)'
    BY StoredStays DEF Continues
  <2>3. CASE k.kind = "replace"
    BY <2>1, <2>2, <2>3 DEF ViewOf, ReplaceView, T!InPlaceAllowed, V!SetUse
  <2>4. CASE k.kind # "replace"
    BY <2>1, <2>4 DEF ViewOf, ReleaseView, V!DecreaseUse
  <2> QED BY <2>3, <2>4
<1> QED BY <1>1, <1>2

LEMMA ReadsCalls ==
    ASSUME CallsInv, NEW c \in Conns, NEW s, NEW f \in Files, Reads(c, s, f)
    PROVE  TypeInv' /\ ViewInv'
<1>1. s \in Names /\ f \in Bound[s]
  BY DEF Reads, Names, Bound
<1>2. HeldTyped'
  BY <1>1, TypeParts, SteppedTyped, FailedTyped DEF Reads, CallsInv
<1>3. TablesTyped' /\ UNCHANGED <<rows, fileBlocks, owner, view, call>>
  BY TypeParts DEF Reads, CallsInv, TablesTyped, tables
<1> QED BY <1>2, <1>3, AsideCalls

LEMMA FTruncateCalls ==
    ASSUME CallsInv, NEW c \in Conns, NEW f \in Files, NEW n \in Sizes, FTruncate(c, f, n)
    PROVE  TypeInv' /\ ViewInv'
<1> DEFINE u == Used(c, "updateFileSize", <<f, n>>)
<1>1. "updateFileSize" \in Names /\ <<f, n>> \in Bound["updateFileSize"]
  BY DEF Names, Bound
<1>2. u[1] \in Files /\ u[2] \in Sizes
  <2>1. u \in Bound["updateFileSize"]
    BY <1>1, UsedTyped, TypeParts DEF CallsInv
  <2> QED BY <2>1 DEF Bound
<1>3. HeldTyped'
  BY <1>1, TypeParts, SteppedTyped, FailedTyped DEF FTruncate, CallsInv
<1>4. UNCHANGED <<rows, fileBlocks, owner, view, call>>
      /\ (sizes' = sizes \/ sizes' = [sizes EXCEPT ![u[1]] = u[2]])
  BY DEF FTruncate, tables
<1> HIDE DEF u
<1>5. TablesTyped'
  BY <1>2, <1>4, TypeParts DEF CallsInv, TablesTyped
<1> QED BY <1>3, <1>4, <1>5, AsideCalls

LEMMA ReconnectsCalls ==
    ASSUME CallsInv, NEW c \in Conns, Reconnects(c)
    PROVE  TypeInv' /\ ViewInv'
<1>1. /\ \A d \in Conns \ {c} : held'[d] = held[d]
      /\ \A s \in Names : held'[c][s] = Null
      /\ failures' = [failures EXCEPT ![c] = 0]
  BY DEF Reconnects, CallsInv, LockInv, Budget
<1>2. HeldTyped'
  BY <1>1, TypeParts, StatementsAssumption DEF CallsInv, HeldTyped
<1>3. TablesTyped' /\ UNCHANGED <<rows, fileBlocks, owner, view, call>>
  BY TypeParts DEF Reconnects, CallsInv, TablesTyped, tables
<1> QED BY <1>2, <1>3, AsideCalls

\* BEGIN EXCLUSIVE.
LEMMA BeginsCalls ==
    ASSUME CallsInv, NEW c \in Conns, NEW first, CallTyped(first), Begins(c, first),
           UNCHANGED <<rows, fileBlocks>> /\ view' = Committed' => ViewOf(first)'
    PROVE  TypeInv' /\ ViewInv'
<1>1. /\ owner = Null /\ owner' = c /\ view' = Committed /\ OthersWait(c) /\ call'[c] = first
      /\ UNCHANGED <<rows, fileBlocks, sizes, held, failures>>
  BY DEF Begins, Committed, tables, OthersWait, CallsInv, LockInv, CallInv
<1>2. \A d \in Conns \ {c} : call'[d] = Idle
  BY <1>1, StatementsAssumption DEF CallsInv, TypeInv, TypeOK, OthersWait
<1>3. ViewTyped' /\ HeldTyped' /\ TablesTyped'
  BY <1>1, TypeParts DEF CallsInv, ViewTyped, HeldTyped, TablesTyped, Committed, View
<1>4. V!TypeOK' /\ T!TypeOK' /\ owner' # Null
  BY <1>1, <1>3, StatementsAssumption
     DEF V!TypeOK, View, ViewTyped, T!Row, V!Row, TablesTyped, T!TypeOK
<1>5. TypeInv'
  BY <1>1, <1>2, <1>3, <1>4 DEF TypeInv, TypeOK, HeldTyped, TablesTyped, ViewTyped, CallTyped
<1>6. Committed' = Committed
  BY <1>1 DEF Committed
<1>7. ViewInv'
  BY <1>1, <1>6, ViewGoesOn DEF CallsInv
<1> QED BY <1>5, <1>7

LEMMA ReplaceCalls ==
    ASSUME CallsInv, NEW c \in Conns, NEW f \in Files, NEW x \in Hashes,
           NEW s \in (0..MaxRows) \cup {Null}, NEW n \in Counts, Replace(c, f, x, s, n)
    PROVE  TypeInv' /\ ViewInv'
<1>0. PICK k : k = [at |-> "select", kind |-> "replace", file |-> f, hash |-> x, block |-> s,
                    use |-> n, count |-> n, num |-> s, misled |-> FALSE]
  OBVIOUS
<1>1. Begins(c, k) /\ T!CallerHolds(s, n)
  BY <1>0 DEF Replace
<1>2. CallTyped(k)
  BY <1>0, StatementsAssumption DEF CallTyped, Call
<1>3. ASSUME UNCHANGED <<rows, fileBlocks>>, view' = Committed' PROVE ViewOf(k)'
  BY <1>0, <1>1, <1>3 DEF ViewOf, ReplaceView, T!CallerHolds
<1> QED BY <1>1, <1>2, <1>3, BeginsCalls

LEMMA ReleaseCalls ==
    ASSUME CallsInv, NEW c \in Conns, NEW f \in Files, NEW x \in Hashes \cup {EmptyBlob, Null},
           Release(c, f, x)
    PROVE  TypeInv' /\ ViewInv'
<1>0. PICK k : k = [at |-> IF x = Null THEN "load" ELSE "delete", kind |-> "release", file |-> f,
                    hash |-> x, block |-> Null, use |-> 0, count |-> 0, num |-> Null,
                    misled |-> FALSE]
  OBVIOUS
<1>1. Begins(c, k)
  BY <1>0 DEF Release
<1>2. CallTyped(k)
  BY <1>0 DEF CallTyped, Call
<1>3. ASSUME UNCHANGED <<rows, fileBlocks>>, view' = Committed' PROVE ViewOf(k)'
  BY <1>0, <1>3 DEF ViewOf, ReleaseView
<1> QED BY <1>1, <1>2, <1>3, BeginsCalls

\* Tables without a transaction.
LEMMA FreshTyped ==
    ASSUME TablesTyped, view = NoView, owner = Null,
           held = [c \in Conns |-> [s \in Names |-> Null]],
           call = [c \in Conns |-> Idle], failures = [c \in Conns |-> 0]
    PROVE  TypeInv /\ ViewInv
<1>1. T!TypeOK
  BY DEF TablesTyped, T!TypeOK
<1>2. V!TypeOK
  BY NoViewTyped DEF V!TypeOK, View, T!Row, V!Row
<1>3. TypeOK
  BY <1>1, <1>2, StatementsAssumption DEF TypeOK, TablesTyped
<1>4. TypeInv
  BY <1>3, NoViewTyped, StatementsAssumption DEF TypeInv, TablesTyped
<1>5. ViewInv
  BY StatementsAssumption DEF ViewInv
<1> QED BY <1>4, <1>5

LEMMA CrashCalls == CallsInv /\ Crash => TypeInv' /\ ViewInv'
<1> SUFFICES ASSUME CallsInv, Crash PROVE TypeInv' /\ ViewInv'
  OBVIOUS
<1>1. TablesTyped'
  BY TypeParts DEF CallsInv, TablesTyped, Crash, tables
<1>2. T!TypeOK'
  BY <1>1 DEF TablesTyped, T!TypeOK
<1>3. V!TypeOK'
  BY NoViewTyped DEF V!TypeOK, View, T!Row, V!Row, Crash
<1>4. TypeOK'
  BY <1>1, <1>2, <1>3, StatementsAssumption DEF TypeOK, TablesTyped, Crash
<1>5. TypeInv'
  BY <1>1, <1>4, NoViewTyped, StatementsAssumption DEF TypeInv, TablesTyped, Crash
<1> QED BY <1>5, ViewEnds DEF Crash

LEMMA CallsInit == Init => CallsInv
<1> SUFFICES ASSUME Init PROVE CallsInv
  OBVIOUS
<1>1. TablesTyped
  BY StatementsAssumption DEF Init, T!Init, TablesTyped
<1> QED BY <1>1, LockInit, FreshTyped DEF Init, CallsInv

LEMMA CallsNext == CallsInv /\ [Next]_vars => CallsInv'
<1> SUFFICES ASSUME CallsInv, [Next]_vars PROVE CallsInv'
  OBVIOUS
<1>1. LockInv'
  BY LockNext DEF CallsInv
<1>2. ASSUME NEW c \in Conns, Request(c) PROVE TypeInv' /\ ViewInv'
  BY <1>2, ReadsCalls, FTruncateCalls, ReplaceCalls, ReleaseCalls DEF Request
<1>3. ASSUME NEW c \in Conns, Step(c) PROVE TypeInv' /\ ViewInv'
  BY <1>3, SelectsCalls, EndFailsCalls, IncreasesCalls, UpdatesCalls, InsertsCalls, PointsCalls,
     SetsUseCalls, LoadsCalls, DeletesCalls, DecreasesCalls, CommitsCalls DEF Step
<1>4. CASE UNCHANGED vars
  <2>1. HeldTyped' /\ TablesTyped' /\ UNCHANGED <<rows, fileBlocks, owner, view, call>>
    BY <1>4, TypeParts DEF vars, CallsInv, HeldTyped, TablesTyped
  <2> QED BY <1>1, <2>1, AsideCalls DEF CallsInv
<1> QED BY <1>1, <1>2, <1>3, <1>4, ReconnectsCalls, CrashCalls DEF Next, CallsInv

\* The inductive invariant of the transactions: the owner of the write lock sees the
\* committed tables as the statements its call has run have changed them.
THEOREM SpecCallsInv == Spec => []CallsInv
  BY CallsInit, CallsNext, PTL DEF Spec

\* What every connection sees of the tables, what it holds in a call and what is bound
\* to its statements (DataBase, SqlPreparedStmt) stays of its kind.
THEOREM SpecStatementsTypeOK == Spec => []TypeOK
<1>1. CallsInv => TypeOK
  BY DEF CallsInv, TypeInv
<1> QED BY <1>1, SpecCallsInv, PTL

----------------------------------------------------------------------------
(* What a COMMIT does.                                                     *)

\* Only a COMMIT changes the tables.
LEMMA OnlyCommits ==
    ASSUME CallsInv, [Next]_vars, tables' # tables
    PROVE  \E c \in Conns : Commits(c)
<1>1. CASE UNCHANGED vars
  BY <1>1 DEF vars, tables
<1>2. ASSUME NEW c \in Conns, Request(c) PROVE FALSE
  BY <1>2 DEF Request, Reads, FTruncate, Replace, Release, Begins, tables
<1>3. ASSUME NEW c \in Conns, Step(c), ~Commits(c) PROVE FALSE
  BY <1>3 DEF Step, Selects, SelectFails, CommitFails, Increases, Updates, Inserts, Points,
     SetsUse, Loads, Deletes, Decreases, Runs, Fails, RolledBack, tables
<1>4. ASSUME NEW c \in Conns, Reconnects(c) PROVE FALSE
  BY <1>4 DEF Reconnects, tables
<1>5. CASE Crash
  BY <1>5 DEF Crash, tables
<1> QED BY <1>1, <1>2, <1>3, <1>4, <1>5 DEF Next

\* The tables a COMMIT leaves, and the call they are of.
LEMMA CommitLeaves ==
    ASSUME CallsInv, NEW c \in Conns, Commits(c), NEW k, k = call[c], ~k.misled
    PROVE  /\ owner = c /\ k # Idle /\ CallTyped(k) /\ k.at = "commit"
           /\ k.kind = "release" =>
                 /\ rows' = T!DecreaseUse(rows, k.hash) /\ fileBlocks' = Pointed(k, Null)
           /\ k.kind = "replace" =>
                 /\ T!CallerHolds(k.block, k.use) /\ Stored(k)
                 /\ rows' = T!SetUse(StoredRows(k), k.block, k.count)
                 /\ fileBlocks' = Pointed(k, k.hash)
<1>1. owner = c /\ CallTyped(k) /\ k.at = "commit" /\ ViewOf(k)
  BY CallAtWork DEF Commits, Places
<1>2. k # Idle
  BY <1>1 DEF Idle
<1> QED BY <1>1, <1>2 DEF Commits, ViewOf, ReplaceView, ReleaseView, T!DecreaseUse, V!DecreaseUse,
                          T!SetUse, V!SetUse

\* UPDATE ... WHERE hash = x, when one row has the hash.
LEMMA IncreaseOne ==
    ASSUME rows \in Seq(T!Row), T!UniqueHash, NEW x, T!Present(x)
    PROVE  IncreaseUse(rows, x) = [rows EXCEPT ![T!IdOf(x)].use = @ + 1]
<1>1. PICK i \in DOMAIN rows : i = T!IdOf(x) /\ rows[i].hash = x
  BY DEF T!Present, T!IdOf
<1>2. \A j \in DOMAIN rows : rows[j].hash = x <=> j = i
  BY <1>1 DEF T!UniqueHash
<1>3. rows \in [DOMAIN rows -> T!Row]
  OBVIOUS
<1>4. IncreaseUse(rows, x) = [j \in DOMAIN rows |-> IF j = i THEN [rows[j] EXCEPT !.use = @ + 1]
                                                    ELSE rows[j]]
  BY <1>2 DEF IncreaseUse
<1>5. [rows EXCEPT ![i].use = @ + 1]
        = [j \in DOMAIN rows |-> IF j = i THEN [rows[j] EXCEPT !.use = @ + 1] ELSE rows[j]]
  BY <1>3
<1> QED BY <1>1, <1>4, <1>5

\* The INSERT and the last UPDATE are of different rows.
LEMMA InsertThenSetUse ==
    ASSUME NEW rs \in Seq(T!Row), NEW q \in T!Row, NEW b, b # Len(rs) + 1, NEW n \in Int
    PROVE  T!SetUse(Append(rs, q), b, n) = Append(T!SetUse(rs, b, n), q)
<1>1. DOMAIN rs = 1..Len(rs) /\ Len(rs) \in Nat /\ DOMAIN Append(rs, q) = 1..(Len(rs) + 1)
  OBVIOUS
<1>2. CASE b \in DOMAIN rs
  <2>0. PICK w : w = [rs[b] EXCEPT !.use = n]  OBVIOUS
  <2>1. w \in T!Row
    <3>1. rs[b] \in T!Row
      BY <1>2
    <3> QED BY <2>0, <3>1, RowWith
  <2>2. T!SetUse(rs, b, n) = [rs EXCEPT ![b] = w]
    BY <1>2, <2>0 DEF T!SetUse
  <2>3. T!SetUse(Append(rs, q), b, n) = [Append(rs, q) EXCEPT ![b] = w]
    <3>1. b \in DOMAIN Append(rs, q) /\ Append(rs, q)[b] = rs[b]
      BY <1>1, <1>2
    <3> QED BY <2>0, <3>1 DEF T!SetUse
  <2>4. [Append(rs, q) EXCEPT ![b] = w] = Append([rs EXCEPT ![b] = w], q)
    <3> DEFINE N == 1..(Len(rs) + 1)
               rw == [rs EXCEPT ![b] = w]
               s == [Append(rs, q) EXCEPT ![b] = w]
               t == Append(rw, q)
    <3>1. rw \in Seq(T!Row) /\ Len(rw) = Len(rs)
      BY <1>2, <2>1, RowsChanged
    <3>2. \A i \in 1..Len(rs) : rw[i] = IF i = b THEN w ELSE rs[i]
      BY <1>1, <1>2
    <3>3. s \in [N -> T!Row] /\ \A i \in N : s[i] = IF i = b THEN w ELSE Append(rs, q)[i]
      <4>0. Append(rs, q) \in Seq(T!Row) /\ DOMAIN Append(rs, q) = N
        BY <1>1
      <4>a. PICK a : a = Append(rs, q)
        OBVIOUS
      <4>1. a = Append(rs, q) /\ a \in [N -> T!Row]
        <5>1. a \in Seq(T!Row) /\ DOMAIN a = N
          BY <4>0, <4>a
        <5>2. a \in [DOMAIN a -> T!Row]
          BY <5>1
        <5> QED BY <4>a, <5>1, <5>2
      <4>2. b \in N
        BY <1>1, <1>2
      <4>3. s = [a EXCEPT ![b] = w]
        BY <4>1
      <4> HIDE DEF s
      <4> QED BY <2>1, <4>1, <4>2, <4>3
    <3> HIDE DEF rw, s
    <3>4. t \in [N -> T!Row] /\ \A i \in N : t[i] = IF i = Len(rs) + 1 THEN q ELSE rw[i]
      <4>1. t \in Seq(T!Row) /\ Len(t) = Len(rs) + 1 /\ Len(rw) = Len(rs)
        BY <3>1
      <4>2. \A i \in 1..Len(rw) : t[i] = rw[i]
        BY <3>1
      <4>3. t[Len(rw) + 1] = q
        BY <3>1
      <4> HIDE DEF t
      <4>4. t \in [N -> T!Row]
        BY <4>1
      <4> QED BY <1>1, <4>1, <4>2, <4>3, <4>4
    <3>5. \A i \in N : Append(rs, q)[i] = IF i = Len(rs) + 1 THEN q ELSE rs[i]
      BY <1>1
    <3>6. \A i \in N : s[i] = t[i]
      BY <1>1, <1>2, <3>2, <3>3, <3>4, <3>5
    <3> HIDE DEF t
    <3>7. s = t
      BY <3>3, <3>4, <3>6
    <3> QED BY <3>7 DEF s, t, rw
  <2> QED BY <2>2, <2>3, <2>4
<1>3. CASE b \notin DOMAIN rs
  BY <1>1, <1>3 DEF T!SetUse
<1> QED BY <1>2, <1>3

\* The statements of replaceStorageBlock are one of its three outcomes.
LEMMA CommitsReplace ==
    ASSUME CallsInv, T!UniqueHash, NEW c \in Conns, Commits(c), NEW k, k = call[c], ~k.misled,
           k.kind = "replace"
    PROVE  T!Replace(k.file, k.hash, k.block, k.use)
<1>1. /\ CallTyped(k) /\ T!CallerHolds(k.block, k.use) /\ Stored(k)
      /\ rows' = T!SetUse(StoredRows(k), k.block, k.count)
      /\ fileBlocks' = [fileBlocks EXCEPT ![k.file] = k.hash]
  BY CommitLeaves DEF Pointed
<1>2. k.hash \in Hashes /\ k.use \in Int /\ rows \in Seq(T!Row)
  BY <1>1, CallFields, TypeParts DEF CallTyped, CallsInv, TablesTyped
<1>3. CASE T!Present(k.hash)
  <2>1. T!ReplacePresent(k.file, k.hash, k.block, k.use)
    BY <1>1, <1>2, <1>3, IncreaseOne DEF StoredRows, Stored, T!ReplacePresent
  <2> QED BY <2>1 DEF T!Replace
<1>4. CASE ~T!Present(k.hash) /\ T!InPlaceAllowed(k.block, k.use)
  <2>1. T!ReplaceInPlace(k.file, k.hash, k.block, k.use)
    BY <1>1, <1>4 DEF StoredRows, Stored, T!ReplaceInPlace, T!SetHash, V!SetHash
  <2> QED BY <2>1 DEF T!Replace
<1>5. CASE ~T!Present(k.hash) /\ ~T!InPlaceAllowed(k.block, k.use)
  <2>1. k.block # Len(rows) + 1
    BY <1>1, <1>2, StatementsAssumption DEF T!CallerHolds
  <2>2. [hash |-> k.hash, use |-> 1] \in T!Row
    BY <1>2 DEF T!Row
  <2>3. StoredRows(k) = Append(rows, [hash |-> k.hash, use |-> 1])
        /\ k.count = k.use - 1 /\ Len(rows) < MaxRows
    BY <1>1, <1>5 DEF StoredRows, Stored
  <2>4. k.use - 1 \in Int
    BY <1>2
  <2>5. rows' = Append(T!SetUse(rows, k.block, k.use - 1), [hash |-> k.hash, use |-> 1])
    <3>1. PICK n \in Int : n = k.use - 1
      BY <2>4
    <3>2. PICK q \in T!Row : q = [hash |-> k.hash, use |-> 1]
      BY <2>2
    <3>3. T!SetUse(Append(rows, q), k.block, n) = Append(T!SetUse(rows, k.block, n), q)
      BY <1>2, <2>1, InsertThenSetUse
    <3> QED BY <1>1, <2>3, <3>1, <3>2, <3>3
  <2>6. T!ReplaceInsert(k.file, k.hash, k.block, k.use)
    BY <1>1, <1>5, <2>3, <2>5 DEF T!ReplaceInsert
  <2> QED BY <2>6 DEF T!Replace
<1> QED BY <1>3, <1>4, <1>5

\* The transactions of replaceStorageBlock and releaseStorageBlock implement the atomic
\* steps that BlockTables takes them for, whatever other connections do between their
\* statements and wherever one fails; unless SqlPreparedStmt misdirected one.
THEOREM SpecCommitsWhatWasAsked == Spec => CommitsWhatWasAsked
<1> DEFINE Asked(c) ==
      /\ owner = c /\ call[c] # Idle
      /\ \/ call[c].misled \/ ~T!UniqueHash
         \/ /\ call[c].kind = "release"
            /\ T!Release(call[c].file, call[c].hash)
         \/ /\ call[c].kind = "replace"
            /\ T!Replace(call[c].file, call[c].hash, call[c].block, call[c].use)
<1>1. ASSUME CallsInv, [Next]_vars, tables' # tables PROVE \E c \in Conns : Asked(c)
  <2>1. PICK c \in Conns : Commits(c)
    BY <1>1, OnlyCommits
  <2>2. PICK k : k = call[c]  OBVIOUS
  <2>3. owner = c /\ k # Idle /\ CallTyped(k)
    <3>1. owner = c /\ CallTyped(k)
      BY <1>1, <2>1, <2>2, CallAtWork DEF Commits, Places
    <3> QED BY <3>1, CallFields DEF CallTyped
  <2>4. CASE k.misled \/ ~T!UniqueHash
    BY <2>2, <2>3, <2>4
  <2>5. CASE ~k.misled /\ T!UniqueHash /\ k.kind = "release"
    <3>1. T!Release(k.file, k.hash)
      BY <1>1, <2>1, <2>2, <2>5, CommitLeaves DEF Pointed, T!Release
    <3> QED BY <2>2, <2>3, <2>5, <3>1
  <2>6. CASE ~k.misled /\ T!UniqueHash /\ k.kind = "replace"
    <3>1. T!Replace(k.file, k.hash, k.block, k.use)
      BY <1>1, <2>1, <2>2, <2>6, CommitsReplace
    <3> QED BY <2>2, <2>3, <2>6, <3>1
  <2> QED BY <2>3, <2>4, <2>5, <2>6, CallFields DEF CallTyped
<1>2. CallsInv /\ [Next]_vars => [\E c \in Conns : Asked(c)]_tables
  BY <1>1
<1>3. [][\E c \in Conns : Asked(c)]_tables => CommitsWhatWasAsked
  BY PTL DEF CommitsWhatWasAsked
<1> QED BY <1>2, <1>3, SpecCallsInv, PTL DEF Spec

\* The block number replaceStorageBlock leaves its caller with, found, kept or taken from
\* lastInsertId, is that of the row that has the content just written.
THEOREM SpecNumberAgrees == Spec => NumberAgrees
<1> DEFINE Agrees(c) ==
      owner = c /\ call[c] # Idle /\ ~call[c].misled /\ call[c].kind = "replace"
         => \E i \in DOMAIN rows' : i = call[c].num /\ rows'[i].hash = call[c].hash
<1>1. ASSUME CallsInv, [Next]_vars, tables' # tables, NEW c \in Conns PROVE Agrees(c)
  <2>0. PICK k : k = call[c]  OBVIOUS
  <2> SUFFICES ASSUME owner = c, ~k.misled, k.kind = "replace"
               PROVE  k.num \in DOMAIN rows' /\ rows'[k.num].hash = k.hash
    BY <2>0
  <2>1. Commits(c)
    <3>1. PICK d \in Conns : Commits(d)
      BY <1>1, OnlyCommits
    <3> QED BY <1>1, <3>1, CallAtWork DEF Commits, Places
  <2>2. /\ CallTyped(k) /\ T!CallerHolds(k.block, k.use) /\ Stored(k)
        /\ rows' = V!SetUse(StoredRows(k), k.block, k.count)
    BY <1>1, <2>0, <2>1, CommitLeaves DEF T!SetUse, V!SetUse
  <2>3. k.hash \in Hashes /\ k.use \in Int /\ k.count \in Int /\ rows \in Seq(T!Row)
    BY <1>1, <2>2, CallFields, TypeParts DEF CallTyped, CallsInv, TablesTyped
  <2>4. /\ StoredRows(k) \in Seq(T!Row) /\ k.num \in DOMAIN StoredRows(k)
        /\ StoredRows(k)[k.num].hash = k.hash
    <3>1. CASE T!Present(k.hash)
      <4>1. k.num \in DOMAIN rows /\ rows[k.num].hash = k.hash
        BY <2>2, <3>1 DEF Stored, T!Present, T!IdOf
      <4> QED BY <2>3, <3>1, <4>1, IncreaseUseRows DEF StoredRows, SameHashes
    <3>2. CASE ~T!Present(k.hash) /\ T!InPlaceAllowed(k.block, k.use)
      <4>1. k.num = k.block /\ k.block \in DOMAIN rows
        BY <2>2, <2>3, <3>2 DEF Stored, T!CallerHolds, T!InPlaceAllowed
      <4> QED BY <2>3, <3>2, <4>1, SetHashRows DEF StoredRows
    <3>3. CASE ~T!Present(k.hash) /\ ~T!InPlaceAllowed(k.block, k.use)
      <4>1. k.num = Len(rows) + 1 /\ StoredRows(k) = Append(rows, [hash |-> k.hash, use |-> 1])
        BY <2>2, <3>3 DEF Stored, StoredRows
      <4> QED BY <2>3, <4>1 DEF T!Row
    <3> QED BY <3>1, <3>2, <3>3
  <2> QED BY <2>2, <2>3, <2>4, SetUseRows DEF SameHashes
<1>2. CallsInv /\ [Next]_vars => [\A c \in Conns : Agrees(c)]_tables
  BY <1>1
<1>3. [][\A c \in Conns : Agrees(c)]_tables => NumberAgrees
  BY PTL DEF NumberAgrees
<1> QED BY <1>2, <1>3, SpecCallsInv, PTL DEF Spec
=============================================================================
