----------------------------- MODULE NodeProofs -----------------------------
(***************************************************************************)
(* Proofs about what a node keeps for itself, in three parts that use only *)
(* the assumptions of their own component: the copy of the accounts and the*)
(* code cache (DataSync), the network parameters and the configuration made*)
(* of them (NetworkParameters), and when it may join (JoinReadiness).      *)
(***************************************************************************)
EXTENDS JoinReadiness, NetworkParameters, DataSync, FoldLemmas, SequenceTheorems, TLAPS

-----------------------------------------------------------------------------
(***************************************************************************)
(* DataSync: the cache of code stays within its bound, and a complete copy *)
(* has every account, for any accounts, sizes and number of crashes.       *)
(***************************************************************************)

\* The least of two numbers.
LEMMA MinOfTwo ==
  ASSUME NEW a \in Nat, NEW b \in Nat
  PROVE  Min({a, b}) = IF a <= b THEN a ELSE b
<1>1. \E x \in {a, b} : \A y \in {a, b} : x <= y
  OBVIOUS
<1> DEFINE m == Min({a, b})
<1>2. m \in {a, b} /\ \A y \in {a, b} : m <= y
  BY <1>1 DEF Min
<1> HIDE DEF m
<1>3. m = IF a <= b THEN a ELSE b
  BY <1>2
<1> QED
  BY <1>3 DEF m

-----------------------------------------------------------------------------
(* The cache of code *)

Stages == {"none", "read", "insert", "count", "delete"}

\* What the bound rests on: the table and the calls are finite.
CacheInv ==
  /\ at \in [Calls -> Stages]
  /\ lost \in Nat
  /\ IsFiniteSet(riAccountsCache)
  /\ CacheIsBounded

\* The calls that still have to remove rows are finite in number.
LEMMA RemovingIsFinite == IsFiniteSet(Removing) /\ Cardinality(Removing) \in Nat
<1>1. IsFiniteSet(Removing)
  BY CacheAssumption, FS_Subset DEF Removing
<1> QED
  BY <1>1, FS_CardinalityType

\* A call that goes on from one stage to another leaves the others where they are.
LEMMA GotoMoves ==
  ASSUME at \in [Calls -> Stages], NEW c \in Calls, NEW s \in Stages, at' = [at EXCEPT ![c] = s]
  PROVE  /\ at' \in [Calls -> Stages]
         /\ Removing' = IF s \in {"count", "delete"} THEN Removing \cup {c} ELSE Removing \ {c}
BY DEF Removing

\* No call is removing, and then none more or less is.
LEMMA SetCachedKeepsBound ==
  ASSUME CacheInv, NEW id, setCachedRIAccount(id)
  PROVE  CacheInv'
<1>1. CASE id \in CodeAccounts
  <2>1. PICK c \in Free : at' = [at EXCEPT ![c] = "read"] /\ UNCHANGED <<riAccountsCache, lost>>
    BY <1>1 DEF setCachedRIAccount
  <2>2. c \in Calls /\ c \notin Removing /\ at \in [Calls -> Stages]
    BY <2>1 DEF Free, Removing, CacheInv
  <2>3. at' \in [Calls -> Stages] /\ Removing' = Removing
    <3>1. at' \in [Calls -> Stages] /\ Removing' = Removing \ {c}
      BY <2>1, <2>2, GotoMoves DEF Stages
    <3> QED
      BY <3>1, <2>2
  <2> QED
    BY <2>1, <2>3 DEF CacheInv, CacheIsBounded
<1>2. CASE id \notin CodeAccounts
  BY <1>2 DEF setCachedRIAccount, cacheVars, CacheInv, CacheIsBounded, Removing
<1> QED
  BY <1>1, <1>2

\* Each query of a call keeps the bound: a row more is a call more that will remove, and a
\* call that is done has removed a row or has seen that the table is not too big.
LEMMA CacheStepKeepsBound ==
  ASSUME CacheInv, CacheStep
  PROVE  CacheInv'
<1> DEFINE n == Cardinality(riAccountsCache)
           k == Cardinality(Removing)
<1>0. /\ at \in [Calls -> Stages] /\ lost \in Nat /\ IsFiniteSet(riAccountsCache)
      /\ IsFiniteSet(Removing) /\ k \in Nat /\ n \in Nat
      /\ riAccountsCacheSize \in Nat /\ n <= riAccountsCacheSize + lost + k
  BY RemovingIsFinite, FS_CardinalityType, CacheAssumption DEF CacheInv, CacheIsBounded
<1>1. PICK c \in Calls : ReadCache(c) \/ InsertIntoCache(c) \/ CountCache(c) \/ DeleteOldest(c)
  BY DEF CacheStep
<1>2. lost' = lost
  BY <1>1 DEF ReadCache, InsertIntoCache, CountCache, DeleteOldest, Goto
<1>3. ASSUME c \in Removing
      PROVE  Cardinality(Removing \ {c}) = k - 1 /\ Removing \cup {c} = Removing
  <2>1. Removing \cup {c} = Removing
    BY <1>3
  <2>2. IsFiniteSet(Removing)
    BY <1>0
  <2> QED
    BY <1>3, <2>1, <2>2, FS_RemoveElement
<1>4. ASSUME c \notin Removing
      PROVE  Cardinality(Removing \cup {c}) = k + 1 /\ Removing \ {c} = Removing
  <2>1. Removing \ {c} = Removing
    BY <1>4
  <2>2. IsFiniteSet(Removing)
    BY <1>0
  <2> QED
    BY <1>4, <2>1, <2>2, FS_AddElement
<1>5. CASE ReadCache(c)
  <2>1. PICK s \in {"none", "insert"} : at' = [at EXCEPT ![c] = s]
    BY <1>5 DEF ReadCache, Goto
  <2>2. c \notin Removing
    BY <1>5 DEF ReadCache, Removing
  <2>3. at' \in [Calls -> Stages] /\ Removing' = Removing
    <3>1. at' \in [Calls -> Stages] /\ Removing' = Removing \ {c}
      BY <2>1, <1>0, GotoMoves DEF Stages
    <3> QED
      BY <3>1, <2>2
  <2>4. riAccountsCache' = riAccountsCache
    BY <1>5 DEF ReadCache
  <2> QED
    BY <2>3, <2>4, <1>2, <1>0 DEF CacheInv, CacheIsBounded
<1>6. CASE InsertIntoCache(c)
  <2>1. at' = [at EXCEPT ![c] = "count"] /\ riAccountsCache' = riAccountsCache \cup {account[c]}
    BY <1>6 DEF InsertIntoCache, Goto
  <2>2. c \notin Removing
    BY <1>6 DEF InsertIntoCache, Removing
  <2>3. at' \in [Calls -> Stages] /\ Removing' = Removing \cup {c}
    BY <2>1, <1>0, GotoMoves DEF Stages
  <2>4. /\ IsFiniteSet(riAccountsCache')
        /\ Cardinality(riAccountsCache') = n \/ Cardinality(riAccountsCache') = n + 1
    BY <2>1, <1>0, FS_AddElement
  <2>5. Cardinality(Removing') = k + 1
    BY <2>2, <2>3, <1>4
  <2> DEFINE m == Cardinality(riAccountsCache')
  <2>6. m <= riAccountsCacheSize + lost + (k + 1)
    <3> HIDE DEF m, n, k
    <3> QED
      BY <2>4, <1>0 DEF m
  <2> QED
    BY <2>3, <2>4, <2>5, <2>6, <1>2, <1>0 DEF CacheInv, CacheIsBounded
<1>7. CASE CountCache(c)
  <2>1. c \in Removing
    BY <1>7 DEF CountCache, Removing
  <2>2. riAccountsCache' = riAccountsCache
    BY <1>7 DEF CountCache
  <2>3. CASE n > riAccountsCacheSize
    <3>1. at' = [at EXCEPT ![c] = "delete"]
      BY <1>7, <2>3 DEF CountCache, Goto
    <3>2. at' \in [Calls -> Stages] /\ Removing' = Removing
      BY <3>1, <2>1, <1>0, <1>3, GotoMoves DEF Stages
    <3> QED
      BY <3>2, <2>2, <1>2, <1>0 DEF CacheInv, CacheIsBounded
  <2>4. CASE ~(n > riAccountsCacheSize)
    <3>1. at' = [at EXCEPT ![c] = "none"]
      BY <1>7, <2>4 DEF CountCache, Goto
    <3>2. at' \in [Calls -> Stages]
      BY <3>1, <1>0, GotoMoves DEF Stages
    <3>3. Cardinality(Removing)' \in Nat
      BY <3>2, <2>2, <1>2, RemovingIsFinite, CacheAssumption, FS_Subset, FS_CardinalityType DEF Removing
    <3> DEFINE q == Cardinality(Removing')
    <3>4. n <= riAccountsCacheSize + lost + q
      <4> HIDE DEF n, q
      <4> QED
        BY <2>4, <3>3, <1>0 DEF q
    <3> QED
      BY <3>2, <3>4, <2>2, <1>2, <1>0 DEF CacheInv, CacheIsBounded
  <2> QED
    BY <2>3, <2>4
<1>8. CASE DeleteOldest(c)
  <2>1. c \in Removing /\ at' = [at EXCEPT ![c] = "none"]
    BY <1>8 DEF DeleteOldest, Goto, Removing
  <2>2. PICK oldest \in SUBSET riAccountsCache :
          /\ Cardinality(oldest) = Min({riAccountsDeleteBatchSize, n})
          /\ riAccountsCache' = riAccountsCache \ oldest
    BY <1>8 DEF DeleteOldest
  <2>3. at' \in [Calls -> Stages] /\ Removing' = Removing \ {c}
    BY <2>1, <1>0, GotoMoves DEF Stages
  <2>4. Cardinality(Removing') = k - 1 /\ k - 1 \in Nat
    <3>1. Cardinality(Removing \ {c}) \in Nat
      BY <1>0, FS_RemoveElement, FS_CardinalityType
    <3> QED
      BY <3>1, <2>3, <2>1, <1>3
  <2>5. IsFiniteSet(oldest) /\ Cardinality(oldest) = IF riAccountsDeleteBatchSize <= n
                                                     THEN riAccountsDeleteBatchSize ELSE n
    <3>1. IsFiniteSet(oldest)
      BY <1>0, FS_Subset
    <3>2. Min({riAccountsDeleteBatchSize, n}) = IF riAccountsDeleteBatchSize <= n
                                                THEN riAccountsDeleteBatchSize ELSE n
      BY <1>0, CacheAssumption, MinOfTwo
    <3> QED
      BY <3>1, <3>2, <2>2
  <2>6. IsFiniteSet(riAccountsCache') /\ Cardinality(riAccountsCache') = n - Cardinality(oldest)
    <3>1. IsFiniteSet(riAccountsCache \ oldest)
      BY <1>0, FS_Subset
    <3>2. riAccountsCache \cap oldest = oldest
      OBVIOUS
    <3>3. Cardinality(riAccountsCache \ oldest) = n - Cardinality(riAccountsCache \cap oldest)
      BY <1>0, FS_Difference
    <3> QED
      BY <3>1, <3>2, <3>3, <2>2
  <2> DEFINE m == Cardinality(riAccountsCache')
             o == Cardinality(oldest)
  <2>7. m <= riAccountsCacheSize + lost + (k - 1)
    <3>1. m = n - o /\ (o = riAccountsDeleteBatchSize \/ o = n)
      BY <2>5, <2>6
    <3> HIDE DEF m, n, k, o
    <3> QED
      BY <3>1, <2>4, <1>0, CacheAssumption
  <2> QED
    BY <2>3, <2>4, <2>6, <2>7, <1>2, <1>0 DEF CacheInv, CacheIsBounded
<1> QED
  BY <1>1, <1>5, <1>6, <1>7, <1>8

\* The calls that a crash stops are counted as lost.
LEMMA CacheCrashKeepsBound ==
  ASSUME CacheInv, CacheCrash
  PROVE  CacheInv'
<1> DEFINE k == Cardinality(Removing)
<1>1. k \in Nat /\ lost \in Nat
  BY RemovingIsFinite DEF CacheInv
<1>2. at' = [c \in Calls |-> "none"] /\ lost' = lost + k /\ riAccountsCache' = riAccountsCache
  BY DEF CacheCrash
<1>3. Removing' = {}
  BY <1>2 DEF Removing
<1>4. Cardinality(Removing') = 0
  BY <1>3, FS_EmptySet
<1>5. Cardinality(riAccountsCache) <= riAccountsCacheSize + lost + k
  BY DEF CacheInv, CacheIsBounded
<1>6. riAccountsCacheSize + lost + k = riAccountsCacheSize + (lost + k) + 0
  <2> HIDE DEF k
  <2> QED
    BY <1>1, CacheAssumption
<1>7. CacheIsBounded'
  BY <1>2, <1>4, <1>5, <1>6 DEF CacheIsBounded
<1> QED
  BY <1>1, <1>2, <1>7 DEF CacheInv, Stages

-----------------------------------------------------------------------------
(* The copy *)

Cursor == [id |-> accountOffset, timestamp |-> tsStart]

\* A table gives some of Ids a timestamp.
IsTable(table) == DOMAIN table \subseteq Ids /\ table \in [DOMAIN table -> Nat]

\* The values of the copy's state that its steps rely on.
SyncTypes ==
  /\ IsTable(source) /\ IsTable(local) /\ IsTable(atStart)
  /\ page \subseteq [id : Ids, timestamp : Nat]
  /\ tsStart \in Nat /\ tsEnd \in Nat /\ accountOffset \in Nat
  /\ accountOffset = 0 => tsStart = 0
  /\ sync \in {"off", "asking", "storing", "done", "failed"}
  /\ page # {} => sync = "storing"

\* Accounts are not removed at the node that is asked, and what is underway is not older
\* than it was at the start.
NothingOlder ==
  sync \in {"asking", "storing", "done"} =>
    \A id \in DOMAIN atStart :
      /\ id \in DOMAIN source /\ source[id] >= atStart[id]
      /\ \A r \in page : r.id = id => r.timestamp >= atStart[id]

\* The account is behind the cursor still, and another page will be asked for.
Awaited(id) ==
  /\ sync = "asking" \/ (sync = "storing" /\ more)
  /\ ~Before([id |-> id, timestamp |-> source[id]], Cursor)

Arrived(id) == id \in DOMAIN local /\ local[id] >= atStart[id]

\* Accounts that the copy owes.
Owed == {id \in DOMAIN atStart :
           accountStart <= id /\ id <= accountEnd /\ atStart[id] < tsEnd}

\* An account is copied, or in the page, or still to come in the order of the pages,
\* unless it was written so late that its time is past the end of the range.
NoneIsSkipped ==
  sync \in {"asking", "storing", "done"} =>
    \A id \in Owed :
        \/ source[id] >= tsEnd
        \/ Arrived(id)
        \/ \E r \in page : r.id = id
        \/ Awaited(id)

SyncInv == SyncTypes /\ NothingOlder /\ NoneIsSkipped

\* What the copy has done does not depend on the cache.
LEMMA SyncUnchanged ==
  ASSUME SyncInv, UNCHANGED <<source, syncVars>>
  PROVE  SyncInv'
BY DEF SyncInv, SyncTypes, NothingOlder, NoneIsSkipped, IsTable, Awaited, Arrived, Owed, Cursor,
       Before, syncVars, asked

\* A table with a row more is a table.
LEMMA CreatedTable ==
  ASSUME NEW table, IsTable(table), NEW id \in Ids, NEW timestamp \in Nat
  PROVE  /\ IsTable(createOrReplace(table, id, timestamp))
         /\ DOMAIN createOrReplace(table, id, timestamp) = DOMAIN table \cup {id}
         /\ \A i \in DOMAIN table \cup {id} : createOrReplace(table, id, timestamp)[i] =
              IF i = id THEN timestamp ELSE table[i]
BY DEF IsTable, createOrReplace

\* A write makes the account newer: it comes later in the order of the pages, so one that
\* is awaited is awaited still.
LEMMA CommitKeepsSync ==
  ASSUME SyncInv, NEW id \in Written, NEW timestamp \in Times, Commit(id, timestamp)
  PROVE  SyncInv'
<1>1. id \in Ids /\ timestamp \in Nat /\ Ids \subseteq Nat
  BY SyncAssumption DEF Times
<1>2. /\ source' = createOrReplace(source, id, timestamp)
      /\ id \in DOMAIN source => timestamp > source[id]
      /\ UNCHANGED syncVars
  BY DEF Commit
<1>3. /\ IsTable(source) /\ IsTable(source')
      /\ DOMAIN source' = DOMAIN source \cup {id}
      /\ \A i \in DOMAIN source \cup {id} : source'[i] = IF i = id THEN timestamp ELSE source[i]
  BY <1>1, <1>2, CreatedTable DEF SyncInv, SyncTypes
<1>4. \A i \in DOMAIN source : source[i] \in Nat /\ source'[i] \in Nat /\ source'[i] >= source[i]
  BY <1>1, <1>2, <1>3 DEF IsTable
<1>5. SyncTypes'
  BY <1>2, <1>3 DEF SyncInv, SyncTypes, syncVars, asked
<1>6. NothingOlder'
  <2>1. \A i \in DOMAIN atStart : atStart[i] \in Nat
    BY DEF SyncInv, SyncTypes, IsTable
  <2> QED
    BY <1>2, <1>3, <1>4, <2>1 DEF SyncInv, NothingOlder, syncVars, asked
<1>7. NoneIsSkipped'
  <2> SUFFICES ASSUME sync \in {"asking", "storing", "done"}, NEW i \in Owed
               PROVE  \/ source'[i] >= tsEnd
                      \/ Arrived(i)
                      \/ \E r \in page : r.id = i
                      \/ Awaited(i)'
    BY <1>2 DEF NoneIsSkipped, Owed, Arrived, syncVars, asked
  <2>1. i \in DOMAIN source /\ tsEnd \in Nat /\ tsStart \in Nat
    BY DEF SyncInv, SyncTypes, NothingOlder, Owed
  <2>2. source[i] >= tsEnd => source'[i] >= tsEnd
    BY <2>1, <1>4
  <2>3. Awaited(i) => Awaited(i)'
    BY <2>1, <1>2, <1>4 DEF Awaited, Before, Cursor, syncVars, asked
  <2> QED
    BY <2>2, <2>3 DEF SyncInv, NoneIsSkipped
<1> QED
  BY <1>5, <1>6, <1>7 DEF SyncInv

\* A copy that begins owes what the table has, and every row is behind the cursor.
LEMMA BeginKeepsSync ==
  ASSUME SyncInv, Begin
  PROVE  SyncInv'
<1>1. /\ local' = <<>> /\ sync' = "asking" /\ tsStart' = 0 /\ accountOffset' = 0
      /\ tsEnd' = MaxTime /\ atStart' = source /\ source' = source /\ page' = page /\ sync = "off"
  BY DEF Begin
<1>2. IsTable(source) /\ page = {} /\ Ids \subseteq Nat
  BY <1>1, SyncAssumption DEF SyncInv, SyncTypes
<1>3. IsTable(local')
  BY <1>1 DEF IsTable
<1>4. SyncTypes'
  BY <1>1, <1>2, <1>3, SyncAssumption DEF SyncInv, SyncTypes
<1>5. \A id \in DOMAIN source : source[id] \in Nat /\ id \in Nat
  BY <1>2 DEF IsTable
<1>6. NothingOlder'
  BY <1>1, <1>2, <1>5 DEF NothingOlder
<1>7. \A id \in DOMAIN source : Awaited(id)'
  BY <1>1, <1>5 DEF Awaited, Before, Cursor
<1>8. NoneIsSkipped'
  BY <1>1, <1>7 DEF NoneIsSkipped, Owed
<1> QED
  BY <1>4, <1>6, <1>8 DEF SyncInv

\* The rows of a table are as many as its ids.
LEMMA RowsAreFinite ==
  ASSUME NEW table, IsTable(table)
  PROVE  IsFiniteSet(Rows(table)) /\ Rows(table) \subseteq [id : Ids, timestamp : Nat]
<1> DEFINE f == [i \in DOMAIN table |-> [id |-> i, timestamp |-> table[i]]]
<1>1. f \in Surjection(DOMAIN table, Rows(table))
  BY DEF Rows, Surjection
<1>2. IsFiniteSet(DOMAIN table)
  BY SyncAssumption, FS_Subset DEF IsTable
<1>3. IsFiniteSet(Rows(table))
  <2> HIDE DEF f
  <2> QED
    BY <1>1, <1>2, FS_Surjection
<1> QED
  BY <1>3 DEF Rows, IsTable

\* A page that leaves rows out is full.
LEMMA ShortPageHasAll ==
  ASSUME NEW rows, IsFiniteSet(rows), NEW first, Limited(first, rows), first # rows
  PROVE  Cardinality(first) = limit /\ first # {}
<1>1. IsFiniteSet(first) /\ Cardinality(first) <= Cardinality(rows) /\ Cardinality(first) # Cardinality(rows)
  BY FS_Subset DEF Limited
<1>2. Cardinality(first) \in Nat /\ Cardinality(rows) \in Nat /\ limit \in Nat
  BY <1>1, FS_CardinalityType, SyncAssumption
<1>3. Cardinality(first) = limit
  BY <1>1, <1>2, MinOfTwo DEF Limited
<1>4. Cardinality({}) = 0
  BY FS_EmptySet
<1> QED
  BY <1>3, <1>4, SyncAssumption

\* An account that is awaited is in the page, or behind its last row: only a full page
\* leaves anything out, and it leaves out what comes after its rows.
LEMMA AskKeepsSync ==
  ASSUME SyncInv, Ask
  PROVE  SyncInv'
<1>1. /\ sync = "asking" /\ page = {}
      /\ UNCHANGED <<source, local, tsEnd, atStart>>
  BY DEF Ask, SyncInv, SyncTypes
<1>2. CASE sync' = "failed" /\ UNCHANGED <<tsStart, accountOffset, page, more>>
  BY <1>1, <1>2 DEF SyncInv, SyncTypes, NothingOlder, NoneIsSkipped, IsTable
<1>3. CASE sync' # "failed"
  <2> DEFINE found == getAccountDataByRange
  <2>1. /\ sync' = "storing" /\ Limited(page', found) /\ more' = (Cardinality(page') = limit)
        /\ \/ page' = {} /\ UNCHANGED <<tsStart, accountOffset>>
           \/ \E last \in page' :
                /\ \A r \in page' : ~Before(last, r)
                /\ tsStart' = last.timestamp /\ accountOffset' = last.id
    BY <1>3 DEF Ask
  <2>2. IsTable(source) /\ tsStart \in Nat /\ tsEnd \in Nat /\ accountOffset \in Nat
        /\ IsTable(atStart)
    BY DEF SyncInv, SyncTypes
  <2>3. found \subseteq Rows(source)
    BY DEF getAccountDataByRange, queryAccountsEntryByRanges2, queryAccountsEntryByRanges3
  <2>4. /\ Rows(source) \subseteq [id : Ids, timestamp : Nat]
        /\ IsFiniteSet(found)
    BY <2>2, <2>3, RowsAreFinite, FS_Subset
  <2>5. page' \subseteq found
    BY <2>1 DEF Limited
  <2>6. SyncTypes'
    <3>1. page' \subseteq [id : Ids, timestamp : Nat]
      BY <2>3, <2>4, <2>5
    <3>2. tsStart' \in Nat /\ accountOffset' \in Nat /\ (accountOffset' = 0 => tsStart' = 0)
      <4>1. CASE page' = {} /\ UNCHANGED <<tsStart, accountOffset>>
        BY <4>1 DEF SyncInv, SyncTypes
      <4>2. CASE ~(page' = {} /\ UNCHANGED <<tsStart, accountOffset>>)
        <5>1. PICK last \in page' : tsStart' = last.timestamp /\ accountOffset' = last.id
          BY <2>1, <4>2
        <5> QED
          BY <5>1, <3>1, SyncAssumption
      <4> QED
        BY <4>1, <4>2
    <3> QED
      BY <1>1, <2>1, <3>1, <3>2 DEF SyncInv, SyncTypes
  <2>7. NothingOlder'
    <3>1. \A r \in page' : r.id \in DOMAIN source /\ r.timestamp = source[r.id]
      BY <2>3, <2>5 DEF Rows
    <3> QED
      BY <3>1, <1>1, <2>1 DEF SyncInv, NothingOlder
  <2>8. NoneIsSkipped'
    <3> SUFFICES ASSUME NEW i \in Owed, ~(source[i] >= tsEnd), ~Arrived(i),
                        ~\E r \in page' : r.id = i
                 PROVE  Awaited(i)'
      BY <1>1, <2>1 DEF NoneIsSkipped, Owed, Arrived
    <3> DEFINE row == [id |-> i, timestamp |-> source[i]]
    <3>1. Awaited(i)
      BY <1>1 DEF SyncInv, NoneIsSkipped
    <3>2. i \in DOMAIN source /\ source[i] \in Nat /\ i \in Nat /\ source[i] < tsEnd
      <4>1. i \in DOMAIN source
        BY <1>1 DEF SyncInv, NothingOlder, Owed
      <4>2. source[i] \in Nat /\ i \in Nat
        BY <4>1, <2>2, SyncAssumption DEF IsTable
      <4> QED
        BY <4>1, <4>2, <2>2
    <3>3. row \in found
      <4>1. row \in Rows(source) /\ InRange(row)
        BY <3>2 DEF Rows, InRange, Owed
      <4>2. CASE accountOffset = 0
        <5>1. tsStart = 0
          BY <4>2 DEF SyncInv, SyncTypes
        <5> QED
          BY <5>1, <4>1, <4>2, <3>2, <2>2 DEF getAccountDataByRange, queryAccountsEntryByRanges2
      <4>3. CASE accountOffset # 0
        BY <4>1, <4>3, <3>1, <3>2 DEF getAccountDataByRange, queryAccountsEntryByRanges3, Awaited, Cursor
      <4> QED
        BY <4>2, <4>3
    <3>4. row \notin page'
      OBVIOUS
    <3>5. page' # {} /\ Cardinality(page') = limit
      BY <2>1, <2>4, <3>3, <3>4, ShortPageHasAll
    <3>6. PICK last \in page' : tsStart' = last.timestamp /\ accountOffset' = last.id
      BY <2>1, <3>5
    <3>7. last \in [id : Ids, timestamp : Nat] /\ Before(last, row)
      BY <2>1, <2>3, <2>4, <2>5, <3>3, <3>4 DEF Limited
    <3>8. ~Before(row, [id |-> last.id, timestamp |-> last.timestamp])
      BY <3>2, <3>7, SyncAssumption DEF Before
    <3> QED
      BY <1>1, <2>1, <3>5, <3>6, <3>8 DEF Awaited, Cursor
  <2> QED
    BY <2>6, <2>7, <2>8 DEF SyncInv
<1> QED
  BY <1>2, <1>3 DEF Ask

\* A row that is stored is not older than the account was, also when it replaces another.
LEMMA StoreKeepsSync ==
  ASSUME SyncInv, StoreOne
  PROVE  SyncInv'
<1>1. PICK next \in page :
        /\ local' = createOrReplace(local, next.id, next.timestamp)
        /\ page' = page \ {next}
  BY DEF StoreOne
<1>2. sync = "storing" /\ UNCHANGED <<source, sync, asked, more, atStart>>
  BY DEF StoreOne
<1>3. next.id \in Ids /\ next.timestamp \in Nat /\ IsTable(local)
  BY DEF SyncInv, SyncTypes
<1>4. /\ IsTable(local')
      /\ DOMAIN local' = DOMAIN local \cup {next.id}
      /\ \A i \in DOMAIN local \cup {next.id} :
           local'[i] = IF i = next.id THEN next.timestamp ELSE local[i]
  <2> DEFINE x == next.id
             t == next.timestamp
             new == createOrReplace(local, x, t)
  <2>1. local' = new
    BY <1>1
  <2>2. x \in Ids /\ t \in Nat
    BY <1>3
  <2> HIDE DEF x, t
  <2>3. /\ IsTable(new)
        /\ DOMAIN new = DOMAIN local \cup {x}
        /\ \A i \in DOMAIN local \cup {x} : new[i] = IF i = x THEN t ELSE local[i]
    BY <2>2, <1>3, CreatedTable
  <2> QED
    BY <2>1, <2>3 DEF x, t
<1>5. SyncTypes'
  BY <1>1, <1>2, <1>4 DEF SyncInv, SyncTypes, asked
<1>6. NothingOlder'
  BY <1>1, <1>2 DEF SyncInv, NothingOlder
<1>7. NoneIsSkipped'
  <2> SUFFICES ASSUME NEW i \in Owed, ~(source[i] >= tsEnd), ~Awaited(i)
               PROVE  Arrived(i)' \/ \E r \in page' : r.id = i
    BY <1>2 DEF NoneIsSkipped, Owed, Awaited, Cursor, asked
  <2>1. CASE next.id = i
    BY <2>1, <1>1, <1>2, <1>4 DEF SyncInv, NothingOlder, Arrived, Owed
  <2>2. CASE next.id # i
    <3>1. Arrived(i) => Arrived(i)'
      BY <2>2, <1>2, <1>4 DEF Arrived
    <3>2. (\E r \in page : r.id = i) => \E r \in page' : r.id = i
      BY <2>2, <1>1
    <3> QED
      BY <3>1, <3>2, <1>2 DEF SyncInv, NoneIsSkipped
  <2> QED
    BY <2>1, <2>2
<1> QED
  BY <1>5, <1>6, <1>7 DEF SyncInv

\* The last page was short, and nothing is awaited.
LEMMA PageDoneKeepsSync ==
  ASSUME SyncInv, PageDone
  PROVE  SyncInv'
<1>1. /\ sync = "storing" /\ page = {} /\ sync' = IF more THEN "asking" ELSE "done"
      /\ UNCHANGED <<source, local, asked, page, more, atStart>>
  BY DEF PageDone
<1>2. SyncTypes' /\ NothingOlder'
  BY <1>1 DEF SyncInv, SyncTypes, NothingOlder, IsTable, asked
<1>3. \A i : Awaited(i) => Awaited(i)'
  BY <1>1 DEF Awaited, Before, Cursor, asked
<1>4. NoneIsSkipped'
  BY <1>1, <1>3 DEF SyncInv, NoneIsSkipped, Owed, Arrived, asked
<1> QED
  BY <1>2, <1>4 DEF SyncInv

\* The tables stay, and the copy begins again.
LEMMA CrashKeepsSync ==
  ASSUME SyncInv, Crash
  PROVE  SyncInv'
<1>1. /\ sync' = "off" /\ page' = {} /\ tsStart' = 0 /\ accountOffset' = 0 /\ tsEnd' = 0
      /\ atStart' = <<>> /\ UNCHANGED <<source, local>>
  BY DEF Crash
<1>2. IsTable(atStart')
  BY <1>1 DEF IsTable
<1>3. IsTable(source') /\ IsTable(local')
  BY <1>1 DEF SyncInv, SyncTypes
<1> QED
  BY <1>1, <1>2, <1>3 DEF SyncInv, SyncTypes, NothingOlder, NoneIsSkipped

-----------------------------------------------------------------------------
(* The theorems *)

LEMMA InvariantsAtStart ==
  ASSUME DataInit
  PROVE  CacheInv /\ SyncInv
<1>1. CacheInv
  <2>1. Cardinality({}) = 0 /\ IsFiniteSet({})
    BY FS_EmptySet
  <2>2. at = [c \in Calls |-> "none"] /\ lost = 0 /\ riAccountsCache = {}
    BY DEF DataInit, CacheInit
  <2>3. Removing = {}
    BY <2>2 DEF Removing
  <2> QED
    BY <2>1, <2>2, <2>3, CacheAssumption DEF CacheInv, CacheIsBounded, Stages
<1>2. SyncInv
  <2>1. IsTable(source) /\ IsTable(atStart)
    BY SyncAssumption DEF DataInit, IsTable
  <2>2. IsTable(local)
    <3>1. CASE local = <<>>
      BY <3>1 DEF IsTable
    <3>2. CASE local = [i \in {accountStart} |-> 1]
      BY <3>2, SyncAssumption DEF IsTable
    <3> QED
      BY <3>1, <3>2 DEF DataInit
  <2> QED
    BY <2>1, <2>2 DEF DataInit, SyncInv, SyncTypes, NothingOlder, NoneIsSkipped
<1> QED
  BY <1>1, <1>2

LEMMA InvariantsAreKept ==
  ASSUME CacheInv /\ SyncInv, [DataNext]_dataVars
  PROVE  CacheInv' /\ SyncInv'
<1>1. CASE Begin
  BY <1>1, BeginKeepsSync DEF Begin, cacheVars, CacheInv, CacheIsBounded, Removing
<1>2. CASE Ask
  BY <1>2, AskKeepsSync DEF Ask, cacheVars, CacheInv, CacheIsBounded, Removing
<1>3. CASE StoreOne
  BY <1>3, StoreKeepsSync, SetCachedKeepsBound DEF StoreOne
<1>4. CASE PageDone
  BY <1>4, PageDoneKeepsSync DEF PageDone, cacheVars, CacheInv, CacheIsBounded, Removing
<1>5. CASE CacheGoesOn
  BY <1>5, CacheStepKeepsBound, SyncUnchanged DEF CacheGoesOn
<1>6. CASE Crash
  BY <1>6, CacheCrashKeepsBound, CrashKeepsSync DEF Crash
<1>7. CASE \E id \in CodeAccounts : CacheRead(id)
  BY <1>7, SetCachedKeepsBound, SyncUnchanged DEF CacheRead
<1>8. CASE \E id \in Written, timestamp \in Times : Commit(id, timestamp)
  BY <1>8, CommitKeepsSync DEF Commit, cacheVars, CacheInv, CacheIsBounded, Removing
<1>9. CASE UNCHANGED dataVars
  BY <1>9, SyncUnchanged DEF dataVars, cacheVars, CacheInv, CacheIsBounded, Removing
<1> QED
  BY <1>1, <1>2, <1>3, <1>4, <1>5, <1>6, <1>7, <1>8, <1>9 DEF DataNext, Sync

\* The table of code never holds more than its size and what calls have put there that have
\* not removed anything yet or never will, however many calls run at once.
THEOREM CacheStaysBounded == DataSpec => []CacheIsBounded
<1>1. CacheInv /\ SyncInv => CacheIsBounded
  BY DEF CacheInv
<1> QED
  BY InvariantsAtStart, InvariantsAreKept, <1>1, PTL DEF DataSpec

\* A copy that is complete has every account, as new as it was when the copy began or
\* newer, whatever is written meanwhile and however many accounts have one timestamp.
THEOREM CopyIsComplete == DataSpec => []EveryAccountArrives
<1>1. CacheInv /\ SyncInv => EveryAccountArrives
  <2> SUFFICES ASSUME SyncInv, sync = "done"
               PROVE  EveryAccountArrives
    BY DEF EveryAccountArrives
  <2>1. page = {}
    BY DEF SyncInv, SyncTypes
  <2> QED
    BY <2>1 DEF SyncInv, NoneIsSkipped, EveryAccountArrives, Owed, Awaited, Arrived
<1> QED
  BY InvariantsAtStart, InvariantsAreKept, <1>1, PTL DEF DataSpec

\* The bounds of the next page are the right way round.
RangeInv == tsStart <= tsEnd

\* What a page leaves behind: the copy does not go back, and goes on if the page was full.
Advances ==
  /\ Cursor' = Cursor \/ Before(Cursor, Cursor')
  /\ more' => Before(Cursor, Cursor')

\* A full page has two rows at least, so its last one is not the one it began with.
LEMMA AskAdvances ==
  ASSUME SyncInv, RangeInv, Ask, sync' = "storing"
  PROVE  Advances /\ RangeInv'
<1> DEFINE found == getAccountDataByRange
<1>1. /\ sync = "asking" /\ page = {} /\ tsEnd' = tsEnd
      /\ Limited(page', found) /\ more' = (Cardinality(page') = limit)
      /\ \/ page' = {} /\ UNCHANGED <<tsStart, accountOffset>>
         \/ \E last \in page' :
              /\ \A r \in page' : ~Before(last, r)
              /\ tsStart' = last.timestamp /\ accountOffset' = last.id
  BY DEF Ask, SyncInv, SyncTypes
<1>2. /\ IsTable(source) /\ tsStart \in Nat /\ tsEnd \in Nat /\ accountOffset \in Nat
      /\ accountOffset = 0 => tsStart = 0
  BY DEF SyncInv, SyncTypes
<1>3. limit \in Nat /\ limit > 1 /\ (more' => Cardinality(page') = limit)
  BY <1>1, SyncAssumption
<1>4. found \subseteq Rows(source)
  BY DEF getAccountDataByRange, queryAccountsEntryByRanges2, queryAccountsEntryByRanges3
<1>5. page' \subseteq found /\ page' \subseteq [id : Nat \ {0}, timestamp : Nat]
  BY <1>1, <1>2, <1>4, RowsAreFinite, SyncAssumption DEF Limited
<1>6. \A r \in found : r.timestamp <= tsEnd
  <2>1. Rows(source) \subseteq [id : Ids, timestamp : Nat]
    BY <1>2, RowsAreFinite
  <2> QED
    BY <2>1, <1>2
    DEF getAccountDataByRange, queryAccountsEntryByRanges2, queryAccountsEntryByRanges3
<1>7. CASE page' = {} /\ UNCHANGED <<tsStart, accountOffset>>
  <2>1. Cardinality(page') = 0
    BY <1>7, FS_EmptySet
  <2>2. ~more'
    BY <1>3, <2>1
  <2> QED
    BY <1>1, <1>7, <2>2 DEF Advances, RangeInv, Cursor
<1>8. ASSUME NEW last \in page', \A r \in page' : ~Before(last, r),
             tsStart' = last.timestamp, accountOffset' = last.id
      PROVE  Advances /\ RangeInv'
  <2>1. /\ last.id \in Nat /\ last.id > 0 /\ last.timestamp \in Nat
        /\ last = [id |-> last.id, timestamp |-> last.timestamp]
    BY <1>5
  <2>2. Cursor' = last
    BY <1>8, <2>1 DEF Cursor
  <2>3. Cursor.id = accountOffset /\ Cursor.timestamp = tsStart
    BY DEF Cursor
  <2>4. RangeInv'
    <3>1. last.timestamp <= tsEnd
      BY <1>5, <1>6, <1>8
    <3> QED
      BY <1>1, <1>8, <3>1 DEF RangeInv
  <2>5. CASE accountOffset = 0
    <3>1. Before(Cursor, last)
      BY <1>2, <2>1, <2>3, <2>5 DEF Before
    <3> QED
      BY <2>2, <2>4, <3>1 DEF Advances
  <2>6. CASE accountOffset # 0
    <3>1. \A r \in page' : ~Before(r, Cursor)
      BY <1>5, <2>6 DEF getAccountDataByRange, queryAccountsEntryByRanges3, Cursor
    <3>2. last = Cursor \/ Before(Cursor, last)
      BY <1>2, <2>1, <2>3, <3>1 DEF Before, Cursor
    <3>3. ASSUME more' PROVE Before(Cursor, last)
      <4>1. PICK r \in page' : r # last
        <5>1. Cardinality({last}) = 1
          BY FS_Singleton
        <5>2. page' # {last}
          BY <1>3, <3>3, <5>1
        <5> QED
          BY <5>2
      <4>2. /\ r.id \in Nat /\ r.timestamp \in Nat
            /\ r = [id |-> r.id, timestamp |-> r.timestamp]
        BY <1>5
      <4>3. r.id # last.id \/ r.timestamp # last.timestamp
        BY <2>1, <4>1, <4>2
      <4>4. ~Before(last, r) /\ ~Before(r, Cursor)
        BY <1>8, <3>1
      <4> QED
        BY <1>2, <2>1, <2>3, <4>2, <4>3, <4>4 DEF Before
    <3> HIDE DEF Cursor
    <3> QED
      BY <2>2, <2>4, <3>2, <3>3 DEF Advances
  <2> QED
    BY <2>5, <2>6
<1> QED
  BY <1>1, <1>7, <1>8

\* The argument behind SyncEnds: until a crash the place where the next page begins never
\* goes back and stays within the time of the first request, and every full page moves it.
\* So a copy asks for no more pages than there are places in its range, however accounts
\* move in the order that the pages follow while it goes on.
THEOREM PagesAdvance ==
  DataSpec =>
    /\ []RangeInv
    /\ [][/\ sync # "off" /\ sync' # "off" => Cursor' = Cursor \/ Before(Cursor, Cursor')
          /\ sync = "asking" /\ sync' = "storing" /\ more' => Before(Cursor, Cursor')
         ]_dataVars
<1> DEFINE Step == /\ sync # "off" /\ sync' # "off" => Cursor' = Cursor \/ Before(Cursor, Cursor')
                   /\ sync = "asking" /\ sync' = "storing" /\ more' => Before(Cursor, Cursor')
<1>1. ASSUME DataInit PROVE RangeInv
  BY <1>1 DEF DataInit, RangeInv
<1>2. ASSUME SyncInv, RangeInv, [DataNext]_dataVars PROVE RangeInv' /\ [Step]_dataVars
  <2>1. CASE Begin
    BY <2>1, SyncAssumption DEF Begin, RangeInv
  <2>2. CASE Ask
    <3>1. CASE sync' = "storing"
      BY <1>2, <2>2, <3>1, AskAdvances DEF Advances
    <3>2. CASE sync' # "storing"
      BY <1>2, <2>2, <3>2 DEF Ask, RangeInv, Cursor
    <3> QED
      BY <3>1, <3>2
  <2>3. CASE Crash
    BY <2>3 DEF Crash, RangeInv
  <2>4. CASE UNCHANGED <<asked, sync>>
    BY <1>2, <2>4 DEF asked, RangeInv, Cursor
  <2>5. CASE PageDone
    BY <1>2, <2>5 DEF PageDone, asked, RangeInv, Cursor
  <2> QED
    BY <1>2, <2>1, <2>2, <2>3, <2>4, <2>5
    DEF DataNext, Sync, StoreOne, CacheGoesOn, CacheRead, Commit, syncVars, dataVars
<1> QED
  BY InvariantsAtStart, InvariantsAreKept, <1>1, <1>2, PTL DEF DataSpec

-----------------------------------------------------------------------------
(***************************************************************************)
(* NetworkParameters: nodes keep the same list of changes and come to the  *)
(* same configuration, for any number of nodes, changes and restarts.      *)
(***************************************************************************)

Keys == ConfigKeys \cup ParamKeys
Sets == Settings \cup {defaultConfig}
Change == [cycle : Int, set : Sets]

\* What a change sets are keys, to values.
LEMMA SetTypes ==
  \A s \in Sets : DOMAIN s \subseteq Keys /\ s \in [DOMAIN s -> Values]
BY KeysAssumption DEF Sets, Keys

-----------------------------------------------------------------------------
(* Lists taken from a log *)

\* from says where in log the elements of list are.
Embeds(from, list, log, positions) ==
  /\ from \in [DOMAIN list -> positions]
  /\ \A i, j \in DOMAIN list : i < j => from[i] < from[j]
  /\ \A p \in positions : \E i \in DOMAIN list : from[i] = p
  /\ \A i \in DOMAIN list : list[i] = log[from[i]]

LEMMA ExtractEmbeds ==
  ASSUME NEW list, NEW log, NEW positions
  PROVE  IsExtract(list, log, positions) <=> \E from : Embeds(from, list, log, positions)
BY DEF IsExtract, Embeds

\* What is taken from an extract is taken from the log.
LEMMA ExtractOfExtract ==
  ASSUME NEW list, NEW log, NEW S, NEW from, Embeds(from, list, log, S),
         DOMAIN list \subseteq Int, S \subseteq Int,
         NEW part, NEW Q \in SUBSET DOMAIN list, IsExtract(part, list, Q), DOMAIN part \subseteq Int
  PROVE  IsExtract(part, log, {from[y] : y \in Q})
<1>1. PICK to : Embeds(to, part, list, Q)
  BY ExtractEmbeds
<1> DEFINE both == [i \in DOMAIN part |-> from[to[i]]]
<1>2. both \in [DOMAIN part -> {from[y] : y \in Q}]
  BY <1>1 DEF Embeds
<1>3. \A i, j \in DOMAIN part : i < j => both[i] < both[j]
  BY <1>1 DEF Embeds
<1>4. \A p \in {from[y] : y \in Q} : \E i \in DOMAIN part : both[i] = p
  BY <1>1 DEF Embeds
<1>5. \A i \in DOMAIN part : part[i] = log[both[i]]
  BY <1>1 DEF Embeds
<1>6. Embeds(both, part, log, {from[y] : y \in Q})
  <2> HIDE DEF both
  <2> QED
    BY <1>2, <1>3, <1>4, <1>5 DEF Embeds
<1> QED
  BY <1>6, ExtractEmbeds

\* An element in front of an extract.
LEMMA PrependExtract ==
  ASSUME NEW n \in Nat, NEW log, NEW i \in 1 .. n, NEW S \in SUBSET ((i + 1) .. n),
         NEW T, NEW list \in Seq(T), log[i] \in T, IsExtract(list, log, S)
  PROVE  IsExtract(<<log[i]>> \o list, log, {i} \cup S)
<1>0. \A p \in S : p \in Int /\ i < p
  <2>1. \A p \in (i + 1) .. n : p \in Int /\ i < p
    OBVIOUS
  <2>2. S \subseteq (i + 1) .. n
    OBVIOUS
  <2> QED
    BY <2>1, <2>2
<1>1. PICK from : Embeds(from, list, log, S)
  BY ExtractEmbeds
<1> DEFINE longer == <<log[i]>> \o list
           to == [x \in DOMAIN longer |-> IF x = 1 THEN i ELSE from[x - 1]]
<1>2. /\ Len(list) \in Nat /\ DOMAIN list = 1 .. Len(list)
      /\ DOMAIN longer = 1 .. (Len(list) + 1)
      /\ longer[1] = log[i] /\ \A x \in 2 .. (Len(list) + 1) : longer[x] = list[x - 1]
  OBVIOUS
<1> HIDE DEF longer
<1>3. to \in [DOMAIN longer -> {i} \cup S]
  BY <1>1, <1>2 DEF Embeds
<1>4. ASSUME NEW x \in DOMAIN longer, NEW y \in DOMAIN longer, x < y
      PROVE  to[x] < to[y]
  <2>1. y \in 2 .. (Len(list) + 1) /\ y - 1 \in DOMAIN list /\ to[y] = from[y - 1]
    BY <1>2, <1>4
  <2>2. from[y - 1] \in Int /\ i < from[y - 1]
    <3>1. from[y - 1] \in S
      BY <2>1, <1>1 DEF Embeds
    <3> QED
      BY <3>1, <1>0
  <2>3. CASE x = 1
    BY <2>1, <2>2, <2>3
  <2>4. CASE x # 1
    <3>1. x - 1 \in DOMAIN list /\ x - 1 < y - 1 /\ to[x] = from[x - 1]
      BY <2>1, <2>4, <1>2, <1>4
    <3> QED
      BY <3>1, <2>1, <1>1 DEF Embeds
  <2> QED
    BY <2>3, <2>4
<1>5. \A p \in {i} \cup S : \E x \in DOMAIN longer : to[x] = p
  <2> TAKE p \in {i} \cup S
  <2>1. CASE p = i
    <3>1. 1 \in DOMAIN longer /\ to[1] = i
      BY <1>2
    <3> QED
      BY <3>1, <2>1
  <2>2. CASE p \in S
    <3>1. PICK x \in DOMAIN list : from[x] = p
      BY <2>2, <1>1 DEF Embeds
    <3>2. x + 1 \in DOMAIN longer /\ x + 1 # 1 /\ (x + 1) - 1 = x
      BY <1>2
    <3>3. to[x + 1] = p
      BY <3>1, <3>2
    <3> QED
      BY <3>2, <3>3
  <2> QED
    BY <2>1, <2>2
<1>6. \A x \in DOMAIN longer : longer[x] = log[to[x]]
  <2> TAKE x \in DOMAIN longer
  <2>1. CASE x = 1
    BY <2>1, <1>2
  <2>2. CASE x # 1
    <3>1. x \in 2 .. (Len(list) + 1) /\ x - 1 \in DOMAIN list
      BY <2>2, <1>2
    <3> QED
      BY <3>1, <2>2, <1>2, <1>1 DEF Embeds
  <2> QED
    BY <2>1, <2>2
<1>7. Embeds(to, longer, log, {i} \cup S)
  <2> HIDE DEF to
  <2> QED
    BY <1>3, <1>4, <1>5, <1>6 DEF Embeds
<1> QED
  BY <1>7, ExtractEmbeds DEF longer

\* The same change at the end of the extract and of the log.
LEMMA AppendExtract ==
  ASSUME NEW T, NEW log \in Seq(T), NEW list \in Seq(T), NEW S \in SUBSET DOMAIN log,
         NEW change \in T, IsExtract(list, log, S)
  PROVE  IsExtract(Append(list, change), Append(log, change), S \cup {Len(log) + 1})
<1>1. PICK from : Embeds(from, list, log, S)
  BY ExtractEmbeds
<1> DEFINE longer == Append(list, change)
           m == Len(list)
           n == Len(log)
           to == [x \in DOMAIN longer |-> IF x = m + 1 THEN n + 1 ELSE from[x]]
<1>2. /\ m \in Nat /\ DOMAIN list = 1 .. m /\ n \in Nat /\ DOMAIN log = 1 .. n
      /\ DOMAIN longer = 1 .. (m + 1)
      /\ longer[m + 1] = change /\ \A x \in 1 .. m : longer[x] = list[x]
      /\ Append(log, change)[n + 1] = change /\ \A x \in 1 .. n : Append(log, change)[x] = log[x]
  OBVIOUS
<1> HIDE DEF longer, m, n
<1>3. to \in [DOMAIN longer -> S \cup {n + 1}]
  BY <1>1, <1>2 DEF Embeds
<1>4. ASSUME NEW x \in DOMAIN longer, NEW y \in DOMAIN longer, x < y
      PROVE  to[x] < to[y]
  <2>1. x \in DOMAIN list /\ to[x] = from[x]
    BY <1>2, <1>4
  <2>2. from[x] \in 1 .. n
    BY <2>1, <1>1, <1>2 DEF Embeds
  <2>3. CASE y = m + 1
    BY <2>1, <2>2, <2>3, <1>2
  <2>4. CASE y # m + 1
    <3>1. y \in DOMAIN list /\ to[y] = from[y]
      BY <2>4, <1>2
    <3> QED
      BY <3>1, <2>1, <1>4, <1>1 DEF Embeds
  <2> QED
    BY <2>3, <2>4
<1>5. \A p \in S \cup {n + 1} : \E x \in DOMAIN longer : to[x] = p
  <2> TAKE p \in S \cup {n + 1}
  <2>1. CASE p = n + 1
    <3>1. m + 1 \in DOMAIN longer /\ to[m + 1] = n + 1
      BY <1>2
    <3> QED
      BY <3>1, <2>1
  <2>2. CASE p \in S
    <3>1. PICK x \in DOMAIN list : from[x] = p
      BY <2>2, <1>1 DEF Embeds
    <3>2. x \in DOMAIN longer /\ x # m + 1
      BY <1>2
    <3> QED
      BY <3>1, <3>2
  <2> QED
    BY <2>1, <2>2
<1>6. \A x \in DOMAIN longer : longer[x] = Append(log, change)[to[x]]
  <2> TAKE x \in DOMAIN longer
  <2>1. CASE x = m + 1
    BY <2>1, <1>2
  <2>2. CASE x # m + 1
    <3>1. x \in 1 .. m /\ x \in DOMAIN list
      BY <2>2, <1>2
    <3>2. from[x] \in 1 .. n /\ list[x] = log[from[x]]
      BY <3>1, <1>1, <1>2 DEF Embeds
    <3> QED
      BY <3>1, <3>2, <2>2, <1>2
  <2> QED
    BY <2>1, <2>2
<1>7. Embeds(to, longer, Append(log, change), S \cup {n + 1})
  <2> HIDE DEF to
  <2> QED
    BY <1>3, <1>4, <1>5, <1>6 DEF Embeds
<1> QED
  BY <1>7, ExtractEmbeds DEF longer, n

-----------------------------------------------------------------------------
(* Pruning *)

\* Changes from position i on that set k.
Setting(log, i, k) == {j \in i .. Len(log) : k \in DOMAIN log[j].set}

LEMMA SettingIsFinite ==
  ASSUME NEW log \in Seq(Change), NEW i \in Nat, NEW k
  PROVE  IsFiniteSet(Setting(log, i, k)) /\ Cardinality(Setting(log, i, k)) \in Nat
<1>1. IsFiniteSet(i .. Len(log))
  BY FS_Interval, LenProperties
<1>2. IsFiniteSet(Setting(log, i, k))
  BY <1>1, FS_Subset DEF Setting
<1> QED
  BY <1>2, FS_CardinalityType

\* How far the loop counts.
Counted(c) == IF c < configChangeMaxChangesToKeep THEN c ELSE configChangeMaxChangesToKeep

\* One round of the loop, and what it works on.
PruneStep(change, s, currentCycle) ==
  [configs |-> [k \in DOMAIN s.configs |->
     IF k \in DOMAIN change.set /\ s.configs[k] < configChangeMaxChangesToKeep
     THEN s.configs[k] + 1 ELSE s.configs[k]],
   list |-> IF keepAlive(s.configs, change, currentCycle)
            THEN <<change>> \o s.list ELSE s.list]
PruneState == [configs : [Keys -> Nat], list : Seq(Change)]
PruneStart == [configs |-> [k \in Keys |-> 0], list |-> <<>>]

\* g is the function that the loop over L recurs on.
IsPruning(g, L, now) ==
  g = [s \in SUBSET (1 .. Len(L)) |->
        IF s = {} THEN PruneStart ELSE PruneStep(L[Min(s)], g[s \ {Min(s)}], now)]

LEMMA PruneStepType ==
  ASSUME NEW change \in Change, NEW s \in PruneState, NEW now
  PROVE  PruneStep(change, s, now) \in PruneState
<1>1. s.list \in Seq(Change) /\ <<change>> \o s.list \in Seq(Change) /\ s.configs \in [Keys -> Nat]
  BY DEF PruneState
<1>2. [k \in Keys |-> IF k \in DOMAIN change.set /\ s.configs[k] < configChangeMaxChangesToKeep
                      THEN s.configs[k] + 1 ELSE s.configs[k]] \in [Keys -> Nat]
  BY <1>1
<1> QED
  BY <1>1, <1>2 DEF PruneStep, PruneState

LEMMA PruningExists ==
  ASSUME NEW L \in Seq(Change), NEW now
  PROVE  \E g : IsPruning(g, L, now)
<1> DEFINE n == Len(L)
           F == [p \in PruneState \X (1 .. n) |-> PruneStep(L[p[2]], p[1], now)]
<1>1. n \in Nat /\ \A i \in 1 .. n : L[i] \in Change
  OBVIOUS
<1>2. PruneStart \in PruneState
  BY EmptySeq DEF PruneStart, PruneState
<1>3. F \in [PruneState \X (1 .. n) -> PruneState]
  BY <1>1, PruneStepType
<1>4. \A v \in PruneState, i \in 1 .. n : F[<<v, i>>] = PruneStep(L[i], v, now)
  OBVIOUS
<1> HIDE DEF F, n
<1>5. PICK g : /\ \A s \in SUBSET (1 .. n) : g[s] \in PruneState
               /\ g = [s \in SUBSET (1 .. n) |->
                         IF s = {} THEN PruneStart ELSE F[<<g[s \ {Min(s)}], Min(s)>>]]
  <2>1. RightFolds(F, PruneStart, n, PruneState)
    BY <1>1, <1>2, <1>3, RightFoldExists
  <2> QED
    BY <2>1 DEF RightFolds
<1>6. \A s \in SUBSET (1 .. n) : s # {} =>
        F[<<g[s \ {Min(s)}], Min(s)>>] = PruneStep(L[Min(s)], g[s \ {Min(s)}], now)
  <2> TAKE s \in SUBSET (1 .. n)
  <2> HAVE s # {}
  <2>1. Min(s) \in 1 .. n
    BY <1>1, PositionsHaveEnds
  <2>2. g[s \ {Min(s)}] \in PruneState
    BY <1>5
  <2> QED
    BY <2>1, <2>2, <1>4
<1>7. IsPruning(g, L, now)
  BY <1>5, <1>6 DEF IsPruning, n
<1> QED
  BY <1>7

\* The loop goes through positions n, n - 1, ... 1: h is what it has at each.
IsPruneRun(h, L, now) ==
  /\ h[Len(L) + 1] = PruneStart
  /\ \A i \in 1 .. Len(L) : h[i] = PruneStep(L[i], h[i + 1], now)
  /\ pruneNetworkChangeQueue(L, now) = h[1].list

LEMMA PruningSteps ==
  ASSUME NEW L \in Seq(Change), NEW now
  PROVE  \E h : IsPruneRun(h, L, now)
<1> DEFINE n == Len(L)
           g == CHOOSE g : IsPruning(g, L, now)
           h == [i \in 1 .. (n + 1) |-> g[i .. n]]
<1>1. n \in Nat /\ DOMAIN L = 1 .. n
  OBVIOUS
<1>2. IsPruning(g, L, now)
  BY PruningExists
<1>3. pruneNetworkChangeQueue(L, now) = g[1 .. n].list
  BY <1>1 DEF pruneNetworkChangeQueue, FoldRight, MapThenFoldSet, PruneStep, PruneStart, IsPruning, Keys
<1> HIDE DEF g, n
<1>4. h[n + 1] = PruneStart
  <2>1. (n + 1) .. n = {}
    BY <1>1
  <2>2. g[{}] = PruneStart
    BY <1>2 DEF IsPruning
  <2> QED
    BY <2>1, <2>2, <1>1
<1>5. \A i \in 1 .. n : h[i] = PruneStep(L[i], h[i + 1], now)
  <2> TAKE i \in 1 .. n
  <2>1. /\ i .. n \in SUBSET (1 .. n) /\ i .. n # {}
        /\ Min(i .. n) = i /\ (i .. n) \ {i} = (i + 1) .. n
    BY <1>1, FromOn
  <2>2. g[i .. n] = PruneStep(L[i], g[(i + 1) .. n], now)
    BY <2>1, <1>2 DEF IsPruning, n
  <2>3. i \in 1 .. (n + 1) /\ i + 1 \in 1 .. (n + 1)
    BY <1>1
  <2> QED
    BY <2>2, <2>3
<1>6. pruneNetworkChangeQueue(L, now) = h[1].list
  BY <1>1, <1>3
<1> HIDE DEF h
<1> QED
  BY <1>4, <1>5, <1>6 DEF n, IsPruneRun

LEMMA KeptIs ==
  ASSUME NEW log, NEW i, NEW now
  PROVE  Kept(log, i, now) <=>
           \/ \E k \in DOMAIN log[i].set :
                Cardinality(Setting(log, i + 1, k)) < configChangeMaxChangesToKeep
           \/ now - log[i].cycle <= configChangeMaxCyclesToKeep
BY DEF Kept, Setting

\* What the loop has when it has seen the changes from position i on.
Pruned(h, L, i, now) ==
  /\ h[i] \in PruneState
  /\ \A k \in Keys : h[i].configs[k] = Counted(Cardinality(Setting(L, i, k)))
  /\ IsExtract(h[i].list, L, {j \in i .. Len(L) : Kept(L, j, now)})

LEMMA PrunedAtEnd ==
  ASSUME NEW L \in Seq(Change), NEW now, NEW h, h[Len(L) + 1] = PruneStart
  PROVE  Pruned(h, L, Len(L) + 1, now)
<1> DEFINE n == Len(L)
<1>1. n \in Nat /\ (n + 1) .. n = {}
  OBVIOUS
<1>2. PruneStart \in PruneState
  BY EmptySeq DEF PruneStart, PruneState
<1>3. \A k \in Keys : Counted(Cardinality(Setting(L, n + 1, k))) = 0
  <2>1. \A k : Setting(L, n + 1, k) = {}
    BY <1>1 DEF Setting
  <2>2. Cardinality({}) = 0
    BY FS_EmptySet
  <2>3. Counted(0) = 0
    BY KeepAssumption DEF Counted
  <2> QED
    BY <2>1, <2>2, <2>3
<1>4. IsExtract(<<>>, L, {})
  <2> DEFINE from == [x \in {} |-> 1]
  <2>1. Embeds(from, <<>>, L, {})
    BY DEF Embeds
  <2> QED
    BY <2>1, ExtractEmbeds
<1>5. {j \in (n + 1) .. n : Kept(L, j, now)} = {}
  BY <1>1
<1>6. PruneStart.list = <<>> /\ \A k \in Keys : PruneStart.configs[k] = 0
  BY DEF PruneStart
<1>7. /\ h[n + 1] \in PruneState
      /\ \A k \in Keys : h[n + 1].configs[k] = Counted(Cardinality(Setting(L, n + 1, k)))
      /\ IsExtract(h[n + 1].list, L, {j \in (n + 1) .. n : Kept(L, j, now)})
  BY <1>2, <1>3, <1>4, <1>5, <1>6
<1> QED
  BY <1>7 DEF Pruned

LEMMA PrunedBefore ==
  ASSUME NEW L \in Seq(Change), NEW now, NEW h, NEW i \in 1 .. Len(L),
         Pruned(h, L, i + 1, now), h[i] = PruneStep(L[i], h[i + 1], now)
  PROVE  Pruned(h, L, i, now)
<1> DEFINE n == Len(L)
           s == h[i + 1]
           max == configChangeMaxChangesToKeep
<1>1. n \in Nat /\ i \in Nat /\ i + 1 \in Nat /\ L[i] \in Change /\ max \in Nat /\ i \in 1 .. n
  BY KeepAssumption
<1>2. /\ s \in PruneState /\ s.configs \in [Keys -> Nat] /\ s.list \in Seq(Change)
      /\ \A k \in Keys : s.configs[k] = Counted(Cardinality(Setting(L, i + 1, k)))
  BY DEF Pruned, PruneState
<1>3. \A k : Setting(L, i, k) = IF k \in DOMAIN L[i].set THEN Setting(L, i + 1, k) \cup {i}
                                                       ELSE Setting(L, i + 1, k)
  <2>1. i .. n = {i} \cup ((i + 1) .. n)
    BY <1>1
  <2> QED
    BY <2>1 DEF Setting
<1>4. \A k : /\ IsFiniteSet(Setting(L, i + 1, k)) /\ Cardinality(Setting(L, i + 1, k)) \in Nat
            /\ Cardinality(Setting(L, i + 1, k) \cup {i}) = Cardinality(Setting(L, i + 1, k)) + 1
  <2> TAKE k
  <2>1. IsFiniteSet(Setting(L, i + 1, k)) /\ Cardinality(Setting(L, i + 1, k)) \in Nat
    BY <1>1, SettingIsFinite
  <2>2. i \notin Setting(L, i + 1, k)
    BY <1>1 DEF Setting
  <2> QED
    BY <2>1, <2>2, FS_AddElement
<1> HIDE DEF s, n, max
<1>5. h[i] \in PruneState
  BY <1>1, <1>2, PruneStepType DEF s
<1>6. ASSUME NEW k \in Keys
      PROVE  h[i].configs[k] = Counted(Cardinality(Setting(L, i, k)))
  <2> DEFINE c == Cardinality(Setting(L, i + 1, k))
             d == Cardinality(Setting(L, i, k))
  <2>1. c \in Nat /\ d = IF k \in DOMAIN L[i].set THEN c + 1 ELSE c
    BY <1>3, <1>4
  <2>2. s.configs[k] = IF c < max THEN c ELSE max
    BY <1>2 DEF Counted, max
  <2>3. h[i].configs[k] = IF k \in DOMAIN L[i].set /\ s.configs[k] < max
                          THEN s.configs[k] + 1 ELSE s.configs[k]
    BY <1>2 DEF PruneStep, s, max
  <2> HIDE DEF c, d
  <2>4. h[i].configs[k] = IF d < max THEN d ELSE max
    BY <2>1, <2>2, <2>3, <1>1
  <2> QED
    BY <2>4 DEF Counted, d, max
<1>7. keepAlive(s.configs, L[i], now) <=> Kept(L, i, now)
  <2>1. ASSUME NEW k \in DOMAIN L[i].set
        PROVE  s.configs[k] < max <=> Cardinality(Setting(L, i + 1, k)) < max
    <3>1. k \in Keys
      BY <1>1, SetTypes DEF Change
    <3> DEFINE c == Cardinality(Setting(L, i + 1, k))
    <3>2. c \in Nat /\ s.configs[k] = IF c < max THEN c ELSE max
      BY <1>2, <1>4, <3>1 DEF Counted, max
    <3> HIDE DEF c
    <3>3. s.configs[k] < max <=> c < max
      BY <3>2, <1>1
    <3> QED
      BY <3>3 DEF c
  <2> QED
    BY <2>1, KeptIs DEF keepAlive, max
<1>8. IsExtract(h[i].list, L, {j \in i .. n : Kept(L, j, now)})
  <2> DEFINE S == {j \in (i + 1) .. n : Kept(L, j, now)}
  <2>1. IsExtract(s.list, L, S)
    BY DEF Pruned, s, n
  <2>2. i .. n = {i} \cup ((i + 1) .. n)
    BY <1>1
  <2>3. h[i].list = IF Kept(L, i, now) THEN <<L[i]>> \o s.list ELSE s.list
    BY <1>7 DEF PruneStep, s
  <2>4. CASE Kept(L, i, now)
    <3>1. {j \in i .. n : Kept(L, j, now)} = {i} \cup S
      BY <2>2, <2>4
    <3>2. S \in SUBSET ((i + 1) .. n)
      OBVIOUS
    <3> HIDE DEF S
    <3>3. IsExtract(<<L[i]>> \o s.list, L, {i} \cup S)
      BY <1>1, <1>2, <2>1, <3>2, PrependExtract
    <3> QED
      BY <3>1, <3>3, <2>3, <2>4
  <2>5. CASE ~Kept(L, i, now)
    <3>1. {j \in i .. n : Kept(L, j, now)} = S
      BY <2>2, <2>5
    <3> QED
      BY <3>1, <2>1, <2>3, <2>5
  <2> QED
    BY <2>4, <2>5
<1> QED
  BY <1>5, <1>6, <1>8 DEF Pruned, n

\* Pruning leaves the changes of the list that are kept, in their order.
LEMMA PruneKeeps ==
  ASSUME NEW L \in Seq(Change), NEW now
  PROVE  /\ pruneNetworkChangeQueue(L, now) \in Seq(Change)
         /\ IsExtract(pruneNetworkChangeQueue(L, now), L, {i \in DOMAIN L : Kept(L, i, now)})
<1> DEFINE n == Len(L)
<1>1. n \in Nat /\ DOMAIN L = 1 .. n
  OBVIOUS
<1>2. PICK h : /\ h[n + 1] = PruneStart
               /\ \A i \in 1 .. n : h[i] = PruneStep(L[i], h[i + 1], now)
               /\ pruneNetworkChangeQueue(L, now) = h[1].list
  BY PruningSteps DEF IsPruneRun
<1> DEFINE T == {x \in Nat : x <= n /\ ~Pruned(h, L, n + 1 - x, now)}
<1>3. ASSUME NEW x \in T
      PROVE  \E m \in T : m < x
  <2>1. CASE x = 0
    BY <2>1, <1>1, <1>2, PrunedAtEnd
  <2>2. CASE x # 0
    <3>1. /\ x - 1 \in Nat /\ x - 1 < x /\ x - 1 <= n
          /\ n + 1 - (x - 1) = (n + 1 - x) + 1 /\ n + 1 - x \in 1 .. n
      BY <2>2, <1>1
    <3> DEFINE i == n + 1 - x
    <3>2. ~Pruned(h, L, i, now)
      OBVIOUS
    <3>3. h[i] = PruneStep(L[i], h[i + 1], now) /\ i \in 1 .. n
      BY <3>1, <1>2
    <3> HIDE DEF i
    <3>4. ~Pruned(h, L, i + 1, now)
      BY <3>2, <3>3, PrunedBefore
    <3>5. ~Pruned(h, L, n + 1 - (x - 1), now)
      BY <3>1, <3>4 DEF i
    <3> QED
      BY <3>1, <3>5
  <2> QED
    BY <2>1, <2>2
<1>4. T = {}
  <2> HIDE DEF T
  <2>1. T \subseteq Nat
    BY DEF T
  <2> QED
    BY <1>3, <2>1, NoLeastCounterexample
<1>5. Pruned(h, L, 1, now)
  <2>1. n \in Nat /\ n <= n /\ n + 1 - n = 1
    BY <1>1
  <2>2. n \notin T
    BY <1>4
  <2> QED
    BY <2>1, <2>2
<1> QED
  BY <1>1, <1>2, <1>5 DEF Pruned, PruneState

\* A list lacks what is not kept.
Lacks(log, S, now) == \A i \in DOMAIN log \ S : ~Kept(log, i, now)

\* Later changes of a key in the list are as many as in the log, as far as the loop counts:
\* the latest one that the list lacks would have been kept.
LEMMA CountInExtract ==
  ASSUME NEW log \in Seq(Change), NEW list \in Seq(Change), NEW S \in SUBSET DOMAIN log,
         NEW from, Embeds(from, list, log, S), NEW now, Lacks(log, S, now),
         NEW y \in DOMAIN list, NEW k
  PROVE  Cardinality(Setting(list, y + 1, k)) < configChangeMaxChangesToKeep
           <=> Cardinality(Setting(log, from[y] + 1, k)) < configChangeMaxChangesToKeep
<1> DEFINE n == Len(log)
           A == Setting(list, y + 1, k)
           B == Setting(log, from[y] + 1, k)
           max == configChangeMaxChangesToKeep
<1>1. /\ n \in Nat /\ DOMAIN log = 1 .. n /\ Len(list) \in Nat /\ DOMAIN list = 1 .. Len(list)
      /\ y \in Nat /\ max \in Nat
  BY KeepAssumption
<1>2. /\ from \in [DOMAIN list -> S]
      /\ \A i, j \in DOMAIN list : i < j => from[i] < from[j]
      /\ \A p \in S : \E i \in DOMAIN list : from[i] = p
      /\ \A i \in DOMAIN list : list[i] = log[from[i]]
  BY DEF Embeds
<1>3. S \subseteq 1 .. n /\ from[y] \in 1 .. n /\ from[y] \in Nat
  BY <1>1, <1>2
<1>4. IsFiniteSet(A) /\ Cardinality(A) \in Nat /\ IsFiniteSet(B) /\ Cardinality(B) \in Nat
  BY <1>1, <1>3, SettingIsFinite
<1>5. \A x \in A : x \in DOMAIN list /\ x > y /\ k \in DOMAIN list[x].set
  BY <1>1 DEF Setting
<1>6. \A p : p \in B <=> p \in from[y] + 1 .. n /\ k \in DOMAIN log[p].set
  BY DEF Setting
<1>7. Cardinality(A) = Cardinality(B \cap S)
  <2> DEFINE f == [x \in A |-> from[x]]
  <2>1. f \in [A -> B \cap S]
    <3> SUFFICES ASSUME NEW x \in A PROVE from[x] \in B \cap S
      OBVIOUS
    <3>1. x \in DOMAIN list /\ y < x /\ k \in DOMAIN log[from[x]].set
      BY <1>1, <1>2, <1>5
    <3>2. from[x] \in S /\ from[x] \in 1 .. n /\ from[y] < from[x]
      BY <1>2, <1>3, <3>1
    <3> QED
      BY <3>1, <3>2, <1>1, <1>3, <1>6
  <2>2. \A x, z \in A : f[x] = f[z] => x = z
    <3> SUFFICES ASSUME NEW x \in A, NEW z \in A, x # z PROVE from[x] # from[z]
      OBVIOUS
    <3>1. x \in DOMAIN list /\ z \in DOMAIN list /\ (x < z \/ z < x)
      BY <1>1, <1>5
    <3>2. from[x] \in Int /\ from[z] \in Int
      BY <3>1, <1>2, <1>3
    <3> QED
      BY <3>1, <3>2, <1>2
  <2>3. \A p \in B \cap S : \E x \in A : f[x] = p
    <3> TAKE p \in B \cap S
    <3>1. PICK x \in DOMAIN list : from[x] = p
      BY <1>2
    <3>2. from[y] < from[x] /\ k \in DOMAIN list[x].set
      BY <3>1, <1>1, <1>2, <1>3, <1>6
    <3>3. ~(x < y) /\ x # y
      BY <3>1, <3>2, <1>2, <1>3
    <3>4. x \in y + 1 .. Len(list)
      BY <3>3, <1>1
    <3> QED
      BY <3>1, <3>2, <3>4 DEF Setting
  <2>4. f \in Bijection(A, B \cap S)
    <3> HIDE DEF f, A, B
    <3> QED
      BY <2>1, <2>2, <2>3 DEF Bijection, Injection, Surjection, IsInjective
  <2> QED
    BY <2>4, <1>4, FS_Bijection DEF ExistsBijection
<1>8. IsFiniteSet(B \cap S) /\ Cardinality(B \cap S) <= Cardinality(B) /\ Cardinality(B \cap S) \in Nat
  BY <1>4, <1>7, FS_Subset
<1>9. ASSUME Cardinality(B \cap S) < max, ~(Cardinality(B) < max)
      PROVE  FALSE
  <2> DEFINE M == B \ S
             m == Max(M)
  <2>1. M # {} /\ M \in SUBSET (1 .. n)
    <3>1. M # {}
      <4>1. M = {} => B \cap S = B
        OBVIOUS
      <4> QED
        BY <4>1, <1>9
    <3>2. B \subseteq 1 .. n
      BY <1>1, <1>3, <1>6
    <3> QED
      BY <3>1, <3>2
  <2> HIDE DEF M
  <2>2. m \in M /\ (\A x \in M : m >= x) /\ m \in 1 .. n
    BY <2>1, <1>1, PositionsHaveEnds
  <2> HIDE DEF m
  <2>3. m \in B /\ m \notin S /\ k \in DOMAIN log[m].set /\ m \in from[y] + 1 .. n
    BY <2>2, <1>6 DEF M
  <2>4. Setting(log, m + 1, k) \subseteq B \cap S
    <3> SUFFICES ASSUME NEW j \in Setting(log, m + 1, k) PROVE j \in B \cap S
      OBVIOUS
    <3>1. j \in m + 1 .. n /\ k \in DOMAIN log[j].set
      BY DEF Setting
    <3>2. j \in B /\ ~(m >= j)
      BY <3>1, <2>2, <2>3, <1>3, <1>6, <1>1
    <3> QED
      BY <3>2, <2>2 DEF M
  <2>5. Cardinality(Setting(log, m + 1, k)) <= Cardinality(B \cap S)
    BY <2>4, <1>8, FS_Subset
  <2>6. Cardinality(Setting(log, m + 1, k)) \in Nat
    BY <2>2, SettingIsFinite
  <2>7. Cardinality(Setting(log, m + 1, k)) < max
    BY <2>5, <2>6, <1>8, <1>9, <1>1
  <2>8. Kept(log, m, now)
    BY <2>3, <2>7, KeptIs
  <2> QED
    BY <2>2, <2>3, <2>8, <1>1 DEF Lacks
<1> HIDE DEF A, B, max
<1>10. Cardinality(A) < max <=> Cardinality(B) < max
  BY <1>1, <1>4, <1>7, <1>8, <1>9
<1> QED
  BY <1>10 DEF A, B, max

\* So pruning the list leaves what pruning the whole log would.
LEMMA PruneExtract ==
  ASSUME NEW log \in Seq(Change), NEW list \in Seq(Change), NEW S \in SUBSET DOMAIN log,
         IsExtract(list, log, S), NEW now, Lacks(log, S, now)
  PROVE  IsExtract(pruneNetworkChangeQueue(list, now), log, {i \in DOMAIN log : Kept(log, i, now)})
<1>1. PICK from : Embeds(from, list, log, S)
  BY ExtractEmbeds
<1> DEFINE Q == {y \in DOMAIN list : Kept(list, y, now)}
           part == pruneNetworkChangeQueue(list, now)
<1>2. part \in Seq(Change) /\ IsExtract(part, list, Q)
  BY PruneKeeps
<1>3. \A y \in DOMAIN list : Kept(list, y, now) <=> Kept(log, from[y], now)
  <2> TAKE y \in DOMAIN list
  <2>1. \A k : Cardinality(Setting(list, y + 1, k)) < configChangeMaxChangesToKeep
             <=> Cardinality(Setting(log, from[y] + 1, k)) < configChangeMaxChangesToKeep
    BY <1>1, CountInExtract
  <2>2. list[y] = log[from[y]]
    BY <1>1 DEF Embeds
  <2> QED
    BY <2>1, <2>2, KeptIs
<1>4. {from[y] : y \in Q} = {i \in DOMAIN log : Kept(log, i, now)}
  <2>1. \A y \in DOMAIN list : from[y] \in S
    BY <1>1 DEF Embeds
  <2>2. \A i \in S : \E y \in DOMAIN list : from[y] = i
    BY <1>1 DEF Embeds
  <2>3. \A i \in DOMAIN log : Kept(log, i, now) => i \in S
    BY DEF Lacks
  <2> QED
    BY <2>1, <2>2, <2>3, <1>3
<1>5. /\ DOMAIN list \subseteq Int /\ DOMAIN log \subseteq Int /\ DOMAIN part \subseteq Int
      /\ S \subseteq Int /\ Q \in SUBSET DOMAIN list
  BY <1>2
<1> HIDE DEF Q, part
<1>6. IsExtract(part, log, {from[y] : y \in Q})
  BY <1>1, <1>2, <1>5, ExtractOfExtract
<1> QED
  BY <1>4, <1>6 DEF part

\* What is not kept is not kept later.
LEMMA LacksLater ==
  ASSUME NEW log \in Seq(Change), NEW S, NEW now \in Int, NEW later \in Int, now <= later,
         Lacks(log, S, now)
  PROVE  Lacks(log, S, later)
<1> SUFFICES ASSUME NEW i \in DOMAIN log \ S, Kept(log, i, later)
             PROVE  Kept(log, i, now)
  BY DEF Lacks
<1>1. log[i].cycle \in Int
  <2>1. log[i] \in Change
    OBVIOUS
  <2> QED
    BY <2>1 DEF Change
<1>2. later - log[i].cycle <= configChangeMaxCyclesToKeep
        => now - log[i].cycle <= configChangeMaxCyclesToKeep
  BY <1>1, KeepAssumption
<1> QED
  BY <1>2, KeptIs

\* Nor when there is another change.
LEMMA LacksWithAnother ==
  ASSUME NEW log \in Seq(Change), NEW S, NEW now, NEW change \in Change, Lacks(log, S, now)
  PROVE  Lacks(Append(log, change), S \cup {Len(log) + 1}, now)
<1> DEFINE n == Len(log)
           longer == Append(log, change)
<1>1. /\ n \in Nat /\ DOMAIN log = 1 .. n /\ longer \in Seq(Change) /\ Len(longer) = n + 1
      /\ DOMAIN longer = 1 .. (n + 1) /\ \A i \in 1 .. n : longer[i] = log[i]
  OBVIOUS
<1> HIDE DEF n, longer
<1> SUFFICES ASSUME NEW i \in DOMAIN longer \ (S \cup {n + 1}), Kept(longer, i, now)
             PROVE  Kept(log, i, now)
  BY <1>1 DEF Lacks, n, longer
<1>2. i \in 1 .. n /\ longer[i] = log[i]
  BY <1>1
<1>3. ASSUME NEW k, Cardinality(Setting(longer, i + 1, k)) < configChangeMaxChangesToKeep
      PROVE  Cardinality(Setting(log, i + 1, k)) < configChangeMaxChangesToKeep
  <2>1. Setting(log, i + 1, k) \subseteq Setting(longer, i + 1, k)
    BY <1>1, <1>2 DEF Setting, n
  <2>2. i + 1 \in Nat
    BY <1>2, <1>1
  <2>3. IsFiniteSet(Setting(longer, i + 1, k)) /\ Cardinality(Setting(longer, i + 1, k)) \in Nat
    BY <1>1, <2>2, SettingIsFinite
  <2>4. Cardinality(Setting(log, i + 1, k)) \in Nat
    BY <2>2, SettingIsFinite
  <2>5. Cardinality(Setting(log, i + 1, k)) <= Cardinality(Setting(longer, i + 1, k))
    BY <2>1, <2>3, FS_Subset
  <2> QED
    BY <2>3, <2>4, <2>5, <1>3, KeepAssumption
<1> QED
  BY <1>2, <1>3, KeptIs

-----------------------------------------------------------------------------
(* Applying what is due *)

NodeState ==
  [status : {"down", "starting", "running"}, at : Nat, seen : Nat, built : Nat,
   list : Seq(Change), current : [ParamKeys -> Values], config : [ConfigKeys -> Values],
   applied : SUBSET Change, migrated : SUBSET Migrations, settled : BOOLEAN]

\* What applying changes leaves alone.
SameFrame(m, n) ==
  /\ m.status = n.status /\ m.at = n.at /\ m.seen = n.seen /\ m.built = n.built
  /\ m.list = n.list /\ m.settled = n.settled

\* One round of the loop.
ApplyStep(m, change, now) ==
  IF change.cycle > now \/ change \in m.applied THEN m
  ELSE [patchAndUpdate(m, change.set)
          EXCEPT !.config = Patched(m.config, change.set),
                 !.applied = m.applied \cup {change}]

\* What a change of the active version runs.
Migrated(s) == {m \in Migrations : m <= s["activeVersion"]}

LEMMA PatchedType ==
  ASSUME NEW K, NEW values \in [K -> Values], NEW s \in Sets
  PROVE  /\ Patched(values, s) \in [K -> Values]
         /\ \A k \in K : Patched(values, s)[k] = IF k \in DOMAIN s THEN s[k] ELSE values[k]
BY SetTypes DEF Patched

LEMMA ApplyStepIs ==
  ASSUME NEW m \in NodeState, NEW change \in Change, NEW now
  PROVE  /\ ApplyStep(m, change, now) \in NodeState
         /\ SameFrame(ApplyStep(m, change, now), m)
         /\ change.cycle > now \/ change \in m.applied => ApplyStep(m, change, now) = m
         /\ ~(change.cycle > now \/ change \in m.applied) =>
              /\ ApplyStep(m, change, now).config = Patched(m.config, change.set)
              /\ ApplyStep(m, change, now).current = Patched(m.current, change.set)
              /\ ApplyStep(m, change, now).applied = m.applied \cup {change}
              /\ ApplyStep(m, change, now).migrated =
                   IF "activeVersion" \in DOMAIN change.set
                   THEN m.migrated \cup Migrated(change.set) ELSE m.migrated
<1>1. CASE change.cycle > now \/ change \in m.applied
  BY <1>1 DEF ApplyStep, SameFrame
<1>2. CASE ~(change.cycle > now \/ change \in m.applied)
  <2> DEFINE s == change.set
             c == Patched(m.config, s)
             p == Patched(m.current, s)
             a == m.applied \cup {change}
             g == IF "activeVersion" \in DOMAIN s THEN m.migrated \cup Migrated(s) ELSE m.migrated
  <2>1. m.config \in [ConfigKeys -> Values] /\ m.current \in [ParamKeys -> Values] /\ s \in Sets
    BY DEF NodeState, Change
  <2>2. c \in [ConfigKeys -> Values] /\ p \in [ParamKeys -> Values]
    BY <2>1, PatchedType
  <2>3. a \in SUBSET Change /\ g \in SUBSET Migrations
    BY DEF NodeState, Migrated
  <2>4. ApplyStep(m, change, now) =
          [m EXCEPT !.current = p, !.migrated = g, !.config = c, !.applied = a]
    BY <1>2 DEF ApplyStep, patchAndUpdate, onActiveVersionChange, Migrated, NodeState
  <2> HIDE DEF s, c, p, a, g
  <2>5. /\ ApplyStep(m, change, now) \in NodeState
        /\ SameFrame(ApplyStep(m, change, now), m)
        /\ ApplyStep(m, change, now).config = c /\ ApplyStep(m, change, now).current = p
        /\ ApplyStep(m, change, now).applied = a /\ ApplyStep(m, change, now).migrated = g
    BY <2>2, <2>3, <2>4 DEF NodeState, SameFrame
  <2> QED
    BY <2>5, <1>2 DEF s, c, p, a, g
<1> QED
  BY <1>1, <1>2

\* g is the function that the loop over the list of n recurs on.
IsApplying(g, n, now) ==
  g = [s \in SUBSET (1 .. Len(n.list)) |->
        IF s = {} THEN n ELSE ApplyStep(g[s \ {Max(s)}], n.list[Max(s)], now)]

LEMMA ApplyingExists ==
  ASSUME NEW m \in NodeState, NEW now
  PROVE  \E g : IsApplying(g, m, now)
<1> DEFINE L == m.list
           n == Len(L)
           F == [p \in NodeState \X (1 .. n) |-> ApplyStep(p[1], L[p[2]], now)]
<1>1. L \in Seq(Change) /\ n \in Nat /\ \A i \in 1 .. n : L[i] \in Change
  BY DEF NodeState
<1>2. \A v \in NodeState, i \in 1 .. n : ApplyStep(v, L[i], now) \in NodeState
  BY <1>1, ApplyStepIs
<1>3. F \in [NodeState \X (1 .. n) -> NodeState]
  <2> HIDE DEF n, L
  <2> QED
    BY <1>2
<1>4. \A v \in NodeState, i \in 1 .. n : F[<<v, i>>] = ApplyStep(v, L[i], now)
  OBVIOUS
<1> HIDE DEF F, n, L
<1>5. PICK g : /\ \A s \in SUBSET (1 .. n) : g[s] \in NodeState
               /\ g = [s \in SUBSET (1 .. n) |->
                         IF s = {} THEN m ELSE F[<<g[s \ {Max(s)}], Max(s)>>]]
  <2>1. LeftFolds(F, m, n, NodeState)
    BY <1>1, <1>3, LeftFoldExists
  <2> QED
    BY <2>1 DEF LeftFolds
<1>6. \A s \in SUBSET (1 .. n) : s # {} =>
        F[<<g[s \ {Max(s)}], Max(s)>>] = ApplyStep(g[s \ {Max(s)}], L[Max(s)], now)
  <2> TAKE s \in SUBSET (1 .. n)
  <2> HAVE s # {}
  <2>1. Max(s) \in 1 .. n
    BY <1>1, PositionsHaveEnds
  <2>2. g[s \ {Max(s)}] \in NodeState
    BY <1>5
  <2> QED
    BY <2>1, <2>2, <1>4
<1>7. IsApplying(g, m, now)
  BY <1>5, <1>6 DEF IsApplying, n, L
<1> QED
  BY <1>7

\* The loop goes through positions 1, 2, ... of the list: h is what it has after each.
IsApplyRun(h, n, now) ==
  /\ h[0] = n
  /\ \A i \in 1 .. Len(n.list) : h[i] = ApplyStep(h[i - 1], n.list[i], now)
  /\ ApplyDue(n, now) = h[Len(n.list)]

LEMMA ApplySteps ==
  ASSUME NEW m \in NodeState, NEW now
  PROVE  \E h : IsApplyRun(h, m, now)
<1> DEFINE L == m.list
           n == Len(L)
           g == CHOOSE g : IsApplying(g, m, now)
           h == [i \in 0 .. n |-> g[1 .. i]]
<1>1. n \in Nat /\ DOMAIN L = 1 .. n
  BY DEF NodeState
<1>2. IsApplying(g, m, now)
  BY ApplyingExists
<1>3. ApplyDue(m, now) = g[1 .. n]
  BY <1>1 DEF ApplyDue, FoldLeft, MapThenFoldSet, ApplyStep, IsApplying
<1> HIDE DEF g, n, L
<1>4. h[0] = m
  <2>1. 1 .. 0 = {}
    OBVIOUS
  <2>2. g[{}] = m
    BY <1>2 DEF IsApplying
  <2> QED
    BY <2>1, <2>2, <1>1
<1>5. \A i \in 1 .. n : h[i] = ApplyStep(h[i - 1], L[i], now)
  <2> TAKE i \in 1 .. n
  <2>1. /\ 1 .. i \in SUBSET (1 .. n) /\ 1 .. i # {}
        /\ Max(1 .. i) = i /\ (1 .. i) \ {i} = 1 .. (i - 1)
    BY <1>1, UpTo
  <2>2. g[1 .. i] = ApplyStep(g[1 .. (i - 1)], L[i], now)
    BY <2>1, <1>2 DEF IsApplying, n, L
  <2>3. i \in 0 .. n /\ i - 1 \in 0 .. n
    BY <1>1
  <2> QED
    BY <2>2, <2>3
<1>6. ApplyDue(m, now) = h[n]
  BY <1>1, <1>3
<1> HIDE DEF h
<1> QED
  BY <1>4, <1>5, <1>6 DEF n, L, IsApplyRun

\* v is what the last change of L among positions Q gave k, or old.
LastOf(v, old, L, Q, k) ==
  \/ (\A y \in Q : k \notin DOMAIN L[y].set) /\ v = old
  \/ \E y \in Q : /\ k \in DOMAIN L[y].set /\ v = L[y].set[k]
                 /\ \A z \in Q : y < z => k \notin DOMAIN L[z].set

\* Positions of the list of n up to i with changes that are due, or new as well.
DueUpTo(n, i, now) == {y \in 1 .. i : ~(n.list[y].cycle > now)}
NewUpTo(n, i, now) == {y \in DueUpTo(n, i, now) : n.list[y] \notin n.applied}

Distinct(L) == \A i, j \in DOMAIN L : i < j => L[i] # L[j]

\* What the loop over the list of n has after position i.
ChangesOf(m, n, i, now) == m.applied = n.applied \cup {n.list[y] : y \in DueUpTo(n, i, now)}
KeepsUnset(m, n, i) ==
  /\ \A k \in ConfigKeys :
       (\A y \in 1 .. i : k \notin DOMAIN n.list[y].set) => m.config[k] = n.config[k]
  /\ \A k \in ParamKeys :
       (\A y \in 1 .. i : k \notin DOMAIN n.list[y].set) => m.current[k] = n.current[k]
TakesLast(m, n, i, now) ==
  /\ \A k \in ConfigKeys : LastOf(m.config[k], n.config[k], n.list, NewUpTo(n, i, now), k)
  /\ \A k \in ParamKeys : LastOf(m.current[k], n.current[k], n.list, NewUpTo(n, i, now), k)
Migrates(m, n, i, now) ==
  /\ n.migrated \subseteq m.migrated
  /\ \A y \in NewUpTo(n, i, now) :
       "activeVersion" \in DOMAIN n.list[y].set => Migrated(n.list[y].set) \subseteq m.migrated

AppliedUpTo(m, n, i, now) ==
  /\ m \in NodeState /\ SameFrame(m, n)
  /\ ChangesOf(m, n, i, now) /\ KeepsUnset(m, n, i)
  /\ Distinct(n.list) => TakesLast(m, n, i, now) /\ Migrates(m, n, i, now)

LEMMA LastOfOneMore ==
  ASSUME NEW K, NEW values \in [K -> Values], NEW L \in Seq(Change), NEW i \in DOMAIN L,
         NEW Q \in SUBSET (1 .. (i - 1)), NEW k \in K, NEW old, LastOf(values[k], old, L, Q, k)
  PROVE  LastOf(Patched(values, L[i].set)[k], old, L, Q \cup {i}, k)
<1>1. L[i] \in Change /\ i \in Nat /\ L[i].set \in Sets
  <2>1. L[i] \in Change /\ i \in Nat
    OBVIOUS
  <2> QED
    BY <2>1 DEF Change
<1>2. Patched(values, L[i].set)[k] = IF k \in DOMAIN L[i].set THEN L[i].set[k] ELSE values[k]
  BY <1>1, PatchedType
<1>3. \A z \in Q : z \in Int /\ z < i
  <2>1. \A z \in 1 .. (i - 1) : z \in Int /\ z < i
    BY <1>1
  <2> QED
    BY <2>1
<1>4. CASE k \in DOMAIN L[i].set
  <2>1. \A z \in Q \cup {i} : ~(i < z)
    BY <1>1, <1>3
  <2> QED
    BY <2>1, <1>2, <1>4 DEF LastOf
<1>5. CASE k \notin DOMAIN L[i].set
  BY <1>2, <1>5 DEF LastOf
<1> QED
  BY <1>4, <1>5

LEMMA AppliedAtStart ==
  ASSUME NEW n \in NodeState, NEW now
  PROVE  AppliedUpTo(n, n, 0, now)
<1>1. 1 .. 0 = {}
  OBVIOUS
<1>2. DueUpTo(n, 0, now) = {} /\ NewUpTo(n, 0, now) = {}
  BY <1>1 DEF DueUpTo, NewUpTo
<1>3. TakesLast(n, n, 0, now) /\ Migrates(n, n, 0, now)
  BY <1>2 DEF TakesLast, LastOf, Migrates
<1> QED
  BY <1>2, <1>3 DEF AppliedUpTo, SameFrame, ChangesOf, KeepsUnset

IsStepOf(m2, m, change, now) ==
  LET done == change.cycle > now \/ change \in m.applied
  IN /\ m2 \in NodeState /\ SameFrame(m2, m) /\ (done => m2 = m)
     /\ ~done => /\ m2.config = Patched(m.config, change.set)
                 /\ m2.current = Patched(m.current, change.set)
                 /\ m2.applied = m.applied \cup {change}
                 /\ m2.migrated = IF "activeVersion" \in DOMAIN change.set
                                  THEN m.migrated \cup Migrated(change.set) ELSE m.migrated

LEMMA ApplyStepIsStep ==
  ASSUME NEW m \in NodeState, NEW change \in Change, NEW now
  PROVE  IsStepOf(ApplyStep(m, change, now), m, change, now)
BY ApplyStepIs DEF IsStepOf

LEMMA AppliedOneMore ==
  ASSUME NEW n \in NodeState, NEW now, NEW i \in 1 .. Len(n.list), NEW m,
         AppliedUpTo(m, n, i - 1, now)
  PROVE  AppliedUpTo(ApplyStep(m, n.list[i], now), n, i, now)
<1> DEFINE L == n.list
           c == L[i]
           m2 == ApplyStep(m, c, now)
           done == c.cycle > now \/ c \in m.applied
<1>1. /\ L \in Seq(Change) /\ i \in DOMAIN L /\ i \in Nat /\ i - 1 \in Nat /\ c \in Change
      /\ c.set \in Sets /\ 1 .. i = (1 .. (i - 1)) \cup {i} /\ i \notin 1 .. (i - 1)
      /\ DOMAIN L = 1 .. Len(L) /\ Len(L) \in Nat
  <2>1. L \in Seq(Change)
    BY DEF NodeState
  <2>2. DOMAIN L = 1 .. Len(L) /\ Len(L) \in Nat /\ i \in DOMAIN L /\ c \in Change
    BY <2>1
  <2>3. /\ i \in Nat /\ i - 1 \in Nat
        /\ 1 .. i = (1 .. (i - 1)) \cup {i} /\ i \notin 1 .. (i - 1)
    BY <2>2
  <2>4. c.set \in Sets
    BY <2>2 DEF Change
  <2> QED
    BY <2>1, <2>2, <2>3, <2>4
<1>2. /\ m \in NodeState /\ SameFrame(m, n) /\ ChangesOf(m, n, i - 1, now)
      /\ KeepsUnset(m, n, i - 1)
      /\ m.config \in [ConfigKeys -> Values] /\ m.current \in [ParamKeys -> Values]
  BY DEF AppliedUpTo, NodeState
<1>3. /\ m2 \in NodeState /\ SameFrame(m2, m) /\ (done => m2 = m)
      /\ ~done => /\ m2.config = Patched(m.config, c.set)
                  /\ m2.current = Patched(m.current, c.set)
                  /\ m2.applied = m.applied \cup {c}
                  /\ m2.migrated = IF "activeVersion" \in DOMAIN c.set
                                   THEN m.migrated \cup Migrated(c.set) ELSE m.migrated
  <2>1. IsStepOf(m2, m, c, now)
    <3> HIDE DEF c, L
    <3> QED
      BY <1>1, <1>2, ApplyStepIsStep
  <2> HIDE DEF m2
  <2> QED
    BY <2>1 DEF IsStepOf
<1> HIDE DEF m2
<1>4. DueUpTo(n, i, now) = IF c.cycle > now THEN DueUpTo(n, i - 1, now)
                                            ELSE DueUpTo(n, i - 1, now) \cup {i}
  BY <1>1 DEF DueUpTo
<1>5. m2 \in NodeState /\ SameFrame(m2, n)
  BY <1>2, <1>3 DEF SameFrame
<1>6. ChangesOf(m2, n, i, now)
  <2>1. m2.applied = IF c.cycle > now THEN m.applied ELSE m.applied \cup {c}
    BY <1>3
  <2> QED
    BY <2>1, <1>2, <1>4 DEF ChangesOf
<1>7. KeepsUnset(m2, n, i)
  <2>1. CASE done
    BY <2>1, <1>1, <1>2, <1>3 DEF KeepsUnset
  <2>2. CASE ~done
    <3>1. /\ \A k \in ConfigKeys : k \notin DOMAIN c.set => m2.config[k] = m.config[k]
          /\ \A k \in ParamKeys : k \notin DOMAIN c.set => m2.current[k] = m.current[k]
      BY <2>2, <1>1, <1>2, <1>3, PatchedType
    <3> QED
      BY <3>1, <1>1, <1>2 DEF KeepsUnset
  <2> QED
    BY <2>1, <2>2
<1>8. ASSUME Distinct(L)
      PROVE  TakesLast(m2, n, i, now) /\ Migrates(m2, n, i, now)
  <2>1. TakesLast(m, n, i - 1, now) /\ Migrates(m, n, i - 1, now)
    BY <1>8 DEF AppliedUpTo
  <2>2. done <=> c.cycle > now \/ c \in n.applied
    <3>1. \A y \in 1 .. (i - 1) : L[y] # c
      BY <1>1, <1>8 DEF Distinct
    <3> QED
      BY <3>1, <1>2 DEF ChangesOf, DueUpTo
  <2>3. NewUpTo(n, i, now) = IF done THEN NewUpTo(n, i - 1, now)
                                     ELSE NewUpTo(n, i - 1, now) \cup {i}
    BY <2>2, <1>4 DEF NewUpTo
  <2>4. CASE done
    <3> HIDE DEF done
    <3>1. m2 = m /\ NewUpTo(n, i, now) = NewUpTo(n, i - 1, now)
      BY <2>3, <2>4, <1>3
    <3> QED
      BY <2>1, <3>1 DEF TakesLast, Migrates
  <2>5. CASE ~done
    <3> DEFINE Q == NewUpTo(n, i - 1, now)
    <3>1. Q \in SUBSET (1 .. (i - 1))
      BY DEF NewUpTo, DueUpTo
    <3> HIDE DEF Q, L, c, done
    <3>2. \A k \in ConfigKeys : LastOf(m2.config[k], n.config[k], L, Q \cup {i}, k)
      <4> TAKE k \in ConfigKeys
      <4>1. LastOf(m.config[k], n.config[k], L, Q, k)
        BY <2>1 DEF TakesLast, Q, L
      <4>2. LastOf(Patched(m.config, L[i].set)[k], n.config[k], L, Q \cup {i}, k)
        BY <4>1, <3>1, <1>1, <1>2, LastOfOneMore
      <4> QED
        BY <4>2, <2>5, <1>3 DEF c
    <3>3. \A k \in ParamKeys : LastOf(m2.current[k], n.current[k], L, Q \cup {i}, k)
      <4> TAKE k \in ParamKeys
      <4>1. LastOf(m.current[k], n.current[k], L, Q, k)
        BY <2>1 DEF TakesLast, Q, L
      <4>2. LastOf(Patched(m.current, L[i].set)[k], n.current[k], L, Q \cup {i}, k)
        BY <4>1, <3>1, <1>1, <1>2, LastOfOneMore
      <4> QED
        BY <4>2, <2>5, <1>3 DEF c
    <3>4. Migrates(m2, n, i, now)
      BY <2>1, <2>3, <2>5, <1>3 DEF Migrates, c, L
    <3> QED
      BY <3>2, <3>3, <3>4, <2>3, <2>5 DEF TakesLast, Q, L
  <2> QED
    BY <2>4, <2>5
<1> QED
  BY <1>5, <1>6, <1>7, <1>8 DEF AppliedUpTo, m2

\* When changes have come: the node has applied those that are due, in their order.
LEMMA ApplyDueIs ==
  ASSUME NEW n \in NodeState, NEW now
  PROVE  AppliedUpTo(ApplyDue(n, now), n, Len(n.list), now)
<1> DEFINE l == Len(n.list)
<1>1. l \in Nat
  BY DEF NodeState
<1>2. PICK h : IsApplyRun(h, n, now)
  BY ApplySteps
<1> DEFINE T == {i \in Nat : i <= l /\ ~AppliedUpTo(h[i], n, i, now)}
<1>3. ASSUME NEW i \in T
      PROVE  \E j \in T : j < i
  <2>1. CASE i = 0
    BY <2>1, <1>2, AppliedAtStart DEF IsApplyRun
  <2>2. CASE i # 0
    <3>1. i \in 1 .. l /\ i - 1 \in Nat /\ i - 1 <= l /\ i - 1 < i
      BY <2>2, <1>1
    <3>2. h[i] = ApplyStep(h[i - 1], n.list[i], now)
      BY <3>1, <1>2 DEF IsApplyRun
    <3>3. ~AppliedUpTo(h[i - 1], n, i - 1, now)
      BY <3>1, <3>2, AppliedOneMore
    <3> QED
      BY <3>1, <3>3
  <2> QED
    BY <2>1, <2>2
<1>4. T = {}
  <2> HIDE DEF T
  <2>1. T \subseteq Nat
    BY DEF T
  <2> QED
    BY <1>3, <2>1, NoLeastCounterexample
<1>5. AppliedUpTo(h[l], n, l, now)
  <2>1. l <= l /\ l \notin T
    BY <1>1, <1>4
  <2> QED
    BY <2>1, <1>1
<1> QED
  BY <1>2, <1>5 DEF IsApplyRun

-----------------------------------------------------------------------------
(* The configuration a node starts with *)

\* g is the function that the loop over list recurs on.
IsPatching(g, list) ==
  g = [s \in SUBSET (1 .. Len(list)) |->
        IF s = {} THEN defaultConfig ELSE patchObject(g[s \ {Max(s)}], list[Max(s)].set)]

LEMMA PatchObjectType ==
  ASSUME NEW config \in [ConfigKeys -> Values], NEW s \in Sets
  PROVE  /\ patchObject(config, s) \in [ConfigKeys -> Values]
         /\ \A k \in ConfigKeys : patchObject(config, s)[k] =
              IF k \in DOMAIN s /\ Truthy(s[k]) /\ Truthy(config[k]) THEN s[k] ELSE config[k]
BY SetTypes DEF patchObject

LEMMA PatchingExists ==
  ASSUME NEW L \in Seq(Change)
  PROVE  \E g : IsPatching(g, L)
<1> DEFINE n == Len(L)
           V == [ConfigKeys -> Values]
           F == [p \in V \X (1 .. n) |-> patchObject(p[1], L[p[2]].set)]
<1>1. n \in Nat /\ defaultConfig \in V /\ \A i \in 1 .. n : L[i].set \in Sets
  <2>1. n \in Nat /\ \A i \in 1 .. n : L[i] \in Change
    OBVIOUS
  <2> QED
    BY <2>1, KeysAssumption DEF Change
<1>2. \A c \in V, i \in 1 .. n : patchObject(c, L[i].set) \in V
  BY <1>1, PatchObjectType
<1> HIDE DEF n, V
<1>3. F \in [V \X (1 .. n) -> V]
  BY <1>2
<1>4. \A c \in V, i \in 1 .. n : F[<<c, i>>] = patchObject(c, L[i].set)
  OBVIOUS
<1> HIDE DEF F
<1>5. PICK g : /\ \A s \in SUBSET (1 .. n) : g[s] \in V
               /\ g = [s \in SUBSET (1 .. n) |->
                         IF s = {} THEN defaultConfig ELSE F[<<g[s \ {Max(s)}], Max(s)>>]]
  <2>1. LeftFolds(F, defaultConfig, n, V)
    BY <1>1, <1>3, LeftFoldExists
  <2> QED
    BY <2>1 DEF LeftFolds
<1>6. \A s \in SUBSET (1 .. n) : s # {} =>
        F[<<g[s \ {Max(s)}], Max(s)>>] = patchObject(g[s \ {Max(s)}], L[Max(s)].set)
  <2> TAKE s \in SUBSET (1 .. n)
  <2> HAVE s # {}
  <2>1. Max(s) \in 1 .. n
    BY <1>1, PositionsHaveEnds
  <2>2. g[s \ {Max(s)}] \in V
    BY <1>5
  <2> QED
    BY <2>1, <2>2, <1>4
<1>7. IsPatching(g, L)
  BY <1>5, <1>6 DEF IsPatching, n
<1> QED
  BY <1>7

\* h is the configuration after each position of list.
IsPatchRun(h, list) ==
  /\ h[0] = defaultConfig
  /\ \A i \in 1 .. Len(list) : h[i] = patchObject(h[i - 1], list[i].set)
  /\ updateConfigFromNetworkAccount(list) = h[Len(list)]

LEMMA PatchSteps ==
  ASSUME NEW L \in Seq(Change)
  PROVE  \E h : IsPatchRun(h, L)
<1> DEFINE n == Len(L)
           g == CHOOSE g : IsPatching(g, L)
           h == [i \in 0 .. n |-> g[1 .. i]]
<1>1. n \in Nat /\ DOMAIN L = 1 .. n
  OBVIOUS
<1>2. IsPatching(g, L)
  BY PatchingExists
<1>3. updateConfigFromNetworkAccount(L) = g[1 .. n]
  BY <1>1 DEF updateConfigFromNetworkAccount, FoldLeft, MapThenFoldSet, IsPatching
<1> HIDE DEF g, n
<1>4. h[0] = defaultConfig
  <2>1. 1 .. 0 = {}
    OBVIOUS
  <2>2. g[{}] = defaultConfig
    BY <1>2 DEF IsPatching
  <2> QED
    BY <2>1, <2>2, <1>1
<1>5. \A i \in 1 .. n : h[i] = patchObject(h[i - 1], L[i].set)
  <2> TAKE i \in 1 .. n
  <2>1. /\ 1 .. i \in SUBSET (1 .. n) /\ 1 .. i # {}
        /\ Max(1 .. i) = i /\ (1 .. i) \ {i} = 1 .. (i - 1)
    BY <1>1, UpTo
  <2>2. g[1 .. i] = patchObject(g[1 .. (i - 1)], L[i].set)
    BY <2>1, <1>2 DEF IsPatching, n
  <2>3. i \in 0 .. n /\ i - 1 \in 0 .. n
    BY <1>1
  <2> QED
    BY <2>2, <2>3
<1>6. updateConfigFromNetworkAccount(L) = h[n]
  BY <1>1, <1>3
<1> HIDE DEF h
<1> QED
  BY <1>4, <1>5, <1>6 DEF n, IsPatchRun

\* Neither the value k is shipped with nor one that the log gives it is false.
AllTruthy(log, k) ==
  /\ Truthy(defaultConfig[k])
  /\ \A i \in DOMAIN log : k \in DOMAIN log[i].set => Truthy(log[i].set[k])

\* What the loop has after position i.
PatchedUpTo(c, L, i) ==
  /\ c \in [ConfigKeys -> Values]
  /\ \A k \in ConfigKeys :
       /\ (\A y \in 1 .. i : k \notin DOMAIN L[y].set) => c[k] = defaultConfig[k]
       /\ AllTruthy(L, k) => Truthy(c[k]) /\ LastOf(c[k], defaultConfig[k], L, 1 .. i, k)

LEMMA PatchedAtStart ==
  ASSUME NEW L
  PROVE  PatchedUpTo(defaultConfig, L, 0)
<1>1. 1 .. 0 = {}
  OBVIOUS
<1> QED
  BY <1>1, KeysAssumption DEF PatchedUpTo, AllTruthy, LastOf

LEMMA PatchedOneMore ==
  ASSUME NEW L \in Seq(Change), NEW i \in 1 .. Len(L), NEW c, PatchedUpTo(c, L, i - 1)
  PROVE  PatchedUpTo(patchObject(c, L[i].set), L, i)
<1> DEFINE s == L[i].set
           c2 == patchObject(c, s)
<1>1. /\ i \in Int /\ i \in DOMAIN L
      /\ 1 .. i = (1 .. (i - 1)) \cup {i} /\ \A y \in 1 .. (i - 1) : y \in Int /\ y < i
  OBVIOUS
<1>2. s \in Sets /\ c \in [ConfigKeys -> Values]
  <2>1. L[i] \in Change
    OBVIOUS
  <2> QED
    BY <2>1 DEF Change, PatchedUpTo
<1>3. /\ c2 \in [ConfigKeys -> Values]
      /\ \A k \in ConfigKeys : c2[k] =
           IF k \in DOMAIN s /\ Truthy(s[k]) /\ Truthy(c[k]) THEN s[k] ELSE c[k]
  BY <1>2, PatchObjectType
<1> HIDE DEF c2
<1>4. \A k \in ConfigKeys :
        (\A y \in 1 .. i : k \notin DOMAIN L[y].set) => c2[k] = defaultConfig[k]
  BY <1>1, <1>3 DEF PatchedUpTo
<1>5. ASSUME NEW k \in ConfigKeys, AllTruthy(L, k)
      PROVE  Truthy(c2[k]) /\ LastOf(c2[k], defaultConfig[k], L, 1 .. i, k)
  <2>1. Truthy(c[k]) /\ LastOf(c[k], defaultConfig[k], L, 1 .. (i - 1), k)
    BY <1>5 DEF PatchedUpTo
  <2>2. CASE k \in DOMAIN s
    <3>1. Truthy(s[k]) /\ c2[k] = s[k]
      BY <2>1, <2>2, <1>1, <1>3, <1>5 DEF AllTruthy
    <3>2. \A z \in 1 .. i : ~(i < z)
      BY <1>1
    <3>3. LastOf(s[k], defaultConfig[k], L, 1 .. i, k)
      BY <2>2, <3>2, <1>1 DEF LastOf
    <3> QED
      BY <3>1, <3>3
  <2>3. CASE k \notin DOMAIN s
    BY <2>1, <2>3, <1>1, <1>3 DEF LastOf
  <2> QED
    BY <2>2, <2>3
<1> QED
  BY <1>3, <1>4, <1>5 DEF PatchedUpTo, c2

\* The configuration built from a list has what the last change of each key asks for, where
\* nothing is false.
LEMMA BuiltConfigIs ==
  ASSUME NEW L \in Seq(Change)
  PROVE  PatchedUpTo(updateConfigFromNetworkAccount(L), L, Len(L))
<1> DEFINE l == Len(L)
<1>1. l \in Nat
  OBVIOUS
<1>2. PICK h : IsPatchRun(h, L)
  BY PatchSteps
<1> DEFINE T == {i \in Nat : i <= l /\ ~PatchedUpTo(h[i], L, i)}
<1>3. ASSUME NEW i \in T
      PROVE  \E j \in T : j < i
  <2>1. CASE i = 0
    BY <2>1, <1>2, PatchedAtStart DEF IsPatchRun
  <2>2. CASE i # 0
    <3>1. i \in 1 .. l /\ i - 1 \in Nat /\ i - 1 <= l /\ i - 1 < i
      BY <2>2, <1>1
    <3>2. h[i] = patchObject(h[i - 1], L[i].set)
      BY <3>1, <1>2 DEF IsPatchRun
    <3>3. ~PatchedUpTo(h[i - 1], L, i - 1)
      BY <3>1, <3>2, PatchedOneMore
    <3> QED
      BY <3>1, <3>3
  <2> QED
    BY <2>1, <2>2
<1>4. T = {}
  <2> HIDE DEF T
  <2>1. T \subseteq Nat
    BY DEF T
  <2> QED
    BY <1>3, <2>1, NoLeastCounterexample
<1>5. PatchedUpTo(h[l], L, l)
  <2>1. l <= l /\ l \notin T
    BY <1>1, <1>4
  <2> QED
    BY <2>1, <1>1
<1> QED
  BY <1>2, <1>5 DEF IsPatchRun

-----------------------------------------------------------------------------
(* The invariant *)

Message == [change : Change, sent : Nat]

LogTo(msgs, upTo) == [i \in 1 .. upTo |-> msgs[i].change]

NeverSet(log, k) == \A i \in DOMAIN log : k \notin DOMAIN log[i].set

\* The list is what is left of the log, and lacks only what pruning drops.
ListHolds(m, log, now) ==
  m.status = "running" =>
    \E S \in SUBSET DOMAIN log :
      /\ IsExtract(m.list, log, S) /\ Lacks(log, S, now)
      /\ m.settled => S = {i \in DOMAIN log : Kept(log, i, m.at)}

\* What no change that the node has heard of sets has the value it is shipped with.
DefaultsKept(m, log, builtFrom) ==
  /\ \A k \in ConfigKeys :
       NeverSet(builtFrom, k) /\ (m.status = "running" => NeverSet(log, k))
         => m.config[k] = defaultConfig[k]
  /\ \A k \in ParamKeys : NeverSet(log, k) => m.current[k] = defaultParams[k]

\* Change i of the log is the last one that was applied and sets k.
IsLastApplied(m, log, i, k) ==
  /\ k \in DOMAIN log[i].set /\ log[i] \in m.applied
  /\ \A j \in DOMAIN log : i < j /\ log[j] \in m.applied => k \notin DOMAIN log[j].set

AppliedInOrder(m, log) ==
  \A i, j \in DOMAIN log :
    i < j /\ log[j] \in m.applied /\ (\E y \in DOMAIN m.list : log[i] = m.list[y])
      => log[i] \in m.applied

HasApplied(m, log) ==
  /\ m.applied \subseteq {log[i] : i \in DOMAIN log}
  /\ m.status # "running" => m.applied = {} /\ m.current = defaultParams
  /\ m.status = "running" /\ m.settled =>
       \A y \in DOMAIN m.list : m.list[y].cycle <= m.at => m.list[y] \in m.applied

\* The node has what the changes that it has applied ask for.
ValuesHold(m, log) ==
  Orderly(log) =>
    /\ \A k \in ConfigKeys, i \in DOMAIN log :
         IsLastApplied(m, log, i, k) => m.config[k] = log[i].set[k]
    /\ \A k \in ParamKeys, i \in DOMAIN log :
         IsLastApplied(m, log, i, k) => m.current[k] = log[i].set[k]
    /\ AppliedInOrder(m, log)
    /\ \A change \in m.applied :
         "activeVersion" \in DOMAIN change.set => Migrated(change.set) \subseteq m.migrated

StartHolds(m, log) ==
  m.status = "starting" /\ m.settled =>
    \A k \in ConfigKeys : AllTruthy(log, k) => IsLatest(m.config[k], log, k, defaultConfig)

NodeTypes(m, msgs, now) ==
  m \in NodeState /\ m.seen <= Len(msgs) /\ m.built <= Len(msgs) /\ m.at <= now

NodeInv(m, msgs, now) ==
  LET log == LogTo(msgs, m.seen)
  IN /\ NodeTypes(m, msgs, now)
     /\ ListHolds(m, log, now) /\ DefaultsKept(m, log, LogTo(msgs, m.built))
     /\ HasApplied(m, log) /\ ValuesHold(m, log) /\ StartHolds(m, log)

ParametersInv ==
  /\ cycle \in Nat \ {0} /\ messages \in Seq(Message) /\ node \in [Nodes -> NodeState]
  /\ \A n \in Nodes : NodeInv(node[n], messages, cycle)

LEMMA LogToType ==
  ASSUME NEW msgs \in Seq(Message), NEW upTo \in Nat, upTo <= Len(msgs)
  PROVE  /\ LogTo(msgs, upTo) \in Seq(Change) /\ Len(LogTo(msgs, upTo)) = upTo
         /\ DOMAIN LogTo(msgs, upTo) = 1 .. upTo
<1>1. \A i \in 1 .. upTo : msgs[i].change \in Change
  <2> TAKE i \in 1 .. upTo
  <2>1. msgs[i] \in Message
    OBVIOUS
  <2> QED
    BY <2>1 DEF Message
<1>2. LogTo(msgs, upTo) \in [1 .. upTo -> Change]
  BY <1>1 DEF LogTo
<1> QED
  BY <1>2

LEMMA LogToLonger ==
  ASSUME NEW msgs \in Seq(Message), NEW upTo \in Nat, upTo <= Len(msgs), NEW x \in Message
  PROVE  LogTo(Append(msgs, x), upTo) = LogTo(msgs, upTo)
BY DEF LogTo

LEMMA LogToNext ==
  ASSUME NEW msgs \in Seq(Message), NEW upTo \in Nat, upTo < Len(msgs)
  PROVE  /\ msgs[upTo + 1].change \in Change
         /\ LogTo(msgs, upTo + 1) = Append(LogTo(msgs, upTo), msgs[upTo + 1].change)
<1> DEFINE log == LogTo(msgs, upTo)
           c == msgs[upTo + 1].change
<1>1. c \in Change
  <2>1. msgs[upTo + 1] \in Message
    OBVIOUS
  <2> QED
    BY <2>1 DEF Message
<1>2. log \in Seq(Change) /\ Len(log) = upTo
  BY LogToType
<1>3. LogTo(msgs, upTo + 1) \in Seq(Change) /\ Len(LogTo(msgs, upTo + 1)) = upTo + 1
  BY LogToType
<1>4. Append(log, c) \in Seq(Change) /\ Len(Append(log, c)) = upTo + 1
  <2> HIDE DEF log, c
  <2> QED
    BY <1>1, <1>2
<1>5. \A i \in 1 .. (upTo + 1) : Append(log, c)[i] = msgs[i].change
  <2> TAKE i \in 1 .. (upTo + 1)
  <2>1. CASE i = upTo + 1
    <3> HIDE DEF log
    <3> QED
      BY <2>1, <1>1, <1>2
  <2>2. CASE i # upTo + 1
    <3>1. i \in 1 .. upTo
      BY <2>2
    <3>2. log[i] = msgs[i].change
      BY <3>1 DEF LogTo
    <3> HIDE DEF log, c
    <3> QED
      BY <3>1, <3>2, <1>1, <1>2
  <2> QED
    BY <2>1, <2>2
<1>6. \A i \in 1 .. (upTo + 1) : LogTo(msgs, upTo + 1)[i] = Append(log, c)[i]
  BY <1>5 DEF LogTo
<1>7. LogTo(msgs, upTo + 1) = Append(log, c)
  <2> HIDE DEF log, c
  <2> QED
    BY <1>3, <1>4, <1>6, SeqEqual
<1> QED
  BY <1>1, <1>7

\* A list has what its positions in the log have.
LEMMA ExtractContents ==
  ASSUME NEW list, NEW log, NEW S, IsExtract(list, log, S)
  PROVE  /\ \A y \in DOMAIN list : \E p \in S : list[y] = log[p]
         /\ \A p \in S : \E y \in DOMAIN list : list[y] = log[p]
<1>1. PICK from : Embeds(from, list, log, S)
  BY ExtractEmbeds
<1> QED
  BY <1>1 DEF Embeds

\* Change i of the log is the last one that sets k.
SetsLast(log, i, k) ==
  /\ i \in DOMAIN log /\ k \in DOMAIN log[i].set
  /\ \A j \in i + 1 .. Len(log) : k \notin DOMAIN log[j].set

LEMMA LastExists ==
  ASSUME NEW log \in Seq(Change), NEW k, ~NeverSet(log, k)
  PROVE  \E i : SetsLast(log, i, k)
<1> DEFINE n == Len(log)
           T == {i \in 1 .. n : k \in DOMAIN log[i].set}
           i == Max(T)
<1>1. n \in Nat /\ DOMAIN log = 1 .. n
  OBVIOUS
<1>2. T # {} /\ T \in SUBSET (1 .. n)
  BY <1>1 DEF NeverSet
<1>3. i \in T /\ \A x \in T : i >= x
  <2> HIDE DEF T, n
  <2> QED
    BY <1>1, <1>2, PositionsHaveEnds
<1> HIDE DEF i
<1>4. \A j \in i + 1 .. n : j \notin T /\ j \in 1 .. n
  BY <1>1, <1>3
<1> QED
  BY <1>1, <1>3, <1>4 DEF SetsLast

\* Pruning keeps it.
LEMMA LastIsKept ==
  ASSUME NEW log, NEW i, NEW k, SetsLast(log, i, k), NEW now
  PROVE  Kept(log, i, now)
<1>1. Setting(log, i + 1, k) = {}
  BY DEF SetsLast, Setting
<1>2. Cardinality(Setting(log, i + 1, k)) < configChangeMaxChangesToKeep
  BY <1>1, FS_EmptySet, KeepAssumption
<1> QED
  BY <1>2, KeptIs DEF SetsLast

-----------------------------------------------------------------------------
(* Steps of a node keep the invariant *)

LEMMA DownHolds ==
  ASSUME NEW msgs \in Seq(Message), NEW now \in Nat
  PROVE  NodeInv(Down, msgs, now)
<1>1. Down \in NodeState
  BY KeysAssumption DEF Down, NodeState
<1> QED
  BY <1>1 DEF Down, NodeInv, NodeTypes, ListHolds, DefaultsKept, HasApplied, ValuesHold,
              IsLastApplied, AppliedInOrder, StartHolds

\* Another message.
LEMMA SubmitHolds ==
  ASSUME NEW msgs \in Seq(Message), NEW now \in Nat, NEW m, NodeInv(m, msgs, now),
         NEW x \in Message
  PROVE  NodeInv(m, Append(msgs, x), now)
<1> DEFINE longer == Append(msgs, x)
<1>1. NodeTypes(m, msgs, now)
  BY DEF NodeInv
<1>2. m.seen \in Nat /\ m.built \in Nat /\ m.seen <= Len(msgs) /\ m.built <= Len(msgs)
  BY <1>1 DEF NodeTypes, NodeState
<1>3. Len(longer) = Len(msgs) + 1 /\ Len(msgs) \in Nat
  OBVIOUS
<1>4. LogTo(longer, m.seen) = LogTo(msgs, m.seen) /\ LogTo(longer, m.built) = LogTo(msgs, m.built)
  BY <1>2, LogToLonger
<1> HIDE DEF longer
<1>5. NodeTypes(m, longer, now)
  <2> DEFINE s == m.seen
             b == m.built
  <2>1. s <= Len(longer) /\ b <= Len(longer)
    <3>1. s \in Nat /\ b \in Nat /\ s <= Len(msgs) /\ b <= Len(msgs)
      BY <1>2
    <3> HIDE DEF s, b
    <3> QED
      BY <3>1, <1>3
  <2> QED
    BY <1>1, <2>1 DEF NodeTypes
<1> QED
  BY <1>4, <1>5 DEF NodeInv, longer

\* Another cycle.
LEMMA CycleHolds ==
  ASSUME NEW msgs \in Seq(Message), NEW now \in Nat, NEW m, NodeInv(m, msgs, now)
  PROVE  NodeInv(m, msgs, now + 1)
<1> DEFINE log == LogTo(msgs, m.seen)
<1>1. /\ m \in NodeState /\ m.seen \in Nat /\ m.seen <= Len(msgs)
      /\ m.at \in Nat /\ m.at <= now
  BY DEF NodeInv, NodeTypes, NodeState
<1>2. log \in Seq(Change)
  BY <1>1, LogToType
<1>3. NodeTypes(m, msgs, now + 1)
  <2> DEFINE a == m.at
  <2>1. a <= now + 1
    <3>1. a \in Nat /\ a <= now
      BY <1>1
    <3> HIDE DEF a
    <3> QED
      BY <3>1
  <2> QED
    BY <2>1 DEF NodeInv, NodeTypes
<1> HIDE DEF log
<1>4. \A S \in SUBSET DOMAIN log : Lacks(log, S, now) => Lacks(log, S, now + 1)
  BY <1>2, LacksLater
<1>5. ListHolds(m, log, now + 1)
  BY <1>4 DEF NodeInv, ListHolds, log
<1> QED
  BY <1>3, <1>5 DEF NodeInv, log

Pushed(m, change) == [m EXCEPT !.list = Append(@, change), !.seen = @ + 1, !.settled = FALSE]

\* The next message arrives.
LEMMA PushHolds ==
  ASSUME NEW msgs \in Seq(Message), NEW now \in Nat, NEW m, NodeInv(m, msgs, now),
         m.status = "running", m.seen < Len(msgs)
  PROVE  NodeInv(Pushed(m, msgs[m.seen + 1].change), msgs, now)
<1> DEFINE c == msgs[m.seen + 1].change
           log == LogTo(msgs, m.seen)
           m2 == Pushed(m, c)
           n == m.seen
           list == m.list
           longer == Append(log, c)
<1>1. /\ m \in NodeState /\ n \in Nat /\ n <= Len(msgs) /\ list \in Seq(Change)
      /\ m.built <= Len(msgs) /\ m.at <= now
  BY DEF NodeInv, NodeTypes, NodeState
<1>2. c \in Change /\ LogTo(msgs, n + 1) = longer
  BY <1>1, LogToNext
<1>3. log \in Seq(Change) /\ Len(log) = n /\ DOMAIN log = 1 .. n
  BY <1>1, LogToType
<1>4. /\ Append(list, c) \in Seq(Change) /\ longer \in Seq(Change)
      /\ DOMAIN longer = 1 .. (n + 1) /\ Len(longer) = n + 1
      /\ longer[n + 1] = c /\ \A i \in 1 .. n : longer[i] = log[i]
      /\ Len(list) \in Nat /\ DOMAIN list = 1 .. Len(list)
      /\ DOMAIN Append(list, c) = 1 .. (Len(list) + 1)
      /\ Append(list, c)[Len(list) + 1] = c
      /\ \A y \in DOMAIN list : Append(list, c)[y] = list[y]
  <2> HIDE DEF log, c, n, list
  <2> QED
    BY <1>1, <1>2, <1>3
<1>5. /\ m2.status = "running" /\ m2.seen = n + 1 /\ m2.built = m.built
      /\ m2.list = Append(list, c) /\ m2.settled = FALSE /\ m2.at = m.at
      /\ m2.config = m.config /\ m2.current = m.current /\ m2.applied = m.applied
      /\ m2.migrated = m.migrated
  <2> HIDE DEF c
  <2> QED
    BY <1>1 DEF Pushed, NodeState
<1>6. m2 \in NodeState
  <2>1. Append(list, c) \in Seq(Change) /\ n + 1 \in Nat
    BY <1>1, <1>4
  <2> HIDE DEF c
  <2> QED
    BY <1>1, <2>1 DEF Pushed, NodeState
<1>7. /\ ListHolds(m, log, now) /\ DefaultsKept(m, log, LogTo(msgs, m.built))
      /\ HasApplied(m, log) /\ ValuesHold(m, log)
  BY DEF NodeInv
<1>8. n + 1 <= Len(msgs)
  <2>1. Len(msgs) \in Nat /\ n < Len(msgs)
    OBVIOUS
  <2> HIDE DEF n
  <2> QED
    BY <2>1, <1>1
<1> HIDE DEF c, log, m2, n, list, longer
<1>9. NodeTypes(m2, msgs, now)
  BY <1>1, <1>5, <1>6, <1>8 DEF NodeTypes
<1>10. ListHolds(m2, longer, now)
  <2>1. PICK S \in SUBSET DOMAIN log : IsExtract(list, log, S) /\ Lacks(log, S, now)
    BY <1>7 DEF ListHolds, list
  <2>2. IsExtract(Append(list, c), longer, S \cup {n + 1})
    BY <2>1, <1>1, <1>2, <1>3, AppendExtract DEF longer
  <2>3. Lacks(longer, S \cup {n + 1}, now)
    BY <2>1, <1>2, <1>3, LacksWithAnother DEF longer
  <2>4. S \cup {n + 1} \in SUBSET DOMAIN longer
    BY <1>1, <1>3, <1>4
  <2> QED
    BY <2>2, <2>3, <2>4, <1>5 DEF ListHolds
<1>11. DefaultsKept(m2, longer, LogTo(msgs, m.built))
  <2>1. \A k : NeverSet(longer, k) => NeverSet(log, k)
    BY <1>1, <1>3, <1>4 DEF NeverSet
  <2> QED
    BY <2>1, <1>5, <1>7 DEF DefaultsKept
<1>12. {log[i] : i \in DOMAIN log} \subseteq {longer[i] : i \in DOMAIN longer}
  BY <1>1, <1>3, <1>4
<1>13. HasApplied(m2, longer)
  BY <1>12, <1>5, <1>7 DEF HasApplied
<1>14. ASSUME Orderly(longer)
       PROVE  /\ Orderly(log)
              /\ \A i \in DOMAIN longer : longer[i] \in m.applied => i \in DOMAIN log
              /\ \A i \in DOMAIN log : log[i] # c
  <2>1. \A i \in 1 .. n : i \in DOMAIN longer /\ i < n + 1 /\ n + 1 \in DOMAIN longer
    BY <1>1, <1>4
  <2>2. Orderly(log)
    BY <2>1, <1>3, <1>4, <1>14 DEF Orderly
  <2>3. \A i \in DOMAIN log : log[i] # c
    BY <2>1, <1>3, <1>4, <1>14 DEF Orderly
  <2>4. c \notin m.applied
    BY <2>3, <1>7 DEF HasApplied
  <2>5. \A i \in DOMAIN longer : i \in DOMAIN log \/ i = n + 1
    BY <1>1, <1>3, <1>4
  <2> QED
    BY <2>2, <2>3, <2>4, <2>5, <1>4
<1>15. ASSUME Orderly(longer), NEW k, NEW i \in DOMAIN longer, IsLastApplied(m2, longer, i, k)
       PROVE  i \in DOMAIN log /\ longer[i] = log[i] /\ IsLastApplied(m, log, i, k)
  <2>1. i \in DOMAIN log /\ longer[i] = log[i]
    BY <1>14, <1>15, <1>3, <1>4, <1>5 DEF IsLastApplied
  <2>2. \A j \in DOMAIN log : j \in DOMAIN longer /\ longer[j] = log[j]
    BY <1>1, <1>3, <1>4
  <2> QED
    BY <2>1, <2>2, <1>5, <1>15 DEF IsLastApplied
<1>16. ASSUME Orderly(longer)
       PROVE  AppliedInOrder(m2, longer)
  <2> SUFFICES ASSUME NEW i \in DOMAIN longer, NEW j \in DOMAIN longer, i < j,
                      longer[j] \in m.applied,
                      NEW y \in DOMAIN Append(list, c), longer[i] = Append(list, c)[y]
               PROVE  longer[i] \in m.applied
    BY <1>5 DEF AppliedInOrder
  <2>1. j \in DOMAIN log
    BY <1>14, <1>16
  <2>2. i \in DOMAIN log
    BY <2>1, <1>1, <1>3, <1>4
  <2>3. longer[i] = log[i] /\ longer[j] = log[j]
    BY <2>1, <2>2, <1>3, <1>4
  <2>4. y \in DOMAIN list
    <3>1. y \in DOMAIN list \/ y = Len(list) + 1
      BY <1>4
    <3>2. log[i] # c
      BY <2>2, <1>14, <1>16
    <3> QED
      BY <3>1, <3>2, <2>3, <1>4
  <2>5. log[i] = list[y]
    BY <2>3, <2>4, <1>4
  <2>6. AppliedInOrder(m, log)
    BY <1>7, <1>14, <1>16 DEF ValuesHold
  <2> QED
    BY <2>1, <2>2, <2>3, <2>4, <2>5, <2>6 DEF AppliedInOrder, list
<1>17. ValuesHold(m2, longer)
  BY <1>5, <1>7, <1>14, <1>15, <1>16 DEF ValuesHold
<1>18. StartHolds(m2, longer)
  BY <1>5 DEF StartHolds
<1>19. LogTo(msgs, m2.seen) = longer /\ LogTo(msgs, m2.built) = LogTo(msgs, m.built)
  BY <1>2, <1>5
<1>20. NodeInv(m2, msgs, now)
  BY <1>9, <1>10, <1>11, <1>13, <1>17, <1>18, <1>19 DEF NodeInv
<1> QED
  BY <1>20 DEF m2, c, n

\* What applying what is due to node m makes of it; its list is at positions S of the log.
Applies(m2, m, log, S, from, now) ==
  /\ m \in NodeState /\ AppliedUpTo(m2, m, Len(m.list), now)
  /\ log \in Seq(Change) /\ S \in SUBSET DOMAIN log /\ Embeds(from, m.list, log, S)

\* Where nothing is twice, an element of the list is at one place of the log.
InPlace(from, list, log) ==
  /\ Distinct(list)
  /\ \A y \in DOMAIN list : from[y] \in DOMAIN log /\ list[y] = log[from[y]]
  /\ \A y, z \in DOMAIN list : from[y] < from[z] => y < z
  /\ \A i \in DOMAIN log, y \in DOMAIN list : log[i] = list[y] => i = from[y]

LEMMA EmbedsInOrder ==
  ASSUME NEW log \in Seq(Change), NEW list \in Seq(Change), NEW S \in SUBSET DOMAIN log,
         NEW from, Embeds(from, list, log, S), Orderly(log)
  PROVE  InPlace(from, list, log)
<1>1. DOMAIN log \subseteq Int /\ DOMAIN list \subseteq Int
  OBVIOUS
<1>2. /\ \A y \in DOMAIN list : from[y] \in DOMAIN log /\ list[y] = log[from[y]]
      /\ \A y, z \in DOMAIN list : y < z => from[y] < from[z]
  BY DEF Embeds
<1>3. \A i, j \in DOMAIN log : log[i] = log[j] => i = j
  BY <1>1 DEF Orderly
<1>4. Distinct(list)
  <2> SUFFICES ASSUME NEW y \in DOMAIN list, NEW z \in DOMAIN list, y < z, list[y] = list[z]
               PROVE  FALSE
    BY DEF Distinct
  <2>1. from[y] < from[z] /\ from[y] = from[z] /\ from[y] \in Int
    BY <1>1, <1>2, <1>3
  <2> QED
    BY <2>1
<1>5. \A y, z \in DOMAIN list : from[y] < from[z] => y < z
  <2> SUFFICES ASSUME NEW y \in DOMAIN list, NEW z \in DOMAIN list, from[y] < from[z], ~(y < z)
               PROVE  FALSE
    OBVIOUS
  <2>1. y = z \/ z < y
    BY <1>1
  <2>2. from[y] = from[z] \/ from[z] < from[y]
    BY <2>1, <1>2
  <2>3. from[y] \in Int /\ from[z] \in Int
    BY <1>1, <1>2
  <2> QED
    BY <2>2, <2>3
<1> QED
  BY <1>2, <1>3, <1>4, <1>5 DEF InPlace

\* What has been applied then: what was, and what is new.
NowApplied(m2, m, now) ==
  /\ m2 \in NodeState /\ SameFrame(m2, m) /\ m.applied \subseteq m2.applied
  /\ \A change \in m2.applied :
       change \in m.applied \/ \E y \in NewUpTo(m, Len(m.list), now) : change = m.list[y]
  /\ \A y \in DOMAIN m.list : ~(m.list[y].cycle > now) => m.list[y] \in m2.applied
  /\ \A y \in NewUpTo(m, Len(m.list), now) :
       /\ y \in DOMAIN m.list /\ m.list[y] \in m2.applied /\ m.list[y] \notin m.applied
       /\ ~(m.list[y].cycle > now)

LEMMA AppliedThen ==
  ASSUME NEW m2, NEW m, NEW log, NEW S, NEW from, NEW now, Applies(m2, m, log, S, from, now)
  PROVE  NowApplied(m2, m, now)
<1>1. DOMAIN m.list = 1 .. Len(m.list)
  BY DEF Applies, NodeState
<1> QED
  BY <1>1 DEF Applies, NowApplied, AppliedUpTo, ChangesOf, DueUpTo, NewUpTo

\* The value of a key that the last change applied asks for.
ValueOf(v, m, log, i, k) == IsLastApplied(m, log, i, k) => v = log[i].set[k]
TakesNew(v2, v, m, now, k) == LastOf(v2, v, m.list, NewUpTo(m, Len(m.list), now), k)

LEMMA ValueThen ==
  ASSUME NEW m2, NEW m, NEW log, NEW S, NEW from, NEW now, Applies(m2, m, log, S, from, now),
         Orderly(log), AppliedInOrder(m, log), NEW k, NEW i \in DOMAIN log,
         NEW v, NEW v2, TakesNew(v2, v, m, now, k), ValueOf(v, m, log, i, k)
  PROVE  ValueOf(v2, m2, log, i, k)
<1> SUFFICES ASSUME IsLastApplied(m2, log, i, k)
             PROVE  v2 = log[i].set[k]
  BY DEF ValueOf
<1> DEFINE list == m.list
           Q == NewUpTo(m, Len(list), now)
<1>1. /\ m \in NodeState /\ list \in Seq(Change) /\ log \in Seq(Change) /\ S \in SUBSET DOMAIN log
      /\ Embeds(from, list, log, S)
  BY DEF Applies, NodeState
<1>2. /\ m.applied \subseteq m2.applied
      /\ \A change \in m2.applied :
           change \in m.applied \/ \E y \in Q : change = list[y]
      /\ \A y \in Q : y \in DOMAIN list /\ list[y] \in m2.applied /\ list[y] \notin m.applied
  <2>1. NowApplied(m2, m, now)
    BY AppliedThen
  <2> QED
    BY <2>1 DEF NowApplied
<1>3. /\ \A y \in DOMAIN list : from[y] \in DOMAIN log /\ list[y] = log[from[y]]
      /\ \A y, z \in DOMAIN list : from[y] < from[z] => y < z
      /\ \A j \in DOMAIN log, y \in DOMAIN list : log[j] = list[y] => j = from[y]
  <2>1. InPlace(from, list, log)
    <3> HIDE DEF list
    <3> QED
      BY <1>1, EmbedsInOrder
  <2> QED
    BY <2>1 DEF InPlace
<1> HIDE DEF Q, list
<1>4. CASE (\A y \in Q : k \notin DOMAIN list[y].set) /\ v2 = v
  <2>1. log[i] \in m.applied
    BY <1>2, <1>4 DEF IsLastApplied
  <2>2. IsLastApplied(m, log, i, k)
    BY <2>1, <1>2 DEF IsLastApplied
  <2> QED
    BY <2>2, <1>4 DEF ValueOf
<1>5. ASSUME NEW y \in Q, k \in DOMAIN list[y].set, v2 = list[y].set[k],
             \A z \in Q : y < z => k \notin DOMAIN list[z].set
      PROVE  v2 = log[i].set[k]
  <2> DEFINE p == from[y]
  <2>1. y \in DOMAIN list /\ p \in DOMAIN log /\ list[y] = log[p]
    BY <1>2, <1>3
  <2>2. ~(i < p)
    BY <2>1, <1>2, <1>5 DEF IsLastApplied
  <2>3. ~(p < i)
    <3> SUFFICES ASSUME p < i PROVE FALSE
      OBVIOUS
    <3>1. log[i] \notin m.applied
      <4>1. log[p] \notin m.applied
        BY <2>1, <1>2
      <4> QED
        BY <4>1, <2>1 DEF AppliedInOrder, list
    <3>2. PICK z \in Q : log[i] = list[z]
      BY <3>1, <1>2 DEF IsLastApplied
    <3>3. z \in DOMAIN list /\ i = from[z]
      BY <3>2, <1>2, <1>3
    <3>4. y < z
      BY <3>3, <2>1, <1>3
    <3> QED
      BY <3>2, <3>4, <1>5 DEF IsLastApplied
  <2>4. p \in Int /\ i \in Int
    BY <2>1, <1>1
  <2>5. p = i
    <3> HIDE DEF p
    <3> QED
      BY <2>2, <2>3, <2>4
  <2> QED
    BY <2>1, <2>5, <1>5
<1> QED
  BY <1>4, <1>5 DEF TakesNew, LastOf, Q, list

\* Changes are applied in the order of the log.
LEMMA OrderThen ==
  ASSUME NEW m2, NEW m, NEW log, NEW S, NEW from, NEW now \in Nat,
         Applies(m2, m, log, S, from, now), Orderly(log), AppliedInOrder(m, log),
         NEW i \in DOMAIN log, NEW j \in DOMAIN log, i < j, log[j] \in m2.applied,
         NEW y \in DOMAIN m.list, log[i] = m.list[y]
  PROVE  log[i] \in m2.applied
<1>1. /\ m \in NodeState /\ log \in Seq(Change) /\ log[i] \in Change /\ log[j] \in Change
  <2>1. m \in NodeState /\ log \in Seq(Change)
    BY DEF Applies
  <2> QED
    BY <2>1
<1>2. NowApplied(m2, m, now)
  BY AppliedThen
<1>3. CASE log[j] \in m.applied
  <2>1. log[i] \in m.applied
    BY <1>3 DEF AppliedInOrder
  <2> QED
    BY <2>1, <1>2 DEF NowApplied
<1>4. CASE log[j] \notin m.applied
  <2>1. ~(log[j].cycle > now)
    BY <1>2, <1>4 DEF NowApplied
  <2>2. log[i].cycle <= log[j].cycle
    BY DEF Orderly
  <2>3. ~(log[i].cycle > now)
    BY <2>1, <2>2, <1>1 DEF Change
  <2> QED
    BY <2>3, <1>2 DEF NowApplied
<1> QED
  BY <1>3, <1>4

\* So the node has what the changes that it has applied ask for.
LEMMA ValuesThen ==
  ASSUME NEW m2, NEW m, NEW log, NEW S, NEW from, NEW now \in Nat,
         Applies(m2, m, log, S, from, now), ValuesHold(m, log),
         NEW m3, m3.config = m2.config, m3.current = m2.current, m3.applied = m2.applied,
         m3.migrated = m2.migrated,
         \A y \in DOMAIN m3.list : \E z \in DOMAIN m.list : m3.list[y] = m.list[z]
  PROVE  ValuesHold(m3, log)
<1> SUFFICES ASSUME Orderly(log)
             PROVE  ValuesHold(m3, log)
  BY DEF ValuesHold
<1> DEFINE list == m.list
           Q == NewUpTo(m, Len(list), now)
<1>1. /\ m \in NodeState /\ list \in Seq(Change) /\ log \in Seq(Change) /\ S \in SUBSET DOMAIN log
      /\ Embeds(from, list, log, S) /\ AppliedUpTo(m2, m, Len(m.list), now)
  BY DEF Applies, NodeState
<1>2. TakesLast(m2, m, Len(list), now) /\ Migrates(m2, m, Len(list), now)
  <2>1. Distinct(list)
    <3>1. InPlace(from, list, log)
      <4> HIDE DEF list
      <4> QED
        BY <1>1, EmbedsInOrder
    <3> QED
      BY <3>1 DEF InPlace
  <2> QED
    BY <2>1, <1>1 DEF AppliedUpTo
<1>3. AppliedInOrder(m, log)
  BY DEF ValuesHold
<1>4. \A k, i : IsLastApplied(m3, log, i, k) <=> IsLastApplied(m2, log, i, k)
  BY DEF IsLastApplied
<1>5. ASSUME NEW k \in ConfigKeys, NEW i \in DOMAIN log, IsLastApplied(m2, log, i, k)
      PROVE  m2.config[k] = log[i].set[k]
  <2>1. TakesNew(m2.config[k], m.config[k], m, now, k)
    BY <1>2 DEF TakesLast, TakesNew
  <2>2. ValueOf(m.config[k], m, log, i, k)
    BY DEF ValuesHold, ValueOf
  <2>3. ValueOf(m2.config[k], m2, log, i, k)
    BY <2>1, <2>2, <1>3, ValueThen
  <2> QED
    BY <2>3, <1>5 DEF ValueOf
<1>6. ASSUME NEW k \in ParamKeys, NEW i \in DOMAIN log, IsLastApplied(m2, log, i, k)
      PROVE  m2.current[k] = log[i].set[k]
  <2>1. TakesNew(m2.current[k], m.current[k], m, now, k)
    BY <1>2 DEF TakesLast, TakesNew
  <2>2. ValueOf(m.current[k], m, log, i, k)
    BY DEF ValuesHold, ValueOf
  <2>3. ValueOf(m2.current[k], m2, log, i, k)
    BY <2>1, <2>2, <1>3, ValueThen
  <2> QED
    BY <2>3, <1>6 DEF ValueOf
<1>7. AppliedInOrder(m3, log)
  <2> SUFFICES ASSUME NEW i \in DOMAIN log, NEW j \in DOMAIN log, i < j,
                      log[j] \in m2.applied,
                      NEW y \in DOMAIN m3.list, log[i] = m3.list[y]
               PROVE  log[i] \in m2.applied
    BY DEF AppliedInOrder
  <2>1. PICK z \in DOMAIN m.list : log[i] = m.list[z]
    OBVIOUS
  <2> QED
    BY <2>1, <1>3, OrderThen
<1>8. ASSUME NEW change \in m2.applied, "activeVersion" \in DOMAIN change.set
      PROVE  Migrated(change.set) \subseteq m2.migrated
  <2>1. change \in m.applied \/ \E y \in Q : change = list[y]
    <3>1. NowApplied(m2, m, now)
      BY AppliedThen
    <3> QED
      BY <3>1 DEF NowApplied
  <2>2. CASE change \in m.applied
    BY <2>2, <1>2, <1>8 DEF ValuesHold, Migrates
  <2>3. CASE \E y \in Q : change = list[y]
    BY <2>3, <1>2, <1>8 DEF Migrates
  <2> QED
    BY <2>1, <2>2, <2>3
<1> HIDE DEF Q, list
<1> QED
  BY <1>4, <1>5, <1>6, <1>7, <1>8 DEF ValuesHold

Processed(m, now) ==
  [ApplyDue(m, now) EXCEPT !.at = now,
                           !.list = pruneNetworkChangeQueue(ApplyDue(m, now).list, now),
                           !.settled = TRUE]

\* The node processes a cycle.
LEMMA ProcessHolds ==
  ASSUME NEW msgs \in Seq(Message), NEW now \in Nat, NEW m, NodeInv(m, msgs, now),
         m.status = "running"
  PROVE  NodeInv(Processed(m, now), msgs, now)
<1> DEFINE log == LogTo(msgs, m.seen)
           m2 == ApplyDue(m, now)
           m3 == Processed(m, now)
           part == pruneNetworkChangeQueue(m.list, now)
           K == {i \in DOMAIN log : Kept(log, i, now)}
<1>1. /\ m \in NodeState /\ m.seen \in Nat /\ m.seen <= Len(msgs) /\ m.list \in Seq(Change)
      /\ m.built <= Len(msgs)
      /\ ListHolds(m, log, now) /\ DefaultsKept(m, log, LogTo(msgs, m.built))
      /\ HasApplied(m, log) /\ ValuesHold(m, log)
  BY DEF NodeInv, NodeTypes, NodeState
<1>2. log \in Seq(Change)
  BY <1>1, LogToType
<1>3. AppliedUpTo(m2, m, Len(m.list), now)
  BY <1>1, ApplyDueIs
<1> HIDE DEF log, m2
<1>4. PICK S \in SUBSET DOMAIN log : IsExtract(m.list, log, S) /\ Lacks(log, S, now)
  BY <1>1 DEF ListHolds
<1>5. PICK from : Embeds(from, m.list, log, S)
  BY <1>4, ExtractEmbeds
<1>6. Applies(m2, m, log, S, from, now)
  BY <1>1, <1>2, <1>3, <1>5 DEF Applies
<1>7. NowApplied(m2, m, now)
  BY <1>6, AppliedThen
<1>8. part \in Seq(Change) /\ IsExtract(part, log, K)
  BY <1>1, <1>2, <1>4, PruneKeeps, PruneExtract
<1>9. /\ m2 \in NodeState /\ m2.status = m.status /\ m2.seen = m.seen /\ m2.built = m.built
      /\ m2.list = m.list
  BY <1>7 DEF NowApplied, SameFrame
<1>10. /\ m3.status = "running" /\ m3.at = now /\ m3.seen = m.seen /\ m3.built = m.built
       /\ m3.list = part /\ m3.settled = TRUE /\ m3.config = m2.config
       /\ m3.current = m2.current /\ m3.applied = m2.applied /\ m3.migrated = m2.migrated
  BY <1>9 DEF Processed, NodeState, m2
<1>11. m3 \in NodeState
  BY <1>8, <1>9 DEF Processed, NodeState, m2
<1> HIDE DEF m3, part, K
<1>12. NodeTypes(m3, msgs, now)
  BY <1>1, <1>10, <1>11 DEF NodeTypes
<1>13. K \subseteq S
  BY <1>4 DEF Lacks, K
<1>14. \A y \in DOMAIN part : \E z \in DOMAIN m.list : part[y] = m.list[z]
  <2> TAKE y \in DOMAIN part
  <2>1. PICK p \in K : part[y] = log[p]
    BY <1>8, ExtractContents
  <2>2. \E z \in DOMAIN m.list : m.list[z] = log[p]
    BY <1>4, <1>13, ExtractContents
  <2> QED
    BY <2>1, <2>2
<1>15. ListHolds(m3, log, now)
  <2>1. K \in SUBSET DOMAIN log /\ Lacks(log, K, now)
    BY DEF Lacks, K
  <2> QED
    BY <2>1, <1>8, <1>10 DEF ListHolds, K
<1>16. DefaultsKept(m3, log, LogTo(msgs, m3.built))
  <2>1. \A k : NeverSet(log, k) => \A y \in 1 .. Len(m.list) : k \notin DOMAIN m.list[y].set
    <3>1. \A y \in 1 .. Len(m.list) : \E p \in S : m.list[y] = log[p]
      BY <1>1, <1>4, ExtractContents
    <3> QED
      BY <3>1 DEF NeverSet
  <2>2. KeepsUnset(m2, m, Len(m.list))
    BY <1>3 DEF AppliedUpTo
  <2> QED
    BY <2>1, <2>2, <1>1, <1>10 DEF DefaultsKept, KeepsUnset
<1>17. HasApplied(m3, log)
  <2>1. \A y \in DOMAIN m.list : \E i \in DOMAIN log : m.list[y] = log[i]
    BY <1>4, ExtractContents
  <2>2. m2.applied \subseteq {log[i] : i \in DOMAIN log}
    BY <2>1, <1>1, <1>7 DEF NowApplied, HasApplied
  <2>3. \A y \in DOMAIN part : part[y].cycle <= now => part[y] \in m2.applied
    <3> SUFFICES ASSUME NEW y \in DOMAIN part, part[y].cycle <= now
                 PROVE  part[y] \in m2.applied
      OBVIOUS
    <3>1. PICK z \in DOMAIN m.list : part[y] = m.list[z]
      BY <1>14
    <3>2. ~(m.list[z].cycle > now)
      <4>1. m.list[z] \in Change
        BY <1>1
      <4> QED
        BY <4>1, <3>1 DEF Change
    <3> QED
      BY <3>1, <3>2, <1>7 DEF NowApplied
  <2> QED
    BY <2>2, <2>3, <1>10 DEF HasApplied
<1>18. ValuesHold(m3, log)
  BY <1>1, <1>6, <1>10, <1>14, ValuesThen
<1>19. StartHolds(m3, log)
  BY <1>10 DEF StartHolds
<1>20. NodeInv(m3, msgs, now)
  BY <1>10, <1>12, <1>15, <1>16, <1>17, <1>18, <1>19 DEF NodeInv, log
<1> QED
  BY <1>20 DEF m3

Started(m, fetched, now) ==
  [Down EXCEPT !.status = "starting", !.at = now, !.seen = m.seen,
               !.config = IF fetched THEN updateConfigFromNetworkAccount(m.list)
                          ELSE defaultConfig,
               !.built = IF fetched THEN m.seen ELSE 0,
               !.settled = fetched]

\* The configuration built from the list of another node has what was last asked for: the last
\* change of each key is in the list.
LEMMA BuiltIsLatest ==
  ASSUME NEW log \in Seq(Change), NEW list \in Seq(Change), NEW S \in SUBSET DOMAIN log,
         IsExtract(list, log, S), NEW now, Lacks(log, S, now),
         NEW c, PatchedUpTo(c, list, Len(list)), NEW k \in ConfigKeys, AllTruthy(log, k)
  PROVE  IsLatest(c[k], log, k, defaultConfig)
<1>1. PICK from : Embeds(from, list, log, S)
  BY ExtractEmbeds
<1>2. /\ DOMAIN list = 1 .. Len(list) /\ DOMAIN log = 1 .. Len(log) /\ DOMAIN log \subseteq Int
      /\ Len(log) \in Nat /\ DOMAIN list \subseteq Int
  OBVIOUS
<1>3. \A y \in DOMAIN list : from[y] \in S /\ from[y] \in DOMAIN log /\ list[y] = log[from[y]]
  BY <1>1 DEF Embeds
<1>4. AllTruthy(list, k)
  BY <1>3 DEF AllTruthy
<1>5. LastOf(c[k], defaultConfig[k], list, DOMAIN list, k)
  BY <1>2, <1>4 DEF PatchedUpTo
<1>6. \A i : SetsLast(log, i, k) =>
        \E y \in DOMAIN list : from[y] = i /\ k \in DOMAIN list[y].set
  <2> SUFFICES ASSUME NEW i, SetsLast(log, i, k)
               PROVE  \E y \in DOMAIN list : from[y] = i /\ k \in DOMAIN list[y].set
    OBVIOUS
  <2>1. i \in S
    BY LastIsKept DEF Lacks, SetsLast
  <2>2. PICK y \in DOMAIN list : from[y] = i
    BY <2>1, <1>1 DEF Embeds
  <2> QED
    BY <2>2, <1>3 DEF SetsLast
<1>7. CASE NeverSet(log, k)
  <2>1. \A y \in DOMAIN list : k \notin DOMAIN list[y].set
    BY <1>3, <1>7 DEF NeverSet
  <2>2. c[k] = defaultConfig[k]
    BY <2>1, <1>5 DEF LastOf
  <2> QED
    BY <2>2, <1>7 DEF IsLatest, NeverSet
<1>8. CASE ~NeverSet(log, k)
  <2>1. PICK i : SetsLast(log, i, k)
    BY <1>8, LastExists
  <2>2. PICK y \in DOMAIN list : from[y] = i /\ k \in DOMAIN list[y].set
    BY <2>1, <1>6
  <2>3. PICK z \in DOMAIN list : /\ k \in DOMAIN list[z].set /\ c[k] = list[z].set[k]
                                 /\ \A x \in DOMAIN list : z < x => k \notin DOMAIN list[x].set
    BY <2>2, <1>5 DEF LastOf
  <2>4. ~(z < y)
    BY <2>2, <2>3
  <2>5. ~(y < z)
    <3> SUFFICES ASSUME y < z PROVE FALSE
      OBVIOUS
    <3>1. i < from[z] /\ from[z] \in DOMAIN log /\ k \in DOMAIN log[from[z]].set
      BY <2>2, <2>3, <1>1, <1>3 DEF Embeds
    <3>2. i \in Int
      BY <2>1, <1>2 DEF SetsLast
    <3>3. from[z] \in i + 1 .. Len(log)
      <4> DEFINE p == from[z]
      <4>1. i < p /\ p \in 1 .. Len(log)
        BY <3>1, <1>2
      <4> HIDE DEF p
      <4>2. p \in i + 1 .. Len(log)
        BY <4>1, <3>2, <1>2
      <4> QED
        BY <4>2 DEF p
    <3> QED
      BY <3>1, <3>3, <2>1 DEF SetsLast
  <2>6. y = z
    BY <2>4, <2>5, <1>2
  <2>7. c[k] = log[i].set[k]
    BY <2>2, <2>3, <2>6, <1>3
  <2> QED
    BY <2>1, <2>7 DEF SetsLast, IsLatest
<1> QED
  BY <1>7, <1>8

\* A node starts.
LEMMA StartHoldsThen ==
  ASSUME NEW msgs \in Seq(Message), NEW now \in Nat, NEW m, NodeInv(m, msgs, now),
         m.status = "running", NEW fetched \in BOOLEAN
  PROVE  NodeInv(Started(m, fetched, now), msgs, now)
<1> DEFINE log == LogTo(msgs, m.seen)
           c == updateConfigFromNetworkAccount(m.list)
           m2 == Started(m, fetched, now)
<1>1. /\ m \in NodeState /\ m.seen \in Nat /\ m.seen <= Len(msgs) /\ m.list \in Seq(Change)
      /\ ListHolds(m, log, now)
  BY DEF NodeInv, NodeTypes, NodeState
<1>2. log \in Seq(Change)
  BY <1>1, LogToType
<1>3. PatchedUpTo(c, m.list, Len(m.list))
  BY <1>1, BuiltConfigIs
<1>4. c \in [ConfigKeys -> Values] /\ defaultConfig \in [ConfigKeys -> Values]
      /\ defaultParams \in [ParamKeys -> Values]
  BY <1>3, KeysAssumption DEF PatchedUpTo
<1> HIDE DEF log, c
<1>5. PICK S \in SUBSET DOMAIN log : IsExtract(m.list, log, S) /\ Lacks(log, S, now)
  BY <1>1 DEF ListHolds
<1>6. /\ m2.status = "starting" /\ m2.at = now /\ m2.seen = m.seen
      /\ m2.built = (IF fetched THEN m.seen ELSE 0) /\ m2.list = <<>>
      /\ m2.current = defaultParams
      /\ m2.config = (IF fetched THEN c ELSE defaultConfig)
      /\ m2.applied = {} /\ m2.migrated = {} /\ m2.settled = fetched
      /\ m2 \in NodeState
  <2> DEFINE config == IF fetched THEN c ELSE defaultConfig
             built == IF fetched THEN m.seen ELSE 0
             y == [Down EXCEPT !.status = "starting", !.at = now, !.seen = m.seen,
                               !.config = config, !.built = built, !.settled = fetched]
  <2>1. m2 = y
    BY DEF Started, c
  <2>2. config \in [ConfigKeys -> Values] /\ built \in Nat
    BY <1>1, <1>4
  <2>3. /\ Down \in NodeState /\ Down.list = <<>> /\ Down.current = defaultParams
        /\ Down.applied = {} /\ Down.migrated = {}
    BY <1>4 DEF Down, NodeState
  <2> HIDE DEF config, built, m2
  <2>4. y \in NodeState
    BY <1>1, <2>2, <2>3 DEF NodeState
  <2>5. /\ y.status = "starting" /\ y.at = now /\ y.seen = m.seen
        /\ y.built = built /\ y.config = config /\ y.settled = fetched
    BY <2>3 DEF NodeState
  <2>6. /\ y.list = <<>> /\ y.current = defaultParams /\ y.applied = {} /\ y.migrated = {}
    BY <2>3 DEF NodeState
  <2> HIDE DEF y
  <2> QED
    BY <2>1, <2>4, <2>5, <2>6 DEF config, built
<1> HIDE DEF m2
<1>7. \A y \in 1 .. Len(m.list) : \E p \in S : m.list[y] = log[p]
  BY <1>1, <1>5, ExtractContents
<1>8. NodeTypes(m2, msgs, now)
  <2>1. m2.seen <= Len(msgs) /\ m2.built <= Len(msgs)
    BY <1>1, <1>6
  <2>2. m2.at <= now
    BY <1>6
  <2> QED
    BY <2>1, <2>2, <1>6 DEF NodeTypes
<1>9. DefaultsKept(m2, log, LogTo(msgs, m2.built))
  <2>1. ASSUME fetched, NEW k \in ConfigKeys, NeverSet(LogTo(msgs, m2.built), k)
        PROVE  c[k] = defaultConfig[k]
    <3>1. NeverSet(log, k)
      BY <2>1, <1>6 DEF log
    <3>2. \A y \in 1 .. Len(m.list) : k \notin DOMAIN m.list[y].set
      BY <3>1, <1>7 DEF NeverSet
    <3> QED
      BY <3>2, <1>3 DEF PatchedUpTo
  <2> QED
    BY <2>1, <1>6 DEF DefaultsKept
<1>10. ListHolds(m2, log, now) /\ HasApplied(m2, log)
  BY <1>6 DEF ListHolds, HasApplied
<1>11. ValuesHold(m2, log)
  BY <1>6 DEF ValuesHold, IsLastApplied, AppliedInOrder
<1>12. StartHolds(m2, log)
  <2> SUFFICES ASSUME fetched, NEW k \in ConfigKeys, AllTruthy(log, k)
               PROVE  IsLatest(c[k], log, k, defaultConfig)
    BY <1>6 DEF StartHolds
  <2> QED
    BY <1>1, <1>2, <1>3, <1>5, BuiltIsLatest
<1>13. m2.seen = m.seen
  BY <1>6
<1>14. NodeInv(m2, msgs, now)
  BY <1>8, <1>9, <1>10, <1>11, <1>12, <1>13 DEF NodeInv, log
<1> QED
  BY <1>14 DEF m2

Synced(n, m, now) ==
  [n EXCEPT !.status = "running", !.at = now - 1, !.seen = m.seen,
            !.list = m.list, !.current = m.current, !.settled = FALSE]

\* A node that starts gets the network account of another one.
LEMMA SyncHolds ==
  ASSUME NEW msgs \in Seq(Message), NEW now \in Nat \ {0}, NEW n, NodeInv(n, msgs, now),
         n.status = "starting", NEW m, NodeInv(m, msgs, now), m.status = "running"
  PROVE  NodeInv(Synced(n, m, now), msgs, now)
<1> DEFINE log == LogTo(msgs, m.seen)
           n2 == Synced(n, m, now)
<1>1. /\ m \in NodeState /\ n \in NodeState /\ m.seen <= Len(msgs) /\ n.built <= Len(msgs)
      /\ ListHolds(m, log, now) /\ DefaultsKept(m, log, LogTo(msgs, m.built))
      /\ DefaultsKept(n, LogTo(msgs, n.seen), LogTo(msgs, n.built))
      /\ HasApplied(n, LogTo(msgs, n.seen))
  BY DEF NodeInv, NodeTypes
<1>2. n.applied = {}
  BY <1>1 DEF HasApplied
<1>3. /\ n2.status = "running" /\ n2.at = now - 1 /\ n2.seen = m.seen /\ n2.built = n.built
      /\ n2.list = m.list /\ n2.settled = FALSE /\ n2.config = n.config
      /\ n2.current = m.current /\ n2.applied = {} /\ n2.migrated = n.migrated
  BY <1>1, <1>2 DEF Synced, NodeState
<1>4. n2 \in NodeState
  <2>1. now - 1 \in Nat
    OBVIOUS
  <2> QED
    BY <2>1, <1>1 DEF Synced, NodeState
<1> HIDE DEF n2, log
<1>5. NodeTypes(n2, msgs, now)
  <2>1. now - 1 <= now
    OBVIOUS
  <2> QED
    BY <2>1, <1>1, <1>3, <1>4 DEF NodeTypes
<1>6. ListHolds(n2, log, now)
  BY <1>1, <1>3 DEF ListHolds
<1>7. DefaultsKept(n2, log, LogTo(msgs, n2.built))
  BY <1>1, <1>3 DEF DefaultsKept
<1>8. HasApplied(n2, log) /\ StartHolds(n2, log)
  BY <1>3 DEF HasApplied, StartHolds
<1>9. ValuesHold(n2, log)
  BY <1>3 DEF ValuesHold, IsLastApplied, AppliedInOrder
<1>10. NodeInv(n2, msgs, now)
  BY <1>3, <1>5, <1>6, <1>7, <1>8, <1>9 DEF NodeInv, log
<1> QED
  BY <1>10 DEF n2

LEMMA InitHolds == ParametersInit => ParametersInv
<1> SUFFICES ASSUME ParametersInit
             PROVE  ParametersInv
  OBVIOUS
<1>1. PICK list \in FirstLists :
        /\ messages = [i \in DOMAIN list |-> [change |-> list[i], sent |-> 0]]
        /\ node = [n \in Nodes |-> [Down EXCEPT !.status = "running", !.at = 1, !.list = list,
                                                !.seen = Len(list)]]
  BY DEF ParametersInit
<1> DEFINE m == [Down EXCEPT !.status = "running", !.at = 1, !.list = list, !.seen = Len(list)]
<1>2. list \in Seq(Change)
  <2>1. CASE list = <<>>
    BY <2>1
  <2>2. CASE list = <<[cycle |-> 1, set |-> defaultConfig]>>
    <3>1. [cycle |-> 1, set |-> defaultConfig] \in Change
      BY DEF Change, Sets
    <3> QED
      BY <2>2, <3>1
  <2> QED
    BY <2>1, <2>2 DEF FirstLists
<1>3. Len(list) \in Nat /\ DOMAIN list = 1 .. Len(list) /\ \A i \in DOMAIN list : list[i] \in Change
  BY <1>2
<1>4. messages \in Seq(Message) /\ Len(messages) = Len(list)
  <2>1. messages \in [1 .. Len(list) -> Message]
    BY <1>1, <1>3 DEF Message
  <2> QED
    BY <2>1, <1>3
<1>5. LogTo(messages, Len(list)) = list
  <2>1. LogTo(messages, Len(list)) = [i \in DOMAIN list |-> list[i]]
    BY <1>1, <1>3 DEF LogTo
  <2> QED
    BY <2>1, <1>2
<1>6. Down \in NodeState /\ Down.config = defaultConfig /\ Down.current = defaultParams
      /\ Down.applied = {} /\ Down.built = 0 /\ Down.settled = FALSE
  BY KeysAssumption DEF Down, NodeState
<1>7. m \in NodeState
  BY <1>2, <1>3, <1>6 DEF NodeState
<1>8. /\ m.status = "running" /\ m.at = 1 /\ m.list = list /\ m.seen = Len(list)
      /\ m.config = defaultConfig /\ m.current = defaultParams
      /\ m.applied = {} /\ m.built = 0 /\ m.settled = FALSE
  BY <1>6 DEF NodeState
<1> HIDE DEF m
<1>9. NodeTypes(m, messages, 1)
  BY <1>3, <1>4, <1>7, <1>8 DEF NodeTypes
<1>10. ListHolds(m, list, 1)
  <2> DEFINE from == [i \in DOMAIN list |-> i]
  <2>1. Embeds(from, list, list, DOMAIN list)
    BY DEF Embeds
  <2>2. IsExtract(list, list, DOMAIN list) /\ Lacks(list, DOMAIN list, 1)
    BY <2>1, ExtractEmbeds DEF Lacks
  <2> QED
    BY <2>2, <1>8 DEF ListHolds
<1>11. DefaultsKept(m, list, LogTo(messages, m.built)) /\ HasApplied(m, list)
  BY <1>8 DEF DefaultsKept, HasApplied
<1>12. ValuesHold(m, list) /\ StartHolds(m, list)
  BY <1>8 DEF ValuesHold, IsLastApplied, AppliedInOrder, StartHolds
<1>13. NodeInv(m, messages, 1)
  BY <1>5, <1>8, <1>9, <1>10, <1>11, <1>12 DEF NodeInv
<1>14. cycle = 1 /\ node = [n \in Nodes |-> m]
  BY <1>1 DEF ParametersInit, m
<1> QED
  BY <1>4, <1>7, <1>13, <1>14 DEF ParametersInv

\* A step that gives node n another state, and leaves the others, keeps the invariant if the
\* new state has it.
LEMMA OneNodeHolds ==
  ASSUME ParametersInv, NEW n \in Nodes, NEW m, NodeInv(m, messages, cycle),
         node' = [node EXCEPT ![n] = m], UNCHANGED <<cycle, messages>>
  PROVE  ParametersInv'
<1>1. m \in NodeState
  BY DEF NodeInv, NodeTypes
<1>2. \A x \in Nodes : node'[x] = IF x = n THEN m ELSE node[x]
  BY DEF ParametersInv
<1>3. node' \in [Nodes -> NodeState]
  BY <1>1 DEF ParametersInv
<1>4. \A x \in Nodes : NodeInv(node'[x], messages, cycle)
  BY <1>2 DEF ParametersInv
<1>5. \A x \in Nodes : NodeInv(node[x], messages, cycle)'
  BY <1>4
<1> QED
  BY <1>3, <1>5 DEF ParametersInv

LEMMA StepHolds == ParametersInv /\ [ParametersNext]_parametersVars => ParametersInv'
<1> SUFFICES ASSUME ParametersInv, [ParametersNext]_parametersVars
             PROVE  ParametersInv'
  OBVIOUS
<1>1. /\ cycle \in Nat \ {0} /\ messages \in Seq(Message) /\ node \in [Nodes -> NodeState]
      /\ \A n \in Nodes : NodeInv(node[n], messages, cycle)
  BY DEF ParametersInv
<1>2. CASE UNCHANGED parametersVars
  BY <1>2 DEF parametersVars, ParametersInv
<1>3. ASSUME NEW s \in Settings, NEW when \in ExplicitCycles \cup {-1},
             ChangeConfig(s, when) \/ ChangeNetworkParam(s, when)
      PROVE  ParametersInv'
  <2>1. PICK start \in Int : Submit(s, start)
    <3>1. when \in Int /\ cycle \in Int
      BY <1>1, KeepAssumption
    <3> QED
      BY <3>1, <1>3 DEF ChangeConfig, ChangeNetworkParam
  <2> DEFINE x == [change |-> [cycle |-> start, set |-> s], sent |-> cycle]
  <2>2. x \in Message
    BY <1>1 DEF Message, Change, Sets
  <2>3. messages' = Append(messages, x) /\ UNCHANGED <<cycle, node>>
    BY <2>1 DEF Submit
  <2> HIDE DEF x
  <2>4. Append(messages, x) \in Seq(Message)
    BY <1>1, <2>2
  <2>5. \A n \in Nodes : NodeInv(node[n], Append(messages, x), cycle)
    BY <1>1, <2>2, SubmitHolds
  <2>6. \A n \in Nodes : NodeInv(node[n], messages, cycle)'
    BY <2>3, <2>5
  <2> QED
    BY <1>1, <2>3, <2>4, <2>6 DEF ParametersInv
<1>4. CASE CycleBegins
  <2>1. cycle' = cycle + 1 /\ UNCHANGED <<messages, node>>
    BY <1>4 DEF CycleBegins
  <2>2. \A n \in Nodes : NodeInv(node[n], messages, cycle + 1)
    BY <1>1, CycleHolds
  <2>3. \A n \in Nodes : NodeInv(node[n], messages, cycle)'
    BY <2>1, <2>2
  <2>4. cycle + 1 \in Nat \ {0}
    BY <1>1
  <2> QED
    BY <1>1, <2>1, <2>3, <2>4 DEF ParametersInv
<1>5. ASSUME NEW n \in Nodes, ApplyChangeConfig(n) \/ ApplyNetworkParam(n)
      PROVE  ParametersInv'
  <2>1. PICK keys : Push(n, keys)
    BY <1>5 DEF ApplyChangeConfig, ApplyNetworkParam
  <2> DEFINE m == Pushed(node[n], messages[node[n].seen + 1].change)
  <2>2. /\ node[n].status = "running" /\ node[n].seen < Len(messages)
        /\ node' = [node EXCEPT ![n] = m] /\ UNCHANGED <<cycle, messages>>
    BY <2>1, <1>1 DEF Push, Running, Pushed
  <2>3. NodeInv(m, messages, cycle)
    BY <2>2, <1>1, PushHolds
  <2> HIDE DEF m
  <2> QED
    BY <2>2, <2>3, OneNodeHolds
<1>6. ASSUME NEW n \in Nodes, ProcessCycle(n)
      PROVE  ParametersInv'
  <2> DEFINE m == Processed(node[n], cycle)
  <2>1. /\ node[n].status = "running"
        /\ node' = [node EXCEPT ![n] = m] /\ UNCHANGED <<cycle, messages>>
    BY <1>6 DEF ProcessCycle, Running, Processed
  <2>2. NodeInv(m, messages, cycle)
    BY <2>1, <1>1, ProcessHolds
  <2> HIDE DEF m
  <2> QED
    BY <2>1, <2>2, OneNodeHolds
<1>7. ASSUME NEW n \in Nodes, NodeEnds(n)
      PROVE  ParametersInv'
  <2>1. NodeInv(Down, messages, cycle)
    BY <1>1, DownHolds
  <2> QED
    BY <2>1, <1>7, OneNodeHolds DEF NodeEnds
<1>8. ASSUME NEW n \in Nodes, Start(n)
      PROVE  ParametersInv'
  <2>1. PICK m \in Nodes, fetched \in BOOLEAN :
          /\ node[m].status = "running"
          /\ node' = [node EXCEPT ![n] = Started(node[m], fetched, cycle)]
          /\ UNCHANGED <<cycle, messages>>
    BY <1>8 DEF Start, Running, Started
  <2>2. NodeInv(Started(node[m], fetched, cycle), messages, cycle)
    BY <2>1, <1>1, StartHoldsThen
  <2> QED
    BY <2>1, <2>2, OneNodeHolds
<1>9. ASSUME NEW n \in Nodes, SyncAccount(n)
      PROVE  ParametersInv'
  <2>1. PICK m \in Nodes :
          /\ node[n].status = "starting" /\ node[m].status = "running"
          /\ node' = [node EXCEPT ![n] = Synced(node[n], node[m], cycle)]
          /\ UNCHANGED <<cycle, messages>>
    BY <1>9, <1>1 DEF SyncAccount, Running, Synced
  <2>2. NodeInv(Synced(node[n], node[m], cycle), messages, cycle)
    BY <2>1, <1>1, SyncHolds
  <2> QED
    BY <2>1, <2>2, OneNodeHolds
<1>10. CASE ParametersNext
  BY <1>10, <1>3, <1>4, <1>5, <1>6, <1>7, <1>8, <1>9 DEF ParametersNext
<1> QED
  BY <1>2, <1>10

LEMMA ParametersInvariant == ParametersSpec => []ParametersInv
BY InitHolds, StepHolds, PTL DEF ParametersSpec

-----------------------------------------------------------------------------
(* Theorems *)

LEMMA LogIs ==
  ASSUME ParametersInv, NEW n \in Nodes
  PROVE  /\ Log(n) = LogTo(messages, node[n].seen) /\ Log(n) \in Seq(Change)
         /\ NodeInv(node[n], messages, cycle)
<1>1. NodeInv(node[n], messages, cycle) /\ messages \in Seq(Message)
  BY DEF ParametersInv
<1>2. node[n].seen \in Nat /\ node[n].seen <= Len(messages)
  BY <1>1 DEF NodeInv, NodeTypes, NodeState
<1>3. LogTo(messages, node[n].seen) \in Seq(Change)
  BY <1>1, <1>2, LogToType
<1>4. Log(n) = LogTo(messages, node[n].seen)
  BY DEF Log, LogTo
<1> QED
  BY <1>1, <1>3, <1>4

\* The list of a node that has pruned it is what pruning leaves of all the changes that the
\* node, and those it has synced from, have appended: pruneNetworkChangeQueue drops the same
\* changes on all nodes, however late they joined or pruned.
THEOREM ListsStayEqual == ParametersSpec => []ListsAgree
<1>1. ParametersInv => ListsAgree
  <2> SUFFICES ASSUME ParametersInv, NEW n \in Nodes, Running(n), node[n].settled
               PROVE  IsExtract(node[n].list, Log(n),
                                {i \in DOMAIN Log(n) : Kept(Log(n), i, node[n].at)})
    BY DEF ListsAgree
  <2>1. ListHolds(node[n], Log(n), cycle)
    BY LogIs DEF NodeInv
  <2> QED
    BY <2>1 DEF ListHolds, Running
<1> QED
  BY <1>1, ParametersInvariant, PTL

\* The last change of key k in an orderly log has been applied by a node that has processed its
\* cycle, and it is the last one applied.
LEMMA LastIsApplied ==
  ASSUME NEW m \in NodeState, NEW log \in Seq(Change), NEW now, ListHolds(m, log, now),
         HasApplied(m, log), m.status = "running", m.settled,
         \A i \in DOMAIN log : log[i].cycle <= m.at, NEW i, NEW k, SetsLast(log, i, k)
  PROVE  IsLastApplied(m, log, i, k)
<1>1. i \in {j \in DOMAIN log : Kept(log, j, m.at)}
  BY LastIsKept DEF SetsLast
<1>2. IsExtract(m.list, log, {j \in DOMAIN log : Kept(log, j, m.at)})
  BY DEF ListHolds
<1>3. PICK y \in DOMAIN m.list : m.list[y] = log[i]
  BY <1>1, <1>2, ExtractContents
<1>4. log[i] \in m.applied
  BY <1>1, <1>3 DEF HasApplied
<1>5. \A j \in DOMAIN log : i < j => j \in i + 1 .. Len(log)
  BY <1>1
<1> QED
  BY <1>4, <1>5 DEF SetsLast, IsLastApplied

\* Whatever list a node began with, when the cycles of all changes have come it has the values
\* that were last asked for, and the migrations of its version have run.
THEOREM ConfigStaysEqual == ParametersSpec => []ConfigAgrees
<1>1. ParametersInv => ConfigAgrees
  <2> SUFFICES ASSUME ParametersInv, NEW n \in Nodes, Running(n), node[n].settled,
                      Orderly(Log(n)), \A i \in DOMAIN Log(n) : Log(n)[i].cycle <= node[n].at
               PROVE  /\ node[n].built <= node[n].seen =>
                           \A k \in ConfigKeys : IsLatest(node[n].config[k], Log(n), k, defaultConfig)
                      /\ \A k \in ParamKeys : IsLatest(node[n].current[k], Log(n), k, defaultParams)
                      /\ (\E i \in DOMAIN Log(n) : "activeVersion" \in DOMAIN Log(n)[i].set) =>
                           {m \in Migrations : m <= node[n].current["activeVersion"]}
                             \subseteq node[n].migrated
    BY DEF ConfigAgrees
  <2> DEFINE log == Log(n)
             m == node[n]
  <2>1. /\ m \in NodeState /\ log \in Seq(Change) /\ ListHolds(m, log, cycle)
        /\ DefaultsKept(m, log, LogTo(messages, m.built)) /\ HasApplied(m, log)
        /\ ValuesHold(m, log)
    BY LogIs DEF NodeInv, NodeTypes
  <2>2. m.status = "running" /\ m.settled /\ Orderly(log) /\ \A i \in DOMAIN log : log[i].cycle <= m.at
    BY DEF Running
  <2>3. log = LogTo(messages, m.seen)
    BY LogIs
  <2>4. m.seen \in Nat /\ m.built \in Nat
    BY <2>1 DEF NodeState
  <2> HIDE DEF log, m
  <2>5. \A i, k : SetsLast(log, i, k) => IsLastApplied(m, log, i, k)
    BY <2>1, <2>2, LastIsApplied
  <2>6. ASSUME m.built <= m.seen, NEW k \in ConfigKeys
        PROVE  IsLatest(m.config[k], log, k, defaultConfig)
    <3>1. CASE NeverSet(log, k)
      <4>1. NeverSet(LogTo(messages, m.built), k)
        <5> DEFINE b == m.built
                   s == m.seen
        <5>1. b \in Nat /\ s \in Nat /\ b <= s
          BY <2>4, <2>6
        <5> HIDE DEF b, s
        <5>2. 1 .. b \subseteq 1 .. s
          BY <5>1
        <5>3. \A i \in 1 .. s : k \notin DOMAIN messages[i].change.set
          BY <3>1, <2>3 DEF NeverSet, LogTo, s
        <5> QED
          BY <5>2, <5>3 DEF NeverSet, LogTo, b
      <4>2. m.config[k] = defaultConfig[k]
        BY <4>1, <3>1, <2>1 DEF DefaultsKept
      <4> QED
        BY <4>2, <3>1 DEF IsLatest, NeverSet
    <3>2. CASE ~NeverSet(log, k)
      <4>1. PICK i : SetsLast(log, i, k)
        BY <3>2, <2>1, LastExists
      <4>2. m.config[k] = log[i].set[k]
        BY <4>1, <2>1, <2>2, <2>5 DEF ValuesHold, SetsLast
      <4> QED
        BY <4>1, <4>2 DEF IsLatest, SetsLast
    <3> QED
      BY <3>1, <3>2
  <2>7. ASSUME NEW k \in ParamKeys
        PROVE  /\ IsLatest(m.current[k], log, k, defaultParams)
               /\ \A i : SetsLast(log, i, k) => m.current[k] = log[i].set[k]
    <3>1. \A i : SetsLast(log, i, k) => m.current[k] = log[i].set[k]
      BY <2>1, <2>2, <2>5 DEF ValuesHold, SetsLast
    <3>2. CASE NeverSet(log, k)
      <4>1. m.current[k] = defaultParams[k]
        BY <3>2, <2>1 DEF DefaultsKept
      <4> QED
        BY <4>1, <3>1, <3>2 DEF IsLatest, NeverSet
    <3>3. CASE ~NeverSet(log, k)
      <4>1. PICK i : SetsLast(log, i, k)
        BY <3>3, <2>1, LastExists
      <4> QED
        BY <4>1, <3>1 DEF IsLatest, SetsLast
    <3> QED
      BY <3>2, <3>3
  <2>8. ASSUME \E i \in DOMAIN log : "activeVersion" \in DOMAIN log[i].set
        PROVE  {x \in Migrations : x <= m.current["activeVersion"]} \subseteq m.migrated
    <3>1. PICK i : SetsLast(log, i, "activeVersion")
      BY <2>1, <2>8, LastExists DEF NeverSet
    <3>2. log[i] \in m.applied /\ "activeVersion" \in DOMAIN log[i].set
      BY <3>1, <2>5 DEF IsLastApplied
    <3>3. Migrated(log[i].set) \subseteq m.migrated
      BY <3>2, <2>1, <2>2 DEF ValuesHold
    <3>4. m.current["activeVersion"] = log[i].set["activeVersion"]
      BY <3>1, <2>7, KeysAssumption
    <3> QED
      BY <3>3, <3>4 DEF Migrated
  <2> QED
    BY <2>6, <2>7, <2>8 DEF log, m
<1> QED
  BY <1>1, ParametersInvariant, PTL

\* A node that starts begins with the values that were last asked for, where none is false: the
\* list it is given has lost no last change of a key.
THEOREM StartIsLatest == ParametersSpec => []StartsWithLatest
<1>1. ParametersInv => StartsWithLatest
  <2> SUFFICES ASSUME ParametersInv, NEW n \in Nodes, node[n].status = "starting", node[n].settled,
                      NEW k \in ConfigKeys, AllTruthy(Log(n), k)
               PROVE  IsLatest(node[n].config[k], Log(n), k, defaultConfig)
    BY DEF StartsWithLatest, AllTruthy
  <2>1. StartHolds(node[n], Log(n))
    BY LogIs DEF NodeInv
  <2> QED
    BY <2>1 DEF StartHolds
<1> QED
  BY <1>1, ParametersInvariant, PTL

-----------------------------------------------------------------------------
(***************************************************************************)
(* JoinReadiness: the certificate of a node that says it is ready is good  *)
(* for long enough and backed by the stake of its operator, for any        *)
(* durations.                                                              *)
(***************************************************************************)

\* Applying a transaction in flight shortens no certificate time.
NoneShortens == \A age \in inFlight : certLeft <= CertDuration - age

\* A certificate that is good is one of the operator, for no longer than its time.
Backed == stakeCert # None /\ stakeCert >= 1 => staked /\ stakeCert <= certLeft

\* What a ready node relies on is left until it is asked again, also when a
\* cycle has begun since.
Fresh ==
  pc = "idle" =>
    /\ result = "cert" => stakeCert # None /\ stakeCert >= IF called THEN 3 ELSE 2
    /\ result = "admin" => adminCert.left >= IF called THEN 1 ELSE 0

JoinInv == TypeOK /\ NoneShortens /\ Backed /\ Fresh

-----------------------------------------------------------------------------
(* A call and its requests.                                                *)

\* A certificate of which less than 70 % is over has three cycles left.
LEMMA NotExpiringSoon ==
  ASSUME NEW left \in Left, ~ExpiringSoon(left)
  PROVE  left >= 3
BY DurationAssumption, MarginAssumption DEF ExpiringSoon, Left, Expired

\* What a call finds out without waiting.
Concluded ==
  /\ pc' \in {"idle", "fetch", "first", "renew", "soon", "query", "newSoon", "stopped"}
  /\ pc' = "first" => setTime' = None
  /\ pc' \in {"renew", "soon", "query", "newSoon"} => setTime' # None
  /\ pc' = "soon" => stakeCert' # None
  /\ pc' \in {"query", "newSoon"} => stakeCert' = None
  /\ result' \in {"no", "admin", "open", "cert"}
  /\ pc' = "idle" =>
       /\ result' = "cert" => stakeCert' # None /\ stakeCert' >= 3
       /\ result' = "admin" => adminCert'.left >= 1

\* Evaluate ends in one of its places with the marks that fit it.
LEMMA EvaluateConcludes ==
  ASSUME TypeOK, NEW seen, Evaluate(seen), UNCHANGED <<certVars, adminCert>>
  PROVE  Concluded
<1>1. CASE seen.old
  BY <1>1 DEF Evaluate, Concluded, TypeOK
<1>2. CASE Finish("admin") /\ AdminCertGood
  BY <1>2 DEF Finish, AdminCertGood, Concluded, TypeOK, Left, Expired
<1>3. CASE Finish("open") \/ Finish("no")
  BY <1>3 DEF Finish, Concluded
<1>4. CASE KeepCertificate
  <2>1. stakeCert # None /\ ~ExpiringSoon(stakeCert) => stakeCert >= 3
    BY NotExpiringSoon DEF TypeOK
  <2> QED
    BY <1>4, <2>1 DEF KeepCertificate, Await, Finish, Concluded, certVars
<1> QED
  BY <1>1, <1>2, <1>3, <1>4 DEF Evaluate, Finish

\* The node's steps within a call keep the invariant when they conclude.
LEMMA ConcludedKeeps ==
  ASSUME JoinInv, Concluded, UNCHANGED <<ledgerVars, networkVars, certVars, adminCert>>,
         cached' \in [old : BOOLEAN, left : 0..CacheDuration],
         ticked' \in {0, 1}, called' \in BOOLEAN
  PROVE  JoinInv'
<1>1. TypeOK'
  BY DEF JoinInv, TypeOK, Concluded, ledgerVars, networkVars, certVars
<1>2. NoneShortens' /\ Backed'
  BY DEF JoinInv, NoneShortens, Backed, ledgerVars, certVars
<1>3. Fresh'
  BY <1>1 DEF Fresh, Concluded, TypeOK, Left, Expired
<1> QED
  BY <1>1, <1>2, <1>3 DEF JoinInv

\* A transaction that was just made gives the longest time there is.
LEMMA NewestShortensNothing ==
  ASSUME TypeOK, NoneShortens, inFlight' \subseteq inFlight \cup {0}, certLeft' = certLeft
  PROVE  NoneShortens'
<1> SUFFICES ASSUME NEW age \in inFlight' PROVE certLeft <= CertDuration - age
  BY DEF NoneShortens
<1>1. CASE age \in inFlight
  BY <1>1 DEF NoneShortens
<1>2. CASE age = 0
  BY <1>2, DurationAssumption DEF TypeOK, Left
<1> QED
  BY <1>1, <1>2

\* The node's own steps preserve the invariant.
LEMMA NodeKeeps ==
  ASSUME JoinInv, Node
  PROVE  JoinInv'
<1>1. TypeOK /\ cached \in [old : BOOLEAN, left : 0..CacheDuration]
  BY DEF JoinInv, TypeOK
<1>2. CASE Call
  <2>1. CASE Evaluate(cached)
    BY <1>1, <1>2, <2>1, EvaluateConcludes, ConcludedKeeps DEF Call
  <2>2. CASE Await("fetch")
    <3>1. Concluded
      BY <2>2 DEF Await, Concluded
    <3> QED
      BY <1>1, <1>2, <3>1, ConcludedKeeps DEF Call
  <2> QED
    BY <1>2, <2>1, <2>2 DEF Call
<1>3. CASE FetchSucceeds
  <2>1. AccountFetched \in [old : BOOLEAN, left : 0..CacheDuration]
    BY <1>1, DurationAssumption DEF AccountFetched, TypeOK
  <2>2. Concluded
    BY <1>1, <1>3, EvaluateConcludes DEF FetchSucceeds
  <2> QED
    BY <1>1, <1>3, <2>1, <2>2, ConcludedKeeps DEF FetchSucceeds, TypeOK
<1>4. CASE FetchFails
  <2>1. Concluded
    BY <1>4 DEF FetchFails, Finish, Concluded
  <2> QED
    BY <1>1, <1>4, <2>1, ConcludedKeeps DEF FetchFails, TypeOK
<1>5. CASE InjectFails
  <2>1. inFlight' \subseteq inFlight \cup {0} /\ pc' = "idle" /\ result' = "no"
    BY <1>5 DEF InjectFails, Finish
  <2>2. TypeOK'
    BY <1>1, <1>5, <2>1, DurationAssumption
    DEF InjectFails, TypeOK, networkVars, certVars
  <2>3. NoneShortens'
    BY <1>1, <1>5, <2>1, NewestShortensNothing DEF InjectFails, JoinInv
  <2>4. Backed' /\ Fresh'
    BY <1>5, <2>1 DEF InjectFails, JoinInv, Backed, Fresh, certVars
  <2> QED
    BY <2>2, <2>3, <2>4 DEF JoinInv
<1>6. CASE InjectSucceeds
  <2>1. TypeOK'
    BY <1>1, <1>6, DurationAssumption DEF InjectSucceeds, Noted, Finish, TypeOK, networkVars
  <2>2. NoneShortens'
    BY <1>1, <1>6, NewestShortensNothing DEF InjectSucceeds, JoinInv
  <2>3. Backed' /\ Fresh'
    BY <1>6 DEF InjectSucceeds, Finish, JoinInv, Backed, Fresh
  <2> QED
    BY <2>1, <2>2, <2>3 DEF JoinInv
<1>7. CASE QueryFails
  <2>1. TypeOK'
    BY <1>1, <1>7 DEF QueryFails, Finish, TypeOK, ledgerVars, networkVars
  <2>2. NoneShortens' /\ Backed' /\ Fresh'
    BY <1>7 DEF QueryFails, Finish, JoinInv, NoneShortens, Backed, Fresh, ledgerVars
  <2> QED
    BY <2>1, <2>2 DEF JoinInv
<1>8. CASE QuerySucceeds
  <2>1. certLeft \in Left /\ staked /\ UNCHANGED <<ledgerVars, networkVars>>
    BY <1>1, <1>8 DEF QuerySucceeds, TypeOK
  <2>2. CASE stakeCert' = None /\ Await("newSoon")
    <3>1. TypeOK'
      BY <1>1, <1>8, <2>1, <2>2
      DEF QuerySucceeds, Await, TypeOK, ledgerVars, networkVars
    <3> QED
      BY <2>1, <2>2, <3>1 DEF Await, JoinInv, NoneShortens, Backed, Fresh, ledgerVars
  <2>3. CASE ~ExpiringSoon(certLeft) /\ stakeCert' = certLeft /\ Finish("cert")
    <3>1. certLeft >= 3
      BY <2>1, <2>3, NotExpiringSoon
    <3>2. TypeOK'
      BY <1>1, <1>8, <2>1, <2>3
      DEF QuerySucceeds, Finish, TypeOK, ledgerVars, networkVars
    <3>3. Fresh'
      BY <2>1, <2>3, <3>1, DurationAssumption DEF Finish, Fresh, Left, Expired
    <3>4. NoneShortens' /\ Backed'
      BY <2>1, <2>3 DEF JoinInv, NoneShortens, Backed, ledgerVars, Left, Expired
    <3> QED
      BY <3>2, <3>3, <3>4 DEF JoinInv
  <2> QED
    BY <1>8, <2>2, <2>3 DEF QuerySucceeds, UseCertificate
<1> QED
  BY <1>2, <1>3, <1>4, <1>5, <1>6, <1>7, <1>8 DEF Node

-----------------------------------------------------------------------------
(* The ledger, the network and the cycles.                                 *)

\* What others do leaves what the node relies on.
LEMMA OthersKeep ==
  ASSUME JoinInv, NEW golden \in BOOLEAN,
         PutAdminCertificate(golden) \/ Stake \/ Unstake \/ SetCertTime \/ DropTx
           \/ RaiseMinVersion
  PROVE  JoinInv'
<1>1. TypeOK
  BY DEF JoinInv
<1>2. CASE PutAdminCertificate(golden)
  <2>1. TypeOK'
    BY <1>1, <1>2, DurationAssumption
    DEF PutAdminCertificate, TypeOK, ledgerVars, networkVars, certVars, callVars, Expired
  <2>2. Fresh'
    BY <1>2, DurationAssumption DEF PutAdminCertificate, JoinInv, Fresh, certVars, callVars
  <2> QED
    BY <1>2, <2>1, <2>2
    DEF PutAdminCertificate, JoinInv, NoneShortens, Backed, ledgerVars, certVars
<1>3. CASE Stake
  BY <1>1, <1>3
  DEF Stake, JoinInv, TypeOK, NoneShortens, Backed, Fresh, networkVars, certVars, callVars
<1>4. CASE Unstake
  <2>0. Expired \in Left
    BY DurationAssumption DEF Left, Expired
  <2>1. TypeOK'
    <3>1. certLeft' \in Left /\ staked' \in BOOLEAN
      BY <1>4, <2>0 DEF Unstake
    <3>2. UNCHANGED <<inFlight, networkVars, certVars, callVars, cached, adminCert>>
      BY <1>4 DEF Unstake
    <3> QED
      BY <1>1, <3>1, <3>2 DEF TypeOK, networkVars, certVars, callVars
  <2>2. NoneShortens'
    BY <1>1, <1>4, DurationAssumption DEF Unstake, NoneShortens, TypeOK, Expired
  <2>3. Backed' /\ Fresh'
    BY <1>1, <1>4 DEF Unstake, JoinInv, Backed, Fresh, TypeOK, Left, certVars, callVars
  <2> QED
    BY <2>1, <2>2, <2>3 DEF JoinInv
<1>5. CASE SetCertTime
  <2>1. PICK age \in inFlight :
          /\ \A other \in inFlight : other <= age
          /\ inFlight' = inFlight \ {age}
          /\ certLeft' = IF staked THEN CertDuration - age ELSE certLeft
    BY <1>5 DEF SetCertTime
  <2>2. age \in 0..MaxDelay /\ inFlight' \subseteq inFlight
    BY <1>1, <2>1 DEF TypeOK
  <2>3. CertDuration - age \in Left
    BY <2>2, DurationAssumption DEF Left, Expired
  <2>4. TypeOK'
    BY <1>1, <1>5, <2>1, <2>2, <2>3 DEF SetCertTime, TypeOK, networkVars, certVars, callVars
  <2>5. NoneShortens'
    <3> SUFFICES ASSUME NEW other \in inFlight PROVE certLeft' <= CertDuration - other
      BY <2>2 DEF NoneShortens
    <3>1. certLeft <= CertDuration - other /\ other \in 0..MaxDelay /\ other <= age
      BY <1>1, <2>1 DEF JoinInv, NoneShortens, TypeOK
    <3>2. age \in Int /\ other \in Int /\ CertDuration \in Int
      BY <2>2, <3>1, DurationAssumption
    <3>3. CertDuration - age <= CertDuration - other
      BY <3>1, <3>2
    <3> QED
      BY <2>1, <3>1, <3>3
  <2>6. Backed'
    <3>1. certLeft <= CertDuration - age /\ certLeft \in Int /\ CertDuration - age \in Int
      BY <1>1, <2>1, <2>2, <2>3 DEF JoinInv, NoneShortens, TypeOK, Left
    <3> QED
      BY <1>1, <1>5, <2>1, <3>1 DEF SetCertTime, JoinInv, Backed, certVars, TypeOK, Left
  <2>7. Fresh'
    BY <1>5 DEF SetCertTime, JoinInv, Fresh, certVars, callVars
  <2> QED
    BY <2>4, <2>5, <2>6, <2>7 DEF JoinInv
<1>6. CASE DropTx
  <2>1. inFlight' \subseteq inFlight
    BY <1>6 DEF DropTx
  <2> QED
    BY <1>1, <1>6, <2>1
    DEF DropTx, JoinInv, TypeOK, NoneShortens, Backed, Fresh, networkVars, certVars, callVars
<1>7. CASE RaiseMinVersion
  BY <1>1, <1>7
  DEF RaiseMinVersion, JoinInv, TypeOK, NoneShortens, Backed, Fresh, ledgerVars, certVars,
      callVars
<1> QED
  BY <1>2, <1>3, <1>4, <1>5, <1>6, <1>7

\* What is left is a cycle shorter, unless it is over.
LEMMA OlderTyped ==
  ASSUME NEW bound \in Nat, NEW left \in Expired..bound
  PROVE  /\ Older(left) \in Expired..bound
         /\ Older(left) = IF left = Expired THEN Expired ELSE left - 1
BY DurationAssumption DEF Older, Expired

LEMMA TickKeeps ==
  ASSUME JoinInv, Tick
  PROVE  JoinInv'
<1>1. TypeOK
  BY DEF JoinInv
<1>2. /\ certLeft' \in Left
      /\ certLeft' = IF certLeft = Expired THEN Expired ELSE certLeft - 1
  BY <1>1, OlderTyped, DurationAssumption DEF Tick, TypeOK, Left
<1>3. /\ adminCert' \in [left : Expired..AdminDuration, golden : BOOLEAN]
      /\ adminCert'.left = Older(adminCert.left)
  <2>1. Older(adminCert.left) \in Expired..AdminDuration
    BY <1>1, OlderTyped, DurationAssumption DEF TypeOK
  <2> QED
    BY <1>1, <2>1 DEF Tick, TypeOK
<1>4. inFlight' = {age + 1 : age \in inFlight} /\ inFlight' \subseteq 0..MaxDelay
  BY <1>1, DurationAssumption DEF Tick, TypeOK
<1>5. /\ stakeCert' \in Left \cup {None} /\ (stakeCert' = None <=> stakeCert = None)
      /\ stakeCert # None =>
           stakeCert' = IF stakeCert = Expired THEN Expired ELSE stakeCert - 1
  <2>1. CASE stakeCert = None
    BY <2>1 DEF Tick, Older
  <2>2. CASE stakeCert \in Left
    BY <2>2, OlderTyped, DurationAssumption DEF Tick, Left, Expired
  <2> QED
    BY <1>1, <2>1, <2>2 DEF TypeOK
<1>6. TypeOK'
  <2>1. /\ setCycle' \in 0..CertDuration + 2
        /\ setTime' \in 0..4 \cup {None} /\ (setTime' = None <=> setTime = None)
    BY <1>1, DurationAssumption DEF Tick, Capped, TypeOK
  <2>2. cached' \in [old : BOOLEAN, left : 0..CacheDuration]
    BY <1>1, DurationAssumption DEF Tick, TypeOK
  <2> QED
    BY <1>1, <1>2, <1>3, <1>4, <1>5, <2>1, <2>2 DEF Tick, TypeOK
<1>7. NoneShortens'
  BY <1>1, <1>2, <1>4, DurationAssumption DEF JoinInv, NoneShortens, TypeOK, Left, Expired
<1>8. Backed'
  BY <1>1, <1>2, <1>5, DurationAssumption DEF Tick, JoinInv, Backed, TypeOK, Left, Expired
<1>9. Fresh'
  <2>1. adminCert.left >= 1 => adminCert'.left >= 0
    BY <1>1, <1>3, OlderTyped, DurationAssumption DEF TypeOK, Expired
  <2>2. stakeCert # None /\ stakeCert >= 3 => stakeCert' # None /\ stakeCert' >= 2
    BY <1>1, <1>5, DurationAssumption DEF TypeOK, Left, Expired
  <2> QED
    BY <2>1, <2>2 DEF Tick, JoinInv, Fresh
<1> QED
  BY <1>6, <1>7, <1>8, <1>9 DEF JoinInv

-----------------------------------------------------------------------------
\* Certificates, transactions in flight and readiness fit together in every
\* reachable state, for any durations that leave the margin.
THEOREM JoinInvHolds == Spec => []JoinInv
<1>1. Init => JoinInv
  <2> SUFFICES ASSUME Init PROVE JoinInv
    OBVIOUS
  <2>1. Expired \in Left /\ Expired \in Expired..AdminDuration
    BY DurationAssumption DEF Left, Expired
  <2>2. NoAdminCert \in [left : Expired..AdminDuration, golden : BOOLEAN]
    BY <2>1 DEF NoAdminCert
  <2>3. [old |-> FALSE, left |-> 0] \in [old : BOOLEAN, left : 0..CacheDuration]
    BY DurationAssumption
  <2>4. TypeOK
    <3>1. 0 \in 0..CertDuration + 2
      BY DurationAssumption
    <3> QED
      BY <2>1, <2>2, <2>3, <3>1 DEF Init, TypeOK
  <2> QED
    BY <2>4 DEF Init, JoinInv, NoneShortens, Backed, Fresh
<1>2. JoinInv /\ [Next]_vars => JoinInv'
  <2> SUFFICES ASSUME JoinInv, [Next]_vars PROVE JoinInv'
    OBVIOUS
  <2>1. CASE Node
    BY <2>1, NodeKeeps
  <2>2. CASE Tick
    BY <2>2, TickKeeps
  <2>3. CASE \E golden \in BOOLEAN : PutAdminCertificate(golden)
    BY <2>3, OthersKeep
  <2>4. CASE Stake \/ Unstake \/ SetCertTime \/ DropTx \/ RaiseMinVersion
    BY <2>4, OthersKeep
  <2>5. CASE UNCHANGED vars
    BY <2>5 DEF vars, ledgerVars, networkVars, certVars, callVars, JoinInv, TypeOK,
                NoneShortens, Backed, Fresh
  <2> QED
    BY <2>1, <2>2, <2>3, <2>4, <2>5 DEF Next
<1> QED
  BY <1>1, <1>2, PTL DEF Spec

\* The certificates and the marks of a node that wants to join keep their types.
THEOREM JoinTypesHold == Spec => []TypeOK
<1>1. JoinInv => TypeOK
  BY DEF JoinInv
<1> QED
  BY <1>1, JoinInvHolds, PTL

\* A ready node without a golden ticket that is over is let in when it joins
\* before it is asked again.
THEOREM ReadyNodesAreAccepted == Spec => []ReadyIsAccepted
<1>1. JoinInv => ReadyIsAccepted
  <2> SUFFICES ASSUME JoinInv, Ready, ~(adminCert.golden /\ adminCert.left = Expired)
               PROVE  validateJoinRequest
    BY DEF ReadyIsAccepted
  <2>1. adminCert.golden => adminCert.left >= 0
    BY DurationAssumption DEF JoinInv, TypeOK, Expired
  <2>2. result = "cert" => stakeCert # None /\ stakeCert >= 2
    BY DEF JoinInv, TypeOK, Fresh, Ready, Left
  <2>3. result = "admin" => adminCert.left >= 0
    BY DEF JoinInv, TypeOK, Fresh, Ready
  <2>4. network \in Network
    BY DEF JoinInv, TypeOK
  <2> QED
    BY <2>1, <2>2, <2>3, <2>4 DEF Ready, validateJoinRequest, Network
<1> QED
  BY <1>1, JoinInvHolds, PTL

\* A node that is ready because of its certificate has the stake of its operator.
THEOREM ReadyNodesAreStaked == Spec => []ReadyIsStaked
<1>1. JoinInv => ReadyIsStaked
  BY DEF JoinInv, TypeOK, Fresh, Backed, ReadyIsStaked, Left
<1> QED
  BY <1>1, JoinInvHolds, PTL
==============================================================================
