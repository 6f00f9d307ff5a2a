--------------------------- MODULE RIAccountsCache ---------------------------
(***************************************************************************)
(* The table of a node that keeps contract code of other shards:           *)
(* setCachedRIAccount, which its callers do not await, so that any number  *)
(* of calls run at once, and each goes on when the database has answered   *)
(* its last query.                                                         *)
(***************************************************************************)
EXTENDS Naturals, FiniteSets, FiniteSetsExt

CONSTANTS
  CodeAccounts,             \* accounts of type ContractCode
  Calls,                    \* names of calls: bounds how many run at once
  riAccountsCacheSize,      \* 10000
  riAccountsDeleteBatchSize \* 500

ASSUME CacheAssumption ==
  /\ riAccountsCacheSize \in Nat /\ riAccountsDeleteBatchSize \in Nat \ {0}
  /\ IsFiniteSet(Calls)

VARIABLES
  riAccountsCache, \* ids in the table
  at,              \* the query that each call waits for, or "none"
  account,         \* what each call is about, or 0
  lost             \* history: calls that a crash has stopped before they could remove rows

cacheVars == <<riAccountsCache, at, account, lost>>

CacheInit ==
  /\ riAccountsCache = {}
  /\ at = [c \in Calls |-> "none"]
  /\ account = [c \in Calls |-> 0]
  /\ lost = 0

Free == {c \in Calls : at[c] = "none"}

\* A call begins: accounts of other types are not cached.
setCachedRIAccount(id) ==
  IF id \in CodeAccounts
  THEN \E c \in Free :
         /\ at' = [at EXCEPT ![c] = "read"]
         /\ account' = [account EXCEPT ![c] = id]
         /\ UNCHANGED <<riAccountsCache, lost>>
  ELSE UNCHANGED cacheVars

Goto(c, stage) ==
  /\ at' = [at EXCEPT ![c] = stage]
  /\ account' = IF stage = "none" THEN [account EXCEPT ![c] = 0] ELSE account
  /\ UNCHANGED lost

\* getRIAccountsCache: an account that is there is left alone.
ReadCache(c) ==
  /\ at[c] = "read"
  /\ Goto(c, IF account[c] \in riAccountsCache THEN "none" ELSE "insert")
  /\ UNCHANGED riAccountsCache

\* The insert of setRIAccountsCache, which replaces a row of the same id.
InsertIntoCache(c) ==
  /\ at[c] = "insert"
  /\ riAccountsCache' = riAccountsCache \cup {account[c]}
  /\ Goto(c, "count")

\* Slip: a table that is full is not too big, and neither is one that is over by one.
CountCacheLate(c) ==
  /\ at[c] = "count"
  /\ Goto(c, IF Cardinality(riAccountsCache) > riAccountsCacheSize + 1 THEN "delete" ELSE "none")
  /\ UNCHANGED riAccountsCache

\* getRIAccountsCacheSize
CountCache(c) ==
  /\ at[c] = "count"
  /\ Goto(c, IF Cardinality(riAccountsCache) > riAccountsCacheSize THEN "delete" ELSE "none")
  /\ UNCHANGED riAccountsCache

\* deleteOldestRIAccountsFromCache.  The age of a row is the clock of the node when its
\* call had read: rows may be of one age, and the clock may be set back.
DeleteOldest(c) ==
  /\ at[c] = "delete"
  /\ \E oldest \in SUBSET riAccountsCache :
       /\ Cardinality(oldest) =
            Min({riAccountsDeleteBatchSize, Cardinality(riAccountsCache)})
       /\ riAccountsCache' = riAccountsCache \ oldest
  /\ Goto(c, "none")

CacheStep ==
  \E c \in Calls : ReadCache(c) \/ InsertIntoCache(c) \/ CountCache(c) \/ DeleteOldest(c)

\* The process ends: the table stays, the calls are gone.
Removing == {c \in Calls : at[c] \in {"count", "delete"}}

CacheCrash ==
  /\ lost' = lost + Cardinality(Removing)
  /\ at' = [c \in Calls |-> "none"]
  /\ account' = [c \in Calls |-> 0]
  /\ UNCHANGED riAccountsCache

-----------------------------------------------------------------------------
\* The table never holds more than its size and what calls have put there that have not
\* yet removed anything, or never will: whatever the order of the queries of calls that
\* run at once, each call that goes beyond the size is followed by a removal.
CacheIsBounded ==
  Cardinality(riAccountsCache) <= riAccountsCacheSize + lost + Cardinality(Removing)
==============================================================================
