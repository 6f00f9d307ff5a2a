------------------------------- MODULE DataSync -------------------------------
(***************************************************************************)
(* A node copies the accounts of another one, page by page, while the      *)
(* other one goes on applying transactions.  The table accountsEntry of a  *)
(* node is a function from the ids it has to timestamps: the timestamp is  *)
(* also in the account and tells its versions apart.                       *)
(*                                                                         *)
(* The loop that asks for pages belongs to the framework (external): it    *)
(* goes on behind the last account it got, until a page is short.          *)
(***************************************************************************)
EXTENDS RIAccountsCache

CONSTANTS
  Ids,           \* ids of accounts, in the order of their text
  Numeric,       \* ids whose text Number() can read: all digits
  accountStart, accountEnd, \* the range that is copied
  limit,         \* accounts of a page (external)
  Genesis,       \* tables that the node that is asked may begin with
  Written,       \* bounds the accounts that transactions write
  MaxTime,       \* bounds the timestamps of transactions
  MaxCrashes

ASSUME SyncAssumption ==
  /\ Ids \subseteq Nat \ {0} /\ Numeric \subseteq Ids /\ CodeAccounts \subseteq Ids
  /\ accountStart \in Ids /\ accountEnd \in Ids
  /\ limit \in Nat /\ limit > 1 /\ MaxTime \in Nat /\ MaxCrashes \in Nat
  /\ IsFiniteSet(Ids) /\ Written \subseteq Ids
  /\ \A table \in Genesis : DOMAIN table \subseteq Ids /\ table \in [DOMAIN table -> Nat]

VARIABLES
  source,        \* accountsEntry of the node that is asked
  local,         \* accountsEntry of the node that asks
  sync,          \* "off", "asking", "storing", "done" or "failed"
  tsStart, accountOffset, tsEnd, \* of the next page; accountOffset 0 is the empty text
  page,          \* rows of the page that are not stored yet: stored in their order
  more,          \* the page was full
  atStart,       \* history: source when the copy began
  crashes

asked == <<tsStart, accountOffset, tsEnd>>
syncVars == <<local, sync, asked, page, more, atStart, crashes>>
dataVars == <<source, syncVars, cacheVars>>

Times == 1 .. MaxTime
Rows(table) == {[id |-> i, timestamp |-> table[i]] : i \in DOMAIN table}

DataInit ==
  /\ source \in Genesis
  /\ local \in {<<>>, [i \in {accountStart} |-> 1]}
  /\ sync = "off"
  /\ tsStart = 0 /\ accountOffset = 0 /\ tsEnd = 0
  /\ page = {} /\ more = FALSE
  /\ atStart = <<>>
  /\ crashes = 0
  /\ CacheInit

-----------------------------------------------------------------------------
\* The table, and the queries of the node that is asked.

\* insert or replace
createOrReplace(table, id, timestamp) ==
  [i \in DOMAIN table \cup {id} |-> IF i = id THEN timestamp ELSE table[i]]

Before(r, s) == r.timestamp < s.timestamp \/ (r.timestamp = s.timestamp /\ r.id < s.id)

\* ORDER BY timestamp, accountId LIMIT: first are the rows that come before all others.
Limited(first, rows) ==
  /\ first \subseteq rows
  /\ Cardinality(first) = Min({limit, Cardinality(rows)})
  /\ \A r \in first, s \in rows \ first : Before(r, s)

InRange(r) == r.id >= accountStart /\ r.id <= accountEnd

\* Each query by the rows that it finds.  BETWEEN takes both ends.
queryAccountsEntryByRanges2(rows) ==
  {r \in rows : InRange(r) /\ r.timestamp >= tsStart /\ r.timestamp <= tsEnd}

\* Slip: only the timestamp says where the page begins.
queryByTimestamp(rows) ==
  {r \in rows : InRange(r) /\ r.timestamp >= tsStart /\ r.timestamp < tsEnd}

\* Slip: the id and the timestamp are compared each on its own.
queryByBoth(rows) ==
  {r \in rows : /\ InRange(r) /\ r.timestamp >= tsStart /\ r.timestamp < tsEnd
                /\ r.id >= accountOffset}

\* From the last account of the page before, which comes again.  tsEnd is left out here.
queryAccountsEntryByRanges3(rows) ==
  {r \in rows : /\ InRange(r) /\ r.timestamp < tsEnd
                /\ ~Before(r, [id |-> accountOffset, timestamp |-> tsStart])}

\* "arguments should be numbers.", and neither range the wrong way round.
Refused ==
  /\ accountOffset # 0
  /\ {accountStart, accountEnd, accountOffset} \subseteq Numeric =>
       accountEnd < accountStart \/ tsEnd < tsStart

getAccountDataByRange ==
  IF accountOffset = 0 THEN queryAccountsEntryByRanges2(Rows(source))
  ELSE queryAccountsEntryByRanges3(Rows(source))

\* updateAccountFull: a transaction has changed an account, or made one.  Transactions
\* on one account are applied in the order of their timestamps, no others are.  A write
\* before or after a copy is as good as another table to begin with: it is left out.
Commit(id, timestamp) ==
  /\ sync \in {"asking", "storing"}
  /\ id \in DOMAIN source => timestamp > source[id]
  /\ source' = createOrReplace(source, id, timestamp)
  /\ UNCHANGED <<syncVars, cacheVars>>

-----------------------------------------------------------------------------
\* The node that asks.

\* deleteLocalAccountData, and the first page to ask for, up to the present time: what is
\* committed later has that time at most in the bounds of the model.
Begin ==
  /\ sync = "off"
  /\ local' = <<>>
  /\ sync' = "asking"
  /\ tsStart' = 0 /\ accountOffset' = 0 /\ tsEnd' = MaxTime
  /\ atStart' = source
  /\ UNCHANGED <<source, page, more, crashes, cacheVars>>

\* A page is the first rows that the query finds; the next one begins at its last row.
Ask ==
  /\ sync = "asking"
  /\ UNCHANGED <<source, local, tsEnd, atStart, crashes, cacheVars>>
  /\ \/ /\ Refused
        /\ sync' = "failed"
        /\ UNCHANGED <<tsStart, accountOffset, page, more>>
     \/ /\ ~Refused
        /\ \E rows \in SUBSET getAccountDataByRange :
             Limited(rows, getAccountDataByRange) /\ page' = rows
        /\ more' = (Cardinality(page') = limit)
        /\ sync' = "storing"
        /\ \/ page' = {} /\ UNCHANGED <<tsStart, accountOffset>>
           \/ \E last \in page' :
                /\ \A r \in page' : ~Before(last, r)
                /\ tsStart' = last.timestamp /\ accountOffset' = last.id

\* setAccountData stores one account after the other: setAccount.
StoreOne ==
  /\ sync = "storing"
  /\ \E next \in page :
       /\ \A r \in page : ~Before(r, next)
       /\ local' = createOrReplace(local, next.id, next.timestamp)
       /\ setCachedRIAccount(next.id)
       /\ page' = page \ {next}
  /\ UNCHANGED <<source, sync, asked, more, atStart, crashes>>

PageDone ==
  /\ sync = "storing" /\ page = {}
  /\ sync' = IF more THEN "asking" ELSE "done"
  /\ UNCHANGED <<source, local, asked, page, more, atStart, crashes, cacheVars>>

\* setCachedRIAccountData, when the framework has read code of another shard,
\* and getAccount.
\* One of Calls is left for the copy: a bound, not a rule of the code.
CacheRead(id) ==
  /\ Cardinality(Free) > 1
  /\ setCachedRIAccount(id)
  /\ UNCHANGED <<source, syncVars>>

CacheGoesOn == CacheStep /\ UNCHANGED <<source, syncVars>>

\* The node that asks ends and is started again: it has its tables.
Crash ==
  /\ crashes < MaxCrashes
  /\ crashes' = crashes + 1
  /\ sync' = "off" /\ page' = {} /\ more' = FALSE
  /\ tsStart' = 0 /\ accountOffset' = 0 /\ tsEnd' = 0
  /\ atStart' = <<>>
  /\ CacheCrash
  /\ UNCHANGED <<source, local>>

Sync == Begin \/ Ask \/ StoreOne \/ PageDone

DataNext ==
  \/ Sync \/ CacheGoesOn \/ Crash
  \/ \E id \in CodeAccounts : CacheRead(id)
  \/ \E id \in Written, timestamp \in Times : Commit(id, timestamp)

\* The loop goes on, and the database answers.
DataSpec ==
  DataInit /\ [][DataNext]_dataVars /\ WF_dataVars(Sync) /\ WF_dataVars(CacheGoesOn)

-----------------------------------------------------------------------------
(* Properties *)

\* When the copy is complete, no account is missing or older than it was when the copy
\* began, although accounts that are written meanwhile change their place in the order
\* that the pages follow, and many accounts may have one timestamp.  The second query
\* leaves out the end of the time range, so accounts of that time are not counted on.
EveryAccountArrives ==
  sync = "done" =>
    \A id \in DOMAIN atStart :
      accountStart <= id /\ id <= accountEnd /\ atStart[id] < tsEnd =>
        \/ id \in DOMAIN local /\ local[id] >= atStart[id]
        \/ source[id] >= tsEnd

\* The copy ends, or is refused, however many accounts have one timestamp.
SyncEnds == <>(sync \in {"done", "failed"})
===============================================================================
