-------------------------- MODULE NetworkParameters --------------------------
(***************************************************************************)
(* Changes of the configuration and of the network parameters, in the      *)
(* network account of each node: a transaction sends a global message, the *)
(* message appends a change to the list of changes, core applies each      *)
(* change when its cycle has come and then prunes the list, and a node     *)
(* that starts builds its configuration from the list of others.           *)
(*                                                                         *)
(* A change sets keys of the configuration of the server or parameters of  *)
(* the network (appData); a path is a key.  0 stands for values that are   *)
(* false in a condition.  What core does with the list is external.        *)
(***************************************************************************)
EXTENDS Integers, Sequences, SequencesExt

CONSTANTS
  Nodes,
  defaultConfig,     \* the configuration a node is shipped with, by key
  defaultParams,     \* initialNetworkParamters, by key; one is "activeVersion"
  Values,            \* of keys and parameters
  Settings,          \* what transactions ask for: functions from keys to values
  ExplicitCycles,    \* cycles that a transaction may name instead of -1
  Migrations,        \* versions that have a migration
  configChangeMaxChangesToKeep,
  configChangeMaxCyclesToKeep,
  MaxCycle, MaxMessages  \* bounds

ConfigKeys == DOMAIN defaultConfig
ParamKeys == DOMAIN defaultParams

ASSUME KeysAssumption ==
  /\ ConfigKeys \cap ParamKeys = {} /\ "activeVersion" \in ParamKeys
  /\ defaultConfig \in [ConfigKeys -> Values] /\ defaultParams \in [ParamKeys -> Values]
  /\ \A s \in Settings :
       /\ DOMAIN s \subseteq ConfigKeys \/ DOMAIN s \subseteq ParamKeys
       /\ s \in [DOMAIN s -> Values]
ASSUME KeepAssumption ==
  /\ configChangeMaxChangesToKeep \in Nat \ {0} /\ configChangeMaxCyclesToKeep \in Nat
  /\ ExplicitCycles \subseteq Int

VARIABLES
  cycle,     \* counter of the latest cycle record
  messages,  \* global messages in the order of their time: change, and cycle when sent
  node       \* what each node keeps

parametersVars == <<cycle, messages, node>>

Truthy(v) == v # 0

\* values with the keys of s that are in it set to what s says.
Patched(values, s) ==
  [k \in DOMAIN values |-> IF k \in DOMAIN s THEN s[k] ELSE values[k]]

-----------------------------------------------------------------------------
\* Pruning: from the newest change to the oldest.

\* Slip: a change is dropped as soon as one of its paths has been seen often enough.
keepAliveAll(configs, change, currentCycle) ==
  \/ \A k \in DOMAIN change.set : configs[k] < configChangeMaxChangesToKeep
  \/ currentCycle - change.cycle <= configChangeMaxCyclesToKeep

\* configs: how often each path was seen in the changes behind this one.
keepAlive(configs, change, currentCycle) ==
  \/ \E k \in DOMAIN change.set : configs[k] < configChangeMaxChangesToKeep
  \/ currentCycle - change.cycle <= configChangeMaxCyclesToKeep

pruneNetworkChangeQueue(listOfChanges, currentCycle) ==
  LET step(change, s) ==
        [configs |-> [k \in DOMAIN s.configs |->
           IF k \in DOMAIN change.set /\ s.configs[k] < configChangeMaxChangesToKeep
           THEN s.configs[k] + 1 ELSE s.configs[k]],
         list |-> IF keepAlive(s.configs, change, currentCycle)
                  THEN <<change>> \o s.list ELSE s.list]
      unseen == [k \in ConfigKeys \cup ParamKeys |-> 0]
  IN FoldRight(step, listOfChanges, [configs |-> unseen, list |-> <<>>]).list

-----------------------------------------------------------------------------
\* Applying changes.

\* Slip: only the migration of the version itself runs.
onActiveVersionChangeOnly(migrated, version) == migrated \cup (Migrations \cap {version})

\* A migration that throws is marked as applied as well.
onActiveVersionChange(migrated, version) == migrated \cup {m \in Migrations : m <= version}

\* patchAndUpdate on the parameters of the network account, with its migrations.
patchAndUpdate(n, s) ==
  [n EXCEPT !.current = Patched(n.current, s),
            !.migrated = IF "activeVersion" \in DOMAIN s
                         THEN onActiveVersionChange(n.migrated, s["activeVersion"])
                         ELSE n.migrated]

\* Core, when a cycle has come: every change that is due and was not applied since the
\* node started, in the order of the list.
ApplyDue(n, now) ==
  LET step(m, change) ==
        IF change.cycle > now \/ change \in m.applied THEN m
        ELSE [patchAndUpdate(m, change.set)
                EXCEPT !.config = Patched(m.config, change.set),
                       !.applied = m.applied \cup {change}]
  IN FoldLeft(step, n, n.list)

\* patchObject: values and targets that are false are skipped.
patchObject(config, s) ==
  [k \in DOMAIN config |->
    IF k \in DOMAIN s /\ Truthy(s[k]) /\ Truthy(config[k]) THEN s[k] ELSE config[k]]

\* Slip: the newest change is applied first.
updateConfigReversed(list) ==
  FoldRight(LAMBDA change, config : patchObject(config, change.set), list, defaultConfig)

\* Every change of the list, whatever its cycle.
updateConfigFromNetworkAccount(list) ==
  FoldLeft(LAMBDA config, change : patchObject(config, change.set), defaultConfig, list)

-----------------------------------------------------------------------------
\* What a node has that is not running.  built, history: how many messages there were in
\* the list, before pruning, that its configuration was built from.  settled, history:
\* nothing has changed since the node pruned its list or, when it is starting, it has
\* built its configuration from a list.
Down == [status |-> "down", at |-> 0, seen |-> 0, built |-> 0, list |-> <<>>,
         current |-> defaultParams, config |-> defaultConfig,
         applied |-> {}, migrated |-> {}, settled |-> FALSE]

\* createNetworkAccount: the first node may put its own configuration into the list.
FirstLists == {<<>>, <<[cycle |-> 1, set |-> defaultConfig]>>}

ParametersInit ==
  /\ cycle = 1
  /\ \E list \in FirstLists :
       /\ messages = [i \in DOMAIN list |-> [change |-> list[i], sent |-> 0]]
       /\ node = [n \in Nodes |->
            [Down EXCEPT !.status = "running", !.at = 1, !.list = list, !.seen = Len(list)]]

Running(n) == node[n].status = "running"

\* A transaction sends the change that all nodes are to append ten seconds later.
Submit(s, changeOnCycle) ==
  /\ Len(messages) < MaxMessages
  /\ messages' = Append(messages,
       [change |-> [cycle |-> changeOnCycle, set |-> s], sent |-> cycle])
  /\ UNCHANGED <<cycle, node>>

ChangeConfig(s, asked) ==
  /\ DOMAIN s \subseteq ConfigKeys
  /\ Submit(s, IF asked = -1 THEN cycle + 3 ELSE asked)

ChangeNetworkParam(s, asked) ==
  /\ DOMAIN s \subseteq ParamKeys
  /\ Submit(s, IF asked = -1 THEN cycle + 1 ELSE asked)

\* The next message is for the given keys and has arrived.
Push(n, keys) ==
  /\ Running(n) /\ node[n].seen < Len(messages)
  /\ DOMAIN messages[node[n].seen + 1].change.set \subseteq keys
  /\ node' = [node EXCEPT ![n].list = Append(@, messages[node[n].seen + 1].change),
                          ![n].seen = @ + 1,
                          ![n].settled = FALSE]
  /\ UNCHANGED <<cycle, messages>>

ApplyChangeConfig(n) == Push(n, ConfigKeys)
ApplyNetworkParam(n) == Push(n, ParamKeys)

\* Ten seconds are less than a cycle: no message is older than one cycle when it is
\* applied, and nodes have processed a cycle before the next one.
CycleBegins ==
  /\ cycle < MaxCycle
  /\ \A n \in Nodes : Running(n) =>
       /\ node[n].at = cycle
       /\ \A i \in node[n].seen + 1 .. Len(messages) : messages[i].sent >= cycle
  /\ cycle' = cycle + 1
  /\ UNCHANGED <<messages, node>>

\* Core processes a cycle record: changes that are due, then pruning.
ProcessCycle(n) ==
  /\ Running(n) /\ node[n].at < cycle
  /\ LET m == ApplyDue(node[n], cycle)
     IN node' = [node EXCEPT ![n] =
          [m EXCEPT !.at = cycle, !.list = pruneNetworkChangeQueue(m.list, cycle),
                    !.settled = TRUE]]
  /\ UNCHANGED <<cycle, messages>>

\* Some node goes on.
NodeEnds(n) ==
  /\ node[n].status # "down"
  /\ \E m \in Nodes \ {n} : Running(m)
  /\ node' = [node EXCEPT ![n] = Down]
  /\ UNCHANGED <<cycle, messages>>

\* The start of the process, with the list that a majority of archivers has or, when
\* there is none, with the configuration it is shipped with.
Start(n) ==
  /\ node[n].status = "down"
  /\ \E m \in Nodes : Running(m) /\
       \E fetched \in BOOLEAN :
         node' = [node EXCEPT ![n] =
           [Down EXCEPT !.status = "starting", !.at = cycle, !.seen = node[m].seen,
                        !.config = IF fetched
                                   THEN updateConfigFromNetworkAccount(node[m].list)
                                   ELSE defaultConfig,
                        !.built = IF fetched THEN node[m].seen ELSE 0,
                        !.settled = fetched]]
  /\ UNCHANGED <<cycle, messages>>

\* The node gets the network account of another one and takes part.
SyncAccount(n) ==
  /\ node[n].status = "starting"
  /\ \E m \in Nodes : Running(m) /\ node[m].at = cycle /\
       node' = [node EXCEPT ![n] =
         [@ EXCEPT !.status = "running", !.at = cycle - 1, !.seen = node[m].seen,
                   !.list = node[m].list, !.current = node[m].current, !.settled = FALSE]]
  /\ UNCHANGED <<cycle, messages>>

ParametersNext ==
  \/ \E s \in Settings, asked \in ExplicitCycles \cup {-1} :
       ChangeConfig(s, asked) \/ ChangeNetworkParam(s, asked)
  \/ CycleBegins
  \/ \E n \in Nodes :
       \/ ApplyChangeConfig(n) \/ ApplyNetworkParam(n) \/ ProcessCycle(n)
       \/ NodeEnds(n) \/ Start(n) \/ SyncAccount(n)

ParametersSpec == ParametersInit /\ [][ParametersNext]_parametersVars

-----------------------------------------------------------------------------
(* Properties *)

\* Every change that the node has appended, or those it has synced were taken from.
Log(n) == [i \in 1 .. node[n].seen |-> messages[i].change]

\* Change i is one of the last ones that set some key, or not old.
Kept(log, i, now) ==
  \/ \E k \in DOMAIN log[i].set :
       Cardinality({j \in i + 1 .. Len(log) : k \in DOMAIN log[j].set})
         < configChangeMaxChangesToKeep
  \/ now - log[i].cycle <= configChangeMaxCyclesToKeep

\* list is what log has at the given positions, in the order of log.
IsExtract(list, log, positions) ==
  \E from \in [DOMAIN list -> positions] :
    /\ \A i, j \in DOMAIN list : i < j => from[i] < from[j]
    /\ \A p \in positions : \E i \in DOMAIN list : from[i] = p
    /\ \A i \in DOMAIN list : list[i] = log[from[i]]

\* The list of a node that has pruned it is what pruning leaves of every change there
\* ever was, although nodes prune before or after a message and some begin with the list
\* of another: so nodes that have seen the same messages have the same network account.
ListsAgree ==
  \A n \in Nodes : Running(n) /\ node[n].settled =>
    LET log == Log(n)
    IN IsExtract(node[n].list, log, {i \in DOMAIN log : Kept(log, i, node[n].at)})

\* v is what the last change that sets key k gave it.
IsLatest(v, log, k, default) ==
  \/ /\ \A i \in DOMAIN log : k \notin DOMAIN log[i].set
     /\ v = default[k]
  \/ \E i \in DOMAIN log :
       /\ k \in DOMAIN log[i].set
       /\ \A j \in i + 1 .. Len(log) : k \notin DOMAIN log[j].set
       /\ v = log[i].set[k]

\* Changes are for cycles in the order of the list, and none is there twice.
Orderly(log) ==
  \A i, j \in DOMAIN log : i < j => log[i].cycle <= log[j].cycle /\ log[i] # log[j]

\* A node that has processed a cycle has the values that were last asked for when all
\* changes have come, whether it has run all the time or started in between from a list of
\* which changes were pruned; and it has run the migrations of the active version.  A node
\* that has built its configuration from a newer list than the one it has synced since
\* has values that are not in its list yet: there the configuration is left out.
ConfigAgrees ==
  \A n \in Nodes : LET log == Log(n) IN
    Running(n) /\ node[n].settled /\ Orderly(log)
    /\ (\A i \in DOMAIN log : log[i].cycle <= node[n].at) =>
      /\ node[n].built <= node[n].seen =>
           \A k \in ConfigKeys : IsLatest(node[n].config[k], log, k, defaultConfig)
      /\ \A k \in ParamKeys : IsLatest(node[n].current[k], log, k, defaultParams)
      /\ (\E i \in DOMAIN log : "activeVersion" \in DOMAIN log[i].set) =>
           {m \in Migrations : m <= node[n].current["activeVersion"]} \subseteq node[n].migrated

\* A node that starts from the list of others begins with the values that were last asked
\* for, also if their cycle has not come, where neither they nor its own are false.
StartsWithLatest ==
  \A n \in Nodes : LET log == Log(n) IN
    node[n].status = "starting" /\ node[n].settled =>
      \A k \in ConfigKeys :
        Truthy(defaultConfig[k]) /\ (\A i \in DOMAIN log : k \in DOMAIN log[i].set =>
                                      Truthy(log[i].set[k])) =>
          IsLatest(node[n].config[k], log, k, defaultConfig)
=============================================================================
