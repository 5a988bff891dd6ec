--------------------------- MODULE LabelAllowlist ---------------------------
(***************************************************************************)
(* The label allowlist of the RBAC query proxy (proxy/pkg/informer): a     *)
(* ConfigMap that says which labels of managed clusters are offered to     *)
(* dashboards.  The user edits it; every pod of the proxy watches it and   *)
(* the managed clusters, adds what is missing, and answers from its own    *)
(* memory.  A pod's event handlers signal its sync loop through a channel  *)
(* of one place; the loop restarts a timer, and the timer synchronizes in  *)
(* a goroutine of its own.  Stopping the timer does not wait for one that  *)
(* has fired: synchronizations of one pod may overlap.                     *)
(***************************************************************************)
EXTENDS Naturals, FiniteSets

CONSTANTS
    Pods,            \* of the proxy
    Labels,          \* of managed clusters
    Required,        \* RequiredLabelList
    DefaultIgnored,  \* the ignored labels of the ConfigMap the proxy creates
    Clusters,
    UserLists,       \* the lists the user may write
    MaxSyncs,        \* bound: synchronizations of a pod at the same time
    MaxListChanges,  \* bound: edits of the ConfigMap, changes of the clusters' labels
    MaxListFaults    \* bound: restarts and failed calls

Lists == [labels : SUBSET Labels, ignored : SUBSET Labels]
Nothing == [labels |-> {}, ignored |-> {}]

\* A synchronization: about to read the ConfigMap ("get", "again" after a conflict),
\* to update it, or to set the memory; the labels of the clusters when it started,
\* and newList
Sync == [stage : {"none", "get", "again", "update", "set"}, needed : SUBSET Labels, new : Lists]
NoSync == [stage |-> "none", needed |-> {}, new |-> Nothing]
Slots == 1..MaxSyncs

VARIABLES
    clusterLabels,   \* the labels of each managed cluster
    allowlist,       \* the ConfigMap: there, parses, lists
    known,           \* each pod's managedClusters
    memory,          \* its inMemoryAllowlist
    dirty,           \* an event of the ConfigMap it has not handled
    signal,          \* syncAllowListCh
    timer,           \* debounceTimer
    synced,          \* hasSynced
    syncs,           \* its synchronizations that are under way
    syncLost,        \* one has failed since the last one started (for a property)
    overtaken,       \* the last one started beside another (for a property)
    listChanges, listFaults

listVars == <<clusterLabels, allowlist, known, memory, dirty, signal, timer, synced, syncs,
              syncLost, overtaken, listChanges, listFaults>>

AllowlistTypeOK ==
    /\ clusterLabels \in [Clusters -> SUBSET Labels]
    /\ allowlist \in [there : BOOLEAN, parses : BOOLEAN, lists : Lists]
    /\ known \in [Pods -> [Clusters -> SUBSET Labels]] /\ memory \in [Pods -> Lists]
    /\ \A flags \in {dirty, signal, timer, synced, syncLost, overtaken} : flags \in [Pods -> BOOLEAN]
    /\ syncs \in [Pods -> [Slots -> Sync]]
    /\ listChanges \in 0..MaxListChanges
    /\ listFaults \in 0..MaxListFaults

\* CreateManagedClusterLabelAllowListCM
Default == [there |-> TRUE, parses |-> TRUE,
            lists |-> [labels |-> {}, ignored |-> DefaultIgnored]]

getAllLabels(clusters) == UNION {clusters[c] : c \in Clusters}

\* A needed label that is in neither list goes where the pod knew it last, and
\* is allowed when it never knew it
generateAllowList(current, last, needed) ==
    LET missing == (needed \cup Required) \ (current.labels \cup current.ignored)
        back    == {l \in missing : l \notin last.labels /\ l \in last.ignored}
        ignored == current.ignored \cup back
    IN  [labels |-> (current.labels \cup (missing \ back)) \ ignored, ignored |-> ignored]

\* initialAllowlistLoad: what does not parse is read as nothing
initialAllowlistLoad(list) == IF list.parses THEN list.lists ELSE Nothing

AllowlistInit ==
    /\ clusterLabels \in [Clusters -> SUBSET Labels]
    /\ allowlist = Default
    /\ known = [p \in Pods |-> [c \in Clusters |-> {}]]
    /\ memory = [p \in Pods |-> initialAllowlistLoad(Default)]
    /\ dirty = [p \in Pods |-> TRUE]
    /\ signal = [p \in Pods |-> FALSE] /\ timer = [p \in Pods |-> FALSE]
    /\ synced = [p \in Pods |-> FALSE] /\ syncLost = [p \in Pods |-> FALSE]
    /\ syncs = [p \in Pods |-> [n \in Slots |-> NoSync]] /\ overtaken = [p \in Pods |-> FALSE]
    /\ listChanges = 0 /\ listFaults = 0

-----------------------------------------------------------------------------
(* Around the pods                                                         *)

\* Someone writes the ConfigMap: all pods get an event, and an update with what was
\* read before is a conflict, after which RetryOnConflict reads again
Outdated(s) == IF s.stage = "update" THEN [s EXCEPT !.stage = "again"] ELSE s
Conflicting(running) == [p \in Pods |-> [n \in Slots |-> Outdated(running[p][n])]]

Write(list, running) ==
    /\ allowlist' = list
    /\ dirty' = [p \in Pods |-> TRUE]
    /\ syncs' = Conflicting(running)

ChangeLabels(c) ==
    /\ listChanges < MaxListChanges /\ listChanges' = listChanges + 1
    /\ \E ls \in SUBSET Labels : clusterLabels' = [clusterLabels EXCEPT ![c] = ls]
    /\ UNCHANGED <<allowlist, known, memory, dirty, signal, timer, synced, syncs, syncLost,
                   overtaken, listFaults>>

\* The user edits the lists, spoils the ConfigMap, or deletes it
EditList ==
    /\ listChanges < MaxListChanges /\ listChanges' = listChanges + 1
    /\ \E list \in {[there |-> TRUE, parses |-> TRUE, lists |-> ls] : ls \in UserLists}
                   \cup {[there |-> TRUE, parses |-> FALSE, lists |-> Nothing],
                         [there |-> FALSE, parses |-> FALSE, lists |-> Nothing]} :
         Write(list, syncs)
    /\ UNCHANGED <<clusterLabels, known, memory, signal, timer, synced, syncLost, overtaken,
                   listFaults>>

\* Run, after a crash: a ConfigMap that is not there is created
RestartProxy(p) ==
    LET stopped == [syncs EXCEPT ![p] = [n \in Slots |-> NoSync]] IN
    /\ listFaults < MaxListFaults /\ listFaults' = listFaults + 1
    /\ IF allowlist.there
       THEN /\ dirty' = [dirty EXCEPT ![p] = TRUE]
            /\ syncs' = stopped /\ UNCHANGED allowlist
       ELSE Write(Default, stopped)
    /\ known' = [known EXCEPT ![p] = [c \in Clusters |-> {}]]
    /\ memory' = [memory EXCEPT ![p] = initialAllowlistLoad(allowlist')]
    /\ signal' = [signal EXCEPT ![p] = FALSE] /\ timer' = [timer EXCEPT ![p] = FALSE]
    /\ synced' = [synced EXCEPT ![p] = FALSE] /\ syncLost' = [syncLost EXCEPT ![p] = FALSE]
    /\ overtaken' = [overtaken EXCEPT ![p] = FALSE]
    /\ UNCHANGED <<clusterLabels, listChanges>>

-----------------------------------------------------------------------------
(* The event handlers; a send waits for room in the channel                *)

Send(p, needed) == /\ needed => ~signal[p]
                   /\ signal' = [signal EXCEPT ![p] = @ \/ needed]

ClusterEventUnsignalled(p, c) ==
    /\ known[p][c] # clusterLabels[c]
    /\ known' = [known EXCEPT ![p][c] = clusterLabels[c]]
    /\ UNCHANGED <<clusterLabels, allowlist, memory, dirty, signal, timer, synced, syncs,
                   syncLost, overtaken, listChanges, listFaults>>

\* getManagedClusterEventHandler
ClusterEvent(p, c) ==
    /\ known[p][c] # clusterLabels[c]
    /\ known' = [known EXCEPT ![p][c] = clusterLabels[c]]
    /\ Send(p, getAllLabels(known'[p]) # getAllLabels(known[p]))
    /\ UNCHANGED <<clusterLabels, allowlist, memory, dirty, timer, synced, syncs, syncLost,
                   overtaken, listChanges, listFaults>>

\* A create that fails is logged
ensureAllowlistConfigMapExists(p) ==
    \/ Write(Default, syncs) /\ UNCHANGED <<syncLost, listFaults>>
    \/ /\ listFaults < MaxListFaults /\ listFaults' = listFaults + 1
       /\ syncLost' = [syncLost EXCEPT ![p] = TRUE] /\ dirty' = [dirty EXCEPT ![p] = FALSE]
       /\ UNCHANGED <<allowlist, syncs>>

\* getAllowlistConfigMapEventHandler
ListEvent(p) ==
    /\ dirty[p]
    /\ IF allowlist.there
       THEN /\ Send(p, TRUE) /\ dirty' = [dirty EXCEPT ![p] = FALSE]
            /\ UNCHANGED <<allowlist, syncs, syncLost, listFaults>>
       ELSE ensureAllowlistConfigMapExists(p) /\ UNCHANGED signal
    /\ UNCHANGED <<clusterLabels, known, memory, timer, synced, overtaken, listChanges>>

\* Run: both caches have been filled
CachesSynced(p) ==
    /\ ~synced[p] /\ known[p] = clusterLabels /\ ~dirty[p]
    /\ synced' = [synced EXCEPT ![p] = TRUE] /\ Send(p, TRUE)
    /\ UNCHANGED <<clusterLabels, allowlist, known, memory, dirty, timer, syncs, syncLost,
                   overtaken, listChanges, listFaults>>

-----------------------------------------------------------------------------
(* The sync loop                                                           *)

debounceSync(p) ==
    /\ signal[p]
    /\ signal' = [signal EXCEPT ![p] = FALSE] /\ timer' = [timer EXCEPT ![p] = TRUE]
    /\ UNCHANGED <<clusterLabels, allowlist, known, memory, dirty, synced, syncs, syncLost,
                   overtaken, listChanges, listFaults>>

-----------------------------------------------------------------------------
(* syncAllowlistConfigMap, on the timer's goroutine                        *)

Running(p) == {n \in Slots : syncs[p][n].stage # "none"}

\* The timer fires: nothing happens before the caches are filled, else the labels of
\* the clusters are copied
StartSync(p) ==
    /\ timer[p] /\ timer' = [timer EXCEPT ![p] = FALSE]
    /\ IF synced[p]
       THEN /\ \E n \in Slots \ Running(p) :
                 /\ 1..(n - 1) \subseteq Running(p)
                 /\ syncs' = [syncs EXCEPT ![p][n] =
                       [stage |-> "get", needed |-> getAllLabels(known[p]), new |-> Nothing]]
            /\ overtaken' = [overtaken EXCEPT ![p] = Running(p) # {}]
            /\ syncLost' = [syncLost EXCEPT ![p] = FALSE]
       ELSE UNCHANGED <<syncs, overtaken, syncLost>>
    /\ UNCHANGED <<clusterLabels, allowlist, known, memory, dirty, signal, synced, listChanges,
                   listFaults>>

GoesOn(p, n, stage, new) ==
    syncs' = [syncs EXCEPT ![p][n] = [stage |-> stage, needed |-> @.needed, new |-> new]]
Ends(p, n) == syncs' = [syncs EXCEPT ![p][n] = NoSync]

\* Get, and generateAllowList with the memory of now.  A list that does not parse
\* ends it, but what an attempt before a conflict has generated goes into memory
GetAllowlist(p, n) ==
    LET sync == syncs[p][n]
        new  == generateAllowList(allowlist.lists, memory[p], sync.needed)
    IN  /\ sync.stage \in {"get", "again"}
        /\ \/ /\ allowlist.there /\ allowlist.parses
              /\ GoesOn(p, n, IF new = allowlist.lists THEN "set" ELSE "update", new)
              /\ UNCHANGED syncLost
           \/ /\ allowlist.there /\ ~allowlist.parses
              /\ IF sync.stage = "again" THEN GoesOn(p, n, "set", sync.new) ELSE Ends(p, n)
              /\ UNCHANGED syncLost
           \/ /\ ~allowlist.there
              /\ Ends(p, n) /\ syncLost' = [syncLost EXCEPT ![p] = TRUE]
        /\ UNCHANGED <<clusterLabels, allowlist, known, memory, dirty, signal, timer, synced,
                       overtaken, listChanges, listFaults>>

UpdateAllowlist(p, n) ==
    LET sync == syncs[p][n] IN
    /\ sync.stage = "update"
    /\ Write([allowlist EXCEPT !.lists = sync.new],
             [syncs EXCEPT ![p][n] = [sync EXCEPT !.stage = "set"]])
    /\ UNCHANGED <<clusterLabels, known, memory, signal, timer, synced, syncLost, overtaken,
                   listChanges, listFaults>>

\* A call fails, or there is one conflict too many: it is only logged
SyncFails(p, n) ==
    /\ listFaults < MaxListFaults /\ listFaults' = listFaults + 1
    /\ syncs[p][n].stage \in {"get", "again", "update"}
    /\ Ends(p, n) /\ syncLost' = [syncLost EXCEPT ![p] = TRUE]
    /\ UNCHANGED <<clusterLabels, allowlist, known, memory, dirty, signal, timer, synced,
                   overtaken, listChanges>>

setInMemoryAllowlist(p, n) ==
    /\ syncs[p][n].stage = "set"
    /\ memory' = [memory EXCEPT ![p] = syncs[p][n].new]
    /\ Ends(p, n)
    /\ UNCHANGED <<clusterLabels, allowlist, known, dirty, signal, timer, synced, syncLost,
                   overtaken, listChanges, listFaults>>

SyncStep(p, n) == GetAllowlist(p, n) \/ UpdateAllowlist(p, n) \/ setInMemoryAllowlist(p, n)

-----------------------------------------------------------------------------
AllowlistNext ==
    \/ EditList \/ \E c \in Clusters : ChangeLabels(c)
    \/ \E p \in Pods : \/ RestartProxy(p) \/ ListEvent(p) \/ CachesSynced(p) \/ debounceSync(p)
                       \/ StartSync(p)
                       \/ \E n \in Slots : SyncStep(p, n) \/ SyncFails(p, n)
                       \/ \E c \in Clusters : ClusterEvent(p, c)

AllowlistSpec == AllowlistInit /\ [][AllowlistNext]_listVars

\* Watches deliver, the loop and its goroutines run and timers fire
AllowlistFair ==
    \A p \in Pods : /\ WF_listVars(ListEvent(p)) /\ WF_listVars(CachesSynced(p))
                    /\ WF_listVars(debounceSync(p)) /\ WF_listVars(StartSync(p))
                    /\ \A n \in Slots : WF_listVars(SyncStep(p, n))
                    /\ \A c \in Clusters : WF_listVars(ClusterEvent(p, c))

-----------------------------------------------------------------------------
\* Every label of a cluster gets into one of the two lists, and every pod whose last
\* synchronization ran alone answers from the lists as they are, however the pods'
\* writes, the user's edits, a deletion and restarts interleave
AllowlistRight ==
    (\A p \in Pods : ~syncLost[p]) /\ allowlist.there /\ allowlist.parses =>
        /\ getAllLabels(clusterLabels) \subseteq allowlist.lists.labels \cup allowlist.lists.ignored
        /\ \A p \in Pods : overtaken[p] \/ memory[p] = allowlist.lists
AllowlistSettles == <>[]AllowlistRight

\* A pod has nothing left to do, and no synchronization has failed since the last
\* one started
AtRest(p) ==
    synced[p] /\ Running(p) = {} /\ ~(dirty[p] \/ signal[p] \/ timer[p] \/ syncLost[p])

\* A pod at rest has put its labels into the lists, although its synchronizations
\* overlap, and answers from the lists unless the last one started beside another:
\* no event of a cluster, of another pod's write or of an edit is lost between the
\* signal, the timer, the read and the write.  (One that overlaps and has read, or
\* written, an older list may set the memory after a later one.)
NoLabelMissed ==
    allowlist.there /\ allowlist.parses =>
        \A p \in Pods : AtRest(p) =>
            /\ getAllLabels(known[p]) \subseteq allowlist.lists.labels \cup allowlist.lists.ignored
            /\ overtaken[p] \/ memory[p] = allowlist.lists

=============================================================================
