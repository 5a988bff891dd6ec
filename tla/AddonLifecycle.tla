--------------------------- MODULE AddonLifecycle ---------------------------
(***************************************************************************)
(* Deployment and teardown of the legacy observability addon.              *)
(*                                                                         *)
(* Hub side: the placement controller (controllers/placementrule) keeps,   *)
(* in the namespace of every managed cluster, an ObservabilityAddon (OBA), *)
(* a ManifestWork that carries the endpoint operator and a copy of the     *)
(* OBA, and a ManagedClusterAddOn with the role bindings that let the      *)
(* endpoint operator reach the hub.  It reads through informer caches that *)
(* trail the API server, and is woken by the events those caches deliver.  *)
(*                                                                         *)
(* Managed cluster side: the work agent (external) applies the             *)
(* ManifestWork, the endpoint operator (endpointmetrics) puts a finalizer  *)
(* on the hub OBA, edits the cluster monitoring configuration, deploys the *)
(* metrics collector, and undoes all of it when the OBA goes away.         *)
(***************************************************************************)
EXTENDS FiniteSets, Naturals

CONSTANTS
    Clusters,   \* managed clusters; each owns the hub namespace of its name
    Modes,      \* the MCO specifications the administrator may select
    Lag,        \* object kinds whose informer cache may trail the API server
    Faults,     \* whether API calls fail and operator pods restart
    MaxChanges  \* bound: how often the administrator changes anything

ASSUME ClustersAssumption == Clusters # {} /\ IsFiniteSet(Clusters)

\* "disabled": no MCO, or its observabilityAddonSpec has enableMetrics false
AllModes == {"enabled", "disabled", "mcoa", "paused"}

ASSUME ModesAssumption == Modes \subseteq AllModes /\ "enabled" \in Modes

Kinds == {"oba", "work", "mca"}

ASSUME LagAssumption == Lag \subseteq Kinds

ASSUME FaultsAssumption == Faults \in BOOLEAN

ASSUME MaxChangesAssumption == MaxChanges \in Nat

VARIABLES
    \* the administrator
    mode,        \* the MCO specification
    attached,    \* clusters getManagedClustersList returns
    changes,     \* changes made so far
    \* API server of the hub
    oba,         \* ObservabilityAddon of each cluster
    stalled,     \* its deletionTimestamp is more than one minute old
    work,        \* ManifestWork of each cluster
    mca,         \* ManagedClusterAddOn and role bindings of each cluster
    global,      \* cluster roles and ClusterManagementAddOn
    mcoaWorks,   \* ManifestWorks of the MCOA addon remain on the hub
    \* placement controller
    obaC, workC, mcaC,  \* its informer caches
    queue,       \* reconcile requests waiting
    once,        \* managedClustersHaveReconciledOnce
    loop,        \* the running Reconcile (see LoopType)
    \* managed clusters
    saddon,      \* the copy of the OBA
    operator,    \* the endpoint operator runs
    footprint,   \* what the endpoint operator left in the cluster
    epend,       \* a reconcile request waits in the endpoint operator
    epc,         \* where its Reconcile is
    eoba,        \* the hub OBA it fetched
    \* history
    forced       \* the placement controller, not the endpoint operator, took
                 \* the finalizer off the last OBA that had one

adminVars == <<mode, attached, changes>>
obaVars   == <<oba, stalled, forced>>
apiVars   == <<work, mca, global>>
cacheVars == <<obaC, workC, mcaC>>
ctrlVars  == <<queue, once, loop>>
spokeVars == <<saddon, operator, footprint>>
epVars    == <<epend, epc, eoba>>
vars == <<adminVars, obaVars, apiVars, mcoaWorks, cacheVars, ctrlVars, spokeVars, epVars>>

-----------------------------------------------------------------------------
\* none; without finalizer; with the endpoint operator's finalizer; deletion
\* requested and held by that finalizer
ObaStates == {"none", "bare", "held", "terminating"}

HasFinalizer(o) == o \in {"held", "terminating"}

\* none; carrying the OBA; without it; deletion requested
WorkStates == {"none", "with", "without", "terminating"}

Parts == {"cmo", "collector"}

EpSteps == {"idle", "fetched", "finalizer", "cmo", "collector",
            "uncollect", "revert", "release"}

ReqAll    == <<"all">>
ReqMc(c)  == <<"mc", c>>   \* request of a ManagedCluster event: no namespace
ReqNs(c)  == <<"ns", c>>   \* request of an event on an object of c's namespace
Requests  == {ReqAll} \cup {ReqMc(c) : c \in Clusters} \cup {ReqNs(c) : c \in Clusters}

RequiredForClusterEvent(r, c) == r \in {ReqAll, ReqMc(c)}

isReconcileRequired(r, c) == r \in {ReqAll, ReqMc(c), ReqNs(c)}

\* the namespaces the lists of cleanOrphanResources cover
Scope(r) == {c \in Clusters : r \in {ReqAll, ReqNs(c)} \/ \E d \in Clusters : r = ReqMc(d)}

Phases == {"idle", "create", "clean", "force", "orphan", "leftover"}
Steps  == {"pick", "strip", "works", "mca", "addon", "work"}

\* A running Reconcile: the loop it is in, the call it makes next, the request,
\* the cluster of the current iteration and the clusters still to come, the
\* namespaces it listed with an OBA and with a ManifestWork or an MCA, whether
\* some deletion is pending (again) and that of the current cluster (rq),
\* whether createAllRelatedRes collected an error, and whether the
\* ManifestWork under construction carries the OBA.  misled is history: the
\* clusters whose OBA this Reconcile took for gone while it was there.
LoopType ==
    [phase : Phases, step : Steps, req : Requests, cur : Clusters \cup {""},
     todo : SUBSET Clusters, addons : SUBSET Clusters, res : SUBSET Clusters,
     again : BOOLEAN, rq : BOOLEAN, failed : BOOLEAN, inject : BOOLEAN,
     misled : SUBSET Clusters]

Idle == [phase |-> "idle", step |-> "pick", req |-> ReqAll,
         cur |-> "", todo |-> {}, addons |-> {}, res |-> {},
         again |-> FALSE, rq |-> FALSE, failed |-> FALSE, inject |-> FALSE,
         misled |-> {}]

TypeOK ==
    /\ mode \in Modes
    /\ attached \subseteq Clusters /\ changes \in 0..MaxChanges
    /\ oba \in [Clusters -> ObaStates] /\ obaC \in [Clusters -> ObaStates]
    /\ work \in [Clusters -> WorkStates] /\ workC \in [Clusters -> WorkStates]
    /\ mca \subseteq Clusters /\ mcaC \subseteq Clusters
    /\ global \in BOOLEAN /\ mcoaWorks \in BOOLEAN /\ once \in BOOLEAN
    /\ queue \subseteq Requests
    /\ loop \in LoopType /\ (loop.step # "pick" => loop.cur \in Clusters)
    /\ stalled \subseteq Clusters /\ forced \subseteq Clusters
    /\ saddon \subseteq Clusters /\ operator \subseteq Clusters /\ epend \subseteq Clusters
    /\ footprint \in [Clusters -> SUBSET Parts]
    /\ epc \in [Clusters -> EpSteps]
    /\ eoba \in [Clusters -> ObaStates \ {"none"}]

Init ==
    /\ mode = "enabled" /\ attached = Clusters /\ changes = 0
    /\ oba = [c \in Clusters |-> "none"] /\ obaC = [c \in Clusters |-> "none"]
    /\ work = [c \in Clusters |-> "none"] /\ workC = [c \in Clusters |-> "none"]
    /\ mca = {} /\ mcaC = {} /\ global = FALSE /\ mcoaWorks = FALSE
    /\ queue = {ReqAll} /\ once = FALSE /\ loop = Idle
    /\ stalled = {} /\ forced = {}
    /\ saddon = {} /\ operator = {} /\ epend = {}
    /\ footprint = [c \in Clusters |-> {}]
    /\ epc = [c \in Clusters |-> "idle"]
    /\ eoba = [c \in Clusters |-> "bare"]

-----------------------------------------------------------------------------
(***************************************************************************)
(* The API server.  A delete leaves an object that has a finalizer in      *)
(* place, terminating; taking the last finalizer off a terminating object  *)
(* removes it.                                                             *)
(***************************************************************************)
Deleted(o) == CASE o \in {"none", "bare"} -> "none" [] OTHER -> "terminating"

Released(o) == CASE o = "held" -> "bare" [] o = "terminating" -> "none" [] OTHER -> o

\* An Update carries the resource version the caller read; it is refused when
\* the object has changed since.
Fresh(c) == obaC[c] = oba[c]

\* The placement controller runs only when the caches that may not lag are
\* up to date.
CacheReady ==
    /\ "oba"  \notin Lag => obaC = oba
    /\ "work" \notin Lag => workC = work
    /\ "mca"  \notin Lag => mcaC = mca

-----------------------------------------------------------------------------
(***************************************************************************)
(* Placement controller: Reconcile                                         *)
(***************************************************************************)
\* Reconcile returns; an error or RequeueAfter puts the request back
Return     == loop' = Idle /\ UNCHANGED queue
ReturnForgotten == loop' = Idle /\ UNCHANGED queue

ReturnAgain == loop' = Idle /\ queue' = queue \cup {loop.req}

ListAddons(S) == {c \in S : obaC[c] # "none"}

Enter(r, p, S) == [Idle EXCEPT !.phase = p, !.req = r, !.todo = S, !.addons = S]

\* Reconcile up to the branch on the MCO specification.  While MCOA works remain
\* the request of an enabled addon stays in the queue (RequeueAfter).
Reconcile(r) ==
    /\ CacheReady /\ loop.phase = "idle" /\ r \in queue
    /\ queue' = queue \ {r}
    /\ \/ /\ mode = "paused"
          /\ UNCHANGED <<loop, global>>
       \/ /\ mode \in {"disabled", "mcoa"}
          /\ loop' = Enter(r, "clean", ListAddons(Clusters))
          /\ UNCHANGED global
       \/ /\ mode = "enabled" /\ ~mcoaWorks
          /\ loop' = Enter(r, "create", {c \in attached : ~once \/ isReconcileRequired(r, c)})
          /\ global' = TRUE
    /\ UNCHANGED <<adminVars, obaVars, work, mca, mcoaWorks, cacheVars, once, spokeVars, epVars>>

\* the loops of Reconcile, one after the other
Goto(p, S) == [loop EXCEPT !.phase = p, !.step = "pick", !.todo = S]

cleanOrphanResources ==
    LET listed == ListAddons(Scope(loop.req)) IN
    [Goto("orphan", listed \ attached) EXCEPT
        !.again = FALSE,
        !.addons = listed,
        !.res = {c \in Scope(loop.req) : workC[c] # "none" \/ c \in mcaC},
        !.misled = @ \cup {c \in Scope(loop.req) \ listed : oba[c] # "none"}]

\* the last two loops of cleanOrphanResources: namespaces with a work or an MCA
\* and no OBA, then namespaces with an OBA and nothing else
Leftovers == (loop.res \ loop.addons) \cup (loop.addons \ loop.res)

LoopDone ==
    /\ CacheReady /\ loop.step = "pick" /\ loop.todo = {}
    /\ CASE loop.phase = "clean" ->
              /\ IF loop.again THEN ReturnAgain
                               ELSE loop' = Goto("force", loop.addons) /\ UNCHANGED queue
              /\ UNCHANGED <<global, once>>
         [] loop.phase = "force" ->
              /\ loop' = cleanOrphanResources
              /\ global' = (global /\ \E c \in Clusters : workC[c] # "none")
              /\ UNCHANGED <<queue, once>>
         [] loop.phase = "create" ->
              /\ IF loop.failed THEN ReturnAgain
                                ELSE loop' = cleanOrphanResources /\ UNCHANGED queue
              /\ once' = (once \/ ~loop.failed)
              /\ UNCHANGED global
         [] loop.phase = "orphan" /\ Leftovers # {} ->
              /\ loop' = Goto("leftover", Leftovers)
              /\ UNCHANGED <<queue, global, once>>
         [] loop.phase = "leftover" \/ (loop.phase = "orphan" /\ Leftovers = {}) ->
              /\ IF loop.again THEN ReturnAgain ELSE Return
              /\ UNCHANGED <<global, once>>
         [] OTHER -> FALSE
    /\ UNCHANGED <<adminVars, obaVars, work, mca, mcoaWorks, cacheVars, spokeVars, epVars>>

\* the next call for cluster c, and the end of its iteration
Call(c, s) == [loop EXCEPT !.cur = c, !.step = s]
Done(c)    == [loop EXCEPT !.step = "pick", !.cur = "", !.todo = @ \ {c},
                           !.rq = FALSE, !.inject = FALSE]

\* after deleteObsAddon: cleanOrphanResources leaves the ManifestWork and the
\* MCA of a cluster whose deletion is pending alone for now
AfterDeletePendingIgnored(c) == IF loop.phase = "orphan" THEN Call(c, "works") ELSE Done(c)

AfterDelete(c) ==
    IF loop.phase = "orphan" /\ ~loop.rq THEN Call(c, "works") ELSE Done(c)

-----------------------------------------------------------------------------
(***************************************************************************)
(* Placement controller: deletion                                          *)
(***************************************************************************)
deletionStalled(c) == obaC[c] = "terminating" /\ c \in stalled

\* deleteFinalizer: refused by the API server on a stale copy
deleteFinalizer(c) ==
    /\ Fresh(c)
    /\ oba' = [oba EXCEPT ![c] = Released(@)]
    /\ forced' = forced \cup {c}
    /\ UNCHANGED stalled

\* Delete by name: it sets the deletionTimestamp of an object with a finalizer
DeleteOba(c) ==
    /\ oba[c] # "none"
    /\ oba' = [oba EXCEPT ![c] = Deleted(@)]
    /\ stalled' = IF oba[c] = "held" THEN stalled \ {c} ELSE stalled
    /\ UNCHANGED forced

\* deleteObsAddonObject, alone in the last loop of cleanOrphanResources and as
\* the first half of deleteObsAddon elsewhere
deleteObsAddonObject(c) ==
    LET pending(b) ==
            /\ loop' = IF loop.phase = "leftover"
                       THEN [Done(c) EXCEPT !.again = @ \/ b]
                       ELSE [Call(c, "strip") EXCEPT
                                !.again = @ \/ b, !.rq = b,
                                !.misled = IF b \/ oba'[c] = "none" THEN @ ELSE @ \cup {c}]
            /\ UNCHANGED queue
    IN
    /\ CacheReady /\ loop.step = "pick" /\ c \in loop.todo
    /\ \/ loop.phase \in {"clean", "orphan"}
       \/ loop.phase = "leftover" /\ loop.todo \subseteq loop.addons
    /\ \/ obaC[c] = "none" /\ UNCHANGED obaVars /\ pending(FALSE)
       \/ deletionStalled(c) /\ deleteFinalizer(c) /\ pending(FALSE)
       \/ deletionStalled(c) /\ ~Fresh(c) /\ ReturnAgain /\ UNCHANGED obaVars
       \/ obaC[c] = "terminating" /\ c \notin stalled /\ UNCHANGED obaVars /\ pending(TRUE)
       \/ obaC[c] \in {"bare", "held"} /\ DeleteOba(c) /\ pending(HasFinalizer(obaC[c]))
       \/ obaC[c] \in {"bare", "held"} /\ oba[c] = "none" /\ ReturnAgain /\ UNCHANGED obaVars
    /\ UNCHANGED <<adminVars, apiVars, mcoaWorks, cacheVars, once, spokeVars, epVars>>

\* the second half of deleteObsAddon
removeObservabilityAddonInManifestWork ==
    LET c == loop.cur IN
    /\ CacheReady /\ loop.step = "strip"
    /\ \/ /\ workC[c] # "with"
          /\ loop' = AfterDelete(c) /\ UNCHANGED <<queue, work>>
       \/ /\ workC[c] = "with" /\ work[c] = "with"
          /\ work' = [work EXCEPT ![c] = "without"]
          /\ loop' = AfterDelete(c) /\ UNCHANGED queue
       \/ /\ workC[c] = "with" /\ work[c] # "with"
          /\ ReturnAgain /\ UNCHANGED work
    /\ UNCHANGED <<adminVars, obaVars, mca, global, mcoaWorks, cacheVars, once, spokeVars, epVars>>

\* deleteManifestWorks (DeleteAllOf, evaluated by the API server); the work
\* agent's finalizer keeps a deleted ManifestWork until the cluster is cleaned
deleteManifestWorks(c) ==
    /\ CacheReady
    /\ \/ loop.step = "works" /\ c = loop.cur
       \/ loop.step = "pick" /\ loop.phase = "force" /\ c \in loop.todo
       \/ loop.step = "pick" /\ loop.phase = "leftover" /\ c \in loop.todo \ loop.addons
    /\ work' = [work EXCEPT ![c] = IF @ = "none" THEN "none" ELSE "terminating"]
    /\ loop' = Call(c, "mca")
    /\ UNCHANGED <<adminVars, obaVars, mca, global, mcoaWorks, cacheVars, queue, once, spokeVars, epVars>>

\* deleteManagedClusterAddOn, with deleteRolebindings
deleteManagedClusterAddOn ==
    LET c == loop.cur IN
    /\ CacheReady /\ loop.step = "mca" /\ loop.phase # "create"
    /\ mca' = mca \ {c}
    /\ loop' = IF loop.phase = "orphan" THEN [Done(c) EXCEPT !.addons = @ \ {c}] ELSE Done(c)
    /\ UNCHANGED <<adminVars, obaVars, work, global, mcoaWorks, cacheVars, queue, once, spokeVars, epVars>>

-----------------------------------------------------------------------------
(***************************************************************************)
(* Placement controller: createAllRelatedRes.  An error ends the iteration *)
(* of the cluster; the others go on.                                       *)
(***************************************************************************)
Fail(c) == loop' = [Done(c) EXCEPT !.failed = TRUE]

\* createObsAddon: a terminating OBA loses its finalizer and is not recreated
\* by this Reconcile
createObsAddon(c) ==
    /\ CacheReady /\ loop.phase = "create" /\ loop.step = "pick" /\ c \in loop.todo
    /\ \/ /\ obaC[c] = "terminating" /\ deleteFinalizer(c)
          /\ loop' = Call(c, "mca")
       \/ /\ obaC[c] = "terminating" /\ ~Fresh(c)
          /\ Fail(c) /\ UNCHANGED obaVars
       \/ /\ obaC[c] = "none" /\ oba[c] = "none"
          /\ oba' = [oba EXCEPT ![c] = "bare"]
          /\ loop' = Call(c, "mca") /\ UNCHANGED <<stalled, forced>>
       \/ /\ obaC[c] = "none" /\ oba[c] # "none"
          /\ Fail(c) /\ UNCHANGED obaVars
       \/ /\ obaC[c] \in {"bare", "held"}
          /\ loop' = Call(c, "mca") /\ UNCHANGED obaVars
    /\ UNCHANGED <<adminVars, apiVars, mcoaWorks, cacheVars, queue, once, spokeVars, epVars>>

\* the rest of createManagedClusterRes: createRolebindings and
\* CreateManagedClusterAddonCR
createManagedClusterRes ==
    LET c == loop.cur IN
    /\ CacheReady /\ loop.phase = "create" /\ loop.step = "mca"
    /\ IF c \notin mcaC /\ c \in mca
       THEN Fail(c) /\ UNCHANGED mca
       ELSE /\ loop' = Call(c, "addon")
            /\ mca' = IF c \in mcaC THEN mca ELSE mca \cup {c}
    /\ UNCHANGED <<adminVars, obaVars, work, global, mcoaWorks, cacheVars, queue, once, spokeVars, epVars>>

\* whether the ManifestWork gets a copy of the OBA: not of a terminating one,
\* but also of one that is missing
getObservabilityAddon(c) == obaC[c] # "terminating"

createManifestWorks ==
    /\ CacheReady /\ loop.phase = "create" /\ loop.step = "addon"
    /\ loop' = [loop EXCEPT !.step = "work", !.inject = getObservabilityAddon(loop.cur)]
    /\ UNCHANGED <<adminVars, obaVars, apiVars, mcoaWorks, cacheVars, queue, once, spokeVars, epVars>>

createManifestwork ==
    LET c == loop.cur
        desired == IF loop.inject THEN "with" ELSE "without"
        done == loop' = Done(c)
    IN
    /\ CacheReady /\ loop.phase = "create" /\ loop.step = "work"
    /\ \/ /\ workC[c] = desired
          /\ done /\ UNCHANGED work
       \/ /\ workC[c] \notin {desired, "terminating"} /\ work[c] = workC[c]
          /\ work' = [work EXCEPT ![c] = desired]
          /\ done
       \/ /\ workC[c] # desired
          /\ workC[c] = "terminating" \/ work[c] # workC[c]
          /\ Fail(c) /\ UNCHANGED work
    /\ UNCHANGED <<adminVars, obaVars, mca, global, mcoaWorks, cacheVars, queue, once, spokeVars, epVars>>

-----------------------------------------------------------------------------
(***************************************************************************)
(* Informers: a cache catches up with the API server and the predicates of *)
(* SetupWithManager decide whether the change is worth a request.          *)
(***************************************************************************)
Enqueue(R) == queue' = queue \cup R

\* obsAddonPred.  A changed deletionTimestamp alone is no reason to reconcile;
\* the Delete event is dropped when removePostponeDeleteAnnotationForManifestwork
\* fails, in particular when there is no ManifestWork.
SyncOba(c) ==
    LET old == obaC[c]
        new == oba[c]
        update == /\ old # "none" /\ new # "none"
                  /\ HasFinalizer(old) # HasFinalizer(new)
        delete == new = "none" /\ workC[c] # "none" /\ work[c] # "none"
    IN
    /\ old # new
    /\ obaC' = [obaC EXCEPT ![c] = new]
    /\ Enqueue(IF update \/ delete THEN {ReqNs(c)} ELSE {})
    /\ UNCHANGED <<adminVars, obaVars, apiVars, mcoaWorks, workC, mcaC, once, loop, spokeVars, epVars>>

\* getManifestworkPred: changed manifests, or the object is gone
SyncWork(c) ==
    /\ workC[c] # work[c]
    /\ workC' = [workC EXCEPT ![c] = work[c]]
    /\ Enqueue(IF work[c] = "none" \/ {workC[c], work[c]} = {"with", "without"}
               THEN {ReqNs(c)} ELSE {})
    /\ UNCHANGED <<adminVars, obaVars, apiVars, mcoaWorks, obaC, mcaC, once, loop, spokeVars, epVars>>

\* getMgClusterAddonPredFunc: creation only
SyncMca(c) ==
    /\ (c \in mca) # (c \in mcaC)
    /\ mcaC' = IF c \in mca THEN mcaC \cup {c} ELSE mcaC \ {c}
    /\ Enqueue(IF c \in mca THEN {ReqNs(c)} ELSE {})
    /\ UNCHANGED <<adminVars, obaVars, apiVars, mcoaWorks, obaC, workC, once, loop, spokeVars, epVars>>

-----------------------------------------------------------------------------
(***************************************************************************)
(* Endpoint operator of cluster c: Reconcile.  It reaches the hub with the *)
(* role bindings the placement controller keeps beside the MCA.            *)
(***************************************************************************)
HubAccess(c) == c \in mca /\ global

EpGoto(c, s) == epc' = [epc EXCEPT ![c] = s]

\* the hub OBA; on an error the request is retried
EpFetch(c) ==
    /\ c \in operator /\ c \in epend /\ epc[c] = "idle"
    /\ HubAccess(c) /\ oba[c] # "none"
    /\ eoba' = [eoba EXCEPT ![c] = oba[c]]
    /\ epend' = epend \ {c}
    /\ EpGoto(c, "fetched")
    /\ UNCHANGED <<adminVars, obaVars, apiVars, mcoaWorks, cacheVars, ctrlVars, spokeVars>>

\* the local OBA, and the branches of initFinalization
EpBranch(c) ==
    /\ epc[c] = "fetched"
    /\ EpGoto(c, IF c \notin saddon \/ eoba[c] = "terminating"
                 THEN IF HasFinalizer(eoba[c]) THEN "uncollect" ELSE "idle"
                 ELSE IF HasFinalizer(eoba[c]) THEN "cmo" ELSE "finalizer")
    /\ UNCHANGED <<adminVars, obaVars, apiVars, mcoaWorks, cacheVars, ctrlVars, spokeVars, epend, eoba>>

\* initFinalization adds the finalizer to the OBA it reads again
EpAddFinalizer(c) ==
    /\ epc[c] = "finalizer"
    /\ IF HubAccess(c) /\ oba[c] # "none"
       THEN /\ oba' = [oba EXCEPT ![c] = IF @ = "bare" THEN "held" ELSE @]
            /\ forced' = IF oba[c] = "bare" THEN forced \ {c} ELSE forced
            /\ EpGoto(c, "cmo") /\ UNCHANGED epend
       ELSE /\ EpGoto(c, "idle") /\ epend' = epend \cup {c}
            /\ UNCHANGED <<oba, forced>>
    /\ UNCHANGED <<adminVars, stalled, apiVars, mcoaWorks, cacheVars, ctrlVars, spokeVars, eoba>>

\* A change of the configuration or of the collector raises an event that
\* brings the operator back
Leave(c, F) ==
    /\ footprint' = [footprint EXCEPT ![c] = F]
    /\ epend' = IF F = footprint[c] THEN epend ELSE epend \cup {c}

\* no Prometheus service in the cluster: NotSupported is reported, no retry
EpUnsupported(c) ==
    /\ epc[c] = "cmo"
    /\ EpGoto(c, "idle")
    /\ UNCHANGED <<adminVars, obaVars, apiVars, mcoaWorks, cacheVars, ctrlVars, spokeVars, epend, eoba>>

\* createOrUpdateClusterMonitoringConfig with the bindings it needs; then the
\* CmoReconcilesDetector may put the rest off (RequeueAfter)
EpConfigure(c) ==
    /\ epc[c] = "cmo"
    /\ footprint' = [footprint EXCEPT ![c] = @ \cup {"cmo"}]
    /\ \/ /\ EpGoto(c, "collector")
          /\ epend' = IF "cmo" \in footprint[c] THEN epend ELSE epend \cup {c}
       \/ EpGoto(c, "idle") /\ epend' = epend \cup {c}
    /\ UNCHANGED <<adminVars, obaVars, apiVars, mcoaWorks, cacheVars, ctrlVars, saddon, operator, eoba>>

\* metricsCollector.Update
EpCollect(c) ==
    /\ epc[c] = "collector"
    /\ Leave(c, footprint[c] \cup {"collector"})
    /\ EpGoto(c, "idle")
    /\ UNCHANGED <<adminVars, obaVars, apiVars, mcoaWorks, cacheVars, ctrlVars, saddon, operator, eoba>>

EpUncollectOnly(c) ==
    /\ epc[c] = "uncollect"
    /\ Leave(c, footprint[c] \ {"collector"})
    /\ EpGoto(c, "release")
    /\ UNCHANGED <<adminVars, obaVars, apiVars, mcoaWorks, cacheVars, ctrlVars, saddon, operator, eoba>>

\* initFinalization: metricsCollector.Delete
EpUncollect(c) ==
    /\ epc[c] = "uncollect"
    /\ Leave(c, footprint[c] \ {"collector"})
    /\ EpGoto(c, "revert")
    /\ UNCHANGED <<adminVars, obaVars, apiVars, mcoaWorks, cacheVars, ctrlVars, saddon, operator, eoba>>

\* initFinalization: the monitoring configuration, bindings and CA configmap
EpRevert(c) ==
    /\ epc[c] = "revert"
    /\ Leave(c, footprint[c] \ {"cmo"})
    /\ EpGoto(c, "release")
    /\ UNCHANGED <<adminVars, obaVars, apiVars, mcoaWorks, cacheVars, ctrlVars, saddon, operator, eoba>>

\* initFinalization removes the finalizer from the OBA it reads again
EpRelease(c) ==
    /\ epc[c] = "release"
    /\ EpGoto(c, "idle")
    /\ IF HubAccess(c) /\ oba[c] # "none"
       THEN /\ oba' = [oba EXCEPT ![c] = Released(@)]
            /\ forced' = forced \ {c}
            /\ UNCHANGED epend
       ELSE epend' = epend \cup {c} /\ UNCHANGED <<oba, forced>>
    /\ UNCHANGED <<adminVars, stalled, apiVars, mcoaWorks, cacheVars, ctrlVars, spokeVars, eoba>>

EndpointStep(c) ==
    \/ EpFetch(c) \/ EpBranch(c) \/ EpAddFinalizer(c)
    \/ EpUnsupported(c) \/ EpConfigure(c) \/ EpCollect(c)
    \/ EpUncollect(c) \/ EpRevert(c) \/ EpRelease(c)

-----------------------------------------------------------------------------
(***************************************************************************)
(* Work agent and garbage collector of cluster c (external)                *)
(***************************************************************************)
AgentApply(c) ==
    /\ work[c] \in {"with", "without"}
    /\ c \notin operator \/ (c \in saddon) # (work[c] = "with")
    /\ operator' = operator \cup {c}
    /\ saddon' = IF work[c] = "with" THEN saddon \cup {c} ELSE saddon \ {c}
    /\ epend' = epend \cup {c}
    /\ UNCHANGED <<adminVars, obaVars, apiVars, mcoaWorks, cacheVars, ctrlVars, footprint, epc, eoba>>

\* a deleted ManifestWork: its objects go one by one, then the work itself
AgentRemoveAddon(c) ==
    /\ work[c] = "terminating" /\ c \in saddon
    /\ saddon' = saddon \ {c}
    /\ epend' = IF c \in operator THEN epend \cup {c} ELSE epend
    /\ UNCHANGED <<adminVars, obaVars, apiVars, mcoaWorks, cacheVars, ctrlVars, operator, footprint, epc, eoba>>

AgentRemoveOperator(c) ==
    /\ work[c] = "terminating" /\ c \in operator
    /\ operator' = operator \ {c}
    /\ epend' = epend \ {c}
    /\ epc' = [epc EXCEPT ![c] = "idle"]
    /\ UNCHANGED <<adminVars, obaVars, apiVars, mcoaWorks, cacheVars, ctrlVars, saddon, footprint, eoba>>

AgentFinish(c) ==
    /\ work[c] = "terminating" /\ c \notin saddon \cup operator
    /\ work' = [work EXCEPT ![c] = "none"]
    /\ UNCHANGED <<adminVars, obaVars, mca, global, mcoaWorks, cacheVars, ctrlVars, spokeVars, epVars>>

\* the collector is owned by the local OBA
CollectGarbage(c) ==
    /\ c \notin saddon /\ "collector" \in footprint[c]
    /\ footprint' = [footprint EXCEPT ![c] = @ \ {"collector"}]
    /\ epend' = IF c \in operator THEN epend \cup {c} ELSE epend
    /\ UNCHANGED <<adminVars, obaVars, apiVars, mcoaWorks, cacheVars, ctrlVars, saddon, operator, epc, eoba>>

Agent(c) == AgentApply(c) \/ AgentRemoveAddon(c) \/ AgentRemoveOperator(c) \/ AgentFinish(c)

-----------------------------------------------------------------------------
(***************************************************************************)
(* The surroundings: administrator, cluster registration, the addon        *)
(* framework that owns the MCOA works, time, failures                      *)
(***************************************************************************)
Change == changes < MaxChanges /\ changes' = changes + 1

\* getMCOPred and GetAddOnDeploymentConfigPredicates let every change of the
\* specification through, but not the pause annotation
SetMode(m) ==
    /\ Change /\ m # mode /\ mode' = m
    /\ Enqueue(IF "paused" \in {mode, m} THEN {} ELSE {ReqAll})
    /\ UNCHANGED <<attached, obaVars, apiVars, mcoaWorks, cacheVars, once, loop, spokeVars, epVars>>

\* getClusterPreds
Attach(c) ==
    /\ Change /\ c \notin attached /\ attached' = attached \cup {c}
    /\ Enqueue({ReqMc(c)})
    /\ UNCHANGED <<mode, obaVars, apiVars, mcoaWorks, cacheVars, once, loop, spokeVars, epVars>>

Detach(c) ==
    /\ Change /\ c \in attached /\ attached' = attached \ {c}
    /\ Enqueue({ReqMc(c)})
    /\ UNCHANGED <<mode, obaVars, apiVars, mcoaWorks, cacheVars, once, loop, spokeVars, epVars>>

\* The import controller deletes the works of a detached cluster; the
\* postpone-delete annotation holds it back until the OBA is gone or ten
\* minutes have passed
ImportDelete(c) ==
    /\ c \notin attached /\ work[c] \in {"with", "without"}
    /\ obaC[c] = "none" \/ c \in stalled
    /\ work' = [work EXCEPT ![c] = "terminating"]
    /\ UNCHANGED <<adminVars, obaVars, mca, global, mcoaWorks, cacheVars, ctrlVars, spokeVars, epVars>>

McoaDeploy ==
    /\ mode = "mcoa" /\ ~mcoaWorks /\ mcoaWorks' = TRUE
    /\ UNCHANGED <<adminVars, obaVars, apiVars, cacheVars, ctrlVars, spokeVars, epVars>>

\* cleanupMCOAManifestWorks deletes the addon; the framework deletes its works
McoaCleanup ==
    /\ mode \in {"enabled", "disabled"} /\ mcoaWorks /\ mcoaWorks' = FALSE
    /\ UNCHANGED <<adminVars, obaVars, apiVars, cacheVars, ctrlVars, spokeVars, epVars>>

\* one minute has passed since the deletionTimestamp
Stall(c) ==
    /\ oba[c] = "terminating" /\ c \notin stalled
    /\ stalled' = stalled \cup {c}
    /\ UNCHANGED <<adminVars, oba, forced, apiVars, mcoaWorks, cacheVars, ctrlVars, spokeVars, epVars>>

\* An API call of the placement controller fails.  cleanSpokesAddonResources
\* logs a failed deletion and goes on, createAllRelatedRes notes the error and
\* goes on with the next cluster, everything else returns the error.
HubError ==
    LET current(c) == IF loop.step = "pick" THEN c \in loop.todo ELSE c = loop.cur IN
    /\ Faults /\ loop.phase # "idle"
    /\ \/ /\ loop.phase \notin {"create", "force"} \/ loop.todo = {}
          /\ ReturnAgain
       \/ /\ loop.phase = "create" /\ UNCHANGED queue
          /\ \E c \in Clusters : current(c) /\ Fail(c)
       \/ /\ loop.phase = "force" /\ UNCHANGED queue
          /\ \E c \in Clusters :
                /\ current(c)
                /\ loop' = IF loop.step = "pick" THEN Call(c, "mca") ELSE Done(c)
    /\ UNCHANGED <<adminVars, obaVars, apiVars, mcoaWorks, cacheVars, once, spokeVars, epVars>>

\* the hub operator restarts: informers start over and their Create events
\* bring a request for every cluster
HubRestart ==
    /\ Faults
    /\ obaC' = oba /\ workC' = work /\ mcaC' = mca
    /\ queue' = {ReqAll} /\ once' = FALSE /\ loop' = Idle
    /\ UNCHANGED <<adminVars, obaVars, apiVars, mcoaWorks, spokeVars, epVars>>

\* a call of the endpoint operator fails, or it restarts
EpError(c) ==
    /\ Faults /\ c \in operator
    /\ EpGoto(c, "idle") /\ epend' = epend \cup {c}
    /\ UNCHANGED <<adminVars, obaVars, apiVars, mcoaWorks, cacheVars, ctrlVars, spokeVars, eoba>>

-----------------------------------------------------------------------------
PlacementStep ==
    \/ LoopDone \/ removeObservabilityAddonInManifestWork \/ deleteManagedClusterAddOn
    \/ createManagedClusterRes \/ createManifestWorks \/ createManifestwork
    \/ \E c \in Clusters : deleteObsAddonObject(c) \/ deleteManifestWorks(c) \/ createObsAddon(c)

Sync(c) == SyncOba(c) \/ SyncWork(c) \/ SyncMca(c)

Environment ==
    \/ \E m \in Modes : SetMode(m)
    \/ \E c \in Clusters : Attach(c) \/ Detach(c) \/ ImportDelete(c)
    \/ McoaDeploy

Failure == HubError \/ HubRestart \/ \E c \in Clusters : EpError(c)

Next ==
    \/ \E r \in Requests : Reconcile(r)
    \/ PlacementStep
    \/ \E c \in Clusters :
          Sync(c) \/ EndpointStep(c) \/ Agent(c) \/ CollectGarbage(c) \/ Stall(c)
    \/ McoaCleanup
    \/ Environment
    \/ Failure

Spec == Init /\ [][Next]_vars

(***************************************************************************)
(* Fairness.  Controllers keep taking requests off their queue, and the    *)
(* queue is first in, first out, so no request is passed over forever.     *)
(* Informers, the work agent and the garbage collector do not stop, and    *)
(* time passes.  Nothing is assumed of the administrator, of failures, or  *)
(* of the endpoint operator: the hub must get by without its answer.       *)
(***************************************************************************)
Fairness ==
    /\ \A r \in Requests : SF_vars(Reconcile(r))
    /\ WF_vars(PlacementStep)
    /\ \A c \in Clusters :
          /\ WF_vars(SyncOba(c)) /\ WF_vars(SyncWork(c)) /\ WF_vars(SyncMca(c))
          /\ WF_vars(Agent(c)) /\ WF_vars(CollectGarbage(c)) /\ WF_vars(Stall(c))
    /\ WF_vars(McoaCleanup)

FairSpec == Spec /\ Fairness

-----------------------------------------------------------------------------
(***************************************************************************)
(* Properties                                                              *)
(***************************************************************************)
\* What the endpoint operator leaves in a managed cluster is covered by its
\* finalizer on the hub OBA, unless the placement controller took that
\* finalizer away itself (deletion stalled, or the addon enabled again).
FootprintHeld ==
    \A c \in Clusters : footprint[c] # {} => HasFinalizer(oba[c]) \/ c \in forced

Finalizer == INSTANCE FinalizerProtocol
    WITH Sites <- Clusters,
         held  <- {c \in Clusters : HasFinalizer(oba[c])},
         dirty <- {c \in Clusters : footprint[c] # {}},
         taken <- forced

\* The two operators, with their caches, retries, restarts and failing calls,
\* implement the finalizer protocol: the endpoint operator takes its finalizer
\* off only when nothing of it is left (initFinalization), works only under it,
\* and the hub's deleteFinalizer is the one way around it.
FinalizerHonoured == Finalizer!FinalizerSpec

\* the placement controller deletes the MCA or the ManifestWork of c
TearsDown(c) ==
    /\ loop' # loop
    /\ \/ c \in mca /\ c \notin mca'
       \/ work[c] # "terminating" /\ work'[c] = "terminating"

\* The placement controller deletes a ManifestWork or an MCA, and with them the
\* endpoint operator and its access to the hub, only once the OBA of that
\* cluster is gone: no finalizer is left on it, and no addon in use loses its
\* resources because of a request about another cluster.  The one way around
\* this is a cache that trails: where this Reconcile listed or deleted the OBA,
\* the cache showed none, or one without its finalizer.
SafeTeardown ==
    [][\A c \in Clusters : TearsDown(c) => oba[c] = "none" \/ c \in loop.misled]_vars

HubClean(c) == oba[c] = "none" /\ work[c] = "none" /\ c \notin mca

\* As docs/diagrams/workflows/observability-placement-delete-flow.md draws it,
\* a detached cluster whose resources are gone from the hub and whose endpoint
\* operator is gone has had its monitoring configuration reverted, unless the
\* endpoint operator was given its minute and did not answer.
NoResidue ==
    \A c \in Clusters \ (attached \cup operator \cup stalled) :
        HubClean(c) => footprint[c] = {}

\* A cluster that is detached, or whose addon is disabled, for good eventually
\* keeps nothing on the hub, also when its endpoint operator stops answering
\* (deletionStalled).
TeardownCompletes ==
    \A c \in Clusters :
        <>[](c \notin attached \/ mode \in {"disabled", "mcoa"}) => <>[]HubClean(c)

HubDeployed(c) ==
    /\ oba[c] \in {"bare", "held"} /\ work[c] = "with" /\ c \in mca
    /\ c \in saddon /\ c \in operator

\* A cluster that stays attached with the addon enabled eventually has its OBA,
\* its ManifestWork and its MCA for good, and runs the endpoint operator.
DeployCompletes ==
    \A c \in Clusters :
        <>[](c \in attached /\ mode = "enabled") => <>[]HubDeployed(c)

=============================================================================
