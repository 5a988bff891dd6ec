----------------------------- MODULE StatusSync -----------------------------
(***************************************************************************)
(* The way of the addon's status from a managed cluster to the hub.        *)
(*                                                                         *)
(* Collectors and the endpoint operator report component conditions on the *)
(* local ObservabilityAddon (OBA).  The status controller, woken by        *)
(* changes of component conditions, aggregates them into the standard      *)
(* conditions and copies the whole status to the OBA on the hub.  The      *)
(* placement controller copies the standard conditions to the              *)
(* ManagedClusterAddOn (MCA), which is what the hub displays.              *)
(***************************************************************************)
EXTENDS AddonStatus

CONSTANTS
    Reporters,       \* the components that report
    Reports,         \* the reasons they report
    Failures,        \* the kinds of failures that happen (see FailureKinds)
    McaLags,         \* whether the informer cache of MCAs may trail
    MaxReports,      \* bound: reports of components
    MaxFailures,     \* bound: failures
    MaxTouches,      \* bound: updates of the hub OBA by other writers
    MaxOverrides,    \* bound: conditions the registration agent writes
    MaxRecreations   \* bound: times the local OBA is deleted and applied again

\* spoke, hub: a call fails with a transient error, or with one that reloading
\* the hub client cures; spokeTerminal, hubTerminal: a call fails with any other
\* error; reload: the hub client cannot be reloaded; restart: the endpoint
\* operator restarts; placement: the hub operator restarts; creation: the status
\* of the new MCA cannot be written
FailureKinds == {"spoke", "hub", "spokeTerminal", "hubTerminal",
                 "reload", "restart", "placement", "creation"}

ASSUME ReportsAssumption == Reporters \subseteq Components /\ Reports \subseteq Reasons
ASSUME FailuresAssumption == Failures \subseteq FailureKinds /\ McaLags \in BOOLEAN
ASSUME BoundsAssumption ==
    /\ MaxReports \in Nat /\ MaxFailures \in Nat /\ MaxTouches \in Nat
    /\ MaxOverrides \in Nat /\ MaxRecreations \in Nat

VARIABLES
    local,      \* status of the local OBA, on its API server
    cached,     \* the informer cache of the endpoint operator
    current,    \* the cache holds the latest version
    pc,         \* where Reconcile of the status controller is
    snap,       \* the status it read from the cache to update it
    valid,      \* what it read is still the latest version
    pending,    \* a request waits
    timer,      \* a request waits for its RequeueAfter
    client,     \* the hub client of the status controller
    hub,        \* status of the hub OBA
    hubSnap,    \* what the status controller read of it
    hubValid,   \* and whether that is still the latest version
    hubCached,  \* the placement controller's informer cache of it
    requests,   \* requests of the placement controller
    statusIsInitialized,
    mca, mcaC,  \* conditions of the MCA, and the cache of them
    count       \* environment steps taken so far, per kind

localVars == <<local, cached, current>>
sctlVars  == <<pc, snap, valid, pending, timer, client>>
hubSnapVars == <<hubSnap, hubValid>>
hubVars   == <<hub, hubSnapVars>>
pctlVars  == <<hubCached, requests, statusIsInitialized>>
mcaVars   == <<mca, mcaC>>
vars == <<localVars, sctlVars, hubVars, pctlVars, mcaVars, count>>

-----------------------------------------------------------------------------
\* Conditions of the MCA that do not come from the OBA: the one it is created
\* with, and those of the registration agent
Others == {"creation", "agent"}

StdConds == [status : {"True", "False", "absent"},
             reason : Reported, by : Components \cup {"addon"} \cup Others]

Absent == [status |-> "absent", reason |-> "none", by |-> "addon"]

By(writer, status) == [status |-> status, reason |-> "none", by |-> writer]

Conditions == [StdTypes -> StdConds]

NoConditions == [t \in StdTypes |-> Absent]

Statuses == [comp : [Components -> Reported], std : Conditions]

NoStatus == [comp |-> [c \in Components |-> "none"], std |-> NoConditions]

\* updateManagedClusterAddOnStatus: the addon is being installed
Initialized(conds) == [conds EXCEPT !["Progressing"] = By("creation", "True")]

\* What the MCA is created with; a failure between its creation and its status
\* leaves it without
CreateManagedClusterAddonCR ==
    {Initialized(NoConditions)} \cup {c \in {NoConditions} : "creation" \in Failures}

EnvKinds == {"report", "failure", "touch", "override", "recreate"}

TypeOK ==
    /\ local \in Statuses /\ cached \in Statuses /\ snap \in Statuses
    /\ hub \in Statuses /\ hubSnap \in Statuses /\ hubCached \in Statuses
    /\ current \in BOOLEAN /\ valid \in BOOLEAN /\ hubValid \in BOOLEAN
    /\ pc \in {"idle", "spoke", "hub", "hubwrite"}
    /\ pending \in BOOLEAN /\ timer \in BOOLEAN /\ statusIsInitialized \in BOOLEAN
    /\ client \in {"ok", "nil"}
    /\ requests \subseteq {"oba", "other"}
    /\ mca \in Conditions /\ mcaC \in Conditions
    /\ count \in [EnvKinds -> Nat]

Init ==
    /\ local = NoStatus /\ cached = NoStatus /\ snap = NoStatus
    /\ hub = NoStatus /\ hubSnap = NoStatus /\ hubCached = NoStatus
    /\ current = TRUE /\ valid = FALSE /\ hubValid = FALSE
    /\ pc = "idle" /\ pending = FALSE /\ timer = FALSE /\ client = "ok"
    /\ requests = {"other"} /\ statusIsInitialized = FALSE
    /\ mca \in CreateManagedClusterAddonCR /\ mcaC = mca
    /\ count = [k \in EnvKinds |-> 0]

Happens(k, bound) == count[k] < bound /\ count' = [count EXCEPT ![k] = @ + 1]

-----------------------------------------------------------------------------
(***************************************************************************)
(* The local OBA                                                           *)
(***************************************************************************)
\* UpdateComponentCondition of some reporter; the user workload collector has
\* no part in the cluster monitoring configuration
ReasonsOf(c) ==
    IF c = "MetricsCollector" THEN Reports
    ELSE Reports \ {"CMOReconcileLoopDetected", "CMOReconcileLoopStopped", "NotSupported"}

Report(c, r) ==
    /\ Happens("report", MaxReports)
    /\ r \in ReasonsOf(c) /\ r # local.comp[c] /\ Accepts(local.comp[c], r)
    /\ local' = [local EXCEPT !.comp[c] = r]
    /\ current' = FALSE /\ valid' = FALSE
    /\ UNCHANGED <<cached, pc, snap, pending, timer, client, hubVars, pctlVars, mcaVars>>

\* The work agent applies the OBA again after it was deleted; the predicate of
\* the status controller drops both events
Recreate ==
    /\ Happens("recreate", MaxRecreations)
    /\ local' = NoStatus /\ cached' = NoStatus /\ current' = TRUE
    /\ valid' = FALSE
    /\ UNCHANGED <<pc, snap, pending, timer, client, hubVars, pctlVars, mcaVars>>

PlatformChangeWakes ==
    pending' = (pending \/ cached.comp["MetricsCollector"] # local.comp["MetricsCollector"])

\* the predicate of SetupWithManager: updates of component conditions only
ComponentChangeWakes == pending' = (pending \/ cached.comp # local.comp)

SyncLocal ==
    /\ ~current
    /\ cached' = local /\ current' = TRUE
    /\ ComponentChangeWakes
    /\ UNCHANGED <<local, pc, snap, valid, timer, client, hubVars, pctlVars, mcaVars, count>>

-----------------------------------------------------------------------------
(***************************************************************************)
(* Status controller                                                       *)
(***************************************************************************)
\* shouldUpdateConditions: the standard condition that is True, the last one
\* in the order of the code, is not the aggregated one
shouldUpdateConditions(s) ==
    LET a == aggregateComponentsConditions(s.comp) IN
    s.std[a.type] # [status |-> "True", reason |-> a.reason, by |-> a.by]

KeepMainConditions(std) == std

resetMainConditionsStatus(std) ==
    [t \in StdTypes |->
        IF std[t].status = "absent" THEN Absent ELSE [std[t] EXCEPT !.status = "False"]]

Aggregated(s) ==
    LET a == aggregateComponentsConditions(s.comp) IN
    [s EXCEPT !.std = [resetMainConditionsStatus(s.std) EXCEPT
        ![a.type] = [status |-> "True", reason |-> a.reason, by |-> a.by]]]

\* updateSpokeAddon up to the update: the OBA of the cache
updateSpokeAddon ==
    /\ pc = "idle" /\ pending
    /\ pending' = FALSE
    /\ IF Reporting(cached.comp) # {} /\ shouldUpdateConditions(cached)
       THEN pc' = "spoke" /\ snap' = cached /\ valid' = current
       ELSE pc' = "hub" /\ UNCHANGED <<snap, valid>>
    /\ UNCHANGED <<localVars, timer, client, hubVars, pctlVars, mcaVars, count>>

\* Reconcile ends, and its variables with it
Return ==
    /\ pc' = "idle"
    /\ snap' = NoStatus /\ valid' = FALSE
    /\ hubSnap' = NoStatus /\ hubValid' = FALSE

\* with a retryable error
Retry == Return /\ pending' = TRUE /\ UNCHANGED timer

\* A conflict brings the controller back to reading the cache, by
\* RetryOnConflict or by a new request
SpokeStatusUpdate ==
    /\ pc = "spoke"
    /\ IF valid
       THEN /\ local' = Aggregated(snap) /\ current' = FALSE
            /\ pc' = "hub" /\ snap' = NoStatus /\ valid' = FALSE
            /\ UNCHANGED <<pending, timer, hubSnapVars>>
       ELSE Retry /\ UNCHANGED <<local, current>>
    /\ UNCHANGED <<cached, client, hub, pctlVars, mcaVars, count>>

\* updateHubAddon reads the hub OBA once, before its retries
updateHubAddon ==
    /\ pc = "hub" /\ client = "ok"
    /\ hubSnap' = hub /\ hubValid' = TRUE /\ pc' = "hubwrite"
    /\ UNCHANGED <<localVars, snap, valid, pending, timer, client, hub, pctlVars, mcaVars, count>>

\* with a terminal error: the request is dropped
Drop == Return /\ UNCHANGED <<pending, timer>>

ReconciledForGood == Drop

\* with RequeueAfter
Reconciled == Return /\ timer' = TRUE /\ UNCHANGED pending

HubStatusUpdate ==
    /\ pc = "hubwrite"
    /\ \/ hubSnap = cached /\ Reconciled /\ UNCHANGED hub
       \/ hubSnap # cached /\ hubValid /\ hub' = cached /\ Reconciled
       \/ hubSnap # cached /\ ~hubValid /\ Retry /\ UNCHANGED hub
    /\ UNCHANGED <<localVars, client, pctlVars, mcaVars, count>>

\* a client that failed to reload is nil: its use panics, the controller
\* runtime turns the panic into an error
HubPanic ==
    /\ pc = "hub" /\ client = "nil"
    /\ Retry
    /\ UNCHANGED <<localVars, client, hub, pctlVars, mcaVars, count>>

RequeueAfter ==
    /\ timer /\ timer' = FALSE /\ pending' = TRUE
    /\ UNCHANGED <<localVars, pc, snap, valid, client, hubVars, pctlVars, mcaVars, count>>

StatusStep ==
    \/ updateSpokeAddon \/ SpokeStatusUpdate
    \/ updateHubAddon \/ HubStatusUpdate \/ HubPanic

\* the placement controller or the endpoint operator updates the hub OBA
HubTouch ==
    /\ Happens("touch", MaxTouches)
    /\ pc = "hubwrite" /\ hubValid /\ hubValid' = FALSE
    /\ UNCHANGED <<localVars, sctlVars, hub, hubSnap, pctlVars, mcaVars>>

-----------------------------------------------------------------------------
(***************************************************************************)
(* Placement controller                                                    *)
(***************************************************************************)
\* obsAddonPred: a changed status is worth a request
SyncHub ==
    /\ hubCached # hub /\ hubCached' = hub
    /\ requests' = requests \cup {"oba"}
    /\ UNCHANGED <<localVars, sctlVars, hubVars, statusIsInitialized, mcaVars, count>>

SyncMca ==
    /\ mcaC # mca /\ mcaC' = mca
    /\ UNCHANGED <<localVars, sctlVars, hubVars, pctlVars, mca, count>>

ChangedToTrue == {t \in StdTypes : hubCached.std[t].status = "True" /\ mcaC[t].status # "True"}

\* updateAddonStatus: a condition with the status the MCA has already is
\* skipped; the patch carries the whole list, made from the cached MCA
Changed == {t \in StdTypes : hubCached.std[t].status \notin {"absent", mcaC[t].status}}

updateAddonStatus ==
    IF Changed = {} THEN UNCHANGED mca
    ELSE mca' = [t \in StdTypes |-> IF t \in Changed THEN hubCached.std[t] ELSE mcaC[t]]

\* Reconcile: updateStatus runs for a request about an OBA, and once after the
\* start for any request
updateStatus(q) ==
    /\ q \in requests /\ requests' = requests \ {q}
    /\ McaLags \/ mcaC = mca
    /\ IF q = "oba" \/ ~statusIsInitialized
       THEN updateAddonStatus /\ statusIsInitialized' = TRUE
       ELSE UNCHANGED <<mca, statusIsInitialized>>
    /\ UNCHANGED <<localVars, sctlVars, hubVars, hubCached, mcaC, count>>

\* needsConfigReferencesInitialization, whenever the default configuration of
\* the addon changes; an MCA read that is not the latest is a conflict
updateManagedClusterAddOnStatus ==
    /\ mcaC = mca
    /\ mca["Progressing"].status = "absent"
    /\ mca["Available"].status # "True" /\ mca["Degraded"].status # "True"
    /\ mca' = Initialized(mca)
    /\ UNCHANGED <<localVars, sctlVars, hubVars, pctlVars, mcaC, count>>

\* The registration agent sets Available by the lease of the endpoint operator;
\* the placement controller gets no request for a change of conditions
RegistrationAgent(status) ==
    /\ Happens("override", MaxOverrides)
    /\ mca["Available"].status # status
    /\ mca' = [mca EXCEPT !["Available"] = By("agent", status)]
    /\ UNCHANGED <<localVars, sctlVars, hubVars, pctlVars, mcaC>>

McaWriter ==
    \/ updateManagedClusterAddOnStatus
    \/ \E status \in {"True", "False"} : RegistrationAgent(status)

-----------------------------------------------------------------------------
(***************************************************************************)
(* Failures                                                                *)
(***************************************************************************)
Fails(k) == k \in Failures /\ Happens("failure", MaxFailures)

SpokeError ==
    /\ pc = "spoke" /\ Fails("spoke") /\ Retry
    /\ UNCHANGED <<localVars, client, hub, pctlVars, mcaVars>>

HubError ==
    /\ pc \in {"hub", "hubwrite"} /\ Fails("hub") /\ Retry
    /\ UNCHANGED <<localVars, client, hub, pctlVars, mcaVars>>

TerminalError ==
    /\ \/ pc = "spoke" /\ Fails("spokeTerminal")
       \/ pc \in {"hub", "hubwrite"} /\ Fails("hubTerminal")
    /\ Drop
    /\ UNCHANGED <<localVars, client, hub, pctlVars, mcaVars>>

ReloadError ==
    /\ pc \in {"hub", "hubwrite"} /\ client = "ok" /\ Fails("reload")
    /\ client' = "nil" /\ Drop
    /\ UNCHANGED <<localVars, hub, pctlVars, mcaVars>>

\* the endpoint operator restarts; the predicate drops the Create events of
\* its new informer
EndpointRestart ==
    /\ Fails("restart")
    /\ cached' = local /\ current' = TRUE
    /\ Return /\ pending' = FALSE /\ timer' = FALSE /\ client' = "ok"
    /\ UNCHANGED <<local, hub, pctlVars, mcaVars>>

PlacementRestart ==
    /\ Fails("placement")
    /\ hubCached' = hub /\ mcaC' = mca
    /\ requests' = {"other"} /\ statusIsInitialized' = FALSE
    /\ UNCHANGED <<localVars, sctlVars, hubVars, mca>>

Failure ==
    \/ SpokeError \/ HubError \/ TerminalError \/ ReloadError
    \/ EndpointRestart \/ PlacementRestart

-----------------------------------------------------------------------------
Next ==
    \/ \E c \in Reporters, r \in Reports : Report(c, r)
    \/ Recreate \/ SyncLocal \/ StatusStep \/ RequeueAfter \/ HubTouch
    \/ SyncHub \/ SyncMca \/ \E q \in requests : updateStatus(q)
    \/ McaWriter \/ Failure

Spec == Init /\ [][Next]_vars

(***************************************************************************)
(* Fairness: informers deliver, timers run out, controllers keep taking    *)
(* requests.  Nothing is assumed of reports and failures.                  *)
(***************************************************************************)
Fairness ==
    /\ WF_vars(SyncLocal) /\ WF_vars(StatusStep) /\ WF_vars(RequeueAfter)
    /\ WF_vars(SyncHub) /\ WF_vars(SyncMca)
    /\ WF_vars(\E q \in requests : updateStatus(q))

FairSpec == Spec /\ Fairness

-----------------------------------------------------------------------------
(***************************************************************************)
(* Properties                                                              *)
(***************************************************************************)
AtMostOneTrue(std) ==
    \A t, u \in StdTypes : std[t].status = "True" /\ std[u].status = "True" => t = u

\* The standard conditions are mutually exclusive, on the managed cluster and
\* on the hub, whatever the reports and the conflicts (resetMainConditionsStatus
\* and the optimistic updates of the status controller).
OneStandardConditionTrue == AtMostOneTrue(local.std) /\ AtMostOneTrue(hub.std)

\* What the MCA has from the OBA
Replicated(conds) == {t \in StdTypes : conds[t].by \notin Others}

AtMostOneReplicatedTrue(conds) ==
    \A t, u \in Replicated(conds) :
        conds[t].status = "True" /\ conds[u].status = "True" => t = u

\* Of the conditions the MCA has from the OBA at most one is True, whatever the
\* registration agent and the creation of the MCA write beside them: the patches
\* of updateAddonStatus, each made of the changed conditions only, do not mix
\* the status before a change with the status after it.  (Of all
\* conditions that is false: the Progressing the MCA is created with,
\* CreateManagedClusterAddonCR, is taken back only by an OBA that has the
\* condition, and one whose first report is a failure has not.)
OneReplicatedConditionTrue == AtMostOneReplicatedTrue(mca)

\* std shows the component condition that matters most
Shows(std, comp) ==
    Reporting(comp) # {} =>
        LET a == aggregateComponentsConditions(comp) IN
        std[a.type] = [status |-> "True", reason |-> a.reason, by |-> a.by]

\* Whenever the status controller has nothing left to do for what its cache
\* holds, the standard conditions of the local OBA show the worst component: no
\* report is lost to a conflict, to a stale cache or to the predicate.
WorstComponentShown ==
    current /\ ~pending /\ pc = "idle" => Shows(local.std, local.comp)

\* Once reports and failures have ceased, the hub OBA shows the status of the
\* managed cluster, and the MCA every condition of it but one the registration
\* agent has overridden since (StatusController replicates the status of the
\* local OBA, the placement controller that of the hub OBA).
StatusReplicated ==
    <>[]( /\ hub = local
          /\ \A t \in {v \in StdTypes : local.std[v].status # "absent"} :
                mca[t].status = local.std[t].status \/ mca[t].by = "agent" )

=============================================================================
