# A TLA+ model of the multicluster observability operator

The repository deploys observability for a fleet of OpenShift clusters. A hub
runs the operator of the `MultiClusterObservability` resource (MCO); every
managed cluster runs an endpoint operator and one or two metrics collectors
that the hub delivers; in front of the metrics on the hub stands a query proxy.
This directory holds TLA+ modules that model the controllers and what they
share, TLC configurations that check them on small instances, and TLAPS proofs,
for every instance, of all safety properties that the passing runs check.

Abbreviations: OBA (`ObservabilityAddon`, one per managed cluster on the hub,
with a copy in the managed cluster), MCA (`ManagedClusterAddOn`), CMO (cluster
monitoring operator of OpenShift, with its ConfigMap), UWL (user workload
monitoring), MCOA (the addon of another repository that replaces the legacy
one when the MCO asks for it), ADC (`AddOnDeploymentConfig`, through which MCOA
is told what to do).

## Inventory

| Component | State | Operations | Talks to |
|---|---|---|---|
| Placement controller (`controllers/placementrule`) | OBA, ManifestWork, MCA and role bindings of every cluster; `managedClustersHaveReconciledOnce`; work queue; informer caches | `Reconcile`: deploy to every attached cluster, tear down detached ones and all of them when disabled, clean orphans | API server of the hub; wakes on MCO, cluster, OBA, ManifestWork, MCA events |
| Placement controller, status part (`status.go`) | conditions of the MCA, `statusIsInitialized` | `updateStatus` copies the conditions of the hub OBA | cached OBA and MCA |
| Endpoint operator (`endpointmetrics/controllers/observabilityendpoint`) | finalizer on the hub OBA, monitoring configuration, collector deployments | `Reconcile`, `initFinalization`, `Update`/`Delete` of the collectors | local API server (cached), hub (with the role bindings beside the MCA) |
| CMO watcher (`endpointmetrics/pkg/openshift/cmowatcher.go`) | leaky bucket, `checkedAtLeastOnce` | `CheckRequest` detects that another operator keeps undoing the configuration | component conditions |
| Component status (`operators/pkg/status`) | component conditions of the local OBA | `UpdateComponentCondition` with a table of allowed transitions | every reporter of the managed cluster |
| Status controller (`endpointmetrics/controllers/status`) | standard conditions of the local OBA; the hub OBA's status; the hub client | aggregate, update, replicate, requeue | local OBA (cached), hub OBA (direct) |
| Collector workers (`collectors/metrics/pkg/forwarder`) | count of failed forwards, token, shards | `forward`, report of success and failure, renewal of the token | Prometheus, hub, component conditions |
| Collect rules (`collectrule/evaluator.go`) | pending and firing rules, an extra forwarder | `evaluate`, `startWorker`, `Reconfigure` | Prometheus, forwarder |
| MCO controller (`controllers/multiclusterobservability`) | operands on the hub, last storage sizes, tenant UID, finalizer of the MCO | render and deploy, storage changes, finalization, cleanup of MCOA works | API server; starts the other controllers |
| Analytics controller (`controllers/analytics`) | Policies, ConfigMaps, its finalizer; `ComponentState` in memory | right-sizing by Policies of its own, delegation to MCOA | MCO, ADC |
| MCO status controller (`controllers/status`) | conditions of the MCO | derive Ready, Installing, Failed | operands |
| CMO configuration (`ocp_monitoring_config.go`, `controllers/mcoa`) | two ConfigMaps, a marker, variables in memory | merge, revert, migrate | the user and other operators edit them too |
| Certificates (`pkg/certificates`) | CA and leaf secrets | create, renew at 80 % of the lifetime, append old CA, sign CSRs | secrets informer, Observatorium API |
| RBAC query proxy (`src/proxy`) | cached project lists, label allowlist, TLS configuration | filter queries, sync the allowlist ConfigMap, reload certificates | informers, other proxy pods |
| Dashboard loader (`src/loaders/dashboards`) | map from ConfigMaps to dashboard UIDs | sync, retry, orphan sweep | Grafana |
| Deployer and renderer (`pkg/deploying`, `pkg/rendering`) | none of their own | create, update, apply, undeploy, each kind in its way | API server |
| API types, webhook, service monitors, hypershift and MicroShift support | none of their own | content of manifests | – |

What is hard in this system:

* *Several writers, one object.* The hub OBA is written by the placement
  controller, the endpoint operator and the status controller; component
  conditions by the endpoint operator, its watcher and every worker of two
  collectors; the MCO's finalizers and the ADC by two controllers; the
  monitoring configuration by the user and by the operators of several hubs;
  the label allowlist by the user and every proxy pod. Some of them rely on
  optimistic concurrency, some overwrite, and most read through a cache that
  trails.
* *Events are filtered.* Predicates drop most events, so a request that is lost
  or an error that is only logged may never be made up for.
* *Teardown is a conversation.* The endpoint operator must undo its changes
  before its delivery vehicle, the ManifestWork, is deleted, and the hub has to
  carry on without it when it does not answer for a minute. Deleting the MCO
  takes two controllers with a finalizer each.
* *Everything restarts.* Operators, collectors, proxies and the loader lose
  what they keep in memory at any step (last storage sizes, tenant UID, tracked
  dashboards, the right-sizing state); caches come back with Create events that
  some predicates drop.
* *One write makes another one due.* Where the second write is found out by
  comparing before the first, a failure in between loses it.

The hazards, each at its line and with the properties that would catch it, are
in `PROJECT.json`.

## Modules

| Module | What it models |
|---|---|
| `FinalizerProtocol` | abstract: what a finalizer promises |
| `AddonLifecycle` | placement controller and endpoint operators: deployment and teardown; implements `FinalizerProtocol` |
| `AddonStatus` | vocabulary of the status: reasons, `componentTransitions`, priorities, `aggregateComponentsConditions`. No variables; shared by the next two |
| `CollectorStatus` | who reports component conditions: operator, watcher, workers |
| `StatusSync` | how they get from the local OBA to the hub OBA and the MCA |
| `McoLifecycle` | MCO and analytics controller: deployment, MCOA, right-sizing, finalization; their steps are `FinalizerProtocol`'s |
| `HubOperands` | second half of the MCO controller's Reconcile: routes, endpoints, Observatorium resource, data sources |
| `StorageResize` | changes of storage sizes and classes |
| `McoStatus` | conditions of the MCO |
| `Deployer` | create and update of rendered objects of every kind, Undeploy |
| `CertRotation` | CA, leaves, their renewal, deletion and restoration |
| `DashboardLoader` | worker, queue and sweep against Grafana |
| `CollectRules` | rules that pend, fire and expire and the forwarder they start |
| `MetricsForwarder` | the round of one collector worker and the renewal of its token |
| `CmoConfig` | the two monitoring ConfigMaps with their user and several operators |
| `LabelAllowlist` | the label allowlist of the proxies |
| `QueryProxy` | project cache and what a query is restricted to |
| `UpstreamTls` | reload of the proxy's client certificates |
| `MCAddonLifecycle`, `MCStatusSync`, `MCCollectorStatus` | the same for TLC, with model values |
| `System` | the thirteen modules from `McoLifecycle` on, as parts of one specification: its properties, and what is assumed of the constants |
| `MCSystem` | the values of the constants of `System` for TLC |
| `AddonLifecycleProofs`, `StatusSyncProofs`, `CollectorStatusProofs` | theorems and proofs about the module of that name |
| `LifecycleProofs` | about `McoLifecycle` |
| `HubProofs` | about `StorageResize`, `Deployer` and `HubOperands` |
| `ManagedClusterProofs` | about `MetricsForwarder`, `CollectRules` and `CmoConfig` |
| `CertDashboardProofs` | about `CertRotation` and `DashboardLoader` |
| `SystemProofs` | about `QueryProxy`, `UpstreamTls`, `LabelAllowlist` and `McoStatus`; for all parts of `System`, their types and `NothingMissed` |

How they meet: `AddonLifecycle` takes the mode of the MCO as given, which
`McoLifecycle` produces (enabled, disabled, MCOA); one bit of its `footprint`
stands for what `CmoConfig` does to the ConfigMaps, another for the collector
of `CollectorStatus`; the conditions `CollectorStatus` reports are the input of
`StatusSync`; a failing round of `MetricsForwarder` is the failed forward of
`CollectorStatus`; `Deployer` is what one object goes through in a `deploy`
step of `McoLifecycle` and `HubOperands`.

In all modules one `Reconcile` is not one step. A variable says where it is,
another keeps what it read, and each API call, or each stretch of the code
between two places where somebody else's step matters, is an action of its own,
named after its function. Errors end it the way the code does: returned errors
queue the request again, logged ones do not. Restarts empty what is kept in
memory. Variables marked as ghost or history are read by properties only.

### AddonLifecycle

Every object is reduced to what the controllers distinguish. An OBA is absent,
`bare`, `held` by the endpoint operator's finalizer, or `terminating` under it.
A ManifestWork is absent, carries the OBA (`with`) or does not (`without`), or
is `terminating` until the work agent has removed what it delivered. MCA and
role bindings come and go together. The trace of the endpoint operator in a
cluster (`footprint`) consists of the edited monitoring configuration, with
its bindings and CA, and the collector.

One `Reconcile` of the placement controller is not one step. The record `loop`
says in which loop it is (create, clean, force, orphan, leftover: the loops of
`createAllRelatedRes`, `cleanSpokesAddonResources` and `cleanOrphanResources`
in their order), which namespaces it listed when it entered it, and which call
it makes next; every API call is an action of its own, named after its
function. Everything else happens in between. The lists are taken from the
caches `obaC`, `workC`, `mcaC`; an informer step (`SyncOba`, `SyncWork`,
`SyncMca`) brings a cache up to date and raises the requests that the
predicates let through, with the shape the code gives them (all clusters, a
cluster without namespace, a namespace).

The endpoint operator's `Reconcile` is split in the same way (`epc`). It
reaches the hub only while its role bindings exist (`HubAccess`). Errors are of
two kinds: those the model produces by itself (a conflict, an object that is
gone, lost access) and injected ones (`HubError`, `EpError`), which follow the
error paths of the code: a failing cluster does not stop the others in
`createAllRelatedRes`, a failing deletion is logged in
`cleanSpokesAddonResources`, everything else returns and is queued again.
Restarts empty the memory and reload the caches. The history variable
`loop.misled` holds the clusters of which a trailing cache has told this
Reconcile that their OBA is gone, or free of its finalizer; only `SafeTeardown`
reads it.

External parts, modelled from how the code uses them: API server (finalizers,
optimistic updates), informer caches, work agent, garbage collector, the import
controller with its `postpone-delete` annotation, the addon framework of MCOA.

### CollectorStatus

`UpdateComponentCondition` of each writer is a call with two steps, read and
write (`fetchAddon`, `StatusUpdate`), and a number of attempts. The set `valid`
holds the writers whose copy is the latest version, which is what a resource
version amounts to. The endpoint operator reads a cache, the collectors do not.
`Reconcile` of the operator is followed through `CheckRequest`, `Update` for
the platform and for the UWL collector; its deployments are `absent`, `off`
(no replicas), `on` or `outdated` (pods to be replaced). The bucket leaks in a
goroutine of its own. A worker counts its failures from zero to two; the third
one in a row is reported and resets the counter. `streak` is a history variable:
it counts what the property speaks about, independently of the code's counter.

### StatusSync

A `Report` changes the local OBA, whichever component made it (CollectorStatus
says which reports there can be). The status controller reads its cache,
updates the local OBA (`updateSpokeAddon`, `SpokeStatusUpdate`), reads the hub
OBA once and replaces its status (`updateHubAddon`, `HubStatusUpdate`); what it
writes there is its cached local OBA. `current`, `valid` and `hubValid` stand
for resource versions. `Retry`, `Drop` and `Reconciled` are the three ways
`Reconcile` ends: an error that is queued again, a terminal error, and success
with `RequeueAfter`. The placement controller copies conditions that have a
new *status* to the MCA. A hub client that failed to reload is nil.

The MCA starts as `CreateManagedClusterAddonCR` leaves it: with Progressing
True, or without conditions where the write of its status has failed
(`creation`). `updateManagedClusterAddOnStatus` comes back whenever the default
configuration of the addon changes and sets Progressing again where no condition
says otherwise; the registration agent writes Available. `by` says of each
condition of the MCA where it comes from, so that the properties can tell what
was copied (`Replicated`) from the rest.

### FinalizerProtocol and the refinement

`FinalizerProtocol` knows neither caches nor requests nor Reconciles: sites that
are under the finalizer (`held`), sites where something is left (`dirty`), and
sites whose last finalizer was taken by force (`taken`). A site gets dirty
only while it is held or taken, and the finalizer is released only where
nothing is left; `Take` is the one way around it. Two modules use it:

| FinalizerProtocol | AddonLifecycle | McoLifecycle |
|---|---|---|
| `Sites` | clusters | the two controllers, which have a finalizer each |
| `held` | clusters whose hub OBA carries the finalizer (`HasFinalizer(oba[c])`) | controllers whose finalizer the MCO resource carries |
| `dirty` | clusters with a footprint | `mco`: the ManifestWorks of MCOA or the ClusterManagementAddOn they are made for; `analytics`: Policies or right-sizing ConfigMaps |
| `taken` | `forced`: clusters whose finalizer `deleteFinalizer` removed | none: nobody takes them |

`AddonLifecycle` implements the protocol: `FinalizerHonoured` is that
specification as a property. The controllers of the MCO resource follow it step
by step only (first half of `FinalizersHonoured`): a patch of the one may drop the other's
finalizer (`overruled`, below), after which nothing is promised. Both properties
are checked by TLC and proved.

### McoLifecycle

The MCO resource is a record (there, deleting, finalizers, spec), and `cache`
its copy in the informer. `mpc` and `apc` say where the Reconcile of each of
the two controllers is, `snap` what it read when it started. A patch of the
finalizers writes the whole list (`Patch`), so that it may drop the other
controller's, or bring it back (`overruled` remembers either). MCOA appears as its ClusterManagementAddOn,
ManifestWorks, addon manager and ADC, the right-sizing as the set of objects
(component, namespace, Policy or Placement or binding). Spec changes, deletion
and recreation are the user's; a call of either controller can fail, and the
operator can restart anywhere.

### HubOperands

Continues where `McoLifecycle!deployOperands` stands for the whole: the steps of
`Reconcile` from the namespace label to the leftovers of earlier versions in
their order (`hubStep`), each comparing with what is there. Content is reduced
to whether it is what was written, and to the two values that distinguish two
specs. Pods carry the content they were started with; a restart follows the
write of a secret. Deleting the Observatorium resource lets the garbage
collector take stores and API.

### StorageResize, McoStatus, Deployer

`StorageResize` follows `HandleStorageSizeChange` through components one call at
a time, with StatefulSets and claims that the cluster's controllers delete,
create and expand, and the Observatorium operator between. `McoStatus` has the
read, evaluate and write steps of the status controller and the events that
wake it. `StorageResize` counts, for each component, the changes of the class
that no completed `HandleStorageSizeChange` has used up (`lossesDue`).

`Deployer` follows one object of every kind through Deploy and
Undeploy; a kind is characterised by its comparison (`DeepDerivative`, labels,
data) and its way of writing (update with or without the version read,
server-side apply with or without force). A ClusterManagementAddOn that is there
is not rendered again (users manage it from then on); Reconcile only gives it the
link to Grafana (`syncMCOACMAGrafanaLink`). MCOA's PrometheusRule without labels
makes the write panic, which ends Reconcile like an error (`updatePrometheusRule`).

### CertRotation

Certificates are a number (of the key that signed) and an age in ticks; a CA
secret is a record of the certificate that signs, the first in the file, and the
set of those behind it, whose order nothing looks at; a leaf is a record too. `CreateObservabilityCerts`
is followed call by call (`certStep`); the informer's resync looks at every
secret between two ticks. Deletion of a secret starts the loop of `onDelete`,
which may end without success (`GiveUp`).

### DashboardLoader

ConfigMaps name dashboards; the worker takes keys from the queue, reads the
ConfigMap (`WorkerReads`) and later, under the lock, changes Grafana
(`WorkerHandles`). The sweep takes its list of dashboards (`SweepLists`), reads
the ConfigMaps (`SweepScans`) and deletes (`SweepDeletes`) under the same lock,
but the ConfigMaps go on changing: what it deletes follows from `listed` and
`expected`, not from what they say by then. Folders that cannot be listed are
none for the worker and the sweep, which goes on. A ConfigMap whose retries have
run out is in `abandoned` until the worker handles it again. Grafana's search
returns `searched`, which `Index` brings up to date. Any call may fail, any number of retries may be used
up, and the loader may restart.

### CollectRules, MetricsForwarder

`CollectRules` evaluates in one step all series that the expressions return
(`truth`), as the code does in one pass; `held` and `gone` count, independently
of the code's `pending` and `resolved`, what the property speaks about.
`MetricsForwarder` is the round of one worker (read, evaluate, write batches
with retries, count) beside `autoRenew`.

### CmoConfig

A ConfigMap is a record: whether it is there and parses, whether
`prometheusK8s` and the user's own settings are in it, and the sequence of its
alertmanager stanzas. (The order matters: an operator puts its hub's stanza at
the end, and writes when that has changed anything.) `actual` are the ConfigMaps, `copy` the operators' cached
copies, `behind` the events under way. Legacy operator and MCOA agent run
beside one another for different hubs. Writes with an old copy are refused, a
delete is not: that is the code's `Delete` without preconditions. A failing
deletion of the marker is only logged (`unset`), a failing read of it fails the
Reconcile (`CmoError`).

### LabelAllowlist, QueryProxy, UpstreamTls

`LabelAllowlist`: per pod, the event handlers, the channel of one place
(`signal`), the debounce timer and the synchronizations. Each of them reads the
ConfigMap, updates it with the version read (or starts again, `Conflicting`),
and sets the memory, in three steps; stopping the timer does not await one that
runs, so a pod may have several (`syncs`, up to `MaxSyncs`), and `overtaken` says
that the last one started beside another. `QueryProxy`: the cache entry of one
user through check, review and modification of one request after the other, with
clusters and projects that change between them; a request carries a query, a
malformed one, something else, or nothing, and only a query is ever restricted.
`UpstreamTls`: the swap of the files against the steps of
the polling goroutine, which resolves the paths before it reads the CA and the
key pair.

### System

Thirteen modules share no state. `System` instantiates each, declares the
constants and variables of all, and lets the initial state choose the one that
is followed (`part`); the variables of the others keep the value `Off`. A
property of a part is that of its module under the condition that the part is
on. One run thus checks all of them, with a sum and not a product of states, and
a theorem about a part is one about `SystemSpec`. `MCSystem` and the
configurations of the runs give the constants values.

## Runs

All runs check a closed system in which the environment has a bounded number
of moves (`Max...` constants); the bounds are part of the guards of
environment actions and faults only, controllers are never cut off. The system
comes to rest when the environment has used up its moves and everything is
deployed or gone, so deadlock checking is off.

| Run | Checks | Instance |
|---|---|---|
| `lifecycle` | `SafeTeardown`, `FinalizerHonoured` | one cluster, all four modes, two changes, failures and restarts anywhere, caches up to date when the controller reads them |
| `liveness` | `TeardownCompletes`, `DeployCompletes` | one cluster, legacy addon and MCOA, two changes, fairness |
| `residue` | `NoResidue` is violated | three changes: detach, attach, detach |
| `status` | `WorstComponentShown`, `OneReplicatedConditionTrue`, `StatusReplicated` | two components, two reports of three reasons, a retryable failure or a restart of the hub operator, another writer of the hub OBA, one condition written by the registration agent, fairness |
| `status_faults` | `OneStandardConditionTrue` | every kind of failure and restart, a recreated local OBA, trailing caches everywhere |
| `status_reload` | `StatusReplicated` is violated | the hub client fails to reload once |
| `collectors` | `StrictTransitions`, `FailedAfterThree` | trailing cache, lost reports, failed updates, worker restarts, UWL or Prometheus switched, one worker for each collector, four forwards |
| `loop` | `LoopRecovers`, `DisabledShown` | two fights over the configuration, a restart, a failed Reconcile or a failed update, metrics switched or the pods changed once, fairness |
| `update_failed` | `UpdateRecovers` is violated | one failed update |
| `parts` | what each part of `System` may never do (table below) | see below |
| `parts_liveness` | what they must bring about | see below; fairness |
| `delegation` | `DelegationIsExclusive` is violated | one restart before the delegation |

The parts, with the properties of `parts` and, after the semicolon, of
`parts_liveness`:

| Part | Properties | Instance |
|---|---|---|
| `McoLifecycle` | `ManagerOutlivesWorks`, `FinalizersHonoured`; `DeletionCompletes`, `RightSizingSettles` | one kind of right-sizing, two namespaces, two changes, a failing call or a restart; for liveness three specs that switch MCOA, namespace and delegation |
| `StorageResize` | ; `DataKept`, `StorageSettles` | one component, two sizes and classes, two changes, a failing call or a restart |
| `McoStatus` | `NothingMissed` (`NoChangeMissed`); `StatusSettles` | four states of the operands, one missing CRD, changes of spec and pause, misreads in the safety run |
| `Deployer` | `NoNeedlessUpdates`, `OthersKept`, `NothingMissed` (`NoDriftMissed`); `ObjectSettles` | all kinds, two versions, three edits, one failure |
| `CertRotation` | `NothingMissed` (`ClientsAccepted`); `AcceptedAgain` | two leaves, one deletion, one fault, any number of ticks |
| `DashboardLoader` | `SweepSparesNamed`; `DashboardsSettle` | two ConfigMaps that share a folder and a dashboard; three changes and no retry for safety, two and one for liveness; a fault |
| `CollectRules` | `ForwardsWhatFires`, `NeverTooEarly` | two series of one rule that share a matcher, one of another, five flips |
| `MetricsForwarder` | `TokenValid` | three matchers, one, two or four workers, three faults |
| `CmoConfig` | `OneStanzaEach`, `SettingsKept`, `NothingMissed` (`NoStanzaMissed`); `ForwardingSettles` | a legacy operator and an agent, configurations earlier versions left; an edit of the user and a fault for safety, two changes and neither for liveness |
| `LabelAllowlist` | `NothingMissed` (`NoLabelMissed`); `AllowlistSettles` | one cluster, one label; two pods that synchronize once at a time and a fault for safety, one pod whose synchronizations overlap for liveness |
| `QueryProxy` | `ProjectsCurrent`, `UnmodifiedMeansAll` | two clusters, four answers of the review, an expiry of two ticks |
| `UpstreamTls` | `NothingMissed` (`NoSwapMissed`); `CertificatesSettle` | four swaps, two failing reads |
| `HubOperands` | `TenantKept`, `ReconcileRepairs`, `NothingMissed` (`NoEditMissed`); `HubSettles` | two specs that differ in everything, one edit, one failing call or restart |

`SystemTypeOK` is the conjunction of their type invariants. It and the types of
the three core modules are proved for every instance (below).

`DataKept` is a safety property; it is with the liveness run for its bounds, as
it takes two changes of the class to tell a loss too many.

`NothingMissed` is one conjunct for each of seven parts, named in parentheses
above: the safety half of the part's liveness property. Whenever a controller is
at rest, with no request, timer or event outstanding, what it is there for is
the case. It fails in the state in which a change has been forgotten, where the
liveness property needs the whole behaviour, and unlike that it can be proved.
What it leaves out, that the controller comes to rest, is checked under fairness.
Each conjunct has a mutant of its own part that breaks it.

Why the bounds are enough to meet the interesting cases: two changes make a
detach followed by an attach, or a switch to MCOA and back, at any two points
of a teardown; the orphan lists need one cluster that has and one that has not
been deployed, and the second is what one cluster is before the first change.
Two reports make one condition follow another on the same component and one
component hide another. A bucket of capacity two with a reset level of one has
the three regions of the real one (empty enough to reset, in between, full) and
overflows by two fights on top of the operator's own first edit. Four forwards
are the shortest sequence in which a success between failures matters. In the
parts, one edit or change meets a Reconcile that is under way, one failure a
pair of writes that belong together; two ConfigMaps, operators or pods are
enough to be in each other's way; an expiry of two ticks distinguishes new, old
and expired, and five flips let a series come, go, and come again before its
expiry. The mutants in `PROJECT.json` show for each property of a passing run a
plausible mistake that the bounds are large enough to catch.

### Fairness

* `AddonLifecycle!Fairness`: the work queue is first in, first out and a worker
  takes from it forever, so each request that keeps being there is taken
  (strong fairness of `Reconcile(r)`, since the controller is busy in between);
  controller steps, informers, the work agent, the garbage collector and the
  passing of time are weakly fair. Nothing is assumed of the administrator, of
  failures, or of the endpoint operator: both liveness properties are about the
  hub, which has to get by without its answer (`deletionStalled`).
* `StatusSync!Fairness`: informers deliver, timers expire, both controllers
  take requests.
* `CollectorStatus!Fairness`: the same for the endpoint operator; calls end;
  the bucket leaks (its ticker). Forwards are not assumed to happen.
* The parts (`Fair`, `StorageFair`, ... in their modules, all of them in
  `FairSystemSpec`): weak fairness of each controller's step (a worker of the
  work queue goes on with the Reconcile it has begun and takes the next
  request), of informers, timers, tickers and goroutines that loop, of time, and
  of the cluster's own controllers that create pods, claims and StatefulSets.
  Users, faults, and events outside are never fair. Nobody has to come twice:
  each kind of step stays enabled until it is taken.

### What the violations show

* `residue`. A cluster is detached; the OBA terminates and waits for the
  endpoint operator. The cluster is attached again before that: `createObsAddon`
  takes the finalizer off, the OBA is gone, and the same `Reconcile` goes on to
  `cleanOrphanResources`, which finds a namespace with a ManifestWork and
  without OBA and deletes the ManifestWork. If the cluster is detached again
  before the next deployment, the endpoint operator goes without having
  reverted anything. The delete flow in
  `docs/diagrams/workflows/observability-placement-delete-flow.md` reverts the
  configuration first.
* `status_reload`. `updateHubAddon` assigns the result of `Reload` to
  `s.HubClient` before it looks at the error. After a failed reload the client
  is nil and every later Reconcile panics, so the hub keeps an old status.
* `update_failed`. An update that fails before it reaches the deployment is
  reported as `UpdateFailed`; the successful retry changes nothing, and reports
  nothing. `UpdateFailed` cannot be followed by `ForwardSuccessful` either, so
  the addon stays Degraded although it works.
* `delegation`. Before the first delegation to MCOA,
  `hasPolicyResourcesToCleanup` looks for MCO's own Policies in the namespace
  that `ComponentState` holds in memory. After a restart that is the default
  namespace, so Policies bound elsewhere are not found, and stay beside MCOA's.
  The comment at the cleanup that is thereby skipped says that namespaces are
  derived from the spec because the state in memory "may be stale after a
  controller restart".

### Limits of the properties

Some properties hold under conditions that the code does not guarantee. The
runs are made under these conditions, the theorems state them as hypotheses
(`SafeTeardown` and `OneReplicatedConditionTrue` have them in part in
themselves), and changing the constants named (with four reports for a trailing cache of MCAs)
shows the exception:

| Property | Holds | Exception |
|---|---|---|
| `SafeTeardown` | clusters not in `loop.misled` | with a trailing cache of OBAs (`Lag = {"oba"}`) `cleanOrphanResources` takes a cluster whose OBA was just created for an orphan, and `cleanSpokesAddonResources` one whose deletion it sees too early for gone; only the Reconcile that was shown the old list is excused |
| `WorstComponentShown` | no `restart`, no `spokeTerminal` in `Failures` | a report seen only in the first list of a restarted informer is dropped by the predicate's `CreateFunc` |
| `OneReplicatedConditionTrue` | `MaxRecreations = 0`; conditions the MCA has from an OBA | `updateAddonStatus` never removes a condition of the MCA that a recreated OBA does not have, nor the registration agent's, nor the Progressing it was created with: when the first aggregate copied is Degraded and the OBA has no Progressing, the MCA shows both as True until it has (TLC finds it when `OneReplicatedConditionTrue` is stated of all conditions), although `doc/design/addon-status.md` of the endpoint operator says that only one of them can be |
| `StatusReplicated` | `~McaLags`, no terminal errors; conditions the OBA has and the registration agent has not overridden | the agent's Available stays until the OBA's changes; with a trailing cache of MCAs a change is compared with an old MCA and skipped; after a terminal error nothing but the next report wakes the controller; a patch of the MCA that fails is only logged |
| `LoopRecovers` | no `report` in `Failures` | a failed report of `CMOReconcileLoopStopped` is logged and not repeated |
| `DisabledShown` | `~CacheLags`, no `report` in `Failures` | scaling to zero raises no event, so a report of Disabled that is skipped or lost is not repeated |

`StatusReplicated` compares the status of conditions, not their reasons: the
placement controller does not copy a reason that changes alone. No promise is
modelled for `NotSupported`, which is left only by chance, and for the end of a
pause, which wakes neither the placement controller nor the MCO status
controller.

In the parts such behaviours are either excluded by a ghost variable or left to
runs without the fault:

* `McoLifecycle`. The two controllers patch the whole list of finalizers
  without a resource version, and one may drop the other's (`overruled`). It may
  also bring it back, and that is no better: with four changes TLC finds a
  Reconcile that releases its finalizer with a list it read in an earlier life of
  the resource, over a deletion and a re-creation, after which the works outlive
  the addon manager. A delegation that meets another namespace in memory than in the spec leaves
  Policies behind (`misplaced`; run `delegation`). A component whose cleanup
  failed after its state was replaced is not retried, and an ADC written from an
  old copy may override the delegation when right-sizing is off; both need a
  fault or a spec that the liveness run does not have.
* `StorageResize`. A size changed while the operator is down is the first one
  its next Reconcile sees, and one that failed half way and was taken back looks
  like no change (`missed`). A retry after a failure throws away again what
  was recreated in between, since `LastStorageConfig` is still the old one: once
  more for each failure, which `DataKept` does not count. Of the Thanos components
  only that they run with a claim is promised.
* `McoStatus`. A read that fails, a conflict on an old copy that looks right and
  the end of a pause are not retried (`overlooked`).
* `Deployer`. `ObjectSettles` leaves out kinds nobody watches, objects that are
  skipped or owned by another operator, and a ServiceMonitor, whose update
  carries no resource version and is refused for good. Of an existing
  ClusterManagementAddOn it promises the link only, and of MCOA's PrometheusRule
  nothing while somebody has removed all its labels, which makes every Reconcile
  panic.
* `CertRotation`. `ClientsAccepted` leaves out what `onDelete` gave up or lost
  in a restart, and a restart of the API that failed (`forgotten`);
  `AcceptedAgain` then holds all the same.
* `DashboardLoader`. A dashboard that a ConfigMap came to name after the sweep has
  read the ConfigMaps is deleted like an orphan; the worker writes it again, for
  the change has queued the ConfigMap, unless its retries run out (`abandoned`).
  A dashboard Grafana's search does not list yet can go with
  a folder that looks empty, until the next resync brings it back.
* `CollectRules`. A cancelled forwarder is assumed to return before the next one
  starts, for it calls the package variable `cancel` when it does, which by then
  may be its successor's. A forwarder that cannot be started or configured is
  logged and not tried again before the next change (`startFailed`).
* `CmoConfig`. The revert deletes an emptied ConfigMap without a precondition,
  and what a user wrote since the read goes with it. An agent does not see a
  ConfigMap that is missing when it starts (`deaf`); a marker that outlives an
  enabling, or a revert that sees an old copy, leaves a stanza, and so does an
  enabling that finds its stanza in an old copy, writes nothing and leaves the
  flag of the revert before it (`cut`). The last takes four changes of one hub;
  TLC finds it when `cut` is narrowed and `MaxHubChanges` raised. A
  configuration that does not parse is never repaired. That operators of two
  hubs undo each other's stanza is what `CollectorStatus` detects; here each hub
  has a stanza of its own.
* `LabelAllowlist`. A failed synchronization is logged and waits for the next
  change (`syncLost`). One that has read, or written, an older list, and that the
  timer's next one does not await, may set it in memory last; the ConfigMap is
  right, but the pod answers from the older list until the next change, although
  the comment in `syncAllowlistConfigMap` says that setting the list "ensures the
  local state is up to date" (`overtaken`; TLC finds it when `NoLabelMissed` is
  stated without it, for one pod with `MaxSyncs = 2`).
* `QueryProxy`. A request without a query, or one whose values hold neither
  `query` nor `match[]`, is passed on unmodified for every user, as
  `modifier_test.go` has it; `UnmodifiedMeansAll` is about queries. One request is
  served at a time: concurrent ones of one token share the cache entry.
* `UpstreamTls`. A swap of the files while the transport is made is not noticed
  before the next one (`early`).
* `HubOperands`. Four follow-up writes are found out only by comparing before
  the first write, or not at all: the deletion of surplus stores, the restart of
  the API and of Grafana (also skipped when no pod is ready), and the correction
  of an OAuth client made without a host (`undone`). A removed TLS section of the
  API's route is not restored, routes are not watched, a namespace label of
  "false" is left, and an invalid certificate of the user ends every Reconcile
  before the rest of it.

## Proofs

Eight modules hold theorems, checked by TLAPS down to the last leaf. They hold
for every set of clusters, components, series, hubs, operands or dashboards, and
for every bound, under named assumptions on the constants and no others.

### Assumptions

`AddonLifecycle`, `StatusSync` and `CollectorStatus` declare theirs
(`ClustersAssumption`, ...): the sets are finite or of the right kind, bounds are
natural numbers, the bucket's reset level lies below its capacity. `System` has

| Assumption | Says | Because |
|---|---|---|
| `LifecycleAssumption` | `Specs` are specs, there is one, and the default namespace is a namespace | the CRD's schema |
| `ForwarderAssumption` | the token in the file is renewed, and failing reads repeated, within its life | the kubelet renews it at 80 %; `autoRenew` starts at what `Remaining` leaves. A collector that fails to read the file more often than that does send an expired token |
| `WorkersAssumption` | matchers come in lists, and numbers of workers are numbers | type |
| `RulesAssumption` | durations and the expiry are natural numbers with a largest | rules are finitely many |
| `ProxyAssumption` | a review answers for managed clusters and for all clusters | `GetMetricsAccess` |
| `VersionsAssumption` | 0 is no version of a manifest, 1 is | 0 stands for what users write |
| `HubAssumption` | shards are natural numbers | the CRD's schema |
| `CertsAssumption` | the certificates are those of Grafana, the hub and the managed cluster | the ones `CreateObservabilityCerts` and the agent make |
| `CmoAssumption` | users and earlier versions leave ConfigMaps of the right type, stanzas only in a section of a configuration that parses, users no stanza of a hub, earlier versions one for each hub at most, and no hub is called `user` | what the stanzas are read from; a hub's stanza is recognised by the names of its secrets |
| `StatusAssumption` | operands and specs are what their checks tell apart | type |
| `AllowlistAssumption` | lists hold labels | type |
| `DashboardsAssumption` | there are ConfigMaps, finitely many, and they hold dashboards | type |
| `BoundsAssumption` | the bounds of users and faults are natural numbers | they bound the instance, not the code |

### The core

* `AddonLifecycleProofs!TypeCorrect`. `TypeOK` is inductive. It says more than
  types in two places: a Reconcile that is in the middle of a cluster has one
  (`loop.step # "pick" => loop.cur \in Clusters`), and the endpoint operator
  only ever holds an OBA that existed.
* `FootprintAlwaysHeld`: `Spec => []FootprintHeld`. The property is not
  inductive, since it says nothing of an operator that is about to edit the
  cluster. `FootprintIInv` adds: an endpoint operator at a step that edits the
  cluster (`Armed`) works under its finalizer, or the placement controller has
  forced it off. Each placement step either leaves finalizers alone or records
  the cluster in `forced`.
* `LifecycleImplementsFinalizer`: `Spec => FinalizerHonoured`. Each step of
  either operator maps to one of `FinalizerProtocol` or a stutter. The steps that
  edit a cluster need that it is held or taken, which is `FootprintIInv` again;
  the step that releases the finalizer needs that nothing is left, which the
  endpoint operator ensured some steps ago and nobody but itself can undo.
* `TeardownIsSafe`: `Spec => SafeTeardown`, whatever the caches' lag. The
  invariant `TeardownIInv` is about a running Reconcile: the cluster of a pending
  call to delete a ManifestWork or an MCA is `Settled` (`CallInv`), and so is
  every cluster the current loop will treat as an orphan (`ListInv`), although it
  was listed some steps ago; that is, it has no OBA, or this Reconcile was misled
  about it when it looked. This is stable because only `createObsAddon` creates
  OBAs (`GoneKept`), and that belongs to another loop of the same, only,
  Reconcile. With a cache of OBAs that does not trail nothing is ever misled,
  which is the instance of the run `lifecycle`.
* `StatusSyncProofs!TypeCorrect` needs that the status controller is about to
  update only when some component has reported (`SpokeReports`), as otherwise
  the leading component is undefined.
* `StandardConditionsExclusive`: `[]OneStandardConditionTrue` with no
  hypothesis on failures; the cache has to be included (`ExclusiveIInv`), it is
  what is copied to the hub.
* `NoReportLost`: `NoSilentLoss /\ Spec => []WorstComponentShown`. `ShownIInv`
  links the cache to the local OBA: unless a request waits or an update is
  about to be made, the standard conditions show what the cache says, and if
  they differ from the cached ones, then because of an update that made them
  show it.
* `ReplicatedConditionsExclusive`: `MaxRecreations = 0 /\ Spec =>
  []OneReplicatedConditionTrue`. A patch of the MCA takes the conditions whose
  status has changed from the hub OBA and the others from the cached MCA, and a
  mixture of two statuses that are exclusive each need not be. `DisplayedIInv`
  says why it is: along the chain from the local OBA over its cached copy, the
  hub OBA and its cached copy to the MCA, each one has every condition that the
  next one has (`Keeps`), so that none stays behind on the MCA which the patch
  does not set; of the MCA that holds for what it has from an OBA
  (`KeepsReplicated`). A recreated OBA starts without conditions and breaks the
  chain, and TLC finds two conditions true (with `MaxRecreations = 1`).
* `CollectorStatusProofs!TypeCorrect`: the bucket stays within its capacity and
  the counters within their range.
* `TransitionsAreStrict`: `Spec => StrictTransitions`, from the invariant that a
  writer whose copy is the latest version has checked its transition against
  the conditions as they are (`CheckedInv`), and that a cache marked fresh is
  (`CacheInv`).
* `FailedNeedsThree`: `Spec => FailedAfterThree`, since a worker's counter never
  exceeds its streak (`CounterInv`) and a call that reports `ForwardFailed`
  belongs to a worker with a streak of three (`FailedCallInv`).

### The parts

Each theorem is about `SystemSpec` and says of the variables of one part what
`part` makes relevant; the lemmas `...Steps` reduce a step of `System` to one of
the module.

* `LifecycleManagerOutlivesWorks`. `FinalizerInv`: what a finalizer protects is
  there only while the resource carries it (`McoProtected`, `AnalyticsProtected`); what the informer says of it is still
  so or the resource is being deleted (`CacheTrails`); and a controller that is
  on its way to release its finalizer does so for the life of the resource that
  ends (`LeavesForGood`). The last fails once a patch has overruled the other
  controller, and the attempt to prove the properties with only the dropping of
  finalizers excluded led to the counterexample above.
* `LifecycleFinalizersHonoured`. Every step of either controller is one of
  `FinalizerProtocol` for its own finalizer and a stutter for the other's, from
  `FinalizerInv` and the same facts about what each step writes
  (`MovesAreProtocol`, `WorkMoves`, `ReleaseMoves`, `HoldMoves`). The steps that
  take a finalizer off need that nothing is left, which an earlier step of the
  same Reconcile ensured; so when the resource goes, nothing is left of either
  (`DepartsClean`).
* `StorageDataKept`. `LossInv`: the changes of the class that no loss has used up
  suffice for the loss that is due: where the last configuration handled has
  another class than the one asked for, or than the one a running Reconcile works
  for, there is at least one, whatever restarts and failures came in between.
* `ObjectsNoNeedlessUpdates`, `ObjectsOthersKept`. `ReadInv`: between read and
  write the object is as read unless something has written it, and a difference
  from the manifest that was seen is still one, since whoever else writes does
  not write what the manifest says.
* `ObjectsNoDriftMissed`. `DriftInv`: unless an event is on its way, Reconcile is
  where the switch of MCOA sends it, what it has read is the object as it is (or
  somebody else's), and an idle one has left the object as its manifest says
  (a ClusterManagementAddOn with its link).
  It needs `ReadInv`, to which it adds that what is owned is there.
* `OperandsTenantKept`: the receivers' hashring is the API's tenant (`RingInv`).
* `OperandsReconcileRepairs`: the longest proof, by an invariant over all steps
  of a Reconcile. `Progress`: what each step behind it has put right, while
  users leave everything alone, still is. `Remembered`, for every state: where a
  write calls for a second one (restart of the API after the endpoints, of
  Grafana after the data sources, deletion of surplus stores), either the second
  is not due, or its step is next, or it is in `undone`, or what needs it
  differs; so the next Reconcile finds it. `HubTypeOK` is proved with it.
* `OperandsNoEditMissed`. `EditInv`: unless a request waits, a Reconcile works for
  the spec that users ask for now, and each step behind it has left the
  Observatorium resource, or the data sources, right for that spec; an edit of
  what is watched raises a request (`UsersWake`), one of the rest does not touch
  it.
* `CertsClientsAccepted`. `CertMemory`: the issuer of every leaf is in the bundle
  or in the deleted bundle that `onDelete` will add back, and has at least as
  long to live as the leaf (`IssuersTrusted`), because a leaf is signed by a CA
  with a fifth of its life left (`FirstInTime`) and renewed before its own last
  fifth (`LeavesInTime`); a bundle that has changed gets to the API
  (`LoadedFollows`). `KeysDeleted` bounds the keys by the deletions, and makes
  `CertTypeOK` inductive.
* `DashboardsSweepSparesNamed`. `ScanInv`: while a sweep is between its scan and
  its deletions, a ConfigMap either names what it named at the scan, which is
  expected, or is queued, or was given up; the worker cannot have handled it, for
  the sweep holds the lock.
* `CollectorTokenValid`. `TokenInv`: the age of the token and the time until
  the next read never exceed the last moment at which `autoRenew` reads the
  file, but by the reads that have failed.
* `CollectorForwardsWhatFires`, `CollectorNeverTooEarly`. `WorkerInv`: a worker
  that is there is alive and no cancelled one is still to return; `TimesInv`:
  what the code has counted for a series never exceeds what is the case.
* `MonitoringOneStanzaEach`, `MonitoringSettingsKept`. `MapsInv`: neither a
  ConfigMap nor an operator's copy of it has two stanzas of one hub, and a copy
  of which no event is outstanding is the ConfigMap; so a write that is not
  refused changes what is there and not what was there. Taking the hub's own
  stanzas out of a list is defined by ranks (`KeptAt`, `Nth`) instead of by
  recursion, and `RanksAreBijective`, `KeptIsThere` and `UnmanagedStays` prove
  what it keeps. The comment in `CreateOrUpdateCMOConfig` that the filter
  "guarantees we only ever have exactly one active ACM/MCOA alertmanager
  configuration" is the first theorem's, as far as it says "at most".
* `MonitoringNoStanzaMissed`. `StanzaInv`, for every hub. The legacy operator: its
  Reconcile works for what the hub asks for now unless it is queued again
  (`PlanInv`); past its first write the stanza is there unless an event is
  outstanding (`HasInv`); and what it remembers as reverted is reverted, the
  exception being `cut` (`GoneInv`), for nobody else writes its stanza
  (`FreeKept`). The agent is restarted by a change and needs no memory
  (`AgentInv`). The attempt to prove `GoneInv` without the second half of `cut` led
  to the counterexample of four changes above.
* `ProxyProjectsCurrent`, `ProxyUnmodifiedMeansAll`. `CacheInv` is the property
  and the types it needs; `ReviewInv`: what a reviewed request carries grants
  nothing that the review and the cached projects do not, over the expansion of
  the grant for all clusters and the addition of projects (`CombinedGrants`).
* `TlsNoSwapMissed`. `SwapInv`: a reload remembers the paths it saw before it reads
  the first file, and that file is no newer than the second; so the paths agree
  with the links in the end only if no swap came in between. The order is what
  matters: remembered after the files were read, they would hide a swap.
* `AllowlistNoLabelMissed`. `LabelInv`, for any number of overlapping
  synchronizations: whoever changes the ConfigMap raises an event at every pod, an
  event and a new label raise the signal, and one that is served starts a
  synchronization with all labels of that moment. From then on the labels are in
  the ConfigMap or one that runs will bring them (`Brings`), since an update with
  an old list is a conflict; and if it runs alone (`Alone`), what it sets is what
  the ConfigMap has (`Recalls`).
* `StatusNoChangeMissed`. `StatusInv`: the conditions a Reconcile is about to write
  fit the spec it has read (`UpdateFits`, `Fit`), which is the cached one but for
  the pause; with nothing due and nothing overlooked they fit the resource.
* `SystemNothingMissed`: the seven theorems about a part at rest (`...Missed` and
  `CertsClientsAccepted`) together, for every part.
* `SystemTypeCorrect`: `SystemSpec => []SystemTypeOK`, by one lemma `...TypesStay`
  for each part. Most follow from the action alone; the others need more than
  types. `DashboardLoader`: its work queue is typed by the number of ConfigMaps,
  which holds because it has each of them once (`QueueHoldsOnce`), by the
  pigeonhole principle. `MetricsForwarder`: a round never outruns its attempts
  (`RoundInv`), the token's age and timer stay within its life (`TokenInv`), and
  the matchers of a shard are matchers of the configuration (`EveryNth`,
  `Divided`). `CollectRules` needs `TimesInv`, `Deployer` `ReadInv`,
  `CertRotation` `CertMemory`, `QueryProxy` `CacheInv` and `CmoConfig` `MapsInv`.

### Only model-checked

* The liveness properties: temporal reasoning under fairness and `ENABLED` are
  beyond this prover. For seven parts the safety half is proved (`NothingMissed`).
* The violations, which are counterexamples.

`FinalizerProtocol` states safety only, so the refinement is proved in full.

## Not modelled, and why

* API types, defaulting, webhook and conversion: generated or stateless code.
* Concurrent requests of one token in the query proxy, and the checks of
  `preCheckRequest` that only refuse a request.
* The service monitor controller, hypershift, MicroShift and the local cluster
  (which has no OBA and is deployed without a ManifestWork): variants of
  deployed content, without state of their own.
* The content of manifests, rules, allowlists, dashboards and policies; instance
  sizes, images and hub info: data, covered by unit tests.
* The labels for backup, `StorageVersionMigration`, custom alerts: single writes
  that nothing else depends on.
* The CRDs the MCOA agent applies (`crd_manager.go`) and the cleanup jobs, the
  CSR approval and the agent's configuration in `pkg/certificates`.
* HTTP, metric families and transformers, PromQL rewriting, the simulator: I/O
  and text transformations.
* The reload of the collector's configuration file and of the collect rules:
  it rewrites package variables under a running evaluation, a data race whose
  outcomes the build does not bound.
* MCOA's manager and the Observatorium operator belong to other repositories;
  they appear as the few steps the code here relies on.

Pausing of the placement controller is modelled in the safety runs only:
nothing promises that un-pausing raises an event.

## Plan

1. An abstract specification of status replication (a register and its copies)
   that `StatusSync` implements, and one of the ownership of a monitoring
   ConfigMap for `CmoConfig`.
2. At-rest properties, like the conjuncts of `NothingMissed`, for storage and
   dashboards.
3. For the liveness properties, what decreases on the way to rest, and which
   steps stay enabled.
