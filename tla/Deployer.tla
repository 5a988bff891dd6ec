------------------------------ MODULE Deployer ------------------------------
(***************************************************************************)
(* pkg/deploying: how the operators bring one rendered object into the     *)
(* cluster, keep it there and take it away, beside users and other         *)
(* operators that change it too.                                           *)
(*                                                                         *)
(* Deploy reads the object and then writes it; each kind has its own       *)
(* comparison and its own way of writing.  The object is followed through  *)
(* many Reconciles; its kind is chosen once.                               *)
(***************************************************************************)
EXTENDS Integers

CONSTANTS
    DeployedKinds,  \* the kinds that are considered
    Skipped,        \* of those, the ones rendered with skip-creation-if-exist
    Versions,       \* of the rendered object, 1 the first: an upgrade has the next
    MaxEdits,       \* bound: changes by users and by other operators
    MaxDeployFaults \* bound: failures of an object that comes earlier

\* Kinds whose objects wake the controller when they are its own (SetupWithManager)
Watched == {"Deployment", "StatefulSet", "ConfigMap", "Secret", "Service",
            "AddOnDeploymentConfig", "ClusterManagementAddOn", "PrometheusRule",
            "McoaPrometheusRule", "ScrapeConfig", "McoaCRD"}

\* Kinds that are rendered for MCOA only and undeployed with it
Mcoa == {"AddOnDeploymentConfig", "McoaPrometheusRule", "ScrapeConfig", "McoaCRD"}

\* An object from which every label has been taken
NoLabels == -1

\* spec, labels: the version of what is rendered, 0 for anything else;
\* user: carries something a user has added beside it; legacy: fields of it were
\* written by an Update of this operator; by: the controlling owner
ObjectTypes == [there : BOOLEAN, spec : Versions \cup {0}, labels : Versions \cup {0, NoLabels},
                user : BOOLEAN, legacy : BOOLEAN, by : {"mco", "other"}]

NoObject == [there |-> FALSE, spec |-> 0, labels |-> 0, user |-> FALSE, legacy |-> FALSE,
             by |-> "mco"]

Rendered(v) == [there |-> TRUE, spec |-> v, labels |-> v, user |-> FALSE, legacy |-> FALSE,
                by |-> "mco"]

VARIABLES
    kind,
    object,    \* in the API server
    found,     \* what Deploy or Undeploy has read
    moved,     \* the object has been written since it was read
    version,   \* of the operator's manifests
    enabled,   \* MCOA is enabled: its objects are rendered
    wake,      \* a request is queued
    doing,     \* where Reconcile is
    wroteSame, \* the last Update left the object as it was
    edits, deployFaults

deployVars == <<kind, object, found, moved, version, enabled, wake, doing, wroteSame, edits,
                deployFaults>>

DeployerTypeOK ==
    /\ kind \in DeployedKinds
    /\ {object, found} \subseteq ObjectTypes
    /\ version \in Versions
    /\ {moved, enabled, wake, wroteSame} \subseteq BOOLEAN
    /\ doing \in {"idle", "link", "deploy", "write", "undeploy", "delete"}
    /\ edits \in 0..MaxEdits /\ deployFaults \in 0..MaxDeployFaults

DeployerInit ==
    /\ kind \in DeployedKinds
    /\ object = NoObject /\ found = NoObject /\ moved = FALSE
    /\ version = 1 /\ enabled = TRUE
    /\ wake = TRUE /\ doing = "idle" /\ wroteSame = FALSE
    /\ edits = 0 /\ deployFaults = 0

-----------------------------------------------------------------------------
\* Events of the objects the resource controls, before or after the change
Event(o, new) == kind \in Watched /\ o # new /\ (o.by = "mco" \/ new.by = "mco")

Becomes(new) ==
    /\ object' = new
    /\ moved' = (moved \/ new # object)

Edit(new) ==
    /\ edits < MaxEdits
    /\ edits' = edits + 1
    /\ new # object
    /\ Becomes(new)
    /\ wake' = (wake \/ Event(object, new))
    /\ UNCHANGED <<kind, found, version, enabled, doing, wroteSame, deployFaults>>

\* A label of a user's is one where there was none
ByUser(o) ==
    {[o EXCEPT !.spec = 0], [o EXCEPT !.labels = 0],
     [o EXCEPT !.user = ~@, !.labels = IF @ = NoLabels THEN 0 ELSE @]}

UserEdits == object.there /\ \E o \in ByUser(object) : Edit(o)

UserClearsLabels ==
    /\ kind \in {"McoaPrometheusRule", "ScrapeConfig"} /\ object.there
    /\ Edit([object EXCEPT !.labels = NoLabels, !.user = FALSE])

UserDeletes == object.there /\ Edit(NoObject)

\* Another operator installs the object of the same name for itself
OtherInstalls == ~object.there /\ Edit([Rendered(1) EXCEPT !.spec = 0, !.by = "other"])

\* The analytics controller writes the AddOnDeploymentConfig with an Update
AnalyticsUpdates ==
    /\ kind = "AddOnDeploymentConfig" /\ object.there /\ ~object.legacy
    /\ Edit([object EXCEPT !.legacy = TRUE])

\* The operator is upgraded and restarts, or MCOA is switched
Upgrade ==
    /\ version + 1 \in Versions
    /\ version' = version + 1
    /\ wake' = TRUE
    /\ doing' = "idle" /\ found' = NoObject /\ moved' = FALSE
    /\ UNCHANGED <<kind, object, enabled, wroteSame, edits, deployFaults>>

SwitchMcoa ==
    /\ kind \in Mcoa
    /\ edits < MaxEdits
    /\ edits' = edits + 1
    /\ enabled' = ~enabled
    /\ wake' = TRUE
    /\ UNCHANGED <<kind, object, found, moved, version, doing, wroteSame, deployFaults>>

-----------------------------------------------------------------------------
(* The comparison and the write of each kind.  A request says how the      *)
(* object is written: "update" with the resource version that was read,    *)
(* "replace" without one, "apply" server-side, "force" taking conflicting  *)
(* fields over.                                                            *)

Nothing == [how |-> "nothing", new |-> NoObject]
Request(how, new) == [how |-> how, new |-> new]

DeepEqualToManifest(f) == f.spec = version /\ f.user

\* equality.Semantic.DeepDerivative: what the manifest leaves out, as the
\* defaults of the API server, does not count
DeepDerivative(f) == f.spec = version

\* isMapSubset: labels and annotations others have added do not count
isMapSubset(f) == f.labels = version

manifestMetadata(f) == Rendered(version)

\* mergeMetadata: the entries of the manifest win, the others stay
mergeMetadata(f) == [Rendered(version) EXCEPT !.user = f.user]

updateDeployment(f) ==
    IF DeepDerivative(f) /\ isMapSubset(f) THEN Nothing
    ELSE Request("update", mergeMetadata(f))

\* The object that was read is changed, its owners with it.  Its claim templates
\* are neither compared nor written; HandleStorageSizeChange deals with them
updateStatefulSet(f) ==
    IF DeepDerivative(f) /\ isMapSubset(f) THEN Nothing
    ELSE Request("update", [mergeMetadata(f) EXCEPT !.by = f.by])

updateServiceMetadata(f) ==
    IF isMapSubset(f) THEN Nothing ELSE Request("update", Rendered(version))

updateService(f) ==
    IF DeepDerivative(f) /\ isMapSubset(f) THEN Nothing
    ELSE Request("update", Rendered(version))

updateConfigMap(f) ==
    IF DeepDerivative(f) /\ isMapSubset(f) THEN Nothing
    ELSE Request("replace", Rendered(version))

\* The labels of a Secret are not compared, nor those of the kinds below
updateSecret(f) ==
    IF DeepDerivative(f) THEN Nothing ELSE Request("update", Rendered(version))

\* The kinds of which only the part that matters is compared, and the whole
\* written without a resource version
ReplaceWhole(f) ==
    IF DeepDerivative(f) THEN Nothing ELSE Request("replace", Rendered(version))

updateClusterRole(f) == ReplaceWhole(f)

updateClusterRoleBinding(f) == ReplaceWhole(f)

updateRole(f) == ReplaceWhole(f)

updateRoleBinding(f) == ReplaceWhole(f)

updateServiceAccount(f) == ReplaceWhole(f)

updateIngress(f) == ReplaceWhole(f)

updateDaemonSet(f) == ReplaceWhole(f)

updateServiceMonitor(f) == ReplaceWhole(f)

\* Also a PrometheusRule and a CRD that are not MCOA's
updatePrometheus(f) ==
    IF DeepDerivative(f) THEN Nothing ELSE Request("update", Rendered(version))

hasMCOControllerOwner(f) == f.by = "mco"

\* A CRD of MCOA may be another operator's
updateCRD(f) ==
    IF DeepDerivative(f) THEN Nothing
    ELSE Request(IF hasMCOControllerOwner(f) THEN "force" ELSE "apply", Rendered(version))

\* updatePrometheusRule for MCOA copies the labels of the manifest into the map
\* of those it has read; where there are none that map is nil, and the write to
\* it panics, which ends Reconcile with an error
updatePrometheusRule(f) ==
    IF f.labels = NoLabels THEN Request("panic", mergeMetadata(f))
    ELSE IF DeepDerivative(f) /\ f.labels = version THEN Nothing
    ELSE Request("force", mergeMetadata(f))

updateScrapeConfig(f) ==
    IF DeepDerivative(f) /\ f.labels = version THEN Nothing
    ELSE Request("force", mergeMetadata(f))

\* DeepEqual and maps.Equal: what users add counts
updateClusterManagementAddOn(f) ==
    IF DeepDerivative(f) /\ isMapSubset(f) /\ ~f.user THEN Nothing
    ELSE Request("update", Rendered(version))

\* Applied every time; where an Update has owned variables, everything is
\* replaced first, what users have added too
applyAddOnDeploymentConfig(f) ==
    IF f.there /\ f.legacy THEN Request("update", Rendered(version))
    ELSE Request("force", mergeMetadata(f))

deployerFns(f) ==
    CASE kind = "AddOnDeploymentConfig" -> applyAddOnDeploymentConfig(f)
      [] kind = "Deployment" -> updateDeployment(f)
      [] kind = "StatefulSet" -> updateStatefulSet(f)
      [] kind = "Service" -> updateService(f)
      [] kind = "ConfigMap" -> updateConfigMap(f)
      [] kind = "Secret" -> updateSecret(f)
      [] kind = "ClusterRole" -> updateClusterRole(f)
      [] kind = "ClusterRoleBinding" -> updateClusterRoleBinding(f)
      [] kind = "Role" -> updateRole(f)
      [] kind = "RoleBinding" -> updateRoleBinding(f)
      [] kind = "ServiceAccount" -> updateServiceAccount(f)
      [] kind = "Ingress" -> updateIngress(f)
      [] kind = "DaemonSet" -> updateDaemonSet(f)
      [] kind = "ServiceMonitor" -> updateServiceMonitor(f)
      [] kind \in {"Prometheus", "PrometheusRule", "CRD"} -> updatePrometheus(f)
      [] kind = "McoaCRD" -> updateCRD(f)
      [] kind = "McoaPrometheusRule" -> updatePrometheusRule(f)
      [] kind = "ScrapeConfig" -> updateScrapeConfig(f)
      [] kind = "ClusterManagementAddOn" -> updateClusterManagementAddOn(f)
      [] OTHER -> Nothing

\* Deploy: create what is not there, leave alone what is to be skipped
DeployRequest(f) ==
    CASE ~f.there /\ kind # "AddOnDeploymentConfig" ->
           Request(IF kind = "McoaCRD" THEN "apply" ELSE "create", Rendered(version))
      [] f.there /\ kind \in Skipped -> Nothing
      [] OTHER -> deployerFns(f)

-----------------------------------------------------------------------------
(* The API server                                                          *)

\* Other resources than the built-in ones are not updated without a version
Refuses(r) ==
    \/ r.how = "update" /\ (moved \/ ~object.there)
    \/ r.how = "replace" /\ (~object.there \/ kind = "ServiceMonitor")
    \/ r.how = "create" /\ object.there
    \/ r.how = "panic"

\* Server-side apply: a field another manager has set otherwise is a conflict
Conflicts(r) == r.how = "apply" /\ object.there /\ object.by = "other" /\ object.spec # r.new.spec

\* Apply leaves what others have added
Result(r) ==
    IF r.how \in {"apply", "force"} /\ object.there
    THEN [r.new EXCEPT !.user = object.user \/ r.new.user, !.legacy = object.legacy,
                       !.by = object.by]
    ELSE r.new

-----------------------------------------------------------------------------
\* A ClusterManagementAddOn that is there is not rendered again: it is left to
\* the users, but for its link to Grafana
StartDeploying ==
    /\ doing = "idle" /\ wake
    /\ wake' = FALSE
    /\ IF kind = "ClusterManagementAddOn" /\ object.there
       THEN doing' = "link" /\ found' = object /\ moved' = FALSE
       ELSE /\ doing' = IF kind \in Mcoa /\ ~enabled THEN "undeploy" ELSE "deploy"
            /\ UNCHANGED <<found, moved>>
    /\ UNCHANGED <<kind, object, version, enabled, wroteSame, edits, deployFaults>>

HasLink(o) == o.labels # 0

\* An Update with the resource version that was read
AddLink(new) ==
    IF moved
    THEN wake' = TRUE /\ UNCHANGED <<object, moved, wroteSame>>
    ELSE /\ Becomes(new)
         /\ wake' = (wake \/ Event(object, new))
         /\ wroteSame' = (new = object)

syncMCOACMAGrafanaLink ==
    /\ doing = "link"
    /\ IF HasLink(found)
       THEN UNCHANGED <<object, moved, wake, wroteSame>>
       ELSE AddLink([found EXCEPT !.labels = version])
    /\ doing' = "idle" /\ found' = NoObject
    /\ UNCHANGED <<kind, version, enabled, edits, deployFaults>>

\* An object that comes earlier fails, or the route to Grafana cannot be read:
\* Reconcile ends before this one
EarlierFails ==
    /\ doing \in {"link", "deploy", "undeploy"}
    /\ deployFaults < MaxDeployFaults
    /\ deployFaults' = deployFaults + 1
    /\ doing' = "idle" /\ found' = NoObject
    /\ wake' = TRUE
    /\ UNCHANGED <<kind, object, moved, version, enabled, wroteSame, edits>>

ReadObject ==
    /\ doing \in {"deploy", "undeploy"}
    /\ found' = object
    /\ moved' = FALSE
    /\ doing' = IF doing = "deploy" THEN "write" ELSE "delete"
    /\ UNCHANGED <<kind, object, version, enabled, wake, wroteSame, edits, deployFaults>>

Deploy ==
    /\ doing = "write"
    /\ LET r == DeployRequest(found) IN
       CASE r.how = "nothing" \/ Conflicts(r) ->
              UNCHANGED <<object, moved, wake, wroteSame>>
         [] r.how # "nothing" /\ Refuses(r) ->
              wake' = TRUE /\ UNCHANGED <<object, moved, wroteSame>>
         [] OTHER ->
              /\ Becomes(Result(r))
              /\ wake' = (wake \/ Event(object, Result(r)))
              /\ wroteSame' = (r.how \in {"update", "replace"} /\ Result(r) = object)
    /\ doing' = "idle" /\ found' = NoObject
    /\ UNCHANGED <<kind, version, enabled, edits, deployFaults>>

isControllerOwner(f) == f.by = "mco"

Undeploy ==
    /\ doing = "delete"
    /\ IF found.there /\ isControllerOwner(found)
       THEN Becomes(NoObject) /\ wake' = (wake \/ Event(object, NoObject))
       ELSE UNCHANGED <<object, moved, wake>>
    /\ doing' = "idle" /\ found' = NoObject
    /\ UNCHANGED <<kind, version, enabled, wroteSame, edits, deployFaults>>

DeployStep == StartDeploying \/ syncMCOACMAGrafanaLink \/ ReadObject \/ Deploy \/ Undeploy

DeployerNext ==
    \/ DeployStep \/ EarlierFails
    \/ UserEdits \/ UserClearsLabels \/ UserDeletes \/ OtherInstalls \/ AnalyticsUpdates \/ Upgrade \/ SwitchMcoa

DeployerSpec == DeployerInit /\ [][DeployerNext]_deployVars

DeployerFair == WF_deployVars(DeployStep)

-----------------------------------------------------------------------------
\* Kinds whose labels are merged
Merged == {"Deployment", "StatefulSet", "McoaPrometheusRule", "ScrapeConfig"}

\* What a user has added to an object whose metadata the operator merges is
\* never dropped by the operator, although it writes what it computed from an
\* older copy (mergeMetadata, the resource version in updateDeployment), and an
\* object that another operator controls is neither overwritten (updateCRD) nor
\* deleted (Undeploy) as long as it has not changed hands in between
KeepsUserLabels == Deploy /\ kind \in Merged /\ object.there /\ object.user => object'.user
KeepsForeign ==
    object.there /\ object.by = "other" /\ ~moved =>
        /\ Undeploy => object'.there
        /\ Deploy /\ kind = "McoaCRD" => object' = object
KeepsOthers == KeepsUserLabels /\ KeepsForeign
OthersKept == [][KeepsOthers]_deployVars

\* Every Update changes something: the comparison before it has seen a
\* difference that the update takes away, and Reconcile does not go round in
\* circles on its own events
NoNeedlessUpdates == ~wroteSame

\* As its manifest says; a ClusterManagementAddOn only has its link
AsRendered(o) ==
    o.there /\ IF kind = "ClusterManagementAddOn" THEN HasLink(o) ELSE o.spec = version

AsWanted == IF kind \in Mcoa /\ ~enabled THEN ~object.there ELSE AsRendered(object)

\* Objects the operator looks after: of a kind that wakes it, not to be skipped
\* and not another operator's
LooksAfter == kind \in Watched \ Skipped /\ (object.there => object.by = "mco")

\* The operator gets an object it looks after back to what its manifest says, or
\* away when MCOA is off, and then leaves it alone: after drift, deletion, an
\* upgrade, or a write that met a conflict.  A ServiceMonitor is updated without
\* a resource version, in vain, and a rule of MCOA without labels makes every
\* Reconcile panic
ObjectAsRendered ==
    ~(kind = "McoaPrometheusRule" /\ enabled /\ object.labels = NoLabels) =>
        /\ (doing = "idle" /\ ~wake) \/ kind = "ServiceMonitor"
        /\ LooksAfter => AsWanted
ObjectSettles == <>[]ObjectAsRendered

\* The same without time: no event, no conflict and no switch is lost between the
\* read and the write of a Reconcile
NoDriftMissed == doing = "idle" /\ ~wake /\ LooksAfter => AsWanted

=============================================================================
