------------------------------ MODULE McoStatus ------------------------------
(***************************************************************************)
(* The conditions the MultiClusterObservability resource shows             *)
(* (controllers/status of the hub operator).                               *)
(*                                                                         *)
(* The controller is woken by the operands it watches and by a new         *)
(* generation of the resource, evaluates the operands and writes the       *)
(* conditions with the resource version it read, which may be old by then. *)
(* The operands are what the informers have of them.                       *)
(***************************************************************************)
EXTENDS Naturals

CONSTANTS
    Crds,              \* the CRDs that MCOA needs
    Operands,          \* the states of the operands that are met
    ResourceSpecs,     \* [paused, metrics, mcoa]: what users ask for
    MaxResourceChanges, \* bound: changes of the resource by users
    MaxOperandChanges, \* bound: changes of the operands
    MaxMisreads        \* bound: reads that fail

ConditionTypes == {"Ready", "Failed", "Installing", "MetricsDisabled", "MCOADegraded"}

Reasons == {"Ready", "Installing", "MetricsDisabled", "CRDMissing",
            "ObjectStorageSecretNotFound", "ObjectStorageConfInvalid",
            "DeploymentNotFound", "DeploymentNotReady",
            "StatefulSetNotFound", "StatefulSetNotReady"}

\* A condition is its reason; "" is no condition of that type
Conditions == [ConditionTypes -> Reasons \cup {""}]
None == [t \in ConditionTypes |-> ""]

ResourceType == [spec : ResourceSpecs, conds : Conditions]

\* The operands: each kind by the reason it gives for a failure, or ""
OperandType ==
    [storage : {"", "ObjectStorageSecretNotFound", "ObjectStorageConfInvalid"},
     deployments : {"", "DeploymentNotFound", "DeploymentNotReady"},
     statefulSets : {"", "StatefulSetNotFound", "StatefulSetNotReady"},
     crds : SUBSET Crds]

VARIABLES
    resource,      \* the MCO resource in the API server
    resourceCache, \* the informer's copy
    read,          \* what the running Reconcile has read
    outdated,        \* of cache and read, those with an old resource version
    due,           \* a request is queued
    phase,         \* where Reconcile is
    newConds,      \* the conditions it has computed
    operand,
    overlooked,    \* the last Reconcile misread an operand, found the resource
                   \* paused, or nothing to change in an old copy of it
    resourceChanges, operandChanges, misreads

statusVars == <<resource, resourceCache, read, outdated, due, phase, newConds, operand,
                overlooked, resourceChanges, operandChanges, misreads>>

McoStatusTypeOK ==
    /\ {resource, resourceCache, read} \subseteq ResourceType
    /\ outdated \subseteq {"cache", "read"}
    /\ due \in BOOLEAN /\ overlooked \in BOOLEAN
    /\ phase \in {"idle", "update", "write"}
    /\ newConds \in Conditions
    /\ operand \in OperandType
    /\ resourceChanges \in 0..MaxResourceChanges
    /\ operandChanges \in 0..MaxOperandChanges
    /\ misreads \in 0..MaxMisreads

McoStatusInit ==
    /\ resource \in [spec : ResourceSpecs, conds : {None}]
    /\ resourceCache = resource /\ read = resource
    /\ outdated = {} /\ due = TRUE /\ phase = "idle" /\ newConds = None
    /\ operand = [storage |-> "", deployments |-> "DeploymentNotFound",
                  statefulSets |-> "StatefulSetNotFound", crds |-> {}]
    /\ overlooked = FALSE
    /\ resourceChanges = 0 /\ operandChanges = 0 /\ misreads = 0

-----------------------------------------------------------------------------
\* Whoever writes the resource makes the copies of it old
Written == outdated' = {"cache", "read"}

ChangeResource(s) ==
    /\ resourceChanges < MaxResourceChanges
    /\ resourceChanges' = resourceChanges + 1
    /\ s # resource.spec
    /\ resource' = [resource EXCEPT !.spec = s]
    /\ Written
    /\ UNCHANGED <<resourceCache, read, due, phase, newConds, operand, overlooked,
                   operandChanges, misreads>>

\* GenerationChangedPredicate: the spec wakes the controller; the status, and
\* the pause annotation, do not
SyncResource ==
    /\ "cache" \in outdated
    /\ outdated' = outdated \ {"cache"}
    /\ resourceCache' = resource
    /\ due' = (due \/ [resource.spec EXCEPT !.paused = resourceCache.spec.paused]
                         # resourceCache.spec)
    /\ UNCHANGED <<resource, read, phase, newConds, operand, overlooked, resourceChanges,
                   operandChanges, misreads>>

\* mapToMCO: the workloads by name, the secret the spec names, the CRDs
ChangeOperand(o) ==
    /\ operandChanges < MaxOperandChanges
    /\ operandChanges' = operandChanges + 1
    /\ o # operand
    /\ operand' = o
    /\ due' = TRUE
    /\ UNCHANGED <<resource, resourceCache, read, outdated, phase, newConds, overlooked,
                   resourceChanges, misreads>>

-----------------------------------------------------------------------------
setStatusCondition(conds, t, reason) == [conds EXCEPT ![t] = reason]

RemoveStatusCondition(conds, t) == [conds EXCEPT ![t] = ""]

\* checkObjStorageStatus, checkDeployStatus, checkStatefulSetStatus: the first
\* that fails says why
FirstFailure(o) ==
    CASE o.storage # "" -> o.storage
      [] o.storage = "" /\ o.deployments # "" -> o.deployments
      [] OTHER -> o.statefulSets

updateInstallStatus(conds) ==
    IF conds["Ready"] = "" THEN setStatusCondition(conds, "Installing", "Installing") ELSE conds

updateReadyStatus(conds, o) ==
    IF FirstFailure(o) # ""
    THEN setStatusCondition(RemoveStatusCondition(conds, "Ready"), "Failed", FirstFailure(o))
    ELSE RemoveStatusCondition(
           RemoveStatusCondition(setStatusCondition(conds, "Ready", "Ready"), "Failed"),
           "Installing")

updateAddonSpecStatus(conds, s) ==
    IF s.metrics THEN RemoveStatusCondition(conds, "MetricsDisabled")
    ELSE setStatusCondition(conds, "MetricsDisabled", "MetricsDisabled")

updateMCOAStatus(conds, s, o) ==
    IF s.mcoa /\ o.crds # Crds THEN setStatusCondition(conds, "MCOADegraded", "CRDMissing")
    ELSE RemoveStatusCondition(conds, "MCOADegraded")

updateStatus(conds, s, o) ==
    updateMCOAStatus(
      updateAddonSpecStatus(updateReadyStatus(updateInstallStatus(conds), o), s), s, o)

\* A read that fails for another reason than NotFound: the workload or the
\* secret is said to be missing, the CRD to be there; Reconcile returns no error
Misread(o) ==
    {[o EXCEPT !.storage = "ObjectStorageSecretNotFound"],
     [o EXCEPT !.deployments = "DeploymentNotFound"],
     [o EXCEPT !.statefulSets = "StatefulSetNotFound"],
     [o EXCEPT !.crds = Crds]}

ReadResource ==
    /\ phase = "idle" /\ due
    /\ due' = FALSE
    /\ read' = resourceCache
    /\ outdated' = IF "cache" \in outdated THEN {"cache", "read"} ELSE {}
    /\ phase' = IF resourceCache.spec.paused THEN "idle" ELSE "update"
    /\ overlooked' = resourceCache.spec.paused
    /\ UNCHANGED <<resource, resourceCache, newConds, operand, resourceChanges,
                   operandChanges, misreads>>

\* The conditions are written only when they differ
Computed(o) ==
    /\ newConds' = updateStatus(read.conds, read.spec, o)
    /\ phase' = IF newConds' # read.conds THEN "write" ELSE "idle"

EvaluateOperands ==
    /\ phase = "update"
    /\ \/ /\ Computed(operand)
          /\ overlooked' = (phase' = "idle" /\ "read" \in outdated)
          /\ UNCHANGED misreads
       \/ /\ misreads < MaxMisreads
          /\ misreads' = misreads + 1
          /\ \E o \in Misread(operand) : Computed(o)
          /\ overlooked' = TRUE
    /\ UNCHANGED <<resource, resourceCache, read, outdated, due, operand, resourceChanges,
                   operandChanges>>

UpdateStatusOnce ==
    /\ phase = "write"
    /\ phase' = "idle"
    /\ IF "read" \in outdated
       THEN UNCHANGED <<resource, outdated>>
       ELSE resource' = [resource EXCEPT !.conds = newConds] /\ Written
    /\ UNCHANGED <<due, resourceCache, read, newConds, operand, overlooked, resourceChanges,
                   operandChanges, misreads>>

\* Status().Update: a conflict is an error, and the request comes back
UpdateStatus ==
    /\ phase = "write"
    /\ phase' = "idle"
    /\ IF "read" \in outdated
       THEN due' = TRUE /\ UNCHANGED <<resource, outdated>>
       ELSE resource' = [resource EXCEPT !.conds = newConds] /\ Written /\ UNCHANGED due
    /\ UNCHANGED <<resourceCache, read, newConds, operand, overlooked, resourceChanges,
                   operandChanges, misreads>>

ReconcileStatus == ReadResource \/ EvaluateOperands \/ UpdateStatus

McoStatusNext ==
    \/ ReconcileStatus \/ SyncResource
    \/ \E s \in ResourceSpecs : ChangeResource(s)
    \/ \E o \in Operands : ChangeOperand(o)

McoStatusSpec == McoStatusInit /\ [][McoStatusNext]_statusVars

McoStatusFair ==
    WF_statusVars(ReconcileStatus) /\ WF_statusVars(SyncResource)

-----------------------------------------------------------------------------
\* What the conditions should say: Ready, or Failed with the reason of the first
\* check that fails, and the two optional ones
Truthful ==
    LET c == resource.conds IN
    /\ c["Failed"] = FirstFailure(operand)
    /\ (c["Ready"] # "") <=> (FirstFailure(operand) = "")
    /\ (c["MetricsDisabled"] # "") <=> ~resource.spec.metrics
    /\ (c["MCOADegraded"] # "") <=> (resource.spec.mcoa /\ operand.crds # Crds)

\* When operands and resource come to rest the conditions say what is the case:
\* no conflict, and no change that arrived in the middle of a Reconcile, is
\* forgotten.  overlooked: a Reconcile that misreads an operand, or that finds an
\* old copy of the conditions to be right, returns no error and is not retried,
\* and the end of a pause wakes nobody
StatusSettles == <>[](~overlooked /\ ~resource.spec.paused => Truthful)

\* The same without time: a controller with nothing to do, whose cache is current,
\* has forgotten nothing
NoChangeMissed ==
    /\ phase = "idle" /\ ~due /\ "cache" \notin outdated
    /\ ~overlooked /\ ~resource.spec.paused
    => Truthful

=============================================================================
