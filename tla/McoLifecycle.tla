---------------------------- MODULE McoLifecycle ----------------------------
(***************************************************************************)
(* The life of the MultiClusterObservability resource on the hub, from the *)
(* first Reconcile to the release of its finalizers, as two controllers of *)
(* the operator drive it beside each other:                                *)
(*                                                                         *)
(*   "mco"        controllers/multiclusterobservability: deploys what the  *)
(*                resource asks for and takes the multicluster             *)
(*                observability addon (MCOA) down again;                   *)
(*   "analytics"  controllers/analytics: right-sizing, by Policies of its  *)
(*                own or, delegated, by the AddOnDeploymentConfig (ADC)    *)
(*                that MCOA reads.                                         *)
(*                                                                         *)
(* Both read the resource from the informer cache, which trails the API    *)
(* server, keep what they read until their Reconcile ends, and patch the   *)
(* list of finalizers without a resource version.  The analytics           *)
(* controller keeps state in memory, which a restart of the operator       *)
(* loses.  Reads of the other objects are taken to be current.             *)
(***************************************************************************)
EXTENDS Naturals, FiniteSets

CONSTANTS
    Kinds,            \* right-sizing components: "namespace", "virtualization"
    Namespaces,       \* where a component's Policy may be bound to
    DefaultNamespace,
    Specs,            \* the specs (and annotations) users give the resource
    Faults,           \* subset of {"call", "restart"}
    MaxChanges,       \* bound: creations, changes and deletions by users
    MaxFaults         \* bound: failed calls and restarts

Controllers == {"mco", "analytics"}

\* resFinalizer and analyticsFinalizer; each controller has one
Finalizers == Controllers

\* on: the flag of a component, which the analytics controller sets when unset
SpecType == [paused : BOOLEAN, mcoa : BOOLEAN, delegated : BOOLEAN,
             on : [Kinds -> {"unset", "on", "off"}], ns : [Kinds -> Namespaces]]

AnySpec == CHOOSE s \in Specs : TRUE

McoType == [there : BOOLEAN, deleting : BOOLEAN, fin : SUBSET Finalizers, spec : SpecType]

NoMco == [there |-> FALSE, deleting |-> FALSE, fin |-> {}, spec |-> AnySpec]

\* The right-sizing variables of the ADC, or no ADC
NoAdc == [there |-> FALSE, delegated |-> FALSE, rs |-> [k \in Kinds |-> FALSE]]

AdcType == [there : BOOLEAN, delegated : BOOLEAN, rs : [Kinds -> BOOLEAN]]

PolicyParts == {"policy", "placement", "binding"}

MSteps == {"idle", "finalize", "release", "addFin", "deploy", "clean", "undeploy",
           "operands"}
ASteps == {"idle", "disable", "cleanup", "release", "addFin", "defaults",
           "refresh", "delegate", "handle", "sync"}

VARIABLES
    mco,          \* the resource in the API server
    cache,        \* the informer's copy
    req,          \* a request is queued for the controller
    mpc, apc,     \* where the two Reconciles are
    snap,         \* what they read when they started
    terminating,  \* IsMCOTerminating
    cma, works, manager, \* MCOA: ClusterManagementAddOn, ManifestWorks, addon manager
    adc,          \* MCOA: the AddOnDeploymentConfig
    roles,        \* cluster scoped resources without an owner
    operands,     \* routes, certificates, Observatorium, datasource
    policies,     \* the right-sizing objects: component, namespace, part
    rsConfig,     \* components with their ConfigMap
    state,        \* ComponentState, in memory
    wasDelegated, \* in memory
    cleanupAt,    \* in memory: the stabilization window
    changes, faults,
    overruled,    \* a patch has changed the finalizer of the other controller
    misplaced     \* a delegation cleaned another namespace than it looked at

mcoaVars == <<cma, works, manager, adc>>
rsVars   == <<policies, rsConfig>>
memVars  == <<state, wasDelegated, cleanupAt>>
bounds   == <<changes, faults>>
vars == <<mco, cache, req, mpc, apc, snap, terminating, mcoaVars, roles, operands, rsVars,
          memVars, bounds, overruled, misplaced>>

TypeOK ==
    /\ mco \in McoType /\ cache \in McoType
    /\ req \in [Controllers -> BOOLEAN]
    /\ mpc \in MSteps /\ apc \in ASteps
    /\ snap \in [Controllers -> McoType]
    /\ {terminating, cma, works, manager, roles, operands, wasDelegated, overruled, misplaced}
          \subseteq BOOLEAN
    /\ adc \in AdcType
    /\ policies \subseteq Kinds \X Namespaces \X PolicyParts
    /\ rsConfig \subseteq Kinds
    /\ state \in [Kinds -> [ns : Namespaces, enabled : BOOLEAN]]
    /\ cleanupAt \in {"zero", "waiting", "elapsed"}
    /\ changes \in 0..MaxChanges /\ faults \in 0..MaxFaults

FreshState == [k \in Kinds |-> [ns |-> DefaultNamespace, enabled |-> FALSE]]

Init ==
    /\ mco = NoMco /\ cache = NoMco
    /\ req = [c \in Controllers |-> FALSE]
    /\ mpc = "idle" /\ apc = "idle"
    /\ snap = [c \in Controllers |-> NoMco]
    /\ terminating = FALSE
    /\ cma = FALSE /\ works = FALSE /\ manager = FALSE /\ adc = NoAdc
    /\ roles = FALSE /\ operands = FALSE
    /\ policies = {} /\ rsConfig = {}
    /\ state = FreshState /\ wasDelegated = FALSE /\ cleanupAt = "zero"
    /\ changes = 0 /\ faults = 0 /\ overruled = FALSE /\ misplaced = FALSE

-----------------------------------------------------------------------------
(* The API server and the informer                                         *)

\* A deleted object without finalizers goes, and the garbage collector takes
\* the objects it owns with it
Gone ==
    /\ mco' = NoMco
    /\ cma' = FALSE /\ manager' = FALSE /\ adc' = NoAdc /\ operands' = FALSE
    /\ UNCHANGED works

\* A merge patch of the whole list of finalizers, computed from what the
\* controller read; no finalizer may be added to a terminating object
CanPatch(f) == mco.there /\ (mco.deleting => f \subseteq mco.fin)

Patch(c, f) ==
    /\ CanPatch(f)
    /\ overruled' = (overruled \/ ~((mco.fin \ f) \cup (f \ mco.fin) \subseteq {c}))
    /\ IF mco.deleting /\ f = {} THEN Gone
       ELSE mco' = [mco EXCEPT !.fin = f] /\ UNCHANGED <<mcoaVars, operands>>

Wake(C) == req' = [c \in Controllers |-> req[c] \/ c \in C]

\* GetMCOPredicateFunc: creation, deletion, a new generation (the spec, or the
\* deletion timestamp) or new annotations; not a change of the finalizers
SyncMco ==
    /\ cache # mco
    /\ cache' = mco
    /\ Wake(IF [cache EXCEPT !.fin = mco.fin] # mco THEN Controllers ELSE {})
    /\ UNCHANGED <<mco, mpc, apc, snap, terminating, mcoaVars, roles, operands, rsVars, memVars,
                   bounds, overruled, misplaced>>

UserStep == changes < MaxChanges /\ changes' = changes + 1

userUnchanged == <<cache, req, mpc, apc, snap, terminating, works, roles, rsVars, memVars, faults,
                   overruled, misplaced>>

CreateMco(s) ==
    /\ UserStep
    /\ ~mco.there /\ ~cache.there /\ ~works
    /\ mco' = [there |-> TRUE, deleting |-> FALSE, fin |-> {}, spec |-> s]
    /\ UNCHANGED <<userUnchanged, cma, manager, adc, operands>>

ChangeMco(s) ==
    /\ UserStep
    /\ mco.there /\ ~mco.deleting /\ s # mco.spec
    /\ mco' = [mco EXCEPT !.spec = s]
    /\ UNCHANGED <<userUnchanged, cma, manager, adc, operands>>

DeleteMco ==
    /\ UserStep
    /\ mco.there /\ ~mco.deleting
    /\ IF mco.fin = {} THEN Gone
       ELSE mco' = [mco EXCEPT !.deleting = TRUE] /\ UNCHANGED <<mcoaVars, operands>>
    /\ UNCHANGED <<cache, req, mpc, apc, snap, terminating, roles, rsVars, memVars, faults,
                   overruled, misplaced>>

\* The addon framework and the addon manager of MCOA
AddonDeploys ==
    /\ cma /\ manager /\ ~works
    /\ works' = TRUE
    /\ UNCHANGED <<mco, cache, req, mpc, apc, snap, terminating, cma, manager, adc, roles,
                   operands, rsVars, memVars, bounds, overruled, misplaced>>

AddonCleans ==
    /\ ~cma /\ manager /\ works
    /\ works' = FALSE
    /\ UNCHANGED <<mco, cache, req, mpc, apc, snap, terminating, cma, manager, adc, roles,
                   operands, rsVars, memVars, bounds, overruled, misplaced>>

-----------------------------------------------------------------------------
(* The MCO controller                                                      *)

MRest == <<cache, apc, rsVars, memVars, bounds, misplaced>>

rightSizingEnabled(s) == \E k \in Kinds : s.on[k] = "on"

\* Past the finalizers: a paused resource is left alone
AfterFinalizers(s) == IF s.paused THEN "idle" ELSE "deploy"

\* Reconcile up to initFinalization
MStart ==
    /\ mpc = "idle" /\ req["mco"]
    /\ req' = [req EXCEPT !["mco"] = FALSE]
    /\ mpc' = CASE ~cache.there -> "idle"
                [] cache.there /\ cache.deleting ->
                      IF "mco" \in cache.fin THEN "finalize" ELSE "idle"
                [] OTHER ->
                      IF "mco" \in cache.fin THEN AfterFinalizers(cache.spec) ELSE "addFin"
    /\ snap' = [snap EXCEPT !["mco"] = IF mpc' = "idle" THEN NoMco ELSE cache]
    /\ terminating' = CASE mpc' = "finalize" -> TRUE
                        [] cache.there /\ ~cache.deleting /\ "mco" \in cache.fin -> FALSE
                        [] OTHER -> terminating
    /\ UNCHANGED <<MRest, mco, mcoaVars, roles, operands, overruled>>

cleanupMCOAManifestWorksAtOnce(next) ==
    /\ cma' = FALSE
    /\ mpc' = next
    /\ Wake({})
    /\ UNCHANGED <<works, manager, adc>>

\* cleanupMCOAManifestWorks: the works are waited for with RequeueAfter
cleanupMCOAManifestWorks(next) ==
    /\ cma' = FALSE
    /\ mpc' = IF works THEN "idle" ELSE next
    /\ Wake(IF works THEN {"mco"} ELSE {})
    /\ UNCHANGED <<works, manager, adc>>

initFinalization ==
    /\ mpc = "finalize"
    /\ cleanupMCOAManifestWorks("release")
    /\ UNCHANGED <<MRest, mco, terminating, roles, operands, overruled>>

\* A patch that the API server refuses is an error, and the request comes back
McoPatches(f, next) ==
    \/ /\ Patch("mco", f)
       /\ mpc' = next
       /\ UNCHANGED req
    \/ /\ ~CanPatch(f)
       /\ mpc' = "idle"
       /\ Wake({"mco"})
       /\ UNCHANGED <<mco, mcoaVars, operands, overruled>>

\* cleanUpClusterScopedResources, then the finalizer goes
removeFinalizer ==
    /\ mpc = "release"
    /\ roles' = FALSE
    /\ McoPatches(snap["mco"].fin \ {"mco"}, "idle")
    /\ UNCHANGED <<MRest, terminating>>

addFinalizer ==
    /\ mpc = "addFin"
    /\ McoPatches(snap["mco"].fin \cup {"mco"}, AfterFinalizers(snap["mco"].spec))
    /\ terminating' = (terminating /\ ~CanPatch(snap["mco"].fin \cup {"mco"}))
    /\ UNCHANGED <<MRest, roles>>

\* renderAddonDeploymentConfig, and syncRightSizingStateToADC, which writes the
\* same variables
AdcOf(s, delegating) ==
    [there |-> TRUE, delegated |-> delegating,
     rs |-> [k \in Kinds |-> delegating /\ s.on[k] = "on"]]

\* Render: MCOA's own resources only when something needs them
renderMCOA(s) == s.mcoa \/ (s.delegated /\ rightSizingEnabled(s))

\* Render and Deploy: what is deployed, and changes, comes back as an event of
\* an owned object.  The ClusterManagementAddOn is only created
Deploy ==
    /\ mpc = "deploy"
    /\ roles' = TRUE
    /\ LET s == snap["mco"].spec IN
       /\ IF renderMCOA(s)
          THEN /\ cma' = TRUE /\ manager' = TRUE /\ adc' = AdcOf(s, s.delegated)
          ELSE UNCHANGED <<cma, manager, adc>>
       /\ mpc' = IF s.mcoa \/ s.delegated THEN "operands" ELSE "clean"
    /\ Wake(IF <<cma, manager, adc>>' # <<cma, manager, adc>> THEN {"mco"} ELSE {})
    /\ UNCHANGED <<MRest, mco, terminating, works, operands, overruled>>

cleanMCOAWithoutWaiting ==
    /\ mpc = "clean"
    /\ cma' = FALSE
    /\ mpc' = "undeploy"
    /\ UNCHANGED <<MRest, req, mco, terminating, works, manager, adc, roles, operands, overruled>>

cleanMCOA ==
    /\ mpc = "clean"
    /\ cleanupMCOAManifestWorks("undeploy")
    /\ UNCHANGED <<MRest, mco, terminating, roles, operands, overruled>>

Undeploy ==
    /\ mpc = "undeploy"
    /\ manager' = FALSE /\ adc' = NoAdc
    /\ mpc' = "operands"
    /\ Wake(IF manager \/ adc.there THEN {"mco"} ELSE {})
    /\ UNCHANGED <<MRest, mco, terminating, cma, works, roles, operands, overruled>>

\* The rest of Reconcile: routes, certificates, Observatorium, datasource.  An
\* object created for a resource that is gone is collected at once
deployOperands ==
    /\ mpc = "operands"
    /\ operands' = mco.there
    /\ mpc' = "idle"
    /\ Wake(IF operands THEN {} ELSE {"mco"})
    /\ UNCHANGED <<MRest, mco, terminating, mcoaVars, roles, overruled>>

-----------------------------------------------------------------------------
(* The analytics controller                                                *)

ARest == <<cache, mpc, terminating, roles, bounds>>
Kept  == <<mco, cma, works, manager, operands, overruled>>

AStartWithoutRequeue ==
    /\ apc = "idle" /\ req["analytics"]
    /\ apc' = CASE ~cache.there -> "idle"
                [] cache.there /\ cache.deleting ->
                      CASE "analytics" \notin cache.fin -> "idle"
                        [] "analytics" \in cache.fin /\ cleanupAt = "zero" -> "disable"
                        [] "analytics" \in cache.fin /\ cleanupAt = "waiting" -> "idle"
                        [] OTHER -> "cleanup"
                [] OTHER -> IF "analytics" \notin cache.fin THEN "addFin" ELSE "defaults"
    /\ req' = [req EXCEPT !["analytics"] = FALSE]
    /\ snap' = [snap EXCEPT !["analytics"] = IF apc' = "idle" THEN NoMco ELSE cache]
    /\ cleanupAt' = IF cache.there /\ ~cache.deleting THEN "zero" ELSE cleanupAt
    /\ UNCHANGED <<ARest, Kept, adc, rsVars, state, wasDelegated, misplaced>>

AStart ==
    /\ apc = "idle" /\ req["analytics"]
    /\ LET ours == "analytics" \in cache.fin IN
       /\ apc' = CASE ~cache.there -> "idle"
                   [] cache.there /\ cache.deleting ->
                         CASE ~ours -> "idle"
                           [] ours /\ cleanupAt = "zero" -> "disable"
                           [] ours /\ cleanupAt = "waiting" -> "idle"
                           [] OTHER -> "cleanup"
                   [] OTHER ->
                         CASE ~ours -> "addFin"
                           [] ours /\ cache.spec.paused -> "idle"
                           [] OTHER -> "defaults"
       /\ req' = [req EXCEPT !["analytics"] =
                    cache.there /\ cache.deleting /\ ours /\ cleanupAt = "waiting"]
    /\ snap' = [snap EXCEPT !["analytics"] = IF apc' = "idle" THEN NoMco ELSE cache]
    /\ cleanupAt' = IF cache.there /\ ~cache.deleting THEN "zero" ELSE cleanupAt
    /\ UNCHANGED <<ARest, Kept, adc, rsVars, state, wasDelegated, misplaced>>

\* syncRightSizingStateToADC: nothing to do without an ADC
syncRightSizingStateToADC(delegating) ==
    adc' = IF adc.there THEN AdcOf(snap["analytics"].spec, delegating) ELSE adc

AdcEvent == IF adc' # adc THEN {"mco"} ELSE {}

\* Phase 1: MCOA is told, and given the stabilization window.  An error of the
\* sync is logged
disableAdc ==
    /\ apc = "disable"
    /\ \/ syncRightSizingStateToADC(FALSE) /\ UNCHANGED faults
       \/ "call" \in Faults /\ faults < MaxFaults /\ faults' = faults + 1 /\ UNCHANGED adc
    /\ cleanupAt' = "waiting"
    /\ apc' = "idle"
    /\ Wake({"analytics"} \cup AdcEvent)
    /\ UNCHANGED <<cache, mpc, terminating, roles, changes, Kept, rsVars, state,
                   wasDelegated, misplaced>>

WindowElapses ==
    /\ cleanupAt = "waiting"
    /\ cleanupAt' = "elapsed"
    /\ UNCHANGED <<ARest, Kept, req, apc, snap, adc, rsVars, state, wasDelegated, misplaced>>

PolicyCleanupOnly == policies' = {} /\ UNCHANGED rsConfig

\* By label everything, in whatever namespace; by name, for objects of earlier
\* versions, in the namespaces of the spec
CleanupRSResourcesByLabel == policies' = {} /\ rsConfig' = {}

\* Phase 2: the MCO controller may have rendered the ADC meanwhile, MCOA is told
\* again
CleanupRightSizingResources ==
    /\ apc = "cleanup"
    /\ syncRightSizingStateToADC(FALSE)
    /\ CleanupRSResourcesByLabel
    /\ apc' = "release"
    /\ Wake(AdcEvent)
    /\ UNCHANGED <<ARest, Kept, memVars, misplaced>>

AnalyticsPatches(f, C) ==
    /\ apc' = "idle"
    /\ \/ Patch("analytics", f) /\ Wake(C)
       \/ ~CanPatch(f) /\ Wake({"analytics"}) /\ UNCHANGED <<mco, mcoaVars, operands, overruled>>

removeAnalyticsFinalizer ==
    /\ apc = "release"
    /\ AnalyticsPatches(snap["analytics"].fin \ {"analytics"}, {})
    /\ UNCHANGED <<ARest, rsVars, memVars, misplaced>>

\* Requeue: the rest happens in the next Reconcile
addAnalyticsFinalizer ==
    /\ apc = "addFin"
    /\ AnalyticsPatches(snap["analytics"].fin \cup {"analytics"}, {"analytics"})
    /\ UNCHANGED <<ARest, rsVars, memVars, misplaced>>

\* The branch a Reconcile with this spec takes: the migration gate
Gate(s) == IF s.delegated THEN "delegate" ELSE "handle"

\* An absent flag, in the resource as the API server has it, is set; the
\* Reconcile goes on with what the cache has then
ensureRightSizingDefaults ==
    /\ apc = "defaults"
    /\ LET unset == mco.there /\ \E k \in Kinds : mco.spec.on[k] = "unset" IN
       /\ mco' = IF unset
                 THEN [mco EXCEPT !.spec.on =
                         [k \in Kinds |-> IF @[k] = "unset" THEN "on" ELSE @[k]]]
                 ELSE mco
       /\ apc' = IF unset THEN "refresh" ELSE Gate(snap["analytics"].spec)
    /\ UNCHANGED <<ARest, cma, works, manager, operands, overruled, req, adc, rsVars, memVars,
                   misplaced>>

refreshInstance ==
    /\ apc = "refresh"
    /\ LET s == IF cache.there THEN cache ELSE snap["analytics"] IN
       /\ snap' = [snap EXCEPT !["analytics"] = s]
       /\ apc' = Gate(s.spec)
    /\ UNCHANGED <<ARest, Kept, req, adc, rsVars, memVars, misplaced>>

\* The Policy is looked for in the namespace in memory ...
hasPolicyResourcesToCleanup == \E k \in Kinds : <<k, state[k].ns, "policy">> \in policies

\* ... and the objects are deleted in the namespaces of the spec; the
\* ConfigMaps stay for MCOA
CleanupPolicyResourcesForDelegation(s) ==
    /\ policies' = {p \in policies : p[2] # s.ns[p[1]]}
    /\ state' = [k \in Kinds |-> [state[k] EXCEPT !.enabled = FALSE]]
    /\ misplaced' = (misplaced \/ \E k \in Kinds : state[k].ns # s.ns[k])

Delegate ==
    /\ apc = "delegate"
    /\ IF ~wasDelegated /\ hasPolicyResourcesToCleanup
       THEN CleanupPolicyResourcesForDelegation(snap["analytics"].spec)
       ELSE /\ misplaced' = (misplaced \/ (~wasDelegated /\ policies # {}))
            /\ UNCHANGED <<policies, state>>
    /\ wasDelegated' = TRUE
    /\ apc' = "sync"
    /\ UNCHANGED <<ARest, Kept, req, adc, rsConfig, cleanupAt>>

\* GetComponentConfig of a component and its namespace in memory
Enabled(s, k) == s.on[k] = "on"

Moved(s, k) == Enabled(s, k) /\ state[k].enabled /\ state[k].ns # s.ns[k]

\* HandleComponentRightSizing keeps the namespace and the flag in memory
NextState(s, K) ==
    [k \in Kinds |-> IF k \in K THEN [ns |-> s.ns[k], enabled |-> Enabled(s, k)]
                                ELSE state[k]]

\* What CleanupComponentResources deletes in a namespace
Cleaned(k, ns) == {<<k, ns, p>> : p \in PolicyParts}

CreateOrUpdateRSPrometheusRulePolicy(k, ns) == {<<k, ns, "policy">>}
CreateUpdateRSPlacement(k, ns) == {<<k, ns, "placement">>}
CreateRSPlacementBinding(k, ns) == {<<k, ns, "binding">>}

\* ApplyChangesFunc makes the three objects in this order; n: how many it has made
Applied(k, ns, n) ==
    UNION {<<CreateOrUpdateRSPrometheusRulePolicy(k, ns),
             CreateUpdateRSPlacement(k, ns),
             CreateRSPlacementBinding(k, ns)>>[i] : i \in 1..n}

HandledInPlace(s, k) ==
    LET own == {p \in policies : p[1] = k}
    IN  IF Enabled(s, k) THEN own \cup Applied(k, s.ns[k], 3)
                         ELSE own \ Cleaned(k, state[k].ns)

\* HandleComponentRightSizing: a disabled component and one that moves are
\* cleaned up in the namespace in memory, an enabled one is applied
Handled(s, k) ==
    LET own == {p \in policies : p[1] = k}
        left == IF Enabled(s, k) /\ ~Moved(s, k) THEN own ELSE own \ Cleaned(k, state[k].ns)
    IN  IF Enabled(s, k) THEN left \cup Applied(k, s.ns[k], 3) ELSE left

\* The components in K have been handled
AfterComponents(s, K) == {p \in policies : p[1] \notin K} \cup UNION {Handled(s, k) : k \in K}

\* EnsureRSConfigMapExists for an enabled component, CleanupComponentResources
\* for a disabled one
AfterConfigMaps(s, K) == (rsConfig \ K) \cup {k \in K : Enabled(s, k)}

HandleRightSizing ==
    /\ apc = "handle"
    /\ LET s == snap["analytics"].spec IN
       /\ policies' = AfterComponents(s, Kinds)
       /\ rsConfig' = AfterConfigMaps(s, Kinds)
       /\ state' = NextState(s, Kinds)
    /\ wasDelegated' = FALSE
    /\ apc' = "sync"
    /\ UNCHANGED <<ARest, Kept, req, adc, cleanupAt, misplaced>>

syncAdc ==
    /\ apc = "sync"
    /\ syncRightSizingStateToADC(snap["analytics"].spec.delegated)
    /\ apc' = "idle"
    /\ Wake(AdcEvent)
    /\ UNCHANGED <<ARest, Kept, rsVars, memVars, misplaced>>

-----------------------------------------------------------------------------
(* Faults                                                                  *)

Fault(f) == f \in Faults /\ faults < MaxFaults /\ faults' = faults + 1

\* A call fails: the Reconcile returns the error and the request comes back
MFails ==
    /\ Fault("call")
    /\ mpc # "idle"
    /\ mpc' = "idle"
    /\ Wake({"mco"})
    /\ UNCHANGED <<mco, cache, apc, terminating, mcoaVars, roles, operands, rsVars, memVars,
                   changes, overruled, misplaced>>

\* A delete fails in Phase 2 or in a delegation: the others are attempted, and
\* the objects in R are left
AFails ==
    /\ Fault("call")
    /\ apc \notin {"idle", "disable", "handle"}
    /\ \E R \in SUBSET policies :
          /\ \/ R = policies
             \/ apc = "cleanup"
             \/ /\ apc = "delegate" /\ ~wasDelegated /\ hasPolicyResourcesToCleanup
                /\ {p \in policies : p[2] # snap["analytics"].spec.ns[p[1]]} \subseteq R
          /\ policies' = R
    /\ apc' = "idle"
    /\ Wake({"analytics"})
    /\ UNCHANGED <<mco, cache, mpc, terminating, mcoaVars, roles, operands, rsConfig,
                   memVars, changes, overruled, misplaced>>

\* CreateRightSizingComponent: namespace right-sizing comes first
Before(k) == IF k = "virtualization" THEN Kinds \ {k} ELSE {}

\* A call fails for component k.  The state in memory of an enabled component has
\* been replaced by then, that of a disabled one has not; a cleanup attempts all
\* its deletes, and ApplyChangesFunc stops where it fails
PartlyHandled(s, k) ==
    LET own == {p \in policies : p[1] = k}
        old == own \cap Cleaned(k, state[k].ns)
        partlyCleaned == {own \ D : D \in SUBSET old}
    IN  IF ~Enabled(s, k) THEN partlyCleaned
        ELSE (IF Moved(s, k) THEN partlyCleaned ELSE {own})
             \cup {(IF Moved(s, k) THEN own \ old ELSE own) \cup Applied(k, s.ns[k], n) : n \in 0..2}

HandleFails ==
    /\ Fault("call")
    /\ apc = "handle"
    /\ \E k \in Kinds : LET s == snap["analytics"].spec IN
          /\ \E R \in PartlyHandled(s, k) :
                policies' = {p \in AfterComponents(s, Before(k)) : p[1] # k} \cup R
          /\ \E K \in {Before(k), Before(k) \cup {k}} : rsConfig' = AfterConfigMaps(s, K)
          /\ state' = NextState(s, Before(k) \cup {j \in {k} : Enabled(s, j)})
    /\ wasDelegated' = FALSE
    /\ apc' = "idle"
    /\ Wake({"analytics"})
    /\ UNCHANGED <<mco, cache, mpc, terminating, mcoaVars, roles, operands, cleanupAt,
                   changes, overruled, misplaced>>

\* The operator restarts: its memory is lost, its informers list everything
Restart ==
    /\ Fault("restart")
    /\ cache' = mco
    /\ req' = [c \in Controllers |-> mco.there]
    /\ mpc' = "idle" /\ apc' = "idle"
    /\ terminating' = FALSE
    /\ state' = FreshState /\ wasDelegated' = FALSE /\ cleanupAt' = "zero"
    /\ snap' = [c \in Controllers |-> NoMco]
    /\ UNCHANGED <<mco, mcoaVars, roles, operands, rsVars, changes, overruled, misplaced>>

-----------------------------------------------------------------------------
\* What a Reconcile has read is forgotten when it returns
Forget(c, pc) == snap' = IF pc = "idle" THEN [snap EXCEPT ![c] = NoMco] ELSE snap

MStep ==
    \/ MStart
    \/ /\ \/ initFinalization \/ removeFinalizer \/ addFinalizer
          \/ Deploy \/ cleanMCOA \/ Undeploy \/ deployOperands
       /\ Forget("mco", mpc')

AStep ==
    \/ AStart \/ refreshInstance
    \/ /\ \/ disableAdc \/ CleanupRightSizingResources
          \/ removeAnalyticsFinalizer \/ addAnalyticsFinalizer \/ ensureRightSizingDefaults
          \/ Delegate \/ HandleRightSizing \/ syncAdc
       /\ Forget("analytics", apc')

Environment == SyncMco \/ AddonDeploys \/ AddonCleans \/ WindowElapses

UserAction == (\E s \in Specs : CreateMco(s) \/ ChangeMco(s)) \/ DeleteMco

Next ==
    \/ MStep \/ AStep \/ Environment \/ UserAction
    \/ MFails /\ Forget("mco", "idle")
    \/ (AFails \/ HandleFails) /\ Forget("analytics", "idle")
    \/ Restart

Spec == Init /\ [][Next]_vars

\* Both controllers, the informer, the addon framework and time go on
Fair ==
    /\ WF_vars(MStep) /\ WF_vars(AStep)
    /\ WF_vars(SyncMco) /\ WF_vars(WindowElapses)
    /\ WF_vars(AddonDeploys) /\ WF_vars(AddonCleans)

FairSpec == Spec /\ Fair

-----------------------------------------------------------------------------
(* Properties                                                              *)

\* When the resource goes, the finalizers of both controllers have done their
\* work: no right-sizing object in any namespace, no cluster scoped resource and
\* no ManifestWork of MCOA is left behind.  (initFinalization,
\* CleanupRightSizingResources.)  overruled: the two controllers patch the list of
\* finalizers without a resource version, and one may have dropped the other's, or
\* put it back into a resource that was created anew
DepartsClean ==
    mco.there /\ ~mco'.there /\ mco.fin # {} /\ ~overruled' =>
        policies' = {} /\ rsConfig' = {} /\ ~roles' /\ ~works'

\* The addon manager outlives the ManifestWorks that only it can clean up, also
\* when MCOA is switched off while the resource stays (cleanupMCOAManifestWorks
\* before Undeploy)
ManagerLast == manager /\ ~manager' /\ ~overruled' => ~works
ManagerOutlivesWorks == [][ManagerLast]_vars

\* Each controller follows the finalizer protocol with its own finalizer: what
\* outlives the resource, the ManifestWorks of MCOA and what makes them, or the
\* right-sizing objects, it makes only under it, and takes it off when nothing is
\* left
Finalizer ==
    INSTANCE FinalizerProtocol
    WITH Sites <- Controllers,
         held  <- {c \in Controllers : mco.there /\ c \in mco.fin},
         dirty <- {c \in Controllers : IF c = "mco" THEN cma \/ works
                                       ELSE policies # {} \/ rsConfig # {}},
         taken <- {}
HonoursFinalizers ==
    ~overruled' => Finalizer!FinalizerNext \/ UNCHANGED Finalizer!finalizerVars
FinalizersHonoured == [][HonoursFinalizers /\ DepartsClean]_vars

Live == mco.there /\ ~mco.deleting /\ ~mco.spec.paused

\* A deleted resource goes (it stays deleted until it does): neither finalizer
\* waits for what will not happen
DeletionCompletes == []<>~mco.deleting

\* When the user leaves the resource alone, the ADC that MCOA reads comes to say
\* what the spec says, although two controllers write it from copies that may be
\* old, as long as Render renders it, and the Policies are where the spec binds
\* them, and nowhere else.  misplaced: a delegation that met another namespace in
\* memory than in the spec
AdcRight == Live /\ renderMCOA(mco.spec) => adc = AdcOf(mco.spec, mco.spec.delegated)
PoliciesRight ==
    Live /\ ~misplaced =>
        policies = {<<k, mco.spec.ns[k], p>> :
                      k \in {j \in Kinds : mco.spec.on[j] = "on" /\ ~mco.spec.delegated},
                      p \in PolicyParts}
RightSizingRight == AdcRight /\ PoliciesRight
RightSizingSettles == <>[]RightSizingRight

\* Once a delegation to MCOA is done, MCO's own Policies are gone
\* (CleanupPolicyResourcesForDelegation derives the namespaces from the spec and
\* not from memory, "which may be stale after a controller restart")
DelegationIsExclusive ==
    wasDelegated /\ apc = "idle" => ~\E p \in policies : p[3] = "policy"

=============================================================================
