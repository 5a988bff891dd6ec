---------------------------- MODULE HubOperands -----------------------------
(***************************************************************************)
(* The second half of the MCO controller's Reconcile                       *)
(* (controllers/multiclusterobservability): the namespace label, routes,   *)
(* the OAuth client, the secret of the remote-write endpoints, the         *)
(* Observatorium resource, Grafana's data sources, leftovers of earlier    *)
(* versions.  Each is read, compared and written in turn; some writes are  *)
(* followed by a second one (a restart of pods, the deletion of surplus    *)
(* StatefulSets) that is due only because of the first.  Users edit and    *)
(* delete the objects meanwhile; reads are taken to be current.            *)
(***************************************************************************)
EXTENDS Naturals, FiniteSets

CONSTANTS
    HubSpecs,        \* what users ask for: [size, shards, timeout, endpoints]
    FirstSpecs,      \* subset of HubSpecs: what they ask for at first
    HubFaultKinds,   \* subset of {"call", "restart"}
    MaxHubEdits,     \* bound: changes by users
    MaxHubFailures   \* bound: failed calls and restarts

Contents == {"none"} \cup UNION {{s.timeout, s.endpoints} : s \in HubSpecs}

Routes == {"alertmanager", "observatorium-api", "rbac-query-proxy", "grafana"}

\* tls: of the route, "missing" without a TLS section; to: it leads to its service
NoRoute == [tls |-> "absent", to |-> FALSE, timeout |-> "none"]
RouteType == [tls : {"absent", "missing", "wrong", "right", "byo"}, to : BOOLEAN,
              timeout : Contents]

\* The Observatorium resource: tenant of the API, tenants of the hashring, the
\* label with the hash of the API's configuration
NoObs == [there |-> FALSE]
ObsType == {NoObs} \cup
    [there : {TRUE}, tenant : Nat, ring : SUBSET Nat, hash : {0, 1},
     size : {s.size : s \in HubSpecs}, shards : {s.shards : s \in HubSpecs},
     endpoints : Contents]

\* What runs: the content a pod was started with
NoPod == [content |-> "none", ready |-> FALSE]
PodType == [content : Contents, ready : BOOLEAN]

Steps == {"idle", "label", "alertmanager", "observatorium-api", "rbac-query-proxy",
          "grafana", "oauth", "endpoints", "restartApi", "observatorium", "stores",
          "datasource", "restartGrafana", "legacy"}

VARIABLES
    asked,       \* the spec of the MCO resource
    snapSpec,   \* what the Reconcile has read of it
    apiConfig,  \* ConfigMap observability-observatorium-api
    byo,        \* the user's certificate for the proxy's route
    nsLabel, hubRoutes, oauthClient, eps, obs, ds, legacy,
    stores,     \* numbers of the Thanos store StatefulSets
    pods,       \* of the API and of Grafana
    uid, issued,\* tenantUID, in memory; UIDs made so far
    legacyGone, \* isLegacyResourceRemoved, in memory
    shardsWere, \* of the Observatorium resource before its update
    hubStep, hubReq,
    edited,     \* users have changed something since the Reconcile started
    undone,     \* what a Reconcile has left and none will make up for
    hubEdits, hubFailures

world  == <<apiConfig, byo, nsLabel, hubRoutes, oauthClient, eps, obs, ds, legacy, stores,
            pods>>
memory == <<uid, issued, legacyGone, shardsWere>>
hubVars == <<asked, snapSpec, apiConfig, byo, nsLabel, hubRoutes, oauthClient, eps, obs, ds,
             legacy, stores, pods, uid, issued, legacyGone, shardsWere, hubStep, hubReq, edited,
             undone, hubEdits, hubFailures>>

HubTypeOK ==
    /\ asked \in HubSpecs /\ snapSpec \in HubSpecs
    /\ apiConfig \in {0, 1} /\ byo \in {"none", "valid", "invalid"}
    /\ nsLabel \in {"none", "true", "false"}
    /\ hubRoutes \in [Routes -> RouteType]
    /\ oauthClient \in {"none", "host", "empty"}
    /\ eps \in Contents /\ ds \in Contents
    /\ obs \in ObsType
    /\ stores \subseteq Nat
    /\ pods \in [{"api", "grafana"} -> PodType]
    /\ uid \in Nat /\ issued \in Nat /\ shardsWere \in Nat
    /\ {legacy, legacyGone, hubReq, edited} \subseteq BOOLEAN
    /\ hubStep \in Steps
    /\ undone \subseteq {"api", "grafana", "stores", "oauth"}
    /\ hubEdits \in 0..MaxHubEdits /\ hubFailures \in 0..MaxHubFailures

HubInit ==
    /\ asked \in FirstSpecs /\ snapSpec = asked
    /\ apiConfig = 0 /\ byo = "none" /\ nsLabel = "none"
    /\ hubRoutes = [r \in Routes |-> NoRoute]
    /\ oauthClient = "none" /\ eps = "none" /\ ds = "none"
    /\ obs = NoObs /\ stores = {} /\ legacy = TRUE
    /\ pods = [p \in {"api", "grafana"} |-> NoPod]
    /\ uid = 0 /\ issued = 0 /\ legacyGone = FALSE /\ shardsWere = 0
    /\ hubStep = "idle" /\ hubReq = TRUE
    /\ edited = FALSE /\ undone = {}
    /\ hubEdits = 0 /\ hubFailures = 0

-----------------------------------------------------------------------------
(* Users and other controllers                                             *)

OwnedButSecrets == {"mco", "observatorium", "apiConfig", "namespace"}

\* Owns and Watches of SetupWithManager.  Routes are not watched, and the
\* endpoints' secret has no owner
Owned == {"mco", "observatorium", "datasource", "apiConfig", "namespace"}

Wakes(what) == hubReq' = (hubReq \/ what \in Owned)

Edit(what) ==
    /\ hubEdits < MaxHubEdits /\ hubEdits' = hubEdits + 1
    /\ edited' = TRUE
    /\ Wakes(what)
    /\ UNCHANGED <<snapSpec, oauthClient, legacy, memory, hubStep, undone, hubFailures>>

ChangeSpec(s) ==
    /\ s # asked
    /\ asked' = s /\ Edit("mco")
    /\ UNCHANGED <<apiConfig, byo, nsLabel, hubRoutes, eps, obs, ds, stores, pods>>

ChangeApiConfig ==
    /\ apiConfig' = 1 - apiConfig /\ Edit("apiConfig")
    /\ UNCHANGED <<asked, byo, nsLabel, hubRoutes, eps, obs, ds, stores, pods>>

ProvideCertificate(c) ==
    /\ c # byo
    /\ byo' = c /\ Edit("certificate")
    /\ UNCHANGED <<asked, apiConfig, nsLabel, hubRoutes, eps, obs, ds, stores, pods>>

\* GetNamespacePredicateFunc lets any change away from "true" through
EditLabel(l) ==
    /\ l # nsLabel
    /\ nsLabel' = l /\ Edit("namespace")
    /\ UNCHANGED <<asked, apiConfig, byo, hubRoutes, eps, obs, ds, stores, pods>>

EditRoute(r, t) ==
    /\ hubRoutes[r] # NoRoute
    /\ hubRoutes' = [hubRoutes EXCEPT ![r] =
            IF t = "absent" THEN NoRoute
            ELSE IF t = "elsewhere" THEN [@ EXCEPT !.to = FALSE] ELSE [@ EXCEPT !.tls = t]]
    /\ Edit("route")
    /\ UNCHANGED <<asked, apiConfig, byo, nsLabel, eps, obs, ds, stores, pods>>

\* What the Observatorium operator deployed for a resource is collected with it
DeleteObject(o) ==
    /\ IF o = "observatorium"
       THEN /\ obs.there
            /\ obs' = NoObs /\ stores' = {} /\ pods' = [pods EXCEPT !["api"] = NoPod]
       ELSE UNCHANGED <<obs, stores, pods>>
    /\ ds' = IF o = "datasource" THEN "none" ELSE ds
    /\ eps' = IF o = "endpoints" THEN "none" ELSE eps
    /\ Edit(o)
    /\ UNCHANGED <<asked, apiConfig, byo, nsLabel, hubRoutes>>

Aside == <<asked, snapSpec, apiConfig, byo, nsLabel, hubRoutes, oauthClient, eps, obs, ds,
           legacy, memory, hubStep, edited, hubEdits, hubFailures>>

\* A pod waits for its secret, starts with what it holds, and gets ready later
StartPod(p) ==
    LET content == IF p = "api" THEN eps ELSE ds
    IN  /\ pods[p] = NoPod /\ content # "none"
        /\ p = "api" => obs.there /\ obs.endpoints # "none"
        /\ pods' = [pods EXCEPT ![p].content = content]
        /\ UNCHANGED <<Aside, hubReq, stores, undone>>

GetReady(p) ==
    /\ pods[p].content # "none" /\ ~pods[p].ready
    /\ pods' = [pods EXCEPT ![p].ready = TRUE]
    /\ UNCHANGED <<Aside, hubReq, stores, undone>>

\* The Observatorium operator creates the StatefulSets of the shards
DeployStores ==
    /\ obs.there
    /\ ~(0..(obs.shards - 1) \subseteq stores)
    /\ stores' = stores \cup 0..(obs.shards - 1)
    /\ UNCHANGED <<Aside, hubReq, pods, undone>>

-----------------------------------------------------------------------------
(* Reconcile                                                               *)

Goto(s) == hubStep' = s /\ UNCHANGED <<asked, edited, hubEdits, hubFailures>>

StartReconcile ==
    /\ hubStep = "idle" /\ hubReq
    /\ hubReq' = FALSE /\ snapSpec' = asked
    /\ hubStep' = "label" /\ edited' = FALSE
    /\ UNCHANGED <<asked, world, memory, undone, hubEdits, hubFailures>>

\* A label with another value is left alone
ensureOpenShiftNamespaceLabel ==
    /\ hubStep = "label"
    /\ nsLabel' = IF nsLabel = "none" THEN "true" ELSE nsLabel
    /\ Goto("alertmanager")
    /\ UNCHANGED <<snapSpec, apiConfig, byo, hubRoutes, oauthClient, eps, obs, ds, legacy,
                   stores, pods, memory, hubReq, undone>>

MadeRoute(r) ==
    [tls |-> IF r = "rbac-query-proxy" /\ byo = "valid" THEN "byo" ELSE "right",
     to |-> TRUE, timeout |-> IF r = "grafana" THEN snapSpec.timeout ELSE "none"]

\* Only the TLS section is compared, and then the whole route replaced
GenerateAlertmanagerRoute(found) ==
    IF found.tls = MadeRoute("alertmanager").tls THEN found ELSE MadeRoute("alertmanager")

\* A TLS section is repaired, a missing one is not added
GenerateAPIGatewayRoute(found) ==
    IF found.tls = "absent" THEN MadeRoute("observatorium-api")
    ELSE [found EXCEPT !.tls = IF @ = "missing" THEN @ ELSE "right", !.to = TRUE]

GenerateProxyRoute(found) ==
    IF found.tls = MadeRoute("rbac-query-proxy").tls THEN found
    ELSE MadeRoute("rbac-query-proxy")

\* The spec of a route that was read never equals the rendered one: it is replaced
GenerateGrafanaRoute(found) == MadeRoute("grafana")

NextStep == [r \in Routes |->
    CASE r = "alertmanager" -> "observatorium-api"
      [] r = "observatorium-api" -> "rbac-query-proxy"
      [] r = "rbac-query-proxy" -> "grafana"
      [] r = "grafana" -> "oauth"]

GenerateRoute(r) ==
    /\ hubStep = r
    /\ r = "rbac-query-proxy" => byo # "invalid"
    /\ hubRoutes' = [hubRoutes EXCEPT ![r] =
            CASE r = "alertmanager" -> GenerateAlertmanagerRoute(@)
              [] r = "observatorium-api" -> GenerateAPIGatewayRoute(@)
              [] r = "rbac-query-proxy" -> GenerateProxyRoute(@)
              [] r = "grafana" -> GenerateGrafanaRoute(@)]
    /\ Goto(NextStep[r])
    /\ UNCHANGED <<snapSpec, apiConfig, byo, nsLabel, oauthClient, eps, obs, ds, legacy,
                   stores, pods, memory, hubReq, undone>>

\* A certificate without its key: the Reconcile ends with an error
RejectCertificate ==
    /\ hubStep = "rbac-query-proxy" /\ byo = "invalid"
    /\ hubReq' = TRUE
    /\ Goto("idle")
    /\ UNCHANGED <<snapSpec, world, memory, undone>>

\* GetRouteHost falls back to the domain of the ingress controller when the cache
\* has no route yet, and to no host at all when that cannot be read.  The client
\* is created once
GenerateGrafanaOauthClient ==
    /\ hubStep = "oauth"
    /\ oauthClient' = IF oauthClient = "none" THEN "host" ELSE oauthClient
    /\ undone' = IF oauthClient = "none" THEN undone \ {"oauth"} ELSE undone
    /\ Goto("endpoints")
    /\ UNCHANGED <<snapSpec, apiConfig, byo, nsLabel, hubRoutes, eps, obs, ds, legacy,
                   stores, pods, memory, hubReq>>

\* A secret is created, again perhaps: the pods are not restarted
Created(p, old, new) ==
    undone' = IF old = "none" /\ pods[p].content \notin {"none", new}
                 THEN undone \cup {p} ELSE undone

\* applyEndpointsSecret, called by newAPISpec; only an update restarts the API
applyEndpointsSecret ==
    /\ hubStep = "endpoints"
    /\ LET outdated == snapSpec.endpoints \notin {"none", eps} IN
       /\ eps' = IF outdated THEN snapSpec.endpoints ELSE eps
       /\ Goto(IF outdated /\ eps # "none" THEN "restartApi" ELSE "observatorium")
    /\ Created("api", eps, eps')
    /\ UNCHANGED <<snapSpec, apiConfig, byo, nsLabel, hubRoutes, oauthClient, obs, ds,
                   legacy, stores, pods, memory, hubReq>>

\* UpdateDeployLabel restarts a deployment that has ready pods
UpdateDeployLabel(p, content) ==
    IF pods[p].ready
    THEN /\ pods' = [pods EXCEPT ![p].content = content]
         /\ undone' = undone \ {p}
         /\ hubReq' = TRUE
    ELSE /\ undone' = IF pods[p].content \in {"none", content} THEN undone \ {p}
                         ELSE undone \cup {p}
         /\ UNCHANGED <<pods, hubReq>>

\* Without the Observatorium resource there is no deployment to restart: an error
restartApi ==
    /\ hubStep = "restartApi"
    /\ \/ obs.there /\ UpdateDeployLabel("api", eps) /\ Goto("observatorium")
       \/ ~obs.there /\ hubReq' = TRUE /\ Goto("idle") /\ UNCHANGED <<pods, undone>>
    /\ UNCHANGED <<snapSpec, apiConfig, byo, nsLabel, hubRoutes, oauthClient, eps, obs,
                   ds, legacy, stores, memory>>

\* newDefaultObservatoriumSpec, with GetTenantUID and the hash of the API's
\* configuration; m: the UID in memory
newObservatorium(m) ==
    [there |-> TRUE, tenant |-> m, ring |-> {m}, hash |-> apiConfig,
     size |-> snapSpec.size, shards |-> snapSpec.shards, endpoints |-> snapSpec.endpoints]

updateApiTenantID(new, old) == [new EXCEPT !.tenant = old.tenant]

updateTenantID(new, old) ==
    IF new.tenant = old.tenant THEN new
    ELSE [new EXCEPT !.tenant = old.tenant,
                     !.ring = IF new.tenant \in @ THEN (@ \ {new.tenant}) \cup {old.tenant} ELSE @]

OutdatedSpec(new, old) == [new EXCEPT !.hash = old.hash] # old

\* The spec and the label are compared
Outdated(new, old) == new # old

\* GetTenantUID makes a UID once in the life of the process
GenerateObservatoriumCR ==
    /\ hubStep = "observatorium"
    /\ uid' = IF uid = 0 THEN issued + 1 ELSE uid
    /\ issued' = IF uid = 0 THEN issued + 1 ELSE issued
    /\ LET new == updateTenantID(newObservatorium(uid'), obs) IN
       IF ~obs.there
       THEN /\ obs' = newObservatorium(uid')
            /\ hubReq' = TRUE
            /\ Goto("datasource") /\ UNCHANGED shardsWere
       ELSE IF Outdated(new, obs)
       THEN /\ obs' = new /\ shardsWere' = obs.shards
            /\ hubReq' = TRUE
            /\ Goto("stores")
       ELSE /\ Goto("datasource") /\ UNCHANGED <<obs, shardsWere, hubReq>>
    /\ UNCHANGED <<snapSpec, apiConfig, byo, nsLabel, hubRoutes, oauthClient, eps, ds,
                   legacy, stores, pods, legacyGone, undone>>

deleteStoreSts ==
    /\ hubStep = "stores"
    /\ stores' = stores \ (snapSpec.shards)..(shardsWere - 1)
    /\ Goto("datasource")
    /\ UNCHANGED <<snapSpec, apiConfig, byo, nsLabel, hubRoutes, oauthClient, eps, obs,
                   ds, legacy, pods, memory, hubReq, undone>>

GenerateGrafanaDataSource ==
    /\ hubStep = "datasource"
    /\ ds' = snapSpec.timeout
    /\ Goto(IF ds \in {"none", ds'} THEN "legacy" ELSE "restartGrafana")
    /\ hubReq' = (hubReq \/ ds # ds')
    /\ Created("grafana", ds, ds')
    /\ UNCHANGED <<snapSpec, apiConfig, byo, nsLabel, hubRoutes, oauthClient, eps, obs,
                   legacy, stores, pods, memory>>

restartGrafana ==
    /\ hubStep = "restartGrafana"
    /\ UpdateDeployLabel("grafana", ds)
    /\ Goto("legacy")
    /\ UNCHANGED <<snapSpec, apiConfig, byo, nsLabel, hubRoutes, oauthClient, eps, obs,
                   ds, legacy, stores, memory>>

\* PrometheusRule, ServiceMonitors and Ingress of earlier versions, once
deleteLegacy ==
    /\ hubStep = "legacy"
    /\ legacy' = (legacy /\ legacyGone)
    /\ legacyGone' = TRUE
    /\ Goto("idle")
    /\ UNCHANGED <<snapSpec, apiConfig, byo, nsLabel, hubRoutes, oauthClient, eps, obs,
                   ds, stores, pods, uid, issued, shardsWere, hubReq, undone>>

-----------------------------------------------------------------------------
(* Faults                                                                  *)

HubFault(f) ==
    f \in HubFaultKinds /\ hubFailures < MaxHubFailures /\ hubFailures' = hubFailures + 1

\* What is due only after another write is not done by the next Reconcile
Undone ==
    CASE hubStep = "restartApi" /\ pods["api"].content \notin {"none", eps} -> {"api"}
      [] hubStep = "restartGrafana" /\ pods["grafana"].content \notin {"none", ds} -> {"grafana"}
      [] hubStep = "stores" -> {"stores"}
      [] OTHER -> {}

HubCallFails ==
    /\ HubFault("call")
    /\ hubStep # "idle"
    /\ hubStep = "oauth" => oauthClient = "none"
    /\ hubStep' = "idle" /\ hubReq' = TRUE
    /\ undone' = undone \cup Undone
    /\ UNCHANGED <<asked, snapSpec, world, memory, edited, hubEdits>>

\* No host, or an error that the caller drops because there is no result with it
OauthCallFails ==
    /\ HubFault("call")
    /\ hubStep = "oauth"
    /\ oauthClient' \in IF oauthClient = "none" THEN {"none", "empty"} ELSE {oauthClient}
    /\ undone' = IF oauthClient = "host" THEN undone ELSE undone \cup {"oauth"}
    /\ hubStep' = "endpoints"
    /\ UNCHANGED <<asked, snapSpec, apiConfig, byo, nsLabel, hubRoutes, eps, obs, ds,
                   legacy, stores, pods, memory, hubReq, edited, hubEdits>>

RestartHub ==
    /\ HubFault("restart")
    /\ hubStep' = "idle" /\ hubReq' = TRUE
    /\ uid' = 0 /\ legacyGone' = FALSE /\ shardsWere' = 0
    /\ undone' = undone \cup Undone
    /\ UNCHANGED <<asked, snapSpec, world, issued, edited, hubEdits>>

-----------------------------------------------------------------------------
HubStep ==
    \/ StartReconcile \/ ensureOpenShiftNamespaceLabel
    \/ \E r \in Routes : GenerateRoute(r)
    \/ RejectCertificate \/ GenerateGrafanaOauthClient
    \/ applyEndpointsSecret \/ restartApi
    \/ GenerateObservatoriumCR \/ deleteStoreSts
    \/ GenerateGrafanaDataSource \/ restartGrafana \/ deleteLegacy

HubUser ==
    \/ \E s \in HubSpecs : ChangeSpec(s)
    \/ ChangeApiConfig
    \/ \E c \in {"none", "valid", "invalid"} : ProvideCertificate(c)
    \/ \E l \in {"none", "false"} : EditLabel(l)
    \/ \E r \in Routes, t \in {"absent", "missing", "wrong", "elsewhere"} : EditRoute(r, t)
    \/ \E o \in {"observatorium", "datasource", "endpoints"} : DeleteObject(o)

HubPods == (\E p \in {"api", "grafana"} : StartPod(p) \/ GetReady(p)) \/ DeployStores

HubNext == HubStep \/ HubUser \/ HubPods \/ HubCallFails \/ OauthCallFails \/ RestartHub

HubSpec == HubInit /\ [][HubNext]_hubVars

\* The controller works off its queue and the pods start
HubFair == WF_hubVars(HubStep) /\ WF_hubVars(HubPods)

-----------------------------------------------------------------------------
(* Properties                                                              *)

\* The tenant under which the metrics are stored never changes while the
\* Observatorium resource lives, and the receivers' hashring follows it, although
\* every process of the operator has a tenant UID of its own (GetTenantUID,
\* updateTenantID)
TenantStays ==
    obs.there /\ obs'.there => obs'.tenant = obs.tenant /\ obs'.ring = {obs.tenant}
TenantKept == [][TenantStays]_hubVars

ObsRight(s) ==
    /\ obs.there /\ obs.hash = apiConfig
    /\ obs.size = s.size /\ obs.shards = s.shards /\ obs.endpoints = s.endpoints

\* A Reconcile that runs to its end while users leave everything alone has put
\* all operands right, whatever was edited, deleted, interrupted or half done
\* before, and the pods run with what it wrote.  Not so: a removed TLS section of
\* the API's route, the service the other two routes lead to, what is in undone
AllRight ==
    /\ nsLabel # "none" /\ ~legacy
    /\ "oauth" \in undone \/ oauthClient = "host"
    /\ \A r \in Routes :
          hubRoutes[r].tls \in {MadeRoute(r).tls} \cup
                               (IF r = "observatorium-api" THEN {"missing"} ELSE {})
    /\ hubRoutes["grafana"].timeout = snapSpec.timeout
    /\ hubRoutes["grafana"].to /\ hubRoutes["observatorium-api"].to
    /\ ObsRight(snapSpec)
    /\ "stores" \in undone \/ \A n \in stores : n < obs.shards
    /\ ds = snapSpec.timeout
    /\ "grafana" \in undone \/ pods["grafana"].content \in {"none", ds}
    /\ "api" \in undone \/ snapSpec.endpoints = "none" \/ pods["api"].content \in {"none", eps}
EndsRight ==
    hubStep = "legacy" /\ hubStep' = "idle" /\ ~edited /\ hubFailures' = hubFailures => AllRight'
ReconcileRepairs == [][EndsRight]_hubVars

\* Once users stop, what is watched becomes and stays what the spec says, unless
\* an invalid certificate of the user ends every Reconcile before
WatchedRight ==
    byo # "invalid" => /\ ObsRight(asked) /\ ds = asked.timeout
                       /\ \A n \in 0..(obs.shards - 1) : n \in stores
HubSettles == <>[]WatchedRight

\* The same without time, of what the operator writes itself: no edit of what it
\* watches is forgotten, whatever Reconcile was doing when it came
NoEditMissed == hubStep = "idle" /\ ~hubReq => ObsRight(asked) /\ ds = asked.timeout

=============================================================================
