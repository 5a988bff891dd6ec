-------------------------------- MODULE System --------------------------------
(***************************************************************************)
(* Thirteen parts of the system that share no state.  A behaviour is one   *)
(* of one part, which the initial state picks out of Parts; the variables  *)
(* of the others are Off.                                                  *)
(***************************************************************************)
EXTENDS Naturals, Sequences, FiniteSets

\* Those of the parts' modules, which say what they are
CONSTANTS
    Parts,
    \* McoLifecycle
    Kinds, Namespaces, DefaultNamespace, Specs, Faults, MaxChanges, MaxFaults,
    \* StorageResize
    Components, Own, Sizes, Classes, StorageFaults, MaxStorageChanges, MaxStorageFaults,
    \* McoStatus
    Crds, Operands, ResourceSpecs, MaxResourceChanges, MaxOperandChanges, MaxMisreads,
    \* Deployer
    DeployedKinds, Skipped, Versions, MaxEdits, MaxDeployFaults,
    \* CertRotation
    Leaves, MaxDeletions, MaxCertFaults,
    \* DashboardLoader
    DashMaps, Uids, MapContents, MaxMapChanges, MaxRetries, MaxDashFaults,
    \* CollectRules
    Series, RuleOf, Duration, Expire, renderMatches, MaxFlips, MaxRuleFaults,
    \* MetricsForwarder
    MatcherLists, WorkerNums, RecordingRules, Life, RenewedBy, MaxBatches, MaxAttempts,
    MaxForwardFaults,
    \* CmoConfig
    Hubs, Agents, UserMaps, OldMaps, MaxHubChanges, MaxCmoEdits, MaxCmoFaults,
    \* LabelAllowlist
    Pods, Labels, Required, DefaultIgnored, Clusters, UserLists, MaxSyncs, MaxListChanges,
    MaxListFaults,
    \* QueryProxy
    ManagedClusters, AllClusters, AllNamespaces, Grants, Expiration, MaxProjectChanges,
    MaxProxyFaults,
    \* UpstreamTls
    MaxRotations, MaxTlsFaults,
    \* HubOperands
    HubSpecs, FirstSpecs, HubFaultKinds, MaxHubEdits, MaxHubFailures

VARIABLES
    part,
    \* McoLifecycle
    mco, cache, req, mpc, apc, snap, terminating, cma, works, manager, adc, roles,
    operands, policies, rsConfig, state, wasDelegated, cleanupAt, changes, faults, overruled,
    misplaced,
    \* StorageResize
    specConfig, storageReq, step, config, lastConfig, sts, pvc, obsConfig,
    storageChanges, storageFaults, failedConfig, lossesDue, missed,
    \* McoStatus
    resource, resourceCache, read, outdated, due, phase, newConds, operand, overlooked,
    resourceChanges, operandChanges, misreads,
    \* Deployer
    kind, object, found, moved, version, enabled, wake, doing, wroteSame, edits,
    deployFaults,
    \* CertRotation
    bundle, lastKey, leaf, dropped, loaded, restartDue, resync, certReq, caCreated,
    certStep, forgotten, deletions, certFaults,
    \* DashboardLoader
    maps, keys, later, retries, work, uidMap, lock, listed, expected, started, boards, folders,
    homeBoard, searched, abandoned, mapChanges, dashFaults,
    \* CollectRules
    truth, pending, firing, resolved, worker, lingering, held, gone, startFailed, flips,
    ruleFaults,
    \* MetricsForwarder
    shards, me, ruleCount, token, file, renewIn, round, batches, accepted, attempts,
    failures, reported, forwardFaults,
    \* CmoConfig
    actual, copy, behind, want, todo, at, plan, flag, marker, deaf, cut, hubChanges,
    cmoEdits, cmoFaults,
    \* LabelAllowlist
    clusterLabels, allowlist, known, memory, dirty, signal, timer, synced, syncs, syncLost,
    overtaken, listChanges, listFaults,
    \* QueryProxy
    clusters, projects, grant, entry, unchanged, request, carries, access, projectChanges,
    proxyFaults,
    \* UpstreamTls
    files, conn, paths, caRead, tls, target, early, tlsFaults,
    \* HubOperands
    asked, snapSpec, apiConfig, byo, nsLabel, hubRoutes, oauthClient, eps, obs, ds,
    legacy, stores, pods, uid, issued, legacyGone, shardsWere, hubStep, hubReq, edited,
    undone, hubEdits, hubFailures

-----------------------------------------------------------------------------
(* The parts                                                               *)

Lifecycle == INSTANCE McoLifecycle
Storage == INSTANCE StorageResize
Status == INSTANCE McoStatus
Objects == INSTANCE Deployer
Certs == INSTANCE CertRotation
Dashboards == INSTANCE DashboardLoader
Rules == INSTANCE CollectRules
Forwarder == INSTANCE MetricsForwarder
Cmo == INSTANCE CmoConfig
Allowlist == INSTANCE LabelAllowlist
Proxy == INSTANCE QueryProxy
Tls == INSTANCE UpstreamTls
Hub == INSTANCE HubOperands

-----------------------------------------------------------------------------
(* What is assumed of the constants                                        *)

\* Users give the resource specs that have the fields of the CRD
ASSUME LifecycleAssumption ==
    /\ Specs # {} /\ Specs \subseteq Lifecycle!SpecType
    /\ DefaultNamespace \in Namespaces

\* The kubelet replaces the token in the file early enough for a read that has
\* found the old one to be repeated, and the time autoRenew leaves (Remaining)
\* makes room for the reads that fail
ASSUME ForwarderAssumption ==
    /\ Life \in Nat /\ RenewedBy \in Nat /\ MaxForwardFaults \in Nat
    /\ RenewedBy + Forwarder!ReadBackoff + MaxForwardFaults * Forwarder!ReadBackoff < Life
    /\ MaxForwardFaults * Forwarder!ReadBackoff <= Forwarder!Remaining

\* Matchers come in lists, and workers are counted
ASSUME WorkersAssumption ==
    WorkerNums \subseteq Nat /\ \A l \in MatcherLists : l \in Seq({l[i] : i \in DOMAIN l})

\* One of the expiry and the durations is the longest: the rules are finitely many
ASSUME RulesAssumption ==
    /\ Expire \in Nat /\ \A h \in Series : Duration[RuleOf[h]] \in Nat
    /\ \E n \in {Expire} \cup {Duration[r] : r \in Rules!RuleNames} :
         \A m \in {Expire} \cup {Duration[r] : r \in Rules!RuleNames} : m <= n

\* The access review answers for clusters and for all clusters
ASSUME ProxyAssumption ==
    /\ Expiration \in Nat
    /\ \A g \in Grants : DOMAIN g \subseteq ManagedClusters \cup {AllClusters}

\* 0 stands for what no version of the operator renders
ASSUME VersionsAssumption == Versions \subseteq Nat \ {0} /\ 1 \in Versions

\* Users ask for a number of shards
ASSUME HubAssumption ==
    /\ FirstSpecs \subseteq HubSpecs /\ \A s \in HubSpecs : s.shards \in Nat
    /\ MaxHubEdits \in Nat /\ MaxHubFailures \in Nat

\* The certificates the operator has to do with
ASSUME CertsAssumption ==
    /\ Leaves \subseteq {"grafana", "hub", "spoke"}
    /\ MaxDeletions \in Nat /\ MaxCertFaults \in Nat

\* No hub is called like the user, who writes no stanza of a hub; earlier versions
\* have left at most one for each; stanzas stand in the prometheus section of a
\* config.yaml that parses
ASSUME CmoAssumption ==
    /\ Agents \subseteq Hubs /\ "user" \notin Hubs
    /\ UserMaps \cup OldMaps \subseteq Cmo!MapType
    /\ \A m \in UserMaps \cup OldMaps :
         (m.ams # <<>> => m.prom) /\ (m.prom => m.there /\ m.data = "yaml")
    /\ \A m \in UserMaps, h \in Hubs : \A i \in DOMAIN m.ams : ~Cmo!IsManaged(m.ams[i], h)
    /\ \A m \in OldMaps, h \in Hubs : \A i, j \in DOMAIN m.ams :
         Cmo!IsManaged(m.ams[i], h) /\ Cmo!IsManaged(m.ams[j], h) => i = j
    /\ MaxHubChanges \in Nat /\ MaxCmoEdits \in Nat /\ MaxCmoFaults \in Nat

\* The operands are what their checks tell apart, and so are the specs
ASSUME StatusAssumption ==
    /\ Operands \subseteq Status!OperandType
    /\ ResourceSpecs \subseteq [paused : BOOLEAN, metrics : BOOLEAN, mcoa : BOOLEAN]

\* The lists of labels hold labels
ASSUME AllowlistAssumption ==
    Required \cup DefaultIgnored \subseteq Labels /\ UserLists \subseteq Allowlist!Lists

\* The bounds of the other parts are numbers
ASSUME BoundsAssumption ==
    {MaxChanges, MaxFaults, MaxStorageChanges, MaxStorageFaults, MaxResourceChanges,
     MaxOperandChanges, MaxMisreads, MaxEdits, MaxDeployFaults, MaxMapChanges, MaxRetries,
     MaxDashFaults, MaxFlips, MaxRuleFaults, MaxBatches, MaxAttempts, MaxSyncs, MaxListChanges,
     MaxListFaults, MaxProjectChanges, MaxProxyFaults, MaxRotations, MaxTlsFaults} \subseteq Nat

\* There are ConfigMaps, finitely many, and they hold dashboards
ASSUME DashboardsAssumption ==
    /\ DashMaps # {} /\ IsFiniteSet(DashMaps)
    /\ \A c \in DashMaps : MapContents[c] \subseteq Dashboards!Content

-----------------------------------------------------------------------------
Off == 0

mcoVars == <<mco, cache, req, mpc, apc, snap, terminating, cma, works, manager, adc, roles,
             operands, policies, rsConfig, state, wasDelegated, cleanupAt, changes, faults,
             overruled, misplaced>>
storageVars == <<specConfig, storageReq, step, config, lastConfig, sts, pvc, obsConfig,
                 storageChanges, storageFaults, failedConfig, lossesDue, missed>>
statusVars == <<resource, resourceCache, read, outdated, due, phase, newConds, operand,
                overlooked, resourceChanges, operandChanges, misreads>>
deployVars == <<kind, object, found, moved, version, enabled, wake, doing, wroteSame, edits,
                deployFaults>>
certVars == <<bundle, lastKey, leaf, dropped, loaded, restartDue, resync, certReq,
              caCreated, certStep, forgotten, deletions, certFaults>>
dashVars == <<maps, keys, later, retries, work, uidMap, lock, listed, expected, started,
              boards, folders, homeBoard, searched, abandoned, mapChanges, dashFaults>>
ruleVars == <<truth, pending, firing, resolved, worker, lingering, held, gone, startFailed,
              flips, ruleFaults>>
forwarderVars == <<shards, me, ruleCount, token, file, renewIn, round, batches, accepted,
                   attempts, failures, reported, forwardFaults>>
cmoVars == <<actual, copy, behind, want, todo, at, plan, flag, marker, deaf, cut,
             hubChanges, cmoEdits, cmoFaults>>
listVars == <<clusterLabels, allowlist, known, memory, dirty, signal, timer, synced, syncs,
              syncLost, overtaken, listChanges, listFaults>>
proxyVars == <<clusters, projects, grant, entry, unchanged, request, carries, access,
               projectChanges, proxyFaults>>
tlsVars == <<files, conn, paths, caRead, tls, target, early, tlsFaults>>
hubVars == <<asked, snapSpec, apiConfig, byo, nsLabel, hubRoutes, oauthClient, eps, obs, ds,
             legacy, stores, pods, uid, issued, legacyGone, shardsWere, hubStep, hubReq,
             edited, undone, hubEdits, hubFailures>>

NoLifecycle ==
    /\ mco = Off /\ cache = Off /\ req = Off /\ mpc = Off /\ apc = Off /\ snap = Off
    /\ terminating = Off /\ cma = Off /\ works = Off /\ manager = Off /\ adc = Off
    /\ roles = Off /\ operands = Off /\ policies = Off /\ rsConfig = Off /\ state = Off
    /\ wasDelegated = Off /\ cleanupAt = Off /\ changes = Off /\ faults = Off
    /\ overruled = Off /\ misplaced = Off

NoStorage ==
    /\ specConfig = Off /\ storageReq = Off /\ step = Off /\ config = Off
    /\ lastConfig = Off /\ sts = Off /\ pvc = Off /\ obsConfig = Off
    /\ storageChanges = Off /\ storageFaults = Off /\ failedConfig = Off /\ lossesDue = Off
    /\ missed = Off

NoStatus ==
    /\ resource = Off /\ resourceCache = Off /\ read = Off /\ outdated = Off
    /\ due = Off /\ phase = Off /\ newConds = Off /\ operand = Off /\ overlooked = Off
    /\ resourceChanges = Off /\ operandChanges = Off /\ misreads = Off

NoObjects ==
    /\ kind = Off /\ object = Off /\ found = Off /\ moved = Off /\ version = Off
    /\ enabled = Off /\ wake = Off /\ doing = Off /\ wroteSame = Off /\ edits = Off
    /\ deployFaults = Off

NoCerts ==
    /\ bundle = Off /\ lastKey = Off /\ leaf = Off /\ dropped = Off /\ loaded = Off
    /\ restartDue = Off /\ resync = Off /\ certReq = Off /\ caCreated = Off
    /\ certStep = Off /\ forgotten = Off /\ deletions = Off /\ certFaults = Off

NoDashboards ==
    /\ maps = Off /\ keys = Off /\ later = Off /\ retries = Off /\ work = Off
    /\ uidMap = Off /\ lock = Off /\ listed = Off /\ started = Off /\ boards = Off
    /\ folders = Off /\ homeBoard = Off /\ searched = Off /\ mapChanges = Off
    /\ dashFaults = Off /\ expected = Off /\ abandoned = Off

NoRules ==
    /\ truth = Off /\ pending = Off /\ firing = Off /\ resolved = Off /\ worker = Off
    /\ lingering = Off /\ held = Off /\ gone = Off /\ startFailed = Off /\ flips = Off
    /\ ruleFaults = Off

NoForwarder ==
    /\ shards = Off /\ me = Off /\ ruleCount = Off /\ token = Off /\ file = Off
    /\ renewIn = Off /\ round = Off /\ batches = Off /\ accepted = Off /\ attempts = Off
    /\ failures = Off /\ reported = Off /\ forwardFaults = Off

NoCmo ==
    /\ actual = Off /\ copy = Off /\ behind = Off /\ want = Off /\ todo = Off
    /\ at = Off /\ plan = Off /\ flag = Off /\ marker = Off /\ deaf = Off /\ cut = Off
    /\ hubChanges = Off /\ cmoEdits = Off /\ cmoFaults = Off

NoAllowlist ==
    /\ clusterLabels = Off /\ allowlist = Off /\ known = Off /\ memory = Off
    /\ dirty = Off /\ signal = Off /\ timer = Off /\ synced = Off /\ syncLost = Off
    /\ syncs = Off /\ overtaken = Off
    /\ listChanges = Off /\ listFaults = Off

NoProxy ==
    /\ clusters = Off /\ projects = Off /\ grant = Off /\ entry = Off /\ unchanged = Off
    /\ request = Off /\ carries = Off /\ access = Off /\ projectChanges = Off /\ proxyFaults = Off

NoTls ==
    /\ files = Off /\ conn = Off /\ paths = Off /\ caRead = Off /\ tls = Off
    /\ target = Off /\ early = Off /\ tlsFaults = Off

NoHub ==
    /\ asked = Off /\ snapSpec = Off /\ apiConfig = Off /\ byo = Off /\ nsLabel = Off
    /\ hubRoutes = Off /\ oauthClient = Off /\ eps = Off /\ obs = Off /\ ds = Off
    /\ legacy = Off /\ stores = Off /\ pods = Off /\ uid = Off /\ issued = Off
    /\ legacyGone = Off /\ shardsWere = Off /\ hubStep = Off /\ hubReq = Off
    /\ edited = Off /\ undone = Off /\ hubEdits = Off /\ hubFailures = Off

SystemInit ==
    /\ part \in Parts
    /\ \/ part = "lifecycle" /\ Lifecycle!Init
       \/ part # "lifecycle" /\ NoLifecycle
    /\ \/ part = "storage" /\ Storage!StorageInit
       \/ part # "storage" /\ NoStorage
    /\ \/ part = "status" /\ Status!McoStatusInit
       \/ part # "status" /\ NoStatus
    /\ \/ part = "objects" /\ Objects!DeployerInit
       \/ part # "objects" /\ NoObjects
    /\ \/ part = "certs" /\ Certs!CertInit
       \/ part # "certs" /\ NoCerts
    /\ \/ part = "dashboards" /\ Dashboards!DashInit
       \/ part # "dashboards" /\ NoDashboards
    /\ \/ part = "rules" /\ Rules!RulesInit
       \/ part # "rules" /\ NoRules
    /\ \/ part = "forwarder" /\ Forwarder!ForwarderInit
       \/ part # "forwarder" /\ NoForwarder
    /\ \/ part = "cmo" /\ Cmo!CmoInit
       \/ part # "cmo" /\ NoCmo
    /\ \/ part = "allowlist" /\ Allowlist!AllowlistInit
       \/ part # "allowlist" /\ NoAllowlist
    /\ \/ part = "proxy" /\ Proxy!ProxyInit
       \/ part # "proxy" /\ NoProxy
    /\ \/ part = "tls" /\ Tls!TlsInit
       \/ part # "tls" /\ NoTls
    /\ \/ part = "hub" /\ Hub!HubInit
       \/ part # "hub" /\ NoHub

SystemNext ==
    \/ /\ part = "lifecycle" /\ Lifecycle!Next
       /\ UNCHANGED <<part, storageVars, statusVars, deployVars, certVars, dashVars, ruleVars,
                      forwarderVars, cmoVars, listVars, proxyVars, tlsVars, hubVars>>
    \/ /\ part = "storage" /\ Storage!StorageNext
       /\ UNCHANGED <<part, mcoVars, statusVars, deployVars, certVars, dashVars, ruleVars,
                      forwarderVars, cmoVars, listVars, proxyVars, tlsVars, hubVars>>
    \/ /\ part = "status" /\ Status!McoStatusNext
       /\ UNCHANGED <<part, mcoVars, storageVars, deployVars, certVars, dashVars, ruleVars,
                      forwarderVars, cmoVars, listVars, proxyVars, tlsVars, hubVars>>
    \/ /\ part = "objects" /\ Objects!DeployerNext
       /\ UNCHANGED <<part, mcoVars, storageVars, statusVars, certVars, dashVars, ruleVars,
                      forwarderVars, cmoVars, listVars, proxyVars, tlsVars, hubVars>>
    \/ /\ part = "certs" /\ Certs!CertNext
       /\ UNCHANGED <<part, mcoVars, storageVars, statusVars, deployVars, dashVars, ruleVars,
                      forwarderVars, cmoVars, listVars, proxyVars, tlsVars, hubVars>>
    \/ /\ part = "dashboards" /\ Dashboards!DashNext
       /\ UNCHANGED <<part, mcoVars, storageVars, statusVars, deployVars, certVars, ruleVars,
                      forwarderVars, cmoVars, listVars, proxyVars, tlsVars, hubVars>>
    \/ /\ part = "rules" /\ Rules!RulesNext
       /\ UNCHANGED <<part, mcoVars, storageVars, statusVars, deployVars, certVars, dashVars,
                      forwarderVars, cmoVars, listVars, proxyVars, tlsVars, hubVars>>
    \/ /\ part = "forwarder" /\ Forwarder!ForwarderNext
       /\ UNCHANGED <<part, mcoVars, storageVars, statusVars, deployVars, certVars, dashVars,
                      ruleVars, cmoVars, listVars, proxyVars, tlsVars, hubVars>>
    \/ /\ part = "cmo" /\ Cmo!CmoNext
       /\ UNCHANGED <<part, mcoVars, storageVars, statusVars, deployVars, certVars, dashVars,
                      ruleVars, forwarderVars, listVars, proxyVars, tlsVars, hubVars>>
    \/ /\ part = "allowlist" /\ Allowlist!AllowlistNext
       /\ UNCHANGED <<part, mcoVars, storageVars, statusVars, deployVars, certVars, dashVars,
                      ruleVars, forwarderVars, cmoVars, proxyVars, tlsVars, hubVars>>
    \/ /\ part = "proxy" /\ Proxy!ProxyNext
       /\ UNCHANGED <<part, mcoVars, storageVars, statusVars, deployVars, certVars, dashVars,
                      ruleVars, forwarderVars, cmoVars, listVars, tlsVars, hubVars>>
    \/ /\ part = "tls" /\ Tls!TlsNext
       /\ UNCHANGED <<part, mcoVars, storageVars, statusVars, deployVars, certVars, dashVars,
                      ruleVars, forwarderVars, cmoVars, listVars, proxyVars, hubVars>>
    \/ /\ part = "hub" /\ Hub!HubNext
       /\ UNCHANGED <<part, mcoVars, storageVars, statusVars, deployVars, certVars, dashVars,
                      ruleVars, forwarderVars, cmoVars, listVars, proxyVars, tlsVars>>

systemVars == <<part, mcoVars, storageVars, statusVars, deployVars, certVars, dashVars,
                ruleVars, forwarderVars, cmoVars, listVars, proxyVars, tlsVars, hubVars>>

SystemSpec == SystemInit /\ [][SystemNext]_systemVars

\* What each module says its processes go on doing (StorageFair, McoStatusFair, ...),
\* of the part that is on
FairSystemSpec ==
    /\ SystemSpec
    /\ WF_mcoVars(part = "lifecycle" /\ Lifecycle!MStep)
    /\ WF_mcoVars(part = "lifecycle" /\ Lifecycle!AStep)
    /\ WF_mcoVars(part = "lifecycle" /\ Lifecycle!SyncMco)
    /\ WF_mcoVars(part = "lifecycle" /\ Lifecycle!WindowElapses)
    /\ WF_mcoVars(part = "lifecycle" /\ Lifecycle!AddonDeploys)
    /\ WF_mcoVars(part = "lifecycle" /\ Lifecycle!AddonCleans)
    /\ WF_storageVars(part = "storage" /\ Storage!StorageStep)
    /\ WF_storageVars(part = "storage" /\ Storage!ClusterStep)
    /\ WF_statusVars(part = "status" /\ Status!ReconcileStatus)
    /\ WF_statusVars(part = "status" /\ Status!SyncResource)
    /\ WF_deployVars(part = "objects" /\ Objects!DeployStep)
    /\ WF_certVars(part = "certs" /\ Certs!CertStep)
    /\ WF_certVars(part = "certs" /\ Certs!Tick)
    /\ WF_dashVars(part = "dashboards" /\ Dashboards!Index)
    /\ WF_dashVars(part = "dashboards" /\ Dashboards!SweepLists)
    /\ WF_dashVars(part = "dashboards" /\ Dashboards!SweepScans)
    /\ WF_dashVars(part = "dashboards" /\ Dashboards!SweepDeletes)
    /\ WF_dashVars(part = "dashboards" /\ Dashboards!WorkerReads)
    /\ WF_dashVars(part = "dashboards" /\ Dashboards!WorkerHandles)
    /\ \A c \in DashMaps :
         /\ WF_dashVars(part = "dashboards" /\ Dashboards!ResyncMap(c))
         /\ WF_dashVars(part = "dashboards" /\ Dashboards!AddLater(c))
    /\ \A h \in Hubs :
         /\ WF_cmoVars(part = "cmo" /\ (Cmo!LegacyStep(h) \/ Cmo!CmoError(h)))
         /\ \A k \in Cmo!Keys :
              /\ WF_cmoVars(part = "cmo" /\ Cmo!ConfigMapEvent(h, k))
              /\ WF_cmoVars(part = "cmo" /\ Cmo!AgentReconcile(h, k))
    /\ \A p \in Pods :
         /\ WF_listVars(part = "allowlist" /\ Allowlist!ListEvent(p))
         /\ WF_listVars(part = "allowlist" /\ Allowlist!CachesSynced(p))
         /\ WF_listVars(part = "allowlist" /\ Allowlist!debounceSync(p))
         /\ WF_listVars(part = "allowlist" /\ Allowlist!StartSync(p))
         /\ \A n \in Allowlist!Slots : WF_listVars(part = "allowlist" /\ Allowlist!SyncStep(p, n))
         /\ \A c \in Clusters : WF_listVars(part = "allowlist" /\ Allowlist!ClusterEvent(p, c))
    /\ WF_tlsVars(part = "tls" /\ Tls!newReloadingTransport)
    /\ WF_tlsVars(part = "tls" /\ Tls!checkForReload)
    /\ WF_tlsVars(part = "tls" /\ Tls!Reload)
    /\ WF_hubVars(part = "hub" /\ Hub!HubStep)
    /\ WF_hubVars(part = "hub" /\ Hub!HubPods)

-----------------------------------------------------------------------------
(* Safety: invariants and action properties                                *)

\* The type invariants of the parts
SystemTypeOK ==
    /\ part = "lifecycle" => Lifecycle!TypeOK
    /\ part = "storage" => Storage!StorageTypeOK
    /\ part = "status" => Status!McoStatusTypeOK
    /\ part = "objects" => Objects!DeployerTypeOK
    /\ part = "certs" => Certs!CertTypeOK
    /\ part = "dashboards" => Dashboards!DashTypeOK
    /\ part = "rules" => Rules!RulesTypeOK
    /\ part = "forwarder" => Forwarder!ForwarderTypeOK
    /\ part = "cmo" => Cmo!CmoTypeOK
    /\ part = "allowlist" => Allowlist!AllowlistTypeOK
    /\ part = "proxy" => Proxy!ProxyTypeOK
    /\ part = "tls" => Tls!TlsTypeOK
    /\ part = "hub" => Hub!HubTypeOK

\* The tenant under which metrics are stored stays, across restarts of the operator
\* (GetTenantUID, updateTenantID)
TenantKept == [][part = "hub" => Hub!TenantStays]_hubVars

\* A Reconcile that runs to its end undisturbed has put routes, Observatorium,
\* secrets and the pods that read them right (Reconcile, Generate*)
ReconcileRepairs == [][part = "hub" => Hub!EndsRight]_hubVars

\* The addon manager outlives the ManifestWorks only it can clean up
\* (cleanupMCOAManifestWorks before Undeploy)
ManagerOutlivesWorks == [][part = "lifecycle" => Lifecycle!ManagerLast]_mcoVars

\* Each controller follows the finalizer protocol with its own finalizer, and when
\* the MultiClusterObservability resource goes both finalizers have done their work
\* (addFinalizer, initFinalization, CleanupRightSizingResources)
FinalizersHonoured ==
    [][part = "lifecycle" => Lifecycle!HonoursFinalizers /\ Lifecycle!DepartsClean]_mcoVars

\* No component loses its data more often than users ask for another storage class
\* and calls fail half way, through retries and restarts (HandleStorageSizeChange)
DataKept == part = "storage" => Storage!DataKept

\* Every Update of a deployed object changes something (the comparisons of the
\* deployer functions)
NoNeedlessUpdates == part = "objects" => Objects!NoNeedlessUpdates

\* Where the operator merges metadata it never drops what a user has added, and
\* another operator's object is neither overwritten nor deleted (mergeMetadata,
\* updateCRD, Undeploy)
OthersKept == [][part = "objects" => Objects!KeepsOthers]_deployVars

\* At rest every client certificate is accepted, over rotations of the CA and the
\* leaves and a deletion of the CA secret (createCASecret, onDelete, removeExpiredCA)
ClientsAccepted == part = "certs" => Certs!ClientsAccepted

\* A sweep of the dashboard loader takes a dashboard away that a ConfigMap names only
\* if that ConfigMap is still to be handled, or was given up (cleanupOrphanDashboards,
\* lockReconcile)
SweepSparesNamed == [][part = "dashboards" => Dashboards!SparesNamed]_dashVars

\* A series is collected, and dropped again, only after it was there, or away, for
\* the whole duration (evaluateRule)
NeverTooEarly == [][part = "rules" => Rules!InTime]_ruleVars

\* The collect rules' worker forwards the matchers of what fires (startWorker,
\* getMatches)
ForwardsWhatFires == part = "rules" => Rules!ForwardsWhatFires

\* The token the collector sends has not expired (autoRenew, computeWaitTime)
TokenValid == part = "forwarder" => Forwarder!TokenValid

\* An operator replaces its hub's alertmanager stanza and never adds a second one
\* (CreateOrUpdateCMOConfig, IsManaged)
OneStanzaEach == part = "cmo" => Cmo!OneStanzaEach

\* What the user has put into cluster-monitoring-config outlives every write of an
\* operator (CreateOrUpdateCMOConfig, RevertClusterMonitoringConfig)
SettingsKept == [][part = "cmo" => Cmo!KeepsSettings]_cmoVars

\* The cache holds other projects than the user's only for as long as an entry
\* lives (GetUserProjectList, cleanExpiredProjectInfo)
ProjectsCurrent == part = "proxy" => Proxy!ProjectsCurrent

\* A query is passed on unmodified only when every namespace of every cluster is
\* granted (canAccessAll, getUserMetricsACLs)
UnmodifiedMeansAll == [][part = "proxy" => Proxy!UnmodifiedForAll]_proxyVars

\* At rest the work is done: no swap of the certificates is forgotten
\* (checkForReload), ...
NoSwapMissed == part = "tls" => Tls!NoSwapMissed

\* ... no label of a cluster (syncAllowlistConfigMap, getManagedClusterEventHandler), ...
NoLabelMissed == part = "allowlist" => Allowlist!NoLabelMissed

\* ... no change of the resource and of the operands (Reconcile, UpdateStatus), ...
NoChangeMissed == part = "status" => Status!NoChangeMissed

\* ... no drift of a deployed object (Deploy), ...
NoDriftMissed == part = "objects" => Objects!NoDriftMissed

\* ... no stanza of a hub (createOrUpdateClusterMonitoringConfig, unset), ...
NoStanzaMissed == part = "cmo" => Cmo!NoStanzaMissed

\* ... no edit of what the hub watches (SetupWithManager, GenerateObservatoriumCR) ...
NoEditMissed == part = "hub" => Hub!NoEditMissed

\* ... and no rotation of the CA: together, for every controller that can be at rest
NothingMissed ==
    /\ ClientsAccepted
    /\ NoSwapMissed
    /\ NoLabelMissed
    /\ NoChangeMissed
    /\ NoDriftMissed
    /\ NoStanzaMissed
    /\ NoEditMissed

-----------------------------------------------------------------------------
(* Liveness                                                                *)

\* A deleted MultiClusterObservability resource goes: neither finalizer waits for
\* what will not happen (initFinalization, disableAdc)
DeletionCompletes == []<>(part = "lifecycle" => ~mco.deleting)

\* The ADC comes to say what the spec says, although two controllers write it, and
\* the right-sizing Policies to be where the spec binds them, and nowhere else
\* (renderAddonDeploymentConfig, syncRightSizingStateToADC, HandleComponentRightSizing)
RightSizingSettles == <>[](part = "lifecycle" => Lifecycle!RightSizingRight)

\* Every component comes to run with a claim of the size and class asked for
\* (HandleStorageSizeChange)
StorageSettles == <>[](part = "storage" => Storage!StorageAsAsked)

\* The conditions come to say what is the case (Reconcile of the status controller)
StatusSettles ==
    <>[](part = "status" => (~overlooked /\ ~resource.spec.paused => Status!Truthful))

\* A deployed object comes back to what its manifest says and is then left alone
\* (Deploy and the deployer functions)
ObjectSettles == <>[](part = "objects" => Objects!ObjectAsRendered)

\* Whatever goes wrong, every client is accepted again (onUpdate, createCertSecret)
AcceptedAgain ==
    \A l \in Leaves : []<>(part = "certs" => leaf[l].there /\ Certs!Accepts(l))

\* Grafana comes to hold the dashboards the ConfigMaps name, in their folders, and
\* nothing else (syncHandler, cleanupOrphanDashboards)
DashboardsSettle == <>[](part = "dashboards" => Dashboards!DashboardsRight)

\* An enabled hub's stanza comes into cluster-monitoring-config and stays, a
\* disabled hub's leave both ConfigMaps (createOrUpdateClusterMonitoringConfig,
\* RevertClusterMonitoringConfig, reconcileCMO)
ForwardingSettles == <>[](part = "cmo" => Cmo!ForwardingRight)

\* Every label of a cluster gets into one of the two lists and every pod answers
\* from the lists as they are (syncAllowlistConfigMap)
AllowlistSettles == <>[](part = "allowlist" => Allowlist!AllowlistRight)

\* The upstream connection comes to use the certificates in the files
\* (checkForReload)
CertificatesSettle == <>[](part = "tls" => Tls!CertificatesRight)

\* The Observatorium resource, its shards and Grafana's data sources become what
\* the spec says (SetupWithManager, GenerateObservatoriumCR)
HubSettles == <>[](part = "hub" => Hub!WatchedRight)

-----------------------------------------------------------------------------
(* What the code says of itself, and does not keep                         *)

\* Once a delegation to MCOA is done, MCO's own Policies are gone
\* (CleanupPolicyResourcesForDelegation)
DelegationIsExclusive == part = "lifecycle" => Lifecycle!DelegationIsExclusive

=============================================================================
