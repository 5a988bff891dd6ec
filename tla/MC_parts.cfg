\* see README.md, section Runs
SPECIFICATION SystemSpec
CONSTANTS
    Parts = {"lifecycle", "storage", "status", "objects", "certs", "dashboards", "rules", "forwarder", "cmo", "allowlist", "proxy", "tls", "hub"}
    Specs <- MovingSpecs
    Faults = {"restart", "call"}
    MaxChanges = 2
    MaxFaults = 1
    Components = {"alertmanager", "receive"}
    MaxStorageChanges = 1
    MaxStorageFaults = 1
    ResourceSpecs <- AllResourceSpecs
    MaxResourceChanges = 1
    MaxOperandChanges = 2
    MaxMisreads = 1
    Hubs = {"hub", "agent"}
    Agents = {"agent"}
    UserMaps <- UserConfigs
    OldMaps <- OldConfigs
    MaxHubChanges = 1
    MaxCmoEdits = 1
    MaxCmoFaults = 1
    MaxForwardFaults = 3
    Leaves = {"grafana", "spoke"}
    MaxMapChanges = 3
    Pods = {"p1", "p2"}
    MaxSyncs = 1
    MaxListChanges = 1
    MaxListFaults = 1
    HubFaultKinds = {"call", "restart"}
    MaxHubEdits = 1
    \* the same in every run
    Kinds = {"namespace"}
    Namespaces = {"n1", "n2"}
    DefaultNamespace = "n1"
    Own = {"alertmanager"}
    Sizes = {1, 2}
    Classes = {"gp2", "gp3"}
    StorageFaults = {"call", "restart"}
    Crds = {"crd"}
    Operands <- TwoFailingOperands
    DeployedKinds = {"Deployment", "StatefulSet", "ConfigMap", "Secret", "Service", "AddOnDeploymentConfig", "ClusterManagementAddOn", "PrometheusRule", "McoaPrometheusRule", "ScrapeConfig", "McoaCRD", "SkippedSecret", "ClusterRole", "ClusterRoleBinding", "Role", "RoleBinding", "ServiceAccount", "Ingress", "DaemonSet", "ServiceMonitor", "Prometheus", "CRD", "Other"}
    Skipped = {"SkippedSecret"}
    Versions = {1, 2}
    MaxEdits = 3
    MaxDeployFaults = 1
    MaxDeletions = 1
    MaxCertFaults = 1
    DashMaps = {"a", "b"}
    Uids = {"u1", "u2"}
    MapContents <- SharedContents
    MaxRetries = 0
    MaxDashFaults = 1
    Series = {"h1", "h2", "h3"}
    RuleOf <- TwoRules
    Duration <- TwoDurations
    Expire = 2
    renderMatches <- SharedMatchers
    MaxFlips = 5
    MaxRuleFaults = 1
    MatcherLists <- ThreeMatchers
    WorkerNums = {1, 2, 4}
    RecordingRules = {0, 1}
    Life = 30
    RenewedBy = 25
    MaxBatches = 2
    MaxAttempts = 2
    Labels = {"l"}
    Required = {}
    DefaultIgnored = {}
    Clusters = {"c1"}
    UserLists <- TwoUserLists
    ManagedClusters = {"c1", "c2"}
    AllClusters = "*"
    AllNamespaces = "*"
    Grants <- FourGrants
    Expiration = 2
    MaxProjectChanges = 1
    MaxProxyFaults = 1
    MaxRotations = 4
    MaxTlsFaults = 2
    HubSpecs <- BothSpecs
    FirstSpecs <- ManyShardsFirst
    MaxHubFailures = 1
INVARIANTS SystemTypeOK NoNeedlessUpdates ForwardsWhatFires TokenValid OneStanzaEach ProjectsCurrent NothingMissed
PROPERTIES ManagerOutlivesWorks OthersKept SweepSparesNamed NeverTooEarly SettingsKept UnmodifiedMeansAll TenantKept ReconcileRepairs FinalizersHonoured
CHECK_DEADLOCK FALSE
