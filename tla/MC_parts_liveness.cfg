\* see README.md, section Runs
SPECIFICATION FairSystemSpec
CONSTANTS
    Parts = {"lifecycle", "storage", "status", "objects", "certs", "dashboards", "cmo", "allowlist", "tls", "hub"}
    Specs <- SwitchedSpecs
    Faults = {}
    MaxChanges = 2
    MaxFaults = 0
    Components = {"alertmanager"}
    MaxStorageChanges = 2
    MaxStorageFaults = 1
    ResourceSpecs <- AllResourceSpecs
    MaxResourceChanges = 1
    MaxOperandChanges = 2
    MaxMisreads = 0
    Hubs = {"hub", "agent"}
    Agents = {"agent"}
    UserMaps <- UserConfigs
    OldMaps <- LegacyConfigs
    MaxHubChanges = 2
    MaxCmoEdits = 0
    MaxCmoFaults = 0
    MaxForwardFaults = 2
    Leaves = {"hub"}
    MaxMapChanges = 2
    Pods = {"p1"}
    MaxSyncs = 2
    MaxListChanges = 2
    MaxListFaults = 0
    HubFaultKinds = {}
    MaxHubEdits = 1
    \* the same in every run
    Kinds = {"namespace"}
    Namespaces = {"n1", "n2"}
    DefaultNamespace = "n1"
    Own = {"alertmanager"}
    Sizes = {1, 2}
    Classes = {"gp2", "gp3"}
    StorageFaults = {"call", "restart"}
    Crds = {"crd"}
    Operands <- TwoFailingOperands
    DeployedKinds = {"Deployment", "StatefulSet", "ConfigMap", "Secret", "Service", "AddOnDeploymentConfig", "ClusterManagementAddOn", "PrometheusRule", "McoaPrometheusRule", "ScrapeConfig", "McoaCRD", "SkippedSecret", "ClusterRole", "ClusterRoleBinding", "Role", "RoleBinding", "ServiceAccount", "Ingress", "DaemonSet", "ServiceMonitor", "Prometheus", "CRD", "Other"}
    Skipped = {"SkippedSecret"}
    Versions = {1, 2}
    MaxEdits = 3
    MaxDeployFaults = 1
    MaxDeletions = 1
    MaxCertFaults = 1
    DashMaps = {"a", "b"}
    Uids = {"u1", "u2"}
    MapContents <- SharedContents
    MaxRetries = 1
    MaxDashFaults = 1
    Series = {"h1", "h2", "h3"}
    RuleOf <- TwoRules
    Duration <- TwoDurations
    Expire = 2
    renderMatches <- SharedMatchers
    MaxFlips = 5
    MaxRuleFaults = 1
    MatcherLists <- ThreeMatchers
    WorkerNums = {1, 2, 4}
    RecordingRules = {0, 1}
    Life = 30
    RenewedBy = 25
    MaxBatches = 2
    MaxAttempts = 2
    Labels = {"l"}
    Required = {}
    DefaultIgnored = {}
    Clusters = {"c1"}
    UserLists <- TwoUserLists
    ManagedClusters = {"c1", "c2"}
    AllClusters = "*"
    AllNamespaces = "*"
    Grants <- FourGrants
    Expiration = 2
    MaxProjectChanges = 1
    MaxProxyFaults = 1
    MaxRotations = 4
    MaxTlsFaults = 2
    HubSpecs <- BothSpecs
    FirstSpecs <- ManyShardsFirst
    MaxHubFailures = 1
INVARIANTS DataKept
PROPERTIES DeletionCompletes RightSizingSettles StorageSettles StatusSettles ObjectSettles AcceptedAgain DashboardsSettle ForwardingSettles AllowlistSettles CertificatesSettle HubSettles
CHECK_DEADLOCK FALSE
