---------------------------- MODULE StorageResize ----------------------------
(***************************************************************************)
(* A change of the storage sizes or of the storage class in the            *)
(* MultiClusterObservability resource (HandleStorageSizeChange).           *)
(*                                                                         *)
(* The volume claim templates of a StatefulSet cannot be changed, so the   *)
(* operator updates the PersistentVolumeClaims and deletes the             *)
(* StatefulSets, to be deployed again: by the operator itself those in     *)
(* Own (alertmanager), by the Observatorium operator, from the Observatorium *)
(* resource, the Thanos ones.  What changed is found by comparing with the *)
(* configuration of the last Reconcile, which is kept in memory only.      *)
(* Each component is taken to have one StatefulSet with one claim.         *)
(***************************************************************************)
EXTENDS Integers

CONSTANTS
    Components,   \* alertmanager, receive, compact, rule, store
    Own,          \* those whose StatefulSet the operator deploys itself
    Sizes, Classes,
    StorageFaults,     \* subset of {"call", "restart"}
    MaxStorageChanges, \* bound: changes of the resource by users
    MaxStorageFaults   \* bound: failed calls and restarts

VARIABLES
    specConfig,        \* Spec.StorageConfig
    storageReq,  \* a request is queued
    step,        \* where Reconcile is
    config,      \* the StorageConfig this Reconcile read
    lastConfig,  \* LastStorageConfig: in memory, NoConfig after a start
    sts, pvc,    \* StatefulSet and claim of each component
    obsConfig,   \* the storage part of the Observatorium resource
    storageChanges, storageFaults,
    failedConfig, \* the configuration whose application has failed half way
    lossesDue,   \* for each component the changes of the class made by users less
                 \* the times a HandleStorageSizeChange that completed has
                 \* thrown away its claim (counts for a property)
    missed       \* a Reconcile had nothing to compare with that would show what
                 \* has not been applied: the first one after a start, or one
                 \* that finds another configuration than the one that failed

storageVars == <<specConfig, storageReq, step, config, lastConfig, sts, pvc, obsConfig,
                 storageChanges, storageFaults, failedConfig, lossesDue, missed>>

ConfigType == [size : [Components -> Sizes], class : Classes]
NoConfig   == [size |-> [c \in Components |-> 0], class |-> "none"]
Absent     == [there |-> FALSE, size |-> 0, class |-> "none", cap |-> 0]

\* size, class: of the volume claim template, of the claim's request;
\* cap: the capacity in the claim's status
ObjectType == [there : BOOLEAN, size : Sizes \cup {0}, class : Classes \cup {"none"},
               cap : Sizes \cup {0}]

StorageTypeOK ==
    /\ specConfig \in ConfigType
    /\ {config, lastConfig, obsConfig, failedConfig} \subseteq ConfigType \cup {NoConfig}
    /\ step \in {"idle", "handle", "deploy", "generate"}
    /\ sts \in [Components -> ObjectType] /\ pvc \in [Components -> ObjectType]
    /\ {storageReq, missed} \subseteq BOOLEAN
    /\ lossesDue \in [Components -> Int]
    /\ storageChanges \in 0..MaxStorageChanges /\ storageFaults \in 0..MaxStorageFaults

StorageInit ==
    /\ specConfig \in ConfigType
    /\ storageReq = TRUE
    /\ step = "idle"
    /\ config = NoConfig /\ lastConfig = NoConfig /\ obsConfig = NoConfig
    /\ failedConfig = NoConfig
    /\ sts = [c \in Components |-> Absent] /\ pvc = [c \in Components |-> Absent]
    /\ storageChanges = 0 /\ storageFaults = 0 /\ missed = FALSE
    /\ lossesDue = [c \in Components |-> 0]

-----------------------------------------------------------------------------
ChangeStorage ==
    /\ storageChanges < MaxStorageChanges
    /\ storageChanges' = storageChanges + 1
    /\ specConfig' \in ConfigType \ {specConfig}
    /\ lossesDue' = IF specConfig'.class = specConfig.class THEN lossesDue
                    ELSE [c \in Components |-> lossesDue[c] + 1]
    /\ storageReq' = TRUE
    /\ UNCHANGED <<step, config, lastConfig, sts, pvc, obsConfig, storageFaults, failedConfig,
                   missed>>

StartReconcile ==
    /\ step = "idle" /\ storageReq
    /\ storageReq' = FALSE
    /\ config' = specConfig
    /\ missed' = (missed \/ failedConfig \notin {NoConfig, specConfig})
    /\ step' = "handle"
    /\ UNCHANGED <<specConfig, lastConfig, sts, pvc, obsConfig, storageChanges, storageFaults,
                   failedConfig, lossesDue>>

\* The claim is not shrunk below its capacity
resizePVC(p, size) ==
    IF p.there /\ p.size # size /\ size >= p.cap THEN [p EXCEPT !.size = size] ELSE p

SizeChanged  == {c \in Components : lastConfig.size[c] # config.size[c]}
ClassChanged == lastConfig.class # config.class

ResizedClaims(R, D, K) ==
    /\ pvc' = [c \in Components |->
                 IF c \in D THEN Absent
                 ELSE IF c \in R THEN resizePVC(pvc[c], config.size[c]) ELSE pvc[c]]
    /\ sts' = [c \in Components |-> IF c \in D \ K THEN Absent ELSE sts[c]]

\* updateStorageSizeChange for the components in R and deleteStatefulSetsAndPVCs
\* for those in D; of the components in K the StatefulSet is not deleted yet
Resized(R, D, K) ==
    /\ pvc' = [c \in Components |->
                 IF c \in D THEN Absent
                 ELSE IF c \in R THEN resizePVC(pvc[c], config.size[c]) ELSE pvc[c]]
    /\ sts' = [c \in Components |-> IF c \in (R \cup D) \ K THEN Absent ELSE sts[c]]

RemembersSizes ==
    /\ lastConfig' = [config EXCEPT !.class = lastConfig.class]
    /\ failedConfig' = NoConfig

Remembers ==
    /\ lastConfig' = config
    /\ failedConfig' = NoConfig

\* A first Reconcile has nothing to compare with
recordFirstConfig ==
    /\ step = "handle" /\ lastConfig = NoConfig
    /\ lastConfig' = config
    /\ missed' = (missed \/ \E c \in Components :
                      \E o \in {sts[c], pvc[c]} :
                         o.there /\ (o.size # config.size[c] \/ o.class # config.class))
    /\ step' = "deploy"
    /\ UNCHANGED <<specConfig, storageReq, config, sts, pvc, obsConfig, storageChanges,
                   storageFaults, failedConfig, lossesDue>>

HandleStorageSizeChange ==
    /\ step = "handle" /\ lastConfig # NoConfig
    /\ Resized(SizeChanged, IF ClassChanged THEN Components ELSE {}, {})
    /\ lossesDue' = [c \in Components |->
                       IF pvc[c].there /\ ~pvc'[c].there THEN lossesDue[c] - 1 ELSE lossesDue[c]]
    /\ Remembers
    /\ step' = "deploy"
    /\ UNCHANGED <<specConfig, storageReq, config, obsConfig, storageChanges, storageFaults, missed>>

\* A call fails among the components: LastStorageConfig stays, all is tried again
HandleFails ==
    /\ "call" \in StorageFaults /\ storageFaults < MaxStorageFaults
    /\ storageFaults' = storageFaults + 1
    /\ step = "handle" /\ lastConfig # NoConfig
    /\ \/ \E R \in SUBSET SizeChanged : \E K \in SUBSET R : Resized(R, {}, K)
       \/ ClassChanged /\ \E D \in SUBSET Components : Resized(SizeChanged, D, {})
    /\ step' = "idle"
    /\ storageReq' = TRUE
    /\ failedConfig' = config
    /\ UNCHANGED <<specConfig, config, lastConfig, obsConfig, storageChanges, lossesDue, missed>>

Template(cfg, c) == [there |-> TRUE, size |-> cfg.size[c], class |-> cfg.class, cap |-> 0]

\* Deployer.updateStatefulSet leaves the claim templates of an existing
\* StatefulSet alone
Deploys(cfg, C) ==
    sts' = [c \in Components |->
              IF c \in C /\ ~sts[c].there THEN Template(cfg, c) ELSE sts[c]]

deployStatefulSets ==
    /\ step = "deploy"
    /\ Deploys(config, Own)
    /\ step' = "generate"
    /\ UNCHANGED <<specConfig, storageReq, config, lastConfig, pvc, obsConfig, storageChanges,
                   storageFaults, failedConfig, lossesDue, missed>>

GenerateObservatoriumCR ==
    /\ step = "generate"
    /\ obsConfig' = config
    /\ config' = NoConfig
    /\ step' = "idle"
    /\ UNCHANGED <<specConfig, storageReq, lastConfig, sts, pvc, storageChanges, storageFaults,
                   failedConfig, lossesDue, missed>>

RestartOperator ==
    /\ "restart" \in StorageFaults /\ storageFaults < MaxStorageFaults
    /\ storageFaults' = storageFaults + 1
    /\ lastConfig' = NoConfig /\ config' = NoConfig /\ failedConfig' = NoConfig
    /\ step' = "idle"
    /\ storageReq' = TRUE
    /\ UNCHANGED <<specConfig, sts, pvc, obsConfig, storageChanges, lossesDue, missed>>

-----------------------------------------------------------------------------
(* The cluster: the Observatorium operator, the StatefulSet controller and *)
(* the provisioner                                                         *)

clusterUnchanged == <<specConfig, storageReq, step, config, lastConfig, obsConfig, storageChanges,
                      storageFaults, failedConfig, lossesDue, missed>>

ObservatoriumDeploys ==
    /\ obsConfig # NoConfig
    /\ \E c \in Components \ Own : ~sts[c].there
    /\ Deploys(obsConfig, Components \ Own)
    /\ UNCHANGED <<clusterUnchanged, pvc>>

\* Events of the StatefulSets the operator owns reach its controller
StatefulSetDeleted ==
    /\ \E c \in Own : ~sts[c].there
    /\ ~storageReq
    /\ storageReq' = TRUE
    /\ UNCHANGED <<specConfig, step, config, lastConfig, sts, pvc, obsConfig, storageChanges,
                   storageFaults, failedConfig, lossesDue, missed>>

ClaimCreated(c) ==
    /\ sts[c].there /\ ~pvc[c].there
    /\ pvc' = [pvc EXCEPT ![c] = sts[c]]
    /\ UNCHANGED <<clusterUnchanged, sts>>

ClaimExpanded(c) ==
    /\ pvc[c].there /\ pvc[c].cap < pvc[c].size
    /\ pvc' = [pvc EXCEPT ![c].cap = pvc[c].size]
    /\ UNCHANGED <<clusterUnchanged, sts>>

StorageStep ==
    \/ StartReconcile \/ recordFirstConfig \/ HandleStorageSizeChange \/ deployStatefulSets
    \/ GenerateObservatoriumCR

ClusterStep ==
    \/ ObservatoriumDeploys \/ StatefulSetDeleted
    \/ \E c \in Components : ClaimCreated(c) \/ ClaimExpanded(c)

StorageNext == StorageStep \/ ClusterStep \/ ChangeStorage \/ HandleFails \/ RestartOperator

StorageSpec == StorageInit /\ [][StorageNext]_storageVars

StorageFair == WF_storageVars(StorageStep) /\ WF_storageVars(ClusterStep)

-----------------------------------------------------------------------------
\* Data is not thrown away more often than users ask for another storage class,
\* except by calls that fail: however changes of sizes and classes, restarts (with
\* which LastStorageConfig is gone) and retries follow each other, what a
\* HandleStorageSizeChange that completes throws away is paid for by a change of
\* the class that none before it has used up.  One that fails half way keeps the
\* old LastStorageConfig: the next throws away again what has been created since,
\* once more for each failure, which is all that is allowed for here
DataKept == \A c \in Components : lossesDue[c] >= 0

\* When the user leaves the sizes alone every component runs with a claim, and
\* what the operator deploys itself gets the size, or keeps what it has where
\* that is more, the class and the template that were asked for.  missed: a
\* change made while the operator was down is not noticed (LastStorageConfig is
\* nil after a start), nor what is left of one that failed half way and was
\* taken back.  Of the other components no more can be said: the
\* Observatorium operator may deploy a deleted StatefulSet again, and its claim
\* be created, from the Observatorium resource of before the change
StorageAsAsked ==
    ~missed => \A c \in Components :
        /\ sts[c].there /\ pvc[c].there
        /\ c \in Own => /\ pvc[c].size = specConfig.size[c] \/ pvc[c].cap > specConfig.size[c]
                        /\ pvc[c].class = specConfig.class
                        /\ sts[c] = Template(specConfig, c)
StorageSettles == <>[]StorageAsAsked

=============================================================================
