------------------------------ MODULE HubProofs ------------------------------
(***************************************************************************)
(* Theorems about what the hub's operator writes, the parts "storage",     *)
(* "objects" and "hub" of System: for any components, sizes and storage    *)
(* classes, any kinds of objects and versions, any specs, edits, failures  *)
(* and restarts.                                                           *)
(***************************************************************************)
EXTENDS System, Integers, TLAPS

-----------------------------------------------------------------------------
(***************************************************************************)
(* Storage: types                                                          *)
(***************************************************************************)
LEMMA StorageStarts == SystemInit /\ part = "storage" => Storage!StorageInit
  BY DEF SystemInit

LEMMA StorageSteps ==
    ASSUME [SystemNext]_systemVars
    PROVE  /\ part' = part
           /\ part = "storage" => [Storage!StorageNext]_storageVars
  BY DEF SystemNext, systemVars

\* What the proof needs of the types: claims and StatefulSets are objects, and
\* configurations give every component a size.
StorageObjects ==
    /\ sts \in [Components -> Storage!ObjectType] /\ pvc \in [Components -> Storage!ObjectType]
    /\ specConfig \in Storage!ConfigType
    /\ config \in Storage!ConfigType \cup {Storage!NoConfig}
    /\ obsConfig \in Storage!ConfigType \cup {Storage!NoConfig}

LEMMA ConfigSizes ==
    ASSUME NEW cfg \in Storage!ConfigType \cup {Storage!NoConfig}, NEW c \in Components
    PROVE  cfg.size[c] \in Sizes \cup {0} /\ cfg.class \in Classes \cup {"none"}
<1>1. CASE cfg \in Storage!ConfigType
  BY <1>1 DEF Storage!ConfigType
<1>2. CASE cfg = Storage!NoConfig
  BY <1>2 DEF Storage!NoConfig
<1>3. QED
  BY <1>1, <1>2

LEMMA AbsentIsObject == Storage!Absent \in Storage!ObjectType
  BY DEF Storage!Absent, Storage!ObjectType

LEMMA TemplateIsObject ==
    ASSUME NEW cfg \in Storage!ConfigType \cup {Storage!NoConfig}, NEW c \in Components
    PROVE  Storage!Template(cfg, c) \in Storage!ObjectType
  BY ConfigSizes DEF Storage!Template, Storage!ObjectType

\* A claim that is resized stays.
LEMMA ResizeKeepsClaim ==
    ASSUME NEW p \in Storage!ObjectType, NEW size \in Sizes \cup {0}
    PROVE  /\ Storage!resizePVC(p, size) \in Storage!ObjectType
           /\ Storage!resizePVC(p, size).there = p.there
  BY DEF Storage!resizePVC, Storage!ObjectType

LEMMA ResizedObjects ==
    ASSUME StorageObjects, NEW R, NEW D, NEW K, Storage!Resized(R, D, K)
    PROVE  /\ pvc' \in [Components -> Storage!ObjectType]
           /\ sts' \in [Components -> Storage!ObjectType]
           /\ \A c \in Components \ D : pvc'[c].there = pvc[c].there
<1>1. \A c \in Components :
        /\ pvc[c] \in Storage!ObjectType /\ sts[c] \in Storage!ObjectType
        /\ Storage!resizePVC(pvc[c], config.size[c]) \in Storage!ObjectType
        /\ Storage!resizePVC(pvc[c], config.size[c]).there = pvc[c].there
  BY ConfigSizes, ResizeKeepsClaim DEF StorageObjects
<1>2. QED
  BY <1>1, AbsentIsObject DEF Storage!Resized

LEMMA DeployedObjects ==
    ASSUME StorageObjects, NEW cfg \in Storage!ConfigType \cup {Storage!NoConfig}, NEW C,
           Storage!Deploys(cfg, C)
    PROVE  sts' \in [Components -> Storage!ObjectType]
<1>1. \A c \in Components : /\ sts[c] \in Storage!ObjectType
                            /\ Storage!Template(cfg, c) \in Storage!ObjectType
  BY TemplateIsObject DEF StorageObjects
<1>2. QED
  BY <1>1 DEF Storage!Deploys

-----------------------------------------------------------------------------
(***************************************************************************)
(* Storage: the data                                                       *)
(***************************************************************************)
LEMMA StorageStep ==
    ASSUME StorageObjects, Storage!StorageNext
    PROVE  StorageObjects'
<1>1. CASE /\ UNCHANGED <<sts, pvc>> /\ UNCHANGED obsConfig
           /\ specConfig' \in Storage!ConfigType
           /\ config' \in {config, specConfig, Storage!NoConfig}
  BY <1>1 DEF StorageObjects
<1>2. CASE \/ Storage!StartReconcile \/ Storage!recordFirstConfig \/ Storage!ChangeStorage
           \/ Storage!RestartOperator \/ Storage!StatefulSetDeleted
  BY <1>1, <1>2 DEF StorageObjects, Storage!StartReconcile, Storage!recordFirstConfig,
     Storage!ChangeStorage, Storage!RestartOperator, Storage!StatefulSetDeleted
<1>3. CASE Storage!GenerateObservatoriumCR
  BY <1>3 DEF StorageObjects, Storage!GenerateObservatoriumCR
<1>4. CASE Storage!HandleStorageSizeChange
  <2>1. Storage!Resized(Storage!SizeChanged, IF Storage!ClassChanged THEN Components ELSE {}, {})
        /\ lastConfig # Storage!NoConfig /\ UNCHANGED <<specConfig, config, obsConfig>>
    BY <1>4 DEF Storage!HandleStorageSizeChange
  <2>2. QED
    BY <2>1, ResizedObjects DEF StorageObjects
<1>5. CASE Storage!HandleFails
  <2>1. lastConfig # Storage!NoConfig /\ UNCHANGED <<specConfig, config, obsConfig>>
    BY <1>5 DEF Storage!HandleFails
  <2>2. ASSUME NEW R, NEW K, Storage!Resized(R, {}, K) PROVE StorageObjects'
    BY <2>1, <2>2, ResizedObjects DEF StorageObjects
  <2>3. ASSUME NEW D, Storage!Resized(Storage!SizeChanged, D, {})
        PROVE  StorageObjects'
    BY <2>1, <2>3, ResizedObjects DEF StorageObjects
  <2>4. QED
    BY <1>5, <2>2, <2>3 DEF Storage!HandleFails
<1>6. CASE Storage!deployStatefulSets
  BY <1>6, DeployedObjects DEF StorageObjects, Storage!deployStatefulSets
<1>7. CASE Storage!ObservatoriumDeploys
  BY <1>7, DeployedObjects DEF StorageObjects, Storage!ObservatoriumDeploys,
     Storage!clusterUnchanged
<1>8. ASSUME NEW c \in Components, Storage!ClaimCreated(c)
      PROVE  StorageObjects'
  BY <1>8 DEF StorageObjects, Storage!ClaimCreated, Storage!clusterUnchanged
<1>9. ASSUME NEW c \in Components, Storage!ClaimExpanded(c)
      PROVE  StorageObjects'
  <2>1. /\ pvc' = [pvc EXCEPT ![c] = [pvc[c] EXCEPT !.cap = pvc[c].size]]
        /\ UNCHANGED <<sts, specConfig, config, obsConfig>>
    BY <1>9 DEF Storage!ClaimExpanded, Storage!clusterUnchanged
  <2>2. /\ [pvc[c] EXCEPT !.cap = pvc[c].size] \in Storage!ObjectType
        /\ [pvc[c] EXCEPT !.cap = pvc[c].size].there = pvc[c].there
    BY DEF StorageObjects, Storage!ObjectType
  <2>3. QED
    BY <2>1, <2>2 DEF StorageObjects
<1>10. QED
  BY <1>2, <1>3, <1>4, <1>5, <1>6, <1>7, <1>8, <1>9
     DEF Storage!StorageNext, Storage!StorageStep, Storage!ClusterStep

\* A change of the class that this process has still to find: between what it
\* remembers and what it has read, and between that and what users ask for now.
ClassDiffers(cfg, other) == IF cfg.class = other.class THEN 0 ELSE 1
LastDiffers(cfg) == IF lastConfig = Storage!NoConfig THEN 0 ELSE ClassDiffers(lastConfig, cfg)

ChangesToFind ==
    IF step = "handle" THEN LastDiffers(config) + ClassDiffers(config, specConfig)
    ELSE LastDiffers(specConfig)

\* All of them are still paid for.
LossInv == /\ lossesDue \in [Components -> Int]
           /\ \A c \in Components : lossesDue[c] >= ChangesToFind

LEMMA ChangeCounted == ASSUME LossInv, Storage!ChangeStorage PROVE LossInv'
<1>1. /\ UNCHANGED <<step, config, lastConfig>>
      /\ lossesDue' = IF specConfig'.class = specConfig.class THEN lossesDue
                      ELSE [c \in Components |-> lossesDue[c] + 1]
  BY DEF Storage!ChangeStorage
<1>2. /\ ChangesToFind' <= ChangesToFind + 1
      /\ specConfig'.class = specConfig.class => ChangesToFind' = ChangesToFind
      /\ ChangesToFind \in 0..2 /\ ChangesToFind' \in 0..2
  BY <1>1 DEF ChangesToFind, LastDiffers, ClassDiffers
<1>3. QED
  BY <1>1, <1>2 DEF LossInv

LEMMA HandlingCounted ==
    ASSUME StorageObjects, LossInv, Storage!HandleStorageSizeChange
    PROVE  LossInv'
<1>1. /\ step = "handle" /\ step' = "deploy"
      /\ lastConfig # Storage!NoConfig /\ lastConfig' = config
      /\ UNCHANGED <<specConfig, config>>
      /\ lossesDue' = [c \in Components |->
            IF pvc[c].there /\ ~pvc'[c].there THEN lossesDue[c] - 1 ELSE lossesDue[c]]
      /\ Storage!Resized(Storage!SizeChanged,
                         IF Storage!ClassChanged THEN Components ELSE {}, {})
  BY DEF Storage!HandleStorageSizeChange, Storage!Remembers
<1>2. ASSUME NEW c \in Components
      PROVE  pvc[c].there /\ ~pvc'[c].there => Storage!ClassChanged
  BY <1>1, ResizedObjects
<1>3. /\ ChangesToFind' <= ChangesToFind
      /\ Storage!ClassChanged => ChangesToFind' <= ChangesToFind - 1
      /\ ChangesToFind \in 0..2 /\ ChangesToFind' \in 0..2
  BY <1>1 DEF ChangesToFind, LastDiffers, ClassDiffers, Storage!ClassChanged
<1>4. QED
  BY <1>1, <1>2, <1>3 DEF LossInv

LEMMA LossesCounted ==
    ASSUME StorageObjects, LossInv, [Storage!StorageNext]_storageVars
    PROVE  LossInv'
<1>1. CASE Storage!ChangeStorage
  BY <1>1, ChangeCounted
<1>2. CASE Storage!HandleStorageSizeChange
  BY <1>2, HandlingCounted
<1>3. ASSUME UNCHANGED lossesDue, ChangesToFind' <= ChangesToFind,
             ChangesToFind \in Int, ChangesToFind' \in Int
      PROVE  LossInv'
  BY <1>3 DEF LossInv
<1>4. CASE Storage!StartReconcile
  <2>1. /\ UNCHANGED <<lossesDue, lastConfig, specConfig>> /\ step = "idle"
        /\ step' = "handle" /\ config' = specConfig
    BY <1>4 DEF Storage!StartReconcile
  <2>2. QED
    BY <1>3, <2>1 DEF ChangesToFind, LastDiffers, ClassDiffers
<1>5. CASE Storage!recordFirstConfig
  <2>1. /\ UNCHANGED <<lossesDue, config, specConfig>> /\ step = "handle"
        /\ lastConfig = Storage!NoConfig
        /\ step' = "deploy" /\ lastConfig' = config
    BY <1>5 DEF Storage!recordFirstConfig
  <2>2. QED
    BY <1>3, <2>1 DEF ChangesToFind, LastDiffers, ClassDiffers
<1>6. CASE Storage!HandleFails
  <2>1. /\ UNCHANGED <<lossesDue, config, specConfig, lastConfig>> /\ step = "handle"
        /\ step' = "idle"
    BY <1>6 DEF Storage!HandleFails
  <2>2. QED
    BY <1>3, <2>1 DEF ChangesToFind, LastDiffers, ClassDiffers
<1>7. CASE Storage!RestartOperator
  <2>1. /\ UNCHANGED <<lossesDue, specConfig>> /\ step' = "idle"
        /\ lastConfig' = Storage!NoConfig
    BY <1>7 DEF Storage!RestartOperator
  <2>2. QED
    BY <1>3, <2>1 DEF ChangesToFind, LastDiffers, ClassDiffers
<1>8. CASE \/ Storage!deployStatefulSets \/ Storage!GenerateObservatoriumCR
           \/ Storage!ClusterStep \/ UNCHANGED storageVars
  <2>1. /\ UNCHANGED <<lossesDue, specConfig, lastConfig>>
        /\ \/ UNCHANGED <<step, config>>
           \/ step # "handle" /\ step' # "handle"
    BY <1>8 DEF Storage!deployStatefulSets, Storage!GenerateObservatoriumCR,
       Storage!ClusterStep, Storage!ObservatoriumDeploys, Storage!StatefulSetDeleted,
       Storage!ClaimCreated, Storage!ClaimExpanded, Storage!clusterUnchanged, storageVars
  <2>2. QED
    BY <1>3, <2>1 DEF ChangesToFind, LastDiffers, ClassDiffers
<1>9. QED
  BY <1>1, <1>2, <1>4, <1>5, <1>6, <1>7, <1>8 DEF Storage!StorageNext, Storage!StorageStep

\* For any components, sizes and classes: no component loses its data more often
\* than users have asked for another storage class and calls have failed half way,
\* whatever changes, retries and restarts follow each other (HandleStorageSizeChange).
\* By LossInv: each change of the class that Reconcile has still to find is one
\* that no loss has used up.
THEOREM StorageDataKept == SystemSpec => []DataKept
<1> DEFINE Inv == part = "storage" => StorageObjects /\ LossInv
<1>1. SystemInit => Inv
  <2> SUFFICES ASSUME Storage!StorageInit PROVE StorageObjects /\ LossInv
    BY StorageStarts
  <2>1. StorageObjects
    BY AbsentIsObject DEF Storage!StorageInit, StorageObjects
  <2>2. lossesDue = [c \in Components |-> 0] /\ ChangesToFind = 0
    BY DEF Storage!StorageInit, ChangesToFind, LastDiffers
  <2>3. QED
    BY <2>1, <2>2 DEF LossInv
<1>2. Inv /\ [SystemNext]_systemVars => Inv'
  <2> SUFFICES ASSUME StorageObjects, LossInv, [Storage!StorageNext]_storageVars
               PROVE  StorageObjects' /\ LossInv'
    BY StorageSteps
  <2>1. StorageObjects'
    BY StorageStep DEF storageVars, StorageObjects
  <2>2. QED
    BY <2>1, LossesCounted
<1>3. Inv => DataKept
  <2> SUFFICES ASSUME LossInv, NEW c \in Components PROVE lossesDue[c] >= 0
    BY DEF DataKept, Storage!DataKept
  <2>1. ChangesToFind \in 0..2
    BY DEF ChangesToFind, LastDiffers, ClassDiffers
  <2>2. QED
    BY <2>1 DEF LossInv
<1>4. QED
  BY <1>1, <1>2, <1>3, PTL DEF SystemSpec

-----------------------------------------------------------------------------
(***************************************************************************)
(* Deployed objects                                                        *)
(***************************************************************************)
LEMMA ObjectsStart == SystemInit /\ part = "objects" => Objects!DeployerInit
  BY DEF SystemInit

LEMMA ObjectsStep ==
    ASSUME [SystemNext]_systemVars
    PROVE  /\ part' = part
           /\ part = "objects" => [Objects!DeployerNext]_deployVars
  BY DEF SystemNext, systemVars

\* Only what is there belongs to another operator.
OwnedIsThere(o) == o.by = "other" => o.there

\* While Reconcile is between the read and the write, the object is what was read
\* unless something has written it, and what differed from the manifest still
\* does: whoever writes it meanwhile does not write what the manifest says.
ReadInv ==
    /\ object \in Objects!ObjectTypes /\ found \in Objects!ObjectTypes
    /\ OwnedIsThere(object) /\ OwnedIsThere(found)
    /\ version \in Versions /\ moved \in BOOLEAN
    /\ doing \in {"link", "write", "delete"} /\ ~moved => found = object
    /\ doing = "link" => found.there
    /\ doing = "write" =>
         /\ found.spec # version => object.spec # version
         /\ found.spec # version \/ found.labels # version =>
              object.spec # version \/ object.labels # version

LEMMA ObjectsAreTyped ==
    /\ Objects!NoObject \in Objects!ObjectTypes
    /\ OwnedIsThere(Objects!NoObject)
    /\ \A v \in Versions : Objects!Rendered(v) \in Objects!ObjectTypes
  BY VersionsAssumption DEF Objects!NoObject, Objects!Rendered, Objects!ObjectTypes, OwnedIsThere

\* Users and other operators write no object that its manifest describes.
Foreign(new) ==
    /\ new \in Objects!ObjectTypes /\ OwnedIsThere(new)
    /\ new.spec = 0
         \/ (new.spec = object.spec /\ new.labels \in {0, Objects!NoLabels, object.labels})

LEMMA EditKeepsRead ==
    ASSUME ReadInv, NEW new, Foreign(new), Objects!Edit(new)
    PROVE  ReadInv'
<1>1. /\ object' = new /\ moved' = TRUE /\ found' = found /\ version' = version /\ doing' = doing
  BY DEF Objects!Edit, Objects!Becomes, ReadInv
<1>2. 0 # version /\ Objects!NoLabels # version
  BY VersionsAssumption DEF ReadInv, Objects!NoLabels
<1>3. QED
  BY <1>1, <1>2 DEF ReadInv, Foreign

LEMMA ResultIsTyped ==
    ASSUME ReadInv, NEW r, r.new \in Objects!ObjectTypes, r.new.there
    PROVE  /\ Objects!Result(r) \in Objects!ObjectTypes
           /\ Objects!Result(r).there /\ Objects!Result(r).spec = r.new.spec
           /\ Objects!Result(r).labels = r.new.labels
           /\ OwnedIsThere(Objects!Result(r))
  BY DEF ReadInv, Objects!Result, Objects!ObjectTypes, OwnedIsThere

\* What is written is the manifest, with what users have added where metadata is
\* merged.
Writes(r) ==
    /\ r.new \in Objects!ObjectTypes /\ r.new.there
    /\ r.new.spec = version /\ r.new.labels = version /\ ~r.new.legacy

\* A request of a comparison function: none, or one that its comparison calls for.
Compared(f, r) ==
    \/ r = Objects!Nothing
    \/ /\ r.how = "update" /\ Writes(r)
       /\ f.spec # version \/ f.labels # version \/ f.user # r.new.user \/ f.legacy
    \/ r.how = "replace" /\ Writes(r) /\ (f.spec # version \/ f.labels # version)
    \/ r.how = "apply" /\ Writes(r) /\ f.spec # version
    \/ r.how \in {"force", "panic"} /\ Writes(r)

LEMMA Manifests ==
    ASSUME version \in Versions, NEW f \in Objects!ObjectTypes
    PROVE  /\ \A how : Writes(Objects!Request(how, Objects!Rendered(version)))
           /\ \A how : Writes(Objects!Request(how, Objects!mergeMetadata(f)))
           /\ \A how : Writes(Objects!Request(how, [Objects!mergeMetadata(f) EXCEPT !.by = f.by]))
  BY VersionsAssumption
     DEF Writes, Objects!Request, Objects!Rendered, Objects!mergeMetadata, Objects!ObjectTypes

LEMMA Comparisons ==
    ASSUME version \in Versions, NEW f \in Objects!ObjectTypes
    PROVE  Compared(f, Objects!deployerFns(f))
<1> DEFINE Manifest(how) == Objects!Request(how, Objects!Rendered(version))
           Merge(how) == Objects!Request(how, Objects!mergeMetadata(f))
           MergeOwn(how) == Objects!Request(how, [Objects!mergeMetadata(f) EXCEPT !.by = f.by])
<1>1. \A how : /\ Manifest(how).how = how /\ Writes(Manifest(how)) /\ ~Manifest(how).new.user
               /\ Merge(how).how = how /\ Writes(Merge(how))
               /\ MergeOwn(how).how = how /\ Writes(MergeOwn(how))
  BY Manifests DEF Objects!Request, Objects!Rendered
<1>2. f.user \in BOOLEAN /\ f.legacy \in BOOLEAN
  BY DEF Objects!ObjectTypes
<1> USE DEF Objects!DeepDerivative, Objects!isMapSubset
<1>3. /\ Objects!applyAddOnDeploymentConfig(f) \in {Manifest("update"), Merge("force")}
      /\ Objects!applyAddOnDeploymentConfig(f) = Manifest("update") => f.legacy
  BY <1>1 DEF Objects!applyAddOnDeploymentConfig
<1>4. Compared(f, Objects!applyAddOnDeploymentConfig(f))
  BY <1>1, <1>3 DEF Compared
<1>5. /\ Compared(f, Objects!updateDeployment(f)) /\ Compared(f, Objects!updateStatefulSet(f))
      /\ Compared(f, Objects!updateService(f)) /\ Compared(f, Objects!updateConfigMap(f))
      /\ Compared(f, Objects!updateSecret(f)) /\ Compared(f, Objects!ReplaceWhole(f))
      /\ Compared(f, Objects!updatePrometheus(f)) /\ Compared(f, Objects!updateCRD(f))
      /\ Compared(f, Objects!updatePrometheusRule(f)) /\ Compared(f, Objects!updateScrapeConfig(f))
  BY <1>1 DEF Compared, Objects!updateDeployment, Objects!updateStatefulSet,
     Objects!updateService, Objects!updateConfigMap, Objects!updateSecret, Objects!ReplaceWhole,
     Objects!updatePrometheus, Objects!updateCRD, Objects!updatePrometheusRule,
     Objects!updateScrapeConfig
<1>6. Compared(f, Objects!updateClusterManagementAddOn(f))
  BY <1>1, <1>2 DEF Compared, Objects!updateClusterManagementAddOn
<1>7. QED
  BY <1>4, <1>5, <1>6
     DEF Objects!deployerFns, Objects!updateClusterRole, Objects!updateClusterRoleBinding,
         Objects!updateRole, Objects!updateRoleBinding, Objects!updateServiceAccount,
         Objects!updateIngress, Objects!updateDaemonSet, Objects!updateServiceMonitor, Compared

\* A request to write an object that is there is one of its comparison; one that
\* is not there is created, but for the one that is always applied.
LEMMA Requested ==
    ASSUME version \in Versions, NEW f \in Objects!ObjectTypes
    PROVE  \/ Compared(f, Objects!DeployRequest(f)) /\ (f.there \/ kind = "AddOnDeploymentConfig")
           \/ /\ ~f.there /\ Objects!DeployRequest(f).how \in {"create", "apply"}
              /\ Objects!DeployRequest(f).how = "apply" => kind = "McoaCRD"
              /\ Writes(Objects!DeployRequest(f))
<1>1. CASE ~f.there /\ kind # "AddOnDeploymentConfig"
  <2>1. Objects!DeployRequest(f)
          = Objects!Request(IF kind = "McoaCRD" THEN "apply" ELSE "create",
                            Objects!Rendered(version))
    BY <1>1 DEF Objects!DeployRequest
  <2>2. Writes(Objects!DeployRequest(f))
    BY <2>1, Manifests
  <2>3. /\ Objects!DeployRequest(f).how \in {"create", "apply"}
        /\ Objects!DeployRequest(f).how = "apply" => kind = "McoaCRD"
    BY <2>1 DEF Objects!Request
  <2>4. QED
    BY <1>1, <2>2, <2>3
<1>2. CASE f.there \/ kind = "AddOnDeploymentConfig"
  <2>1. Objects!DeployRequest(f) \in {Objects!Nothing, Objects!deployerFns(f)}
    BY <1>2 DEF Objects!DeployRequest
  <2>2. QED
    BY <1>2, <2>1, Comparisons DEF Compared
<1>3. QED
  BY <1>1, <1>2

LEMMA DeployEnds ==
    ASSUME Objects!Deploy
    PROVE  LET r == Objects!DeployRequest(found) IN
           /\ doing = "write" /\ doing' = "idle" /\ found' = Objects!NoObject
           /\ UNCHANGED <<kind, version>>
           /\ \/ UNCHANGED <<object, moved, wroteSame>>
              \/ /\ r.how # "nothing" /\ ~Objects!Conflicts(r) /\ ~Objects!Refuses(r)
                 /\ object' = Objects!Result(r)
                 /\ moved' = (moved \/ Objects!Result(r) # object)
                 /\ wroteSame' = (r.how \in {"update", "replace"} /\ Objects!Result(r) = object)
<1> DEFINE r == Objects!DeployRequest(found)
<1>1. /\ doing = "write" /\ doing' = "idle" /\ found' = Objects!NoObject
      /\ UNCHANGED <<kind, version>>
  BY DEF Objects!Deploy
<1>2. CASE r.how = "nothing" \/ Objects!Conflicts(r)
  BY <1>1, <1>2 DEF Objects!Deploy
<1>3. CASE ~(r.how = "nothing" \/ Objects!Conflicts(r)) /\ Objects!Refuses(r)
  BY <1>1, <1>3 DEF Objects!Deploy
<1>4. CASE ~(r.how = "nothing" \/ Objects!Conflicts(r)) /\ ~Objects!Refuses(r)
  BY <1>1, <1>4 DEF Objects!Deploy, Objects!Becomes
<1>5. QED
  BY <1>2, <1>3, <1>4

LEMMA NothingIsNothing == Objects!Nothing.how = "nothing"
  BY DEF Objects!Nothing

LEMMA DeployKeepsRead ==
    ASSUME ReadInv, Objects!Deploy
    PROVE  ReadInv'
<1> DEFINE r == Objects!DeployRequest(found)
<1>1. r.how # "nothing" => r.new \in Objects!ObjectTypes /\ r.new.there
  BY Requested, NothingIsNothing DEF ReadInv, Compared, Writes
<1>2. object' \in Objects!ObjectTypes /\ OwnedIsThere(object')
  BY <1>1, DeployEnds, ResultIsTyped DEF ReadInv
<1>3. moved' \in BOOLEAN
  BY DeployEnds DEF ReadInv
<1>4. QED
  BY <1>2, <1>3, DeployEnds, ObjectsAreTyped DEF ReadInv

\* An Update changes what was read, and what was read is what is there or differs
\* from the manifest as that does.
LEMMA UpdateChanges ==
    ASSUME ReadInv, Objects!Deploy, wroteSame'
    PROVE  wroteSame
<1> DEFINE r == Objects!DeployRequest(found)
<1> SUFFICES ASSUME r.how \in {"update", "replace"}, Objects!Result(r) = object,
                    ~Objects!Refuses(r)
             PROVE  FALSE
  BY DeployEnds
<1>1. doing = "write" /\ r.new = object
  BY DeployEnds DEF Objects!Result
<1>2. Compared(found, r)
  BY Requested, NothingIsNothing DEF ReadInv
<1>3. CASE r.how = "update"
  <2>1. found = object
    BY <1>1, <1>3 DEF ReadInv, Objects!Refuses
  <2>2. QED
    BY <1>1, <1>2, <1>3, <2>1, NothingIsNothing DEF Compared, Writes
<1>4. CASE r.how = "replace"
  BY <1>1, <1>2, <1>4, NothingIsNothing DEF Compared, Writes, ReadInv
<1>5. QED
  BY <1>3, <1>4

\* What other actors do to the object while Reconcile has a copy of it.
LEMMA EditsAreForeign ==
    ASSUME ReadInv
    PROVE  /\ Objects!UserEdits => \E new : Foreign(new) /\ Objects!Edit(new)
           /\ Objects!UserClearsLabels => \E new : Foreign(new) /\ Objects!Edit(new)
           /\ Objects!UserDeletes => \E new : Foreign(new) /\ Objects!Edit(new)
           /\ Objects!OtherInstalls => \E new : Foreign(new) /\ Objects!Edit(new)
           /\ Objects!AnalyticsUpdates => \E new : Foreign(new) /\ Objects!Edit(new)
<1>1. object \in Objects!ObjectTypes /\ OwnedIsThere(object)
  BY DEF ReadInv
<1>2. /\ Foreign([object EXCEPT !.spec = 0]) /\ Foreign([object EXCEPT !.labels = 0])
      /\ Foreign([object EXCEPT !.legacy = TRUE])
      /\ Foreign([object EXCEPT !.labels = Objects!NoLabels, !.user = FALSE])
  BY <1>1 DEF Foreign, Objects!ObjectTypes, OwnedIsThere
<1>3. \A o \in Objects!ByUser(object) : Foreign(o)
  <2> DEFINE labelled ==
          [object EXCEPT !.user = ~@, !.labels = IF @ = Objects!NoLabels THEN 0 ELSE @]
  <2>1. /\ labelled \in Objects!ObjectTypes /\ labelled.spec = object.spec
        /\ labelled.labels \in {0, object.labels}
        /\ OwnedIsThere(labelled)
    BY <1>1 DEF Objects!ObjectTypes, OwnedIsThere
  <2>2. Foreign(labelled)
    BY <2>1 DEF Foreign
  <2> HIDE DEF labelled
  <2>3. \A o \in Objects!ByUser(object) :
            o \in {[object EXCEPT !.spec = 0], [object EXCEPT !.labels = 0], labelled}
    BY DEF Objects!ByUser, labelled
  <2>4. QED
    BY <1>2, <2>2, <2>3
<1>4. Foreign(Objects!NoObject)
  BY ObjectsAreTyped DEF Foreign, Objects!NoObject
<1>5. Foreign([Objects!Rendered(1) EXCEPT !.spec = 0, !.by = "other"])
  BY VersionsAssumption DEF Foreign, Objects!Rendered, Objects!ObjectTypes, OwnedIsThere
<1>6. QED
  BY <1>2, <1>3, <1>4, <1>5 DEF Objects!UserEdits, Objects!UserClearsLabels,
     Objects!UserDeletes, Objects!OtherInstalls, Objects!AnalyticsUpdates

\* The link to Grafana is added to the object as it was read, or not at all.
LEMMA LinkEnds ==
    ASSUME ReadInv, Objects!syncMCOACMAGrafanaLink
    PROVE  /\ doing = "link" /\ doing' = "idle" /\ found' = Objects!NoObject
           /\ UNCHANGED <<kind, version, enabled, edits, deployFaults>>
           /\ object' \in Objects!ObjectTypes /\ OwnedIsThere(object') /\ moved' \in BOOLEAN
           /\ \/ UNCHANGED <<object, moved, wake, wroteSame>> /\ Objects!HasLink(found)
              \/ wake' = TRUE /\ UNCHANGED <<object, moved, wroteSame>>
              \/ /\ wake' = (wake \/ Objects!Event(object, object'))
                 /\ wroteSame' = FALSE
                 /\ object'.there /\ Objects!HasLink(object') /\ found = object
<1> DEFINE new == [found EXCEPT !.labels = version]
<1>1. /\ doing = "link" /\ doing' = "idle" /\ found' = Objects!NoObject
      /\ UNCHANGED <<kind, version, enabled, edits, deployFaults>>
  BY DEF Objects!syncMCOACMAGrafanaLink
<1>2. CASE Objects!HasLink(found)
  BY <1>1, <1>2 DEF Objects!syncMCOACMAGrafanaLink, ReadInv
<1>3. CASE ~Objects!HasLink(found) /\ moved
  BY <1>1, <1>3 DEF Objects!syncMCOACMAGrafanaLink, Objects!AddLink, ReadInv
<1>4. CASE ~Objects!HasLink(found) /\ ~moved
  <2>1. found = object /\ object.there /\ object.labels = 0
    BY <1>1, <1>4 DEF ReadInv, Objects!HasLink
  <2>2. version \in Versions /\ version # 0
    BY VersionsAssumption DEF ReadInv
  <2>3. /\ new \in Objects!ObjectTypes /\ new.there /\ new.labels = version /\ new.by = found.by
    <3>1. found \in Objects!ObjectTypes /\ found.there
      BY <1>1 DEF ReadInv
    <3>2. QED
      BY <2>2, <3>1 DEF Objects!ObjectTypes
  <2>4. new # object
    BY <2>1, <2>2, <2>3
  <2>5. /\ object' = new /\ moved' = (moved \/ new # object)
        /\ wake' = (wake \/ Objects!Event(object, new)) /\ wroteSame' = (new = object)
    BY <1>4 DEF Objects!syncMCOACMAGrafanaLink, Objects!AddLink, Objects!Becomes
  <2> HIDE DEF new
  <2>6. object' \in Objects!ObjectTypes /\ OwnedIsThere(object') /\ object'.there
        /\ Objects!HasLink(object')
    BY <2>2, <2>3, <2>5 DEF OwnedIsThere, Objects!HasLink
  <2>7. wroteSame' = FALSE /\ moved' \in BOOLEAN
    BY <2>4, <2>5
  <2> QED
    BY <1>1, <2>1, <2>5, <2>6, <2>7
<1> QED
  BY <1>2, <1>3, <1>4

LEMMA ObjectsKeepRead ==
    ASSUME ReadInv, [Objects!DeployerNext]_deployVars
    PROVE  ReadInv'
<1>1. CASE UNCHANGED deployVars
  BY <1>1 DEF ReadInv, deployVars
<1>2. CASE \/ Objects!StartDeploying \/ Objects!EarlierFails \/ Objects!ReadObject
           \/ Objects!SwitchMcoa
  BY <1>2, ObjectsAreTyped DEF ReadInv, Objects!StartDeploying, Objects!EarlierFails,
     Objects!ReadObject, Objects!SwitchMcoa
<1>3. CASE Objects!Deploy
  BY <1>3, DeployKeepsRead
<1>4. CASE Objects!Undeploy
  <2>1. /\ doing' = "idle" /\ found' = Objects!NoObject /\ version' = version
        /\ object' \in {object, Objects!NoObject}
    BY <1>4 DEF Objects!Undeploy, Objects!Becomes
  <2>2. moved' \in BOOLEAN
    BY <1>4 DEF ReadInv, Objects!Undeploy, Objects!Becomes
  <2>3. QED
    BY <2>1, <2>2, ObjectsAreTyped DEF ReadInv
<1>5. CASE \/ Objects!UserEdits \/ Objects!UserClearsLabels \/ Objects!UserDeletes
           \/ Objects!OtherInstalls \/ Objects!AnalyticsUpdates
  BY <1>5, EditsAreForeign, EditKeepsRead
<1>6. CASE Objects!Upgrade
  BY <1>6, ObjectsAreTyped DEF ReadInv, Objects!Upgrade
<1>7. CASE Objects!syncMCOACMAGrafanaLink
  BY <1>7, LinkEnds, ObjectsAreTyped DEF ReadInv
<1>8. QED
  BY <1>1, <1>2, <1>3, <1>4, <1>5, <1>6, <1>7 DEF Objects!DeployerNext, Objects!DeployStep

LEMMA ObjectsBegin == SystemInit /\ part = "objects" => ReadInv /\ ~wroteSame
<1> SUFFICES ASSUME Objects!DeployerInit PROVE ReadInv /\ ~wroteSame
  BY ObjectsStart
<1>1. QED
  BY ObjectsAreTyped, VersionsAssumption DEF Objects!DeployerInit, ReadInv

\* For any kinds, versions and edits, the comparison that comes before an Update has
\* always seen a difference that the update takes away, also when the object has
\* changed since it was read (Deploy and the update functions of pkg/deploying).
THEOREM ObjectsNoNeedlessUpdates == SystemSpec => []NoNeedlessUpdates
<1> DEFINE Inv == part = "objects" => ReadInv /\ ~wroteSame
<1>1. SystemInit => Inv
  BY ObjectsBegin
<1>2. Inv /\ [SystemNext]_systemVars => Inv'
  <2> SUFFICES ASSUME part = "objects", ReadInv, ~wroteSame, [Objects!DeployerNext]_deployVars
               PROVE  ReadInv' /\ ~wroteSame'
    BY ObjectsStep
  <2>1. CASE Objects!Deploy
    BY <2>1, ObjectsKeepRead, UpdateChanges
  <2>2. CASE Objects!syncMCOACMAGrafanaLink
    <3>1. wroteSame' = wroteSame \/ wroteSame' = FALSE
      BY <2>2, LinkEnds
    <3>2. QED
      BY <3>1, ObjectsKeepRead
  <2>3. CASE ~Objects!Deploy /\ ~Objects!syncMCOACMAGrafanaLink
    <3>1. wroteSame' = wroteSame
      BY <2>3 DEF deployVars, Objects!DeployerNext, Objects!DeployStep, Objects!StartDeploying,
         Objects!EarlierFails, Objects!ReadObject, Objects!SwitchMcoa, Objects!Undeploy,
         Objects!Upgrade, Objects!UserEdits, Objects!UserClearsLabels, Objects!UserDeletes,
         Objects!OtherInstalls, Objects!AnalyticsUpdates, Objects!Edit
    <3>2. QED
      BY <3>1, ObjectsKeepRead
  <2>4. QED
    BY <2>1, <2>2, <2>3
<1>3. Inv => NoNeedlessUpdates
  BY DEF NoNeedlessUpdates, Objects!NoNeedlessUpdates
<1>4. QED
  BY <1>1, <1>2, <1>3, PTL DEF SystemSpec

\* The kinds whose metadata is merged: a write keeps what the copy carries of a user.
LEMMA MergedKinds ==
    ASSUME kind \in Objects!Merged, version \in Versions, NEW f \in Objects!ObjectTypes
    PROVE  LET r == Objects!DeployRequest(f) IN
           \/ ~f.there /\ r.how = "create"
           \/ r.how = "nothing"
           \/ r.how \in {"update", "force", "panic"} /\ r.new.user = f.user
<1>1. \/ kind = "Deployment" /\ Objects!deployerFns(f) = Objects!updateDeployment(f)
      \/ kind = "StatefulSet" /\ Objects!deployerFns(f) = Objects!updateStatefulSet(f)
      \/ kind = "McoaPrometheusRule" /\ Objects!deployerFns(f) = Objects!updatePrometheusRule(f)
      \/ kind = "ScrapeConfig" /\ Objects!deployerFns(f) = Objects!updateScrapeConfig(f)
  BY DEF Objects!Merged, Objects!deployerFns
<1>2. /\ Objects!mergeMetadata(f).user = f.user
      /\ [Objects!mergeMetadata(f) EXCEPT !.by = f.by].user = f.user
  BY DEF Objects!mergeMetadata, Objects!Rendered
<1>3. \/ Objects!deployerFns(f) = Objects!Nothing
      \/ \E how \in {"update", "force", "panic"} :
           Objects!deployerFns(f) \in {Objects!Request(how, Objects!mergeMetadata(f)),
             Objects!Request(how, [Objects!mergeMetadata(f) EXCEPT !.by = f.by])}
  BY <1>1 DEF Objects!updateDeployment, Objects!updateStatefulSet,
     Objects!updatePrometheusRule, Objects!updateScrapeConfig
<1>4. CASE ~f.there
  <2>1. Objects!DeployRequest(f) = Objects!Request("create", Objects!Rendered(version))
    BY <1>4, <1>1 DEF Objects!DeployRequest
  <2>2. QED
    BY <1>4, <2>1 DEF Objects!Request
<1>5. CASE f.there
  <2>1. Objects!DeployRequest(f) \in {Objects!Nothing, Objects!deployerFns(f)}
    BY <1>5 DEF Objects!DeployRequest
  <2>2. \/ Objects!deployerFns(f).how = "nothing"
        \/ /\ Objects!deployerFns(f).how \in {"update", "force", "panic"}
           /\ Objects!deployerFns(f).new.user = f.user
    <3>1. \A how, new : /\ Objects!Request(how, new).how = how
                        /\ Objects!Request(how, new).new = new
      BY DEF Objects!Request
    <3>2. CASE Objects!deployerFns(f) = Objects!Nothing
      BY <3>2, NothingIsNothing
    <3>3. CASE Objects!deployerFns(f) # Objects!Nothing
      <4>1. PICK how \in {"update", "force", "panic"} :
               Objects!deployerFns(f) \in {Objects!Request(how, Objects!mergeMetadata(f)),
                 Objects!Request(how, [Objects!mergeMetadata(f) EXCEPT !.by = f.by])}
        BY <1>3, <3>3
      <4>2. PICK new : /\ new.user = f.user
                       /\ Objects!deployerFns(f) = Objects!Request(how, new)
        BY <1>2, <4>1, Zenon
      <4>3. QED
        BY <3>1, <4>2
    <3>4. QED
      BY <3>2, <3>3
  <2>3. QED
    BY <2>1, <2>2, NothingIsNothing
<1>6. QED
  BY <1>4, <1>5

LEMMA UserLabelsKept ==
    ASSUME ReadInv
    PROVE  Objects!KeepsUserLabels
<1> DEFINE r == Objects!DeployRequest(found)
<1> SUFFICES ASSUME Objects!Deploy, kind \in Objects!Merged, object.there, object.user,
                    r.how # "nothing", ~Objects!Refuses(r), object' = Objects!Result(r)
             PROVE  object'.user
  BY DeployEnds DEF Objects!KeepsUserLabels
<1>1. doing = "write"
  BY DeployEnds
<1>2. r.how \in {"update", "force"} /\ r.new.user = found.user
  BY MergedKinds DEF ReadInv, Objects!Refuses
<1>3. r.new \in Objects!ObjectTypes
  BY Requested, <1>2, NothingIsNothing DEF ReadInv, Compared, Writes
<1>4. CASE r.how = "update"
  <2>1. found = object
    BY <1>1, <1>4 DEF ReadInv, Objects!Refuses
  <2>2. object' = r.new
    BY <1>4 DEF Objects!Result
  <2>3. QED
    BY <1>2, <2>1, <2>2
<1>5. CASE r.how = "force"
  <2>1. object'.user = (object.user \/ r.new.user)
    BY <1>3, <1>5 DEF Objects!Result, Objects!ObjectTypes
  <2>2. QED
    BY <2>1
<1>6. QED
  BY <1>2, <1>4, <1>5

LEMMA ForeignKept ==
    ASSUME ReadInv
    PROVE  Objects!KeepsForeign
<1> DEFINE r == Objects!DeployRequest(found)
<1> SUFFICES ASSUME object.there, object.by = "other", ~moved
             PROVE  /\ Objects!Undeploy => object'.there
                    /\ Objects!Deploy /\ kind = "McoaCRD" => object' = object
  BY DEF Objects!KeepsForeign
<1>1. Objects!Undeploy => object'.there
  <2> SUFFICES ASSUME Objects!Undeploy PROVE object'.there
    OBVIOUS
  <2>1. found = object
    BY DEF ReadInv, Objects!Undeploy
  <2>2. object' = object
    BY <2>1 DEF Objects!Undeploy, Objects!isControllerOwner
  <2>3. QED
    BY <2>2
<1>2. ASSUME Objects!Deploy, kind = "McoaCRD" PROVE object' = object
  <2>1. found = object
    BY <1>2, DeployEnds DEF ReadInv
  <2>2. r \in {Objects!Nothing, Objects!updateCRD(object)}
    BY <1>2, <2>1 DEF Objects!DeployRequest, Objects!deployerFns
  <2>3. CASE r = Objects!Nothing
    BY <1>2, <2>3, DeployEnds, NothingIsNothing
  <2>4. CASE r # Objects!Nothing
    <3>1. r = Objects!Request("apply", Objects!Rendered(version)) /\ object.spec # version
      BY <2>2, <2>4 DEF Objects!updateCRD, Objects!hasMCOControllerOwner, Objects!DeepDerivative
    <3>2. r.how = "apply" /\ r.new.spec = version
      BY <3>1 DEF Objects!Request, Objects!Rendered
    <3>3. Objects!Conflicts(r)
      BY <3>1, <3>2 DEF Objects!Conflicts
    <3>4. QED
      BY <1>2, <3>3, DeployEnds
  <2>5. QED
    BY <2>3, <2>4
<1>3. QED
  BY <1>1, <1>2

\* For any kinds, versions and edits, what users have added to merged metadata
\* outlives the operator's writes, and an object another operator controls is
\* neither overwritten nor deleted while it has not changed hands since it was read
\* (mergeMetadata, the resource version in the updates, updateCRD, Undeploy).
THEOREM ObjectsOthersKept == SystemSpec => OthersKept
<1> DEFINE Inv == part = "objects" => ReadInv
<1>1. SystemInit => Inv
  BY ObjectsBegin
<1>2. Inv /\ [SystemNext]_systemVars =>
        Inv' /\ [part = "objects" => Objects!KeepsOthers]_deployVars
  BY ObjectsStep, ObjectsKeepRead, UserLabelsKept, ForeignKept DEF Objects!KeepsOthers
<1>3. QED
  BY <1>1, <1>2, PTL DEF SystemSpec, OthersKept

\* The kinds an event of which wakes the operator and that it does not skip.
Kept == kind \in Objects!Watched \ Skipped

\* MCOA is off, and the object is one of its own
Unwanted == kind \in Objects!Mcoa /\ ~enabled

\* The object is another operator's, or as it is to be
Settled ==
    \/ object.there /\ object.by = "other"
    \/ IF Unwanted THEN ~object.there ELSE Objects!AsRendered(object)

\* With no event on its way Reconcile knows the object as it is, or knows that it is
\* another operator's, and is where the switch sends it.
DriftInv ==
    Kept /\ ~wake =>
        /\ doing = "idle" => Settled
        /\ doing = "link" => kind = "ClusterManagementAddOn"
        /\ doing \in {"deploy", "write"} => ~Unwanted
        /\ doing \in {"undeploy", "delete"} => Unwanted
        /\ doing \in {"link", "write", "delete"} =>
             found = object \/ (found.by = "other" /\ object.by = "other")

\* A watched object is left as it is only when it is as its manifest says.
LEMMA NothingToDo ==
    ASSUME Kept, NEW f, Objects!DeployRequest(f).how = "nothing"
    PROVE  f.there /\ f.spec = version
           /\ (kind = "ClusterManagementAddOn" => f.labels = version)
<1> USE DEF Objects!Nothing, Objects!Request, Objects!DeepDerivative
<1>1. f.there \/ kind = "AddOnDeploymentConfig"
  BY DEF Objects!DeployRequest
<1>2. Objects!deployerFns(f).how = "nothing"
  BY <1>1 DEF Objects!DeployRequest, Kept
<1>3. kind # "AddOnDeploymentConfig"
  BY <1>2 DEF Objects!deployerFns, Objects!applyAddOnDeploymentConfig
<1>4. f.spec = version /\ (kind = "ClusterManagementAddOn" => f.labels = version)
  <2>1. kind \in {"Deployment", "StatefulSet", "ConfigMap", "Secret", "Service",
                  "ClusterManagementAddOn", "PrometheusRule", "McoaPrometheusRule",
                  "ScrapeConfig", "McoaCRD"}
    BY <1>3 DEF Kept, Objects!Watched
  <2>2. QED
    BY <1>2, <2>1 DEF Objects!deployerFns, Objects!updateDeployment,
       Objects!updateStatefulSet, Objects!updateConfigMap, Objects!updateSecret,
       Objects!updateService, Objects!updateClusterManagementAddOn,
       Objects!updatePrometheus, Objects!updatePrometheusRule,
       Objects!updateScrapeConfig, Objects!updateCRD, Objects!isMapSubset
<1>5. QED
  BY <1>1, <1>3, <1>4

LEMMA DeploySettles ==
    ASSUME ReadInv, DriftInv, Kept, Objects!Deploy, ~wake'
    PROVE  Settled'
<1> DEFINE r == Objects!DeployRequest(found)
<1>1. /\ doing = "write" /\ UNCHANGED <<kind, version, enabled>>
      /\ ~(r.how = "nothing" \/ Objects!Conflicts(r)) => ~Objects!Refuses(r)
      /\ ~wake
  <2>1. doing = "write" /\ UNCHANGED <<kind, version, enabled>>
    BY DEF Objects!Deploy
  <2>2. CASE r.how = "nothing" \/ Objects!Conflicts(r)
    BY <2>1, <2>2 DEF Objects!Deploy
  <2>3. CASE ~(r.how = "nothing" \/ Objects!Conflicts(r)) /\ Objects!Refuses(r)
    BY <2>3 DEF Objects!Deploy
  <2>4. CASE ~(r.how = "nothing" \/ Objects!Conflicts(r)) /\ ~Objects!Refuses(r)
    <3>1. wake' = (wake \/ Objects!Event(object, Objects!Result(r)))
      BY <2>4 DEF Objects!Deploy
    <3>2. QED
      BY <2>1, <2>4, <3>1
  <2>5. QED
    BY <2>2, <2>3, <2>4
<1>2. ~Unwanted /\ (found = object \/ (found.by = "other" /\ object.by = "other"))
  BY <1>1 DEF DriftInv
<1>3. CASE r.how = "nothing" \/ Objects!Conflicts(r)
  <2>1. object' = object
    BY <1>3 DEF Objects!Deploy
  <2>2. Settled
    <3>1. CASE r.how = "nothing"
      BY <1>2, <3>1, NothingToDo, VersionsAssumption
         DEF Settled, ReadInv, OwnedIsThere, Objects!AsRendered, Objects!HasLink
    <3>2. CASE Objects!Conflicts(r)
      BY <3>2 DEF Objects!Conflicts, Settled
    <3>3. QED
      BY <1>3, <3>1, <3>2
  <2>3. QED
    BY <1>1, <2>1, <2>2 DEF Settled, Unwanted, Objects!AsRendered
<1>4. CASE ~(r.how = "nothing" \/ Objects!Conflicts(r))
  <2>1. object' = Objects!Result(r)
    BY <1>1, <1>4 DEF Objects!Deploy, Objects!Becomes
  <2>2. Writes(r)
    BY <1>4, Requested, NothingIsNothing DEF ReadInv, Compared
  <2>3. object'.there /\ object'.spec = version /\ object'.labels = version
    BY <2>1, <2>2, ResultIsTyped DEF Writes
  <2>4. version # 0
    BY VersionsAssumption DEF ReadInv
  <2>5. QED
    BY <1>1, <1>2, <2>3, <2>4 DEF Settled, Unwanted, Objects!AsRendered, Objects!HasLink
<1>5. QED
  BY <1>3, <1>4

LEMMA UndeploySettles ==
    ASSUME ReadInv, DriftInv, Kept, Objects!Undeploy, ~wake'
    PROVE  Settled'
<1>1. doing = "delete" /\ UNCHANGED <<kind, version, enabled>>
  BY DEF Objects!Undeploy
<1>2. CASE found.there /\ Objects!isControllerOwner(found)
  <2>1. object' = Objects!NoObject
        /\ wake' = (wake \/ Objects!Event(object, Objects!NoObject))
    BY <1>2 DEF Objects!Undeploy, Objects!Becomes
  <2>2. ~wake
    BY <2>1
  <2>3. QED
    BY <1>1, <2>1, <2>2 DEF DriftInv, Settled, Unwanted, Objects!NoObject
<1>3. CASE ~(found.there /\ Objects!isControllerOwner(found))
  <2>1. object' = object /\ ~wake
    BY <1>3 DEF Objects!Undeploy
  <2>2. /\ Unwanted
        /\ found = object \/ (found.by = "other" /\ object.by = "other")
    BY <1>1, <2>1 DEF DriftInv
  <2>3. found.by \in {"mco", "other"}
    BY DEF ReadInv, Objects!ObjectTypes
  <2>4. Settled
    BY <1>3, <2>2, <2>3 DEF Settled, ReadInv, OwnedIsThere, Objects!isControllerOwner
  <2>5. QED
    BY <1>1, <2>1, <2>4 DEF Settled, Unwanted, Objects!AsRendered
<1>4. QED
  BY <1>2, <1>3

LEMMA LinkSettles ==
    ASSUME ReadInv, DriftInv, Kept, Objects!syncMCOACMAGrafanaLink, ~wake'
    PROVE  Settled'
<1>1. /\ doing = "link" /\ UNCHANGED <<kind, version, enabled>> /\ found.there
      /\ \/ object' = object /\ ~wake /\ Objects!HasLink(found)
         \/ /\ object'.there /\ Objects!HasLink(object') /\ found = object
            /\ wake' = (wake \/ Objects!Event(object, object'))
  <2>1. doing = "link" /\ found.there
    BY LinkEnds DEF ReadInv
  <2>2. ASSUME wake' = TRUE PROVE FALSE
    BY <2>2
  <2>3. ASSUME wake' = wake PROVE ~wake
    BY <2>3
  <2>4. QED
    BY <2>1, <2>2, <2>3, LinkEnds
<1>2. ~wake
  <2>1. ASSUME wake' = (wake \/ Objects!Event(object, object')), wake PROVE FALSE
    BY <2>1
  <2>2. QED
    BY <1>1, <2>1
<1>3. /\ kind = "ClusterManagementAddOn"
      /\ found = object \/ (found.by = "other" /\ object.by = "other")
  BY <1>1, <1>2 DEF DriftInv
<1>4. ~Unwanted'
  BY <1>1, <1>3 DEF Unwanted, Objects!Mcoa
<1>5. Objects!AsRendered(object)' \/ (object.by = "other" /\ object' = object)
  BY <1>1, <1>3 DEF Objects!AsRendered, Objects!HasLink
<1>6. QED
  BY <1>4, <1>5 DEF Settled, ReadInv, OwnedIsThere

\* A change without an event is one of another operator's object.
LEMMA EditKeepsDrift ==
    ASSUME ReadInv, DriftInv, NEW new, Foreign(new), Objects!Edit(new)
    PROVE  DriftInv'
<1>1. /\ object' = new /\ object # new
      /\ wake' = (wake \/ Objects!Event(object, new))
      /\ UNCHANGED <<kind, found, version, enabled, doing>>
  BY DEF Objects!Edit, Objects!Becomes
<1>2. SUFFICES ASSUME Kept', ~wake' PROVE DriftInv'
  BY DEF DriftInv
<1>3. Kept /\ ~wake /\ ~Objects!Event(object, new)
  BY <1>1, <1>2 DEF Kept
<1>4. object.by = "other" /\ new.by = "other"
  <2>1. object.by # "mco" /\ new.by # "mco"
    BY <1>1, <1>3 DEF Objects!Event, Kept
  <2>2. QED
    BY <2>1 DEF ReadInv, Foreign, Objects!ObjectTypes
<1>5. new.there
  BY <1>4 DEF Foreign, OwnedIsThere
<1>6. Settled' /\ Unwanted' = Unwanted
  BY <1>1, <1>4, <1>5 DEF Settled, Unwanted
<1>7. found = object \/ (found.by = "other" /\ object.by = "other") => found.by = "other"
  BY <1>4
<1>8. QED
  BY <1>1, <1>3, <1>4, <1>6, <1>7 DEF DriftInv

LEMMA DriftStays ==
    ASSUME ReadInv, DriftInv, [Objects!DeployerNext]_deployVars
    PROVE  DriftInv'
<1>1. CASE UNCHANGED deployVars
  BY <1>1 DEF DriftInv, Kept, Settled, Unwanted, Objects!AsRendered, deployVars
<1>2. CASE Objects!StartDeploying
  BY <1>2 DEF DriftInv, Kept, Settled, Unwanted, Objects!Mcoa, Objects!StartDeploying
<1>3. CASE Objects!ReadObject
  BY <1>3 DEF DriftInv, Kept, Settled, Unwanted, Objects!ReadObject
<1>4. CASE Objects!EarlierFails \/ Objects!SwitchMcoa \/ Objects!Upgrade
  BY <1>4 DEF DriftInv, Objects!EarlierFails, Objects!SwitchMcoa, Objects!Upgrade
<1>5. CASE Objects!Deploy
  <2>1. doing' = "idle" /\ kind' = kind
    BY <1>5 DEF Objects!Deploy
  <2>2. QED
    BY <1>5, <2>1, DeploySettles DEF DriftInv, Kept
<1>6. CASE Objects!Undeploy
  <2>1. doing' = "idle" /\ kind' = kind
    BY <1>6 DEF Objects!Undeploy
  <2>2. QED
    BY <1>6, <2>1, UndeploySettles DEF DriftInv, Kept
<1>7. CASE \/ Objects!UserEdits \/ Objects!UserClearsLabels \/ Objects!UserDeletes
           \/ Objects!OtherInstalls \/ Objects!AnalyticsUpdates
  BY <1>7, EditsAreForeign, EditKeepsDrift
<1>8. CASE Objects!syncMCOACMAGrafanaLink
  <2>1. doing' = "idle" /\ kind' = kind
    BY <1>8, LinkEnds
  <2>2. QED
    BY <1>8, <2>1, LinkSettles DEF DriftInv, Kept
<1>9. QED
  BY <1>1, <1>2, <1>3, <1>4, <1>5, <1>6, <1>7, <1>8 DEF Objects!DeployerNext, Objects!DeployStep

\* For any kinds, versions and edits, an operator at rest has left an object of a kind
\* it watches as its manifest says (a ClusterManagementAddOn, which users manage once it
\* is there, with its link to Grafana), or away when MCOA is off, or another operator's:
\* what happens between the read and the write of a Reconcile is not forgotten
\* (Deploy and Undeploy, the predicates of SetupWithManager).
THEOREM ObjectsNoDriftMissed == SystemSpec => []NoDriftMissed
<1> DEFINE Inv == part = "objects" => ReadInv /\ DriftInv
<1>1. SystemInit => Inv
  BY ObjectsBegin, ObjectsStart DEF Objects!DeployerInit, DriftInv
<1>2. Inv /\ [SystemNext]_systemVars => Inv'
  BY ObjectsStep, ObjectsKeepRead, DriftStays
<1>3. Inv => NoDriftMissed
  BY DEF ReadInv, OwnedIsThere, DriftInv, Kept, Settled, Unwanted, NoDriftMissed,
         Objects!NoDriftMissed, Objects!LooksAfter, Objects!AsWanted, Objects!ObjectTypes
<1>4. QED
  BY <1>1, <1>2, <1>3, PTL DEF SystemSpec

-----------------------------------------------------------------------------
(***************************************************************************)
(* The rest of the hub's operands: the tenant                              *)
(***************************************************************************)
LEMMA HubStarts == SystemInit /\ part = "hub" => Hub!HubInit
  BY DEF SystemInit

LEMMA HubSteps ==
    ASSUME [SystemNext]_systemVars
    PROVE  /\ part' = part
           /\ part = "hub" => [Hub!HubNext]_hubVars
  BY DEF SystemNext, systemVars

\* The hashring of the receivers has the tenant of the API.
RingInv == obs.there => obs.ring = {obs.tenant}

LEMMA UpdateKeepsTenant ==
    ASSUME NEW m
    PROVE  LET new == Hub!updateTenantID(Hub!newObservatorium(m), obs) IN
           new.tenant = obs.tenant /\ new.ring = {obs.tenant}
<1>1. /\ Hub!newObservatorium(m).tenant = m /\ Hub!newObservatorium(m).ring = {m}
  BY DEF Hub!newObservatorium
<1>2. CASE m = obs.tenant
  BY <1>1, <1>2 DEF Hub!updateTenantID
<1>3. CASE m # obs.tenant
  BY <1>1, <1>3 DEF Hub!updateTenantID, Hub!newObservatorium
<1>4. QED
  BY <1>2, <1>3

LEMMA RingStep ==
    ASSUME RingInv, [Hub!HubNext]_hubVars
    PROVE  RingInv' /\ Hub!TenantStays
<1>1. CASE UNCHANGED obs
  BY <1>1 DEF RingInv, Hub!TenantStays
<1>2. CASE Hub!GenerateObservatoriumCR
  <2>1. \/ ~obs.there /\ obs' = Hub!newObservatorium(uid')
        \/ obs' = obs
        \/ obs.there /\ obs' = Hub!updateTenantID(Hub!newObservatorium(uid'), obs)
    BY <1>2 DEF Hub!GenerateObservatoriumCR
  <2>2. Hub!newObservatorium(uid').ring = {Hub!newObservatorium(uid').tenant}
    BY DEF Hub!newObservatorium
  <2>3. QED
    BY <1>1, <2>1, <2>2, UpdateKeepsTenant DEF RingInv, Hub!TenantStays
<1>3. ASSUME NEW o \in {"observatorium", "datasource", "endpoints"}, Hub!DeleteObject(o)
      PROVE  RingInv' /\ Hub!TenantStays
  <2>1. obs' = obs \/ ~obs'.there
    BY <1>3 DEF Hub!DeleteObject, Hub!NoObs
  <2>2. QED
    BY <1>1, <2>1 DEF RingInv, Hub!TenantStays
<1>4. CASE Hub!HubStep
  BY <1>1, <1>2, <1>4 DEF Hub!HubStep, Hub!StartReconcile, Hub!ensureOpenShiftNamespaceLabel,
     Hub!GenerateRoute, Hub!RejectCertificate, Hub!GenerateGrafanaOauthClient,
     Hub!applyEndpointsSecret, Hub!restartApi, Hub!deleteStoreSts,
     Hub!GenerateGrafanaDataSource, Hub!restartGrafana, Hub!deleteLegacy, Hub!world
<1>5. CASE Hub!HubUser
  BY <1>1, <1>3, <1>5 DEF Hub!HubUser, Hub!ChangeSpec, Hub!ChangeApiConfig,
     Hub!ProvideCertificate, Hub!EditLabel, Hub!EditRoute
<1>6. CASE Hub!HubPods \/ Hub!HubCallFails \/ Hub!OauthCallFails \/ Hub!RestartHub
  BY <1>1, <1>6 DEF Hub!HubPods, Hub!StartPod, Hub!GetReady, Hub!DeployStores, Hub!Aside,
     Hub!HubCallFails, Hub!OauthCallFails, Hub!RestartHub, Hub!world
<1>7. QED
  BY <1>1, <1>4, <1>5, <1>6 DEF Hub!HubNext, hubVars

\* For any specs, edits, failures and restarts, the tenant under which metrics are
\* stored stays for as long as the Observatorium resource lives, and the hashring
\* has it, although each process makes a UID of its own (GetTenantUID,
\* updateTenantID).
THEOREM OperandsTenantKept == SystemSpec => TenantKept
<1> DEFINE Inv == part = "hub" => RingInv
<1>1. SystemInit => Inv
  BY HubStarts DEF Hub!HubInit, Hub!NoObs, RingInv
<1>2. Inv /\ [SystemNext]_systemVars => Inv' /\ [part = "hub" => Hub!TenantStays]_hubVars
  BY HubSteps, RingStep
<1>3. QED
  BY <1>1, <1>2, PTL DEF SystemSpec, TenantKept

-----------------------------------------------------------------------------
(***************************************************************************)
(* The rest of the hub's operands: types                                   *)
(***************************************************************************)
LEMMA ContentsOf ==
    /\ "none" \in Hub!Contents
    /\ \A s \in HubSpecs : s.timeout \in Hub!Contents /\ s.endpoints \in Hub!Contents
<1>1. ASSUME NEW s \in HubSpecs
      PROVE  s.timeout \in Hub!Contents /\ s.endpoints \in Hub!Contents
  <2>1. {s.timeout, s.endpoints} \in {{t.timeout, t.endpoints} : t \in HubSpecs}
    OBVIOUS
  <2>2. QED
    BY <2>1 DEF Hub!Contents
<1>2. "none" \in Hub!Contents
  BY DEF Hub!Contents
<1>3. QED
  BY <1>1, <1>2

LEMMA RoutesAreTyped ==
    ASSUME snapSpec \in HubSpecs, NEW r \in Hub!Routes
    PROVE  /\ Hub!NoRoute \in Hub!RouteType
           /\ Hub!MadeRoute(r) \in Hub!RouteType
           /\ \A route \in Hub!RouteType :
                /\ Hub!GenerateAlertmanagerRoute(route) \in Hub!RouteType
                /\ Hub!GenerateAPIGatewayRoute(route) \in Hub!RouteType
                /\ Hub!GenerateProxyRoute(route) \in Hub!RouteType
                /\ Hub!GenerateGrafanaRoute(route) \in Hub!RouteType
<1>1. \A q \in Hub!Routes : Hub!MadeRoute(q) \in Hub!RouteType
  BY ContentsOf DEF Hub!MadeRoute, Hub!RouteType
<1>2. Hub!NoRoute \in Hub!RouteType
  BY ContentsOf DEF Hub!NoRoute, Hub!RouteType
<1>3. ASSUME NEW route \in Hub!RouteType
      PROVE  [route EXCEPT !.tls = IF @ = "missing" THEN @ ELSE "right", !.to = TRUE]
               \in Hub!RouteType
  BY DEF Hub!RouteType
<1>4. {"alertmanager", "observatorium-api", "rbac-query-proxy", "grafana"} \subseteq Hub!Routes
  BY DEF Hub!Routes
<1>5. QED
  BY <1>1, <1>2, <1>3, <1>4 DEF Hub!GenerateAlertmanagerRoute, Hub!GenerateAPIGatewayRoute,
     Hub!GenerateProxyRoute, Hub!GenerateGrafanaRoute

LEMMA PodsAreTyped ==
    ASSUME NEW p \in {"api", "grafana"}, NEW c \in Hub!Contents,
           pods \in [{"api", "grafana"} -> Hub!PodType]
    PROVE  /\ Hub!NoPod \in Hub!PodType
           /\ [pods EXCEPT ![p].content = c] \in [{"api", "grafana"} -> Hub!PodType]
           /\ [pods EXCEPT ![p].ready = TRUE] \in [{"api", "grafana"} -> Hub!PodType]
           /\ [pods EXCEPT ![p] = Hub!NoPod] \in [{"api", "grafana"} -> Hub!PodType]
<1>1. Hub!NoPod \in Hub!PodType
  BY ContentsOf DEF Hub!NoPod, Hub!PodType
<1>2. /\ [pods[p] EXCEPT !.content = c] \in Hub!PodType
      /\ [pods[p] EXCEPT !.ready = TRUE] \in Hub!PodType
  BY DEF Hub!PodType
<1>3. QED
  BY <1>1, <1>2

LEMMA ObsIsTyped ==
    ASSUME Hub!HubTypeOK, NEW m \in Nat
    PROVE  /\ Hub!newObservatorium(m) \in Hub!ObsType
           /\ Hub!newObservatorium(m).there
           /\ obs.there => /\ Hub!updateTenantID(Hub!newObservatorium(m), obs) \in Hub!ObsType
                           /\ obs.shards \in Nat /\ obs.tenant \in Nat
<1>1. snapSpec \in HubSpecs /\ apiConfig \in {0, 1} /\ obs \in Hub!ObsType
  BY DEF Hub!HubTypeOK
<1>2. Hub!newObservatorium(m) \in Hub!ObsType /\ Hub!newObservatorium(m).there
  BY <1>1, ContentsOf DEF Hub!newObservatorium, Hub!ObsType
<1>3. ASSUME obs.there PROVE obs.shards \in Nat /\ obs.tenant \in Nat
  <2>1. obs # Hub!NoObs
    BY <1>3 DEF Hub!NoObs
  <2>2. PICK s \in HubSpecs : obs.shards = s.shards
    BY <1>1, <2>1 DEF Hub!ObsType
  <2>3. obs.tenant \in Nat
    BY <1>1, <2>1 DEF Hub!ObsType
  <2>4. QED
    BY <2>2, <2>3, HubAssumption
<1>4. ASSUME obs.there PROVE Hub!updateTenantID(Hub!newObservatorium(m), obs) \in Hub!ObsType
  <2>1. CASE m = obs.tenant
    BY <1>2, <2>1 DEF Hub!updateTenantID, Hub!newObservatorium
  <2>2. CASE m # obs.tenant
    <3>1. Hub!updateTenantID(Hub!newObservatorium(m), obs)
            = [there |-> TRUE, tenant |-> obs.tenant, ring |-> {obs.tenant},
               hash |-> apiConfig, size |-> snapSpec.size, shards |-> snapSpec.shards,
               endpoints |-> snapSpec.endpoints]
      BY <2>2 DEF Hub!updateTenantID, Hub!newObservatorium
    <3>2. QED
      BY <3>1, <1>1, <1>3, <1>4, ContentsOf DEF Hub!ObsType
  <2>3. QED
    BY <2>1, <2>2
<1>5. QED
  BY <1>2, <1>3, <1>4

LEMMA HubBegins == Hub!HubInit => Hub!HubTypeOK
<1> SUFFICES ASSUME Hub!HubInit PROVE Hub!HubTypeOK
  OBVIOUS
<1>1. Hub!NoRoute \in Hub!RouteType
  BY ContentsOf DEF Hub!NoRoute, Hub!RouteType
<1>2. Hub!NoPod \in Hub!PodType
  BY ContentsOf DEF Hub!NoPod, Hub!PodType
<1>3. /\ asked \in HubSpecs /\ snapSpec \in HubSpecs
      /\ hubEdits \in 0..MaxHubEdits /\ hubFailures \in 0..MaxHubFailures
  BY HubAssumption DEF Hub!HubInit
<1>4. obs \in Hub!ObsType /\ hubStep \in Hub!Steps
  BY DEF Hub!HubInit, Hub!ObsType, Hub!Steps
<1>5. /\ hubRoutes \in [Hub!Routes -> Hub!RouteType]
      /\ pods \in [{"api", "grafana"} -> Hub!PodType]
      /\ eps \in Hub!Contents /\ ds \in Hub!Contents
  BY <1>1, <1>2, ContentsOf DEF Hub!HubInit
<1>6. {legacy, legacyGone, hubReq, edited} \subseteq BOOLEAN
  BY DEF Hub!HubInit
<1>7. QED
  BY <1>3, <1>4, <1>5, <1>6 DEF Hub!HubInit, Hub!HubTypeOK

LEMMA HubStaysTyped ==
    ASSUME Hub!HubTypeOK, [Hub!HubNext]_hubVars
    PROVE  Hub!HubTypeOK'
<1> USE ContentsOf DEF Hub!HubTypeOK
<1>1. CASE UNCHANGED hubVars
  BY <1>1 DEF hubVars
<1>2. CASE Hub!StartReconcile \/ Hub!ensureOpenShiftNamespaceLabel \/ Hub!RejectCertificate
  BY <1>2 DEF Hub!StartReconcile, Hub!ensureOpenShiftNamespaceLabel, Hub!RejectCertificate,
     Hub!Goto, Hub!Steps, Hub!world, Hub!memory
<1>3. ASSUME NEW r \in Hub!Routes, Hub!GenerateRoute(r)
      PROVE  Hub!HubTypeOK'
  <2>1. hubRoutes' \in [Hub!Routes -> Hub!RouteType]
    BY <1>3, RoutesAreTyped DEF Hub!GenerateRoute, Hub!Routes
  <2>2. hubStep' \in Hub!Steps
    BY <1>3 DEF Hub!GenerateRoute, Hub!Goto, Hub!NextStep, Hub!Steps, Hub!Routes
  <2>3. QED
    BY <1>3, <2>1, <2>2 DEF Hub!GenerateRoute, Hub!Goto, Hub!memory
<1>4. CASE Hub!GenerateGrafanaOauthClient \/ Hub!deleteStoreSts \/ Hub!deleteLegacy
  BY <1>4 DEF Hub!GenerateGrafanaOauthClient, Hub!deleteStoreSts, Hub!deleteLegacy,
     Hub!Goto, Hub!Steps, Hub!memory
<1>5. CASE Hub!applyEndpointsSecret \/ Hub!GenerateGrafanaDataSource
  BY <1>5 DEF Hub!applyEndpointsSecret, Hub!GenerateGrafanaDataSource, Hub!Created,
     Hub!Goto, Hub!Steps, Hub!memory
<1>6. ASSUME NEW p \in {"api", "grafana"}, NEW c \in Hub!Contents, Hub!UpdateDeployLabel(p, c)
      PROVE  /\ pods' \in [{"api", "grafana"} -> Hub!PodType]
             /\ undone' \subseteq {"api", "grafana", "stores", "oauth"}
             /\ hubReq' \in BOOLEAN
  <2>1. pods' \in [{"api", "grafana"} -> Hub!PodType]
    BY <1>6, PodsAreTyped DEF Hub!UpdateDeployLabel
  <2>2. undone' \subseteq {"api", "grafana", "stores", "oauth"}
    BY <1>6 DEF Hub!UpdateDeployLabel
  <2>3. hubReq' \in BOOLEAN
    <3>1. hubReq' = TRUE \/ hubReq' = hubReq
      BY <1>6 DEF Hub!UpdateDeployLabel
    <3>2. QED
      BY <3>1
  <2>4. QED
    BY <2>1, <2>2, <2>3
<1>7. CASE Hub!restartApi \/ Hub!restartGrafana
  BY <1>6, <1>7 DEF Hub!restartApi, Hub!restartGrafana, Hub!Goto, Hub!Steps, Hub!memory
<1>8. CASE Hub!GenerateObservatoriumCR
  <2>1. uid' \in Nat /\ issued' \in Nat
    BY <1>8 DEF Hub!GenerateObservatoriumCR
  <2>2. obs' \in Hub!ObsType /\ shardsWere' \in Nat
    BY <1>8, <2>1, ObsIsTyped DEF Hub!GenerateObservatoriumCR
  <2>3. QED
    BY <1>8, <2>1, <2>2 DEF Hub!GenerateObservatoriumCR, Hub!Goto, Hub!Steps
<1>9. ASSUME NEW what, Hub!Edit(what)
      PROVE  /\ edited' \in BOOLEAN /\ hubReq' \in BOOLEAN /\ hubEdits' \in 0..MaxHubEdits
             /\ UNCHANGED <<snapSpec, oauthClient, legacy, uid, issued, legacyGone, shardsWere,
                            hubStep, undone, hubFailures>>
  BY <1>9, HubAssumption DEF Hub!Edit, Hub!Wakes, Hub!memory
<1>10. CASE \/ \E s \in HubSpecs : Hub!ChangeSpec(s)
            \/ Hub!ChangeApiConfig
            \/ \E c \in {"none", "valid", "invalid"} : Hub!ProvideCertificate(c)
            \/ \E l \in {"none", "false"} : Hub!EditLabel(l)
  <2>1. ASSUME NEW s \in HubSpecs, Hub!ChangeSpec(s) PROVE Hub!HubTypeOK'
    <3>1. /\ Hub!Edit("mco") /\ asked' \in HubSpecs
          /\ UNCHANGED <<apiConfig, byo, nsLabel, hubRoutes, eps, obs, ds, stores, pods>>
      BY <2>1 DEF Hub!ChangeSpec
    <3>2. QED
      BY <1>9, <3>1
  <2>2. CASE Hub!ChangeApiConfig
    <3>1. /\ Hub!Edit("apiConfig") /\ apiConfig' \in {0, 1}
          /\ UNCHANGED <<asked, byo, nsLabel, hubRoutes, eps, obs, ds, stores, pods>>
      BY <2>2 DEF Hub!ChangeApiConfig
    <3>2. QED
      BY <1>9, <3>1
  <2>3. ASSUME NEW c \in {"none", "valid", "invalid"}, Hub!ProvideCertificate(c)
        PROVE  Hub!HubTypeOK'
    <3>1. /\ Hub!Edit("certificate") /\ byo' \in {"none", "valid", "invalid"}
          /\ UNCHANGED <<asked, apiConfig, nsLabel, hubRoutes, eps, obs, ds, stores, pods>>
      BY <2>3 DEF Hub!ProvideCertificate
    <3>2. QED
      BY <1>9, <3>1
  <2>4. ASSUME NEW l \in {"none", "false"}, Hub!EditLabel(l) PROVE Hub!HubTypeOK'
    <3>1. /\ Hub!Edit("namespace") /\ nsLabel' \in {"none", "true", "false"}
          /\ UNCHANGED <<asked, apiConfig, byo, hubRoutes, eps, obs, ds, stores, pods>>
      BY <2>4 DEF Hub!EditLabel
    <3>2. QED
      BY <1>9, <3>1
  <2>5. QED
    BY <1>10, <2>1, <2>2, <2>3, <2>4
<1>11. ASSUME NEW r \in Hub!Routes, NEW t \in {"absent", "missing", "wrong", "elsewhere"},
              Hub!EditRoute(r, t)
       PROVE  Hub!HubTypeOK'
  <2>1. /\ [hubRoutes[r] EXCEPT !.to = FALSE] \in Hub!RouteType
        /\ t # "elsewhere" => [hubRoutes[r] EXCEPT !.tls = t] \in Hub!RouteType
        /\ Hub!NoRoute \in Hub!RouteType
    BY DEF Hub!RouteType, Hub!NoRoute
  <2>2. hubRoutes' \in [Hub!Routes -> Hub!RouteType]
    BY <1>11, <2>1 DEF Hub!EditRoute
  <2>3. /\ Hub!Edit("route")
        /\ UNCHANGED <<asked, apiConfig, byo, nsLabel, eps, obs, ds, stores, pods>>
    BY <1>11 DEF Hub!EditRoute
  <2>4. QED
    BY <1>9, <2>2, <2>3
<1>12. ASSUME NEW o \in {"observatorium", "datasource", "endpoints"}, Hub!DeleteObject(o)
       PROVE  Hub!HubTypeOK'
  <2>1. obs' \in Hub!ObsType /\ stores' \subseteq Nat /\ pods' \in [{"api", "grafana"} -> Hub!PodType]
    BY <1>12, PodsAreTyped DEF Hub!DeleteObject, Hub!ObsType
  <2>2. QED
    BY <1>9, <1>12, <2>1 DEF Hub!DeleteObject
<1>13. CASE Hub!HubPods
  <2>1. UNCHANGED <<Hub!Aside, hubReq, undone>>
    BY <1>13 DEF Hub!HubPods, Hub!StartPod, Hub!GetReady, Hub!DeployStores
  <2>2. ASSUME NEW p \in {"api", "grafana"}, Hub!StartPod(p) \/ Hub!GetReady(p)
        PROVE  pods' \in [{"api", "grafana"} -> Hub!PodType] /\ stores' \subseteq Nat
    <3>1. /\ stores' = stores
          /\ \/ \E c \in Hub!Contents : pods' = [pods EXCEPT ![p].content = c]
             \/ pods' = [pods EXCEPT ![p].ready = TRUE]
      BY <2>2 DEF Hub!StartPod, Hub!GetReady
    <3>2. pods \in [{"api", "grafana"} -> Hub!PodType]
      OBVIOUS
    <3>3. ASSUME NEW c \in Hub!Contents
          PROVE  /\ [pods EXCEPT ![p].content = c] \in [{"api", "grafana"} -> Hub!PodType]
                 /\ [pods EXCEPT ![p].ready = TRUE] \in [{"api", "grafana"} -> Hub!PodType]
      BY <3>2, PodsAreTyped
    <3>4. "none" \in Hub!Contents
      OBVIOUS
    <3>5. QED
      BY <3>1, <3>3, <3>4
  <2>3. ASSUME Hub!DeployStores
        PROVE  pods' \in [{"api", "grafana"} -> Hub!PodType] /\ stores' \subseteq Nat
    <3>1. obs.there /\ stores' = stores \cup 0..(obs.shards - 1) /\ pods' = pods
      BY <2>3 DEF Hub!DeployStores
    <3>2. obs.shards \in Nat
      BY <3>1, ObsIsTyped
    <3>3. 0..(obs.shards - 1) \subseteq Nat
      BY <3>2
    <3>4. QED
      BY <3>1, <3>3
  <2>4. pods' \in [{"api", "grafana"} -> Hub!PodType] /\ stores' \subseteq Nat
    BY <1>13, <2>2, <2>3 DEF Hub!HubPods, Hub!DeployStores
  <2>5. QED
    BY <2>1, <2>4 DEF Hub!Aside, Hub!memory
<1>14. CASE Hub!HubCallFails \/ Hub!OauthCallFails \/ Hub!RestartHub
  <2>1. hubFailures' \in 0..MaxHubFailures
    BY <1>14, HubAssumption
       DEF Hub!HubCallFails, Hub!OauthCallFails, Hub!RestartHub, Hub!HubFault
  <2>2. Hub!Undone \subseteq {"api", "grafana", "stores"}
    BY DEF Hub!Undone
  <2>3. CASE Hub!HubCallFails
    BY <2>1, <2>2, <2>3 DEF Hub!HubCallFails, Hub!Steps, Hub!world, Hub!memory
  <2>4. CASE Hub!OauthCallFails
    BY <2>1, <2>4 DEF Hub!OauthCallFails, Hub!Steps, Hub!memory
  <2>5. CASE Hub!RestartHub
    BY <2>1, <2>2, <2>5 DEF Hub!RestartHub, Hub!Steps, Hub!world
  <2>6. QED
    BY <1>14, <2>3, <2>4, <2>5
<1>15. QED
  BY <1>1, <1>2, <1>3, <1>4, <1>5, <1>7, <1>8, <1>10, <1>11, <1>12, <1>13, <1>14
     DEF Hub!HubNext, Hub!HubStep, Hub!HubUser

-----------------------------------------------------------------------------
(***************************************************************************)
(* The rest of the hub's operands: what a Reconcile repairs                *)
(***************************************************************************)
RouteDone(r) ==
    /\ hubRoutes[r].tls \in {Hub!MadeRoute(r).tls} \cup
                            (IF r = "observatorium-api" THEN {"missing"} ELSE {})
    /\ r \in {"grafana", "observatorium-api"} => hubRoutes[r].to
    /\ r = "grafana" => hubRoutes[r].timeout = snapSpec.timeout

\* The steps before a route, and those up to the last
BeforeLabel == {"idle", "label"}
BeforeRoute == [r \in Hub!Routes |->
    BeforeLabel \cup {"alertmanager"} \cup
    CASE r = "alertmanager" -> {}
      [] r = "observatorium-api" -> {"observatorium-api"}
      [] r = "rbac-query-proxy" -> {"observatorium-api", "rbac-query-proxy"}
      [] r = "grafana" -> {"observatorium-api", "rbac-query-proxy", "grafana"}]
BeforeOauth == BeforeRoute["grafana"] \cup {"oauth"}
BeforeEndpoints == BeforeOauth \cup {"endpoints"}
BeforeObservatorium == BeforeEndpoints \cup {"restartApi", "observatorium"}

\* Where a Reconcile has come to while users left everything alone
Progress ==
    /\ hubStep \notin BeforeLabel => nsLabel # "none"
    /\ \A r \in Hub!Routes : hubStep \notin BeforeRoute[r] => RouteDone(r)
    /\ hubStep \notin BeforeOauth => "oauth" \in undone \/ oauthClient = "host"
    /\ hubStep \notin BeforeEndpoints => snapSpec.endpoints \in {"none", eps}
    /\ hubStep \notin BeforeObservatorium => Hub!ObsRight(snapSpec)
    /\ hubStep \in {"restartGrafana", "legacy"} => ds = snapSpec.timeout
    /\ hubStep = "legacy" => "grafana" \in undone \/ pods["grafana"].content \in {"none", ds}

\* What is true of the cluster however a Reconcile ended: a second write that was
\* due is due now, or in undone
Behind(p, content) ==
    \/ p \in undone
    \/ pods[p].content \in {"none", content} \/ content = "none"

StoresBehind ==
    \/ "stores" \in undone
    \/ \A n \in stores : obs.there /\ (n < obs.shards \/ (hubStep = "stores" /\ n < shardsWere))

Remembered ==
    /\ oauthClient = "empty" => "oauth" \in undone
    /\ legacyGone => ~legacy
    /\ ~obs.there => pods["api"].content = "none"
    /\ hubStep # "restartApi" => Behind("api", eps)
    /\ hubStep # "restartGrafana" => Behind("grafana", ds)
    /\ StoresBehind
    /\ hubStep = "stores" /\ obs.there => obs.shards = snapSpec.shards

RepairInv == Remembered /\ (~edited => Progress)

LEMMA BeforeSteps ==
    /\ BeforeRoute["alertmanager"] = {"idle", "label", "alertmanager"}
    /\ BeforeRoute["observatorium-api"] = {"idle", "label", "alertmanager", "observatorium-api"}
    /\ BeforeRoute["rbac-query-proxy"] =
         {"idle", "label", "alertmanager", "observatorium-api", "rbac-query-proxy"}
    /\ BeforeRoute["grafana"] =
         {"idle", "label", "alertmanager", "observatorium-api", "rbac-query-proxy", "grafana"}
  BY DEF BeforeRoute, BeforeLabel, Hub!Routes

\* A Reconcile that has ended has nothing to show.
LEMMA NoProgress == hubStep \in {"idle", "label"} => Progress
  BY BeforeSteps DEF Progress, BeforeLabel, BeforeRoute, BeforeOauth, BeforeEndpoints,
     BeforeObservatorium, Hub!Routes

LEMMA RepairBegins == Hub!HubInit => RepairInv
<1> SUFFICES ASSUME Hub!HubInit PROVE RepairInv
  OBVIOUS
<1>1. pods["api"].content = "none" /\ pods["grafana"].content = "none"
  BY DEF Hub!HubInit, Hub!NoPod
<1>2. QED
  BY <1>1, NoProgress DEF Hub!HubInit, RepairInv, Remembered, Behind, StoresBehind, Hub!NoObs

LEMMA ObservatoriumRight ==
    ASSUME Hub!HubTypeOK, Hub!GenerateObservatoriumCR
    PROVE  (Hub!ObsRight(snapSpec))'
<1>1. snapSpec' = snapSpec /\ apiConfig' = apiConfig
  BY DEF Hub!GenerateObservatoriumCR
<1> DEFINE Made == Hub!newObservatorium(uid')
<1>2. /\ Made.there /\ Made.hash = apiConfig /\ Made.size = snapSpec.size
      /\ Made.shards = snapSpec.shards /\ Made.endpoints = snapSpec.endpoints
  BY DEF Hub!newObservatorium
<1>3. LET new == Hub!updateTenantID(Made, obs) IN
      /\ new.there /\ new.hash = apiConfig /\ new.size = snapSpec.size
      /\ new.shards = snapSpec.shards /\ new.endpoints = snapSpec.endpoints
  BY DEF Hub!newObservatorium, Hub!updateTenantID
<1>4. \/ obs' = Made
      \/ obs' = Hub!updateTenantID(Made, obs)
  BY DEF Hub!GenerateObservatoriumCR, Hub!Outdated
<1>5. QED
  BY <1>1, <1>2, <1>3, <1>4 DEF Hub!ObsRight

\* A pod is restarted with what its secret holds, or that is still to be done.
LEMMA LabelRestarts ==
    ASSUME Hub!HubTypeOK, NEW p \in {"api", "grafana"}, NEW c, Hub!UpdateDeployLabel(p, c)
    PROVE  /\ p \in undone' \/ pods'[p].content \in {"none", c}
           /\ undone \ {p} \subseteq undone' /\ undone' \subseteq undone \cup {p}
           /\ \A q \in {"api", "grafana"} \ {p} : pods'[q] = pods[q]
<1>1. pods \in [{"api", "grafana"} -> Hub!PodType] /\ pods[p] \in Hub!PodType
  BY DEF Hub!HubTypeOK
<1>2. CASE pods[p].ready
  <2>1. pods' = [pods EXCEPT ![p].content = c] /\ undone' = undone \ {p}
    BY <1>2 DEF Hub!UpdateDeployLabel
  <2>2. pods'[p].content = c
    BY <1>1, <2>1 DEF Hub!PodType
  <2>3. QED
    BY <1>1, <2>1, <2>2
<1>3. CASE ~pods[p].ready
  BY <1>3 DEF Hub!UpdateDeployLabel
<1>4. QED
  BY <1>2, <1>3

\* A pod that starts has what its secret holds.
LEMMA PodsStart ==
    ASSUME Hub!HubTypeOK, Hub!HubPods
    PROVE  /\ pods'["grafana"].content \in {pods["grafana"].content, ds}
           /\ pods'["api"].content \in {pods["api"].content, eps}
           /\ ~obs.there => pods'["api"].content = pods["api"].content
<1>1. /\ pods \in [{"api", "grafana"} -> Hub!PodType]
      /\ \A q \in {"api", "grafana"} : pods[q] \in Hub!PodType
  BY DEF Hub!HubTypeOK
<1>2. ASSUME NEW p \in {"api", "grafana"}, Hub!StartPod(p)
      PROVE  /\ p = "api" => obs.there
             /\ pods' = [pods EXCEPT ![p].content = IF p = "api" THEN eps ELSE ds]
  BY <1>2 DEF Hub!StartPod
<1>3. ASSUME NEW p \in {"api", "grafana"}, NEW c
      PROVE  /\ [pods EXCEPT ![p].content = c][p].content = c
             /\ [pods EXCEPT ![p].ready = TRUE][p].content = pods[p].content
             /\ \A q \in {"api", "grafana"} \ {p} :
                  /\ [pods EXCEPT ![p].content = c][q] = pods[q]
                  /\ [pods EXCEPT ![p].ready = TRUE][q] = pods[q]
  BY <1>1 DEF Hub!PodType
<1>4. CASE Hub!StartPod("api")
  <2>1. obs.there /\ pods' = [pods EXCEPT !["api"].content = eps]
    BY <1>2, <1>4
  <2>2. pods'["api"].content = eps /\ pods'["grafana"] = pods["grafana"]
    BY <1>1, <2>1 DEF Hub!PodType
  <2>3. QED
    BY <2>1, <2>2
<1>5. CASE Hub!StartPod("grafana")
  <2>1. pods' = [pods EXCEPT !["grafana"].content = ds]
    BY <1>2, <1>5
  <2>2. pods'["grafana"].content = ds /\ pods'["api"] = pods["api"]
    BY <1>1, <2>1 DEF Hub!PodType
  <2>3. QED
    BY <2>2
<1>6. ASSUME NEW p \in {"api", "grafana"}, Hub!GetReady(p)
      PROVE  \A q \in {"api", "grafana"} : pods'[q].content = pods[q].content
  <2>1. pods' = [pods EXCEPT ![p].ready = TRUE]
    BY <1>6 DEF Hub!GetReady
  <2>2. QED
    BY <1>3, <2>1
<1>7. CASE Hub!DeployStores
  BY <1>7 DEF Hub!DeployStores
<1>8. QED
  BY <1>4, <1>5, <1>6, <1>7 DEF Hub!HubPods

LEMMA RoutesStay ==
    ASSUME UNCHANGED <<hubRoutes, byo, snapSpec>>, NEW r \in Hub!Routes
    PROVE  RouteDone(r)' = RouteDone(r)
  BY DEF RouteDone, Hub!MadeRoute

LEMMA RouteGetsDone ==
    ASSUME Hub!HubTypeOK, NEW r \in Hub!Routes, Hub!GenerateRoute(r)
    PROVE  /\ RouteDone(r)'
           /\ \A q \in Hub!Routes \ {r} : RouteDone(q)' = RouteDone(q)
<1>1. /\ hubRoutes' = [hubRoutes EXCEPT ![r] =
            CASE r = "alertmanager" -> Hub!GenerateAlertmanagerRoute(@)
              [] r = "observatorium-api" -> Hub!GenerateAPIGatewayRoute(@)
              [] r = "rbac-query-proxy" -> Hub!GenerateProxyRoute(@)
              [] r = "grafana" -> Hub!GenerateGrafanaRoute(@)]
      /\ snapSpec' = snapSpec /\ byo' = byo
  BY DEF Hub!GenerateRoute
<1>2. hubRoutes \in [Hub!Routes -> Hub!RouteType] /\ hubRoutes[r] \in Hub!RouteType
  BY DEF Hub!HubTypeOK
<1>3. \A q \in Hub!Routes \ {r} : RouteDone(q)' = RouteDone(q)
  BY <1>1, <1>2 DEF RouteDone, Hub!MadeRoute
<1>4. /\ Hub!MadeRoute(r)' = Hub!MadeRoute(r)
      /\ Hub!MadeRoute(r).to
      /\ r = "grafana" => Hub!MadeRoute(r).timeout = snapSpec.timeout
  BY <1>1 DEF Hub!MadeRoute
<1>5. CASE r = "alertmanager"
  <2>1. hubRoutes'[r] = Hub!GenerateAlertmanagerRoute(hubRoutes[r])
    BY <1>1, <1>2, <1>5
  <2>2. hubRoutes'[r].tls = Hub!MadeRoute(r).tls
    BY <1>5, <2>1 DEF Hub!GenerateAlertmanagerRoute
  <2>3. QED
    BY <1>3, <1>4, <1>5, <2>2 DEF RouteDone
<1>6. CASE r = "rbac-query-proxy"
  <2>1. hubRoutes'[r] = Hub!GenerateProxyRoute(hubRoutes[r])
    BY <1>1, <1>2, <1>6
  <2>2. hubRoutes'[r].tls = Hub!MadeRoute(r).tls
    BY <1>6, <2>1 DEF Hub!GenerateProxyRoute
  <2>3. QED
    BY <1>3, <1>4, <1>6, <2>2 DEF RouteDone
<1>7. CASE r = "observatorium-api"
  <2>1. hubRoutes'[r] = Hub!GenerateAPIGatewayRoute(hubRoutes[r])
    BY <1>1, <1>2, <1>7
  <2>2. Hub!MadeRoute(r).tls = "right"
    BY <1>7 DEF Hub!MadeRoute
  <2>3. hubRoutes'[r].tls \in {"right", "missing"} /\ hubRoutes'[r].to
    BY <1>2, <1>4, <1>7, <2>1, <2>2 DEF Hub!GenerateAPIGatewayRoute, Hub!RouteType
  <2>4. QED
    BY <1>3, <1>4, <1>7, <2>2, <2>3 DEF RouteDone
<1>8. CASE r = "grafana"
  <2>1. hubRoutes'[r] = Hub!MadeRoute(r)
    BY <1>1, <1>2, <1>8 DEF Hub!GenerateGrafanaRoute
  <2>2. QED
    BY <1>1, <1>3, <1>4, <1>8, <2>1 DEF RouteDone
<1>9. QED
  BY <1>5, <1>6, <1>7, <1>8 DEF Hub!Routes

\* Every step of a Reconcile leaves alone what the earlier ones have put right.
LEMMA ProgressStays ==
    ASSUME Hub!HubTypeOK, Remembered, ~edited => Progress, Hub!HubNext, ~edited'
    PROVE  Progress'
<1> USE BeforeSteps DEF BeforeLabel, BeforeOauth, BeforeEndpoints, BeforeObservatorium,
     Hub!Routes
<1>1. CASE hubStep' \in {"idle", "label"}
  BY <1>1 DEF Progress
<1>2. ASSUME NEW r \in Hub!Routes, Hub!GenerateRoute(r)
      PROVE  Progress'
  <2>1. /\ ~edited /\ hubStep = r /\ hubStep' = Hub!NextStep[r]
        /\ nsLabel' = nsLabel
    BY <1>2 DEF Hub!GenerateRoute, Hub!Goto
  <2>2. /\ r = "alertmanager" => hubStep' = "observatorium-api"
        /\ r = "observatorium-api" => hubStep' = "rbac-query-proxy"
        /\ r = "rbac-query-proxy" => hubStep' = "grafana"
        /\ r = "grafana" => hubStep' = "oauth"
    BY <2>1 DEF Hub!NextStep
  <2>3. QED
    BY <1>2, <2>1, <2>2, RouteGetsDone DEF Progress
<1>3. CASE Hub!ensureOpenShiftNamespaceLabel
  <2>1. hubStep' = "alertmanager" /\ nsLabel' # "none"
    BY <1>3 DEF Hub!ensureOpenShiftNamespaceLabel, Hub!Goto
  <2>2. QED
    BY <2>1 DEF Progress
<1> DEFINE Past == UNCHANGED <<hubRoutes, byo, snapSpec, nsLabel, edited>>
<1>4. CASE Hub!GenerateGrafanaOauthClient \/ Hub!OauthCallFails
  <2>1. /\ Past /\ hubStep = "oauth" /\ hubStep' = "endpoints"
        /\ "oauth" \in undone' \/ oauthClient' = "host"
    BY <1>4 DEF Hub!GenerateGrafanaOauthClient, Hub!OauthCallFails, Hub!Goto, Remembered,
       Hub!HubTypeOK
  <2>2. QED
    BY <2>1, RoutesStay DEF Progress
<1>5. CASE Hub!applyEndpointsSecret
  <2>1. /\ Past /\ hubStep = "endpoints" /\ hubStep' \in {"restartApi", "observatorium"}
        /\ oauthClient' = oauthClient
        /\ snapSpec.endpoints \in {"none", eps'}
    BY <1>5 DEF Hub!applyEndpointsSecret, Hub!Goto
  <2>2. "oauth" \in undone => "oauth" \in undone'
    BY <1>5 DEF Hub!applyEndpointsSecret, Hub!Created
  <2>3. QED
    BY <2>1, <2>2, RoutesStay DEF Progress
<1>6. CASE Hub!restartApi /\ hubStep' # "idle"
  <2>1. /\ Past /\ hubStep = "restartApi" /\ hubStep' = "observatorium"
        /\ UNCHANGED <<oauthClient, eps>>
    BY <1>6 DEF Hub!restartApi, Hub!Goto
  <2>2. "oauth" \in undone => "oauth" \in undone'
    BY <1>6 DEF Hub!restartApi, Hub!UpdateDeployLabel
  <2>3. QED
    BY <2>1, <2>2, RoutesStay DEF Progress
<1>7. CASE Hub!GenerateObservatoriumCR
  <2>1. /\ Past /\ hubStep = "observatorium" /\ hubStep' \in {"stores", "datasource"}
        /\ UNCHANGED <<oauthClient, eps, undone, apiConfig>>
    BY <1>7 DEF Hub!GenerateObservatoriumCR, Hub!Goto
  <2>2. (Hub!ObsRight(snapSpec))'
    BY <1>7, <2>1, ObservatoriumRight
  <2>3. QED
    BY <2>1, <2>2, RoutesStay DEF Progress
<1>8. CASE Hub!deleteStoreSts
  <2>1. /\ Past /\ hubStep = "stores" /\ hubStep' = "datasource"
        /\ UNCHANGED <<oauthClient, eps, undone, apiConfig, obs>>
    BY <1>8 DEF Hub!deleteStoreSts, Hub!Goto
  <2>2. QED
    BY <2>1, RoutesStay DEF Progress, Hub!ObsRight
<1>9. CASE Hub!GenerateGrafanaDataSource
  <2>1. /\ Past /\ hubStep = "datasource" /\ hubStep' \in {"restartGrafana", "legacy"}
        /\ UNCHANGED <<oauthClient, eps, apiConfig, obs>>
        /\ ds' = snapSpec.timeout
    BY <1>9 DEF Hub!GenerateGrafanaDataSource, Hub!Goto
  <2>2. "oauth" \in undone => "oauth" \in undone'
    BY <1>9 DEF Hub!GenerateGrafanaDataSource, Hub!Created
  <2>3. hubStep' = "legacy" => "grafana" \in undone' \/ pods'["grafana"].content \in {"none", ds'}
    BY <1>9 DEF Hub!GenerateGrafanaDataSource, Hub!Goto, Hub!Created, Remembered, Behind
  <2>4. QED
    BY <2>1, <2>2, <2>3, RoutesStay DEF Progress, Hub!ObsRight
<1>10. CASE Hub!restartGrafana
  <2>1. /\ Past /\ hubStep = "restartGrafana" /\ hubStep' = "legacy"
        /\ UNCHANGED <<oauthClient, eps, apiConfig, obs, ds>>
    BY <1>10 DEF Hub!restartGrafana, Hub!Goto
  <2>2. /\ "oauth" \in undone => "oauth" \in undone'
        /\ "grafana" \in undone' \/ pods'["grafana"].content \in {"none", ds}
    BY <1>10, LabelRestarts DEF Hub!restartGrafana
  <2>3. QED
    BY <2>1, <2>2, RoutesStay DEF Progress, Hub!ObsRight
<1>11. CASE Hub!HubPods
  <2>1. /\ Past /\ UNCHANGED <<oauthClient, eps, apiConfig, obs, ds, undone, hubStep>>
    BY <1>11 DEF Hub!HubPods, Hub!StartPod, Hub!GetReady, Hub!DeployStores, Hub!Aside
  <2>2. pods'["grafana"].content \in {pods["grafana"].content, ds}
    BY <1>11, PodsStart
  <2>3. QED
    BY <2>1, <2>2, RoutesStay DEF Progress, Hub!ObsRight
<1>12. CASE \/ Hub!StartReconcile \/ Hub!RejectCertificate \/ Hub!deleteLegacy
            \/ Hub!HubCallFails \/ Hub!RestartHub
  <2>1. hubStep' \in {"idle", "label"}
    BY <1>12 DEF Hub!StartReconcile, Hub!RejectCertificate, Hub!deleteLegacy,
       Hub!HubCallFails, Hub!RestartHub, Hub!Goto
  <2>2. QED
    BY <1>1, <2>1
<1>13. ~Hub!HubUser
  BY DEF Hub!HubUser, Hub!ChangeSpec, Hub!ChangeApiConfig, Hub!ProvideCertificate,
     Hub!EditLabel, Hub!EditRoute, Hub!DeleteObject, Hub!Edit
<1>14. QED
  BY <1>1, <1>2, <1>3, <1>4, <1>5, <1>6, <1>7, <1>8, <1>9, <1>10, <1>11, <1>12, <1>13
     DEF Hub!HubNext, Hub!HubStep

-----------------------------------------------------------------------------
LEMMA DeploymentsCatchUp ==
    ASSUME Hub!HubTypeOK, Remembered, Hub!restartApi \/ Hub!restartGrafana
    PROVE  Remembered'
<1>1. CASE Hub!restartApi /\ obs.there
  <2>1. /\ Hub!UpdateDeployLabel("api", eps) /\ hubStep' = "observatorium"
        /\ hubStep = "restartApi"
        /\ UNCHANGED <<oauthClient, legacyGone, legacy, obs, eps, ds, stores, shardsWere>>
    BY <1>1 DEF Hub!restartApi, Hub!Goto, Hub!memory
  <2>2. /\ "api" \in undone' \/ pods'["api"].content \in {"none", eps}
        /\ undone \ {"api"} \subseteq undone'
        /\ pods'["grafana"] = pods["grafana"]
    BY <2>1, LabelRestarts
  <2>3. QED
    BY <1>1, <2>1, <2>2 DEF Remembered, Behind, StoresBehind
<1>2. CASE Hub!restartApi /\ ~obs.there
  <2>1. /\ hubStep' = "idle" /\ hubStep = "restartApi"
        /\ UNCHANGED <<oauthClient, legacyGone, legacy, obs, eps, ds, stores, shardsWere, pods, undone>>
    BY <1>2 DEF Hub!restartApi, Hub!Goto, Hub!memory
  <2>2. QED
    BY <1>2, <2>1 DEF Remembered, Behind, StoresBehind
<1>3. CASE Hub!restartGrafana
  <2>1. /\ Hub!UpdateDeployLabel("grafana", ds) /\ hubStep' = "legacy"
        /\ hubStep = "restartGrafana"
        /\ UNCHANGED <<oauthClient, legacyGone, legacy, obs, eps, ds, stores, shardsWere>>
    BY <1>3 DEF Hub!restartGrafana, Hub!Goto, Hub!memory
  <2>2. /\ "grafana" \in undone' \/ pods'["grafana"].content \in {"none", ds}
        /\ undone \ {"grafana"} \subseteq undone'
        /\ pods'["api"] = pods["api"]
    BY <2>1, LabelRestarts
  <2>3. QED
    BY <2>1, <2>2 DEF Remembered, Behind, StoresBehind
<1>4. QED
  BY <1>1, <1>2, <1>3

\* A new number of shards is followed by the deletion of those beyond it.
LEMMA StoresCatchUp ==
    ASSUME Hub!HubTypeOK, Remembered, Hub!GenerateObservatoriumCR \/ Hub!deleteStoreSts
    PROVE  Remembered'
<1>1. CASE Hub!GenerateObservatoriumCR
  <2>1. /\ hubStep = "observatorium" /\ hubStep' \in {"stores", "datasource"}
        /\ UNCHANGED <<oauthClient, legacyGone, legacy, eps, ds, stores, pods, undone, snapSpec>>
    BY <1>1 DEF Hub!GenerateObservatoriumCR, Hub!Goto
  <2>2. obs'.there /\ obs'.shards = snapSpec.shards
    BY <1>1, <2>1, ObservatoriumRight DEF Hub!ObsRight
  <2>3. \/ ~obs.there
        \/ hubStep' = "stores" /\ shardsWere' = obs.shards
        \/ obs' = obs
    BY <1>1 DEF Hub!GenerateObservatoriumCR, Hub!Goto
  <2>4. StoresBehind'
    BY <2>1, <2>2, <2>3 DEF Remembered, StoresBehind
  <2>5. QED
    BY <2>1, <2>2, <2>4 DEF Remembered, Behind
<1>2. CASE Hub!deleteStoreSts
  <2>1. /\ hubStep = "stores" /\ hubStep' = "datasource"
        /\ stores' = stores \ (snapSpec.shards)..(shardsWere - 1)
        /\ UNCHANGED <<oauthClient, legacyGone, legacy, obs, eps, ds, pods, undone, snapSpec,
                       shardsWere>>
    BY <1>2 DEF Hub!deleteStoreSts, Hub!Goto, Hub!memory
  <2>2. stores \subseteq Nat /\ shardsWere \in Nat /\ snapSpec.shards \in Nat
    BY HubAssumption DEF Hub!HubTypeOK
  <2>3. ASSUME NEW n \in stores', "stores" \notin undone
        PROVE  obs.there /\ n < obs.shards
    <3>1. /\ n \in Nat /\ n \in stores /\ n \notin (snapSpec.shards)..(shardsWere - 1)
      BY <2>1, <2>2, <2>3
    <3>2. obs.there /\ (n < obs.shards \/ n < shardsWere)
      BY <2>1, <2>3, <3>1 DEF Remembered, StoresBehind
    <3>3. obs.shards = snapSpec.shards
      BY <2>1, <3>2 DEF Remembered
    <3>4. QED
      BY <2>2, <3>1, <3>2, <3>3
  <2>4. StoresBehind'
    BY <2>1, <2>3 DEF StoresBehind
  <2>5. QED
    BY <2>1, <2>4 DEF Remembered, Behind
<1>3. QED
  BY <1>1, <1>2

\* A Reconcile that breaks off, or is killed, leaves its second write undone.
LEMMA FaultsAreRemembered ==
    ASSUME Hub!HubTypeOK, Remembered,
           Hub!HubCallFails \/ Hub!OauthCallFails \/ Hub!RestartHub
    PROVE  Remembered'
<1>1. CASE Hub!OauthCallFails
  <2>1. /\ hubStep = "oauth" /\ hubStep' = "endpoints"
        /\ UNCHANGED <<legacyGone, legacy, obs, eps, ds, stores, pods, snapSpec, shardsWere>>
        /\ undone \subseteq undone'
        /\ oauthClient' = "empty" => "oauth" \in undone'
    BY <1>1 DEF Hub!OauthCallFails, Hub!memory, Hub!HubTypeOK
  <2>2. QED
    BY <2>1 DEF Remembered, Behind, StoresBehind
<1>2. CASE Hub!HubCallFails \/ Hub!RestartHub
  <2>1. /\ hubStep' = "idle"
        /\ UNCHANGED <<oauthClient, legacy, obs, eps, ds, stores, pods, snapSpec>>
        /\ undone' = undone \cup Hub!Undone
        /\ legacyGone' => legacyGone
    BY <1>2 DEF Hub!HubCallFails, Hub!RestartHub, Hub!world, Hub!memory
  <2>2. /\ hubStep = "restartApi" => "api" \in Hub!Undone \/ pods["api"].content \in {"none", eps}
        /\ hubStep = "restartGrafana" =>
              "grafana" \in Hub!Undone \/ pods["grafana"].content \in {"none", ds}
        /\ hubStep = "stores" => "stores" \in Hub!Undone
    BY DEF Hub!Undone
  <2>3. Behind("api", eps)' /\ Behind("grafana", ds)'
    BY <2>1, <2>2 DEF Remembered, Behind
  <2>4. StoresBehind'
    BY <2>1, <2>2 DEF Remembered, StoresBehind
  <2>5. QED
    BY <2>1, <2>3, <2>4 DEF Remembered
<1>3. QED
  BY <1>1, <1>2

LEMMA EditsAreRemembered ==
    ASSUME Hub!HubTypeOK, Remembered, Hub!HubUser
    PROVE  Remembered'
<1>1. ASSUME NEW what, Hub!Edit(what)
      PROVE  UNCHANGED <<snapSpec, oauthClient, legacy, legacyGone, shardsWere, hubStep, undone>>
  BY <1>1 DEF Hub!Edit, Hub!memory
<1>2. ASSUME UNCHANGED <<snapSpec, oauthClient, legacy, legacyGone, shardsWere, hubStep, undone>>,
             UNCHANGED <<eps, obs, ds, stores, pods>>
      PROVE  Remembered'
  BY <1>2 DEF Remembered, Behind, StoresBehind
<1>3. ASSUME NEW o \in {"observatorium", "datasource", "endpoints"}, Hub!DeleteObject(o)
      PROVE  Remembered'
  <2>1. UNCHANGED <<snapSpec, oauthClient, legacy, legacyGone, shardsWere, hubStep, undone>>
    BY <1>1, <1>3 DEF Hub!DeleteObject
  <2>2. eps' \in {"none", eps} /\ ds' \in {"none", ds}
    BY <1>3 DEF Hub!DeleteObject
  <2>3. CASE o = "observatorium"
    <3>1. /\ ~obs'.there /\ stores' = {}
          /\ pods' = [pods EXCEPT !["api"] = Hub!NoPod]
      BY <1>3, <2>3 DEF Hub!DeleteObject, Hub!NoObs
    <3>2. pods \in [{"api", "grafana"} -> Hub!PodType]
      BY DEF Hub!HubTypeOK
    <3>3. pods'["api"].content = "none" /\ pods'["grafana"] = pods["grafana"]
      BY <3>1, <3>2 DEF Hub!NoPod
    <3>4. Behind("api", eps)'
      BY <3>3 DEF Behind
    <3>5. hubStep # "restartGrafana" => Behind("grafana", ds)'
      BY <2>1, <2>2, <3>3 DEF Remembered, Behind
    <3>6. QED
      BY <2>1, <3>1, <3>3, <3>4, <3>5 DEF Remembered, StoresBehind
  <2>4. CASE o # "observatorium"
    <3>1. UNCHANGED <<obs, stores, pods>>
      BY <1>3, <2>4 DEF Hub!DeleteObject
    <3>2. /\ hubStep # "restartApi" => Behind("api", eps)'
          /\ hubStep # "restartGrafana" => Behind("grafana", ds)'
      BY <2>1, <2>2, <3>1 DEF Remembered, Behind
    <3>3. QED
      BY <2>1, <3>1, <3>2 DEF Remembered, StoresBehind
  <2>5. QED
    BY <2>3, <2>4
<1>4. QED
  BY <1>1, <1>2, <1>3 DEF Hub!HubUser, Hub!ChangeSpec, Hub!ChangeApiConfig,
     Hub!ProvideCertificate, Hub!EditLabel, Hub!EditRoute

LEMMA PodsAreRemembered ==
    ASSUME Hub!HubTypeOK, Remembered, Hub!HubPods
    PROVE  Remembered'
<1>1. UNCHANGED <<snapSpec, oauthClient, legacy, legacyGone, shardsWere, hubStep, undone, eps, obs, ds>>
  BY DEF Hub!HubPods, Hub!StartPod, Hub!GetReady, Hub!DeployStores, Hub!Aside, Hub!memory
<1>2. /\ pods'["grafana"].content \in {pods["grafana"].content, ds}
      /\ pods'["api"].content \in {pods["api"].content, eps}
      /\ ~obs.there => pods'["api"].content = pods["api"].content
  BY PodsStart
<1>3. /\ hubStep # "restartApi" => Behind("api", eps)'
      /\ hubStep # "restartGrafana" => Behind("grafana", ds)'
  BY <1>1, <1>2 DEF Remembered, Behind
<1>4. stores' = stores \/ (obs.there /\ stores' = stores \cup 0..(obs.shards - 1))
  BY DEF Hub!HubPods, Hub!StartPod, Hub!GetReady, Hub!DeployStores
<1>5. obs.there => \A n \in 0..(obs.shards - 1) : n < obs.shards
  BY ObsIsTyped
<1>6. StoresBehind'
  BY <1>1, <1>4, <1>5 DEF Remembered, StoresBehind
<1>7. QED
  BY <1>1, <1>2, <1>3, <1>6 DEF Remembered

LEMMA RememberedStays ==
    ASSUME Hub!HubTypeOK, Remembered, Hub!HubNext
    PROVE  Remembered'
<1>1. CASE Hub!applyEndpointsSecret
  <2>1. /\ hubStep = "endpoints" /\ hubStep' \in {"restartApi", "observatorium"}
        /\ UNCHANGED <<snapSpec, oauthClient, legacy, legacyGone, shardsWere, obs, ds, stores, pods>>
        /\ Hub!Created("api", eps, eps')
        /\ eps' = eps \/ eps = "none" \/ hubStep' = "restartApi"
    BY <1>1 DEF Hub!applyEndpointsSecret, Hub!Goto, Hub!memory
  <2>2. /\ undone \subseteq undone'
        /\ hubStep' # "restartApi" => Behind("api", eps)'
    BY <2>1 DEF Hub!Created, Remembered, Behind
  <2>3. QED
    BY <2>1, <2>2 DEF Remembered, Behind, StoresBehind
<1>2. CASE Hub!GenerateGrafanaDataSource
  <2>1. /\ hubStep = "datasource" /\ hubStep' \in {"restartGrafana", "legacy"}
        /\ UNCHANGED <<snapSpec, oauthClient, legacy, legacyGone, shardsWere, obs, eps, stores, pods>>
        /\ Hub!Created("grafana", ds, ds')
        /\ ds' = ds \/ ds = "none" \/ hubStep' = "restartGrafana"
    BY <1>2 DEF Hub!GenerateGrafanaDataSource, Hub!Goto, Hub!memory
  <2>2. /\ undone \subseteq undone'
        /\ hubStep' # "restartGrafana" => Behind("grafana", ds)'
    BY <2>1 DEF Hub!Created, Remembered, Behind
  <2>3. QED
    BY <2>1, <2>2 DEF Remembered, Behind, StoresBehind
<1>3. CASE Hub!GenerateGrafanaOauthClient
  <2>1. /\ hubStep = "oauth" /\ hubStep' = "endpoints"
        /\ UNCHANGED <<snapSpec, legacy, legacyGone, shardsWere, obs, eps, ds, stores, pods>>
        /\ undone \ {"oauth"} \subseteq undone'
        /\ oauthClient' = "empty" => "oauth" \in undone'
    BY <1>3 DEF Hub!GenerateGrafanaOauthClient, Hub!Goto, Hub!memory, Remembered
  <2>2. QED
    BY <2>1 DEF Remembered, Behind, StoresBehind
<1>4. CASE Hub!deleteLegacy
  <2>1. /\ hubStep = "legacy" /\ hubStep' = "idle"
        /\ UNCHANGED <<snapSpec, oauthClient, shardsWere, obs, eps, ds, stores, pods, undone>>
        /\ ~legacy'
    BY <1>4 DEF Hub!deleteLegacy, Hub!Goto, Remembered
  <2>2. QED
    BY <2>1 DEF Remembered, Behind, StoresBehind
<1>5. CASE \/ Hub!StartReconcile \/ Hub!ensureOpenShiftNamespaceLabel
           \/ (\E r \in Hub!Routes : Hub!GenerateRoute(r)) \/ Hub!RejectCertificate
  <2>1. /\ hubStep \notin {"restartApi", "restartGrafana", "stores"}
        /\ hubStep' \notin {"restartApi", "restartGrafana", "stores"}
        /\ UNCHANGED <<oauthClient, legacy, legacyGone, shardsWere, obs, eps, ds, stores, pods,
                       undone>>
    BY <1>5 DEF Hub!StartReconcile, Hub!ensureOpenShiftNamespaceLabel, Hub!GenerateRoute,
       Hub!RejectCertificate, Hub!Goto, Hub!world, Hub!memory, Hub!Routes, Hub!NextStep
  <2>2. QED
    BY <2>1 DEF Remembered, Behind, StoresBehind
<1>6. QED
  BY <1>1, <1>2, <1>3, <1>4, <1>5, DeploymentsCatchUp, StoresCatchUp, FaultsAreRemembered,
     EditsAreRemembered, PodsAreRemembered DEF Hub!HubNext, Hub!HubStep

-----------------------------------------------------------------------------
\* What is true at the end of a Reconcile that nothing interrupted.
LEMMA ReconcileEndsRight ==
    ASSUME Hub!HubTypeOK, RepairInv, Hub!HubNext
    PROVE  Hub!EndsRight
<1> SUFFICES ASSUME hubStep = "legacy", hubStep' = "idle", ~edited, hubFailures' = hubFailures
             PROVE  Hub!AllRight'
  BY DEF Hub!EndsRight
<1>1. hubFailures \in Nat
  BY HubAssumption DEF Hub!HubTypeOK
<1>2. Hub!deleteLegacy
  <2>1. ~(Hub!HubCallFails \/ Hub!OauthCallFails \/ Hub!RestartHub)
    BY <1>1 DEF Hub!HubCallFails, Hub!OauthCallFails, Hub!RestartHub, Hub!HubFault
  <2>2. ~Hub!HubPods
    BY DEF Hub!HubPods, Hub!StartPod, Hub!GetReady, Hub!DeployStores, Hub!Aside
  <2>3. ~Hub!HubUser
    BY DEF Hub!HubUser, Hub!ChangeSpec, Hub!ChangeApiConfig, Hub!ProvideCertificate,
       Hub!EditLabel, Hub!EditRoute, Hub!DeleteObject, Hub!Edit
  <2>4. ASSUME NEW r \in Hub!Routes PROVE ~Hub!GenerateRoute(r)
    BY DEF Hub!GenerateRoute, Hub!Routes
  <2>5. QED
    BY <2>1, <2>2, <2>3, <2>4 DEF Hub!HubNext, Hub!HubStep, Hub!StartReconcile,
       Hub!ensureOpenShiftNamespaceLabel, Hub!RejectCertificate, Hub!GenerateGrafanaOauthClient,
       Hub!applyEndpointsSecret, Hub!restartApi, Hub!GenerateObservatoriumCR,
       Hub!deleteStoreSts, Hub!GenerateGrafanaDataSource, Hub!restartGrafana
<1>3. /\ nsLabel # "none"
      /\ \A r \in Hub!Routes : RouteDone(r)
      /\ "oauth" \in undone \/ oauthClient = "host"
      /\ snapSpec.endpoints \in {"none", eps}
      /\ Hub!ObsRight(snapSpec)
      /\ ds = snapSpec.timeout
      /\ "grafana" \in undone \/ pods["grafana"].content \in {"none", ds}
  BY BeforeSteps DEF RepairInv, Progress, BeforeLabel, BeforeOauth, BeforeEndpoints,
     BeforeObservatorium, Hub!Routes
<1>4. "stores" \in undone \/ \A n \in stores : n < obs.shards
  BY DEF RepairInv, Remembered, StoresBehind
<1>5. "api" \in undone \/ snapSpec.endpoints = "none" \/ pods["api"].content \in {"none", eps}
  BY <1>3 DEF RepairInv, Remembered, Behind
<1>6. ~legacy' /\ UNCHANGED <<nsLabel, hubRoutes, byo, snapSpec, undone, oauthClient, eps, obs, apiConfig,
                              ds, pods, stores>>
  BY <1>2 DEF Hub!deleteLegacy, Hub!Goto, RepairInv, Remembered
<1>7. "grafana" \in Hub!Routes /\ "observatorium-api" \in Hub!Routes
  BY DEF Hub!Routes
<1>8. /\ hubRoutes["grafana"].timeout = snapSpec.timeout
      /\ hubRoutes["grafana"].to /\ hubRoutes["observatorium-api"].to
      /\ \A r \in Hub!Routes :
            hubRoutes[r].tls \in {Hub!MadeRoute(r).tls} \cup
                                 (IF r = "observatorium-api" THEN {"missing"} ELSE {})
  BY <1>3, <1>7 DEF RouteDone
<1>9. (\A r \in Hub!Routes :
          hubRoutes[r].tls \in {Hub!MadeRoute(r).tls} \cup
                               (IF r = "observatorium-api" THEN {"missing"} ELSE {}))'
  BY <1>6, <1>8 DEF Hub!MadeRoute
<1>10. (Hub!ObsRight(snapSpec))'
  BY <1>3, <1>6 DEF Hub!ObsRight
<1>11. QED
  BY <1>3, <1>4, <1>5, <1>6, <1>8, <1>9, <1>10 DEF Hub!AllRight

LEMMA RepairStays ==
    ASSUME Hub!HubTypeOK, RepairInv, [Hub!HubNext]_hubVars
    PROVE  RepairInv' /\ [Hub!EndsRight]_hubVars
<1>1. CASE Hub!HubNext
  BY <1>1, RememberedStays, ProgressStays, ReconcileEndsRight DEF RepairInv
<1>2. CASE UNCHANGED hubVars
  <2>1. UNCHANGED <<nsLabel, hubRoutes, byo, snapSpec, undone, oauthClient, eps, obs, apiConfig,
                    ds, pods, stores, legacy, legacyGone, shardsWere, hubStep, edited>>
    BY <1>2 DEF hubVars
  <2>2. Remembered'
    BY <2>1 DEF RepairInv, Remembered, Behind, StoresBehind
  <2>3. Progress => Progress'
    BY <2>1, RoutesStay DEF Progress, Hub!ObsRight
  <2>4. QED
    BY <1>2, <2>1, <2>2, <2>3 DEF RepairInv
<1>3. QED
  BY <1>1, <1>2

\* A Reconcile that runs to its end while users leave everything alone has put the
\* operands right, whatever was edited, deleted, interrupted or half done before:
\* deleteLegacy, the last of its steps, finds what the earlier ones have left.
THEOREM OperandsReconcileRepairs == SystemSpec => ReconcileRepairs
<1> DEFINE Inv == part = "hub" => Hub!HubTypeOK /\ RepairInv
<1>1. SystemInit => Inv
  BY HubStarts, HubBegins, RepairBegins
<1>2. Inv /\ [SystemNext]_systemVars => Inv' /\ [part = "hub" => Hub!EndsRight]_hubVars
  BY HubSteps, HubStaysTyped, RepairStays
<1>3. QED
  BY <1>1, <1>2, PTL DEF SystemSpec, ReconcileRepairs

-----------------------------------------------------------------------------
(***************************************************************************)
(* At rest: the operands                                                   *)
(***************************************************************************)
\* With no event on its way Reconcile works for the spec that users ask for, and what
\* it has got done so far is right for that.
EditInv ==
    ~hubReq =>
        /\ hubStep # "idle" => snapSpec = asked
        /\ hubStep \in {"stores", "datasource", "restartGrafana", "legacy", "idle"} =>
             Hub!ObsRight(asked)
        /\ hubStep \in {"restartGrafana", "legacy", "idle"} => ds = asked.timeout

LEMMA UsersWake ==
    ASSUME EditInv, Hub!HubUser
    PROVE  EditInv'
<1>1. ASSUME UNCHANGED <<asked, snapSpec, apiConfig, obs, ds, hubStep>>, hubReq => hubReq'
      PROVE  EditInv'
  BY <1>1 DEF EditInv, Hub!ObsRight
<1>2. ASSUME hubReq' PROVE EditInv'
  BY <1>2 DEF EditInv
<1>3. ASSUME NEW what, Hub!Edit(what)
      PROVE  /\ UNCHANGED <<snapSpec, hubStep>>
             /\ what \in Hub!Owned => hubReq'
             /\ hubReq => hubReq'
  <2>1. hubReq' = (hubReq \/ what \in Hub!Owned)
    BY <1>3 DEF Hub!Edit, Hub!Wakes
  <2>2. UNCHANGED <<snapSpec, hubStep>>
    BY <1>3 DEF Hub!Edit
  <2>3. QED
    BY <2>1, <2>2
<1>4. "mco" \in Hub!Owned /\ "apiConfig" \in Hub!Owned /\ "observatorium" \in Hub!Owned
      /\ "datasource" \in Hub!Owned /\ "namespace" \in Hub!Owned
  BY DEF Hub!Owned
<1>5. CASE (\E s \in HubSpecs : Hub!ChangeSpec(s)) \/ Hub!ChangeApiConfig
  BY <1>2, <1>3, <1>4, <1>5 DEF Hub!ChangeSpec, Hub!ChangeApiConfig
<1>6. ASSUME NEW o \in {"observatorium", "datasource", "endpoints"}, Hub!DeleteObject(o)
      PROVE  EditInv'
  <2>1. CASE o \in {"observatorium", "datasource"}
    BY <1>2, <1>3, <1>4, <1>6, <2>1 DEF Hub!DeleteObject
  <2>2. CASE o = "endpoints"
    BY <1>1, <1>3, <1>6, <2>2 DEF Hub!DeleteObject
  <2>3. QED
    BY <2>1, <2>2
<1>7. ASSUME NEW c, Hub!ProvideCertificate(c) PROVE EditInv'
  BY <1>1, <1>3, <1>7 DEF Hub!ProvideCertificate
<1>8. ASSUME NEW l, Hub!EditLabel(l) PROVE EditInv'
  BY <1>1, <1>3, <1>8 DEF Hub!EditLabel
<1>9. ASSUME NEW r, NEW t, Hub!EditRoute(r, t) PROVE EditInv'
  BY <1>1, <1>3, <1>9 DEF Hub!EditRoute
<1>10. QED
  BY <1>5, <1>6, <1>7, <1>8, <1>9 DEF Hub!HubUser

LEMMA ReconcileMissesNothing ==
    ASSUME Hub!HubTypeOK, EditInv, Hub!HubStep
    PROVE  EditInv'
<1>1. CASE Hub!StartReconcile
  BY <1>1 DEF Hub!StartReconcile, EditInv
<1>2. CASE \/ Hub!ensureOpenShiftNamespaceLabel \/ Hub!GenerateGrafanaOauthClient
           \/ Hub!applyEndpointsSecret
  <2>1. /\ UNCHANGED <<asked, snapSpec, hubReq>>
        /\ hubStep \in {"label", "oauth", "endpoints"}
        /\ hubStep' \in {"alertmanager", "endpoints", "restartApi", "observatorium"}
    BY <1>2 DEF Hub!ensureOpenShiftNamespaceLabel, Hub!GenerateGrafanaOauthClient,
       Hub!applyEndpointsSecret, Hub!Goto
  <2>2. QED
    BY <2>1 DEF EditInv
<1>3. CASE \E r \in Hub!Routes : Hub!GenerateRoute(r)
  <2>1. /\ UNCHANGED <<asked, snapSpec, hubReq>>
        /\ hubStep \in Hub!Routes
        /\ hubStep' \in {"observatorium-api", "rbac-query-proxy", "grafana", "oauth"}
    BY <1>3 DEF Hub!GenerateRoute, Hub!Goto, Hub!NextStep, Hub!Routes
  <2>2. QED
    BY <2>1 DEF EditInv, Hub!Routes
<1>4. CASE Hub!RejectCertificate
  BY <1>4 DEF Hub!RejectCertificate, EditInv
<1>5. CASE Hub!restartApi
  <2>1. hubReq' \/ /\ UNCHANGED <<asked, snapSpec, hubReq>>
                   /\ hubStep = "restartApi" /\ hubStep' = "observatorium"
    BY <1>5 DEF Hub!restartApi, Hub!UpdateDeployLabel, Hub!Goto
  <2>2. QED
    BY <2>1 DEF EditInv
<1>6. CASE Hub!GenerateObservatoriumCR
  <2>1. /\ UNCHANGED <<asked, snapSpec>> /\ (hubReq => hubReq')
        /\ hubStep = "observatorium" /\ hubStep' \in {"stores", "datasource"}
    BY <1>6 DEF Hub!GenerateObservatoriumCR, Hub!Goto
  <2>2. ~hubReq' => snapSpec' = asked'
    BY <2>1 DEF EditInv
  <2>3. (Hub!ObsRight(snapSpec))'
    BY <1>6, ObservatoriumRight
  <2>4. ~hubReq' => (Hub!ObsRight(asked))'
    BY <2>2, <2>3 DEF Hub!ObsRight
  <2>5. QED
    BY <2>1, <2>2, <2>4 DEF EditInv
<1>7. CASE Hub!deleteStoreSts
  <2>1. /\ UNCHANGED <<asked, snapSpec, hubReq, obs, apiConfig>>
        /\ hubStep = "stores" /\ hubStep' = "datasource"
    BY <1>7 DEF Hub!deleteStoreSts, Hub!Goto
  <2>2. QED
    BY <2>1 DEF EditInv, Hub!ObsRight
<1>8. CASE Hub!GenerateGrafanaDataSource
  <2>1. /\ UNCHANGED <<asked, snapSpec, obs, apiConfig>> /\ (hubReq => hubReq')
        /\ hubStep = "datasource" /\ hubStep' \in {"legacy", "restartGrafana"}
        /\ ds' = snapSpec.timeout
    BY <1>8 DEF Hub!GenerateGrafanaDataSource, Hub!Goto
  <2>2. QED
    BY <2>1 DEF EditInv, Hub!ObsRight
<1>9. CASE Hub!restartGrafana \/ Hub!deleteLegacy
  <2>1. /\ UNCHANGED <<asked, snapSpec, obs, apiConfig, ds>> /\ (hubReq => hubReq')
        /\ hubStep \in {"restartGrafana", "legacy"} /\ hubStep' \in {"legacy", "idle"}
    BY <1>9 DEF Hub!restartGrafana, Hub!deleteLegacy, Hub!UpdateDeployLabel, Hub!Goto
  <2>2. QED
    BY <2>1 DEF EditInv, Hub!ObsRight
<1>10. QED
  BY <1>1, <1>2, <1>3, <1>4, <1>5, <1>6, <1>7, <1>8, <1>9 DEF Hub!HubStep

LEMMA EditsStay ==
    ASSUME Hub!HubTypeOK, EditInv, [Hub!HubNext]_hubVars
    PROVE  EditInv'
<1>1. CASE Hub!HubPods \/ UNCHANGED hubVars
  <2>1. UNCHANGED <<asked, snapSpec, apiConfig, obs, ds, hubStep, hubReq>>
    BY <1>1 DEF Hub!HubPods, Hub!StartPod, Hub!GetReady, Hub!DeployStores, Hub!Aside, hubVars
  <2>2. QED
    BY <2>1 DEF EditInv, Hub!ObsRight
<1>2. CASE Hub!HubCallFails \/ Hub!RestartHub
  BY <1>2 DEF Hub!HubCallFails, Hub!RestartHub, EditInv
<1>3. CASE Hub!OauthCallFails
  <2>1. /\ UNCHANGED <<asked, snapSpec, hubReq>>
        /\ hubStep = "oauth" /\ hubStep' = "endpoints"
    BY <1>3 DEF Hub!OauthCallFails
  <2>2. QED
    BY <2>1 DEF EditInv
<1>4. QED
  BY <1>1, <1>2, <1>3, UsersWake, ReconcileMissesNothing DEF Hub!HubNext

\* For any specs, failures and restarts, and whatever users edit while Reconcile runs:
\* a hub operator at rest has the Observatorium resource and Grafana's datasource as
\* the spec says (SetupWithManager, GenerateObservatoriumCR, GenerateGrafanaDataSource).
THEOREM OperandsNoEditMissed == SystemSpec => []NoEditMissed
<1> DEFINE Inv == part = "hub" => Hub!HubTypeOK /\ EditInv
<1>1. SystemInit => Inv
  BY HubStarts, HubBegins DEF Hub!HubInit, EditInv
<1>2. Inv /\ [SystemNext]_systemVars => Inv'
  BY HubSteps, HubStaysTyped, EditsStay
<1>3. Inv => NoEditMissed
  BY DEF EditInv, NoEditMissed, Hub!NoEditMissed
<1>4. QED
  BY <1>1, <1>2, <1>3, PTL DEF SystemSpec

-----------------------------------------------------------------------------
(***************************************************************************)
(* Types: storage and deployed objects                                     *)
(***************************************************************************)
LEMMA StorageBounds == MaxStorageChanges \in Nat /\ MaxStorageFaults \in Nat
  BY BoundsAssumption

StorageRest ==
    /\ lastConfig \in Storage!ConfigType \cup {Storage!NoConfig}
    /\ failedConfig \in Storage!ConfigType \cup {Storage!NoConfig}
    /\ step \in {"idle", "handle", "deploy", "generate"}
    /\ storageReq \in BOOLEAN /\ missed \in BOOLEAN
    /\ lossesDue \in [Components -> Int]
    /\ storageChanges \in 0..MaxStorageChanges /\ storageFaults \in 0..MaxStorageFaults

LEMMA StorageTypesAre == StorageObjects /\ StorageRest <=> Storage!StorageTypeOK
  BY DEF StorageObjects, StorageRest, Storage!StorageTypeOK

LEMMA StorageTypesStart == Storage!StorageInit => Storage!StorageTypeOK
<1> SUFFICES ASSUME Storage!StorageInit PROVE StorageObjects /\ StorageRest
  BY StorageTypesAre
<1>1. StorageObjects
  BY AbsentIsObject DEF Storage!StorageInit, StorageObjects
<1>2. storageReq \in BOOLEAN /\ missed \in BOOLEAN
  BY DEF Storage!StorageInit
<1>3. storageChanges = 0 /\ storageFaults = 0 /\ step = "idle"
      /\ lastConfig = Storage!NoConfig /\ failedConfig = Storage!NoConfig
      /\ lossesDue \in [Components -> Int]
  BY DEF Storage!StorageInit
<1>4. QED
  BY <1>1, <1>2, <1>3, StorageBounds DEF StorageRest

LEMMA StorageTypesStay ==
    ASSUME Storage!StorageTypeOK, [Storage!StorageNext]_storageVars
    PROVE  Storage!StorageTypeOK'
<1>0. StorageObjects /\ StorageRest
  BY StorageTypesAre
<1>1. StorageObjects'
  BY <1>0, StorageStep DEF StorageObjects, storageVars
<1>2. /\ lastConfig' \in {lastConfig, config, Storage!NoConfig}
      /\ failedConfig' \in {failedConfig, config, Storage!NoConfig}
      /\ step' \in {step, "idle", "handle", "deploy", "generate"}
  BY DEF Storage!StorageNext, Storage!StorageStep, Storage!ClusterStep, Storage!StartReconcile,
         Storage!recordFirstConfig, Storage!HandleStorageSizeChange, Storage!HandleFails, Storage!Remembers,
         Storage!deployStatefulSets, Storage!GenerateObservatoriumCR, Storage!RestartOperator,
         Storage!ChangeStorage, Storage!ObservatoriumDeploys, Storage!StatefulSetDeleted,
         Storage!ClaimCreated, Storage!ClaimExpanded, Storage!clusterUnchanged, storageVars
<1>3. /\ \/ storageChanges' = storageChanges
         \/ storageChanges < MaxStorageChanges /\ storageChanges' = storageChanges + 1
      /\ \/ storageFaults' = storageFaults
         \/ storageFaults < MaxStorageFaults /\ storageFaults' = storageFaults + 1
  BY DEF Storage!StorageNext, Storage!StorageStep, Storage!ClusterStep, Storage!StartReconcile,
         Storage!recordFirstConfig, Storage!HandleStorageSizeChange, Storage!HandleFails, Storage!Remembers,
         Storage!deployStatefulSets, Storage!GenerateObservatoriumCR, Storage!RestartOperator,
         Storage!ChangeStorage, Storage!ObservatoriumDeploys, Storage!StatefulSetDeleted,
         Storage!ClaimCreated, Storage!ClaimExpanded, Storage!clusterUnchanged, storageVars
<1>4. storageReq' \in BOOLEAN
  <2>1. storageReq \in BOOLEAN
    BY <1>0 DEF StorageRest
  <2>2. QED
    BY <2>1
       DEF Storage!StorageNext, Storage!StorageStep, Storage!ClusterStep, Storage!StartReconcile,
         Storage!recordFirstConfig, Storage!HandleStorageSizeChange, Storage!HandleFails, Storage!Remembers,
         Storage!deployStatefulSets, Storage!GenerateObservatoriumCR, Storage!RestartOperator,
         Storage!ChangeStorage, Storage!ObservatoriumDeploys, Storage!StatefulSetDeleted,
         Storage!ClaimCreated, Storage!ClaimExpanded, Storage!clusterUnchanged, storageVars
<1>5. missed' \in BOOLEAN
  <2>1. missed \in BOOLEAN
    BY <1>0 DEF StorageRest
  <2>2. CASE Storage!StartReconcile
    BY <2>2 DEF Storage!StartReconcile
  <2>3. CASE Storage!recordFirstConfig
    BY <2>3 DEF Storage!recordFirstConfig
  <2>4. CASE missed' = missed
    BY <2>1, <2>4
  <2>5. QED
    BY <2>2, <2>3, <2>4
       DEF Storage!StorageNext, Storage!StorageStep, Storage!ClusterStep,
         Storage!HandleStorageSizeChange, Storage!HandleFails,
         Storage!deployStatefulSets, Storage!GenerateObservatoriumCR, Storage!RestartOperator,
         Storage!ChangeStorage, Storage!ObservatoriumDeploys, Storage!StatefulSetDeleted,
         Storage!ClaimCreated, Storage!ClaimExpanded, Storage!clusterUnchanged, storageVars
<1>8. lossesDue' \in [Components -> Int]
  <2>1. lossesDue \in [Components -> Int]
    BY <1>0 DEF StorageRest
  <2>2. CASE Storage!ChangeStorage
    BY <2>1, <2>2 DEF Storage!ChangeStorage
  <2>3. CASE Storage!HandleStorageSizeChange
    BY <2>1, <2>3 DEF Storage!HandleStorageSizeChange
  <2>4. CASE lossesDue' = lossesDue
    BY <2>1, <2>4
  <2>5. QED
    BY <2>2, <2>3, <2>4
       DEF Storage!StorageNext, Storage!StorageStep, Storage!ClusterStep, Storage!StartReconcile,
         Storage!recordFirstConfig, Storage!HandleFails,
         Storage!deployStatefulSets, Storage!GenerateObservatoriumCR, Storage!RestartOperator,
         Storage!ObservatoriumDeploys, Storage!StatefulSetDeleted,
         Storage!ClaimCreated, Storage!ClaimExpanded, Storage!clusterUnchanged, storageVars
<1>6. StorageRest'
  <2>1. config \in Storage!ConfigType \cup {Storage!NoConfig}
    BY <1>0 DEF StorageObjects
  <2>2. QED
    BY <1>0, <1>2, <1>3, <1>4, <1>5, <1>8, <2>1, StorageBounds DEF StorageRest
<1>7. QED
  BY <1>1, <1>6
     DEF StorageObjects, StorageRest, Storage!StorageTypeOK

LEMMA DeployBounds == MaxEdits \in Nat /\ MaxDeployFaults \in Nat
  BY BoundsAssumption

DeployRest ==
    /\ kind \in DeployedKinds
    /\ enabled \in BOOLEAN /\ wake \in BOOLEAN /\ wroteSame \in BOOLEAN
    /\ doing \in {"idle", "link", "deploy", "write", "undeploy", "delete"}
    /\ edits \in 0..MaxEdits /\ deployFaults \in 0..MaxDeployFaults

LEMMA ObjectTypesStart == Objects!DeployerInit /\ ReadInv => Objects!DeployerTypeOK
<1> SUFFICES ASSUME Objects!DeployerInit, ReadInv PROVE Objects!DeployerTypeOK
  OBVIOUS
<1>1. enabled \in BOOLEAN /\ wake \in BOOLEAN /\ wroteSame \in BOOLEAN
  BY DEF Objects!DeployerInit
<1>2. kind \in DeployedKinds /\ doing = "idle" /\ edits = 0 /\ deployFaults = 0
  BY DEF Objects!DeployerInit
<1>3. QED
  BY <1>1, <1>2, DeployBounds DEF ReadInv, Objects!DeployerTypeOK

LEMMA EditTypes ==
    ASSUME DeployRest, NEW new, Objects!Edit(new)
    PROVE  DeployRest'
<1>1. wake' \in BOOLEAN
  BY DEF Objects!Edit
<1>2. edits' \in 0..MaxEdits
  BY DeployBounds DEF Objects!Edit, DeployRest
<1>3. QED
  BY <1>1, <1>2 DEF Objects!Edit, DeployRest

LEMMA DeployTypes ==
    ASSUME DeployRest, Objects!Deploy
    PROVE  DeployRest'
<1> DEFINE r == Objects!DeployRequest(found)
<1>1. doing' = "idle" /\ UNCHANGED <<kind, enabled, edits, deployFaults>>
  BY DEF Objects!Deploy
<1>2. wake \in BOOLEAN /\ wroteSame \in BOOLEAN
  BY DEF DeployRest
<1>3. \/ wake' = wake /\ wroteSame' = wroteSame
      \/ wake' = TRUE /\ wroteSame' = wroteSame
      \/ /\ wake' = (wake \/ Objects!Event(object, Objects!Result(r)))
         /\ wroteSame' = (r.how \in {"update", "replace"} /\ Objects!Result(r) = object)
  <2>1. CASE r.how = "nothing" \/ Objects!Conflicts(r)
    BY <2>1 DEF Objects!Deploy
  <2>2. CASE ~(r.how = "nothing" \/ Objects!Conflicts(r)) /\ Objects!Refuses(r)
    BY <2>2 DEF Objects!Deploy
  <2>3. CASE ~(r.how = "nothing" \/ Objects!Conflicts(r)) /\ ~Objects!Refuses(r)
    BY <2>3 DEF Objects!Deploy
  <2>4. QED
    BY <2>1, <2>2, <2>3
<1> HIDE DEF r
<1>4. wake' \in BOOLEAN /\ wroteSame' \in BOOLEAN
  BY <1>2, <1>3
<1>5. QED
  BY <1>1, <1>4 DEF DeployRest

LEMMA ObjectTypesStay ==
    ASSUME ReadInv, ReadInv', Objects!DeployerTypeOK, [Objects!DeployerNext]_deployVars
    PROVE  Objects!DeployerTypeOK'
<1>0. DeployRest
  BY DEF Objects!DeployerTypeOK, DeployRest
<1>1. DeployRest'
  <2>1. CASE Objects!Deploy
    BY <1>0, <2>1, DeployTypes
  <2>2. CASE \E new : Objects!Edit(new)
    BY <1>0, <2>2, EditTypes
  <2>3. CASE \/ Objects!UserEdits \/ Objects!UserClearsLabels \/ Objects!UserDeletes
             \/ Objects!OtherInstalls \/ Objects!AnalyticsUpdates
    BY <2>2, <2>3
       DEF Objects!UserEdits, Objects!UserClearsLabels, Objects!UserDeletes,
           Objects!OtherInstalls, Objects!AnalyticsUpdates
  <2>4. CASE Objects!StartDeploying
    BY <1>0, <2>4 DEF Objects!StartDeploying, DeployRest
  <2>5. CASE Objects!ReadObject
    BY <1>0, <2>5 DEF Objects!ReadObject, DeployRest
  <2>6. CASE Objects!Undeploy
    <3>1. wake' \in BOOLEAN
      BY <1>0, <2>6 DEF Objects!Undeploy, DeployRest
    <3>2. QED
      BY <1>0, <2>6, <3>1 DEF Objects!Undeploy, DeployRest
  <2>7. CASE Objects!EarlierFails
    BY <1>0, <2>7, DeployBounds DEF Objects!EarlierFails, DeployRest
  <2>8. CASE Objects!Upgrade
    BY <1>0, <2>8 DEF Objects!Upgrade, DeployRest
  <2>9. CASE Objects!SwitchMcoa
    BY <1>0, <2>9, DeployBounds DEF Objects!SwitchMcoa, DeployRest
  <2>10. CASE UNCHANGED deployVars
    BY <1>0, <2>10 DEF deployVars, DeployRest
  <2>11. CASE Objects!syncMCOACMAGrafanaLink
    <3>1. wake' \in BOOLEAN /\ wroteSame' \in BOOLEAN
      BY <1>0, <2>11, LinkEnds DEF DeployRest, Objects!Event
    <3>2. QED
      BY <1>0, <2>11, <3>1, LinkEnds DEF DeployRest
  <2>12. QED
    BY <2>1, <2>3, <2>4, <2>5, <2>6, <2>7, <2>8, <2>9, <2>10, <2>11
       DEF Objects!DeployerNext, Objects!DeployStep
<1>2. QED
  BY <1>1 DEF DeployRest, ReadInv, Objects!DeployerTypeOK

=============================================================================
