------------------------ MODULE AddonLifecycleProofs ------------------------
(***************************************************************************)
(* Theorems about AddonLifecycle, for any set of clusters, any caches that *)
(* trail, with and without failures.                                       *)
(***************************************************************************)
EXTENDS AddonLifecycle, TLAPS

-----------------------------------------------------------------------------
(***************************************************************************)
(* The running Reconcile keeps its type through the operators that move it *)
(* along.                                                                  *)
(***************************************************************************)
LoopOK(l) == l \in LoopType /\ (l.step # "pick" => l.cur \in Clusters)

LEMMA RequestsType ==
    /\ ReqAll \in Requests
    /\ \A c \in Clusters : ReqMc(c) \in Requests /\ ReqNs(c) \in Requests
  BY DEF Requests

LEMMA IdleType == LoopOK(Idle)
  BY RequestsType DEF LoopOK, LoopType, Idle, Phases, Steps

LEMMA CallType ==
    ASSUME LoopOK(loop), NEW c \in Clusters, NEW s \in Steps
    PROVE  LoopOK(Call(c, s))
  BY DEF LoopOK, LoopType, Call

LEMMA DoneType ==
    ASSUME LoopOK(loop), NEW c
    PROVE  LoopOK(Done(c))
  BY DEF LoopOK, LoopType, Done, Steps

LEMMA AfterDeleteType ==
    ASSUME LoopOK(loop), NEW c \in Clusters
    PROVE  LoopOK(AfterDelete(c))
  BY CallType, DoneType DEF AfterDelete, Steps

LEMMA GotoType ==
    ASSUME LoopOK(loop), NEW p \in Phases, NEW S \in SUBSET Clusters
    PROVE  LoopOK(Goto(p, S))
  BY DEF LoopOK, LoopType, Goto, Steps

LEMMA OrphanType ==
    ASSUME LoopOK(loop)
    PROVE  LoopOK(cleanOrphanResources)
  BY DEF LoopOK, LoopType, cleanOrphanResources, Goto, ListAddons, Scope, Steps, Phases

-----------------------------------------------------------------------------
(***************************************************************************)
(* Type correctness                                                        *)
(***************************************************************************)
LEMMA ObaTypes ==
    \A o \in ObaStates : Deleted(o) \in ObaStates /\ Released(o) \in ObaStates
  BY DEF ObaStates, Deleted, Released

LEMMA ReturnType ==
    ASSUME TypeOK, Return \/ ReturnAgain
    PROVE  LoopOK(loop') /\ queue' \subseteq Requests
  BY IdleType DEF TypeOK, Return, ReturnAgain, LoopType

LEMMA TypeInit == Init => TypeOK
<1> SUFFICES ASSUME Init PROVE TypeOK
  OBVIOUS
<1>1. mode \in Modes /\ changes \in 0..MaxChanges
  BY ModesAssumption, MaxChangesAssumption DEF Init
<1>2. queue \subseteq Requests
  BY RequestsType DEF Init
<1>3. loop \in LoopType /\ (loop.step # "pick" => loop.cur \in Clusters)
  BY IdleType DEF Init, LoopOK
<1> QED
  BY <1>1, <1>2, <1>3 DEF Init, TypeOK, ObaStates, WorkStates, EpSteps, Parts

LEMMA TypeReconcile ==
    ASSUME TypeOK, NEW r \in Requests, Reconcile(r)
    PROVE  TypeOK'
<1> LoopOK(loop) BY DEF TypeOK, LoopOK
<1>1. \A p \in Phases, S \in SUBSET Clusters :
        LoopOK(Enter(r, p, S))
  BY IdleType DEF LoopOK, LoopType, Enter
<1>2. "clean" \in Phases /\ "create" \in Phases
  BY DEF Phases
<1>3. ListAddons(Clusters) \in SUBSET Clusters
  BY DEF ListAddons
<1>4. {c \in attached : ~once \/ isReconcileRequired(r, c)} \in SUBSET Clusters
  BY DEF TypeOK
<1>5. LoopOK(loop') /\ queue' \subseteq Requests
  BY <1>1, <1>2, <1>3, <1>4, IdleType DEF Reconcile, TypeOK
<1> QED
  BY <1>5 DEF Reconcile, TypeOK, LoopOK, adminVars, obaVars, cacheVars, spokeVars, epVars

LEMMA TypeLoopDone ==
    ASSUME TypeOK, LoopDone
    PROVE  TypeOK'
<1> LoopOK(loop) BY DEF TypeOK, LoopOK
<1>1. LoopOK(loop') /\ queue' \subseteq Requests
  <2>1. Leftovers \in SUBSET Clusters /\ loop.addons \in SUBSET Clusters
    BY DEF TypeOK, LoopType, Leftovers
  <2>2. "force" \in Phases /\ "leftover" \in Phases
    BY DEF Phases
  <2>3. LoopOK(Goto("force", loop.addons)) /\ LoopOK(Goto("leftover", Leftovers))
    BY <2>1, <2>2, GotoType
  <2> QED BY <2>3, OrphanType, ReturnType DEF LoopDone, TypeOK
<1>2. global' \in BOOLEAN /\ once' \in BOOLEAN
  BY DEF LoopDone, TypeOK
<1> QED
  BY <1>1, <1>2 DEF LoopDone, TypeOK, LoopOK, adminVars, obaVars, cacheVars, spokeVars, epVars

LEMMA TypeDeleteFinalizer ==
    ASSUME TypeOK, NEW c \in Clusters, deleteFinalizer(c)
    PROVE  oba' \in [Clusters -> ObaStates] /\ forced' \subseteq Clusters /\ stalled' \subseteq Clusters
  BY ObaTypes DEF TypeOK, deleteFinalizer

LEMMA TypeDeleteOba ==
    ASSUME TypeOK, NEW c \in Clusters, DeleteOba(c)
    PROVE  oba' \in [Clusters -> ObaStates] /\ forced' \subseteq Clusters /\ stalled' \subseteq Clusters
  BY ObaTypes DEF TypeOK, DeleteOba

LEMMA TypeDeleteObsAddonObject ==
    ASSUME TypeOK, NEW c \in Clusters, deleteObsAddonObject(c)
    PROVE  TypeOK'
<1> LoopOK(loop) BY DEF TypeOK, LoopOK
<1>1. oba' \in [Clusters -> ObaStates] /\ forced' \subseteq Clusters /\ stalled' \subseteq Clusters
  BY TypeDeleteFinalizer, TypeDeleteOba DEF deleteObsAddonObject, TypeOK, obaVars
<1>2. \A b \in BOOLEAN : LoopOK([Done(c) EXCEPT !.again = loop.again \/ b])
  BY DoneType DEF LoopOK, LoopType
<1>3. ASSUME NEW b \in BOOLEAN, NEW S \in SUBSET Clusters
      PROVE  LoopOK([Call(c, "strip") EXCEPT !.again = loop.again \/ b, !.rq = b, !.misled = S])
  <2>1. LoopOK(Call(c, "strip"))
    BY CallType DEF Steps
  <2> QED BY <2>1 DEF LoopOK, LoopType
<1>4. /\ Done(c).again = loop.again /\ Call(c, "strip").again = loop.again
      /\ Call(c, "strip").misled = loop.misled
  BY DEF Done, Call, LoopOK, LoopType
<1>5. HasFinalizer(obaC[c]) \in BOOLEAN
  BY DEF HasFinalizer
<1>6. ASSUME NEW b \in BOOLEAN,
             loop' = IF loop.phase = "leftover"
                     THEN [Done(c) EXCEPT !.again = @ \/ b]
                     ELSE [Call(c, "strip") EXCEPT
                              !.again = @ \/ b, !.rq = b,
                              !.misled = IF b \/ oba'[c] = "none" THEN @ ELSE @ \cup {c}]
      PROVE  LoopOK(loop')
  <2> DEFINE S == IF b \/ oba'[c] = "none" THEN loop.misled ELSE loop.misled \cup {c}
  <2>1. S \in SUBSET Clusters
    BY DEF LoopOK, LoopType
  <2>2. loop' = IF loop.phase = "leftover"
                THEN [Done(c) EXCEPT !.again = loop.again \/ b]
                ELSE [Call(c, "strip") EXCEPT !.again = loop.again \/ b, !.rq = b, !.misled = S]
    BY <1>4, <1>6
  <2> HIDE DEF S
  <2> QED BY <1>2, <1>3, <2>1, <2>2
<1>7. LoopOK(loop') /\ queue' \subseteq Requests
  BY <1>5, <1>6, ReturnType DEF deleteObsAddonObject, TypeOK
<1> QED
  BY <1>1, <1>7 DEF deleteObsAddonObject, TypeOK, LoopOK, adminVars, apiVars, cacheVars, spokeVars, epVars

LEMMA TypeDeletion ==
    ASSUME TypeOK,
           \/ removeObservabilityAddonInManifestWork \/ deleteManagedClusterAddOn
           \/ \E c \in Clusters : deleteManifestWorks(c)
    PROVE  TypeOK'
<1> LoopOK(loop) BY DEF TypeOK, LoopOK
<1>1. CASE removeObservabilityAddonInManifestWork
  <2>1. loop.cur \in Clusters
    BY <1>1 DEF removeObservabilityAddonInManifestWork, TypeOK
  <2>2. LoopOK(loop') /\ queue' \subseteq Requests
    BY <1>1, <2>1, AfterDeleteType, ReturnType DEF removeObservabilityAddonInManifestWork, TypeOK
  <2> QED
    BY <1>1, <2>2 DEF removeObservabilityAddonInManifestWork, TypeOK, LoopOK, WorkStates,
                      adminVars, obaVars, cacheVars, spokeVars, epVars
<1>2. CASE deleteManagedClusterAddOn
  <2>1. LoopOK(Done(loop.cur)) BY DoneType
  <2>2. LoopOK(loop')
    BY <1>2, <2>1 DEF deleteManagedClusterAddOn, LoopOK, LoopType
  <2> QED
    BY <1>2, <2>2 DEF deleteManagedClusterAddOn, TypeOK, LoopOK,
                      adminVars, obaVars, cacheVars, spokeVars, epVars
<1>3. ASSUME NEW c \in Clusters, deleteManifestWorks(c) PROVE TypeOK'
  <2>1. LoopOK(loop')
    BY <1>3, CallType DEF deleteManifestWorks, Steps
  <2> QED
    BY <1>3, <2>1 DEF deleteManifestWorks, TypeOK, LoopOK, WorkStates,
                      adminVars, obaVars, cacheVars, spokeVars, epVars
<1> QED BY <1>1, <1>2, <1>3

LEMMA FailType ==
    ASSUME LoopOK(loop), NEW c, Fail(c)
    PROVE  LoopOK(loop')
<1> LoopOK(Done(c)) BY DoneType
<1> QED BY DEF Fail, LoopOK, LoopType

LEMMA TypeCreation ==
    ASSUME TypeOK,
           \/ createManagedClusterRes \/ createManifestWorks \/ createManifestwork
           \/ \E c \in Clusters : createObsAddon(c)
    PROVE  TypeOK'
<1> LoopOK(loop) BY DEF TypeOK, LoopOK
<1>1. ASSUME NEW c \in Clusters, createObsAddon(c) PROVE TypeOK'
  <2>1. oba' \in [Clusters -> ObaStates] /\ forced' \subseteq Clusters /\ stalled' \subseteq Clusters
    BY <1>1, TypeDeleteFinalizer DEF createObsAddon, TypeOK, obaVars, ObaStates
  <2>2. LoopOK(loop')
    BY <1>1, CallType, FailType DEF createObsAddon, Steps
  <2> QED
    BY <1>1, <2>1, <2>2 DEF createObsAddon, TypeOK, LoopOK, adminVars, apiVars, cacheVars, spokeVars, epVars
<1>2. CASE createManagedClusterRes
  <2>1. loop.cur \in Clusters
    BY <1>2 DEF createManagedClusterRes, TypeOK
  <2>2. LoopOK(loop')
    BY <1>2, <2>1, CallType, FailType DEF createManagedClusterRes, Steps
  <2> QED
    BY <1>2, <2>1, <2>2 DEF createManagedClusterRes, TypeOK, LoopOK,
                            adminVars, obaVars, cacheVars, spokeVars, epVars
<1>3. CASE createManifestWorks
  <2>1. LoopOK(loop')
    BY <1>3 DEF createManifestWorks, getObservabilityAddon, LoopOK, LoopType, Steps
  <2> QED
    BY <1>3, <2>1 DEF createManifestWorks, TypeOK, LoopOK,
                      adminVars, obaVars, apiVars, cacheVars, spokeVars, epVars
<1>4. CASE createManifestwork
  <2>1. LoopOK(loop')
    BY <1>4, DoneType, FailType DEF createManifestwork
  <2> QED
    BY <1>4, <2>1 DEF createManifestwork, TypeOK, LoopOK, WorkStates,
                      adminVars, obaVars, cacheVars, spokeVars, epVars
<1> QED BY <1>1, <1>2, <1>3, <1>4

LEMMA TypeSync ==
    ASSUME TypeOK, NEW c \in Clusters, Sync(c)
    PROVE  TypeOK'
<1>1. queue' \subseteq Requests
  BY RequestsType DEF Sync, SyncOba, SyncWork, SyncMca, Enqueue, TypeOK
<1>2. CASE SyncOba(c)
  BY <1>1, <1>2 DEF SyncOba, TypeOK, adminVars, obaVars, apiVars, spokeVars, epVars
<1>3. CASE SyncWork(c)
  BY <1>1, <1>3 DEF SyncWork, TypeOK, adminVars, obaVars, apiVars, spokeVars, epVars
<1>4. CASE SyncMca(c)
  BY <1>1, <1>4 DEF SyncMca, TypeOK, adminVars, obaVars, apiVars, spokeVars, epVars
<1> QED BY <1>2, <1>3, <1>4 DEF Sync

LEMMA TypeEndpoint ==
    ASSUME TypeOK, NEW c \in Clusters, EndpointStep(c)
    PROVE  TypeOK'
<1>1. CASE EpFetch(c)
  BY <1>1 DEF EpFetch, TypeOK, EpGoto, EpSteps, 
     adminVars, obaVars, apiVars, cacheVars, ctrlVars, spokeVars, epVars
<1>2. CASE EpBranch(c)
  BY <1>2 DEF EpBranch, TypeOK, EpGoto, EpSteps, 
     adminVars, obaVars, apiVars, cacheVars, ctrlVars, spokeVars, epVars
<1>3. CASE EpAddFinalizer(c)
  BY <1>3 DEF EpAddFinalizer, TypeOK, EpGoto, EpSteps, ObaStates, 
     adminVars, obaVars, apiVars, cacheVars, ctrlVars, spokeVars, epVars
<1>4. CASE EpUnsupported(c)
  BY <1>4 DEF EpUnsupported, TypeOK, EpGoto, EpSteps, 
     adminVars, obaVars, apiVars, cacheVars, ctrlVars, spokeVars, epVars
<1>5. CASE EpConfigure(c)
  BY <1>5 DEF EpConfigure, TypeOK, EpGoto, EpSteps, Parts, 
     adminVars, obaVars, apiVars, cacheVars, ctrlVars, spokeVars, epVars
<1>6. CASE EpCollect(c)
  BY <1>6 DEF EpCollect, TypeOK, Leave, EpGoto, EpSteps, Parts, 
     adminVars, obaVars, apiVars, cacheVars, ctrlVars, spokeVars, epVars
<1>7. CASE EpUncollect(c)
  BY <1>7 DEF EpUncollect, TypeOK, Leave, EpGoto, EpSteps, Parts, 
     adminVars, obaVars, apiVars, cacheVars, ctrlVars, spokeVars, epVars
<1>8. CASE EpRevert(c)
  BY <1>8 DEF EpRevert, TypeOK, Leave, EpGoto, EpSteps, Parts, 
     adminVars, obaVars, apiVars, cacheVars, ctrlVars, spokeVars, epVars
<1>9. CASE EpRelease(c)
  BY <1>9, ObaTypes DEF EpRelease, TypeOK, EpGoto, EpSteps, 
     adminVars, obaVars, apiVars, cacheVars, ctrlVars, spokeVars, epVars
<1> QED BY <1>1, <1>2, <1>3, <1>4, <1>5, <1>6, <1>7, <1>8, <1>9 DEF EndpointStep

LEMMA TypeAgent ==
    ASSUME TypeOK, NEW c \in Clusters, Agent(c)
    PROVE  TypeOK'
<1>1. CASE AgentApply(c)
  BY <1>1 DEF AgentApply, TypeOK, 
     adminVars, obaVars, apiVars, cacheVars, ctrlVars, spokeVars, epVars
<1>2. CASE AgentRemoveAddon(c)
  BY <1>2 DEF AgentRemoveAddon, TypeOK, 
     adminVars, obaVars, apiVars, cacheVars, ctrlVars, spokeVars, epVars
<1>3. CASE AgentRemoveOperator(c)
  BY <1>3 DEF AgentRemoveOperator, TypeOK, EpSteps, 
     adminVars, obaVars, apiVars, cacheVars, ctrlVars, spokeVars, epVars
<1>4. CASE AgentFinish(c)
  BY <1>4 DEF AgentFinish, TypeOK, WorkStates, 
     adminVars, obaVars, apiVars, cacheVars, ctrlVars, spokeVars, epVars
<1> QED BY <1>1, <1>2, <1>3, <1>4 DEF Agent

LEMMA TypeEnvironment ==
    ASSUME TypeOK, Environment
    PROVE  TypeOK'
<1>1. ASSUME NEW m \in Modes, SetMode(m) PROVE TypeOK'
  BY <1>1, RequestsType, MaxChangesAssumption
     DEF SetMode, Change, Enqueue, TypeOK, obaVars, apiVars, cacheVars, spokeVars, epVars
<1>2. ASSUME NEW c \in Clusters, Attach(c) \/ Detach(c) PROVE TypeOK'
  BY <1>2, RequestsType, MaxChangesAssumption
     DEF Attach, Detach, Change, Enqueue, TypeOK, obaVars, apiVars, cacheVars, spokeVars, epVars
<1>3. ASSUME NEW c \in Clusters, ImportDelete(c) PROVE TypeOK'
  BY <1>3 DEF ImportDelete, TypeOK, WorkStates,
              adminVars, obaVars, cacheVars, ctrlVars, spokeVars, epVars
<1>4. CASE McoaDeploy
  BY <1>4 DEF McoaDeploy, TypeOK,
              adminVars, obaVars, apiVars, cacheVars, ctrlVars, spokeVars, epVars
<1> QED BY <1>1, <1>2, <1>3, <1>4 DEF Environment

LEMMA TypeFailure ==
    ASSUME TypeOK, Failure
    PROVE  TypeOK'
<1> LoopOK(loop) BY DEF TypeOK, LoopOK
<1>1. CASE HubError
  <2>1. LoopOK(loop') /\ queue' \subseteq Requests
    BY <1>1, ReturnType, FailType, CallType, DoneType DEF HubError, TypeOK, Steps
  <2> QED
    BY <1>1, <2>1 DEF HubError, TypeOK, LoopOK, adminVars, obaVars, apiVars, cacheVars, spokeVars, epVars
<1>2. CASE HubRestart
  BY <1>2, RequestsType, IdleType
     DEF HubRestart, TypeOK, LoopOK, adminVars, obaVars, apiVars, spokeVars, epVars
<1>3. ASSUME NEW c \in Clusters, EpError(c) PROVE TypeOK'
  BY <1>3 DEF EpError, EpGoto, EpSteps, TypeOK,
              adminVars, obaVars, apiVars, cacheVars, ctrlVars, spokeVars
<1> QED BY <1>1, <1>2, <1>3 DEF Failure

LEMMA TypeNext == TypeOK /\ [Next]_vars => TypeOK'
<1> SUFFICES ASSUME TypeOK, [Next]_vars PROVE TypeOK'
  OBVIOUS
<1>1. ASSUME NEW r \in Requests, Reconcile(r) PROVE TypeOK'
  BY <1>1, TypeReconcile
<1>2. CASE PlacementStep
  BY <1>2, TypeLoopDone, TypeDeleteObsAddonObject, TypeDeletion, TypeCreation DEF PlacementStep
<1>3. ASSUME NEW c \in Clusters, Sync(c) \/ EndpointStep(c) \/ Agent(c) PROVE TypeOK'
  BY <1>3, TypeSync, TypeEndpoint, TypeAgent
<1>4. ASSUME NEW c \in Clusters, CollectGarbage(c) \/ Stall(c) PROVE TypeOK'
  BY <1>4 DEF CollectGarbage, Stall, TypeOK,
              adminVars, obaVars, apiVars, cacheVars, ctrlVars, spokeVars, epVars
<1>5. CASE McoaCleanup
  BY <1>5 DEF McoaCleanup, TypeOK,
              adminVars, obaVars, apiVars, cacheVars, ctrlVars, spokeVars, epVars
<1>6. CASE Environment
  BY <1>6, TypeEnvironment
<1>7. CASE Failure
  BY <1>7, TypeFailure
<1>8. CASE UNCHANGED vars
  BY <1>8 DEF vars, TypeOK,
              adminVars, obaVars, apiVars, cacheVars, ctrlVars, spokeVars, epVars
<1> QED BY <1>1, <1>2, <1>3, <1>4, <1>5, <1>6, <1>7, <1>8 DEF Next

\* Every state of every behaviour is well typed; in particular Reconcile never
\* makes a call about a cluster it is not working on.
THEOREM TypeCorrect == Spec => []TypeOK
  BY TypeInit, TypeNext, PTL DEF Spec

-----------------------------------------------------------------------------
(***************************************************************************)
(* FootprintHeld.  It is not inductive: the endpoint operator acts on the  *)
(* hub OBA it fetched earlier, so the finalizer must already cover what it *)
(* is about to do, and what it undid must still be undone when it takes    *)
(* the finalizer off.                                                      *)
(***************************************************************************)
Armed(c) ==
    \/ footprint[c] # {}
    \/ epc[c] \in {"cmo", "collector"}
    \/ epc[c] = "fetched" /\ HasFinalizer(eoba[c])

FootprintInv(c) ==
    /\ Armed(c) => HasFinalizer(oba[c]) \/ c \in forced
    /\ epc[c] = "revert" => "collector" \notin footprint[c]
    /\ epc[c] = "release" => footprint[c] = {}

FootprintIInv == \A c \in Clusters : FootprintInv(c)

\* a step that leaves what FootprintInv reads of c alone
LEMMA FootprintFrame ==
    ASSUME NEW c \in Clusters, FootprintInv(c),
           UNCHANGED <<footprint[c], epc[c], eoba[c]>>,
           HasFinalizer(oba[c]) \/ c \in forced => HasFinalizer(oba'[c]) \/ c \in forced'
    PROVE  FootprintInv(c)'
  BY DEF FootprintInv, Armed

LEMMA FinalizerKept ==
    ASSUME TypeOK, NEW c \in Clusters, NEW d \in Clusters,
           DeleteOba(c) \/ deleteFinalizer(c) \/ UNCHANGED obaVars,
           HasFinalizer(oba[d]) \/ d \in forced
    PROVE  HasFinalizer(oba'[d]) \/ d \in forced'
<1>1. CASE DeleteOba(c)
  BY <1>1 DEF DeleteOba, Deleted, HasFinalizer, TypeOK, ObaStates
<1>2. CASE deleteFinalizer(c)
  BY <1>2 DEF deleteFinalizer, Released, HasFinalizer, TypeOK
<1>3. CASE UNCHANGED obaVars
  BY <1>3 DEF obaVars
<1> QED BY <1>1, <1>2, <1>3

LEMMA FootprintPlacement ==
    ASSUME TypeOK, FootprintIInv, NEW d \in Clusters,
           \/ PlacementStep
           \/ \E r \in Requests : Reconcile(r)
           \/ \E c \in Clusters : Sync(c)
    PROVE  FootprintInv(d)'
<1>1. UNCHANGED <<footprint, epc, eoba>>
  BY DEF PlacementStep, Reconcile, Sync, LoopDone, removeObservabilityAddonInManifestWork,
         deleteManagedClusterAddOn, createManagedClusterRes, createManifestWorks,
         createManifestwork, deleteObsAddonObject, deleteManifestWorks, createObsAddon,
         SyncOba, SyncWork, SyncMca, spokeVars, epVars
<1>2. HasFinalizer(oba[d]) \/ d \in forced => HasFinalizer(oba'[d]) \/ d \in forced'
  <2>1. ASSUME NEW c \in Clusters, deleteObsAddonObject(c) PROVE <1>2
    BY <2>1, FinalizerKept DEF deleteObsAddonObject
  <2>2. ASSUME NEW c \in Clusters, createObsAddon(c) PROVE <1>2
    <3>1. CASE oba[c] = "none" /\ oba' = [oba EXCEPT ![c] = "bare"] /\ UNCHANGED forced
      BY <3>1 DEF HasFinalizer, TypeOK
    <3> QED BY <2>2, <3>1, FinalizerKept DEF createObsAddon
  <2>3. CASE UNCHANGED obaVars
    BY <2>3 DEF obaVars
  <2> QED
    BY <2>1, <2>2, <2>3
    DEF PlacementStep, Reconcile, Sync, LoopDone, removeObservabilityAddonInManifestWork,
        deleteManagedClusterAddOn, createManagedClusterRes, createManifestWorks,
        createManifestwork, deleteManifestWorks, SyncOba, SyncWork, SyncMca
<1> QED
  BY <1>1, <1>2, FootprintFrame DEF FootprintIInv

LEMMA FootprintEndpoint ==
    ASSUME TypeOK, FootprintIInv, NEW c \in Clusters, EndpointStep(c), NEW d \in Clusters
    PROVE  FootprintInv(d)'
<1> USE DEF FootprintIInv
<1>1. CASE d # c
  <2>1. UNCHANGED <<footprint[d], epc[d], eoba[d], oba[d]>> /\ (d \in forced <=> d \in forced')
    BY <1>1 DEF EndpointStep, EpFetch, EpBranch, EpAddFinalizer, EpUnsupported, EpConfigure,
                EpCollect, EpUncollect, EpRevert, EpRelease, Leave, EpGoto, TypeOK,
                obaVars, spokeVars, epVars
  <2> QED BY <2>1, FootprintFrame
<1>2. CASE d = c
  <2>1. CASE EpFetch(c)
    BY <1>2, <2>1 DEF EpFetch, EpGoto, FootprintInv, Armed, TypeOK, obaVars, spokeVars
  <2>2. CASE EpBranch(c)
    BY <1>2, <2>2 DEF EpBranch, EpGoto, FootprintInv, Armed, TypeOK, obaVars, spokeVars
  <2>3. CASE EpAddFinalizer(c)
    BY <1>2, <2>3 DEF EpAddFinalizer, EpGoto, FootprintInv, Armed, HasFinalizer, TypeOK,
                      ObaStates, spokeVars
  <2>4. CASE EpUnsupported(c)
    BY <1>2, <2>4 DEF EpUnsupported, EpGoto, FootprintInv, Armed, TypeOK, obaVars, spokeVars
  <2>5. CASE EpConfigure(c)
    BY <1>2, <2>5 DEF EpConfigure, EpGoto, FootprintInv, Armed, TypeOK, obaVars
  <2>6. CASE EpCollect(c)
    BY <1>2, <2>6 DEF EpCollect, Leave, EpGoto, FootprintInv, Armed, TypeOK, obaVars
  <2>7. CASE EpUncollect(c)
    BY <1>2, <2>7 DEF EpUncollect, Leave, EpGoto, FootprintInv, Armed, TypeOK, obaVars
  <2>8. CASE EpRevert(c)
    BY <1>2, <2>8 DEF EpRevert, Leave, EpGoto, FootprintInv, Armed, TypeOK, Parts, obaVars
  <2>9. CASE EpRelease(c)
    BY <1>2, <2>9 DEF EpRelease, EpGoto, FootprintInv, Armed, TypeOK, spokeVars
  <2> QED
    BY <2>1, <2>2, <2>3, <2>4, <2>5, <2>6, <2>7, <2>8, <2>9 DEF EndpointStep
<1> QED BY <1>1, <1>2

LEMMA FootprintNext == TypeOK /\ FootprintIInv /\ [Next]_vars => FootprintIInv'
<1> SUFFICES ASSUME TypeOK, FootprintIInv, [Next]_vars, NEW d \in Clusters PROVE FootprintInv(d)'
  BY DEF FootprintIInv
<1>1. CASE PlacementStep \/ (\E r \in Requests : Reconcile(r)) \/ \E c \in Clusters : Sync(c)
  BY <1>1, FootprintPlacement
<1>2. ASSUME NEW c \in Clusters, EndpointStep(c) PROVE FootprintInv(d)'
  BY <1>2, FootprintEndpoint
<1>3. ASSUME NEW c \in Clusters, Agent(c) PROVE FootprintInv(d)'
  <2>1. CASE AgentRemoveOperator(c)
    BY <2>1 DEF AgentRemoveOperator, FootprintIInv, FootprintInv, Armed, TypeOK, obaVars
  <2>2. CASE ~AgentRemoveOperator(c)
    BY <1>3, <2>2, FootprintFrame
       DEF Agent, AgentApply, AgentRemoveAddon, AgentFinish, FootprintIInv,
           obaVars, spokeVars, epVars
  <2> QED BY <2>1, <2>2
<1>4. ASSUME NEW c \in Clusters, CollectGarbage(c) PROVE FootprintInv(d)'
  BY <1>4 DEF CollectGarbage, FootprintIInv, FootprintInv, Armed, TypeOK, obaVars
<1>5. ASSUME NEW c \in Clusters, EpError(c) PROVE FootprintInv(d)'
  BY <1>5 DEF EpError, EpGoto, FootprintIInv, FootprintInv, Armed, TypeOK, obaVars, spokeVars
<1>6. CASE \/ McoaCleanup \/ Environment \/ HubError \/ HubRestart
           \/ (\E c \in Clusters : Stall(c)) \/ UNCHANGED vars
  <2>1. UNCHANGED <<footprint, epc, eoba, oba, forced>>
    BY <1>6 DEF McoaCleanup, Environment, SetMode, Attach, Detach, ImportDelete, McoaDeploy,
                HubError, HubRestart, Stall, obaVars, spokeVars, epVars, vars
  <2> QED BY <2>1, FootprintFrame DEF FootprintIInv
<1> QED
  BY <1>1, <1>2, <1>3, <1>4, <1>5, <1>6 DEF Next, Failure

\* In every behaviour, with caches that trail and calls that fail, the endpoint
\* operator leaves nothing in a managed cluster that its finalizer on the hub
\* OBA does not cover, except where the placement controller itself removed the
\* finalizer (deletionStalled, or createObsAddon on a terminating OBA).
THEOREM FootprintAlwaysHeld == Spec => []FootprintHeld
<1>1. Init => FootprintIInv
  BY DEF Init, FootprintIInv, FootprintInv, Armed
<1>2. FootprintIInv => FootprintHeld
  BY DEF FootprintIInv, FootprintInv, Armed, FootprintHeld
<1> QED
  BY <1>1, <1>2, FootprintNext, TypeCorrect, PTL DEF Spec

-----------------------------------------------------------------------------
(***************************************************************************)
(* FinalizerHonoured.  Most steps leave the finalizers, what is left in    *)
(* the clusters and forced alone; the others are one step of the finalizer *)
(* protocol each, the guards of Soil and Release by FootprintIInv.         *)
(***************************************************************************)
Held  == {c \in Clusters : HasFinalizer(oba[c])}
Dirty == {c \in Clusters : footprint[c] # {}}

ProtocolStep ==
    \/ Held' = Held /\ Dirty' = Dirty /\ forced' = forced
    \/ \E c \in Clusters :
          \/ Held' = Held \cup {c} /\ forced' = forced \ {c} /\ Dirty' = Dirty
          \/ c \in Held \cup forced /\ Dirty' = Dirty \cup {c} /\ Held' = Held /\ forced' = forced
          \/ Dirty' = Dirty \ {c} /\ Held' = Held /\ forced' = forced
          \/ c \notin Dirty /\ Held' = Held \ {c} /\ forced' = forced \ {c} /\ Dirty' = Dirty
          \/ c \in Held /\ Held' = Held \ {c} /\ forced' = forced \cup {c} /\ Dirty' = Dirty

\* taking something away leaves a cluster as dirty as it was, or clean
LEMMA CleansOrNot ==
    ASSUME TypeOK, NEW c \in Clusters, NEW p, footprint' = [footprint EXCEPT ![c] = @ \ {p}]
    PROVE  \/ {d \in Clusters : footprint'[d] # {}} = {d \in Clusters : footprint[d] # {}}
           \/ {d \in Clusters : footprint'[d] # {}} = {d \in Clusters : footprint[d] # {}} \ {c}
<1>1. \A d \in Clusters : footprint'[d] = IF d = c THEN footprint[c] \ {p} ELSE footprint[d]
  BY DEF TypeOK
<1>2. CASE footprint[c] \ {p} = {}
  BY <1>1, <1>2
<1>3. CASE footprint[c] \ {p} # {}
  <2>1. footprint[c] # {}
    BY <1>3
  <2>2. \A d \in Clusters : footprint'[d] # {} <=> footprint[d] # {}
    BY <1>1, <1>3, <2>1
  <2> QED BY <2>2
<1> QED BY <1>2, <1>3

LEMMA ProtocolPlacement ==
    ASSUME TypeOK, NEW c \in Clusters, deleteObsAddonObject(c) \/ createObsAddon(c)
    PROVE  ProtocolStep
<1>1. Dirty' = Dirty
  BY DEF deleteObsAddonObject, createObsAddon, spokeVars, Dirty
<1>2. CASE UNCHANGED obaVars
  BY <1>1, <1>2 DEF ProtocolStep, Held, obaVars
<1>3. CASE DeleteOba(c)
  <2>1. Held' = Held
    BY <1>3 DEF DeleteOba, Deleted, Held, HasFinalizer, TypeOK, ObaStates
  <2> QED BY <1>1, <1>3, <2>1 DEF ProtocolStep, DeleteOba
<1>4. CASE obaC[c] = "terminating" /\ deleteFinalizer(c)
  <2>1. oba[c] = "terminating" /\ oba' = [oba EXCEPT ![c] = "none"] /\ forced' = forced \cup {c}
    BY <1>4 DEF deleteFinalizer, Fresh, Released, TypeOK
  <2>2. c \in Held /\ Held' = Held \ {c}
    BY <2>1 DEF Held, HasFinalizer, TypeOK
  <2> QED BY <1>1, <2>1, <2>2 DEF ProtocolStep
<1>5. CASE oba[c] = "none" /\ oba' = [oba EXCEPT ![c] = "bare"] /\ UNCHANGED forced
  <2>1. Held' = Held
    BY <1>5 DEF Held, HasFinalizer, TypeOK
  <2> QED BY <1>1, <1>5, <2>1 DEF ProtocolStep
<1> QED
  BY <1>2, <1>3, <1>4, <1>5 DEF deleteObsAddonObject, createObsAddon, deletionStalled

LEMMA ProtocolEndpoint ==
    ASSUME TypeOK, FootprintIInv, NEW c \in Clusters, EndpointStep(c)
    PROVE  ProtocolStep
<1>1. CASE EpFetch(c) \/ EpBranch(c) \/ EpUnsupported(c)
  BY <1>1 DEF EpFetch, EpBranch, EpUnsupported, obaVars, spokeVars, ProtocolStep, Held, Dirty
<1>2. CASE EpAddFinalizer(c)
  <2>1. Dirty' = Dirty
    BY <1>2 DEF EpAddFinalizer, spokeVars, Dirty
  <2>2. CASE UNCHANGED <<oba, forced>>
    BY <2>1, <2>2 DEF ProtocolStep, Held
  <2>3. CASE oba[c] = "bare" /\ oba' = [oba EXCEPT ![c] = "held"] /\ forced' = forced \ {c}
    <3>1. Held' = Held \cup {c}
      BY <2>3 DEF Held, HasFinalizer, TypeOK
    <3> QED BY <2>1, <2>3, <3>1 DEF ProtocolStep
  <2>4. CASE oba[c] # "bare" /\ oba' = [oba EXCEPT ![c] = oba[c]] /\ UNCHANGED forced
    <3>1. Held' = Held
      BY <2>4 DEF Held, TypeOK
    <3> QED BY <2>1, <2>4, <3>1 DEF ProtocolStep
  <2> QED BY <1>2, <2>2, <2>3, <2>4 DEF EpAddFinalizer
<1>3. CASE EpConfigure(c) \/ EpCollect(c)
  <2>1. UNCHANGED <<oba, forced>>
    BY <1>3 DEF EpConfigure, EpCollect, obaVars
  <2>2. PICK p : footprint' = [footprint EXCEPT ![c] = @ \cup {p}]
    BY <1>3 DEF EpConfigure, EpCollect, Leave
  <2>3. Dirty' = Dirty \cup {c}
    BY <2>2 DEF Dirty, TypeOK
  <2>4. c \in Held \cup forced
    BY <1>3 DEF EpConfigure, EpCollect, FootprintIInv, FootprintInv, Armed, Held
  <2> QED BY <2>1, <2>3, <2>4 DEF ProtocolStep, Held
<1>4. CASE EpUncollect(c) \/ EpRevert(c)
  <2>1. UNCHANGED <<oba, forced>>
    BY <1>4 DEF EpUncollect, EpRevert, obaVars
  <2>2. PICK p : footprint' = [footprint EXCEPT ![c] = @ \ {p}]
    BY <1>4 DEF EpUncollect, EpRevert, Leave
  <2>3. Dirty' = Dirty \/ Dirty' = Dirty \ {c}
    BY <2>2, CleansOrNot DEF Dirty
  <2> QED BY <2>1, <2>3 DEF ProtocolStep, Held
<1>5. CASE EpRelease(c)
  <2>1. Dirty' = Dirty /\ c \notin Dirty
    BY <1>5 DEF EpRelease, spokeVars, Dirty, FootprintIInv, FootprintInv
  <2>2. CASE UNCHANGED <<oba, forced>>
    BY <2>1, <2>2 DEF ProtocolStep, Held
  <2>3. CASE oba' = [oba EXCEPT ![c] = Released(@)] /\ forced' = forced \ {c}
    <3>1. Held' = Held \ {c}
      BY <2>3 DEF Held, HasFinalizer, Released, TypeOK, ObaStates
    <3> QED BY <2>1, <2>3, <3>1 DEF ProtocolStep
  <2> QED BY <1>5, <2>2, <2>3 DEF EpRelease
<1> QED
  BY <1>1, <1>2, <1>3, <1>4, <1>5 DEF EndpointStep

LEMMA ProtocolNext == TypeOK /\ FootprintIInv /\ [Next]_vars => ProtocolStep
<1> SUFFICES ASSUME TypeOK, FootprintIInv, [Next]_vars PROVE ProtocolStep
  OBVIOUS
<1>1. ASSUME NEW c \in Clusters, deleteObsAddonObject(c) \/ createObsAddon(c) PROVE ProtocolStep
  BY <1>1, ProtocolPlacement
<1>2. ASSUME NEW c \in Clusters, EndpointStep(c) PROVE ProtocolStep
  BY <1>2, ProtocolEndpoint
<1>3. ASSUME NEW c \in Clusters, CollectGarbage(c) PROVE ProtocolStep
  <2>1. footprint' = [footprint EXCEPT ![c] = @ \ {"collector"}] /\ UNCHANGED <<oba, forced>>
    BY <1>3 DEF CollectGarbage, obaVars
  <2>2. Dirty' = Dirty \/ Dirty' = Dirty \ {c}
    BY <2>1, CleansOrNot DEF Dirty
  <2> QED BY <2>1, <2>2 DEF ProtocolStep, Held
<1>4. CASE UNCHANGED <<oba, forced, footprint>>
  BY <1>4 DEF ProtocolStep, Held, Dirty
<1> QED
  BY <1>1, <1>2, <1>3, <1>4
  DEF Next, PlacementStep, Reconcile, Sync, LoopDone, removeObservabilityAddonInManifestWork,
      deleteManagedClusterAddOn, createManagedClusterRes, createManifestWorks,
      createManifestwork, deleteManifestWorks, SyncOba, SyncWork, SyncMca,
      Agent, AgentApply, AgentRemoveAddon, AgentRemoveOperator, AgentFinish, Stall,
      McoaCleanup, Environment, SetMode, Attach, Detach, ImportDelete, McoaDeploy,
      Failure, HubError, HubRestart, EpError, obaVars, spokeVars, vars

\* The whole lifecycle, for any number of clusters, with trailing caches and
\* failing calls, implements the finalizer protocol: what is left in a cluster
\* is there under a finalizer, and the endpoint operator's initFinalization
\* takes it off only a clean cluster; deleteFinalizer is the only exception.
THEOREM LifecycleImplementsFinalizer == Spec => FinalizerHonoured
<1>1. Init => FootprintIInv
  BY DEF Init, FootprintIInv, FootprintInv, Armed
<1>2. Init => Finalizer!FinalizerInit
  BY DEF Init, Finalizer!FinalizerInit, HasFinalizer
<1>3. ProtocolStep => [Finalizer!FinalizerNext]_(Finalizer!finalizerVars)
  BY DEF ProtocolStep, Held, Dirty, Finalizer!FinalizerNext, Finalizer!finalizerVars,
         Finalizer!Hold, Finalizer!Soil, Finalizer!Clean, Finalizer!Release, Finalizer!Take
<1> QED
  BY <1>1, <1>2, <1>3, ProtocolNext, FootprintNext, TypeCorrect, PTL
  DEF Spec, FinalizerHonoured, Finalizer!FinalizerSpec

-----------------------------------------------------------------------------
(***************************************************************************)
(* SafeTeardown.  What Reconcile concluded about an OBA when it listed or   *)
(* deleted it has to stay true until the ManifestWork and the MCA are      *)
(* deleted, calls and loop iterations later, unless a trailing cache       *)
(* misled it there and then.                                               *)
(***************************************************************************)
Gone(c) == oba[c] = "none"

\* Reconcile is right about c, or was misled about it
Settled(c) == Gone(c) \/ c \in loop.misled

\* the call about the current cluster
CallInv ==
    /\ loop.step = "strip" =>
         /\ loop.phase \in {"clean", "orphan"}
         /\ IF loop.rq THEN loop.again ELSE Settled(loop.cur)
    /\ loop.step = "works" => loop.phase = "orphan" /\ Settled(loop.cur)
    /\ loop.step = "mca" /\ loop.phase # "create" => Settled(loop.cur)
    /\ loop.step \in {"addon", "work"} => loop.phase = "create"

\* the clusters of the loop that were, or will be, dealt with
ListInv ==
    /\ loop.phase = "clean" /\ ~loop.again => \A c \in loop.addons \ loop.todo : Settled(c)
    /\ loop.phase = "force" => \A c \in loop.todo : Settled(c)
    /\ loop.phase = "orphan" => \A c \in loop.res \ loop.addons : Settled(c)
    /\ loop.phase = "leftover" => \A c \in loop.todo \ loop.addons : Settled(c)

TeardownIInv == CallInv /\ ListInv

\* an OBA that is gone comes back only through createObsAddon
LEMMA GoneKept ==
    ASSUME TypeOK, Next, ~\E c \in Clusters : createObsAddon(c),
           NEW d \in Clusters, Gone(d)
    PROVE  Gone(d)'
<1>1. ASSUME NEW c \in Clusters, DeleteOba(c) \/ deleteFinalizer(c) PROVE Gone(d)'
  BY <1>1 DEF Gone, DeleteOba, deleteFinalizer, Released, Deleted, TypeOK
<1>2. ASSUME NEW c \in Clusters, EndpointStep(c) PROVE Gone(d)'
  BY <1>2 DEF EndpointStep, EpFetch, EpBranch, EpAddFinalizer, EpUnsupported, EpConfigure,
              EpCollect, EpUncollect, EpRevert, EpRelease, Released, Gone, TypeOK, obaVars
<1>3. CASE UNCHANGED oba
  BY <1>3 DEF Gone
<1>4. CASE PlacementStep
  BY <1>1, <1>3, <1>4
     DEF PlacementStep, LoopDone, removeObservabilityAddonInManifestWork,
         deleteManagedClusterAddOn, createManagedClusterRes, createManifestWorks,
         createManifestwork, deleteManifestWorks, deleteObsAddonObject, obaVars
<1>5. CASE \E c \in Clusters : Sync(c) \/ Agent(c) \/ CollectGarbage(c) \/ Stall(c)
  BY <1>3, <1>5
     DEF Sync, SyncOba, SyncWork, SyncMca, Agent, AgentApply, AgentRemoveAddon,
         AgentRemoveOperator, AgentFinish, CollectGarbage, Stall, obaVars
<1>6. CASE (\E r \in Requests : Reconcile(r)) \/ McoaCleanup \/ Environment \/ Failure
  BY <1>3, <1>6
     DEF Reconcile, McoaCleanup, Environment, SetMode, Attach, Detach, ImportDelete,
         McoaDeploy, Failure, HubError, HubRestart, EpError, obaVars
<1> QED BY <1>2, <1>4, <1>5, <1>6 DEF Next

\* a step that is not one of Reconcile's keeps the invariant
LEMMA TeardownFrame ==
    ASSUME TypeOK, TeardownIInv, Next, ~\E c \in Clusters : createObsAddon(c), UNCHANGED loop
    PROVE  TeardownIInv'
<1>1. \A c \in Clusters : Gone(c) => Gone(c)'
  BY GoneKept
<1>2. CallInv'
  BY <1>1 DEF TeardownIInv, CallInv, Settled, TypeOK
<1>3. ListInv'
  BY <1>1 DEF TeardownIInv, ListInv, Settled, TypeOK, LoopType
<1> QED BY <1>2, <1>3 DEF TeardownIInv

LEMMA IdleTeardown ==
    ASSUME loop' = Idle
    PROVE  TeardownIInv'
  BY DEF Idle, TeardownIInv, CallInv, ListInv

LEMMA DoneTeardown ==
    ASSUME TypeOK, TeardownIInv, NEW c \in Clusters, NEW b \in BOOLEAN,
           \A d \in Clusters : Gone(d) => Gone(d)',
           loop.phase = "clean" => loop.again \/ Settled(c)',
           loop' = [Done(c) EXCEPT !.again = b], loop.again => b
    PROVE  TeardownIInv'
<1>1. /\ loop'.step = "pick" /\ loop'.todo = loop.todo \ {c} /\ loop'.again = b
      /\ loop'.phase = loop.phase /\ loop'.addons = loop.addons /\ loop'.res = loop.res
      /\ loop'.misled = loop.misled
  BY DEF Done, TypeOK, LoopType
<1>2. \A d \in Clusters : Settled(d) => Settled(d)'
  BY <1>1 DEF Settled
<1>3. CallInv'
  BY <1>1 DEF CallInv, TeardownIInv
<1>4. ListInv'
  BY <1>1, <1>2 DEF TeardownIInv, ListInv, TypeOK, LoopType
<1> QED BY <1>3, <1>4 DEF TeardownIInv

\* nothing is claimed while createAllRelatedRes runs
LEMMA CreateTeardown ==
    ASSUME loop'.phase = "create", loop'.step \in {"pick", "mca", "addon", "work"}
    PROVE  TeardownIInv'
  BY DEF TeardownIInv, CallInv, ListInv

LEMMA TeardownCreation ==
    ASSUME TypeOK,
           \/ createManagedClusterRes \/ createManifestWorks \/ createManifestwork
           \/ \E c \in Clusters : createObsAddon(c)
    PROVE  TeardownIInv'
<1>1. ASSUME NEW c, loop.phase = "create",
             Fail(c) \/ loop' = Done(c) \/ loop' = Call(c, "mca") \/ loop' = Call(c, "addon")
      PROVE  TeardownIInv'
  <2>1. loop'.phase = "create" /\ loop'.step \in {"pick", "mca", "addon", "work"}
    BY <1>1 DEF Fail, Call, Done, TypeOK, LoopType
  <2> QED BY <2>1, CreateTeardown
<1>2. CASE createManagedClusterRes
  BY <1>1, <1>2 DEF createManagedClusterRes
<1>3. CASE createManifestWorks
  <2>1. loop'.phase = "create" /\ loop'.step = "work"
    BY <1>3 DEF createManifestWorks, getObservabilityAddon, TypeOK, LoopType
  <2> QED BY <2>1, CreateTeardown
<1>4. CASE createManifestwork
  BY <1>1, <1>4 DEF createManifestwork
<1>5. ASSUME NEW c \in Clusters, createObsAddon(c) PROVE TeardownIInv'
  BY <1>1, <1>5 DEF createObsAddon
<1> QED BY <1>2, <1>3, <1>4, <1>5

LEMMA TeardownReconcile ==
    ASSUME TypeOK, TeardownIInv, NEW r \in Requests, Reconcile(r)
    PROVE  TeardownIInv'
<1>1. CASE UNCHANGED loop
  <2>1. UNCHANGED oba
    BY DEF Reconcile, obaVars
  <2> QED BY <1>1, <2>1 DEF TeardownIInv, CallInv, ListInv, Gone, Settled
<1>2. ASSUME NEW S, loop' = Enter(r, "clean", S) \/ loop' = Enter(r, "create", S)
      PROVE TeardownIInv'
  BY <1>2 DEF Enter, Idle, TeardownIInv, CallInv, ListInv
<1> QED BY <1>1, <1>2 DEF Reconcile

LEMMA TeardownLoopDone ==
    ASSUME TypeOK, TeardownIInv, LoopDone
    PROVE  TeardownIInv'
<1>1. UNCHANGED oba /\ loop.step = "pick" /\ loop.todo = {}
  BY DEF LoopDone, obaVars
<1>2. CASE Return \/ ReturnAgain
  BY <1>2, IdleTeardown DEF Return, ReturnAgain
<1>3. CASE loop.phase = "clean" /\ ~loop.again /\ loop' = Goto("force", loop.addons)
  BY <1>1, <1>3 DEF Goto, TeardownIInv, CallInv, ListInv, Gone, Settled, TypeOK, LoopType
<1>4. CASE loop' = cleanOrphanResources
  BY <1>1, <1>4
     DEF cleanOrphanResources, Goto, ListAddons, Scope, TeardownIInv, CallInv, ListInv, Gone,
         Settled, TypeOK, LoopType
<1>5. CASE loop.phase = "orphan" /\ loop' = Goto("leftover", Leftovers)
  BY <1>1, <1>5 DEF Goto, Leftovers, TeardownIInv, CallInv, ListInv, Gone, Settled, TypeOK, LoopType
<1> QED BY <1>2, <1>3, <1>4, <1>5 DEF LoopDone

LEMMA TeardownDeleteObsAddonObject ==
    ASSUME TypeOK, TeardownIInv, Next,
           NEW c \in Clusters, deleteObsAddonObject(c)
    PROVE  TeardownIInv'
<1>1. loop.step = "pick" /\ loop.phase \in {"clean", "orphan", "leftover"}
  BY DEF deleteObsAddonObject
<1>2. \A d \in Clusters : Gone(d) => Gone(d)'
  BY <1>1, GoneKept DEF createObsAddon
<1>3. CASE ReturnAgain
  BY <1>3, IdleTeardown DEF ReturnAgain
<1>4. ASSUME NEW b \in BOOLEAN,
             loop' = IF loop.phase = "leftover"
                     THEN [Done(c) EXCEPT !.again = @ \/ b]
                     ELSE [Call(c, "strip") EXCEPT
                              !.again = @ \/ b, !.rq = b,
                              !.misled = IF b \/ oba'[c] = "none" THEN @ ELSE @ \cup {c}]
      PROVE  TeardownIInv'
  <2>1. CASE loop.phase = "leftover"
    <3>1. loop' = [Done(c) EXCEPT !.again = loop.again \/ b]
      BY <1>4, <2>1 DEF Done, TypeOK, LoopType
    <3> QED BY <3>1, <1>2, <2>1, DoneTeardown
  <2>2. CASE loop.phase # "leftover"
    <3>1. /\ loop'.step = "strip" /\ loop'.cur = c /\ loop'.rq = b
          /\ loop'.again = (loop.again \/ b)
          /\ loop'.phase = loop.phase /\ loop'.todo = loop.todo
          /\ loop'.addons = loop.addons /\ loop'.res = loop.res
          /\ loop'.misled = IF b \/ oba'[c] = "none" THEN loop.misled ELSE loop.misled \cup {c}
      BY <1>4, <2>2 DEF Call, TypeOK, LoopType
    <3>2. \A d \in Clusters : Settled(d) => Settled(d)'
      BY <1>2, <3>1 DEF Settled
    <3>3. b \/ Settled(c)'
      BY <3>1 DEF Settled, Gone
    <3>4. CallInv'
      BY <1>1, <2>2, <3>1, <3>3 DEF CallInv
    <3>5. ListInv'
      BY <1>1, <2>2, <3>1, <3>2 DEF TeardownIInv, ListInv, TypeOK, LoopType
    <3> QED BY <3>4, <3>5 DEF TeardownIInv
  <2> QED BY <2>1, <2>2
<1>5. HasFinalizer(obaC[c]) \in BOOLEAN
  BY DEF HasFinalizer
<1> QED BY <1>3, <1>4, <1>5 DEF deleteObsAddonObject

LEMMA TeardownDeletion ==
    ASSUME TypeOK, TeardownIInv,
           \/ removeObservabilityAddonInManifestWork \/ deleteManagedClusterAddOn
           \/ \E c \in Clusters : deleteManifestWorks(c)
    PROVE  TeardownIInv'
<1>1. UNCHANGED oba
  BY DEF removeObservabilityAddonInManifestWork, deleteManagedClusterAddOn,
         deleteManifestWorks, obaVars
<1>2. CASE removeObservabilityAddonInManifestWork
  <2>1. CASE ReturnAgain
    BY <2>1, IdleTeardown DEF ReturnAgain
  <2>2. CASE loop' = AfterDelete(loop.cur)
    BY <1>1, <1>2, <2>2
       DEF removeObservabilityAddonInManifestWork, AfterDelete, Call, Done, TeardownIInv,
           CallInv, ListInv, Gone, Settled, TypeOK, LoopType
  <2> QED BY <1>2, <2>1, <2>2 DEF removeObservabilityAddonInManifestWork
<1>3. CASE deleteManagedClusterAddOn
  BY <1>1, <1>3 DEF deleteManagedClusterAddOn, Done, TeardownIInv, CallInv, ListInv, Gone,
                    Settled, TypeOK, LoopType
<1>4. ASSUME NEW c \in Clusters, deleteManifestWorks(c) PROVE TeardownIInv'
  <2>1. Settled(c)
    BY <1>4 DEF deleteManifestWorks, TeardownIInv, CallInv, ListInv
  <2>2. /\ loop'.step = "mca" /\ loop'.cur = c
        /\ loop'.phase = loop.phase /\ loop'.again = loop.again
        /\ loop'.todo = loop.todo /\ loop'.addons = loop.addons /\ loop'.res = loop.res
        /\ loop'.misled = loop.misled
    BY <1>4 DEF deleteManifestWorks, Call, TypeOK, LoopType
  <2>3. CallInv'
    BY <1>1, <2>1, <2>2 DEF CallInv, Gone, Settled
  <2>4. ListInv'
    BY <1>1, <2>2 DEF TeardownIInv, ListInv, Gone, Settled
  <2> QED BY <2>3, <2>4 DEF TeardownIInv
<1> QED BY <1>2, <1>3, <1>4

LEMMA TeardownHubError ==
    ASSUME TypeOK, TeardownIInv, HubError
    PROVE  TeardownIInv'
<1>1. UNCHANGED oba
  BY DEF HubError, obaVars
<1>2. CASE ReturnAgain
  BY <1>2, IdleTeardown DEF ReturnAgain
<1>3. ASSUME NEW c \in Clusters, loop.phase = "create", Fail(c) PROVE TeardownIInv'
  <2>1. loop'.phase = "create" /\ loop'.step \in {"pick", "mca", "addon", "work"}
    BY <1>3 DEF Fail, Done, TypeOK, LoopType
  <2> QED BY <2>1, CreateTeardown
<1>4. ASSUME NEW c \in Clusters, loop.phase = "force", loop' = Done(c) PROVE TeardownIInv'
  BY <1>1, <1>4 DEF Done, TeardownIInv, CallInv, ListInv, Gone, Settled, TypeOK, LoopType
<1>5. ASSUME NEW c \in loop.todo, loop.phase = "force", loop' = Call(c, "mca")
      PROVE TeardownIInv'
  BY <1>1, <1>5 DEF Call, TeardownIInv, CallInv, ListInv, Gone, Settled, TypeOK, LoopType
<1> QED BY <1>2, <1>3, <1>4, <1>5 DEF HubError

LEMMA TeardownNext == TypeOK /\ TeardownIInv /\ [Next]_vars => TeardownIInv'
<1> SUFFICES ASSUME TypeOK, TeardownIInv, [Next]_vars PROVE TeardownIInv'
  OBVIOUS
<1>1. CASE UNCHANGED vars
  BY <1>1 DEF vars, ctrlVars, obaVars, TeardownIInv, CallInv, ListInv, Gone, Settled
<1>2. CASE Next /\ UNCHANGED loop /\ ~\E c \in Clusters : createObsAddon(c)
  BY <1>2, TeardownFrame
<1>3. ASSUME NEW r \in Requests, Reconcile(r) PROVE TeardownIInv'
  BY <1>3, TeardownReconcile
<1>4. CASE Next /\ PlacementStep
  BY <1>4, TeardownLoopDone, TeardownDeletion, TeardownCreation, TeardownDeleteObsAddonObject
     DEF PlacementStep
<1>5. CASE HubError
  BY <1>5, TeardownHubError
<1>6. CASE HubRestart
  BY <1>6, IdleTeardown DEF HubRestart
<1>7. CASE Next /\ ~PlacementStep /\ ~HubError /\ ~HubRestart /\ ~\E r \in Requests : Reconcile(r)
  <2>1. UNCHANGED loop
    BY <1>7 DEF Next, Sync, SyncOba, SyncWork, SyncMca, EndpointStep, EpFetch, EpBranch,
       EpAddFinalizer, EpUnsupported, EpConfigure, EpCollect, EpUncollect, EpRevert, EpRelease,
       Agent, AgentApply, AgentRemoveAddon, AgentRemoveOperator, AgentFinish, CollectGarbage,
       Stall, McoaCleanup, Environment, SetMode, Attach, Detach, ImportDelete, McoaDeploy,
       Failure, EpError, ctrlVars
  <2> QED BY <1>2, <1>7, <2>1 DEF PlacementStep
<1> QED BY <1>1, <1>3, <1>4, <1>5, <1>6, <1>7

\* However far the informer caches trail, the placement controller deletes the
\* ManifestWork or the MCA of a cluster that still has an OBA only when that same
\* Reconcile, at the place where it listed or deleted the OBA, was shown none, or
\* one without its finalizer: no failing call, restart, request about another
\* cluster or change the administrator makes between two calls of a Reconcile
\* brings it there, for any number of clusters.
THEOREM TeardownIsSafe == Spec => SafeTeardown
<1>1. Init => TeardownIInv
  <2>1. Idle.phase = "idle" /\ Idle.step = "pick"
    BY DEF Idle
  <2> QED BY <2>1 DEF Init, TeardownIInv, CallInv, ListInv
<1>2. ASSUME TypeOK, TeardownIInv, [Next]_vars, NEW c \in Clusters, TearsDown(c)
      PROVE  Settled(c)
  <2>1. Next /\ loop' # loop
    BY <1>2 DEF TearsDown, vars, ctrlVars
  <2>2. CASE deleteManagedClusterAddOn
    BY <1>2, <2>2 DEF deleteManagedClusterAddOn, TearsDown, TeardownIInv, CallInv, TypeOK
  <2>3. ASSUME NEW d \in Clusters, deleteManifestWorks(d) PROVE Settled(c)
    <3>1. c = d
      BY <1>2, <2>3 DEF deleteManifestWorks, TearsDown, TypeOK
    <3> QED
      BY <1>2, <2>3, <3>1 DEF deleteManifestWorks, TeardownIInv, CallInv, ListInv
  <2>4. CASE \/ Failure \/ (\E r \in Requests : Reconcile(r)) \/ LoopDone \/ createManifestWorks
             \/ \E d \in Clusters : deleteObsAddonObject(d) \/ createObsAddon(d)
    <3>1. UNCHANGED <<mca, work>>
      BY <2>1, <2>4 DEF Failure, HubError, HubRestart, EpError, Reconcile, LoopDone,
                  createManifestWorks, deleteObsAddonObject, createObsAddon, apiVars
    <3> QED BY <1>2, <3>1 DEF TearsDown
  <2>5. CASE removeObservabilityAddonInManifestWork \/ createManagedClusterRes \/ createManifestwork
    <3>1. mca \subseteq mca' /\ (work'[c] = work[c] \/ work'[c] # "terminating")
      BY <2>5, <1>2 DEF removeObservabilityAddonInManifestWork, createManagedClusterRes,
                        createManifestwork, TypeOK
    <3> QED BY <1>2, <3>1 DEF TearsDown
  <2>6. CASE Next /\ ~PlacementStep /\ ~Failure /\ ~\E r \in Requests : Reconcile(r)
    <3>1. UNCHANGED loop
      BY <2>6 DEF Next, Sync, SyncOba, SyncWork, SyncMca, EndpointStep, EpFetch, EpBranch,
         EpAddFinalizer, EpUnsupported, EpConfigure, EpCollect, EpUncollect, EpRevert, EpRelease,
         Agent, AgentApply, AgentRemoveAddon, AgentRemoveOperator, AgentFinish, CollectGarbage,
         Stall, McoaCleanup, Environment, SetMode, Attach, Detach, ImportDelete, McoaDeploy,
         ctrlVars
    <3> QED BY <2>1, <3>1
  <2> QED BY <2>1, <2>2, <2>3, <2>4, <2>5, <2>6 DEF PlacementStep
<1>3. TypeOK /\ TeardownIInv /\ [Next]_vars
        => [\A c \in Clusters : TearsDown(c) => Settled(c)]_vars
  BY <1>2
<1> QED
  BY <1>1, <1>3, TeardownNext, TypeCorrect, PTL DEF Spec, SafeTeardown, Settled, Gone

=============================================================================
