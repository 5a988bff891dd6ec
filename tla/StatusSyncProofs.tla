-------------------------- MODULE StatusSyncProofs --------------------------
(***************************************************************************)
(* Theorems about StatusSync: for any reports, any bounds and any failures *)
(* the theorems do not exclude by name.                                    *)
(***************************************************************************)
EXTENDS StatusSync, TLAPS

-----------------------------------------------------------------------------
(***************************************************************************)
(* Facts about the aggregation                                             *)
(***************************************************************************)
\* Every reason has a priority (newReason knows all reasons of pkg/status).
LEMMA PriorityIsNat == \A r \in Reasons : Priority[r] \in Nat
<1>1. SUFFICES ASSUME NEW r \in Reasons PROVE Priority[r] \in Nat
  OBVIOUS
<1>2. Priority["Disabled"] = 1 /\ Priority["ForwardSuccessful"] = 2
      /\ Priority["CMOReconcileLoopStopped"] = 3 /\ Priority["UpdateSuccessful"] = 4
  BY DEF Priority
<1>3. Priority["ForwardFailed"] = 5 /\ Priority["CMOReconcileLoopDetected"] = 6
      /\ Priority["UpdateFailed"] = 7 /\ Priority["NotSupported"] = 8
  BY DEF Priority
<1>4. QED
  BY <1>2, <1>3 DEF Reasons

\* When some component has reported, one of them leads: aggregateComponentsConditions
\* compares the priorities of at most two components and breaks the tie.
LEMMA LeadingReports ==
    ASSUME NEW comp \in [Components -> Reported], Reporting(comp) # {}
    PROVE  Leading(comp) \in Reporting(comp)
<1> DEFINE R == Reporting(comp)
           Beats(c) == \A d \in R \ {c} :
                          \/ Priority[comp[c]] > Priority[comp[d]]
                          \/ Priority[comp[c]] = Priority[comp[d]] /\ c = "MetricsCollector"
           m == "MetricsCollector"
           u == "UwlMetricsCollector"
<1>1. R \subseteq {m, u} /\ \A c \in R : Priority[comp[c]] \in Nat
  <2>1. R \subseteq {m, u} /\ \A c \in R : comp[c] \in Reasons
    BY DEF Reporting, Components, Reported
  <2>2. QED
    BY <2>1, PriorityIsNat
<1>2. \E c \in R : Beats(c)
  <2>1. CASE m \notin R
    <3>1. R = {u}
      BY <1>1, <2>1
    <3>2. QED
      BY <3>1
  <2>2. CASE u \notin R
    <3>1. R = {m}
      BY <1>1, <2>2
    <3>2. QED
      BY <3>1
  <2>3. CASE m \in R /\ u \in R /\ Priority[comp[u]] > Priority[comp[m]]
    <3>1. R \ {u} = {m}
      BY <1>1, <2>3
    <3>2. Beats(u)
      BY <3>1, <2>3
    <3>3. QED
      BY <3>2, <2>3
  <2>4. CASE m \in R /\ u \in R /\ ~(Priority[comp[u]] > Priority[comp[m]])
    <3>1. R \ {m} = {u}
      BY <1>1, <2>4
    <3>2. Priority[comp[m]] > Priority[comp[u]] \/ Priority[comp[m]] = Priority[comp[u]]
      BY <1>1, <2>4
    <3>3. Beats(m)
      BY <3>1, <3>2
    <3>4. QED
      BY <3>3, <2>4
  <2>5. QED
    BY <2>1, <2>2, <2>3, <2>4
<1>3. Leading(comp) = CHOOSE c \in R : Beats(c)
  BY DEF Leading
<1>4. QED
  BY <1>2, <1>3

\* The aggregated condition is one of the three standard ones.
LEMMA StdTypeIsStandard == \A r : StdType(r) \in StdTypes
  BY DEF StdType, StdTypes

LEMMA AggregatedIsStandard ==
    ASSUME NEW comp
    PROVE  aggregateComponentsConditions(comp).type \in StdTypes
  BY StdTypeIsStandard DEF aggregateComponentsConditions

\* With a component that has reported, it is a well-formed condition.
LEMMA AggregatedType ==
    ASSUME NEW comp \in [Components -> Reported], Reporting(comp) # {}
    PROVE  [status |-> "True", reason |-> aggregateComponentsConditions(comp).reason,
            by |-> aggregateComponentsConditions(comp).by] \in StdConds
<1> DEFINE a == aggregateComponentsConditions(comp)
<1>1. Leading(comp) \in Components
  BY LeadingReports DEF Reporting
<1>2. a.reason \in Reported /\ a.by \in Components \cup {"addon"}
  BY <1>1 DEF aggregateComponentsConditions
<1>3. QED
  BY <1>2 DEF StdConds

\* resetMainConditionsStatus keeps the type and leaves no condition True.
LEMMA ResetConditions ==
    ASSUME NEW std \in Conditions
    PROVE  /\ resetMainConditionsStatus(std) \in Conditions
           /\ \A t \in StdTypes : resetMainConditionsStatus(std)[t].status # "True"
<1>1. \A t \in StdTypes : std[t] \in StdConds
  BY DEF Conditions
<1>2. \A t \in StdTypes : [std[t] EXCEPT !.status = "False"] \in StdConds
  BY <1>1 DEF StdConds
<1>3. Absent \in StdConds /\ Absent.status = "absent"
  BY DEF Absent, StdConds, Reported
<1>4. QED
  BY <1>1, <1>2, <1>3 DEF resetMainConditionsStatus, Conditions, StdConds

\* What the status controller writes: a status of the type, that shows the
\* leading component and has no other condition True.
LEMMA AggregatedStatus ==
    ASSUME NEW s \in Statuses, Reporting(s.comp) # {}
    PROVE  /\ Aggregated(s) \in Statuses
           /\ Aggregated(s).comp = s.comp
           /\ AtMostOneTrue(Aggregated(s).std)
           /\ Shows(Aggregated(s).std, s.comp)
<1> DEFINE a == aggregateComponentsConditions(s.comp)
           new == [status |-> "True", reason |-> a.reason, by |-> a.by]
           reset == resetMainConditionsStatus(s.std)
<1>1. s.comp \in [Components -> Reported] /\ s.std \in Conditions
  BY DEF Statuses
<1>2. new \in StdConds /\ a.type \in StdTypes
  BY <1>1, AggregatedType, AggregatedIsStandard
<1>3. reset \in Conditions /\ \A t \in StdTypes : reset[t].status # "True"
  BY <1>1, ResetConditions
<1>4. Aggregated(s) = [s EXCEPT !.std = [reset EXCEPT ![a.type] = new]]
  BY DEF Aggregated
<1> HIDE DEF a, new, reset
<1>5. /\ [reset EXCEPT ![a.type] = new] \in Conditions
      /\ [reset EXCEPT ![a.type] = new][a.type] = new
      /\ \A t \in StdTypes \ {a.type} : [reset EXCEPT ![a.type] = new][t].status # "True"
  BY <1>2, <1>3 DEF Conditions
<1>6. /\ Aggregated(s).std = [reset EXCEPT ![a.type] = new]
      /\ Aggregated(s).comp = s.comp
      /\ Aggregated(s) \in Statuses
  BY <1>4, <1>5, <1>1 DEF Statuses
<1>7. AtMostOneTrue(Aggregated(s).std)
  BY <1>5, <1>6 DEF AtMostOneTrue
<1>8. Shows(Aggregated(s).std, s.comp)
  BY <1>5, <1>6 DEF Shows, a, new
<1>9. QED
  BY <1>6, <1>7, <1>8

LEMMA NoStatusType ==
    /\ NoStatus \in Statuses /\ NoConditions \in Conditions
    /\ AtMostOneTrue(NoStatus.std) /\ Reporting(NoStatus.comp) = {}
<1>1. Absent \in StdConds /\ Absent.status = "absent"
  BY DEF Absent, StdConds, Reported
<1>2. NoConditions \in Conditions
  BY <1>1 DEF NoConditions, Conditions
<1>3. NoStatus \in Statuses
  BY <1>2 DEF NoStatus, Statuses, Reported
<1>4. AtMostOneTrue(NoStatus.std)
  BY <1>1 DEF AtMostOneTrue, NoStatus, NoConditions
<1>5. Reporting(NoStatus.comp) = {}
  BY DEF Reporting, NoStatus
<1>6. QED
  BY <1>2, <1>3, <1>4, <1>5

-----------------------------------------------------------------------------
(***************************************************************************)
(* Type correctness                                                        *)
(***************************************************************************)
LEMMA InitializedType ==
    ASSUME NEW conds \in Conditions
    PROVE  /\ Initialized(conds) \in Conditions
           /\ \A t \in StdTypes \ {"Progressing"} : Initialized(conds)[t] = conds[t]
           /\ Initialized(conds)["Progressing"].by = "creation"
<1>1. By("creation", "True") \in StdConds /\ By("creation", "True").by = "creation"
  BY DEF By, StdConds, Reported, Others
<1>2. "Progressing" \in StdTypes
  BY DEF StdTypes
<1>3. QED
  BY <1>1, <1>2 DEF Initialized, Conditions

LEMMA TypeInit == Init => TypeOK
<1> SUFFICES ASSUME Init PROVE TypeOK
  OBVIOUS
<1>1. count \in [EnvKinds -> Nat]
  BY DEF Init
<1>2. /\ local \in Statuses /\ cached \in Statuses /\ snap \in Statuses
      /\ hub \in Statuses /\ hubSnap \in Statuses /\ hubCached \in Statuses
      /\ mca \in Conditions /\ mcaC \in Conditions
  BY NoStatusType, InitializedType DEF Init, CreateManagedClusterAddonCR
<1> QED
  BY <1>1, <1>2 DEF Init, TypeOK

\* One more environment step is still a count.
LEMMA CountType ==
    ASSUME TypeOK, NEW k \in EnvKinds, NEW bound, Happens(k, bound)
    PROVE  count' \in [EnvKinds -> Nat]
  BY DEF TypeOK, Happens

\* The ways Reconcile of the status controller ends.
LEMMA ReturnType ==
    ASSUME TypeOK, Return
    PROVE  /\ pc' \in {"idle", "spoke", "hub", "hubwrite"}
           /\ snap' \in Statuses /\ valid' \in BOOLEAN
           /\ hubSnap' \in Statuses /\ hubValid' \in BOOLEAN
  BY NoStatusType DEF Return

LEMMA RetryType ==
    ASSUME TypeOK, Retry
    PROVE  Return /\ pending' \in BOOLEAN /\ timer' \in BOOLEAN
  BY DEF TypeOK, Retry

LEMMA DropType ==
    ASSUME TypeOK, Drop
    PROVE  Return /\ pending' \in BOOLEAN /\ timer' \in BOOLEAN
  BY DEF TypeOK, Drop

LEMMA ReconciledType ==
    ASSUME TypeOK, Reconciled
    PROVE  Return /\ pending' \in BOOLEAN /\ timer' \in BOOLEAN
  BY DEF TypeOK, Reconciled

LEMMA ReportedStatus ==
    ASSUME NEW s \in Statuses, NEW c \in Components, NEW r \in Reported
    PROVE  /\ [s EXCEPT !.comp[c] = r] \in Statuses
           /\ [s EXCEPT !.comp[c] = r].std = s.std
  BY DEF Statuses

LEMMA TypeReport ==
    ASSUME TypeOK, NEW c \in Reporters, NEW r \in Reports, Report(c, r)
    PROVE  TypeOK'
<1>1. c \in Components /\ r \in Reported
  BY ReportsAssumption DEF Reported
<1>2. local' \in Statuses
  BY <1>1, ReportedStatus DEF Report, TypeOK
<1>3. count' \in [EnvKinds -> Nat]
  BY CountType DEF Report, EnvKinds
<1> QED
  BY <1>2, <1>3 DEF TypeOK, Report, hubVars, hubSnapVars, pctlVars, mcaVars

LEMMA TypeRecreate == TypeOK /\ Recreate => TypeOK'
<1> SUFFICES ASSUME TypeOK, Recreate PROVE TypeOK'
  OBVIOUS
<1>1. count' \in [EnvKinds -> Nat]
  BY CountType DEF Recreate, EnvKinds
<1> QED
  BY <1>1, NoStatusType DEF TypeOK, Recreate, hubVars, hubSnapVars, pctlVars, mcaVars

LEMMA TypeSyncLocal == TypeOK /\ SyncLocal => TypeOK'
  BY DEF TypeOK, SyncLocal, ComponentChangeWakes, hubVars, hubSnapVars, pctlVars, mcaVars

LEMMA TypeUpdateSpokeAddon == TypeOK /\ updateSpokeAddon => TypeOK'
  BY DEF TypeOK, updateSpokeAddon, localVars, hubVars, hubSnapVars, pctlVars, mcaVars

\* The controller updates the local OBA only for components that reported.
SpokeReports == pc = "spoke" => Reporting(snap.comp) # {}

LEMMA TypeSpokeStatusUpdate == TypeOK /\ SpokeReports /\ SpokeStatusUpdate => TypeOK'
<1> SUFFICES ASSUME TypeOK, SpokeReports, SpokeStatusUpdate PROVE TypeOK'
  OBVIOUS
<1>1. CASE valid
  <2>1. Aggregated(snap) \in Statuses
    BY AggregatedStatus DEF TypeOK, SpokeReports, SpokeStatusUpdate
  <2> QED
    BY <1>1, <2>1, NoStatusType DEF TypeOK, SpokeStatusUpdate, hubSnapVars, pctlVars, mcaVars
<1>2. CASE ~valid
  <2>1. Retry
    BY <1>2 DEF SpokeStatusUpdate
  <2> QED
    BY <1>2, <2>1, RetryType, ReturnType DEF TypeOK, SpokeStatusUpdate, pctlVars, mcaVars
<1> QED
  BY <1>1, <1>2

LEMMA TypeUpdateHubAddon == TypeOK /\ updateHubAddon => TypeOK'
  BY DEF TypeOK, updateHubAddon, localVars, pctlVars, mcaVars

LEMMA TypeHubStatusUpdate == TypeOK /\ HubStatusUpdate => TypeOK'
<1> SUFFICES ASSUME TypeOK, HubStatusUpdate PROVE TypeOK'
  OBVIOUS
<1>1. Return /\ pending' \in BOOLEAN /\ timer' \in BOOLEAN
  BY RetryType, ReconciledType DEF HubStatusUpdate
<1> QED
  BY <1>1, ReturnType DEF TypeOK, HubStatusUpdate, localVars, pctlVars, mcaVars

LEMMA TypeHubPanic == TypeOK /\ HubPanic => TypeOK'
  BY RetryType, ReturnType DEF TypeOK, HubPanic, localVars, pctlVars, mcaVars

LEMMA TypeRequeueAfter == TypeOK /\ RequeueAfter => TypeOK'
  BY DEF TypeOK, RequeueAfter, localVars, hubVars, hubSnapVars, pctlVars, mcaVars

LEMMA TypeHubTouch == TypeOK /\ HubTouch => TypeOK'
<1> SUFFICES ASSUME TypeOK, HubTouch PROVE TypeOK'
  OBVIOUS
<1>1. count' \in [EnvKinds -> Nat]
  BY CountType DEF HubTouch, EnvKinds
<1> QED
  BY <1>1 DEF TypeOK, HubTouch, localVars, sctlVars, pctlVars, mcaVars

LEMMA TypeSyncHub == TypeOK /\ SyncHub => TypeOK'
  BY DEF TypeOK, SyncHub, localVars, sctlVars, hubVars, hubSnapVars, mcaVars

LEMMA TypeSyncMca == TypeOK /\ SyncMca => TypeOK'
  BY DEF TypeOK, SyncMca, localVars, sctlVars, hubVars, hubSnapVars, pctlVars

LEMMA TypeUpdateStatus ==
    ASSUME TypeOK, NEW q \in requests, updateStatus(q)
    PROVE  TypeOK'
<1>1. mca' \in Conditions
  BY DEF TypeOK, updateStatus, updateAddonStatus, Conditions, Statuses
<1> QED
  BY <1>1 DEF TypeOK, updateStatus, localVars, sctlVars, hubVars, hubSnapVars

\* The other writers of the MCA touch nothing else.
LEMMA McaWriterLeaves ==
    ASSUME McaWriter
    PROVE  UNCHANGED <<localVars, sctlVars, hubVars, pctlVars, mcaC>>
  BY DEF McaWriter, updateManagedClusterAddOnStatus, RegistrationAgent

\* What they write of it is one condition, and marked as theirs.
LEMMA McaWriterWrites ==
    ASSUME TypeOK, McaWriter
    PROVE  /\ mca' \in Conditions
           /\ \A t \in Replicated(mca') : mca'[t] = mca[t] /\ t \in Replicated(mca)
           /\ count' \in [EnvKinds -> Nat]
<1>1. CASE updateManagedClusterAddOnStatus
  <2>1. mca \in Conditions /\ mca' = Initialized(mca) /\ count' = count
    BY <1>1 DEF TypeOK, updateManagedClusterAddOnStatus
  <2> QED
    BY <2>1, InitializedType DEF TypeOK, Replicated, Others
<1>2. ASSUME NEW status \in {"True", "False"}, RegistrationAgent(status)
      PROVE  /\ mca' \in Conditions
             /\ \A t \in Replicated(mca') : mca'[t] = mca[t] /\ t \in Replicated(mca)
             /\ count' \in [EnvKinds -> Nat]
  <2>1. count' \in [EnvKinds -> Nat]
    BY <1>2, CountType DEF RegistrationAgent, EnvKinds
  <2>2. By("agent", status) \in StdConds /\ By("agent", status).by = "agent"
    BY DEF By, StdConds, Reported, Others
  <2>3. "Available" \in StdTypes /\ mca \in [StdTypes -> StdConds]
    BY DEF StdTypes, TypeOK, Conditions
  <2>4. mca' = [mca EXCEPT !["Available"] = By("agent", status)]
    BY <1>2 DEF RegistrationAgent
  <2>5. /\ mca' \in [StdTypes -> StdConds] /\ mca'["Available"].by = "agent"
        /\ \A t \in StdTypes \ {"Available"} : mca'[t] = mca[t]
    BY <2>2, <2>3, <2>4
  <2> QED
    BY <2>1, <2>5 DEF Conditions, Replicated, Others
<1> QED
  BY <1>1, <1>2 DEF McaWriter

LEMMA TypeMcaWriter == TypeOK /\ McaWriter => TypeOK'
  BY McaWriterLeaves, McaWriterWrites DEF TypeOK, localVars, sctlVars, hubVars, hubSnapVars, pctlVars

LEMMA TypeFailure == TypeOK /\ Failure => TypeOK'
<1> SUFFICES ASSUME TypeOK, Failure PROVE TypeOK'
  OBVIOUS
<1>1. count' \in [EnvKinds -> Nat]
  BY CountType DEF Failure, Fails, SpokeError, HubError, TerminalError, ReloadError,
                   EndpointRestart, PlacementRestart, EnvKinds
<1>2. CASE SpokeError
  BY <1>1, <1>2, RetryType, ReturnType DEF TypeOK, SpokeError, localVars, pctlVars, mcaVars
<1>3. CASE HubError
  BY <1>1, <1>3, RetryType, ReturnType DEF TypeOK, HubError, localVars, pctlVars, mcaVars
<1>4. CASE TerminalError
  BY <1>1, <1>4, DropType, ReturnType DEF TypeOK, TerminalError, localVars, pctlVars, mcaVars
<1>5. CASE ReloadError
  BY <1>1, <1>5, DropType, ReturnType DEF TypeOK, ReloadError, localVars, pctlVars, mcaVars
<1>6. CASE EndpointRestart
  BY <1>1, <1>6, ReturnType DEF TypeOK, EndpointRestart, pctlVars, mcaVars
<1>7. CASE PlacementRestart
  BY <1>1, <1>7 DEF TypeOK, PlacementRestart, localVars, sctlVars, hubVars, hubSnapVars
<1> QED
  BY <1>2, <1>3, <1>4, <1>5, <1>6, <1>7 DEF Failure

-----------------------------------------------------------------------------
(***************************************************************************)
(* The inductive invariant of the types: TypeOK needs to know that what    *)
(* the status controller read, it read of components that reported.        *)
(***************************************************************************)
TypeIInv == TypeOK /\ SpokeReports

LEMMA TypeIInvInit == Init => TypeIInv
  BY TypeInit DEF Init, TypeIInv, SpokeReports

LEMMA SpokeReportsKept == TypeIInv /\ [Next]_vars => SpokeReports'
<1> SUFFICES ASSUME TypeIInv, [Next]_vars PROVE SpokeReports'
  OBVIOUS
<1> USE DEF SpokeReports, TypeIInv
<1>1. CASE pc' = pc /\ snap' = snap
  BY <1>1
<1>2. CASE pc' # "spoke"
  BY <1>2
<1>3. CASE updateSpokeAddon
  BY <1>3 DEF updateSpokeAddon
<1>4. CASE Return
  BY <1>4 DEF Return
<1>5. CASE \E c \in Reporters, r \in Reports : Report(c, r)
  BY <1>5, <1>1 DEF Report
<1>6. CASE Recreate \/ SyncLocal \/ RequeueAfter
  BY <1>6, <1>1 DEF Recreate, SyncLocal, RequeueAfter
<1>7. CASE SpokeStatusUpdate
  BY <1>7, <1>2, <1>4 DEF SpokeStatusUpdate, Retry
<1>8. CASE updateHubAddon \/ HubStatusUpdate \/ HubPanic
  BY <1>8, <1>2, <1>4 DEF updateHubAddon, HubStatusUpdate, HubPanic, Retry, Reconciled
<1>9. CASE HubTouch \/ SyncHub \/ SyncMca \/ McaWriter \/ \E q \in requests : updateStatus(q)
  BY <1>9, <1>1, McaWriterLeaves DEF HubTouch, SyncHub, SyncMca, updateStatus, sctlVars
<1>10. CASE Failure
  BY <1>10, <1>1, <1>4 DEF Failure, SpokeError, HubError, TerminalError, ReloadError,
                           EndpointRestart, PlacementRestart, Retry, Drop, sctlVars
<1>11. CASE UNCHANGED vars
  BY <1>11, <1>1 DEF vars, sctlVars
<1> QED
  BY <1>3, <1>5, <1>6, <1>7, <1>8, <1>9, <1>10, <1>11 DEF Next, StatusStep

LEMMA TypeIInvStep == TypeIInv /\ [Next]_vars => TypeIInv'
<1> SUFFICES ASSUME TypeIInv, [Next]_vars PROVE TypeOK'
  BY SpokeReportsKept DEF TypeIInv
<1> USE DEF TypeIInv
<1>1. CASE \E c \in Reporters, r \in Reports : Report(c, r)
  BY <1>1, TypeReport
<1>2. CASE Recreate \/ SyncLocal \/ RequeueAfter \/ HubTouch
  BY <1>2, TypeRecreate, TypeSyncLocal, TypeRequeueAfter, TypeHubTouch
<1>3. CASE StatusStep
  BY <1>3, TypeUpdateSpokeAddon, TypeSpokeStatusUpdate, TypeUpdateHubAddon,
     TypeHubStatusUpdate, TypeHubPanic DEF StatusStep
<1>4. CASE SyncHub \/ SyncMca \/ McaWriter \/ \E q \in requests : updateStatus(q)
  BY <1>4, TypeSyncHub, TypeSyncMca, TypeUpdateStatus, TypeMcaWriter
<1>5. CASE Failure
  BY <1>5, TypeFailure
<1>6. CASE UNCHANGED vars
  BY <1>6 DEF TypeOK, vars, localVars, sctlVars, hubVars, hubSnapVars, pctlVars, mcaVars
<1> QED
  BY <1>1, <1>2, <1>3, <1>4, <1>5, <1>6 DEF Next

\* Every copy of the status is well formed in every reachable state: in
\* particular the aggregation always finds a leading component where the status
\* controller needs one.
THEOREM TypeCorrect == Spec => []TypeOK
<1>1. Init => TypeIInv
  BY TypeIInvInit
<1>2. TypeIInv /\ [Next]_vars => TypeIInv'
  BY TypeIInvStep
<1>3. TypeIInv => TypeOK
  BY DEF TypeIInv
<1> QED
  BY <1>1, <1>2, <1>3, PTL DEF Spec

-----------------------------------------------------------------------------
(***************************************************************************)
(* At most one standard condition is True.  The status controller copies   *)
(* whole statuses between the caches, its own variables and the hub, so    *)
(* the inductive invariant says it of every copy.                          *)
(***************************************************************************)
ExclusiveIInv ==
    /\ AtMostOneTrue(local.std) /\ AtMostOneTrue(cached.std)
    /\ AtMostOneTrue(hub.std)

LEMMA ExclusiveStep == TypeIInv /\ ExclusiveIInv /\ [Next]_vars => ExclusiveIInv'
<1> SUFFICES ASSUME TypeIInv, ExclusiveIInv, [Next]_vars PROVE ExclusiveIInv'
  OBVIOUS
<1> USE DEF ExclusiveIInv
<1>1. CASE UNCHANGED <<local, cached, hub>>
  BY <1>1
<1>2. CASE \E c \in Reporters, r \in Reports : Report(c, r)
  <2>1. PICK c \in Reporters, r \in Reports : Report(c, r)
    BY <1>2
  <2>2. c \in Components /\ r \in Reported /\ local \in Statuses
    BY ReportsAssumption DEF Reported, TypeIInv, TypeOK
  <2>3. local'.std = local.std
    BY <2>1, <2>2, ReportedStatus DEF Report
  <2> QED
    BY <2>1, <2>3 DEF Report, hubVars
<1>3. CASE Recreate
  BY <1>3, NoStatusType DEF Recreate, hubVars
<1>4. CASE SyncLocal
  BY <1>4 DEF SyncLocal, hubVars
<1>5. CASE SpokeStatusUpdate
  <2>1. CASE valid
    <3>1. AtMostOneTrue(Aggregated(snap).std)
      BY <1>5, AggregatedStatus DEF SpokeStatusUpdate, TypeIInv, TypeOK, SpokeReports
    <3> QED
      BY <1>5, <2>1, <3>1 DEF SpokeStatusUpdate
  <2>2. CASE ~valid
    BY <1>5, <2>2 DEF SpokeStatusUpdate
  <2> QED
    BY <2>1, <2>2
<1>6. CASE HubStatusUpdate
  BY <1>6 DEF HubStatusUpdate, localVars
<1>7. CASE updateSpokeAddon \/ updateHubAddon \/ HubPanic \/ RequeueAfter \/ HubTouch
  BY <1>7, <1>1 DEF updateSpokeAddon, updateHubAddon, HubPanic, RequeueAfter, HubTouch,
                    localVars, hubVars
<1>8. CASE SyncHub \/ SyncMca \/ McaWriter \/ \E q \in requests : updateStatus(q)
  BY <1>8, <1>1, McaWriterLeaves DEF SyncHub, SyncMca, updateStatus, localVars, hubVars
<1>9. CASE Failure
  BY <1>9, <1>1 DEF Failure, SpokeError, HubError, TerminalError, ReloadError,
                    EndpointRestart, PlacementRestart, localVars, hubVars
<1>10. CASE UNCHANGED vars
  BY <1>10, <1>1 DEF vars, localVars, hubVars
<1> QED
  BY <1>2, <1>3, <1>4, <1>5, <1>6, <1>7, <1>8, <1>9, <1>10 DEF Next, StatusStep

\* The standard conditions of the local OBA and of the hub OBA are mutually
\* exclusive, whatever is reported, whatever fails and however far the caches
\* trail (updateSpokeAddon, updateHubAddon).
THEOREM StandardConditionsExclusive == Spec => []OneStandardConditionTrue
<1>1. Init => TypeIInv /\ ExclusiveIInv
  BY TypeIInvInit, NoStatusType DEF Init, ExclusiveIInv
<1>2. TypeIInv /\ ExclusiveIInv /\ [Next]_vars => (TypeIInv /\ ExclusiveIInv)'
  BY TypeIInvStep, ExclusiveStep
<1>3. ExclusiveIInv => OneStandardConditionTrue
  BY DEF ExclusiveIInv, OneStandardConditionTrue
<1> QED
  BY <1>1, <1>2, <1>3, PTL DEF Spec

-----------------------------------------------------------------------------
(***************************************************************************)
(* No report is lost.                                                      *)
(***************************************************************************)
\* What the controller works on: a cache that is current holds the local OBA,
\* and what it will be allowed to write was read from such a cache.
CacheInv ==
    /\ current => cached = local
    /\ valid => current /\ snap = local

\* Unless a request waits or an update is about to be made, the standard
\* conditions show what the cache says of the components, and they are ahead
\* of the cache only after an update that made them show it.
ShownInv ==
    /\ ~pending /\ pc # "spoke" => Shows(local.std, cached.comp)
    /\ cached.std # local.std => Shows(local.std, cached.comp)

ShownIInv == CacheInv /\ ShownInv

NoSilentLoss == "restart" \notin Failures /\ "spokeTerminal" \notin Failures

\* shouldUpdateConditions is false only of conditions that show the components.
LEMMA ShouldUpdate ==
    ASSUME NEW s
    PROVE  (Reporting(s.comp) # {} /\ shouldUpdateConditions(s)) \/ Shows(s.std, s.comp)
  BY DEF shouldUpdateConditions, Shows

LEMMA ShownSpokeStatusUpdate ==
    TypeIInv /\ ShownIInv /\ SpokeStatusUpdate => ShownIInv'
<1> SUFFICES ASSUME TypeIInv, ShownIInv, SpokeStatusUpdate PROVE ShownIInv'
  OBVIOUS
<1> USE DEF ShownIInv, CacheInv, ShownInv
<1>1. CASE valid
  <2>1. snap \in Statuses /\ Reporting(snap.comp) # {}
    BY DEF SpokeStatusUpdate, TypeIInv, TypeOK, SpokeReports
  <2>2. Shows(Aggregated(snap).std, snap.comp)
    BY <2>1, AggregatedStatus
  <2>3. cached' = snap /\ local' = Aggregated(snap) /\ ~current' /\ ~valid'
    BY <1>1 DEF SpokeStatusUpdate
  <2> QED
    BY <2>2, <2>3
<1>2. CASE ~valid
  BY <1>2 DEF SpokeStatusUpdate, Retry, Return
<1> QED
  BY <1>1, <1>2

LEMMA ShownStep == NoSilentLoss /\ TypeIInv /\ ShownIInv /\ [Next]_vars => ShownIInv'
<1> SUFFICES ASSUME NoSilentLoss, TypeIInv, ShownIInv, [Next]_vars PROVE ShownIInv'
  OBVIOUS
<1> USE DEF ShownIInv, CacheInv, ShownInv
<1>1. CASE UNCHANGED <<local, cached, current, pc, snap, valid, pending>>
  BY <1>1
<1>2. CASE /\ UNCHANGED <<local, cached, current>> /\ Return
           /\ pending' \/ (pending' = pending /\ pc # "spoke")
  BY <1>2 DEF Return
<1>3. CASE \E c \in Reporters, r \in Reports : Report(c, r)
  <2>1. PICK c \in Reporters, r \in Reports : Report(c, r)
    BY <1>3
  <2>2. c \in Components /\ r \in Reported /\ local \in Statuses
    BY ReportsAssumption DEF Reported, TypeIInv, TypeOK
  <2>3. local'.std = local.std
    BY <2>1, <2>2, ReportedStatus DEF Report
  <2> QED
    BY <2>1, <2>3 DEF Report
<1>4. CASE Recreate
  <2>1. Shows(local'.std, cached'.comp)
    BY <1>4, NoStatusType DEF Recreate, Shows
  <2> QED
    BY <1>4, <2>1 DEF Recreate
<1>5. CASE SyncLocal
  BY <1>5 DEF SyncLocal, ComponentChangeWakes
<1>6. CASE updateSpokeAddon
  <2>1. CASE Reporting(cached.comp) # {} /\ shouldUpdateConditions(cached)
    BY <1>6, <2>1 DEF updateSpokeAddon, localVars
  <2>2. CASE ~(Reporting(cached.comp) # {} /\ shouldUpdateConditions(cached))
    <3>1. Shows(cached.std, cached.comp)
      BY <2>2, ShouldUpdate
    <3>2. Shows(local.std, cached.comp)
      BY <3>1
    <3> QED
      BY <1>6, <2>2, <3>2 DEF updateSpokeAddon, localVars
  <2> QED
    BY <2>1, <2>2
<1>7. CASE SpokeStatusUpdate
  BY <1>7, ShownSpokeStatusUpdate
<1>8. CASE updateHubAddon
  BY <1>8 DEF updateHubAddon, localVars
<1>9. CASE HubStatusUpdate \/ HubPanic
  BY <1>9, <1>2 DEF HubStatusUpdate, HubPanic, Retry, Reconciled, localVars
<1>10. CASE RequeueAfter
  BY <1>10 DEF RequeueAfter, localVars
<1>11. CASE HubTouch \/ SyncHub \/ SyncMca \/ McaWriter \/ \E q \in requests : updateStatus(q)
  BY <1>11, <1>1, McaWriterLeaves DEF HubTouch, SyncHub, SyncMca, updateStatus, localVars,
     sctlVars
<1>12. CASE Failure
  <2>1. ~EndpointRestart /\ (TerminalError => pc # "spoke")
    BY DEF NoSilentLoss, EndpointRestart, TerminalError, Fails
  <2>2. CASE SpokeError \/ HubError
    BY <2>2, <1>2 DEF SpokeError, HubError, Retry, localVars
  <2>3. CASE TerminalError \/ ReloadError
    BY <2>1, <2>3, <1>2 DEF TerminalError, ReloadError, Drop, localVars
  <2>4. CASE PlacementRestart
    BY <2>4, <1>1 DEF PlacementRestart, localVars, sctlVars
  <2> QED
    BY <1>12, <2>1, <2>2, <2>3, <2>4 DEF Failure
<1>13. CASE UNCHANGED vars
  BY <1>13, <1>1 DEF vars, localVars, sctlVars
<1> QED
  BY <1>3, <1>4, <1>5, <1>6, <1>7, <1>8, <1>9, <1>10, <1>11, <1>12, <1>13 DEF Next, StatusStep

\* As long as the endpoint operator does not restart and no update of the local
\* OBA fails for good, every report reaches the standard conditions: whenever
\* the status controller rests with a current cache, they show the component
\* that matters most.  Conflicts, stale caches, hub failures and recreations of
\* the OBA do not matter.
THEOREM NoReportLost ==
    ASSUME NoSilentLoss
    PROVE  Spec => []WorstComponentShown
<1>1. Init => TypeIInv /\ ShownIInv
  <2> SUFFICES ASSUME Init PROVE ShownIInv
    BY TypeIInvInit
  <2>1. Shows(local.std, cached.comp)
    BY NoStatusType DEF Init, Shows
  <2> QED
    BY <2>1 DEF Init, ShownIInv, CacheInv, ShownInv
<1>2. TypeIInv /\ ShownIInv /\ [Next]_vars => (TypeIInv /\ ShownIInv)'
  BY TypeIInvStep, ShownStep
<1>3. ShownIInv => WorstComponentShown
  BY DEF ShownIInv, CacheInv, ShownInv, WorstComponentShown
<1> QED
  BY <1>1, <1>2, <1>3, PTL DEF Spec

-----------------------------------------------------------------------------
(***************************************************************************)
(* At most one condition the MCA has from the OBA is True.  A patch of the *)
(* MCA takes the conditions that have changed from the hub OBA and the     *)
(* others from the cached MCA.  The two do not mix because a condition     *)
(* the MCA has from the OBA is on the hub OBA, and so back to the local    *)
(* OBA: none is ever taken away, unless the local OBA is made again.       *)
(***************************************************************************)
\* new has every condition that old has
Keeps(new, old) == \A t \in StdTypes : new[t].status = "absent" => old[t].status = "absent"

\* new has every condition that old has from the OBA
KeepsReplicated(new, old) ==
    \A t \in Replicated(old) : new[t].status = "absent" => old[t].status = "absent"

DisplayedIInv ==
    /\ CacheInv
    /\ Keeps(local.std, cached.std) /\ Keeps(cached.std, hub.std)
    /\ Keeps(hub.std, hubCached.std)
    /\ KeepsReplicated(hubCached.std, mca) /\ KeepsReplicated(hubCached.std, mcaC)
    /\ AtMostOneTrue(hubCached.std)
    /\ AtMostOneReplicatedTrue(mca) /\ AtMostOneReplicatedTrue(mcaC)

LEMMA CacheStep == TypeIInv /\ CacheInv /\ [Next]_vars => CacheInv'
<1> SUFFICES ASSUME TypeIInv, CacheInv, [Next]_vars PROVE CacheInv'
  OBVIOUS
<1> USE DEF CacheInv
<1>1. CASE UNCHANGED <<local, cached, current>> /\ (UNCHANGED <<snap, valid>> \/ ~valid')
  BY <1>1
<1>2. CASE \E c \in Reporters, r \in Reports : Report(c, r)
  BY <1>2 DEF Report
<1>3. CASE Recreate \/ SyncLocal \/ EndpointRestart
  BY <1>3 DEF Recreate, SyncLocal, EndpointRestart, Return
<1>4. CASE updateSpokeAddon
  BY <1>4 DEF updateSpokeAddon, localVars
<1>5. CASE SpokeStatusUpdate
  BY <1>5, <1>1 DEF SpokeStatusUpdate, Retry, Return
<1>6. CASE updateHubAddon \/ HubStatusUpdate \/ HubPanic \/ RequeueAfter
  BY <1>6, <1>1 DEF updateHubAddon, HubStatusUpdate, HubPanic, RequeueAfter, Retry, Reconciled,
     Return, localVars
<1>7. CASE HubTouch \/ SyncHub \/ SyncMca \/ McaWriter \/ \E q \in requests : updateStatus(q)
  BY <1>7, <1>1, McaWriterLeaves DEF HubTouch, SyncHub, SyncMca, updateStatus, localVars,
     sctlVars
<1>8. CASE SpokeError \/ HubError \/ TerminalError \/ ReloadError \/ PlacementRestart
  BY <1>8, <1>1 DEF SpokeError, HubError, TerminalError, ReloadError, PlacementRestart, Retry,
     Drop, Return, localVars, sctlVars
<1>9. CASE UNCHANGED vars
  BY <1>9, <1>1 DEF vars, localVars, sctlVars
<1> QED
  BY <1>2, <1>3, <1>4, <1>5, <1>6, <1>7, <1>8, <1>9 DEF Next, StatusStep, Failure

LEMMA AggregatedKeeps ==
    ASSUME NEW s \in Statuses, Reporting(s.comp) # {}
    PROVE  Keeps(Aggregated(s).std, s.std)
<1> DEFINE a == aggregateComponentsConditions(s.comp)
           new == [status |-> "True", reason |-> a.reason, by |-> a.by]
           reset == resetMainConditionsStatus(s.std)
<1>1. s.std \in Conditions /\ \A t \in StdTypes : s.std[t] \in StdConds
  BY DEF Statuses, Conditions
<1>2. \A t \in StdTypes : s.std[t].status # "absent" => reset[t].status = "False"
  BY <1>1 DEF resetMainConditionsStatus, StdConds
<1>3. reset \in Conditions
  BY <1>1, ResetConditions
<1>4. Aggregated(s) = [s EXCEPT !.std = [reset EXCEPT ![a.type] = new]]
  BY DEF Aggregated
<1>5. new.status = "True"
  OBVIOUS
<1> HIDE DEF a, new, reset
<1>6. Aggregated(s).std = [reset EXCEPT ![a.type] = new]
  BY <1>4 DEF Statuses
<1>7. \A t \in StdTypes : Aggregated(s).std[t] \in {reset[t], new}
  BY <1>3, <1>6 DEF Conditions
<1>8. QED
  BY <1>2, <1>5, <1>7 DEF Keeps

\* The patch of the MCA.
LEMMA PatchedMca ==
    ASSUME DisplayedIInv, updateAddonStatus
    PROVE  KeepsReplicated(hubCached.std, mca') /\ AtMostOneReplicatedTrue(mca')
<1> USE DEF DisplayedIInv
<1>1. CASE Changed = {}
  BY <1>1 DEF updateAddonStatus
<1>2. CASE Changed # {}
  <2>1. mca' = [t \in StdTypes |-> IF t \in Changed THEN hubCached.std[t] ELSE mcaC[t]]
    BY <1>2 DEF updateAddonStatus
  <2>2. \A t \in StdTypes : mca'[t] = IF t \in Changed THEN hubCached.std[t] ELSE mcaC[t]
    BY <2>1
  <2>3. KeepsReplicated(hubCached.std, mca')
    BY <2>2 DEF KeepsReplicated, Replicated
  \* a condition of the OBA's that is True on the MCA and has not changed is the
  \* hub OBA's, too
  <2>4. \A t \in Replicated(mca') :
            mca'[t].status = "True" => hubCached.std[t].status = "True"
    BY <2>2 DEF Changed, KeepsReplicated, Replicated
  <2>5. QED
    BY <2>3, <2>4 DEF AtMostOneTrue, AtMostOneReplicatedTrue, Replicated
<1>3. QED
  BY <1>1, <1>2

LEMMA DisplayedStep ==
    MaxRecreations = 0 /\ TypeIInv /\ ExclusiveIInv /\ DisplayedIInv /\ [Next]_vars
        => DisplayedIInv'
<1> SUFFICES ASSUME MaxRecreations = 0, TypeIInv, ExclusiveIInv, DisplayedIInv, [Next]_vars
             PROVE  DisplayedIInv'
  OBVIOUS
<1> USE DEF DisplayedIInv
<1>1. CacheInv'
  BY CacheStep
<1>2. /\ \A x, y, z : Keeps(x, y) /\ Keeps(y, z) => Keeps(x, z)
      /\ \A x, y, z : Keeps(x, y) /\ KeepsReplicated(y, z) => KeepsReplicated(x, z)
  BY DEF Keeps, KeepsReplicated, Replicated
<1>3. \A x : Keeps(x, x)
  BY DEF Keeps
<1>4. CASE UNCHANGED <<local, cached, hub, hubCached, mca, mcaC>>
  BY <1>1, <1>4
<1>5. CASE \E c \in Reporters, r \in Reports : Report(c, r)
  <2>1. PICK c \in Reporters, r \in Reports : Report(c, r)
    BY <1>5
  <2>2. c \in Components /\ r \in Reported /\ local \in Statuses
    BY ReportsAssumption DEF Reported, TypeIInv, TypeOK
  <2>3. local'.std = local.std
    BY <2>1, <2>2, ReportedStatus DEF Report
  <2> QED
    BY <1>1, <2>1, <2>3 DEF Report, hubVars, pctlVars, mcaVars
<1>6. ~Recreate
  BY DEF Recreate, Happens, TypeIInv, TypeOK, EnvKinds
<1>7. CASE SyncLocal \/ EndpointRestart
  BY <1>1, <1>2, <1>3, <1>7 DEF SyncLocal, EndpointRestart, hubVars, pctlVars, mcaVars
<1>8. CASE SpokeStatusUpdate
  <2>1. CASE valid
    <3>1. Keeps(Aggregated(snap).std, snap.std)
      BY <1>8, AggregatedKeeps DEF SpokeStatusUpdate, TypeIInv, TypeOK, SpokeReports
    <3>2. snap = local /\ local' = Aggregated(snap)
      BY <1>8, <2>1 DEF SpokeStatusUpdate, CacheInv
    <3> QED
      BY <1>1, <1>2, <1>8, <3>1, <3>2 DEF SpokeStatusUpdate, hubSnapVars, pctlVars, mcaVars
  <2>2. CASE ~valid
    BY <1>4, <1>8, <2>2 DEF SpokeStatusUpdate, pctlVars, mcaVars
  <2> QED
    BY <2>1, <2>2
<1>9. CASE HubStatusUpdate
  <2>1. hub' = hub \/ hub' = cached
    BY <1>9 DEF HubStatusUpdate
  <2>2. UNCHANGED <<local, cached, hubCached, mca, mcaC>>
    BY <1>9 DEF HubStatusUpdate, localVars, pctlVars, mcaVars
  <2> QED
    BY <1>1, <1>2, <1>3, <2>1, <2>2
<1>10. CASE SyncHub
  BY <1>1, <1>2, <1>3, <1>10 DEF SyncHub, ExclusiveIInv, localVars, hubVars, mcaVars
<1>11. CASE SyncMca
  BY <1>1, <1>11 DEF SyncMca, localVars, hubVars, pctlVars
<1>12. CASE PlacementRestart
  BY <1>1, <1>2, <1>3, <1>12 DEF PlacementRestart, ExclusiveIInv, localVars, hubVars
<1>13. ASSUME NEW q \in requests, updateStatus(q) PROVE DisplayedIInv'
  <2>1. UNCHANGED <<local, cached, hub, hubCached, mcaC>>
    BY <1>13 DEF updateStatus, localVars, hubVars
  <2>2. updateAddonStatus \/ mca' = mca
    BY <1>13 DEF updateStatus
  <2> QED
    BY <1>1, <2>1, <2>2, PatchedMca
<1>14. CASE updateSpokeAddon \/ updateHubAddon \/ HubPanic \/ RequeueAfter \/ HubTouch
  BY <1>4, <1>14 DEF updateSpokeAddon, updateHubAddon, HubPanic, RequeueAfter, HubTouch,
     localVars, hubVars, pctlVars, mcaVars
<1>15. CASE SpokeError \/ HubError \/ TerminalError \/ ReloadError
  BY <1>4, <1>15 DEF SpokeError, HubError, TerminalError, ReloadError, localVars, pctlVars,
     mcaVars
<1>16. CASE UNCHANGED vars
  BY <1>4, <1>16 DEF vars, localVars, hubVars, pctlVars, mcaVars
<1>17. CASE McaWriter
  <2>1. UNCHANGED <<local, cached, hub, hubCached, mcaC>>
    BY <1>17, McaWriterLeaves DEF localVars, hubVars, pctlVars
  <2>2. \A t \in Replicated(mca') : mca'[t] = mca[t] /\ t \in Replicated(mca)
    BY <1>17, McaWriterWrites DEF TypeIInv
  <2>3. KeepsReplicated(hubCached.std, mca') /\ AtMostOneReplicatedTrue(mca')
    BY <2>2 DEF KeepsReplicated, AtMostOneReplicatedTrue
  <2> QED
    BY <1>1, <2>1, <2>3
<1> QED
  BY <1>5, <1>6, <1>7, <1>8, <1>9, <1>10, <1>11, <1>12, <1>13, <1>14, <1>15, <1>16, <1>17
     DEF Next, StatusStep, Failure

\* Unless the local OBA is deleted and applied again, at most one condition the
\* MCA has from the OBA is True, however far the caches trail, whatever fails and
\* whatever the registration agent and the creation of the MCA write beside them:
\* the patches of updateAddonStatus do not mix two statuses.  (With the OBA made
\* again they do: updateAddonStatus removes no condition of the MCA.)
THEOREM ReplicatedConditionsExclusive ==
    ASSUME MaxRecreations = 0
    PROVE  Spec => []OneReplicatedConditionTrue
<1>1. Init => TypeIInv /\ ExclusiveIInv /\ DisplayedIInv
  <2> SUFFICES ASSUME Init PROVE ExclusiveIInv /\ DisplayedIInv
    BY TypeIInvInit
  <2>1. AtMostOneTrue(NoConditions) /\ NoStatus.std = NoConditions
    BY NoStatusType DEF NoStatus
  <2>2. /\ NoConditions \in Conditions
        /\ \A t \in StdTypes : NoConditions[t].status = "absent"
    BY NoStatusType DEF NoConditions, Absent
  <2>3. \A t \in Replicated(mca) : mca[t].status = "absent"
    BY <2>2, InitializedType DEF Init, CreateManagedClusterAddonCR, Replicated, Others
  <2>4. KeepsReplicated(NoConditions, mca) /\ AtMostOneReplicatedTrue(mca)
    BY <2>3 DEF KeepsReplicated, AtMostOneReplicatedTrue
  <2> QED
    BY <2>1, <2>4 DEF Init, ExclusiveIInv, DisplayedIInv, CacheInv, Keeps
<1>2. TypeIInv /\ ExclusiveIInv /\ DisplayedIInv /\ [Next]_vars
        => (TypeIInv /\ ExclusiveIInv /\ DisplayedIInv)'
  BY TypeIInvStep, ExclusiveStep, DisplayedStep
<1>3. DisplayedIInv => OneReplicatedConditionTrue
  BY DEF DisplayedIInv, OneReplicatedConditionTrue
<1> QED
  BY <1>1, <1>2, <1>3, PTL DEF Spec

=============================================================================
