------------------------ MODULE CollectorStatusProofs ------------------------
(***************************************************************************)
(* Theorems about CollectorStatus: for any number of workers, any capacity *)
(* of the bucket, any bounds, failures and lag of the operator's cache.    *)
(***************************************************************************)
EXTENDS CollectorStatus, TLAPS

-----------------------------------------------------------------------------
(***************************************************************************)
(* Facts about the calls                                                   *)
(***************************************************************************)
\* The endpoint operator is a writer, but no worker of a collector.
LEMMA OperatorIsNoWorker == Operator \in Writers /\ Operator \notin Workers
  BY DEF Operator, Writers, Workers, Components

LEMMA NoCallIsCall == NoCall \in Calls
  BY AttemptsAssumption DEF NoCall, Calls, Components, Reasons

\* A report starts a call of its writer and leaves the others alone.
LEMMA ReportStarts ==
    ASSUME call \in [Writers -> Calls], NEW w \in Writers, NEW c \in Components,
           NEW r \in Reasons, Report(w, c, r)
    PROVE  /\ call' \in [Writers -> Calls]
           /\ call'[w].of = c /\ call'[w].reason = r /\ call'[w].at = "fetch"
           /\ \A v \in Writers \ {w} : call'[v] = call[v]
<1> DEFINE new == [at |-> "fetch", of |-> c, reason |-> r, left |-> Attempts]
<1>1. new \in Calls /\ new.of = c /\ new.reason = r /\ new.at = "fetch"
  BY AttemptsAssumption DEF Calls
<1>2. call' = [call EXCEPT ![w] = new]
  BY DEF Report
<1> HIDE DEF new
<1>3. QED
  BY <1>1, <1>2

\* A call that is finished leaves nothing behind.
LEMMA FinishEnds ==
    ASSUME call \in [Writers -> Calls], valid \subseteq Writers, NEW w \in Writers, Finish(w)
    PROVE  /\ call' \in [Writers -> Calls] /\ valid' = valid \ {w}
           /\ call'[w].at = "none"
           /\ \A v \in Writers \ {w} : call'[v] = call[v]
<1>1. NoCall \in Calls /\ NoCall.at = "none"
  BY NoCallIsCall DEF NoCall
<1>2. call' = [call EXCEPT ![w] = NoCall] /\ valid' = valid \ {w}
  BY DEF Finish
<1>3. QED
  BY <1>1, <1>2

\* What is reported of a deployed collector.
LEMMA ReportDeployedStarts ==
    ASSUME NEW c \in Components, ReportDeployed(c)
    PROVE  \/ UNCHANGED call
           \/ \E r \in {"Disabled", "UpdateSuccessful"} : Report(Operator, c, r)
  BY DEF ReportDeployed

-----------------------------------------------------------------------------
(***************************************************************************)
(* Type correctness                                                        *)
(***************************************************************************)
LEMMA TypeInit == Init => TypeOK
<1> SUFFICES ASSUME Init PROVE TypeOK
  OBVIOUS
<1>1. call \in [Writers -> Calls] /\ valid \subseteq Writers
  BY NoCallIsCall DEF Init
<1>2. /\ spec \in BOOLEAN /\ specC \in BOOLEAN /\ fresh \in BOOLEAN
      /\ uwl \in BOOLEAN /\ prom \in BOOLEAN /\ timer \in BOOLEAN /\ metrics \in BOOLEAN
      /\ cmoWasUpdated \in BOOLEAN /\ checkedAtLeastOnce \in BOOLEAN
  BY DEF Init
<1>3. /\ comp \in [Components -> Reported] /\ compC \in [Components -> Reported]
      /\ deploy \in [Components -> {"absent", "off", "on", "outdated"}]
      /\ forwardFailures \in [Workers -> 0..2] /\ streak \in [Workers -> 0..3]
      /\ count \in [EnvKinds -> Nat]
  BY DEF Init, Reported
<1>4. /\ queue \subseteq Requests /\ pc \in {"idle", "check", "platform", "uwl"}
      /\ cmo \in {"ours", "theirs"} /\ req \in Requests /\ bucket \in 0..Capacity
  BY BucketAssumption DEF Init, Requests
<1>5. QED
  BY <1>1, <1>2, <1>3, <1>4 DEF TypeOK

\* The steps of a call.
LEMMA TypeCall ==
    ASSUME TypeOK, NEW w \in Writers, UpdateComponentCondition(w)
    PROVE  TypeOK'
<1>1. CASE fetchAddon(w)
  <2>1. call' \in [Writers -> Calls] /\ valid' \subseteq Writers
    <3>1. CASE Finish(w)
      BY <3>1, FinishEnds DEF TypeOK
    <3>2. CASE /\ call' = [call EXCEPT ![w].at = "write"]
               /\ valid' = IF w = Operator /\ ~fresh THEN valid \ {w} ELSE valid \cup {w}
      BY <3>2 DEF TypeOK, Calls
    <3>3. QED
      BY <1>1, <3>1, <3>2 DEF fetchAddon
  <2>2. QED
    BY <1>1, <2>1 DEF fetchAddon, TypeOK, obaVars, cacheVars, clusterVars, opVars, workerVars
<1>2. CASE StatusUpdate(w)
  <2>1. call' \in [Writers -> Calls] /\ valid' \subseteq Writers
    <3>1. CASE Finish(w)
      BY <3>1, FinishEnds DEF TypeOK
    <3>2. CASE call' = [call EXCEPT ![w] = NoCall] /\ valid' = {}
      BY <3>2, NoCallIsCall DEF TypeOK
    <3>3. CASE /\ call[w].left > 1
               /\ call' = [call EXCEPT ![w].at = "fetch", ![w].left = @ - 1]
               /\ valid' = valid
      BY <3>3, AttemptsAssumption DEF TypeOK, Calls
    <3>4. QED
      BY <1>2, <3>1, <3>2, <3>3 DEF StatusUpdate
  <2>2. comp' \in [Components -> Reported] /\ fresh' \in BOOLEAN
    BY <1>2 DEF StatusUpdate, TypeOK, Calls, Reported
  <2>3. QED
    BY <1>2, <2>1, <2>2 DEF StatusUpdate, TypeOK, clusterVars, opVars, workerVars
<1>3. QED
  BY <1>1, <1>2 DEF UpdateComponentCondition

\* The steps of the operator's Reconcile.
LEMMA TypeOperator ==
    ASSUME TypeOK, OperatorStep
    PROVE  TypeOK'
<1> USE DEF obaVars, cacheVars, clusterVars, opVars, workerVars
<1>0. /\ "MetricsCollector" \in Components /\ "UwlMetricsCollector" \in Components
      /\ Operator \in Writers /\ "cmo" \in Requests /\ "other" \in Requests
      /\ {"NotSupported", "CMOReconcileLoopDetected", "CMOReconcileLoopStopped",
          "Disabled", "UpdateSuccessful"} \subseteq Reasons
  BY OperatorIsNoWorker DEF Components, Requests, Reasons
<1>1. ASSUME NEW q \in Requests, Reconcile(q) PROVE TypeOK'
  <2>1. call' \in [Writers -> Calls]
    BY <1>0, <1>1, ReportStarts DEF Reconcile, TypeOK
  <2>2. cmoWasUpdated' \in BOOLEAN /\ metrics' \in BOOLEAN
    BY <1>1 DEF Reconcile, TypeOK
  <2>3. /\ queue' \subseteq Requests /\ req' \in Requests
        /\ pc' \in {"idle", "check", "platform", "uwl"} /\ cmo' \in {"ours", "theirs"}
    BY <1>0, <1>1 DEF Reconcile, TypeOK
  <2>4. QED
    BY <1>1, <2>1, <2>2, <2>3 DEF Reconcile, TypeOK
<1>2. CASE CheckRequest
  <2>1. call' \in [Writers -> Calls]
    BY <1>0, <1>2, ReportStarts DEF CheckRequest, ResetOrRequeue, TypeOK
  <2>2. bucket' \in 0..Capacity
    <3>1. CASE UNCHANGED bucket
      BY <3>1 DEF TypeOK
    <3>2. CASE ~(cmoWasUpdated /\ bucket = Capacity) /\ bucket' = Filled
      BY <3>2, BucketAssumption DEF TypeOK, Filled
    <3>3. QED
      BY <1>2, <3>1, <3>2 DEF CheckRequest
  <2>3. timer' \in BOOLEAN /\ checkedAtLeastOnce' \in BOOLEAN
    BY <1>2 DEF CheckRequest, ResetOrRequeue, TypeOK
  <2>4. pc' \in {"idle", "check", "platform", "uwl"}
    BY <1>2 DEF CheckRequest, ResetOrRequeue
  <2>5. QED
    BY <1>2, <2>1, <2>2, <2>3, <2>4 DEF CheckRequest, TypeOK
<1>3. ASSUME NEW c \in Components, NEW d \in {"absent", "off", "on", "outdated"}, Deploy(c, d)
      PROVE  /\ deploy' \in [Components -> {"absent", "off", "on", "outdated"}]
             /\ queue' \subseteq Requests
  BY <1>0, <1>3 DEF Deploy, Enqueue, TypeOK
<1>4. Desired \in {"absent", "off", "on", "outdated"}
  BY DEF Desired
<1>5. CASE UpdatePlatform
  <2>1. call' \in [Writers -> Calls]
    BY <1>0, <1>5, ReportDeployedStarts, ReportStarts DEF UpdatePlatform, TypeOK
  <2>2. QED
    BY <1>0, <1>3, <1>4, <1>5, <2>1 DEF UpdatePlatform, TypeOK
<1>6. CASE UpdateUwl
  <2>1. call' \in [Writers -> Calls]
    BY <1>0, <1>6, ReportDeployedStarts, ReportStarts DEF UpdateUwl, TypeOK
  <2>2. /\ deploy' \in [Components -> {"absent", "off", "on", "outdated"}]
        /\ queue' \subseteq Requests
    BY <1>0, <1>3, <1>4, <1>6 DEF UpdateUwl
  <2>3. QED
    BY <1>6, <2>1, <2>2 DEF UpdateUwl, TypeOK
<1>7. QED
  BY <1>1, <1>2, <1>5, <1>6 DEF OperatorStep

\* A bounded step of the surroundings counts itself.
LEMMA HappensCounts ==
    ASSUME TypeOK, NEW k \in EnvKinds, NEW bound, Happens(k, bound)
    PROVE  count' \in [EnvKinds -> Nat]
  BY DEF TypeOK, Happens

\* The steps of the bucket, the timer, the cache and the workers.
LEMMA TypeBackground ==
    ASSUME TypeOK,
           \/ Leak \/ RequeueAfter \/ SyncOba
           \/ \E w \in Workers : forwardSucceeds(w) \/ forwardFails(w)
    PROVE  TypeOK'
<1> USE DEF obaVars, cacheVars, clusterVars, opVars, callVars, workerVars
<1>1. CASE Leak
  BY <1>1, BucketAssumption DEF Leak, TypeOK
<1>2. CASE RequeueAfter
  BY <1>2 DEF RequeueAfter, Enqueue, Requests, TypeOK
<1>3. CASE SyncOba
  BY <1>3 DEF SyncOba, Enqueue, Requests, TypeOK
<1>4. ASSUME NEW w \in Workers PROVE w \in Writers /\ w[1] \in Components
  BY <1>4 DEF Writers, Workers
<1>5. {"ForwardSuccessful", "ForwardFailed"} \subseteq Reasons
  BY DEF Reasons
<1>6. ASSUME NEW w \in Workers, forwardSucceeds(w) PROVE TypeOK'
  <2>1. call' \in [Writers -> Calls] /\ count' \in [EnvKinds -> Nat]
    BY <1>4, <1>5, <1>6, ReportStarts, HappensCounts DEF forwardSucceeds, TypeOK, EnvKinds
  <2>2. QED
    BY <1>6, <2>1 DEF forwardSucceeds, TypeOK
<1>7. ASSUME NEW w \in Workers, forwardFails(w) PROVE TypeOK'
  <2>1. call' \in [Writers -> Calls] /\ count' \in [EnvKinds -> Nat]
    BY <1>4, <1>5, <1>7, ReportStarts, HappensCounts DEF forwardFails, TypeOK, EnvKinds
  <2>2. forwardFailures' \in [Workers -> 0..2] /\ streak' \in [Workers -> 0..3]
    BY <1>7 DEF forwardFails, TypeOK
  <2>3. QED
    BY <1>7, <2>1, <2>2 DEF forwardFails, TypeOK
<1>8. QED
  BY <1>1, <1>2, <1>3, <1>6, <1>7

\* The steps of the administrator, the other operator, and failures.
LEMMA TypeSurroundings ==
    ASSUME TypeOK, Surroundings
    PROVE  TypeOK'
<1> USE DEF obaVars, cacheVars, clusterVars, opVars, callVars, workerVars
<1>1. ASSUME NEW k \in EnvKinds, NEW bound, Happens(k, bound)
      PROVE  count' \in [EnvKinds -> Nat]
  BY <1>1, HappensCounts
<1>2. {"change", "failure", "fight", "forward"} = EnvKinds
  BY DEF EnvKinds
<1>3. CASE SetEnableMetrics
  <2>1. count' \in [EnvKinds -> Nat] /\ spec' \in BOOLEAN /\ fresh' \in BOOLEAN
    BY <1>1, <1>2, <1>3 DEF SetEnableMetrics, Change
  <2>2. QED
    BY <1>3, <2>1 DEF SetEnableMetrics, TypeOK
<1>4. CASE SetUwl
  <2>1. count' \in [EnvKinds -> Nat] /\ uwl' \in BOOLEAN /\ queue' \subseteq Requests
    BY <1>1, <1>2, <1>4 DEF SetUwl, Change, Enqueue, Requests, TypeOK
  <2>2. QED
    BY <1>4, <2>1 DEF SetUwl, TypeOK
<1>5. CASE SetConfig
  <2>1. count' \in [EnvKinds -> Nat] /\ queue' \subseteq Requests
    BY <1>1, <1>2, <1>5 DEF SetConfig, Change, Enqueue, Requests, TypeOK
  <2>2. deploy' \in [Components -> {"absent", "off", "on", "outdated"}]
    BY <1>5 DEF SetConfig, TypeOK
  <2>3. QED
    BY <1>5, <2>1, <2>2 DEF SetConfig, TypeOK
<1>6. CASE SetProm
  <2>1. count' \in [EnvKinds -> Nat] /\ prom' \in BOOLEAN
    BY <1>1, <1>2, <1>6 DEF SetProm, Change
  <2>2. QED
    BY <1>6, <2>1 DEF SetProm, TypeOK
<1>7. CASE Fight
  <2>1. count' \in [EnvKinds -> Nat] /\ queue' \subseteq Requests
    BY <1>1, <1>2, <1>7 DEF Fight, Enqueue, Requests, TypeOK
  <2>2. QED
    BY <1>7, <2>1 DEF Fight, TypeOK
<1>8. CASE Touch
  <2>1. count' \in [EnvKinds -> Nat]
    BY <1>1, <1>2, <1>8 DEF Touch
  <2>2. QED
    BY <1>8, <2>1 DEF Touch, TypeOK
<1>9. ASSUME NEW w \in Writers, ReportError(w) PROVE TypeOK'
  <2>1. count' \in [EnvKinds -> Nat] /\ call' \in [Writers -> Calls] /\ valid' \subseteq Writers
    BY <1>1, <1>2, <1>9, FinishEnds DEF ReportError, Fails, TypeOK
  <2>2. QED
    BY <1>9, <2>1 DEF ReportError, TypeOK
<1>10. CASE UpdateError
  <2>1. count' \in [EnvKinds -> Nat]
    BY <1>1, <1>2, <1>10 DEF UpdateError, Fails
  <2>2. call' \in [Writers -> Calls]
    <3>1. \E c \in Components : Report(Operator, c, "UpdateFailed")
      BY <1>10 DEF UpdateError, Components
    <3>2. "UpdateFailed" \in Reasons
      BY DEF Reasons
    <3>3. QED
      BY <3>1, <3>2, ReportStarts, OperatorIsNoWorker DEF TypeOK
  <2>3. /\ deploy' \in [Components -> {"absent", "off", "on", "outdated"}]
        /\ queue' \subseteq Requests /\ pc' = "idle"
    BY <1>10 DEF UpdateError, Enqueue, Requests, TypeOK
  <2>4. QED
    BY <1>10, <2>1, <2>2, <2>3 DEF UpdateError, TypeOK
<1>11. CASE ReconcileError
  <2>1. count' \in [EnvKinds -> Nat]
    BY <1>1, <1>2, <1>11 DEF ReconcileError, Fails
  <2>2. checkedAtLeastOnce' \in BOOLEAN
    BY <1>11 DEF ReconcileError, TypeOK
  <2>3. bucket' \in 0..Capacity
    <3>1. CASE UNCHANGED bucket
      BY <3>1 DEF TypeOK
    <3>2. CASE ~(cmoWasUpdated /\ bucket = Capacity) /\ bucket' = Filled
      BY <3>2, BucketAssumption DEF TypeOK, Filled
    <3>3. QED
      BY <1>11, <3>1, <3>2 DEF ReconcileError
  <2>4. queue' \subseteq Requests /\ pc' = "idle"
    BY <1>11 DEF ReconcileError, Enqueue, TypeOK
  <2>5. QED
    BY <1>11, <2>1, <2>2, <2>3, <2>4 DEF ReconcileError, TypeOK
<1>12. CASE OperatorRestart
  <2>1. count' \in [EnvKinds -> Nat] /\ call' \in [Writers -> Calls] /\ valid' \subseteq Writers
    BY <1>1, <1>2, <1>12, FinishEnds, OperatorIsNoWorker DEF OperatorRestart, Fails, TypeOK
  <2>2. /\ fresh' \in BOOLEAN /\ timer' \in BOOLEAN /\ metrics' \in BOOLEAN
        /\ cmoWasUpdated' \in BOOLEAN /\ checkedAtLeastOnce' \in BOOLEAN
    BY <1>12 DEF OperatorRestart
  <2>3. bucket' \in 0..Capacity
    BY <1>12, BucketAssumption DEF OperatorRestart
  <2>4. QED
    BY <1>12, <2>1, <2>2, <2>3 DEF OperatorRestart, TypeOK, Requests
<1>13. ASSUME NEW w \in Workers, WorkerRestart(w) PROVE TypeOK'
  <2>1. w \in Writers
    BY DEF Writers
  <2>2. count' \in [EnvKinds -> Nat] /\ call' \in [Writers -> Calls] /\ valid' \subseteq Writers
    BY <1>1, <1>2, <1>13, <2>1, FinishEnds DEF WorkerRestart, Fails, TypeOK
  <2>3. QED
    BY <1>13, <2>2 DEF WorkerRestart, TypeOK
<1>14. QED
  BY <1>3, <1>4, <1>5, <1>6, <1>7, <1>8, <1>9, <1>10, <1>11, <1>12, <1>13 DEF Surroundings

\* No interleaving of the reporters, the operator and failures takes the state
\* out of its type: in particular the leaky bucket stays within its capacity and
\* the counter of failed forwards below three.
THEOREM TypeCorrect == Spec => []TypeOK
<1>1. Init => TypeOK
  BY TypeInit
<1>2. TypeOK /\ [Next]_vars => TypeOK'
  <2>1. SUFFICES ASSUME TypeOK, [Next]_vars PROVE TypeOK'
    OBVIOUS
  <2>2. CASE UNCHANGED vars
    BY <2>1, <2>2 DEF vars, obaVars, cacheVars, clusterVars, opVars, callVars, workerVars, TypeOK
  <2>3. CASE Next
    BY <2>1, <2>3, TypeCall, TypeOperator, TypeBackground, TypeSurroundings DEF Next
  <2>4. QED
    BY <2>1, <2>2, <2>3
<1>3. QED
  BY <1>1, <1>2, PTL DEF Spec

-----------------------------------------------------------------------------
(***************************************************************************)
(* Transitions                                                             *)
(*                                                                         *)
(* A writer whose copy of the OBA is still the latest has checked the      *)
(* transition against the conditions that are in the cluster; the operator *)
(* has such a copy only when its cache had caught up.                      *)
(***************************************************************************)
CacheInv == fresh => compC = comp

CheckedInv ==
    \A w \in valid : call[w].at = "write" /\ Accepts(comp[call[w].of], call[w].reason)

TransitionIInv == TypeOK /\ CacheInv /\ CheckedInv

\* A step that leaves the conditions alone, gives no writer a latest copy and
\* touches no call of a writer that has one.
LEMMA QuietStep ==
    ASSUME TransitionIInv, comp' = comp, fresh' => compC' = comp', valid' \subseteq valid,
           \A v \in valid' : call'[v] = call[v]
    PROVE  CacheInv' /\ CheckedInv'
  BY DEF TransitionIInv, CacheInv, CheckedInv

\* A report that begins is such a step: its writer has no copy yet.
LEMMA ReportIsQuiet ==
    ASSUME TransitionIInv, NEW w \in Writers, NEW c \in Components, NEW r \in Reasons,
           Report(w, c, r), ~Calling(w), UNCHANGED valid
    PROVE  \A v \in valid' : call'[v] = call[v]
<1>1. w \notin valid
  BY DEF TransitionIInv, CheckedInv, Calling
<1>2. QED
  BY <1>1, ReportStarts DEF TransitionIInv, TypeOK

LEMMA FinishIsQuiet ==
    ASSUME TransitionIInv, NEW w \in Writers, Finish(w)
    PROVE  valid' \subseteq valid /\ \A v \in valid' : call'[v] = call[v]
  BY FinishEnds DEF TransitionIInv, TypeOK

LEMMA TransitionStep ==
    ASSUME TransitionIInv, [Next]_vars
    PROVE  CacheInv' /\ CheckedInv'
<1> USE DEF obaVars, cacheVars, clusterVars, opVars, callVars, workerVars
<1>0. /\ TypeOK /\ CacheInv /\ CheckedInv
      /\ "MetricsCollector" \in Components /\ "UwlMetricsCollector" \in Components
      /\ Operator \in Writers
      /\ {"NotSupported", "CMOReconcileLoopDetected", "CMOReconcileLoopStopped", "Disabled",
          "UpdateSuccessful", "UpdateFailed", "ForwardSuccessful", "ForwardFailed"}
              \subseteq Reasons
      /\ \A w \in Workers : w \in Writers /\ w[1] \in Components
  BY OperatorIsNoWorker DEF TransitionIInv, Components, Reasons, Writers, Workers
<1>1. CASE UNCHANGED <<comp, compC, fresh, valid, call>>
  BY <1>1, <1>0, QuietStep DEF CacheInv
<1>2. ASSUME NEW w \in Writers, NEW c \in Components, NEW r \in Reasons,
             Report(w, c, r), ~Calling(w), UNCHANGED <<comp, compC, fresh, valid>>
      PROVE  CacheInv' /\ CheckedInv'
  BY <1>0, <1>2, QuietStep, ReportIsQuiet DEF CacheInv
<1>3. ASSUME NEW w \in Writers, fetchAddon(w) PROVE CacheInv' /\ CheckedInv'
  <2>1. CASE Finish(w)
    BY <1>0, <1>3, <2>1, FinishIsQuiet, QuietStep DEF fetchAddon, CacheInv
  <2>2. CASE /\ Accepts(Seen(w)[call[w].of], call[w].reason)
             /\ call' = [call EXCEPT ![w].at = "write"]
             /\ valid' = IF w = Operator /\ ~fresh THEN valid \ {w} ELSE valid \cup {w}
    <3>1. comp' = comp /\ compC' = compC /\ fresh' = fresh
      BY <1>3 DEF fetchAddon
    <3>2. \A v \in valid \ {w} : call'[v] = call[v]
      BY <1>0, <2>2 DEF TypeOK
    <3>3. call'[w].at = "write" /\ call'[w].of = call[w].of /\ call'[w].reason = call[w].reason
      BY <1>0, <2>2 DEF TypeOK, Calls
    <3>4. w \in valid' => Seen(w) = comp
      BY <1>0, <2>2 DEF Seen, CacheInv
    <3>5. QED
      BY <1>0, <2>2, <3>1, <3>2, <3>3, <3>4 DEF CacheInv, CheckedInv
  <2>3. QED
    BY <1>3, <2>1, <2>2 DEF fetchAddon
<1>4. ASSUME NEW w \in Writers, StatusUpdate(w) PROVE CacheInv' /\ CheckedInv'
  <2>1. CASE fresh' = FALSE /\ valid' = {}
    BY <2>1 DEF CacheInv, CheckedInv
  <2>2. CASE Finish(w) /\ UNCHANGED <<comp, fresh>>
    BY <1>0, <1>4, <2>2, FinishIsQuiet, QuietStep DEF StatusUpdate, CacheInv
  <2>3. CASE /\ w \notin valid
             /\ call' = [call EXCEPT ![w].at = "fetch", ![w].left = @ - 1]
             /\ UNCHANGED <<comp, fresh, valid>>
    <3>1. \A v \in valid' : call'[v] = call[v]
      BY <1>0, <2>3 DEF TypeOK
    <3>2. QED
      BY <1>0, <1>4, <2>3, <3>1, QuietStep DEF StatusUpdate, CacheInv
  <2>4. QED
    BY <1>4, <2>1, <2>2, <2>3 DEF StatusUpdate
<1>5. CASE OperatorStep
  <2>1. ASSUME NEW q \in Requests, Reconcile(q) PROVE CacheInv' /\ CheckedInv'
    BY <1>0, <1>1, <1>2, <2>1 DEF Reconcile
  <2>2. CASE CheckRequest
    BY <1>0, <1>1, <1>2, <2>2 DEF CheckRequest, ResetOrRequeue
  <2>3. CASE UpdatePlatform
    BY <1>0, <1>1, <1>2, <2>3, ReportDeployedStarts DEF UpdatePlatform
  <2>4. CASE UpdateUwl
    BY <1>0, <1>1, <1>2, <2>4, ReportDeployedStarts DEF UpdateUwl
  <2>5. QED
    BY <1>5, <2>1, <2>2, <2>3, <2>4 DEF OperatorStep
<1>6. CASE Leak \/ RequeueAfter
  BY <1>1, <1>6 DEF Leak, RequeueAfter
<1>7. CASE SyncOba
  BY <1>0, <1>7, QuietStep DEF SyncOba, CacheInv
<1>8. ASSUME NEW w \in Workers, forwardSucceeds(w) \/ forwardFails(w)
      PROVE  CacheInv' /\ CheckedInv'
  BY <1>0, <1>1, <1>2, <1>8 DEF forwardSucceeds, forwardFails
<1>9. CASE SetEnableMetrics \/ Touch
  BY <1>9 DEF SetEnableMetrics, Touch, CacheInv, CheckedInv
<1>10. CASE SetUwl \/ SetConfig \/ SetProm \/ Fight \/ ReconcileError
  BY <1>1, <1>10 DEF SetUwl, SetConfig, SetProm, Fight, ReconcileError
<1>11. ASSUME NEW w \in Writers, ReportError(w) PROVE CacheInv' /\ CheckedInv'
  BY <1>0, <1>11, FinishIsQuiet, QuietStep DEF ReportError, CacheInv
<1>12. CASE UpdateError
  BY <1>0, <1>2, <1>12 DEF UpdateError
<1>13. CASE OperatorRestart
  BY <1>0, <1>13, FinishIsQuiet, QuietStep DEF OperatorRestart
<1>14. ASSUME NEW w \in Workers, WorkerRestart(w) PROVE CacheInv' /\ CheckedInv'
  BY <1>0, <1>14, FinishIsQuiet, QuietStep DEF WorkerRestart, CacheInv
<1>15. CASE UNCHANGED vars
  BY <1>1, <1>15 DEF vars
<1>16. QED
  BY <1>3, <1>4, <1>5, <1>6, <1>7, <1>8, <1>9, <1>10, <1>11, <1>12, <1>13, <1>14, <1>15
     DEF Next, UpdateComponentCondition, Surroundings

\* The conditions change only when a writer with the latest copy updates its
\* component.
LEMMA ChangedByUpdate ==
    ASSUME TypeOK, [Next]_vars, comp' # comp
    PROVE  \E w \in valid : /\ call[w].at = "write"
                            /\ comp' = [comp EXCEPT ![call[w].of] = call[w].reason]
<1> USE DEF obaVars, cacheVars, clusterVars, opVars, callVars, workerVars
<1>1. \A q : ~Reconcile(q)
  BY DEF Reconcile
<1>2. ~CheckRequest /\ ~UpdatePlatform /\ ~UpdateUwl /\ ~Leak /\ ~RequeueAfter /\ ~SyncOba
  BY DEF CheckRequest, UpdatePlatform, UpdateUwl, Leak, RequeueAfter, SyncOba
<1>3. \A w : ~forwardSucceeds(w) /\ ~forwardFails(w) /\ ~ReportError(w) /\ ~WorkerRestart(w)
  BY DEF forwardSucceeds, forwardFails, ReportError, WorkerRestart
<1>4. ~SetEnableMetrics /\ ~SetUwl /\ ~SetConfig /\ ~SetProm /\ ~Fight /\ ~Touch
  BY DEF SetEnableMetrics, SetUwl, SetConfig, SetProm, Fight, Touch
<1>5. ~UpdateError /\ ~ReconcileError /\ ~OperatorRestart
  BY DEF UpdateError, ReconcileError, OperatorRestart
<1>6. \A w : ~fetchAddon(w)
  BY DEF fetchAddon
<1>7. ~UNCHANGED vars
  BY DEF vars
<1>8. \E w \in Writers : StatusUpdate(w)
  BY <1>1, <1>2, <1>3, <1>4, <1>5, <1>6, <1>7
     DEF Next, UpdateComponentCondition, OperatorStep, Surroundings
<1>9. QED
  BY <1>8 DEF StatusUpdate

\* For any number of reporters and any lag of the operator's cache, a component
\* condition moves only along componentTransitions, one component at a time:
\* UpdateComponentCondition's check is never made on outdated conditions.
THEOREM TransitionsAreStrict == Spec => StrictTransitions
<1> DEFINE Strict ==
        /\ \A c \in Components : comp'[c] # comp[c] => Accepts(comp[c], comp'[c])
        /\ \A c, d \in Components : comp'[c] # comp[c] /\ comp'[d] # comp[d] => c = d
<1>1. Init => CacheInv /\ CheckedInv
  BY DEF Init, CacheInv, CheckedInv
<1>2. TypeOK /\ CacheInv /\ CheckedInv /\ [Next]_vars => CacheInv' /\ CheckedInv'
  BY TransitionStep DEF TransitionIInv
<1>3. TypeOK /\ CheckedInv /\ [Next]_vars => [Strict]_vars
  <2>1. SUFFICES ASSUME TypeOK, CheckedInv, [Next]_vars PROVE Strict
    OBVIOUS
  <2>2. CASE comp' = comp
    BY <2>2
  <2>3. CASE comp' # comp
    <3>1. PICK w \in valid : comp' = [comp EXCEPT ![call[w].of] = call[w].reason]
      BY <2>1, <2>3, ChangedByUpdate
    <3>2. Accepts(comp[call[w].of], call[w].reason) /\ call[w].of \in Components
      BY <2>1 DEF CheckedInv, TypeOK, Calls
    <3>3. QED
      BY <2>1, <3>1, <3>2 DEF TypeOK
  <2>4. QED
    BY <2>2, <2>3
<1>4. QED
  BY <1>1, <1>2, <1>3, TypeCorrect, PTL DEF Spec, StrictTransitions

-----------------------------------------------------------------------------
(***************************************************************************)
(* Forwarding failures                                                     *)
(*                                                                         *)
(* The counter of a worker never runs ahead of its failures in a row, and  *)
(* a report of ForwardFailed on its way is that of a worker with three of  *)
(* them: the worker forwards nothing else while it reports.                *)
(***************************************************************************)
CounterInv == \A w \in Workers : forwardFailures[w] <= streak[w]

FailedCallInv ==
    \A w \in Writers :
        Calling(w) /\ call[w].reason = "ForwardFailed" =>
            w \in Workers /\ call[w].of = w[1] /\ streak[w] = 3

\* A step that is not of the workers, and begins no call that reports
\* ForwardFailed.
LEMMA QuietWorkers ==
    ASSUME TypeOK, CounterInv, FailedCallInv, UNCHANGED workerVars,
           \A v \in Writers :
               \/ call'[v].at = "none" \/ call'[v].reason # "ForwardFailed"
               \/ Calling(v) /\ call'[v].of = call[v].of /\ call'[v].reason = call[v].reason
    PROVE  CounterInv' /\ FailedCallInv'
  BY DEF CounterInv, FailedCallInv, workerVars, Calling

LEMMA FailedStep ==
    ASSUME TypeOK, CounterInv, FailedCallInv, [Next]_vars
    PROVE  CounterInv' /\ FailedCallInv'
<1> USE DEF obaVars, cacheVars, clusterVars, opVars, callVars, workerVars
<1>0. /\ call \in [Writers -> Calls] /\ valid \subseteq Writers
      /\ "MetricsCollector" \in Components /\ "UwlMetricsCollector" \in Components
      /\ Operator \in Writers
      /\ {"NotSupported", "CMOReconcileLoopDetected", "CMOReconcileLoopStopped", "Disabled",
          "UpdateSuccessful", "UpdateFailed", "ForwardSuccessful", "ForwardFailed"}
              \subseteq Reasons
      /\ \A w \in Workers : w \in Writers /\ w[1] \in Components
  BY OperatorIsNoWorker DEF TypeOK, Components, Reasons, Writers, Workers
<1>1. CASE UNCHANGED <<call, forwardFailures, streak>>
  BY <1>1, QuietWorkers DEF Calling
<1>2. ASSUME NEW c \in Components, NEW r \in Reasons \ {"ForwardFailed"},
             Report(Operator, c, r), UNCHANGED workerVars
      PROVE  CounterInv' /\ FailedCallInv'
  <2>1. \A v \in Writers : call'[v].reason # "ForwardFailed" \/ call'[v] = call[v]
    BY <1>0, <1>2, ReportStarts
  <2>2. QED
    BY <1>2, <2>1, QuietWorkers DEF Calling
<1>3. ASSUME NEW w \in Writers, Finish(w), UNCHANGED workerVars
      PROVE  CounterInv' /\ FailedCallInv'
  <2>1. \A v \in Writers : call'[v].at = "none" \/ call'[v] = call[v]
    BY <1>0, <1>3, FinishEnds
  <2>2. QED
    BY <1>3, <2>1, QuietWorkers DEF Calling
<1>4. ASSUME NEW w \in Writers, fetchAddon(w) PROVE CounterInv' /\ FailedCallInv'
  <2>1. CASE Finish(w)
    BY <1>3, <1>4, <2>1 DEF fetchAddon
  <2>2. CASE call' = [call EXCEPT ![w].at = "write"]
    <3>1. \A v \in Writers : call'[v].of = call[v].of /\ call'[v].reason = call[v].reason
      BY <1>0, <2>2 DEF Calls
    <3>2. \A v \in Writers : call'[v].at = "none" \/ Calling(v)
      BY <1>0, <1>4, <2>2 DEF fetchAddon, Calling
    <3>3. QED
      BY <1>4, <3>1, <3>2, QuietWorkers DEF fetchAddon
  <2>3. QED
    BY <1>4, <2>1, <2>2 DEF fetchAddon
<1>5. ASSUME NEW w \in Writers, StatusUpdate(w) PROVE CounterInv' /\ FailedCallInv'
  <2>1. CASE call' = [call EXCEPT ![w] = NoCall]
    <3>1. \A v \in Writers : call'[v].at = "none" \/ call'[v] = call[v]
      BY <1>0, <2>1 DEF NoCall
    <3>2. QED
      BY <1>5, <3>1, QuietWorkers DEF StatusUpdate, Calling
  <2>2. CASE call' = [call EXCEPT ![w].at = "fetch", ![w].left = @ - 1]
    <3>1. \A v \in Writers : call'[v].of = call[v].of /\ call'[v].reason = call[v].reason
      BY <1>0, <2>2 DEF Calls
    <3>2. \A v \in Writers : call'[v].at = "none" \/ Calling(v)
      BY <1>0, <1>5, <2>2 DEF StatusUpdate, Calling
    <3>3. QED
      BY <1>5, <3>1, <3>2, QuietWorkers DEF StatusUpdate
  <2>3. QED
    BY <1>5, <2>1, <2>2 DEF StatusUpdate, Finish
<1>6. CASE OperatorStep
  <2>1. ASSUME NEW q \in Requests, Reconcile(q) PROVE CounterInv' /\ FailedCallInv'
    BY <1>0, <1>1, <1>2, <2>1 DEF Reconcile
  <2>2. CASE CheckRequest
    BY <1>0, <1>1, <1>2, <2>2 DEF CheckRequest, ResetOrRequeue
  <2>3. CASE UpdatePlatform
    BY <1>0, <1>1, <1>2, <2>3, ReportDeployedStarts DEF UpdatePlatform
  <2>4. CASE UpdateUwl
    BY <1>0, <1>1, <1>2, <2>4, ReportDeployedStarts DEF UpdateUwl
  <2>5. QED
    BY <1>6, <2>1, <2>2, <2>3, <2>4 DEF OperatorStep
<1>7. CASE Leak \/ RequeueAfter \/ SyncOba
  BY <1>1, <1>7 DEF Leak, RequeueAfter, SyncOba
<1>8. ASSUME NEW w \in Workers, forwardSucceeds(w) PROVE CounterInv' /\ FailedCallInv'
  <2>1. CounterInv'
    BY <1>8 DEF forwardSucceeds, TypeOK, CounterInv
  <2>2. /\ call'[w].reason # "ForwardFailed"
        /\ \A v \in Writers \ {w} : call'[v] = call[v]
    BY <1>0, <1>8, ReportStarts DEF forwardSucceeds
  <2>3. \A v \in Workers \ {w} : streak'[v] = streak[v]
    BY <1>8 DEF forwardSucceeds, TypeOK
  <2>4. QED
    BY <2>1, <2>2, <2>3 DEF FailedCallInv, Calling
<1>9. ASSUME NEW w \in Workers, forwardFails(w) PROVE CounterInv' /\ FailedCallInv'
  <2>1. CounterInv' /\ \A v \in Workers \ {w} : streak'[v] = streak[v]
    BY <1>9 DEF forwardFails, TypeOK, CounterInv
  <2>2. CASE forwardFailures[w] < 2
    <3>1. UNCHANGED call /\ ~Calling(w)
      BY <1>9, <2>2 DEF forwardFails
    <3>2. QED
      BY <2>1, <3>1 DEF FailedCallInv, Calling
  <2>3. CASE ~(forwardFailures[w] < 2)
    <3>1. Report(w, w[1], "ForwardFailed")
      BY <1>9, <2>3 DEF forwardFails
    <3>2. call'[w].of = w[1] /\ \A v \in Writers \ {w} : call'[v] = call[v]
      BY <1>0, <3>1, ReportStarts
    <3>3. streak'[w] = 3
      BY <1>9, <2>3 DEF forwardFails, TypeOK, CounterInv
    <3>4. QED
      BY <2>1, <3>2, <3>3 DEF FailedCallInv, Calling
  <2>4. QED
    BY <2>2, <2>3
<1>10. CASE SetEnableMetrics \/ Touch \/ SetUwl \/ SetConfig \/ SetProm \/ Fight \/ ReconcileError
  BY <1>1, <1>10 DEF SetEnableMetrics, Touch, SetUwl, SetConfig, SetProm, Fight, ReconcileError
<1>11. ASSUME NEW w \in Writers, ReportError(w) PROVE CounterInv' /\ FailedCallInv'
  BY <1>3, <1>11 DEF ReportError
<1>12. CASE UpdateError
  BY <1>0, <1>2, <1>12 DEF UpdateError
<1>13. CASE OperatorRestart
  BY <1>0, <1>3, <1>13 DEF OperatorRestart
<1>14. ASSUME NEW w \in Workers, WorkerRestart(w) PROVE CounterInv' /\ FailedCallInv'
  <2>1. CounterInv' /\ \A v \in Workers \ {w} : streak'[v] = streak[v]
    BY <1>14 DEF WorkerRestart, TypeOK, CounterInv
  <2>2. call'[w].at = "none" /\ \A v \in Writers \ {w} : call'[v] = call[v]
    BY <1>0, <1>14, FinishEnds DEF WorkerRestart
  <2>3. QED
    BY <2>1, <2>2 DEF FailedCallInv, Calling
<1>15. CASE UNCHANGED vars
  BY <1>1, <1>15 DEF vars
<1>16. QED
  BY <1>4, <1>5, <1>6, <1>7, <1>8, <1>9, <1>10, <1>11, <1>12, <1>13, <1>14, <1>15
     DEF Next, UpdateComponentCondition, Surroundings

\* For any number of workers, a collector is reported to fail only when one of
\* its own workers has failed three times in a row, whatever restarts, conflicts
\* and retries the report has met on its way.
THEOREM FailedNeedsThree == Spec => FailedAfterThree
<1> DEFINE Failed ==
        \A c \in Components :
            comp'[c] # comp[c] /\ comp'[c] = "ForwardFailed" =>
                \E w \in Workers : w[1] = c /\ streak[w] = 3
<1>1. Init => CounterInv /\ FailedCallInv
  BY DEF Init, CounterInv, FailedCallInv, Calling, NoCall
<1>2. TypeOK /\ CounterInv /\ FailedCallInv /\ [Next]_vars => CounterInv' /\ FailedCallInv'
  BY FailedStep
<1>3. TypeOK /\ FailedCallInv /\ [Next]_vars => [Failed]_vars
  <2>1. SUFFICES ASSUME TypeOK, FailedCallInv, [Next]_vars, NEW c \in Components,
                        comp'[c] # comp[c], comp'[c] = "ForwardFailed"
                 PROVE  \E w \in Workers : w[1] = c /\ streak[w] = 3
    OBVIOUS
  <2>2. PICK w \in valid : /\ call[w].at = "write"
                           /\ comp' = [comp EXCEPT ![call[w].of] = call[w].reason]
    BY <2>1, ChangedByUpdate
  <2>3. w \in Writers /\ call[w].of = c /\ call[w].reason = "ForwardFailed"
    BY <2>1, <2>2 DEF TypeOK
  <2>4. QED
    BY <2>1, <2>2, <2>3 DEF FailedCallInv, Calling
<1>4. QED
  BY <1>1, <1>2, <1>3, TypeCorrect, PTL DEF Spec, FailedAfterThree

=============================================================================
