--------------------------- MODULE CollectorStatus ---------------------------
(***************************************************************************)
(* Who writes the component conditions of the ObservabilityAddon (OBA) of  *)
(* a managed cluster.                                                      *)
(*                                                                         *)
(* The endpoint operator deploys the collectors and reports how that went; *)
(* its CmoConfigChangesWatcher reports that somebody fights over the       *)
(* cluster monitoring configuration.  The workers of the collectors report *)
(* how forwarding goes.  All of them go through UpdateComponentCondition:  *)
(* read the OBA, check the transition, update, again on a conflict.  The   *)
(* operator reads through an informer cache, the collectors do not.        *)
(***************************************************************************)
EXTENDS AddonStatus, Integers

CONSTANTS
    Shards,       \* workers of each collector (one per shard of matchers)
    Capacity,     \* of the leaky bucket
    ResetLevel,   \* length of the bucket at statusResetFillRatio
    Attempts,     \* attempts of RetryOnConflict
    CacheLags,    \* whether the operator's cache of the OBA may trail
    Changes,      \* what the administrator changes (see ChangeKinds)
    Failures,     \* what fails (see FailureKinds)
    MaxChanges,   \* bound: changes of the administrator
    MaxFailures,  \* bound: failures
    MaxFights,    \* bound: changes of the configuration by another operator
    MaxForwards   \* bound: forwards of the workers, and updates of the OBA by
                  \* the status controller

\* enable: spec.enableMetrics; uwl: user workload monitoring; config: whatever
\* changes the pods of the collectors; prom: the Prometheus service
ChangeKinds == {"enable", "uwl", "config", "prom"}

\* report: a call of UpdateComponentCondition fails; update: a collector cannot
\* be deployed; operator: the operator restarts or fails before its checks;
\* worker: a collector restarts
FailureKinds == {"report", "update", "operator", "worker"}

ASSUME BucketAssumption ==
    Capacity \in Nat /\ ResetLevel \in 1..Capacity /\ ResetLevel < Capacity
ASSUME AttemptsAssumption == Attempts \in Nat \ {0}
ASSUME KindsAssumption ==
    CacheLags \in BOOLEAN /\ Changes \subseteq ChangeKinds /\ Failures \subseteq FailureKinds
ASSUME BoundsAssumption ==
    MaxChanges \in Nat /\ MaxFailures \in Nat /\ MaxFights \in Nat /\ MaxForwards \in Nat

Workers == Components \X Shards
Operator == <<"operator", "operator">>
Writers == Workers \cup {Operator}

VARIABLES
    \* the cluster
    comp,       \* component conditions of the OBA
    spec,       \* its spec.enableMetrics
    compC, specC, fresh,  \* the operator's cache, and whether it is the latest
    uwl,        \* user workload monitoring is on
    prom,       \* the Prometheus service exists
    cmo,        \* whose version of the monitoring configuration is in place
    deploy,     \* the deployment of each collector
    \* the operator
    queue, timer,         \* requests, and a request with RequeueAfter
    pc, req, metrics,     \* the running Reconcile, its request and spec
    cmoWasUpdated,
    bucket, checkedAtLeastOnce,
    \* calls of UpdateComponentCondition
    call,       \* of each writer (see Calls)
    valid,      \* writers whose copy of the OBA is the latest version
    \* the workers
    forwardFailures,
    streak,     \* history: failed forwards in a row, up to three
    count       \* environment steps taken so far, per kind

obaVars    == <<comp, spec>>
cacheVars  == <<compC, specC, fresh>>
clusterVars == <<uwl, prom, cmo, deploy>>
opVars     == <<queue, timer, pc, req, metrics, cmoWasUpdated, bucket, checkedAtLeastOnce>>
callVars   == <<call, valid>>
workerVars == <<forwardFailures, streak>>
vars == <<obaVars, cacheVars, clusterVars, opVars, callVars, workerVars, count>>

-----------------------------------------------------------------------------
\* a call: none, about to read, about to write; the component, the reason, and
\* the attempts left
Calls == [at : {"none", "fetch", "write"}, of : Components, reason : Reasons,
          left : 0..Attempts]

NoCall == [at |-> "none", of |-> "MetricsCollector", reason |-> "Disabled", left |-> 0]

\* cmo: the monitoring configuration; other: everything else
Requests == {"cmo", "other"}

EnvKinds == {"change", "failure", "fight", "forward"}

TypeOK ==
    /\ comp \in [Components -> Reported] /\ compC \in [Components -> Reported]
    /\ spec \in BOOLEAN /\ specC \in BOOLEAN /\ fresh \in BOOLEAN
    /\ uwl \in BOOLEAN /\ prom \in BOOLEAN /\ cmo \in {"ours", "theirs"}
    /\ deploy \in [Components -> {"absent", "off", "on", "outdated"}]
    /\ queue \subseteq Requests /\ timer \in BOOLEAN
    /\ pc \in {"idle", "check", "platform", "uwl"}
    /\ req \in Requests /\ metrics \in BOOLEAN /\ cmoWasUpdated \in BOOLEAN
    /\ bucket \in 0..Capacity /\ checkedAtLeastOnce \in BOOLEAN
    /\ call \in [Writers -> Calls] /\ valid \subseteq Writers
    /\ forwardFailures \in [Workers -> 0..2] /\ streak \in [Workers -> 0..3]
    /\ count \in [EnvKinds -> Nat]

Init ==
    /\ comp = [c \in Components |-> "none"] /\ compC = comp
    /\ spec = TRUE /\ specC = TRUE /\ fresh = TRUE
    /\ uwl = FALSE /\ prom = TRUE /\ cmo = "theirs"
    /\ deploy = [c \in Components |-> "absent"]
    /\ queue = Requests /\ timer = FALSE /\ pc = "idle"
    /\ req = "other" /\ metrics = TRUE /\ cmoWasUpdated = FALSE
    /\ bucket = 0 /\ checkedAtLeastOnce = FALSE
    /\ call = [w \in Writers |-> NoCall] /\ valid = {}
    /\ forwardFailures = [w \in Workers |-> 0] /\ streak = [w \in Workers |-> 0]
    /\ count = [k \in EnvKinds |-> 0]

Happens(k, bound) == count[k] < bound /\ count' = [count EXCEPT ![k] = @ + 1]

-----------------------------------------------------------------------------
(***************************************************************************)
(* UpdateComponentCondition                                                *)
(***************************************************************************)
\* writer w starts to report reason r of component c
Report(w, c, r) ==
    call' = [call EXCEPT ![w] = [at |-> "fetch", of |-> c, reason |-> r, left |-> Attempts]]

Calling(w) == call[w].at # "none"

\* every caller goes on whether the report succeeded or not
Finish(w) == call' = [call EXCEPT ![w] = NoCall] /\ valid' = valid \ {w}

\* what w reads: the operator its cache, the workers the API server
Seen(w) == IF w = Operator THEN compC ELSE comp

CacheReady == CacheLags \/ fresh

\* up to the update: nothing to do for the reason that is there already, and
\* no transition that is not allowed
fetchAddon(w) ==
    LET c == call[w].of
        r == call[w].reason
        s == Seen(w)[c]
    IN
    /\ call[w].at = "fetch" /\ (w = Operator => CacheReady)
    /\ IF r # s /\ Accepts(s, r)
       THEN /\ call' = [call EXCEPT ![w].at = "write"]
            /\ valid' = IF w = Operator /\ ~fresh THEN valid \ {w} ELSE valid \cup {w}
       ELSE Finish(w)
    /\ UNCHANGED <<obaVars, cacheVars, clusterVars, opVars, workerVars, count>>

StatusOverwrite(w) ==
    /\ call[w].at = "write"
    /\ comp' = [comp EXCEPT ![call[w].of] = call[w].reason]
    /\ fresh' = FALSE /\ valid' = {} /\ call' = [call EXCEPT ![w] = NoCall]
    /\ UNCHANGED <<spec, compC, specC, clusterVars, opVars, workerVars, count>>

\* Status().Update, refused when the OBA has changed since it was read;
\* RetryOnConflict reads it again or gives up
StatusUpdate(w) ==
    /\ call[w].at = "write"
    /\ \/ /\ w \in valid
          /\ comp' = [comp EXCEPT ![call[w].of] = call[w].reason]
          /\ fresh' = FALSE /\ valid' = {} /\ call' = [call EXCEPT ![w] = NoCall]
       \/ /\ w \notin valid /\ call[w].left > 1
          /\ call' = [call EXCEPT ![w].at = "fetch", ![w].left = @ - 1]
          /\ UNCHANGED <<comp, fresh, valid>>
       \/ /\ w \notin valid /\ call[w].left <= 1
          /\ Finish(w) /\ UNCHANGED <<comp, fresh>>
    /\ UNCHANGED <<spec, compC, specC, clusterVars, opVars, workerVars, count>>

-----------------------------------------------------------------------------
(***************************************************************************)
(* Endpoint operator                                                       *)
(***************************************************************************)
Enqueue(Q) == queue' = queue \cup Q

\* Reconcile up to CheckRequest: without a Prometheus service the addon is not
\* supported; the monitoring configuration is put right, which raises an event
Reconcile(q) ==
    /\ pc = "idle" /\ ~Calling(Operator) /\ q \in queue
    /\ req' = q /\ metrics' = specC
    /\ IF prom
       THEN /\ pc' = "check" /\ cmo' = "ours" /\ cmoWasUpdated' = (cmo = "theirs")
            /\ queue' = IF cmo = "theirs" THEN (queue \ {q}) \cup {"cmo"} ELSE queue \ {q}
            /\ UNCHANGED call
       ELSE /\ Report(Operator, "MetricsCollector", "NotSupported")
            /\ queue' = queue \ {q}
            /\ UNCHANGED <<pc, cmo, cmoWasUpdated>>
    /\ UNCHANGED <<obaVars, cacheVars, uwl, prom, deploy, timer, bucket, checkedAtLeastOnce,
                   valid, workerVars, count>>

\* leakyBucket.Add
Filled == IF cmoWasUpdated THEN bucket + 1 ELSE bucket

\* statusResetFillRatio: the configuration has been quiet for long enough
AtResetLevel(n) == n <= ResetLevel

ResetOrLeave ==
    /\ pc' = "platform"
    /\ IF AtResetLevel(Filled)
       THEN Report(Operator, "MetricsCollector", "CMOReconcileLoopStopped")
       ELSE UNCHANGED call
    /\ UNCHANGED timer

\* the status is the watcher's: reset it, or come back later
ResetOrRequeue ==
    IF AtResetLevel(Filled)
    THEN /\ Report(Operator, "MetricsCollector", "CMOReconcileLoopStopped")
         /\ pc' = "platform" /\ UNCHANGED timer
    ELSE timer' = TRUE /\ pc' = "idle" /\ UNCHANGED call

CheckRequest ==
    /\ pc = "check" /\ ~Calling(Operator)
    /\ checkedAtLeastOnce' = TRUE
    /\ \/ /\ checkedAtLeastOnce /\ req # "cmo"
          /\ pc' = "platform" /\ UNCHANGED <<call, timer, bucket>>
       \/ /\ ~checkedAtLeastOnce \/ req = "cmo"
          /\ \/ /\ cmoWasUpdated /\ bucket = Capacity
                /\ Report(Operator, "MetricsCollector", "CMOReconcileLoopDetected")
                /\ timer' = TRUE /\ pc' = "idle" /\ UNCHANGED bucket
             \/ /\ ~(cmoWasUpdated /\ bucket = Capacity)
                /\ CacheReady /\ bucket' = Filled
                /\ IF compC["MetricsCollector"] = "CMOReconcileLoopDetected"
                   THEN ResetOrRequeue
                   ELSE pc' = "platform" /\ UNCHANGED <<call, timer>>
    /\ UNCHANGED <<obaVars, cacheVars, clusterVars, queue, req, metrics, cmoWasUpdated,
                   valid, workerVars, count>>

Desired == IF metrics THEN "on" ELSE "off"

\* ensureDeployment; a new deployment or new pods raise an event, a change of
\* the replicas does not (getPred)
Deploy(c, d) ==
    /\ deploy' = [deploy EXCEPT ![c] = d]
    /\ Enqueue(IF deploy[c] # d /\ {deploy[c], d} # {"on", "off"} THEN {"other"} ELSE {})

ReportDeployedOnChange(c) ==
    \/ ~metrics /\ deploy[c] # Desired /\ Report(Operator, c, "Disabled")
    \/ metrics /\ deploy[c] # "on" /\ Report(Operator, c, "UpdateSuccessful")
    \/ deploy[c] = Desired /\ UNCHANGED call

\* UpdateSuccessful only for a deployment that changed
ReportDeployed(c) ==
    \/ ~metrics /\ Report(Operator, c, "Disabled")
    \/ metrics /\ deploy[c] # "on" /\ Report(Operator, c, "UpdateSuccessful")
    \/ metrics /\ deploy[c] = "on" /\ UNCHANGED call

\* MetricsCollector.Update, for the platform collector
UpdatePlatform ==
    /\ pc = "platform" /\ ~Calling(Operator)
    /\ pc' = "uwl"
    /\ Deploy("MetricsCollector", Desired)
    /\ ReportDeployed("MetricsCollector")
    /\ UNCHANGED <<obaVars, cacheVars, uwl, prom, cmo, timer, req, metrics, cmoWasUpdated,
                   bucket, checkedAtLeastOnce, valid, workerVars, count>>

\* and for the user workload collector, which is removed when it has no use
UpdateUwl ==
    /\ pc = "uwl" /\ ~Calling(Operator)
    /\ pc' = "idle"
    /\ IF uwl
       THEN Deploy("UwlMetricsCollector", Desired) /\ ReportDeployed("UwlMetricsCollector")
       ELSE /\ Deploy("UwlMetricsCollector", "absent")
            /\ Report(Operator, "UwlMetricsCollector", "Disabled")
    /\ UNCHANGED <<obaVars, cacheVars, uwl, prom, cmo, timer, req, metrics, cmoWasUpdated,
                   bucket, checkedAtLeastOnce, valid, workerVars, count>>

OperatorStep ==
    \/ \E q \in Requests : Reconcile(q)
    \/ CheckRequest \/ UpdatePlatform \/ UpdateUwl

\* startLeaking
Leak ==
    /\ bucket > 0 /\ bucket' = bucket - 1
    /\ UNCHANGED <<obaVars, cacheVars, clusterVars, queue, timer, pc, req, metrics,
                   cmoWasUpdated, checkedAtLeastOnce, callVars, workerVars, count>>

\* the time of RequeueAfter has passed: minutes, far longer than a cache trails
RequeueAfter ==
    /\ timer /\ fresh
    /\ timer' = FALSE /\ Enqueue({"cmo"})
    /\ UNCHANGED <<obaVars, cacheVars, clusterVars, pc, req, metrics, cmoWasUpdated, bucket,
                   checkedAtLeastOnce, callVars, workerVars, count>>

\* the cache catches up; a changed spec raises an event
SyncOba ==
    /\ ~fresh /\ fresh' = TRUE
    /\ compC' = comp /\ specC' = spec
    /\ Enqueue(IF specC # spec THEN {"other"} ELSE {})
    /\ UNCHANGED <<obaVars, clusterVars, timer, pc, req, metrics, cmoWasUpdated, bucket,
                   checkedAtLeastOnce, callVars, workerVars, count>>

-----------------------------------------------------------------------------
(***************************************************************************)
(* Workers of the collectors                                               *)
(***************************************************************************)
forwardSucceedsWithoutReset(w) ==
    /\ deploy[w[1]] \in {"on", "outdated"} /\ ~Calling(w)
    /\ Happens("forward", MaxForwards)
    /\ streak' = [streak EXCEPT ![w] = 0]
    /\ Report(w, w[1], "ForwardSuccessful")
    /\ UNCHANGED <<obaVars, cacheVars, clusterVars, opVars, valid, forwardFailures>>

\* forward holds the lock of the worker until its report is done
forwardSucceeds(w) ==
    /\ deploy[w[1]] \in {"on", "outdated"} /\ ~Calling(w)
    /\ Happens("forward", MaxForwards)
    /\ forwardFailures' = [forwardFailures EXCEPT ![w] = 0]
    /\ streak' = [streak EXCEPT ![w] = 0]
    /\ Report(w, w[1], "ForwardSuccessful")
    /\ UNCHANGED <<obaVars, cacheVars, clusterVars, opVars, valid>>

forwardFails(w) ==
    /\ deploy[w[1]] \in {"on", "outdated"} /\ ~Calling(w)
    /\ Happens("forward", MaxForwards)
    /\ streak' = [streak EXCEPT ![w] = IF @ < 3 THEN @ + 1 ELSE 3]
    /\ forwardFailures' = [forwardFailures EXCEPT ![w] = (@ + 1) % 3]
    /\ IF forwardFailures[w] < 2
       THEN UNCHANGED call
       ELSE Report(w, w[1], "ForwardFailed")
    /\ UNCHANGED <<obaVars, cacheVars, clusterVars, opVars, valid>>

-----------------------------------------------------------------------------
(***************************************************************************)
(* The surroundings                                                        *)
(***************************************************************************)
Change(k) == k \in Changes /\ Happens("change", MaxChanges)

SetEnableMetrics ==
    /\ Change("enable")
    /\ spec' = ~spec /\ fresh' = FALSE /\ valid' = {}
    /\ UNCHANGED <<comp, compC, specC, clusterVars, opVars, call, workerVars>>

SetUwl ==
    /\ Change("uwl")
    /\ uwl' = ~uwl /\ Enqueue({"other"})
    /\ UNCHANGED <<obaVars, cacheVars, prom, cmo, deploy, timer, pc, req, metrics,
                   cmoWasUpdated, bucket, checkedAtLeastOnce, callVars, workerVars>>

SetConfig ==
    /\ Change("config")
    /\ deploy' = [c \in Components |->
                    IF deploy[c] \in {"on", "off"} THEN "outdated" ELSE deploy[c]]
    /\ Enqueue({"other"})
    /\ UNCHANGED <<obaVars, cacheVars, uwl, prom, cmo, timer, pc, req, metrics,
                   cmoWasUpdated, bucket, checkedAtLeastOnce, callVars, workerVars>>

\* nobody watches the service
SetProm ==
    /\ Change("prom")
    /\ prom' = ~prom
    /\ UNCHANGED <<obaVars, cacheVars, uwl, cmo, deploy, opVars, callVars, workerVars>>

\* another operator puts its own version of the configuration back
Fight ==
    /\ cmo = "ours" /\ Happens("fight", MaxFights)
    /\ cmo' = "theirs" /\ Enqueue({"cmo"})
    /\ UNCHANGED <<obaVars, cacheVars, uwl, prom, deploy, timer, pc, req, metrics,
                   cmoWasUpdated, bucket, checkedAtLeastOnce, callVars, workerVars>>

\* the status controller updates the standard conditions of the OBA
Touch ==
    /\ valid # {} /\ Happens("forward", MaxForwards)
    /\ fresh' = FALSE /\ valid' = {}
    /\ UNCHANGED <<obaVars, compC, specC, clusterVars, opVars, call, workerVars>>

Fails(k) == k \in Failures /\ Happens("failure", MaxFailures)

\* UpdateComponentCondition returns an error; its callers log it
ReportError(w) ==
    /\ Fails("report") /\ Calling(w) /\ Finish(w)
    /\ UNCHANGED <<obaVars, cacheVars, clusterVars, opVars, workerVars>>

\* MetricsCollector.Update reports the failure and returns the error; the
\* deployment is the last to be updated and the first to be deleted
UpdateError ==
    /\ Fails("update") /\ pc \in {"platform", "uwl"} /\ ~Calling(Operator)
    /\ Report(Operator, IF pc = "uwl" THEN "UwlMetricsCollector" ELSE "MetricsCollector",
              "UpdateFailed")
    /\ pc' = "idle"
    /\ \/ Enqueue({req}) /\ UNCHANGED deploy
       \/ /\ pc = "uwl" /\ ~uwl /\ deploy["UwlMetricsCollector"] # "absent"
          /\ deploy' = [deploy EXCEPT !["UwlMetricsCollector"] = "absent"]
          /\ Enqueue({req, "other"})
    /\ UNCHANGED <<obaVars, cacheVars, uwl, prom, cmo, timer, req, metrics, cmoWasUpdated,
                   bucket, checkedAtLeastOnce, valid, workerVars>>

\* an error before CheckRequest, or of GetConditionReason in it
ReconcileError ==
    /\ Fails("operator") /\ pc = "check"
    /\ pc' = "idle" /\ Enqueue({req})
    /\ \/ UNCHANGED <<checkedAtLeastOnce, bucket>>
       \/ /\ ~checkedAtLeastOnce \/ req = "cmo"
          /\ ~(cmoWasUpdated /\ bucket = Capacity)
          /\ checkedAtLeastOnce' = TRUE /\ bucket' = Filled
    /\ UNCHANGED <<obaVars, cacheVars, clusterVars, timer, req, metrics, cmoWasUpdated,
                   callVars, workerVars>>

\* the Create events of the new informers bring every request
OperatorRestart ==
    /\ Fails("operator")
    /\ compC' = comp /\ specC' = spec /\ fresh' = TRUE
    /\ queue' = Requests /\ timer' = FALSE /\ pc' = "idle"
    /\ req' = "other" /\ metrics' = TRUE /\ cmoWasUpdated' = FALSE
    /\ bucket' = 0 /\ checkedAtLeastOnce' = FALSE
    /\ Finish(Operator)
    /\ UNCHANGED <<obaVars, clusterVars, workerVars>>

WorkerRestart(w) ==
    /\ Fails("worker")
    /\ Finish(w)
    /\ forwardFailures' = [forwardFailures EXCEPT ![w] = 0]
    /\ streak' = [streak EXCEPT ![w] = 0]
    /\ UNCHANGED <<obaVars, cacheVars, clusterVars, opVars>>

Surroundings ==
    \/ SetEnableMetrics \/ SetUwl \/ SetConfig \/ SetProm \/ Fight \/ Touch
    \/ \E w \in Writers : ReportError(w)
    \/ UpdateError \/ ReconcileError \/ OperatorRestart
    \/ \E w \in Workers : WorkerRestart(w)

UpdateComponentCondition(w) == fetchAddon(w) \/ StatusUpdate(w)

Next ==
    \/ \E w \in Writers : UpdateComponentCondition(w)
    \/ OperatorStep \/ Leak \/ RequeueAfter \/ SyncOba
    \/ \E w \in Workers : forwardSucceeds(w) \/ forwardFails(w)
    \/ Surroundings

Spec == Init /\ [][Next]_vars

(***************************************************************************)
(* Fairness: the operator takes its requests and calls come to an end, the *)
(* bucket leaks, timers run out, the cache catches up.  Nothing is assumed *)
(* of the workers' forwards, the administrator and failures.               *)
(***************************************************************************)
Fairness ==
    /\ \A w \in Writers : WF_vars(UpdateComponentCondition(w))
    /\ \A q \in Requests : SF_vars(Reconcile(q))
    /\ WF_vars(OperatorStep)
    /\ WF_vars(Leak) /\ WF_vars(RequeueAfter) /\ WF_vars(SyncOba)

FairSpec == Spec /\ Fairness

-----------------------------------------------------------------------------
(***************************************************************************)
(* Properties                                                              *)
(***************************************************************************)
\* Whatever the reporters do at the same time and however far the operator's
\* cache trails, a component condition only ever moves along componentTransitions,
\* and an update made for one component leaves the other alone.
StrictTransitions ==
    [][/\ \A c \in Components : comp'[c] # comp[c] => Accepts(comp[c], comp'[c])
       /\ \A c, d \in Components : comp'[c] # comp[c] /\ comp'[d] # comp[d] => c = d]_vars

\* A collector is reported to fail only after three failed forwards in a row of
\* one of its workers.
FailedAfterThree ==
    [][\A c \in Components :
          comp'[c] # comp[c] /\ comp'[c] = "ForwardFailed" =>
              \E w \in Workers : w[1] = c /\ streak[w] = 3]_vars

\* Once nobody changes the monitoring configuration any more, the condition
\* leaves CMOReconcileLoopDetected.
LoopRecovers == <>[](comp["MetricsCollector"] # "CMOReconcileLoopDetected")

\* A collector that is switched off for good ends up reported as Disabled, also
\* when an update of it failed on the way.
DisabledShown ==
    \A c \in Components :
        <>[](~spec \/ (c = "UwlMetricsCollector" /\ ~uwl)) => <>[](comp[c] = "Disabled")

\* Once updates of the collectors succeed again, no component stays in
\* UpdateFailed.
UpdateRecovers == <>[](\A c \in Components : comp[c] # "UpdateFailed")

=============================================================================
