-------------------------- MODULE MetricsForwarder --------------------------
(***************************************************************************)
(* One worker of the metrics collector (collectors/metrics/pkg/forwarder,  *)
(* pkg/metricsclient): a round federates the metrics of its matchers,      *)
(* evaluates its recording rules, and writes the result to the hub in      *)
(* batches.  Beside it a goroutine reads the token the requests carry from *)
(* its file again, in time for its expiration.  A tick is two minutes.     *)
(***************************************************************************)
EXTENDS Naturals, Sequences

CONSTANTS
    MatcherLists,  \* the matchers of the configuration, sequences
    WorkerNums,    \* --worker-number
    RecordingRules,\* numbers of recording rules
    Life,          \* of a token, in ticks
    RenewedBy,     \* age by which the kubelet has replaced the token in the file
    MaxBatches,    \* bound: batches a round has to write
    MaxAttempts,   \* bound: attempts within MaxElapsedTime of the back-off
    MaxForwardFaults \* bound: failed requests and failed reads of the token

ReadBackoff == 1   \* readBackoff
Remaining   == 5   \* remainingDurationBeforeBackoff

VARIABLES
    shards,       \* the matchers of each shard worker; <<>>: the collector refused to start
    me,           \* the worker that is followed: a shard, or 0 for the recording rules
    ruleCount,    \* its recording rules
    token,        \* age of the token in use
    file,         \* age of the token in the file
    renewIn,        \* ticks until autoRenew reads the file
    round,        \* where forward is
    batches,      \* to write in this round
    accepted,     \* written in this round
    attempts,     \* of the batch that is being written
    failures,     \* forwardFailures
    reported,     \* the reason given to UpdateStatus last
    forwardFaults

forwarderVars == <<shards, me, ruleCount, token, file, renewIn, round, batches, accepted, attempts,
                   failures, reported, forwardFaults>>

ForwarderTypeOK ==
    /\ shards \in Seq(Seq(UNION {{l[i] : i \in DOMAIN l} : l \in MatcherLists}))
    /\ me \in 0..Len(shards) /\ ruleCount \in RecordingRules \cup {0}
    /\ token \in 0..Life /\ file \in 0..Life /\ renewIn \in 0..Life
    /\ round \in {"idle", "federate", "record", "write"}
    /\ batches \in 0..MaxBatches /\ accepted \in 0..MaxBatches /\ attempts \in 0..MaxAttempts
    /\ failures \in 0..2
    /\ reported \in {"none", "sent", "conflict", "nothing", "failed"}
    /\ forwardFaults \in 0..MaxForwardFaults

-----------------------------------------------------------------------------
\* Matcher i goes to shard i % n (counted from 0)
splitMatchersIntoShards(l, n) ==
    IF n <= 1 THEN <<l>>
    ELSE [s \in 1..n |-> [k \in 1..((Len(l) + n - s) \div n) |-> l[n * (k - 1) + s]]]

\* initShardedConfigs: more workers than matchers is an error
initShardedConfigs(l, n) == IF Len(l) < n THEN <<>> ELSE splitMatchersIntoShards(l, n)

computeWaitTimeToEnd(age) == IF Life > age THEN Life - age ELSE ReadBackoff

computeWaitTime(age) ==
    IF Life - age > Remaining + ReadBackoff + ReadBackoff
    THEN Life - age - Remaining - ReadBackoff
    ELSE ReadBackoff

\* Options.Run: the shards run the matchers, a worker of its own the recording
\* rules; none runs when one cannot be configured
RunWorkers ==
    /\ shards \in {initShardedConfigs(l, n) : l \in MatcherLists, n \in WorkerNums}
    /\ me \in 0..Len(shards)
    /\ ruleCount \in IF me = 0 THEN RecordingRules ELSE {0}
    /\ round = IF shards = <<>> THEN "idle" ELSE "federate"

\* The file is read once before autoRenew starts
NewTokenFile ==
    /\ file \in 0..RenewedBy
    /\ token = file /\ renewIn = computeWaitTime(token)

ForwarderInit ==
    /\ RunWorkers /\ NewTokenFile
    /\ batches = 0 /\ accepted = 0 /\ attempts = 0 /\ failures = 0
    /\ reported = "none" /\ forwardFaults = 0

-----------------------------------------------------------------------------
(* The token                                                               *)

Tick ==
    /\ renewIn > 0 /\ file < RenewedBy
    /\ token' = IF token < Life THEN token + 1 ELSE token
    /\ file' = file + 1 /\ renewIn' = renewIn - 1
    /\ UNCHANGED <<shards, me, ruleCount, round, batches, accepted, attempts, failures, reported,
                   forwardFaults>>

\* The kubelet replaces the token when four fifths of its life have passed
Kubelet ==
    /\ 5 * file >= 4 * Life
    /\ file' = 0
    /\ UNCHANGED <<shards, me, ruleCount, token, renewIn, round, batches, accepted, attempts,
                   failures, reported, forwardFaults>>

renewTokenFromFile ==
    /\ token' = file
    /\ UNCHANGED forwardFaults

autoRenew ==
    /\ renewIn = 0
    /\ \/ renewTokenFromFile
       \/ /\ forwardFaults < MaxForwardFaults /\ forwardFaults' = forwardFaults + 1
          /\ UNCHANGED token
    /\ renewIn' = computeWaitTime(token')
    /\ UNCHANGED <<shards, me, ruleCount, file, round, batches, accepted, attempts, failures,
                   reported>>

-----------------------------------------------------------------------------
(* A round                                                                 *)

Fault == forwardFaults < MaxForwardFaults /\ forwardFaults' = forwardFaults + 1

updateStatusCounting(reason) ==
    IF reason = "failed" THEN failures' = failures + 1 /\ UNCHANGED reported
    ELSE failures' = 0 /\ reported' = reason

\* updateStatus of forward: a failure counts, the third one is reported
updateStatus(reason) ==
    IF reason = "failed" /\ failures < 2
    THEN failures' = failures + 1 /\ UNCHANGED reported
    ELSE failures' = 0 /\ reported' = reason

\* An expired token: 401, and any status but 200 is an error
Refused == token >= Life

\* A body that cannot be read to its end gives the families up to there
Retrieve ==
    /\ ~Refused
    /\ batches' \in 0..MaxBatches

\* What the recording rules add to the families federated so far; an answer that
\* cannot be decoded adds nothing
RetrieveRecordingMetrics ==
    IF ruleCount = 0 THEN {batches}
    ELSE {n \in batches..MaxBatches : ~Refused}

RequestFails(wanted) ==
    IF wanted /\ Refused THEN UNCHANGED forwardFaults ELSE Fault

Ends(reason) ==
    /\ updateStatus(reason)
    /\ round' = "idle" /\ batches' = 0 /\ accepted' = 0 /\ attempts' = 0

\* Run: the ticker starts the next round
Round ==
    /\ round = "idle" /\ shards # <<>>
    /\ round' = "federate"
    /\ UNCHANGED <<shards, me, ruleCount, token, file, renewIn, batches, accepted, attempts,
                   failures, reported, forwardFaults>>

Matchers == IF me = 0 THEN <<>> ELSE shards[me]

getFederateMetrics ==
    /\ round = "federate"
    /\ \/ /\ Matchers = <<>>
          /\ round' = "record"
          /\ UNCHANGED <<batches, accepted, attempts, failures, reported, forwardFaults>>
       \/ /\ Matchers # <<>> /\ Retrieve
          /\ round' = "record"
          /\ UNCHANGED <<accepted, attempts, failures, reported, forwardFaults>>
       \/ /\ Matchers # <<>>
          /\ RequestFails(TRUE)
          /\ Ends("failed")
    /\ UNCHANGED <<shards, me, ruleCount, token, file, renewIn>>

\* No rule gives anything and one has failed: the round fails; Filter can fail
\* too.  RemoteWrite has nothing to do for no time series
getRecordingMetrics ==
    /\ round = "record"
    /\ \/ /\ \E n \in RetrieveRecordingMetrics :
               IF n = 0 THEN Ends("nothing")
               ELSE /\ round' = "write" /\ batches' = n
                    /\ UNCHANGED <<accepted, attempts, failures, reported>>
          /\ UNCHANGED forwardFaults
       \/ /\ RequestFails(ruleCount > 0)
          /\ Ends("failed")
    /\ UNCHANGED <<shards, me, ruleCount, token, file, renewIn>>

\* RemoteWrite: the next batch, with sendRequest's answer.  5xx, 429 and a timeout
\* are tried again until the back-off ends
sendRequest(answer) ==
    CASE answer = "ok" ->
           /\ IF accepted + 1 = batches THEN Ends("sent")
              ELSE /\ accepted' = accepted + 1 /\ attempts' = 0
                   /\ UNCHANGED <<round, batches, failures, reported>>
           /\ UNCHANGED forwardFaults
      [] answer = "transient" ->
           /\ Fault
           /\ IF attempts + 1 < MaxAttempts
              THEN attempts' = attempts + 1
                   /\ UNCHANGED <<round, batches, accepted, failures, reported>>
              ELSE Ends("failed")
      [] answer = "permanent" -> Fault /\ Ends("failed")
      [] answer = "conflict" -> Fault /\ Ends("conflict")

RemoteWrite ==
    /\ round = "write"
    /\ \E answer \in {"ok", "transient", "permanent", "conflict"} : sendRequest(answer)
    /\ UNCHANGED <<shards, me, ruleCount, token, file, renewIn>>

-----------------------------------------------------------------------------
ForwarderNext ==
    \/ Tick \/ Kubelet \/ autoRenew
    \/ Round \/ getFederateMetrics \/ getRecordingMetrics \/ RemoteWrite

ForwarderSpec == ForwarderInit /\ [][ForwarderNext]_forwarderVars

-----------------------------------------------------------------------------
\* The token in use has not expired: the file is read from ten minutes before
\* the expiration on, late enough to find the kubelet's new token and early
\* enough for a read that fails
TokenValid == token < Life

=============================================================================
