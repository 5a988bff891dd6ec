------------------------ MODULE ManagedClusterProofs ------------------------
(***************************************************************************)
(* Theorems about what runs in a managed cluster, the parts "forwarder",   *)
(* "rules" and "cmo" of System: for any configuration of a collector's     *)
(* worker, any life of its token, any collect rules, any number of hubs    *)
(* whose operators share the monitoring ConfigMaps, and any bounds.        *)
(***************************************************************************)
EXTENDS System, FiniteSetTheorems, SequenceTheorems, TLAPS

-----------------------------------------------------------------------------
(***************************************************************************)
(* The token of a worker                                                   *)
(***************************************************************************)
LEMMA ForwarderStarts == SystemInit /\ part = "forwarder" => Forwarder!ForwarderInit
  BY DEF SystemInit

LEMMA ForwarderSteps ==
    ASSUME [SystemNext]_systemVars
    PROVE  /\ part' = part
           /\ part = "forwarder" => [Forwarder!ForwarderNext]_forwarderVars
  BY DEF SystemNext, systemVars

\* The age by which autoRenew reads a file that it can read
LastRead ==
    IF RenewedBy + Forwarder!ReadBackoff > Life - Forwarder!Remaining - Forwarder!ReadBackoff
    THEN RenewedBy + Forwarder!ReadBackoff
    ELSE Life - Forwarder!Remaining - Forwarder!ReadBackoff

\* autoRenew is never asleep beyond the age at which it has to read the file:
\* only failures have moved that, each by a readBackoff.
TokenInv ==
    /\ token \in Nat /\ file \in Nat /\ renewIn \in Nat /\ forwardFaults \in 0..MaxForwardFaults
    /\ file <= RenewedBy
    /\ token + renewIn <= LastRead + forwardFaults

\* It sleeps until there is time for a few failures, or for a readBackoff.
LEMMA WaitTime ==
    ASSUME NEW age \in Nat
    PROVE  /\ Forwarder!computeWaitTime(age) \in Nat
           /\ \/ age + Forwarder!computeWaitTime(age)
                   = Life - Forwarder!Remaining - Forwarder!ReadBackoff
              \/ Forwarder!computeWaitTime(age) = Forwarder!ReadBackoff
  BY ForwarderAssumption
     DEF Forwarder!computeWaitTime, Forwarder!Remaining, Forwarder!ReadBackoff

LEMMA TokenStarts == Forwarder!ForwarderInit => TokenInv
  BY WaitTime, ForwarderAssumption
     DEF Forwarder!ForwarderInit, Forwarder!NewTokenFile, TokenInv, LastRead,
         Forwarder!Remaining, Forwarder!ReadBackoff

LEMMA TokenStep ==
    ASSUME TokenInv, [Forwarder!ForwarderNext]_forwarderVars
    PROVE  TokenInv'
<1> USE ForwarderAssumption DEF TokenInv, LastRead, Forwarder!Remaining, Forwarder!ReadBackoff
<1>1. CASE Forwarder!Tick
  BY <1>1 DEF Forwarder!Tick
<1>2. CASE Forwarder!Kubelet
  BY <1>2 DEF Forwarder!Kubelet
<1>3. CASE Forwarder!autoRenew
  <2>1. CASE Forwarder!renewTokenFromFile
    BY <1>3, <2>1, WaitTime DEF Forwarder!autoRenew, Forwarder!renewTokenFromFile
  <2>2. CASE Forwarder!Fault /\ UNCHANGED token
    BY <1>3, <2>2, WaitTime DEF Forwarder!autoRenew, Forwarder!Fault
  <2>3. QED
    BY <1>3, <2>1, <2>2 DEF Forwarder!autoRenew, Forwarder!Fault
<1>4. CASE UNCHANGED <<token, file, renewIn>> /\ (UNCHANGED forwardFaults \/ Forwarder!Fault)
  BY <1>4 DEF Forwarder!Fault
<1>5. CASE \/ Forwarder!Round \/ Forwarder!getFederateMetrics
           \/ Forwarder!getRecordingMetrics \/ Forwarder!RemoteWrite
  BY <1>4, <1>5 DEF Forwarder!Round, Forwarder!getFederateMetrics,
     Forwarder!getRecordingMetrics, Forwarder!RemoteWrite, Forwarder!Retrieve,
     Forwarder!RequestFails, Forwarder!sendRequest
<1>6. CASE UNCHANGED forwarderVars
  BY <1>4, <1>6 DEF forwarderVars
<1>7. QED
  BY <1>1, <1>2, <1>3, <1>5, <1>6 DEF Forwarder!ForwarderNext

\* For any life of a token, the token a worker sends has not expired, as long as the
\* failures fit into the margin with which autoRenew starts to read the file
\* (autoRenew, computeWaitTime).
THEOREM CollectorTokenValid == SystemSpec => []TokenValid
<1>1. SystemInit => (part = "forwarder" => TokenInv)
  BY ForwarderStarts, TokenStarts
<1>2. (part = "forwarder" => TokenInv) /\ [SystemNext]_systemVars
         => (part = "forwarder" => TokenInv)'
  BY ForwarderSteps, TokenStep
<1>3. (part = "forwarder" => TokenInv) => TokenValid
  BY ForwarderAssumption
     DEF TokenInv, TokenValid, Forwarder!TokenValid, LastRead, Forwarder!Remaining,
         Forwarder!ReadBackoff
<1>4. QED
  BY <1>1, <1>2, <1>3, PTL DEF SystemSpec

-----------------------------------------------------------------------------
(***************************************************************************)
(* Collect rules                                                           *)
(***************************************************************************)
LEMMA RulesStart == SystemInit /\ part = "rules" => Rules!RulesInit
  BY DEF SystemInit

LEMMA RulesStep ==
    ASSUME [SystemNext]_systemVars
    PROVE  /\ part' = part
           /\ part = "rules" => [Rules!RulesNext]_ruleVars
  BY DEF SystemNext, systemVars

\* Ages stop above every duration.
LEMMA MaxAgeAbove ==
    /\ Rules!MaxAge \in Nat \ {0} /\ Rules!MaxAge > Expire
    /\ \A h \in Series : Rules!MaxAge > Duration[RuleOf[h]]
<1> DEFINE D == {Expire} \cup {Duration[r] : r \in Rules!RuleNames}
           longest == CHOOSE n \in D : \A m \in D : m <= n
<1>1. longest \in D /\ \A m \in D : m <= longest
  BY RulesAssumption
<1>2. D \subseteq Nat /\ Expire \in D /\ \A h \in Series : Duration[RuleOf[h]] \in D
  BY RulesAssumption DEF Rules!RuleNames
<1>3. Rules!MaxAge = 1 + longest
  BY DEF Rules!MaxAge
<1> HIDE DEF D, longest
<1>4. longest \in Nat /\ \A m \in D : m \in Nat /\ m < 1 + longest
  BY <1>1, <1>2
<1>5. Rules!MaxAge \in Nat \ {0}
  BY <1>3, <1>4
<1>6. \A m \in D : Rules!MaxAge > m
  BY <1>3, <1>4
<1>7. QED
  BY <1>2, <1>5, <1>6

Ages == [Series -> 0..Rules!MaxAge]

\* An evaluation does one of three things to the worker: nothing when nothing starts
\* or stops to fire, the end of it when nothing fires any more, or a start.
LEMMA EvaluationEnds ==
    ASSUME NEW failed, NEW garbled, NEW fails, Rules!evaluate(failed, garbled, fails)
    PROVE  \/ firing' = firing /\ UNCHANGED <<worker, lingering, startFailed>>
           \/ /\ Rules!getMatches(firing') = {} /\ worker.there /\ Rules!stopWorker
           \/ /\ Rules!getMatches(firing') = {} /\ ~worker.there
              /\ startFailed' = FALSE /\ UNCHANGED <<worker, lingering>>
           \/ /\ Rules!getMatches(firing') # {}
              /\ Rules!startWorker(Rules!getMatches(firing'), fails)
<1> DEFINE heard == {h \in Series : RuleOf[h] \notin failed}
           back == {h \in heard \cap truth : RuleOf[h] \notin garbled}
           fired == {h \in Series : Rules!Fires(h, heard, back)}
           expired == {h \in Series : Rules!Expires(h, heard, back)}
<1>1. /\ firing' = (firing \cup fired) \ expired
      /\ CASE fired \cup expired = {} -> ~fails /\ UNCHANGED <<worker, lingering, startFailed>>
           [] fired \cup expired # {} /\ Rules!getMatches(firing') = {} ->
                /\ ~fails
                /\ IF worker.there THEN Rules!stopWorker
                   ELSE startFailed' = FALSE /\ UNCHANGED <<worker, lingering>>
           [] OTHER -> Rules!startWorker(Rules!getMatches(firing'), fails)
  BY DEF Rules!evaluate
<1> HIDE DEF heard, back, fired, expired
<1>2. CASE fired \cup expired = {}
  BY <1>1, <1>2
<1>3. CASE fired \cup expired # {}
  BY <1>1, <1>3
<1>4. QED
  BY <1>2, <1>3

\* What the worker is while the goroutine of a cancelled one may still return and
\* call cancel: there is none, so the worker that is there is alive.
WorkerInv ==
    /\ worker \in [there : BOOLEAN, live : BOOLEAN, matches : {worker.matches}]
    /\ worker.there => worker.live /\ ~lingering
    /\ Rules!ForwardsWhatFires

LEMMA EvaluateKeepsWorker ==
    ASSUME WorkerInv, NEW failed, NEW garbled, NEW fails \in BOOLEAN,
           Rules!evaluate(failed, garbled, fails)
    PROVE  WorkerInv'
<1>0. ~lingering
  BY DEF Rules!evaluate
<1>1. CASE firing' = firing /\ UNCHANGED <<worker, lingering, startFailed>>
  BY <1>1 DEF WorkerInv, Rules!ForwardsWhatFires, Rules!getMatches
<1>2. CASE Rules!getMatches(firing') = {} /\ Rules!stopWorker
  BY <1>2 DEF WorkerInv, Rules!ForwardsWhatFires, Rules!stopWorker, Rules!NoWorker
<1>3. CASE /\ Rules!getMatches(firing') = {} /\ ~worker.there
           /\ startFailed' = FALSE /\ UNCHANGED <<worker, lingering>>
  BY <1>3 DEF WorkerInv, Rules!ForwardsWhatFires
<1>4. CASE /\ Rules!getMatches(firing') # {}
           /\ Rules!startWorker(Rules!getMatches(firing'), fails)
  BY <1>0, <1>4 DEF WorkerInv, Rules!ForwardsWhatFires, Rules!startWorker
<1>5. QED
  BY <1>1, <1>2, <1>3, <1>4, EvaluationEnds

\* For any rules, series and matchers, the worker forwards the matchers of what
\* fires, whatever failed before and however late a cancelled worker returns
\* (startWorker, getMatches, cancel).
THEOREM CollectorForwardsWhatFires == SystemSpec => []ForwardsWhatFires
<1> DEFINE Inv == part = "rules" => WorkerInv
<1>1. SystemInit => Inv
  <2> SUFFICES ASSUME Rules!RulesInit PROVE WorkerInv
    BY RulesStart
  <2>1. Rules!getMatches(firing) = {}
    BY DEF Rules!RulesInit, Rules!getMatches
  <2>2. QED
    BY <2>1 DEF Rules!RulesInit, Rules!NoWorker, Rules!ForwardsWhatFires, WorkerInv
<1>2. Inv /\ [SystemNext]_systemVars => Inv'
  <2> SUFFICES ASSUME part = "rules", WorkerInv, Rules!RulesNext \/ UNCHANGED ruleVars
               PROVE  WorkerInv'
    BY RulesStep
  <2>1. CASE Rules!Evaluate
    BY <2>1, EvaluateKeepsWorker DEF Rules!Evaluate
  <2>2. CASE Rules!EvaluateBadly
    BY <2>2, EvaluateKeepsWorker DEF Rules!EvaluateBadly
  <2>3. CASE Rules!cancel
    BY <2>3 DEF Rules!cancel, WorkerInv, Rules!ForwardsWhatFires, Rules!getMatches
  <2>4. CASE UNCHANGED <<firing, worker, lingering, startFailed>>
    BY <2>4 DEF WorkerInv, Rules!ForwardsWhatFires, Rules!getMatches
  <2>5. QED
    BY <2>1, <2>2, <2>3, <2>4 DEF Rules!RulesNext, Rules!Flip, ruleVars
<1>3. Inv => ForwardsWhatFires
  BY DEF WorkerInv, ForwardsWhatFires
<1>4. QED
  BY <1>1, <1>2, <1>3, PTL DEF SystemSpec

\* What the collector has counted for a series never exceeds how long it has been
\* there, or away.
TimesInv ==
    /\ firing \subseteq Series
    /\ pending \in Ages /\ resolved \in Ages /\ held \in Ages /\ gone \in Ages
    /\ \A h \in Series : pending[h] <= held[h] /\ resolved[h] <= gone[h]

LEMMA Aging ==
    ASSUME NEW m \in 0..Rules!MaxAge, NEW n \in 0..Rules!MaxAge, m <= n
    PROVE  /\ Rules!Older(m) \in 0..Rules!MaxAge /\ Rules!Older(m) <= Rules!Older(n)
           /\ Rules!Counted(n) \in 1..Rules!MaxAge /\ Rules!Older(m) <= Rules!Counted(n)
  BY MaxAgeAbove DEF Rules!Older, Rules!Counted

\* An evaluation of one series: what is counted grows no faster than what is the
\* case, and the series starts and stops to fire in time.
LEMMA SeriesInTime ==
    ASSUME TimesInv, NEW h \in Series, NEW failed, NEW garbled, NEW fails,
           Rules!evaluate(failed, garbled, fails)
    PROVE  /\ pending'[h] \in 0..Rules!MaxAge /\ held'[h] \in 0..Rules!MaxAge
           /\ resolved'[h] \in 0..Rules!MaxAge /\ gone'[h] \in 0..Rules!MaxAge
           /\ pending'[h] <= held'[h] /\ resolved'[h] <= gone'[h]
           /\ h \in firing' \ firing => held'[h] > Duration[RuleOf[h]]
           /\ h \in firing \ firing' => gone'[h] > Expire
<1> DEFINE heard == {x \in Series : RuleOf[x] \notin failed}
           back == {x \in heard \cap truth : RuleOf[x] \notin garbled}
<1>1. /\ firing' = (firing \cup {x \in Series : Rules!Fires(x, heard, back)})
                     \ {x \in Series : Rules!Expires(x, heard, back)}
      /\ pending'[h] = Rules!Pends(h, heard, back)
      /\ resolved'[h] = Rules!Resolves(h, heard, back)
      /\ held'[h] = IF h \notin heard THEN Rules!Older(held[h])
                    ELSE IF h \in back THEN Rules!Counted(held[h]) ELSE 0
      /\ gone'[h] = IF h \notin heard THEN Rules!Older(gone[h])
                    ELSE IF h \in back THEN 0 ELSE Rules!Counted(gone[h])
  BY DEF Rules!evaluate
<1> HIDE DEF heard, back
<1>2. /\ pending[h] \in 0..Rules!MaxAge /\ held[h] \in 0..Rules!MaxAge
      /\ resolved[h] \in 0..Rules!MaxAge /\ gone[h] \in 0..Rules!MaxAge
      /\ pending[h] <= held[h] /\ resolved[h] <= gone[h]
      /\ Rules!MaxAge \in Nat \ {0}
  BY MaxAgeAbove DEF TimesInv, Ages
<1>3. /\ Rules!Older(pending[h]) \in 0..Rules!MaxAge
      /\ Rules!Older(held[h]) \in 0..Rules!MaxAge
      /\ Rules!Older(pending[h]) <= Rules!Older(held[h])
      /\ Rules!Counted(held[h]) \in 1..Rules!MaxAge
      /\ Rules!Older(pending[h]) <= Rules!Counted(held[h])
  BY <1>2, Aging
<1>4. /\ Rules!Older(resolved[h]) \in 0..Rules!MaxAge
      /\ Rules!Older(gone[h]) \in 0..Rules!MaxAge
      /\ Rules!Older(resolved[h]) <= Rules!Older(gone[h])
      /\ Rules!Counted(gone[h]) \in 1..Rules!MaxAge
      /\ Rules!Older(resolved[h]) <= Rules!Counted(gone[h])
  BY <1>2, Aging
<1>5. /\ pending'[h] \in 0..Rules!MaxAge /\ held'[h] \in 0..Rules!MaxAge
      /\ pending'[h] <= held'[h]
  BY <1>1, <1>2, <1>3 DEF Rules!Pends
<1>6. /\ resolved'[h] \in 0..Rules!MaxAge /\ gone'[h] \in 0..Rules!MaxAge
      /\ resolved'[h] <= gone'[h]
  BY <1>1, <1>2, <1>4 DEF Rules!Resolves
<1>7. ASSUME Rules!Fires(h, heard, back) PROVE held'[h] > Duration[RuleOf[h]]
  <2>1. h \in heard /\ h \in back /\ held'[h] = Rules!Counted(held[h])
    BY <1>1, <1>7 DEF Rules!Fires
  <2>2. QED
    BY <1>2, <1>3, <1>7, <2>1, RulesAssumption DEF Rules!Fires, Rules!Since
<1>8. ASSUME Rules!Expires(h, heard, back) PROVE gone'[h] > Expire
  <2>1. h \in heard /\ h \notin back /\ gone'[h] = Rules!Counted(gone[h])
    BY <1>1, <1>8 DEF Rules!Expires
  <2>2. QED
    BY <1>2, <1>4, <1>8, <2>1, RulesAssumption DEF Rules!Expires, Rules!Since
<1>9. QED
  BY <1>1, <1>5, <1>6, <1>7, <1>8

LEMMA EvaluateInTime ==
    ASSUME TimesInv, NEW failed, NEW garbled, NEW fails, Rules!evaluate(failed, garbled, fails)
    PROVE  TimesInv' /\ Rules!InTime
<1>1. firing' \subseteq Series
  BY DEF TimesInv, Rules!evaluate
<1>2. /\ pending' = [h \in Series |-> pending'[h]] /\ held' = [h \in Series |-> held'[h]]
      /\ resolved' = [h \in Series |-> resolved'[h]] /\ gone' = [h \in Series |-> gone'[h]]
  BY DEF Rules!evaluate
<1>3. pending' \in Ages /\ resolved' \in Ages /\ held' \in Ages /\ gone' \in Ages
  BY <1>2, SeriesInTime DEF Ages
<1>4. QED
  BY <1>1, <1>3, SeriesInTime DEF TimesInv, Rules!InTime

LEMMA TimesStart == Rules!RulesInit => TimesInv
  BY MaxAgeAbove DEF Rules!RulesInit, TimesInv, Ages

LEMMA TimesStep ==
    ASSUME TimesInv, [Rules!RulesNext]_ruleVars
    PROVE  TimesInv' /\ (Rules!InTime \/ UNCHANGED ruleVars)
<1>1. CASE Rules!Evaluate
  BY <1>1, EvaluateInTime DEF Rules!Evaluate
<1>2. CASE Rules!EvaluateBadly
  BY <1>2, EvaluateInTime DEF Rules!EvaluateBadly
<1>3. CASE UNCHANGED <<firing, pending, resolved, held, gone>>
  BY <1>3 DEF TimesInv, Rules!InTime
<1>4. QED
  BY <1>1, <1>2, <1>3 DEF Rules!RulesNext, Rules!Flip, Rules!cancel, ruleVars

\* For any rules, durations and expiry, a series is collected, and dropped again,
\* only after it was there, or away, for the whole time, whatever queries failed
\* in between (evaluateRule).
THEOREM CollectorNeverTooEarly == SystemSpec => NeverTooEarly
<1> DEFINE Inv == part = "rules" => TimesInv
<1>1. SystemInit => Inv
  BY RulesStart, TimesStart
<1>2. Inv /\ [SystemNext]_systemVars => Inv' /\ [part = "rules" => Rules!InTime]_ruleVars
  BY RulesStep, TimesStep
<1>3. QED
  BY <1>1, <1>2, PTL DEF SystemSpec, NeverTooEarly

-----------------------------------------------------------------------------
(***************************************************************************)
(* The monitoring ConfigMaps                                               *)
(***************************************************************************)
LEMMA CmoStarts == SystemInit /\ part = "cmo" => Cmo!CmoInit
  BY DEF SystemInit

LEMMA CmoSteps ==
    ASSUME [SystemNext]_systemVars
    PROVE  /\ part' = part
           /\ part = "cmo" => [Cmo!CmoNext]_cmoVars
  BY DEF SystemNext, systemVars

\* The two instances of the module FiniteSets define the same.
LEMMA CmoCardinality == \A S : Cmo!Cardinality(S) = Cardinality(S)
  BY DEF Cmo!Cardinality, Cardinality

\* The positions of a finite set, by their rank in it
LEMMA RanksAreBijective ==
    ASSUME NEW P, P \subseteq Nat, IsFiniteSet(P)
    PROVE  [j \in 1..Cardinality(P) |-> Cmo!Nth(P, j)]
             \in Bijection(1..Cardinality(P), P)
<1> DEFINE upTo(i) == {k \in P : k <= i}
           rank == [i \in P |-> Cardinality(upTo(i))]
           n == Cardinality(P)
           nth == [j \in 1..n |-> Cmo!Nth(P, j)]
<1>1. n \in Nat /\ IsFiniteSet(1..n) /\ Cardinality(1..n) = n
  <2>1. n \in Nat
    BY FS_CardinalityType
  <2>2. QED
    BY <2>1, FS_Interval
<1>2. \A i \in P : IsFiniteSet(upTo(i)) /\ Cardinality(upTo(i)) \in 1..n
  <2> SUFFICES ASSUME NEW i \in P
               PROVE  IsFiniteSet(upTo(i)) /\ Cardinality(upTo(i)) \in 1..n
    OBVIOUS
  <2>1. upTo(i) \in SUBSET P /\ i \in upTo(i)
    OBVIOUS
  <2> HIDE DEF upTo
  <2>2. IsFiniteSet(upTo(i)) /\ Cardinality(upTo(i)) <= n
    BY <2>1, FS_Subset
  <2>3. Cardinality(upTo(i)) # 0 /\ Cardinality(upTo(i)) \in Nat
    BY <2>1, <2>2, FS_EmptySet, FS_CardinalityType
  <2>4. QED
    BY <1>1, <2>2, <2>3
<1>3. \A i, k \in P : i < k => Cardinality(upTo(i)) # Cardinality(upTo(k))
  <2> SUFFICES ASSUME NEW i \in P, NEW k \in P, i < k
               PROVE  Cardinality(upTo(i)) # Cardinality(upTo(k))
    OBVIOUS
  <2>1. i \in Nat /\ k \in Nat
    OBVIOUS
  <2>2. k \in upTo(k) /\ k \notin upTo(i)
    BY <2>1
  <2>3. upTo(i) \in SUBSET upTo(k)
    <3> SUFFICES ASSUME NEW m \in P, m <= i
                 PROVE  m <= k
      OBVIOUS
    <3>1. m \in Nat
      OBVIOUS
    <3>2. QED
      BY <2>1, <3>1
  <2> HIDE DEF upTo
  <2>4. QED
    BY <1>2, <2>2, <2>3, FS_Subset
<1>4. \A i, k \in P : i # k => Cardinality(upTo(i)) # Cardinality(upTo(k))
  <2> SUFFICES ASSUME NEW i \in P, NEW k \in P, i # k
               PROVE  Cardinality(upTo(i)) # Cardinality(upTo(k))
    OBVIOUS
  <2> HIDE DEF upTo
  <2>0. i \in Nat /\ k \in Nat
    OBVIOUS
  <2>1. i < k \/ k < i
    BY <2>0
  <2>2. QED
    BY <1>3, <2>1
<1> HIDE DEF upTo
<1>5. rank \in Injection(P, 1..n)
  BY <1>2, <1>4 DEF Injection, IsInjective
<1>6. rank \in Surjection(P, 1..n)
  BY <1>1, <1>5, FS_Injection
<1>7. \A j \in 1..n : \E i \in P : Cardinality(upTo(i)) = j
  BY <1>6 DEF Surjection
<1>8. \A j \in 1..n : nth[j] \in P /\ Cardinality(upTo(nth[j])) = j
  <2> SUFFICES ASSUME NEW j \in 1..n
               PROVE  nth[j] \in P /\ Cardinality(upTo(nth[j])) = j
    OBVIOUS
  <2>1. Cmo!Nth(P, j) \in P /\ Cardinality(upTo(Cmo!Nth(P, j))) = j
    BY <1>7, CmoCardinality, Zenon DEF Cmo!Nth, upTo
  <2>2. QED
    BY <2>1
<1>9. \A i \in P : Cardinality(upTo(i)) \in 1..n /\ nth[Cardinality(upTo(i))] = i
  BY <1>2, <1>4, <1>8
<1> HIDE DEF nth
<1>10. nth \in [1..n -> P]
  BY <1>8 DEF nth
<1>11. nth \in Injection(1..n, P)
  BY <1>8, <1>10 DEF Injection, IsInjective
<1>12. nth \in Surjection(1..n, P)
  BY <1>9, <1>10 DEF Surjection
<1>13. QED
  BY <1>11, <1>12 DEF Bijection, nth, upTo

\* What is kept of a list is what stands at the positions, each once.
LEMMA KeptIsThere ==
    ASSUME NEW S, NEW s \in Seq(S), NEW P \in SUBSET DOMAIN s
    PROVE  /\ Cmo!KeptAt(s, P) \in Seq(S)
           /\ \E f \in Bijection(DOMAIN Cmo!KeptAt(s, P), P) :
                \A j \in DOMAIN Cmo!KeptAt(s, P) : Cmo!KeptAt(s, P)[j] = s[f[j]]
<1> DEFINE n == Cardinality(P)
           f == [j \in 1..n |-> Cmo!Nth(P, j)]
           kept == [j \in 1..n |-> s[f[j]]]
<1>1. Len(s) \in Nat /\ DOMAIN s = 1..Len(s) /\ \A i \in DOMAIN s : s[i] \in S
  BY LenProperties, ElementOfSeq
<1>2. P \subseteq Nat /\ IsFiniteSet(P)
  <2>1. IsFiniteSet(1..Len(s))
    BY <1>1, FS_Interval
  <2>2. QED
    BY <1>1, <2>1, FS_Subset
<1>3. n \in Nat
  BY <1>2, FS_CardinalityType
<1>4. f \in Bijection(1..n, P)
  BY <1>2, RanksAreBijective
<1>5. Cmo!KeptAt(s, P) = [j \in 1..Cardinality(P) |-> s[Cmo!Nth(P, j)]]
  BY CmoCardinality, Zenon DEF Cmo!KeptAt
<1>6. Cmo!KeptAt(s, P) = kept
  BY <1>5
<1> HIDE DEF n, f
<1>7. \A j \in 1..n : f[j] \in P
  BY <1>4 DEF Bijection, Injection
<1>8. kept \in [1..n -> S]
  BY <1>1, <1>7
<1>9. kept \in Seq(S)
  BY <1>3, <1>8, SeqDef
<1>10. QED
  BY <1>4, <1>6, <1>9

AtMostOne(ams) ==
    \A h \in Hubs : \A i, j \in DOMAIN ams :
      Cmo!IsManaged(ams[i], h) /\ Cmo!IsManaged(ams[j], h) => i = j

Includes(ams, s) == \E i \in DOMAIN ams : ams[i] = s

\* No stanza of h is there
Free(ams, h) == \A i \in DOMAIN ams : ~Cmo!IsManaged(ams[i], h)

LEMMA StanzaTypes ==
    ASSUME NEW h \in Hubs
    PROVE  /\ Cmo!Stanza(h) \in Cmo!Stanzas /\ Cmo!UserStanza \in Cmo!Stanzas
           /\ Cmo!IsManaged(Cmo!Stanza(h), h) /\ ~Cmo!IsManaged(Cmo!UserStanza, h)
           /\ \A g \in Hubs : Cmo!IsManaged(Cmo!Stanza(h), g) => g = h
  BY CmoAssumption DEF Cmo!Stanza, Cmo!Stanzas, Cmo!UserStanza, Cmo!IsManaged

LEMMA UnmanagedStays ==
    ASSUME NEW ams \in Seq(Cmo!Stanzas), NEW h \in Hubs
    PROVE  /\ Cmo!Unmanaged(ams, h) \in Seq(Cmo!Stanzas)
           /\ Free(Cmo!Unmanaged(ams, h), h)
           /\ \A g \in Hubs : Free(ams, g) => Free(Cmo!Unmanaged(ams, h), g)
           /\ AtMostOne(ams) => AtMostOne(Cmo!Unmanaged(ams, h))
           /\ Includes(ams, Cmo!UserStanza) => Includes(Cmo!Unmanaged(ams, h), Cmo!UserStanza)
<1> DEFINE P == {i \in DOMAIN ams : ~Cmo!IsManaged(ams[i], h)}
           u == Cmo!Unmanaged(ams, h)
<1>1. u = Cmo!KeptAt(ams, P)
  BY Zenon DEF Cmo!Unmanaged
<1>2. P \in SUBSET DOMAIN ams
  OBVIOUS
<1>3. \A i \in P : ~Cmo!IsManaged(ams[i], h)
  OBVIOUS
<1>4. \A i \in DOMAIN ams : ams[i] = Cmo!UserStanza => i \in P
  BY StanzaTypes
<1> HIDE DEF P, u
<1>5. /\ u \in Seq(Cmo!Stanzas)
      /\ \E f \in Bijection(DOMAIN u, P) : \A j \in DOMAIN u : u[j] = ams[f[j]]
  BY <1>1, <1>2, KeptIsThere
<1>6. PICK f \in Bijection(DOMAIN u, P) : \A j \in DOMAIN u : u[j] = ams[f[j]]
  BY <1>5
<1>7. /\ \A j \in DOMAIN u : f[j] \in P /\ f[j] \in DOMAIN ams
      /\ \A i, j \in DOMAIN u : f[i] = f[j] => i = j
      /\ \A i \in P : \E j \in DOMAIN u : f[j] = i
  BY <1>2, <1>6 DEF Bijection, Injection, Surjection, IsInjective
<1>8. \A j \in DOMAIN u : ~Cmo!IsManaged(u[j], h)
  BY <1>3, <1>6, <1>7
<1>9. ASSUME AtMostOne(ams)
      PROVE  AtMostOne(u)
  <2> SUFFICES ASSUME NEW g \in Hubs, NEW i \in DOMAIN u, NEW j \in DOMAIN u,
                      Cmo!IsManaged(u[i], g), Cmo!IsManaged(u[j], g)
               PROVE  i = j
    BY DEF AtMostOne
  <2>1. Cmo!IsManaged(ams[f[i]], g) /\ Cmo!IsManaged(ams[f[j]], g)
    BY <1>6
  <2>2. QED
    BY <1>7, <1>9, <2>1 DEF AtMostOne
<1>10. Includes(ams, Cmo!UserStanza) => Includes(u, Cmo!UserStanza)
  BY <1>4, <1>6, <1>7 DEF Includes
<1>11. \A g \in Hubs : Free(ams, g) => Free(u, g)
  BY <1>6, <1>7 DEF Free
<1>12. QED
  BY <1>5, <1>8, <1>9, <1>10, <1>11 DEF u, Free

LEMMA Appended ==
    ASSUME NEW ams \in Seq(Cmo!Stanzas), NEW s \in Cmo!Stanzas
    PROVE  /\ Append(ams, s) \in Seq(Cmo!Stanzas)
           /\ \A i \in DOMAIN Append(ams, s) :
                \/ i \in DOMAIN ams /\ Append(ams, s)[i] = ams[i]
                \/ i = Len(ams) + 1 /\ Append(ams, s)[i] = s
           /\ \A i \in DOMAIN ams : i \in DOMAIN Append(ams, s) /\ Append(ams, s)[i] = ams[i]
<1>1. /\ Append(ams, s) \in Seq(Cmo!Stanzas) /\ Len(Append(ams, s)) = Len(ams) + 1
      /\ \A i \in 1..Len(ams) : Append(ams, s)[i] = ams[i]
      /\ Append(ams, s)[Len(ams) + 1] = s
  BY AppendProperties
<1>2. /\ DOMAIN Append(ams, s) = 1..(Len(ams) + 1) /\ DOMAIN ams = 1..Len(ams)
      /\ Len(ams) \in Nat
  BY <1>1, LenProperties
<1>3. QED
  BY <1>1, <1>2

\* A hub's stanza in the place of the ones it had
LEMMA OneAppended ==
    ASSUME NEW ams \in Seq(Cmo!Stanzas), NEW h \in Hubs, AtMostOne(ams)
    PROVE  LET a == Append(Cmo!Unmanaged(ams, h), Cmo!Stanza(h))
           IN  /\ a \in Seq(Cmo!Stanzas) /\ AtMostOne(a)
               /\ Includes(ams, Cmo!UserStanza) => Includes(a, Cmo!UserStanza)
<1> DEFINE u == Cmo!Unmanaged(ams, h)
           s == Cmo!Stanza(h)
           a == Append(u, s)
<1>1. /\ u \in Seq(Cmo!Stanzas) /\ AtMostOne(u)
      /\ \A j \in DOMAIN u : ~Cmo!IsManaged(u[j], h)
      /\ Includes(ams, Cmo!UserStanza) => Includes(u, Cmo!UserStanza)
  BY UnmanagedStays DEF Free
<1>2. s \in Cmo!Stanzas /\ \A g \in Hubs : Cmo!IsManaged(s, g) => g = h
  BY StanzaTypes
<1> HIDE DEF u, s
<1>3. /\ a \in Seq(Cmo!Stanzas)
      /\ \A i \in DOMAIN a :
           \/ i \in DOMAIN u /\ a[i] = u[i]
           \/ i = Len(u) + 1 /\ a[i] = s
      /\ \A i \in DOMAIN u : i \in DOMAIN a /\ a[i] = u[i]
  BY <1>1, <1>2, Appended
<1> HIDE DEF a
<1>4. AtMostOne(a)
  <2> SUFFICES ASSUME NEW g \in Hubs, NEW i \in DOMAIN a, NEW j \in DOMAIN a,
                      Cmo!IsManaged(a[i], g), Cmo!IsManaged(a[j], g)
               PROVE  i = j
    BY DEF AtMostOne
  <2>1. CASE i \in DOMAIN u /\ a[i] = u[i] /\ j \in DOMAIN u /\ a[j] = u[j]
    BY <1>1, <2>1 DEF AtMostOne
  <2>2. CASE g # h
    BY <1>2, <1>3, <2>1, <2>2
  <2>3. CASE g = h
    BY <1>1, <1>3, <2>3
  <2>4. QED
    BY <2>2, <2>3
<1>5. Includes(u, Cmo!UserStanza) => Includes(a, Cmo!UserStanza)
  BY <1>3 DEF Includes
<1>6. QED
  BY <1>1, <1>3, <1>4, <1>5 DEF a, u, s

\* What an operator makes of a ConfigMap keeps what is the user's
Respects(m, c) ==
    /\ c \in Cmo!MapType /\ AtMostOne(c.ams) /\ c.own = m.own
    /\ Includes(m.ams, Cmo!UserStanza) => Includes(c.ams, Cmo!UserStanza)

LEMMA ConfiguringRespects ==
    ASSUME NEW m \in Cmo!MapType, NEW h \in Hubs, AtMostOne(m.ams)
    PROVE  /\ Respects(m, Cmo!CreateOrUpdateCMOConfig(m, h))
           /\ Respects(m, Cmo!CreateOrUpdateUserWorkloadMonitoringConfig(m, h))
<1> DEFINE a == Append(Cmo!Unmanaged(m.ams, h), Cmo!Stanza(h))
<1>1. m.ams \in Seq(Cmo!Stanzas)
  BY DEF Cmo!MapType
<1>2. /\ a \in Seq(Cmo!Stanzas) /\ AtMostOne(a)
      /\ Includes(m.ams, Cmo!UserStanza) => Includes(a, Cmo!UserStanza)
  BY <1>1, OneAppended
<1>3. Respects(m, Cmo!CreateOrUpdateCMOConfig(m, h))
  <2> DEFINE c == Cmo!CreateOrUpdateCMOConfig(m, h)
             name == h \in Agents
  <2>1. c = [m EXCEPT !.there = TRUE, !.data = "yaml", !.prom = TRUE, !.label = TRUE,
                      !.name = name, !.ams = a]
    BY Zenon DEF Cmo!CreateOrUpdateCMOConfig
  <2>2. name \in BOOLEAN
    OBVIOUS
  <2> HIDE DEF a, c, name
  <2>3. c \in Cmo!MapType /\ c.ams = a /\ c.own = m.own
    BY <1>2, <2>1, <2>2 DEF Cmo!MapType
  <2>4. QED
    BY <1>2, <2>3 DEF Respects, c
<1>4. Respects(m, Cmo!CreateOrUpdateUserWorkloadMonitoringConfig(m, h))
  <2> DEFINE c == Cmo!CreateOrUpdateUserWorkloadMonitoringConfig(m, h)
  <2>1. c = [m EXCEPT !.there = TRUE, !.data = "yaml", !.prom = TRUE, !.ams = a]
    BY Zenon DEF Cmo!CreateOrUpdateUserWorkloadMonitoringConfig
  <2> HIDE DEF a, c
  <2>2. c \in Cmo!MapType /\ c.ams = a /\ c.own = m.own
    BY <1>2, <2>1 DEF Cmo!MapType
  <2>3. QED
    BY <1>2, <2>2 DEF Respects, c
<1>5. QED
  BY <1>3, <1>4

LEMMA RevertingRespects ==
    ASSUME NEW m \in Cmo!MapType, NEW h \in Hubs, AtMostOne(m.ams)
    PROVE  /\ Respects(m, Cmo!RevertClusterMonitoringConfig(m, h))
           /\ Respects(m, Cmo!RevertUserWorkloadMonitoringConfig(m, h))
<1> DEFINE a == Cmo!Unmanaged(m.ams, h)
           skips == ~Cmo!HasClusterMonitoringConfigData(m) \/ ~m.prom
<1>1. m.ams \in Seq(Cmo!Stanzas)
  BY DEF Cmo!MapType
<1>2. /\ a \in Seq(Cmo!Stanzas) /\ AtMostOne(a)
      /\ Includes(m.ams, Cmo!UserStanza) => Includes(a, Cmo!UserStanza)
  BY <1>1, UnmanagedStays
<1>3. Respects(m, m)
  BY DEF Respects
<1>4. Respects(m, Cmo!RevertClusterMonitoringConfig(m, h))
  <2> DEFINE c == Cmo!RevertClusterMonitoringConfig(m, h)
             name == m.name /\ h \notin Agents
             prom == m.ams = <<>> \/ a # <<>> \/ name
  <2>1. \/ c = m
        \/ c = [m EXCEPT !.label = FALSE, !.name = name, !.ams = a, !.prom = prom]
    BY Zenon DEF Cmo!RevertClusterMonitoringConfig
  <2>2. name \in BOOLEAN /\ prom \in BOOLEAN
    OBVIOUS
  <2> HIDE DEF a, c, name, prom
  <2>3. c = m \/ (c \in Cmo!MapType /\ c.ams = a /\ c.own = m.own)
    BY <1>2, <2>1, <2>2 DEF Cmo!MapType
  <2>4. QED
    BY <1>2, <1>3, <2>3 DEF Respects, c
<1>5. Respects(m, Cmo!RevertUserWorkloadMonitoringConfig(m, h))
  <2> DEFINE c == Cmo!RevertUserWorkloadMonitoringConfig(m, h)
             prom == m.ams = <<>> \/ a # <<>>
  <2>1. \/ c = m
        \/ c = [m EXCEPT !.ams = a, !.prom = prom]
    BY Zenon DEF Cmo!RevertUserWorkloadMonitoringConfig
  <2>2. prom \in BOOLEAN
    OBVIOUS
  <2> HIDE DEF a, c, prom
  <2>3. c = m \/ (c \in Cmo!MapType /\ c.ams = a /\ c.own = m.own)
    BY <1>2, <2>1, <2>2 DEF Cmo!MapType
  <2>4. QED
    BY <1>2, <1>3, <2>3 DEF Respects, c
<1>6. QED
  BY <1>4, <1>5

-----------------------------------------------------------------------------
\* A copy of which no change is outstanding is what is there.
MapsInv ==
    /\ actual \in [Cmo!Keys -> Cmo!MapType] /\ copy \in [Hubs -> [Cmo!Keys -> Cmo!MapType]]
    /\ behind \in [Hubs -> SUBSET Cmo!Keys]
    /\ \A k \in Cmo!Keys : AtMostOne(actual[k].ams)
    /\ \A h \in Hubs, k \in Cmo!Keys :
         AtMostOne(copy[h][k].ams) /\ (k \notin behind[h] => copy[h][k] = actual[k])

LEMMA NoMapTyped == Cmo!NoMap \in Cmo!MapType /\ AtMostOne(Cmo!NoMap.ams)
<1>1. <<>> \in Seq(Cmo!Stanzas) /\ AtMostOne(<<>>)
  BY EmptySeq DEF AtMostOne
<1>2. QED
  BY <1>1 DEF Cmo!NoMap, Cmo!MapType

\* What a write of an operator leaves
Written(h, k) ==
    /\ actual' \in [Cmo!Keys -> Cmo!MapType] /\ AtMostOne(actual[k].ams)'
    /\ \A j \in Cmo!Keys : j # k => actual'[j] = actual[j]
    /\ \/ Cmo!EmptyConfig(Cmo!Reverted(k, h)) /\ ~actual'[k].there
       \/ Respects(actual[k], actual'[k])

LEMMA ConfigureWrites ==
    ASSUME MapsInv, NEW h \in Hubs, NEW k \in Cmo!Keys, Cmo!Configure(k, h)
    PROVE  Written(h, k)
<1>1. Respects(copy[h][k], Cmo!Configured(k, h))
  BY ConfiguringRespects DEF MapsInv, Cmo!Configured
<1>2. Respects(actual[k], actual[k])
  BY DEF Respects, MapsInv
<1>3. CASE actual' = actual
  BY <1>2, <1>3 DEF Written, MapsInv
<1>4. CASE actual' # actual
  <2>1. /\ actual' = [actual EXCEPT ![k] = Cmo!Configured(k, h)]
        /\ copy[h][k] = actual[k]
    BY <1>4 DEF Cmo!Configure, Cmo!ConfigureRefused, MapsInv
  <2>2. actual'[k] = Cmo!Configured(k, h) /\ \A j \in Cmo!Keys : j # k => actual'[j] = actual[j]
    BY <2>1 DEF MapsInv
  <2>3. actual' \in [Cmo!Keys -> Cmo!MapType]
    BY <1>1, <2>1 DEF MapsInv, Respects
  <2>4. QED
    BY <1>1, <2>1, <2>2, <2>3 DEF Written, Respects
<1>5. QED
  BY <1>3, <1>4

LEMMA RevertWrites ==
    ASSUME MapsInv, NEW h \in Hubs, NEW k \in Cmo!Keys, Cmo!Revert(k, h)
    PROVE  Written(h, k)
<1>1. Respects(copy[h][k], Cmo!Reverted(k, h))
  BY RevertingRespects DEF MapsInv, Cmo!Reverted
<1>2. Respects(actual[k], actual[k])
  BY DEF Respects, MapsInv
<1>3. CASE actual' = actual
  BY <1>2, <1>3 DEF Written, MapsInv
<1>4. CASE actual' # actual /\ Cmo!EmptyConfig(Cmo!Reverted(k, h))
  <2>1. actual' = [actual EXCEPT ![k] = Cmo!NoMap]
    BY <1>4 DEF Cmo!Revert
  <2>2. /\ actual' \in [Cmo!Keys -> Cmo!MapType] /\ actual'[k] = Cmo!NoMap
        /\ \A j \in Cmo!Keys : j # k => actual'[j] = actual[j]
    BY <2>1, NoMapTyped DEF MapsInv
  <2>3. ~Cmo!NoMap.there
    BY DEF Cmo!NoMap
  <2>4. QED
    BY <1>4, <2>2, <2>3, NoMapTyped DEF Written
<1>5. CASE actual' # actual /\ ~Cmo!EmptyConfig(Cmo!Reverted(k, h))
  <2>1. /\ actual' = [actual EXCEPT ![k] = Cmo!Reverted(k, h)]
        /\ copy[h][k] = actual[k]
    BY <1>5 DEF Cmo!Revert, Cmo!RevertRefused, MapsInv
  <2>2. actual'[k] = Cmo!Reverted(k, h) /\ \A j \in Cmo!Keys : j # k => actual'[j] = actual[j]
    BY <2>1 DEF MapsInv
  <2>3. actual' \in [Cmo!Keys -> Cmo!MapType]
    BY <1>1, <2>1 DEF MapsInv, Respects
  <2>4. QED
    BY <1>1, <2>1, <2>2, <2>3 DEF Written, Respects
<1>6. QED
  BY <1>3, <1>4, <1>5

LEMMA WriteKeepsMaps ==
    ASSUME MapsInv, NEW h \in Hubs, NEW k \in Cmo!Keys, Written(h, k),
           Cmo!Announce, UNCHANGED copy
    PROVE  MapsInv'
<1>1. \A j \in Cmo!Keys : AtMostOne(actual'[j].ams)
  BY DEF MapsInv, Written, AtMostOne
<1>2. \A g \in Hubs : behind'[g] = behind[g] \cup {j \in Cmo!Keys : actual'[j] # actual[j]}
  BY DEF Cmo!Announce
<1>3. behind' \in [Hubs -> SUBSET Cmo!Keys]
  BY DEF Cmo!Announce, MapsInv
<1>4. \A g \in Hubs, j \in Cmo!Keys : j \notin behind'[g] => copy[g][j] = actual'[j]
  BY <1>2 DEF MapsInv
<1>5. actual' \in [Cmo!Keys -> Cmo!MapType]
  BY DEF Written
<1>6. \A g \in Hubs, j \in Cmo!Keys : AtMostOne(copy[g][j].ams)
  BY DEF MapsInv
<1>7. QED
  BY <1>1, <1>3, <1>4, <1>5, <1>6 DEF MapsInv, AtMostOne

\* The reads of the operators
LEMMA StartKeepsMaps ==
    ASSUME MapsInv, NEW h \in Hubs, Cmo!Started(h), UNCHANGED actual
    PROVE  MapsInv'
<1>1. copy' = [copy EXCEPT ![h] = actual] /\ behind' = [behind EXCEPT ![h] = {}]
  BY DEF Cmo!Started
<1>2. copy' \in [Hubs -> [Cmo!Keys -> Cmo!MapType]] /\ behind' \in [Hubs -> SUBSET Cmo!Keys]
  BY <1>1 DEF MapsInv
<1>3. \A g \in Hubs : \/ copy'[g] = actual
                      \/ copy'[g] = copy[g] /\ behind'[g] = behind[g]
  BY <1>1 DEF MapsInv
<1>4. \A g \in Hubs, k \in Cmo!Keys : /\ AtMostOne(copy'[g][k].ams)
                                      /\ k \notin behind'[g] => copy'[g][k] = actual[k]
  BY <1>3 DEF MapsInv
<1>5. QED
  BY <1>2, <1>4 DEF MapsInv, AtMostOne

LEMMA EventKeepsMaps ==
    ASSUME MapsInv, NEW h \in Hubs, NEW k \in Cmo!Keys, Cmo!ConfigMapEvent(h, k)
    PROVE  MapsInv'
<1>1. /\ copy' = [copy EXCEPT ![h][k] = actual[k]] /\ behind' = [behind EXCEPT ![h] = @ \ {k}]
      /\ actual' = actual
  BY DEF Cmo!ConfigMapEvent
<1>2. copy' \in [Hubs -> [Cmo!Keys -> Cmo!MapType]] /\ behind' \in [Hubs -> SUBSET Cmo!Keys]
  BY <1>1 DEF MapsInv
<1>3. \A g \in Hubs, j \in Cmo!Keys :
        \/ copy'[g][j] = actual[j]
        \/ copy'[g][j] = copy[g][j] /\ (j \in behind[g] => j \in behind'[g])
  BY <1>1 DEF MapsInv
<1>4. \A g \in Hubs, j \in Cmo!Keys : /\ AtMostOne(copy'[g][j].ams)
                                      /\ j \notin behind'[g] => copy'[g][j] = actual[j]
  BY <1>3 DEF MapsInv
<1>5. QED
  BY <1>1, <1>2, <1>4 DEF MapsInv, AtMostOne

\* The user's edits
LEMMA EditKeepsMaps ==
    ASSUME MapsInv, Cmo!EditConfig
    PROVE  MapsInv'
<1> DEFINE new == actual'["cmo"]
<1>1. "cmo" \in Cmo!Keys
  BY DEF Cmo!Keys
<1>2. /\ actual' \in [Cmo!Keys -> Cmo!MapType] /\ AtMostOne(actual'["cmo"].ams)
      /\ \A j \in Cmo!Keys : j # "cmo" => actual'[j] = actual[j]
  <2>1. ASSUME NEW m \in {Cmo!NoMap} \cup UserMaps, actual' = [actual EXCEPT !["cmo"] = m]
        PROVE  <1>2
    <3>1. m \in Cmo!MapType /\ AtMostOne(m.ams)
      BY NoMapTyped, CmoAssumption DEF AtMostOne
    <3>2. QED
      BY <1>1, <2>1, <3>1 DEF MapsInv
  <2>2. ASSUME \A i \in DOMAIN actual["cmo"].ams : actual["cmo"].ams[i] # Cmo!UserStanza,
               actual' = [actual EXCEPT !["cmo"].ams = Append(@, Cmo!UserStanza)]
        PROVE  <1>2
    <3> DEFINE ams == actual["cmo"].ams
               longer == Append(ams, Cmo!UserStanza)
    <3>1. ams \in Seq(Cmo!Stanzas) /\ AtMostOne(ams) /\ actual["cmo"] \in Cmo!MapType
      BY <1>1 DEF MapsInv, Cmo!MapType
    <3>2. /\ Cmo!UserStanza \in Cmo!Stanzas
          /\ \A h \in Hubs : ~Cmo!IsManaged(Cmo!UserStanza, h)
      BY CmoAssumption DEF Cmo!UserStanza, Cmo!Stanzas, Cmo!IsManaged
    <3>3. actual' = [actual EXCEPT !["cmo"] = [actual["cmo"] EXCEPT !.ams = longer]]
      BY <2>2
    <3> HIDE DEF ams
    <3>4. /\ longer \in Seq(Cmo!Stanzas)
          /\ \A i \in DOMAIN longer :
               \/ i \in DOMAIN ams /\ longer[i] = ams[i]
               \/ longer[i] = Cmo!UserStanza
      BY <3>1, <3>2, Appended
    <3> HIDE DEF longer
    <3>5. AtMostOne(longer)
      BY <3>1, <3>2, <3>4 DEF AtMostOne
    <3>6. /\ [actual["cmo"] EXCEPT !.ams = longer] \in Cmo!MapType
          /\ [actual["cmo"] EXCEPT !.ams = longer].ams = longer
      BY <3>1, <3>4 DEF Cmo!MapType
    <3>7. QED
      BY <1>1, <3>3, <3>5, <3>6 DEF MapsInv
  <2>3. QED
    BY <2>1, <2>2 DEF Cmo!EditConfig
<1>3. \A j \in Cmo!Keys : AtMostOne(actual'[j].ams)
  BY <1>2 DEF MapsInv
<1>4. behind' = [h \in Hubs |-> behind[h] \cup {k \in Cmo!Keys : actual'[k] # actual[k]}]
  BY DEF Cmo!EditConfig, Cmo!Announce
<1>5. /\ behind' \in [Hubs -> SUBSET Cmo!Keys]
      /\ \A h \in Hubs, j \in Cmo!Keys : j \notin behind'[h] => copy[h][j] = actual'[j]
  BY <1>4 DEF MapsInv
<1>6. copy' = copy
  BY DEF Cmo!EditConfig
<1>7. \A h \in Hubs, j \in Cmo!Keys : AtMostOne(copy[h][j].ams)
  BY DEF MapsInv
<1>8. QED
  BY <1>2, <1>3, <1>5, <1>6, <1>7 DEF MapsInv, AtMostOne

\* A step either writes a ConfigMap, reads, or leaves them and the copies alone.
CmoQuiet == UNCHANGED <<actual, copy, behind>>

CmoWrites ==
    \E h \in Hubs, k \in Cmo!Keys : /\ Cmo!Configure(k, h) \/ Cmo!Revert(k, h)
                                   /\ Cmo!Announce /\ UNCHANGED copy

LEMMA CmoStepKinds ==
    ASSUME [Cmo!CmoNext]_cmoVars
    PROVE  \/ CmoQuiet
           \/ CmoWrites
           \/ \E h \in Hubs : Cmo!Started(h) /\ UNCHANGED actual
           \/ \E h \in Hubs, k \in Cmo!Keys : Cmo!ConfigMapEvent(h, k)
           \/ Cmo!EditConfig
<1>1. CASE UNCHANGED cmoVars
  BY <1>1 DEF cmoVars, CmoQuiet
<1>2. ASSUME NEW h \in Hubs, Cmo!ChangeHub(h)
      PROVE  CmoQuiet \/ (Cmo!Started(h) /\ UNCHANGED actual)
  BY <1>2 DEF Cmo!ChangeHub, CmoQuiet
<1>3. ASSUME NEW h \in Hubs, Cmo!RestartEndpoint(h)
      PROVE  Cmo!Started(h) /\ UNCHANGED actual
  BY <1>3 DEF Cmo!RestartEndpoint
<1>4. ASSUME NEW h \in Hubs,
             \/ Cmo!CmoError(h) \/ Cmo!StartCmo(h) \/ Cmo!isRevertedAlready(h)
             \/ Cmo!setConfigReverted(h) \/ Cmo!unset(h)
      PROVE  CmoQuiet
  BY <1>4 DEF Cmo!CmoError, Cmo!StartCmo, Cmo!isRevertedAlready, Cmo!setConfigReverted,
     Cmo!unset, CmoQuiet
<1>5. ASSUME NEW h \in Hubs, Cmo!RevertStep(h) \/ Cmo!ConfigureStep(h)
      PROVE  CmoWrites
  BY <1>5 DEF Cmo!RevertStep, Cmo!ConfigureStep, CmoWrites, Cmo!Keys
<1>6. ASSUME NEW h \in Hubs, NEW k \in Cmo!Keys, Cmo!AgentReconcile(h, k)
      PROVE  CmoWrites
  <2>1. /\ k = "cmo" => Cmo!reconcileCMO(h)
        /\ k # "cmo" => Cmo!reconcileUWLConfig(h)
        /\ Cmo!Announce /\ UNCHANGED copy
    BY <1>6 DEF Cmo!AgentReconcile
  <2>2. Cmo!Configure(k, h) \/ Cmo!Revert(k, h)
    BY <2>1 DEF Cmo!reconcileCMO, Cmo!reconcileUWLConfig, Cmo!Keys
  <2>3. QED
    BY <2>1, <2>2 DEF CmoWrites
<1>7. QED
  BY <1>1, <1>2, <1>3, <1>4, <1>5, <1>6, Zenon DEF Cmo!CmoNext

LEMMA MapsStep ==
    ASSUME MapsInv, [Cmo!CmoNext]_cmoVars
    PROVE  MapsInv'
<1>1. CASE CmoQuiet
  BY <1>1 DEF CmoQuiet, MapsInv, AtMostOne
<1>2. CASE CmoWrites
  <2>1. PICK h \in Hubs, k \in Cmo!Keys : /\ Cmo!Configure(k, h) \/ Cmo!Revert(k, h)
                                         /\ Cmo!Announce /\ UNCHANGED copy
    BY <1>2 DEF CmoWrites
  <2>2. Written(h, k)
    BY <2>1, ConfigureWrites, RevertWrites
  <2>3. QED
    BY <2>1, <2>2, WriteKeepsMaps
<1>3. QED
  BY <1>1, <1>2, CmoStepKinds, StartKeepsMaps, EventKeepsMaps, EditKeepsMaps

LEMMA MapsStart == Cmo!CmoInit => MapsInv
<1> SUFFICES ASSUME Cmo!CmoInit
             PROVE  MapsInv
  OBVIOUS
<1>1. PICK m \in {Cmo!NoMap} \cup UserMaps \cup OldMaps :
        actual = [k \in Cmo!Keys |-> IF k = "cmo" THEN m ELSE Cmo!NoMap]
  BY DEF Cmo!CmoInit
<1>2. m \in Cmo!MapType /\ AtMostOne(m.ams)
  <2>1. CASE m \in UserMaps
    BY <2>1, CmoAssumption DEF AtMostOne
  <2>2. CASE m \in OldMaps
    BY <2>2, CmoAssumption DEF AtMostOne
  <2>3. QED
    BY <2>1, <2>2, NoMapTyped
<1>3. actual \in [Cmo!Keys -> Cmo!MapType] /\ \A k \in Cmo!Keys : AtMostOne(actual[k].ams)
  BY <1>1, <1>2, NoMapTyped
<1>4. copy = [h \in Hubs |-> actual] /\ behind = [h \in Hubs |-> {}]
  BY DEF Cmo!CmoInit
<1>5. QED
  BY <1>3, <1>4 DEF MapsInv

CmoInv == Cmo!CmoTypeOK /\ MapsInv

LEMMA CmoTypesStart == Cmo!CmoInit => Cmo!CmoTypeOK
<1> SUFFICES ASSUME Cmo!CmoInit
             PROVE  Cmo!CmoTypeOK
  OBVIOUS
<1>1. MapsInv
  BY MapsStart
<1>2. QED
  BY <1>1, CmoAssumption DEF Cmo!CmoInit, Cmo!CmoTypeOK, MapsInv

LEMMA CmoBounds ==
    /\ Agents \subseteq Hubs
    /\ UserMaps \cup OldMaps \subseteq Cmo!MapType
    /\ MaxHubChanges \in Nat /\ MaxCmoEdits \in Nat /\ MaxCmoFaults \in Nat
  BY CmoAssumption

LEMMA CmoTypesStep ==
    ASSUME CmoInv, MapsInv', [Cmo!CmoNext]_cmoVars
    PROVE  Cmo!CmoTypeOK'
<1> USE CmoBounds DEF CmoInv, MapsInv, Cmo!CmoTypeOK
<1>1. CASE UNCHANGED cmoVars
  BY <1>1 DEF cmoVars
<1>2. ASSUME NEW h \in Hubs, Cmo!ChangeHub(h)
      PROVE  Cmo!CmoTypeOK'
  <2>1. want' \in [Hubs -> {"off", "on", "platform"}] /\ hubChanges' \in 0..MaxHubChanges
    BY <1>2 DEF Cmo!ChangeHub
  <2>2. CASE Cmo!Started(h)
    BY <1>2, <2>1, <2>2 DEF Cmo!ChangeHub, Cmo!Started
  <2>3. CASE /\ todo' = [todo EXCEPT ![h] = Cmo!Keys]
             /\ UNCHANGED <<copy, behind, at, flag, deaf, cut>>
    BY <1>2, <2>1, <2>3 DEF Cmo!ChangeHub
  <2>4. QED
    BY <1>2, <2>2, <2>3 DEF Cmo!ChangeHub
<1>3. ASSUME NEW h \in Hubs, Cmo!RestartEndpoint(h)
      PROVE  Cmo!CmoTypeOK'
  BY <1>3 DEF Cmo!RestartEndpoint, Cmo!Started
<1>4. ASSUME NEW h \in Hubs, Cmo!CmoError(h)
      PROVE  Cmo!CmoTypeOK'
  BY <1>4 DEF Cmo!CmoError, Cmo!FailCmo, Cmo!Goes
<1>5. ASSUME NEW h \in Hubs, Cmo!StartCmo(h)
      PROVE  Cmo!CmoTypeOK'
  BY <1>5 DEF Cmo!StartCmo, Cmo!Goes
<1>6. ASSUME NEW h \in Hubs, Cmo!isRevertedAlready(h)
      PROVE  Cmo!CmoTypeOK'
  <2>1. Cmo!initPersistedRevertState(h) \in {"unread", "yes", "no"}
    BY DEF Cmo!initPersistedRevertState
  <2>2. flag' \in [Hubs -> {"unread", "yes", "no"}]
    BY <1>6, <2>1 DEF Cmo!isRevertedAlready
  <2>3. at' \in [Hubs -> {"idle", "secrets", "revert", "revertUwl", "mark", "config", "unset", "uwl"}]
    BY <1>6 DEF Cmo!isRevertedAlready, Cmo!Goes
  <2>4. QED
    BY <1>6, <2>2, <2>3 DEF Cmo!isRevertedAlready
<1>7. ASSUME NEW h \in Hubs, Cmo!RevertStep(h)
      PROVE  Cmo!CmoTypeOK'
  BY <1>7 DEF Cmo!RevertStep, Cmo!Goes
<1>8. ASSUME NEW h \in Hubs, Cmo!setConfigReverted(h)
      PROVE  Cmo!CmoTypeOK'
  BY <1>8 DEF Cmo!setConfigReverted, Cmo!Goes
<1>9. ASSUME NEW h \in Hubs, Cmo!ConfigureStep(h)
      PROVE  Cmo!CmoTypeOK'
  BY <1>9 DEF Cmo!ConfigureStep, Cmo!Goes
<1>10. ASSUME NEW h \in Hubs, Cmo!unset(h)
       PROVE  Cmo!CmoTypeOK'
  <2>1. at' \in [Hubs -> {"idle", "secrets", "revert", "revertUwl", "mark", "config", "unset", "uwl"}]
    BY <1>10 DEF Cmo!unset, Cmo!Goes
  <2>2. flag' \in [Hubs -> {"unread", "yes", "no"}]
    BY <1>10 DEF Cmo!unset
  <2>3. marker' \in [Hubs -> BOOLEAN] /\ cut' \in [Hubs -> BOOLEAN]
    BY <1>10 DEF Cmo!unset
  <2>4. cmoFaults' \in 0..MaxCmoFaults
    BY <1>10 DEF Cmo!unset
  <2>5. UNCHANGED <<want, todo, plan, deaf, hubChanges, cmoEdits>>
    BY <1>10 DEF Cmo!unset
  <2>6. QED
    BY <2>1, <2>2, <2>3, <2>4, <2>5
<1>11. ASSUME NEW h \in Hubs, NEW k \in Cmo!Keys,
              Cmo!ConfigMapEvent(h, k) \/ Cmo!AgentReconcile(h, k)
       PROVE  Cmo!CmoTypeOK'
  <2>1. todo' \in [Hubs -> SUBSET Cmo!Keys] /\ deaf' \in [Hubs -> SUBSET Cmo!Keys]
    <3>1. CASE Cmo!ConfigMapEvent(h, k)
      BY <3>1 DEF Cmo!ConfigMapEvent
    <3>2. CASE Cmo!AgentReconcile(h, k)
      <4>1. todo' = [todo EXCEPT ![h] = @ \ {k}] /\ deaf' = deaf
        BY <3>2 DEF Cmo!AgentReconcile
      <4>2. QED
        BY <4>1
    <3>3. QED
      BY <1>11, <3>1, <3>2
  <2>2. UNCHANGED <<want, at, plan, flag, marker, cut, hubChanges, cmoEdits, cmoFaults>>
    BY <1>11 DEF Cmo!ConfigMapEvent, Cmo!AgentReconcile
  <2>3. QED
    BY <2>1, <2>2
<1>12. CASE Cmo!EditConfig
  BY <1>12 DEF Cmo!EditConfig
<1> QED
  BY <1>1, <1>2, <1>3, <1>4, <1>5, <1>6, <1>7, <1>8, <1>9, <1>10, <1>11, <1>12
     DEF Cmo!CmoNext

LEMMA CmoInvHolds == SystemSpec => [](part = "cmo" => CmoInv)
<1>1. SystemInit => (part = "cmo" => CmoInv)
  BY CmoStarts, MapsStart, CmoTypesStart DEF CmoInv
<1>2. (part = "cmo" => CmoInv) /\ [SystemNext]_systemVars => (part = "cmo" => CmoInv)'
  BY CmoSteps, MapsStep, CmoTypesStep DEF CmoInv
<1>3. QED
  BY <1>1, <1>2, PTL DEF SystemSpec

\* Whatever hubs there are, and whatever the user and restarts do to the ConfigMaps,
\* a hub never has two alertmanager stanzas in one of them (CreateOrUpdateCMOConfig,
\* IsManaged).
THEOREM MonitoringOneStanzaEach == SystemSpec => []OneStanzaEach
<1>1. (part = "cmo" => CmoInv) => OneStanzaEach
  <2> SUFFICES ASSUME CmoInv, NEW k \in Cmo!Keys, NEW h \in Hubs
               PROVE  Cmo!Cardinality(
                        {i \in DOMAIN actual[k].ams : Cmo!IsManaged(actual[k].ams[i], h)}) <= 1
    BY DEF OneStanzaEach, Cmo!OneStanzaEach
  <2> DEFINE M == {i \in DOMAIN actual[k].ams : Cmo!IsManaged(actual[k].ams[i], h)}
  <2>1. \A i, j \in M : i = j
    BY DEF CmoInv, MapsInv, AtMostOne
  <2>2. M = {} \/ \E i \in M : M = {i}
    BY <2>1
  <2> HIDE DEF M
  <2>3. Cardinality(M) <= 1
    <3>1. CASE M = {}
      BY <3>1, FS_EmptySet
    <3>2. ASSUME NEW i \in M, M = {i}
          PROVE  Cardinality(M) <= 1
      <4>1. Cardinality({i}) = 1
        BY FS_Singleton
      <4>2. QED
        BY <3>2, <4>1
    <3>3. QED
      BY <2>2, <3>1, <3>2
  <2>4. QED
    BY <2>3, CmoCardinality DEF M
<1>2. QED
  BY <1>1, CmoInvHolds, PTL

\* What the user has put into cluster-monitoring-config outlives every write of an
\* operator but the delete of a ConfigMap that, by the operator's copy, holds nothing
\* but the hub's stanza: an update of an old copy is refused (CreateOrUpdateCMOConfig,
\* RevertClusterMonitoringConfig).
THEOREM MonitoringSettingsKept == SystemSpec => SettingsKept
<1>1. (part = "cmo" => CmoInv) /\ [SystemNext]_systemVars
        => [part = "cmo" => Cmo!KeepsSettings]_cmoVars
  <2> SUFFICES ASSUME Cmo!CmoTypeOK, MapsInv, [Cmo!CmoNext]_cmoVars, ~UNCHANGED cmoVars
               PROVE  Cmo!KeepsSettings
    BY CmoSteps DEF CmoInv
  <2> DEFINE m == actual["cmo"]
             Kept == Respects(m, m')
  <2>1. "cmo" \in Cmo!Keys /\ m \in Cmo!MapType /\ AtMostOne(m.ams)
    BY DEF MapsInv, Cmo!Keys
  <2>2. ASSUME Kept
        PROVE  Cmo!KeepsSettings
    BY <2>2 DEF Respects, Includes, Cmo!KeepsSettings, Cmo!Has
  <2>3. ASSUME UNCHANGED actual
        PROVE  Cmo!KeepsSettings
    BY <2>1, <2>2, <2>3 DEF Respects
  <2>4. ASSUME CmoWrites
        PROVE  Cmo!KeepsSettings
    <3>1. PICK h \in Hubs, k \in Cmo!Keys : Cmo!Configure(k, h) \/ Cmo!Revert(k, h)
      BY <2>4 DEF CmoWrites
    <3>2. Written(h, k)
      BY <3>1, ConfigureWrites, RevertWrites
    <3>3. CASE k = "cmo"
      BY <2>2, <3>2, <3>3 DEF Written, Cmo!KeepsSettings
    <3>4. CASE k # "cmo"
      BY <2>1, <2>2, <3>2, <3>4 DEF Written, Respects
    <3>5. QED
      BY <3>3, <3>4
  <2>5. ASSUME Cmo!EditConfig
        PROVE  Cmo!KeepsSettings
    <3>1. cmoEdits' = cmoEdits + 1 /\ cmoEdits \in Nat
      BY <2>5, CmoAssumption DEF Cmo!EditConfig, Cmo!CmoTypeOK
    <3>2. QED
      BY <3>1 DEF Cmo!KeepsSettings
  <2>6. QED
    BY <2>3, <2>4, <2>5, CmoStepKinds DEF CmoQuiet, Cmo!ConfigMapEvent
<1>2. QED
  BY <1>1, CmoInvHolds, PTL DEF SystemSpec, SettingsKept

-----------------------------------------------------------------------------
(***************************************************************************)
(* At rest: the stanzas                                                    *)
(***************************************************************************)
\* Stanzas stand in a prometheus section, and that in a config.yaml that parses
Parses(m) == (m.ams # <<>> => m.prom) /\ (m.prom => m.there /\ m.data = "yaml")

LEMMA EmptyIsFree == \A h \in Hubs : Free(<<>>, h)
  BY EmptySeq DEF Free

\* A hub's stanza in the place of the ones it had: the other hubs have as many as before.
LEMMA StanzaAppended ==
    ASSUME NEW ams \in Seq(Cmo!Stanzas), NEW h \in Hubs
    PROVE  LET a == Append(Cmo!Unmanaged(ams, h), Cmo!Stanza(h))
           IN  /\ a \in Seq(Cmo!Stanzas) /\ Includes(a, Cmo!Stanza(h))
               /\ \A g \in Hubs \ {h} : Free(ams, g) => Free(a, g)
<1> DEFINE u == Cmo!Unmanaged(ams, h)
           s == Cmo!Stanza(h)
           a == Append(u, s)
<1>1. u \in Seq(Cmo!Stanzas) /\ \A g \in Hubs : Free(ams, g) => Free(u, g)
  BY UnmanagedStays
<1>2. s \in Cmo!Stanzas /\ \A g \in Hubs : Cmo!IsManaged(s, g) => g = h
  BY StanzaTypes
<1> HIDE DEF u, s
<1>3. /\ a \in Seq(Cmo!Stanzas)
      /\ \A i \in DOMAIN a : (i \in DOMAIN u /\ a[i] = u[i]) \/ a[i] = s
  BY <1>1, <1>2, Appended
<1>4. Includes(a, s)
  <2>1. Len(a) = Len(u) + 1 /\ a[Len(u) + 1] = s
    BY <1>1, <1>2, AppendProperties
  <2>2. DOMAIN a = 1..(Len(u) + 1) /\ Len(u) \in Nat
    BY <1>1, <1>3, <2>1, LenProperties
  <2>3. QED
    BY <2>1, <2>2 DEF Includes
<1> HIDE DEF a
<1>5. \A g \in Hubs \ {h} : Free(ams, g) => Free(a, g)
  BY <1>1, <1>2, <1>3 DEF Free
<1>6. QED
  BY <1>3, <1>4, <1>5 DEF a, u, s

\* What an operator makes of a ConfigMap has its stanza, and nothing new of other hubs.
LEMMA ConfiguringAdds ==
    ASSUME NEW m \in Cmo!MapType, NEW h \in Hubs,
           NEW c \in {Cmo!CreateOrUpdateCMOConfig(m, h),
                      Cmo!CreateOrUpdateUserWorkloadMonitoringConfig(m, h)}
    PROVE  /\ Parses(c) /\ Includes(c.ams, Cmo!Stanza(h))
           /\ \A g \in Hubs \ {h} : Free(m.ams, g) => Free(c.ams, g)
<1> DEFINE a == Append(Cmo!Unmanaged(m.ams, h), Cmo!Stanza(h))
           name == h \in Agents
<1>1. m.ams \in Seq(Cmo!Stanzas)
  BY DEF Cmo!MapType
<1>2. /\ Includes(a, Cmo!Stanza(h))
      /\ \A g \in Hubs \ {h} : Free(m.ams, g) => Free(a, g)
  BY <1>1, StanzaAppended
<1>3. \/ c = [m EXCEPT !.there = TRUE, !.data = "yaml", !.prom = TRUE, !.label = TRUE,
                       !.name = name, !.ams = a]
      \/ c = [m EXCEPT !.there = TRUE, !.data = "yaml", !.prom = TRUE, !.ams = a]
  BY Zenon DEF Cmo!CreateOrUpdateCMOConfig, Cmo!CreateOrUpdateUserWorkloadMonitoringConfig
<1> HIDE DEF a, name
<1>4. c.there = TRUE /\ c.data = "yaml" /\ c.prom = TRUE /\ c.ams = a
  BY <1>3 DEF Cmo!MapType
<1>5. QED
  BY <1>2, <1>4 DEF Parses

\* What one makes of it that takes its stanza out.
LEMMA RevertingRemoves ==
    ASSUME NEW m \in Cmo!MapType, NEW h \in Hubs, Parses(m),
           NEW c \in {Cmo!RevertClusterMonitoringConfig(m, h),
                      Cmo!RevertUserWorkloadMonitoringConfig(m, h)}
    PROVE  /\ Parses(c) /\ Free(c.ams, h)
           /\ \A g \in Hubs : Free(m.ams, g) => Free(c.ams, g)
<1> DEFINE a == Cmo!Unmanaged(m.ams, h)
           name == m.name /\ h \notin Agents
           skips == ~Cmo!HasClusterMonitoringConfigData(m) \/ ~m.prom
<1>1. m.ams \in Seq(Cmo!Stanzas)
  BY DEF Cmo!MapType
<1>2. Free(a, h) /\ \A g \in Hubs : Free(m.ams, g) => Free(a, g)
  BY <1>1, UnmanagedStays
<1>3. skips => Free(m.ams, h)
  BY EmptyIsFree DEF Parses, Cmo!HasClusterMonitoringConfigData
<1>4. \/ skips /\ c = m
      \/ /\ ~skips
         /\ \/ c = [m EXCEPT !.label = FALSE, !.name = name, !.ams = a,
                             !.prom = m.ams = <<>> \/ a # <<>> \/ name]
            \/ c = [m EXCEPT !.ams = a, !.prom = m.ams = <<>> \/ a # <<>>]
  BY Zenon DEF Cmo!RevertClusterMonitoringConfig, Cmo!RevertUserWorkloadMonitoringConfig
<1>5. CASE skips /\ c = m
  BY <1>3, <1>5
<1>6. ~skips => m.prom
  OBVIOUS
<1> HIDE DEF a, name, skips
<1>7. CASE ~skips /\ c # m
  <2>1. c.ams = a /\ (a # <<>> => c.prom) /\ c.there = m.there /\ c.data = m.data
    BY <1>4, <1>7 DEF Cmo!MapType
  <2>2. QED
    BY <1>2, <1>6, <1>7, <2>1 DEF Parses
<1>8. CASE ~skips /\ c = m
  <2>1. c.ams = a
    BY <1>4, <1>8 DEF Cmo!MapType
  <2>2. QED
    BY <1>2, <1>8, <2>1
<1>9. QED
  BY <1>4, <1>5, <1>7, <1>8

AllParse == \A k \in Cmo!Keys : Parses(actual[k]) /\ \A h \in Hubs : Parses(copy[h][k])

\* Nobody has added a stanza of h
FreeKept(h) == \A k \in Cmo!Keys : Free(actual[k].ams, h) => Free(actual'[k].ams, h)

LEMMA ConfigureAdds ==
    ASSUME MapsInv, AllParse, NEW h \in Hubs, NEW k \in Cmo!Keys, Cmo!Configure(k, h)
    PROVE  /\ \A j \in Cmo!Keys : Parses(actual'[j]) /\ (j # k => actual'[j] = actual[j])
           /\ \A g \in Hubs \ {h} : FreeKept(g)
           /\ k \notin behind[h] \/ actual' # actual => Includes(actual'[k].ams, Cmo!Stanza(h))
<1> DEFINE c == Cmo!Configured(k, h)
<1>1. /\ Parses(c) /\ Includes(c.ams, Cmo!Stanza(h))
      /\ \A g \in Hubs \ {h} : Free(copy[h][k].ams, g) => Free(c.ams, g)
  <2>1. copy[h][k] \in Cmo!MapType
    BY DEF MapsInv
  <2>2. c \in {Cmo!CreateOrUpdateCMOConfig(copy[h][k], h),
               Cmo!CreateOrUpdateUserWorkloadMonitoringConfig(copy[h][k], h)}
    BY DEF Cmo!Configured
  <2>3. QED
    BY <2>1, <2>2, ConfiguringAdds
<1>2. k \notin behind[h] => copy[h][k] = actual[k]
  BY DEF MapsInv
<1>3. \/ c = copy[h][k] /\ actual' = actual
      \/ /\ c # copy[h][k] /\ k \notin behind[h]
         /\ actual' = [actual EXCEPT ![k] = c]
  BY DEF Cmo!Configure, Cmo!ConfigureRefused
<1> HIDE DEF c
<1>4. CASE c = copy[h][k] /\ actual' = actual
  BY <1>1, <1>2, <1>4 DEF AllParse, FreeKept
<1>5. CASE k \notin behind[h] /\ actual' = [actual EXCEPT ![k] = c]
  <2>1. actual'[k] = c /\ \A j \in Cmo!Keys : j # k => actual'[j] = actual[j]
    BY <1>5 DEF MapsInv
  <2>2. QED
    BY <1>1, <1>2, <1>5, <2>1 DEF AllParse, FreeKept
<1>6. QED
  BY <1>3, <1>4, <1>5

LEMMA RevertRemoves ==
    ASSUME MapsInv, AllParse, NEW h \in Hubs, NEW k \in Cmo!Keys, Cmo!Revert(k, h)
    PROVE  /\ \A j \in Cmo!Keys : Parses(actual'[j]) /\ (j # k => actual'[j] = actual[j])
           /\ \A g \in Hubs : FreeKept(g)
           /\ k \notin behind[h] => Free(actual'[k].ams, h)
<1> DEFINE c == Cmo!Reverted(k, h)
<1>1. /\ Parses(c) /\ Free(c.ams, h)
      /\ \A g \in Hubs : Free(copy[h][k].ams, g) => Free(c.ams, g)
  <2>1. copy[h][k] \in Cmo!MapType /\ Parses(copy[h][k])
    BY DEF MapsInv, AllParse
  <2>2. c \in {Cmo!RevertClusterMonitoringConfig(copy[h][k], h),
               Cmo!RevertUserWorkloadMonitoringConfig(copy[h][k], h)}
    BY DEF Cmo!Reverted
  <2>3. QED
    BY <2>1, <2>2, RevertingRemoves
<1>2. k \notin behind[h] => copy[h][k] = actual[k]
  BY DEF MapsInv
<1>3. Parses(Cmo!NoMap) /\ \A g \in Hubs : Free(Cmo!NoMap.ams, g)
  BY EmptyIsFree DEF Cmo!NoMap, Parses
<1>4. \/ c = copy[h][k] /\ actual' = actual
      \/ actual' = [actual EXCEPT ![k] = Cmo!NoMap]
      \/ k \notin behind[h] /\ actual' = [actual EXCEPT ![k] = c]
  BY DEF Cmo!Revert, Cmo!RevertRefused
<1> HIDE DEF c
<1>5. CASE c = copy[h][k] /\ actual' = actual
  BY <1>1, <1>2, <1>5 DEF AllParse, FreeKept
<1>6. CASE actual' = [actual EXCEPT ![k] = Cmo!NoMap]
  <2>1. actual'[k] = Cmo!NoMap /\ \A j \in Cmo!Keys : j # k => actual'[j] = actual[j]
    BY <1>6 DEF MapsInv
  <2>2. QED
    BY <1>3, <2>1 DEF AllParse, FreeKept
<1>7. CASE k \notin behind[h] /\ actual' = [actual EXCEPT ![k] = c]
  <2>1. actual'[k] = c /\ \A j \in Cmo!Keys : j # k => actual'[j] = actual[j]
    BY <1>7 DEF MapsInv
  <2>2. QED
    BY <1>1, <1>2, <1>7, <2>1 DEF AllParse, FreeKept
<1>8. QED
  BY <1>4, <1>5, <1>6, <1>7

LEMMA EditAdds ==
    ASSUME MapsInv, AllParse, Cmo!EditConfig
    PROVE  /\ \A j \in Cmo!Keys : Parses(actual'[j])
           /\ \A h \in Hubs : FreeKept(h)
<1>0. "cmo" \in Cmo!Keys /\ actual["cmo"] \in Cmo!MapType
  BY DEF Cmo!Keys, MapsInv
<1>1. ASSUME NEW m \in {Cmo!NoMap} \cup UserMaps, actual' = [actual EXCEPT !["cmo"] = m]
      PROVE  /\ \A j \in Cmo!Keys : Parses(actual'[j])
             /\ \A h \in Hubs : FreeKept(h)
  <2>1. Parses(m) /\ \A h \in Hubs : Free(m.ams, h)
    <3>1. CASE m = Cmo!NoMap
      BY <3>1, EmptyIsFree DEF Cmo!NoMap, Parses
    <3>2. CASE m \in UserMaps
      BY <3>2, CmoAssumption DEF Parses, Free
    <3>3. QED
      BY <3>1, <3>2
  <2>2. actual'["cmo"] = m /\ \A j \in Cmo!Keys : j # "cmo" => actual'[j] = actual[j]
    BY <1>0, <1>1 DEF MapsInv
  <2>3. QED
    BY <2>1, <2>2 DEF AllParse, FreeKept
<1>2. ASSUME actual["cmo"].prom,
             actual' = [actual EXCEPT !["cmo"].ams = Append(@, Cmo!UserStanza)]
      PROVE  /\ \A j \in Cmo!Keys : Parses(actual'[j])
             /\ \A h \in Hubs : FreeKept(h)
  <2> DEFINE ams == actual["cmo"].ams
             longer == Append(ams, Cmo!UserStanza)
  <2>1. ams \in Seq(Cmo!Stanzas)
    BY <1>0 DEF Cmo!MapType
  <2>2. /\ Cmo!UserStanza \in Cmo!Stanzas
        /\ \A h \in Hubs : ~Cmo!IsManaged(Cmo!UserStanza, h)
    BY CmoAssumption DEF Cmo!UserStanza, Cmo!Stanzas, Cmo!IsManaged
  <2>3. actual' = [actual EXCEPT !["cmo"] = [actual["cmo"] EXCEPT !.ams = longer]]
    BY <1>2
  <2> HIDE DEF ams
  <2>4. \A i \in DOMAIN longer :
          (i \in DOMAIN ams /\ longer[i] = ams[i]) \/ longer[i] = Cmo!UserStanza
    BY <2>1, <2>2, Appended
  <2> HIDE DEF longer
  <2>5. \A h \in Hubs : Free(ams, h) => Free(longer, h)
    BY <2>2, <2>4 DEF Free
  <2>6. /\ actual'["cmo"].ams = longer /\ actual'["cmo"].prom = actual["cmo"].prom
        /\ actual'["cmo"].there = actual["cmo"].there
        /\ actual'["cmo"].data = actual["cmo"].data
        /\ \A j \in Cmo!Keys : j # "cmo" => actual'[j] = actual[j]
    BY <1>0, <2>3 DEF MapsInv, Cmo!MapType
  <2>7. Parses(actual'["cmo"])
    BY <1>0, <1>2, <2>6 DEF AllParse, Parses
  <2>8. QED
    BY <2>5, <2>6, <2>7 DEF AllParse, FreeKept, ams
<1>3. QED
  BY <1>1, <1>2 DEF Cmo!EditConfig

\* The operator remembers a revert, or will when it reads the marker
Remembers(h) == flag[h] = "yes" \/ (flag[h] = "unread" /\ marker[h])

\* No ConfigMap has a stanza of h
NoneOf(h) == Free(actual["cmo"].ams, h) /\ Free(actual["uwl"].ams, h)

\* Reconcile works for what the hub asks for unless it comes again
PlanInv(h) ==
    /\ todo[h] = {} /\ at[h] # "idle" => plan[h] = want[h]
    /\ at[h] \in {"revert", "revertUwl", "mark"} => plan[h] = "off" /\ flag[h] = "no"
    /\ at[h] \in {"config", "unset", "uwl"} => plan[h] # "off"
    /\ flag[h] = "no" => ~marker[h]
    /\ want[h] = "off" /\ todo[h] = {} /\ at[h] = "idle" => flag[h] = "yes"

\* An enabled hub's stanza is there once Reconcile has looked at what is there
HasInv(h) ==
    /\ want[h] # "off" /\ todo[h] = {} /\ "cmo" \notin behind[h]
    /\ at[h] \in {"unset", "uwl", "idle"}
    => Includes(actual["cmo"].ams, Cmo!Stanza(h))

\* What is remembered as reverted is reverted; it is forgotten when it is no longer so
GoneInv(h) ==
    ~cut[h] =>
        /\ Remembers(h) /\ at[h] # "unset" => NoneOf(h)
        /\ at[h] = "mark" => NoneOf(h)
        /\ at[h] = "revertUwl" => Free(actual["cmo"].ams, h)
        /\ at[h] = "uwl" => ~Remembers(h)

AgentInv(h) ==
    /\ at[h] = "idle"
    /\ want[h] # "off" /\ "cmo" \notin behind[h] \cup todo[h] \cup deaf[h] =>
         Includes(actual["cmo"].ams, Cmo!Stanza(h))
    /\ want[h] = "off" => \A k \in Cmo!Keys \ (behind[h] \cup todo[h]) : Free(actual[k].ams, h)

LegacyInv(h) == PlanInv(h) /\ HasInv(h) /\ GoneInv(h)
StanzaInv(h) == IF h \in Agents THEN AgentInv(h) ELSE LegacyInv(h)

\* A step of somebody else: what h knows is as before, or the informer has news
Aside(h) ==
    /\ copy'[h] = copy[h] /\ want'[h] = want[h] /\ todo'[h] = todo[h] /\ at'[h] = at[h]
    /\ plan'[h] = plan[h] /\ flag'[h] = flag[h] /\ marker'[h] = marker[h]
    /\ deaf'[h] = deaf[h] /\ cut'[h] = cut[h]

Informed(h) ==
    \A k \in Cmo!Keys : k \notin behind'[h] => k \notin behind[h] /\ actual'[k] = actual[k]

LEMMA StanzaStaysAside ==
    ASSUME NEW h \in Hubs, StanzaInv(h), Aside(h), Informed(h), FreeKept(h)
    PROVE  StanzaInv(h)'
<1>1. "cmo" \in Cmo!Keys /\ "uwl" \in Cmo!Keys
  BY DEF Cmo!Keys
<1>2. "cmo" \notin behind'[h] => "cmo" \notin behind[h] /\ actual'["cmo"] = actual["cmo"]
  BY <1>1 DEF Informed
<1>3. /\ Free(actual["cmo"].ams, h) => Free(actual'["cmo"].ams, h)
      /\ NoneOf(h) => NoneOf(h)'
  BY <1>1 DEF FreeKept, NoneOf, Free
<1>4. CASE h \notin Agents
  <2>1. PlanInv(h)'
    BY <1>4 DEF StanzaInv, LegacyInv, PlanInv, Aside
  <2>2. HasInv(h)'
    BY <1>2, <1>4 DEF StanzaInv, LegacyInv, HasInv, Aside, Includes
  <2>3. Remembers(h)' = Remembers(h)
    BY DEF Remembers, Aside
  <2>4. Free(actual["cmo"].ams, h)' = Free(actual'["cmo"].ams, h)
    BY DEF Free
  <2>5. GoneInv(h)'
    BY <1>3, <1>4, <2>3, <2>4 DEF StanzaInv, LegacyInv, GoneInv, Aside
  <2>6. QED
    BY <1>4, <2>1, <2>2, <2>5 DEF StanzaInv, LegacyInv
<1>5. CASE h \in Agents
  <2>1. at'[h] = "idle"
    BY <1>5 DEF StanzaInv, AgentInv, Aside
  <2>2. want'[h] # "off" /\ "cmo" \notin behind'[h] \cup todo'[h] \cup deaf'[h] =>
          Includes(actual'["cmo"].ams, Cmo!Stanza(h))
    BY <1>2, <1>5 DEF StanzaInv, AgentInv, Aside
  <2>3. want'[h] = "off" =>
          \A k \in Cmo!Keys \ (behind'[h] \cup todo'[h]) : Free(actual'[k].ams, h)
    BY <1>5 DEF StanzaInv, AgentInv, Aside, Informed, FreeKept
  <2>4. QED
    BY <1>5, <2>1, <2>2, <2>3 DEF StanzaInv, AgentInv, Includes, Free
<1>6. QED
  BY <1>4, <1>5

\* The steps of g
HubStep(g) ==
    \/ Cmo!ChangeHub(g) \/ Cmo!RestartEndpoint(g) \/ Cmo!CmoError(g) \/ Cmo!StartCmo(g)
    \/ Cmo!isRevertedAlready(g) \/ Cmo!RevertStep(g) \/ Cmo!setConfigReverted(g)
    \/ Cmo!ConfigureStep(g) \/ Cmo!unset(g)
    \/ \E k \in Cmo!Keys : Cmo!ConfigMapEvent(g, k) \/ Cmo!AgentReconcile(g, k)

LEMMA OthersAside ==
    ASSUME CmoInv, NEW g \in Hubs, HubStep(g), NEW h \in Hubs, h # g
    PROVE  Aside(h) /\ Informed(h)
<1> USE DEF CmoInv, MapsInv, Cmo!CmoTypeOK, Aside
<1>1. ASSUME behind'[h] = behind[h] \cup {k \in Cmo!Keys : actual'[k] # actual[k]}
      PROVE  Informed(h)
  BY <1>1 DEF Informed
<1>2. ASSUME behind'[h] = behind[h], UNCHANGED actual
      PROVE  Informed(h)
  BY <1>2 DEF Informed
<1>3. ASSUME Cmo!ChangeHub(g)
      PROVE  Aside(h) /\ Informed(h)
  BY <1>2, <1>3 DEF Cmo!ChangeHub, Cmo!Started
<1>4. ASSUME Cmo!RestartEndpoint(g)
      PROVE  Aside(h) /\ Informed(h)
  BY <1>2, <1>4 DEF Cmo!RestartEndpoint, Cmo!Started
<1>5. ASSUME Cmo!CmoError(g)
      PROVE  Aside(h) /\ Informed(h)
  BY <1>2, <1>5 DEF Cmo!CmoError, Cmo!FailCmo, Cmo!Goes
<1>6. ASSUME Cmo!StartCmo(g)
      PROVE  Aside(h) /\ Informed(h)
  BY <1>2, <1>6 DEF Cmo!StartCmo, Cmo!Goes
<1>7. ASSUME Cmo!isRevertedAlready(g)
      PROVE  Aside(h) /\ Informed(h)
  BY <1>2, <1>7 DEF Cmo!isRevertedAlready, Cmo!Goes
<1>8. ASSUME Cmo!RevertStep(g)
      PROVE  Aside(h) /\ Informed(h)
  BY <1>1, <1>8 DEF Cmo!RevertStep, Cmo!Goes, Cmo!Announce
<1>9. ASSUME Cmo!setConfigReverted(g)
      PROVE  Aside(h) /\ Informed(h)
  BY <1>2, <1>9 DEF Cmo!setConfigReverted, Cmo!Goes
<1>10. ASSUME Cmo!ConfigureStep(g)
       PROVE  Aside(h) /\ Informed(h)
  BY <1>1, <1>10 DEF Cmo!ConfigureStep, Cmo!Goes, Cmo!Announce
<1>11. ASSUME Cmo!unset(g)
       PROVE  Aside(h) /\ Informed(h)
  BY <1>2, <1>11 DEF Cmo!unset, Cmo!Goes
<1>12. ASSUME NEW k \in Cmo!Keys, Cmo!ConfigMapEvent(g, k)
       PROVE  Aside(h) /\ Informed(h)
  BY <1>2, <1>12 DEF Cmo!ConfigMapEvent
<1>13. ASSUME NEW k \in Cmo!Keys, Cmo!AgentReconcile(g, k)
       PROVE  Aside(h) /\ Informed(h)
  BY <1>1, <1>13 DEF Cmo!AgentReconcile, Cmo!Announce
<1>14. QED
  BY <1>3, <1>4, <1>5, <1>6, <1>7, <1>8, <1>9, <1>10, <1>11, <1>12, <1>13 DEF HubStep

\* The functions of the state are functions of the hubs.
OfHubs ==
    /\ DOMAIN want = Hubs /\ DOMAIN plan = Hubs /\ DOMAIN todo = Hubs /\ DOMAIN at = Hubs
    /\ DOMAIN flag = Hubs /\ DOMAIN marker = Hubs /\ DOMAIN deaf = Hubs /\ DOMAIN cut = Hubs
    /\ DOMAIN behind = Hubs /\ DOMAIN copy = Hubs

\* Steps that write no ConfigMap, and wake or do not wake
LEMMA LegacyQuietly ==
    ASSUME CmoInv, NEW h \in Hubs, h \notin Agents, LegacyInv(h),
           \/ Cmo!ChangeHub(h) \/ Cmo!CmoError(h) \/ Cmo!StartCmo(h)
           \/ Cmo!isRevertedAlready(h) \/ Cmo!setConfigReverted(h) \/ Cmo!unset(h)
    PROVE  LegacyInv(h)'
<1>0. OfHubs /\ Cmo!Keys # {} /\ flag[h] \in {"unread", "yes", "no"} /\ marker[h] \in BOOLEAN
  BY DEF OfHubs, CmoInv, MapsInv, Cmo!CmoTypeOK, Cmo!Keys
<1> USE <1>0 DEF LegacyInv, PlanInv, HasInv, GoneInv, Remembers, NoneOf, Free, Includes, OfHubs
<1>1. CASE Cmo!ChangeHub(h)
  BY <1>1 DEF Cmo!ChangeHub
<1>2. CASE Cmo!CmoError(h)
  BY <1>2 DEF Cmo!CmoError, Cmo!FailCmo, Cmo!Goes
<1>3. CASE Cmo!StartCmo(h)
  BY <1>3 DEF Cmo!StartCmo, Cmo!Goes
<1>4. CASE Cmo!isRevertedAlready(h)
  <2>1. CASE plan[h] = "off"
    <3>1. /\ flag'[h] = Cmo!initPersistedRevertState(h) /\ flag'[h] \in {"yes", "no"}
          /\ flag'[h] = "yes" <=> Remembers(h)
          /\ flag'[h] = "no" => ~marker[h]
      BY <1>4, <2>1 DEF Cmo!isRevertedAlready, Cmo!initPersistedRevertState
    <3>2. /\ at[h] = "secrets" /\ at'[h] = IF flag'[h] = "yes" THEN "idle" ELSE "revert"
          /\ UNCHANGED <<actual, behind, want, todo, plan, marker, cut>>
      BY <1>4, <2>1 DEF Cmo!isRevertedAlready, Cmo!Goes
    <3>3. PlanInv(h)'
      BY <2>1, <3>1, <3>2
    <3>4. HasInv(h)'
      BY <2>1, <3>1, <3>2
    <3>5. Remembers(h)' <=> Remembers(h)
      BY <3>1, <3>2
    <3>6. NoneOf(h)' <=> NoneOf(h)
      BY <3>2
    <3>7. GoneInv(h)'
      BY <3>2, <3>5, <3>6
    <3>8. QED
      BY <3>3, <3>4, <3>7
  <2>2. CASE plan[h] # "off"
    BY <1>4, <2>2 DEF Cmo!isRevertedAlready, Cmo!Goes
  <2>3. QED
    BY <2>1, <2>2
<1>5. CASE Cmo!setConfigReverted(h)
  BY <1>5 DEF Cmo!setConfigReverted, Cmo!Goes
<1>6. CASE Cmo!unset(h)
  BY <1>6 DEF Cmo!unset, Cmo!Goes
<1>7. QED
  BY <1>1, <1>2, <1>3, <1>4, <1>5, <1>6

LEMMA LegacyRestarts ==
    ASSUME CmoInv, NEW h \in Hubs, h \notin Agents, LegacyInv(h), Cmo!RestartEndpoint(h)
    PROVE  LegacyInv(h)'
<1>0. OfHubs /\ Cmo!Keys # {} /\ flag[h] \in {"unread", "yes", "no"} /\ marker[h] \in BOOLEAN
  BY DEF OfHubs, CmoInv, MapsInv, Cmo!CmoTypeOK, Cmo!Keys
<1>1. /\ todo'[h] = Cmo!Keys /\ at'[h] = "idle" /\ flag'[h] = "unread"
      /\ cut'[h] = (cut[h] \/ at[h] = "unset")
      /\ UNCHANGED <<actual, want, plan, marker>>
  BY <1>0 DEF Cmo!RestartEndpoint, Cmo!Started, OfHubs
<1>2. PlanInv(h)' /\ HasInv(h)'
  BY <1>0, <1>1 DEF PlanInv, HasInv
<1>3. Remembers(h)' => Remembers(h)
  BY <1>0, <1>1 DEF Remembers, LegacyInv, PlanInv
<1>4. NoneOf(h) => NoneOf(h)'
  BY <1>1 DEF NoneOf, Free
<1>5. GoneInv(h)'
  BY <1>1, <1>3, <1>4 DEF GoneInv, LegacyInv
<1>6. QED
  BY <1>2, <1>5 DEF LegacyInv

LEMMA LegacyLearns ==
    ASSUME CmoInv, NEW h \in Hubs, h \notin Agents, LegacyInv(h),
           NEW k \in Cmo!Keys, Cmo!ConfigMapEvent(h, k)
    PROVE  LegacyInv(h)'
<1>0. OfHubs
  BY DEF OfHubs, CmoInv, MapsInv, Cmo!CmoTypeOK
<1>1. todo'[h] # {} /\ UNCHANGED <<actual, want, at, plan, flag, marker, cut>>
  BY <1>0 DEF Cmo!ConfigMapEvent, OfHubs
<1>2. PlanInv(h)' /\ HasInv(h)'
  BY <1>1 DEF LegacyInv, PlanInv, HasInv
<1>3. GoneInv(h)'
  BY <1>1 DEF LegacyInv, GoneInv, Remembers, NoneOf, Free
<1>4. QED
  BY <1>2, <1>3 DEF LegacyInv

LEMMA LegacyReverts ==
    ASSUME CmoInv, AllParse, NEW h \in Hubs, h \notin Agents, LegacyInv(h), Cmo!RevertStep(h)
    PROVE  LegacyInv(h)'
<1>0. /\ OfHubs /\ "cmo" \in Cmo!Keys /\ "uwl" \in Cmo!Keys /\ MapsInv
      /\ flag[h] \in {"unread", "yes", "no"}
  BY DEF OfHubs, CmoInv, MapsInv, Cmo!CmoTypeOK, Cmo!Keys
<1>1. UNCHANGED <<want, todo, plan, flag, marker>>
  BY DEF Cmo!RevertStep
<1>2. plan[h] = "off" /\ flag[h] = "no" /\ ~Remembers(h) /\ ~Remembers(h)'
  BY <1>0, <1>1 DEF Cmo!RevertStep, LegacyInv, PlanInv, Remembers
<1>3. at'[h] \in {"revertUwl", "mark"}
  BY <1>0 DEF Cmo!RevertStep, Cmo!Goes, OfHubs
<1>4. PlanInv(h)' /\ HasInv(h)'
  <2>1. at[h] # "idle"
    BY DEF Cmo!RevertStep
  <2>2. QED
    BY <1>1, <1>2, <1>3, <2>1 DEF LegacyInv, PlanInv, HasInv
<1>5. CASE at[h] = "revert"
  <2>1. /\ at'[h] = "revertUwl" /\ Cmo!Revert("cmo", h)
        /\ cut'[h] = (cut[h] \/ "cmo" \in behind[h])
    BY <1>0, <1>5 DEF Cmo!RevertStep, Cmo!Goes, OfHubs
  <2>2. ~cut'[h] => Free(actual'["cmo"].ams, h)
    BY <1>0, <2>1, RevertRemoves
  <2>3. QED
    BY <1>2, <1>4, <2>1, <2>2 DEF LegacyInv, GoneInv, Free
<1>6. CASE at[h] = "revertUwl"
  <2>1. /\ at'[h] = "mark" /\ Cmo!Revert("uwl", h)
        /\ cut'[h] = (cut[h] \/ "uwl" \in behind[h])
    BY <1>0, <1>6 DEF Cmo!RevertStep, Cmo!Goes, OfHubs
  <2>2. ~cut'[h] => Free(actual'["cmo"].ams, h) /\ Free(actual'["uwl"].ams, h)
    BY <1>0, <1>6, <2>1, RevertRemoves DEF LegacyInv, GoneInv
  <2>3. QED
    BY <1>2, <1>4, <2>1, <2>2 DEF LegacyInv, GoneInv, NoneOf, Free
<1>7. QED
  BY <1>5, <1>6 DEF Cmo!RevertStep

LEMMA LegacyConfigures ==
    ASSUME CmoInv, AllParse, NEW h \in Hubs, h \notin Agents, LegacyInv(h), Cmo!ConfigureStep(h)
    PROVE  LegacyInv(h)'
<1>0. /\ OfHubs /\ "cmo" \in Cmo!Keys /\ "uwl" \in Cmo!Keys /\ MapsInv
      /\ flag[h] \in {"unread", "yes", "no"}
  BY DEF OfHubs, CmoInv, MapsInv, Cmo!CmoTypeOK, Cmo!Keys
<1>1. /\ UNCHANGED <<want, todo, plan, flag, marker>>
      /\ behind'[h] = behind[h] \cup {k \in Cmo!Keys : actual'[k] # actual[k]}
      /\ at[h] \in {"config", "uwl"} /\ at'[h] \in {"unset", "uwl", "idle"}
  BY <1>0 DEF Cmo!ConfigureStep, Cmo!Announce, Cmo!Goes, OfHubs
<1>2. plan[h] # "off" /\ (Remembers(h)' <=> Remembers(h))
  BY <1>1 DEF LegacyInv, PlanInv, Remembers
<1>3. PlanInv(h)'
  BY <1>1, <1>2 DEF LegacyInv, PlanInv
<1>4. CASE at[h] = "config"
  <2>1. /\ Cmo!Configure("cmo", h)
        /\ at'[h] = IF actual' = actual THEN "uwl" ELSE "unset"
        /\ cut'[h] = (cut[h] \/ (actual' = actual /\ "cmo" \in behind[h]))
    BY <1>0, <1>4 DEF Cmo!ConfigureStep, Cmo!Goes, OfHubs
  <2>2. "cmo" \notin behind[h] \/ actual' # actual =>
          Includes(actual'["cmo"].ams, Cmo!Stanza(h))
    BY <1>0, <2>1, ConfigureAdds
  <2>3. HasInv(h)'
    BY <1>1, <2>2 DEF HasInv, Includes
  <2>4. actual' = actual /\ ~cut'[h] => ~Remembers(h)
    <3>1. SUFFICES ASSUME actual' = actual, ~cut'[h]
                   PROVE  ~Remembers(h)
      OBVIOUS
    <3>2. Includes(actual["cmo"].ams, Cmo!Stanza(h)) /\ ~cut[h]
      BY <2>1, <2>2, <3>1
    <3>3. ~Free(actual["cmo"].ams, h)
      BY <3>2, StanzaTypes DEF Includes, Free
    <3>4. QED
      BY <1>4, <3>2, <3>3 DEF LegacyInv, GoneInv, NoneOf
  <2>5. GoneInv(h)'
    BY <1>2, <2>1, <2>4 DEF GoneInv
  <2>6. QED
    BY <1>3, <2>3, <2>5 DEF LegacyInv
<1>5. CASE at[h] = "uwl"
  <2>1. /\ Cmo!Configure("uwl", h) \/ Cmo!Revert("uwl", h)
        /\ at'[h] = "idle" /\ cut' = cut
    BY <1>0, <1>5 DEF Cmo!ConfigureStep, Cmo!Goes, OfHubs
  <2>2. actual'["cmo"] = actual["cmo"]
    BY <1>0, <2>1, ConfigureAdds, RevertRemoves
  <2>3. HasInv(h)'
    BY <1>1, <1>5, <2>2 DEF LegacyInv, HasInv, Includes
  <2>4. GoneInv(h)'
    BY <1>2, <1>5, <2>1 DEF LegacyInv, GoneInv
  <2>5. QED
    BY <1>3, <2>3, <2>4 DEF LegacyInv
<1>6. QED
  BY <1>1, <1>4, <1>5

\* An agent starts with a request for every ConfigMap that is there.
LEMMA AgentStarts ==
    ASSUME CmoInv, AllParse, NEW h \in Hubs, h \in Agents, Cmo!Started(h), UNCHANGED actual
    PROVE  AgentInv(h)'
<1>0. OfHubs /\ "cmo" \in Cmo!Keys
  BY DEF OfHubs, CmoInv, MapsInv, Cmo!CmoTypeOK, Cmo!Keys
<1>1. /\ todo'[h] = {k \in Cmo!Keys : actual[k].there}
      /\ deaf'[h] = {k \in Cmo!Keys : ~actual[k].there}
      /\ at'[h] = "idle"
  BY <1>0 DEF Cmo!Started, OfHubs
<1>2. "cmo" \in todo'[h] \cup deaf'[h]
  BY <1>0, <1>1
<1>3. \A k \in Cmo!Keys \ todo'[h] : Free(actual[k].ams, h)
  BY <1>1, EmptyIsFree DEF AllParse, Parses
<1>4. QED
  BY <1>1, <1>2, <1>3 DEF AgentInv, Free

LEMMA AgentReconciles ==
    ASSUME CmoInv, AllParse, NEW h \in Hubs, AgentInv(h),
           NEW k \in Cmo!Keys, Cmo!AgentReconcile(h, k)
    PROVE  AgentInv(h)'
<1>0. OfHubs /\ Cmo!Keys = {"cmo", "uwl"} /\ MapsInv
  BY DEF OfHubs, CmoInv, MapsInv, Cmo!CmoTypeOK, Cmo!Keys
<1>1. /\ todo'[h] = todo[h] \ {k} /\ UNCHANGED <<want, at, deaf>>
      /\ behind'[h] = behind[h] \cup {j \in Cmo!Keys : actual'[j] # actual[j]}
  BY <1>0 DEF Cmo!AgentReconcile, Cmo!Announce, OfHubs
<1>2. CASE want[h] # "off"
  <2>1. CASE k = "cmo"
    <3>1. Cmo!Configure("cmo", h)
      BY <1>2, <2>1 DEF Cmo!AgentReconcile, Cmo!reconcileCMO
    <3>2. "cmo" \notin behind[h] => Includes(actual'["cmo"].ams, Cmo!Stanza(h))
      BY <1>0, <3>1, ConfigureAdds
    <3>3. QED
      BY <1>1, <1>2, <3>2 DEF AgentInv, Includes
  <2>2. CASE k = "uwl"
    <3>1. Cmo!Configure("uwl", h) \/ Cmo!Revert("uwl", h)
      BY <2>2 DEF Cmo!AgentReconcile, Cmo!reconcileUWLConfig
    <3>2. actual'["cmo"] = actual["cmo"]
      BY <1>0, <3>1, ConfigureAdds, RevertRemoves
    <3>3. QED
      BY <1>1, <1>2, <2>2, <3>2 DEF AgentInv, Includes
  <2>3. QED
    BY <1>0, <2>1, <2>2
<1>3. CASE want[h] = "off"
  <2>1. Cmo!Revert(k, h)
    BY <1>0, <1>3 DEF Cmo!AgentReconcile, Cmo!reconcileCMO, Cmo!reconcileUWLConfig
  <2>2. /\ \A j \in Cmo!Keys : j # k => actual'[j] = actual[j]
        /\ k \notin behind[h] => Free(actual'[k].ams, h)
    BY <1>0, <2>1, RevertRemoves
  <2>3. \A j \in Cmo!Keys \ (behind'[h] \cup todo'[h]) : Free(actual'[j].ams, h)
    BY <1>1, <1>3, <2>2 DEF AgentInv
  <2>4. QED
    BY <1>1, <1>3, <2>3 DEF AgentInv, Free
<1>4. QED
  BY <1>2, <1>3

LEMMA AgentLearns ==
    ASSUME CmoInv, NEW h \in Hubs, AgentInv(h), NEW k \in Cmo!Keys, Cmo!ConfigMapEvent(h, k)
    PROVE  AgentInv(h)'
<1>0. OfHubs
  BY DEF OfHubs, CmoInv, MapsInv, Cmo!CmoTypeOK
<1>1. /\ todo'[h] = todo[h] \cup {k} /\ behind'[h] = behind[h] \ {k}
      /\ deaf'[h] = deaf[h] \ {k} /\ UNCHANGED <<actual, want, at>>
  BY <1>0 DEF Cmo!ConfigMapEvent, OfHubs
<1>2. QED
  BY <1>1 DEF AgentInv, Includes, Free

RestInv == AllParse /\ \A h \in Hubs : StanzaInv(h)

LEMMA RestStarts == Cmo!CmoInit => RestInv
<1> SUFFICES ASSUME Cmo!CmoInit
             PROVE  RestInv
  OBVIOUS
<1>1. PICK m \in {Cmo!NoMap} \cup UserMaps \cup OldMaps :
        actual = [k \in Cmo!Keys |-> IF k = "cmo" THEN m ELSE Cmo!NoMap]
  BY DEF Cmo!CmoInit
<1>2. Parses(Cmo!NoMap) /\ Parses(m)
  BY CmoAssumption DEF Parses, Cmo!NoMap
<1>3. AllParse
  BY <1>1, <1>2 DEF Cmo!CmoInit, AllParse
<1>4. Cmo!Keys = {"cmo", "uwl"}
  BY DEF Cmo!Keys
<1>5. ASSUME NEW h \in Hubs, h \notin Agents
      PROVE  LegacyInv(h)
  <2>1. /\ todo[h] = Cmo!Keys /\ at[h] = "idle" /\ flag[h] = "unread" /\ marker[h] = FALSE
    BY <1>5 DEF Cmo!CmoInit
  <2>2. QED
    BY <1>4, <2>1 DEF LegacyInv, PlanInv, HasInv, GoneInv, Remembers
<1>6. ASSUME NEW h \in Hubs, h \in Agents
      PROVE  AgentInv(h)
  <2>1. /\ todo[h] = {k \in Cmo!Keys : actual[k].there} /\ at[h] = "idle" /\ want[h] = "off"
    BY <1>6 DEF Cmo!CmoInit
  <2>2. \A k \in Cmo!Keys \ todo[h] : Free(actual[k].ams, h)
    BY <1>3, <2>1, EmptyIsFree DEF AllParse, Parses
  <2>3. QED
    BY <2>1, <2>2 DEF AgentInv
<1>7. QED
  BY <1>3, <1>5, <1>6 DEF RestInv, StanzaInv

\* No step takes a ConfigMap's text out of its section, or gives a hub the stanza of
\* another one.
LEMMA MapsKeepParsing ==
    ASSUME MapsInv, AllParse, [Cmo!CmoNext]_cmoVars
    PROVE  AllParse'
<1>1. CASE CmoQuiet
  BY <1>1 DEF CmoQuiet, AllParse, Parses
<1>2. CASE CmoWrites
  <2>1. PICK h \in Hubs, k \in Cmo!Keys : /\ Cmo!Configure(k, h) \/ Cmo!Revert(k, h)
                                         /\ UNCHANGED copy
    BY <1>2 DEF CmoWrites
  <2>2. \A j \in Cmo!Keys : Parses(actual'[j])
    BY <2>1, ConfigureAdds, RevertRemoves
  <2>3. QED
    BY <2>1, <2>2 DEF AllParse, Parses
<1>3. ASSUME NEW h \in Hubs, Cmo!Started(h) /\ UNCHANGED actual
      PROVE  AllParse'
  <2>1. \A g \in Hubs : copy'[g] = actual \/ copy'[g] = copy[g]
    BY <1>3 DEF Cmo!Started, MapsInv
  <2>2. \A g \in Hubs, k \in Cmo!Keys : Parses(copy'[g][k])
    BY <2>1 DEF AllParse
  <2>3. QED
    BY <1>3, <2>2 DEF AllParse, Parses
<1>4. ASSUME NEW h \in Hubs, NEW k \in Cmo!Keys, Cmo!ConfigMapEvent(h, k)
      PROVE  AllParse'
  <2>1. \A g \in Hubs, j \in Cmo!Keys : copy'[g][j] = actual[j] \/ copy'[g][j] = copy[g][j]
    BY <1>4 DEF Cmo!ConfigMapEvent, MapsInv
  <2>2. \A g \in Hubs, j \in Cmo!Keys : Parses(copy'[g][j])
    BY <2>1 DEF AllParse
  <2>3. QED
    BY <1>4, <2>2 DEF AllParse, Parses, Cmo!ConfigMapEvent
<1>5. CASE Cmo!EditConfig
  <2>1. \A j \in Cmo!Keys : Parses(actual'[j])
    BY <1>5, EditAdds
  <2>2. QED
    BY <1>5, <2>1 DEF AllParse, Parses, Cmo!EditConfig
<1>6. QED
  BY <1>1, <1>2, <1>3, <1>4, <1>5, CmoStepKinds

\* A hub's operator adds stanzas of its own hub only.
LEMMA OthersKeepFree ==
    ASSUME MapsInv, AllParse, NEW g \in Hubs, HubStep(g), NEW h \in Hubs, h # g
    PROVE  FreeKept(h)
<1>1. ASSUME UNCHANGED actual
      PROVE  FreeKept(h)
  BY <1>1 DEF FreeKept
<1>2. ASSUME NEW k \in Cmo!Keys, Cmo!Configure(k, g) \/ Cmo!Revert(k, g)
      PROVE  FreeKept(h)
  BY <1>2, ConfigureAdds, RevertRemoves
<1>3. "cmo" \in Cmo!Keys /\ "uwl" \in Cmo!Keys /\ Cmo!Keys = {"cmo", "uwl"}
  BY DEF Cmo!Keys
<1>4. ASSUME Cmo!RevertStep(g) \/ Cmo!ConfigureStep(g)
      PROVE  FreeKept(h)
  BY <1>2, <1>3, <1>4 DEF Cmo!RevertStep, Cmo!ConfigureStep
<1>5. ASSUME NEW k \in Cmo!Keys, Cmo!AgentReconcile(g, k)
      PROVE  FreeKept(h)
  BY <1>2, <1>3, <1>5 DEF Cmo!AgentReconcile, Cmo!reconcileCMO, Cmo!reconcileUWLConfig
<1>6. ASSUME \/ Cmo!ChangeHub(g) \/ Cmo!RestartEndpoint(g) \/ Cmo!CmoError(g)
             \/ Cmo!StartCmo(g) \/ Cmo!isRevertedAlready(g) \/ Cmo!setConfigReverted(g)
             \/ Cmo!unset(g)
      PROVE  UNCHANGED actual
  BY <1>6 DEF Cmo!ChangeHub, Cmo!RestartEndpoint, Cmo!CmoError, Cmo!StartCmo,
     Cmo!isRevertedAlready, Cmo!setConfigReverted, Cmo!unset
<1>7. ASSUME NEW k \in Cmo!Keys, Cmo!ConfigMapEvent(g, k)
      PROVE  UNCHANGED actual
  BY <1>7 DEF Cmo!ConfigMapEvent
<1>8. QED
  BY <1>1, <1>4, <1>5, <1>6, <1>7 DEF HubStep

LEMMA OwnStepKeepsRest ==
    ASSUME CmoInv, AllParse, NEW h \in Hubs, StanzaInv(h), HubStep(h)
    PROVE  StanzaInv(h)'
<1>1. CASE h \notin Agents
  <2>1. LegacyInv(h)
    BY <1>1 DEF StanzaInv
  <2>2. LegacyInv(h)'
    BY <1>1, <2>1, LegacyQuietly, LegacyRestarts, LegacyLearns, LegacyReverts,
       LegacyConfigures DEF HubStep, Cmo!AgentReconcile
  <2>3. QED
    BY <1>1, <2>2 DEF StanzaInv
<1>2. CASE h \in Agents
  <2>1. AgentInv(h) /\ at[h] = "idle"
    BY <1>2 DEF StanzaInv, AgentInv
  <2>2. ASSUME Cmo!ChangeHub(h) \/ Cmo!RestartEndpoint(h)
        PROVE  AgentInv(h)'
    BY <1>2, <2>2, AgentStarts DEF Cmo!ChangeHub, Cmo!RestartEndpoint
  <2>3. ~( \/ Cmo!CmoError(h) \/ Cmo!StartCmo(h) \/ Cmo!isRevertedAlready(h)
           \/ Cmo!RevertStep(h) \/ Cmo!setConfigReverted(h) \/ Cmo!ConfigureStep(h)
           \/ Cmo!unset(h) )
    BY <1>2, <2>1 DEF Cmo!CmoError, Cmo!StartCmo, Cmo!isRevertedAlready, Cmo!RevertStep,
       Cmo!setConfigReverted, Cmo!ConfigureStep, Cmo!unset
  <2>4. AgentInv(h)'
    BY <2>1, <2>2, <2>3, AgentReconciles, AgentLearns DEF HubStep
  <2>5. QED
    BY <1>2, <2>4 DEF StanzaInv
<1>3. QED
  BY <1>1, <1>2

LEMMA RestStays ==
    ASSUME CmoInv, RestInv, [Cmo!CmoNext]_cmoVars
    PROVE  RestInv'
<1>1. AllParse'
  BY MapsKeepParsing DEF CmoInv, RestInv
<1>2. ASSUME NEW h \in Hubs
      PROVE  StanzaInv(h)'
  <2>1. StanzaInv(h)
    BY DEF RestInv
  <2>2. ASSUME NEW g \in Hubs, HubStep(g)
        PROVE  StanzaInv(h)'
    <3>1. CASE g = h
      BY <2>1, <2>2, <3>1, OwnStepKeepsRest DEF RestInv
    <3>2. CASE g # h
      BY <2>1, <2>2, <3>2, OthersAside, OthersKeepFree, StanzaStaysAside DEF RestInv, CmoInv
    <3>3. QED
      BY <3>1, <3>2
  <2>3. ASSUME Cmo!EditConfig
        PROVE  StanzaInv(h)'
    <3>1. FreeKept(h)
      BY <2>3, EditAdds DEF RestInv, CmoInv
    <3>2. Aside(h) /\ Informed(h)
      <4>1. behind'[h] = behind[h] \cup {k \in Cmo!Keys : actual'[k] # actual[k]}
        BY <2>3 DEF Cmo!EditConfig, Cmo!Announce
      <4>2. QED
        BY <2>3, <4>1 DEF Cmo!EditConfig, Aside, Informed
    <3>3. QED
      BY <2>1, <3>1, <3>2, StanzaStaysAside
  <2>4. ASSUME UNCHANGED cmoVars
        PROVE  StanzaInv(h)'
    <3>1. Aside(h) /\ Informed(h) /\ FreeKept(h)
      BY <2>4 DEF cmoVars, Aside, Informed, FreeKept
    <3>2. QED
      BY <2>1, <3>1, StanzaStaysAside
  <2>5. \/ UNCHANGED cmoVars \/ Cmo!EditConfig \/ \E g \in Hubs : HubStep(g)
    BY Zenon DEF Cmo!CmoNext, HubStep
  <2>6. QED
    BY <2>2, <2>3, <2>4, <2>5
<1>3. QED
  BY <1>1, <1>2 DEF RestInv

\* Whatever users, hubs, other operators, restarts and failed calls do: an operator
\* with nothing to do and nothing to learn has put its hub's stanza there if alerts
\* are forwarded, and taken its stanzas out of both ConfigMaps if not, unless the
\* marker of an earlier revert misled it (Reconcile, createOrUpdateClusterMonitoringConfig,
\* revertClusterMonitoringConfig, unset).
THEOREM MonitoringNoStanzaMissed == SystemSpec => []NoStanzaMissed
<1> DEFINE Inv == part = "cmo" => CmoInv /\ RestInv
<1>1. SystemInit => Inv
  BY CmoStarts, MapsStart, CmoTypesStart, RestStarts DEF CmoInv
<1>2. Inv /\ [SystemNext]_systemVars => Inv'
  <2> SUFFICES ASSUME part = "cmo", CmoInv, RestInv, [Cmo!CmoNext]_cmoVars
               PROVE  CmoInv' /\ RestInv'
    BY CmoSteps
  <2>1. QED
    BY MapsStep, CmoTypesStep, RestStays DEF CmoInv
<1>3. Inv => NoStanzaMissed
  <2> SUFFICES ASSUME CmoInv, RestInv, NEW h \in Hubs,
                      at[h] = "idle", todo[h] = {}, behind[h] = {}
               PROVE  IF want[h] # "off"
                      THEN Cmo!Has("cmo", Cmo!Stanza(h)) \/ (h \in Agents /\ "cmo" \in deaf[h])
                      ELSE cut[h] \/ (~Cmo!HasManaged("cmo", h) /\ ~Cmo!HasManaged("uwl", h))
    BY DEF NoStanzaMissed, Cmo!NoStanzaMissed
  <2>1. StanzaInv(h)
    BY DEF RestInv
  <2>2. CASE want[h] # "off"
    BY <2>1, <2>2 DEF StanzaInv, LegacyInv, HasInv, AgentInv, Includes, Cmo!Has
  <2>3. CASE want[h] = "off"
    <3>1. cut[h] \/ NoneOf(h)
      <4>1. CASE h \in Agents
        BY <2>1, <2>3, <4>1 DEF StanzaInv, AgentInv, NoneOf, Cmo!Keys
      <4>2. CASE h \notin Agents
        BY <2>1, <2>3, <4>2 DEF StanzaInv, LegacyInv, PlanInv, GoneInv, Remembers
      <4>3. QED
        BY <4>1, <4>2
    <3>2. Cmo!IsManaged(Cmo!Stanza(h), h) /\ Cmo!IsManaged(Cmo!RouterStanza(h), h)
      BY DEF Cmo!IsManaged, Cmo!Stanza, Cmo!RouterStanza
    <3>3. NoneOf(h) => ~Cmo!HasManaged("cmo", h) /\ ~Cmo!HasManaged("uwl", h)
      BY <3>2 DEF NoneOf, Free, Cmo!HasManaged, Cmo!Has
    <3>4. QED
      BY <2>3, <3>1, <3>3
  <2>4. QED
    BY <2>2, <2>3
<1>4. QED
  BY <1>1, <1>2, <1>3, PTL DEF SystemSpec

-----------------------------------------------------------------------------
(***************************************************************************)
(* Types: the worker, its rules                                            *)
(***************************************************************************)
LEMMA Divided ==
    ASSUME NEW a \in Nat, NEW n \in Nat \ {0}
    PROVE  a \div n \in Nat /\ n * (a \div n) <= a
  OBVIOUS

LEMMA Factor ==
    ASSUME NEW n \in Nat \ {0}, NEW q \in Nat, NEW k \in 1..q
    PROVE  n * (k - 1) <= n * q - n /\ n * (k - 1) \in Nat
<1>1. PICK d \in Nat : q = k + d
  <2>1. q - k \in Nat /\ q = k + (q - k)
    OBVIOUS
  <2>2. QED
    BY <2>1
<1>2. n * q = n * k + n * d
  BY <1>1
<1>3. n * (k - 1) = n * k - n
  OBVIOUS
<1>4. n * d \in Nat
  BY <1>1
<1>5. QED
  BY <1>2, <1>3, <1>4

LEMMA ShardIndex ==
    ASSUME NEW L \in Nat, NEW n \in Nat \ {0}, NEW s \in 1..n, NEW k \in 1..((L + n - s) \div n)
    PROVE  n * (k - 1) + s \in 1..L
<1> DEFINE q == (L + n - s) \div n
           last == n * q
           before == n * (k - 1)
<1>1. L + n - s \in Nat
  OBVIOUS
<1>2. q \in Nat /\ last <= L + n - s
  BY <1>1, Divided
<1>3. k \in 1..q
  OBVIOUS
<1> HIDE DEF q
<1>4. last \in Nat
  BY <1>2
<1>5. before <= last - n /\ before \in Nat
  BY <1>2, <1>3, Factor
<1> HIDE DEF last, before
<1>6. before + s \in 1..L
  BY <1>2, <1>4, <1>5
<1>7. QED
  BY <1>6 DEF before

\* Every n-th entry of a sequence, from entry s on.
LEMMA EveryNth ==
    ASSUME NEW S, NEW l \in Seq(S), NEW n \in Nat \ {0}, NEW s \in 1..n
    PROVE  [k \in 1..((Len(l) + n - s) \div n) |-> l[n * (k - 1) + s]] \in Seq(S)
<1> DEFINE L == Len(l)
           q == (L + n - s) \div n
<1>1. L \in Nat /\ \A i \in 1..L : l[i] \in S
  OBVIOUS
<1> HIDE DEF L
<1>2. L + n - s \in Nat
  BY <1>1
<1>3. q \in Nat
  BY <1>2, Divided
<1>4. ASSUME NEW k \in 1..q PROVE l[n * (k - 1) + s] \in S
  <2>1. n * (k - 1) + s \in 1..L
    BY <1>1, ShardIndex
  <2>2. QED
    BY <1>1, <2>1
<1> HIDE DEF q
<1>5. [k \in 1..q |-> l[n * (k - 1) + s]] \in Seq(S)
  BY <1>3, <1>4
<1>6. QED
  BY <1>5 DEF q, L

Matcher == UNION {{l[i] : i \in DOMAIN l} : l \in MatcherLists}

\* The shards hold matchers of the configuration, each at a place it has there.
LEMMA ShardTypes ==
    ASSUME NEW l \in MatcherLists, NEW n \in WorkerNums
    PROVE  Forwarder!initShardedConfigs(l, n) \in Seq(Seq(Matcher))
<1>1. n \in Nat /\ l \in Seq({l[i] : i \in DOMAIN l})
  BY WorkersAssumption
<1>2. l \in Seq(Matcher) /\ Len(l) \in Nat /\ \A i \in 1..Len(l) : l[i] \in Matcher
  <2>1. {l[i] : i \in DOMAIN l} \subseteq Matcher
    BY DEF Matcher
  <2>2. QED
    BY <1>1, <2>1
<1>3. CASE n <= 1
  BY <1>2, <1>3 DEF Forwarder!initShardedConfigs, Forwarder!splitMatchersIntoShards
<1>4. CASE ~(n <= 1)
  <2> DEFINE shard(s) == [k \in 1..((Len(l) + n - s) \div n) |-> l[n * (k - 1) + s]]
  <2>1. ASSUME NEW s \in 1..n PROVE shard(s) \in Seq(Matcher)
    <3>1. n \in Nat \ {0}
      BY <1>1, <1>4
    <3>2. QED
      BY <1>2, <3>1, EveryNth
  <2>2. Forwarder!initShardedConfigs(l, n) = <<>>
        \/ Forwarder!initShardedConfigs(l, n) = [s \in 1..n |-> shard(s)]
    BY <1>4 DEF Forwarder!initShardedConfigs, Forwarder!splitMatchersIntoShards
  <2> HIDE DEF shard
  <2>3. [s \in 1..n |-> shard(s)] \in Seq(Seq(Matcher))
    BY <1>1, <2>1
  <2>4. <<>> \in Seq(Seq(Matcher))
    OBVIOUS
  <2>5. QED
    BY <2>2, <2>3, <2>4
<1>5. QED
  BY <1>3, <1>4

\* Of the batches to write, one is left.
RoundInv == IF round = "write" THEN accepted < batches ELSE accepted = 0

LEMMA ForwardBounds == MaxBatches \in Nat /\ MaxAttempts \in Nat
  BY BoundsAssumption

LEMMA TokenAges ==
    ASSUME NEW t \in Nat, NEW r \in Nat, NEW n \in 0..MaxForwardFaults, t + r <= LastRead + n
    PROVE  t \in 0..Life /\ r \in 0..Life
  BY ForwarderAssumption DEF LastRead, Forwarder!Remaining, Forwarder!ReadBackoff

LEMMA ForwarderTypesStart ==
    ASSUME TokenInv, Forwarder!ForwarderInit
    PROVE  Forwarder!ForwarderTypeOK /\ RoundInv
<1>1. shards \in Seq(Seq(Matcher)) /\ me \in 0..Len(shards)
  BY ShardTypes DEF Forwarder!ForwarderInit, Forwarder!RunWorkers
<1>2. ruleCount \in RecordingRules \cup {0}
  BY DEF Forwarder!ForwarderInit, Forwarder!RunWorkers
<1>3. token \in 0..Life /\ file \in 0..Life /\ renewIn \in 0..Life
  BY TokenAges, ForwarderAssumption DEF TokenInv, Forwarder!ReadBackoff
<1>4. round \in {"idle", "federate"}
  BY DEF Forwarder!ForwarderInit, Forwarder!RunWorkers
<1>5. QED
  BY <1>1, <1>2, <1>3, <1>4, ForwardBounds
     DEF Forwarder!ForwarderInit, Forwarder!ForwarderTypeOK, Matcher, RoundInv, TokenInv

LEMMA RoundEnds ==
    ASSUME NEW reason \in {"sent", "conflict", "nothing", "failed"}, failures \in 0..2,
           reported \in {"none", "sent", "conflict", "nothing", "failed"}, Forwarder!Ends(reason)
    PROVE  /\ round' = "idle" /\ batches' = 0 /\ accepted' = 0 /\ attempts' = 0
           /\ failures' \in 0..2
           /\ reported' \in {"none", "sent", "conflict", "nothing", "failed"}
  BY DEF Forwarder!Ends, Forwarder!updateStatus

LEMMA ForwarderTypesStay ==
    ASSUME TokenInv, TokenInv', Forwarder!ForwarderTypeOK, RoundInv,
           [Forwarder!ForwarderNext]_forwarderVars
    PROVE  Forwarder!ForwarderTypeOK' /\ RoundInv'
<1> DEFINE Reports == {"none", "sent", "conflict", "nothing", "failed"}
           Kept == UNCHANGED <<shards, me, ruleCount>>
           Going == /\ batches' \in 0..MaxBatches /\ accepted' \in 0..MaxBatches
                    /\ attempts' \in 0..MaxAttempts /\ failures' \in 0..2 /\ reported' \in Reports
                    /\ round' \in {"idle", "federate", "record", "write"}
                    /\ RoundInv'
<1>1. token' \in 0..Life /\ file' \in 0..Life /\ renewIn' \in 0..Life
      /\ forwardFaults' \in 0..MaxForwardFaults
  <2>1. /\ token' \in Nat /\ file' \in Nat /\ renewIn' \in Nat /\ file' <= RenewedBy
        /\ forwardFaults' \in 0..MaxForwardFaults
        /\ token' + renewIn' <= LastRead + forwardFaults'
    BY DEF TokenInv
  <2>2. QED
    BY <2>1, TokenAges, ForwarderAssumption DEF Forwarder!ReadBackoff
<1>2. Kept
  BY DEF Forwarder!ForwarderNext, forwarderVars, Forwarder!Tick, Forwarder!Kubelet,
         Forwarder!autoRenew, Forwarder!Round, Forwarder!getFederateMetrics,
         Forwarder!getRecordingMetrics, Forwarder!RemoteWrite
<1>3. /\ failures \in 0..2 /\ reported \in Reports /\ batches \in 0..MaxBatches
      /\ accepted \in 0..MaxBatches /\ attempts \in 0..MaxAttempts
      /\ round \in {"idle", "federate", "record", "write"}
  BY DEF Forwarder!ForwarderTypeOK
<1>4. Going
  <2>4. ASSUME NEW reason \in {"sent", "conflict", "nothing", "failed"}, Forwarder!Ends(reason)
        PROVE  Going
    BY <1>3, <2>4, RoundEnds, ForwardBounds DEF RoundInv
  <2>5. CASE UNCHANGED <<round, batches, accepted, attempts, failures, reported>>
    BY <1>3, <2>5 DEF RoundInv
  <2>6. CASE Forwarder!Round
    BY <1>3, <2>6 DEF Forwarder!Round, RoundInv
  <2>7. CASE Forwarder!getFederateMetrics
    <3>1. CASE round' = "record" /\ UNCHANGED <<accepted, attempts, failures, reported>>
      <4>1. round = "federate" /\ (UNCHANGED batches \/ Forwarder!Retrieve)
        BY <2>7, <3>1 DEF Forwarder!getFederateMetrics, Forwarder!Ends
      <4>2. accepted' = 0 /\ batches' \in 0..MaxBatches
        BY <1>3, <3>1, <4>1 DEF Forwarder!Retrieve, RoundInv
      <4>3. QED
        BY <1>3, <3>1, <4>2, ForwardBounds DEF RoundInv
    <3>2. QED
      BY <2>4, <2>7, <3>1 DEF Forwarder!getFederateMetrics
  <2>8. CASE Forwarder!getRecordingMetrics
    <3>1. CASE Forwarder!Ends("nothing") \/ Forwarder!Ends("failed")
      BY <2>4, <3>1
    <3>2. ASSUME NEW n \in Forwarder!RetrieveRecordingMetrics, n # 0, round' = "write",
                 batches' = n, UNCHANGED <<accepted, attempts, failures, reported>>
          PROVE  Going
      <4>1. n \in batches..MaxBatches
        BY <1>3, ForwardBounds DEF Forwarder!RetrieveRecordingMetrics
      <4>2. accepted = 0
        BY <2>8 DEF Forwarder!getRecordingMetrics, RoundInv
      <4>3. QED
        BY <1>3, <3>2, <4>1, <4>2, ForwardBounds DEF RoundInv
    <3>3. QED
      BY <2>8, <3>1, <3>2 DEF Forwarder!getRecordingMetrics
  <2>9. CASE Forwarder!RemoteWrite
    <3>1. PICK answer \in {"ok", "transient", "permanent", "conflict"} :
                 Forwarder!sendRequest(answer)
      BY <2>9 DEF Forwarder!RemoteWrite
    <3>2. round = "write" /\ accepted < batches
      BY <2>9 DEF Forwarder!RemoteWrite, RoundInv
    <3>3. CASE \E reason \in {"sent", "conflict", "nothing", "failed"} : Forwarder!Ends(reason)
      BY <2>4, <3>3
    <3>4. CASE ~\E reason \in {"sent", "conflict", "nothing", "failed"} : Forwarder!Ends(reason)
      <4>1. \/ accepted + 1 # batches /\ accepted' = accepted + 1 /\ attempts' = 0
            \/ attempts + 1 < MaxAttempts /\ attempts' = attempts + 1 /\ accepted' = accepted
        BY <3>1, <3>4 DEF Forwarder!sendRequest
      <4>2. UNCHANGED <<round, batches, failures, reported>>
        BY <3>1, <3>4 DEF Forwarder!sendRequest
      <4>3. QED
        BY <1>3, <3>2, <4>1, <4>2, ForwardBounds DEF RoundInv
    <3>5. QED
      BY <3>3, <3>4
  <2>10. QED
    BY <2>5, <2>6, <2>7, <2>8, <2>9
       DEF Forwarder!ForwarderNext, forwarderVars, Forwarder!Tick, Forwarder!Kubelet,
           Forwarder!autoRenew
<1>5. QED
  BY <1>1, <1>2, <1>4 DEF Forwarder!ForwarderTypeOK

LEMMA RuleBounds == MaxFlips \in Nat /\ MaxRuleFaults \in Nat
  BY BoundsAssumption

Workers == [there : BOOLEAN, live : BOOLEAN,
            matches : SUBSET UNION {renderMatches[h] : h \in Series}]

LEMMA NewWorker ==
    ASSUME NEW t \in BOOLEAN, NEW l \in BOOLEAN, NEW f \in SUBSET Series
    PROVE  [there |-> t, live |-> l, matches |-> Rules!getMatches(f)] \in Workers
  BY DEF Workers, Rules!getMatches

LEMMA EvaluateTypes ==
    ASSUME TimesInv, TimesInv', worker \in Workers, lingering \in BOOLEAN, startFailed \in BOOLEAN,
           NEW failed, NEW garbled, NEW fails \in BOOLEAN, Rules!evaluate(failed, garbled, fails)
    PROVE  worker' \in Workers /\ lingering' \in BOOLEAN /\ startFailed' \in BOOLEAN
<1>1. CASE UNCHANGED <<worker, lingering, startFailed>>
  BY <1>1
<1>2. CASE Rules!stopWorker
  <2>1. worker' = [there |-> FALSE, live |-> FALSE, matches |-> Rules!getMatches({})]
    BY <1>2 DEF Rules!stopWorker, Rules!NoWorker, Rules!getMatches
  <2>2. lingering' \in BOOLEAN /\ startFailed' \in BOOLEAN
    BY <1>2 DEF Rules!stopWorker, Workers
  <2>3. QED
    BY <2>1, <2>2, NewWorker
<1>3. CASE startFailed' = FALSE /\ UNCHANGED <<worker, lingering>>
  BY <1>3
<1>4. CASE Rules!startWorker(Rules!getMatches(firing'), fails)
  <2>1. /\ worker = [there |-> worker.there, live |-> worker.live, matches |-> worker.matches]
        /\ worker.there \in BOOLEAN /\ worker.live \in BOOLEAN
    BY DEF Workers
  <2>2. \/ worker' = worker
        \/ worker' = [there |-> worker.there, live |-> worker.live,
                      matches |-> Rules!getMatches(firing')]
        \/ worker' = [there |-> TRUE, live |-> TRUE, matches |-> Rules!getMatches(firing')]
    BY <1>4, <2>1 DEF Rules!startWorker
  <2>3. firing' \in SUBSET Series
    BY DEF TimesInv
  <2>4. worker' \in Workers
    BY <2>1, <2>2, <2>3, NewWorker
  <2>5. startFailed' \in BOOLEAN /\ lingering' \in BOOLEAN
    BY <1>4 DEF Rules!startWorker
  <2>6. QED
    BY <2>4, <2>5
<1>5. QED
  BY <1>1, <1>2, <1>3, <1>4, EvaluationEnds

LEMMA RulesTypesStart ==
    ASSUME TimesInv, Rules!RulesInit
    PROVE  Rules!RulesTypeOK
<1>1. worker \in Workers
  BY DEF Rules!RulesInit, Rules!NoWorker, Workers
<1>2. truth = {} /\ flips = 0 /\ ruleFaults = 0
  BY DEF Rules!RulesInit
<1>3. lingering \in BOOLEAN /\ startFailed \in BOOLEAN
  BY DEF Rules!RulesInit
<1>4. QED
  BY <1>1, <1>2, <1>3, RuleBounds DEF Rules!RulesTypeOK, TimesInv, Workers, Ages

LEMMA RulesTypesStay ==
    ASSUME TimesInv, TimesInv', Rules!RulesTypeOK, [Rules!RulesNext]_ruleVars
    PROVE  Rules!RulesTypeOK'
<1>1. worker \in Workers /\ lingering \in BOOLEAN /\ startFailed \in BOOLEAN
  BY DEF Rules!RulesTypeOK, Workers
<1>2. truth' \subseteq Series /\ flips' \in 0..MaxFlips /\ ruleFaults' \in 0..MaxRuleFaults
  <2>1. truth \subseteq Series /\ flips \in 0..MaxFlips /\ ruleFaults \in 0..MaxRuleFaults
    BY DEF Rules!RulesTypeOK
  <2>2. CASE UNCHANGED <<truth, flips, ruleFaults>>
    BY <2>1, <2>2
  <2>3. CASE Rules!EvaluateBadly
    BY <2>1, <2>3, RuleBounds DEF Rules!EvaluateBadly
  <2>4. CASE \E h \in Series : Rules!Flip(h)
    BY <2>1, <2>4, RuleBounds DEF Rules!Flip
  <2>5. QED
    BY <2>2, <2>3, <2>4 DEF Rules!RulesNext, Rules!Evaluate, Rules!cancel, ruleVars
<1>3. worker' \in Workers /\ lingering' \in BOOLEAN /\ startFailed' \in BOOLEAN
  <2>1. CASE Rules!Evaluate
    BY <1>1, <2>1, EvaluateTypes DEF Rules!Evaluate
  <2>2. CASE Rules!EvaluateBadly
    BY <1>1, <2>2, EvaluateTypes DEF Rules!EvaluateBadly
  <2>3. CASE Rules!cancel
    BY <1>1, <2>3 DEF Rules!cancel, Workers
  <2>4. CASE UNCHANGED <<worker, lingering, startFailed>>
    BY <1>1, <2>4
  <2>5. QED
    BY <2>1, <2>2, <2>3, <2>4 DEF Rules!RulesNext, Rules!Flip, ruleVars
<1>4. QED
  BY <1>2, <1>3 DEF Rules!RulesTypeOK, TimesInv, Workers, Ages

=============================================================================
