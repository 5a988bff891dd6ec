---------------------------- MODULE CollectRules ----------------------------
(***************************************************************************)
(* collectors/metrics/pkg/collectrule: rules that add matchers while their *)
(* expression holds.  Every interval the rules are evaluated; what they    *)
(* return pends, fires and, when it is gone for long enough, is resolved.  *)
(* The matchers of all that fires are forwarded by a worker of its own,    *)
(* which is started, reconfigured and cancelled by the evaluation.         *)
(***************************************************************************)
EXTENDS Naturals

CONSTANTS
    Series,        \* the series (label sets) the rules can return
    RuleOf,        \* the rule of each
    Duration,      \* of each rule: "for", in evaluation intervals
    Expire,        \* expireDuration, in evaluation intervals
    renderMatches, \* the matchers each series enables
    MaxFlips,      \* bound: changes of what the expressions return
    MaxRuleFaults  \* bound: failed queries and failed starts of the worker

RuleNames == {RuleOf[h] : h \in Series}
MaxAge == 1 + CHOOSE n \in {Expire} \cup {Duration[r] : r \in RuleNames} :
                \A m \in {Expire} \cup {Duration[r] : r \in RuleNames} : m <= n

VARIABLES
    truth,     \* series the expressions return now
    pending,   \* pendingRules: 0, or one more than the intervals since triggerTime
    firing,    \* firingRules and, with the same keys, enabledMatches
    resolved,  \* 0, or one more than the intervals since resolveTime
    worker,    \* forwardWorker: there; its context is alive; its matchers
    lingering, \* the goroutine of a cancelled worker has not returned yet
    held,      \* history: evaluations since the series has been returned
    gone,      \* history: evaluations since it has not
    startFailed,    \* history: the last start or reconfiguration failed
    flips, ruleFaults

ruleVars == <<truth, pending, firing, resolved, worker, lingering, held, gone, startFailed, flips,
              ruleFaults>>

NoWorker == [there |-> FALSE, live |-> FALSE, matches |-> {}]

RulesTypeOK ==
    /\ truth \subseteq Series /\ firing \subseteq Series
    /\ {pending, resolved, held, gone} \subseteq [Series -> 0..MaxAge]
    /\ worker \in [there : BOOLEAN, live : BOOLEAN,
                   matches : SUBSET UNION {renderMatches[h] : h \in Series}]
    /\ {lingering, startFailed} \subseteq BOOLEAN
    /\ flips \in 0..MaxFlips /\ ruleFaults \in 0..MaxRuleFaults

RulesInit ==
    /\ truth = {} /\ firing = {}
    /\ pending = [h \in Series |-> 0] /\ resolved = pending /\ held = pending /\ gone = pending
    /\ worker = NoWorker /\ lingering = FALSE /\ startFailed = FALSE
    /\ flips = 0 /\ ruleFaults = 0

Flip(h) ==
    /\ flips < MaxFlips /\ flips' = flips + 1
    /\ truth' = IF h \in truth THEN truth \ {h} ELSE truth \cup {h}
    /\ UNCHANGED <<pending, firing, resolved, worker, lingering, held, gone, startFailed, ruleFaults>>

-----------------------------------------------------------------------------
Older(n) == IF n = 0 \/ n = MaxAge THEN n ELSE n + 1
Counted(n) == IF n = MaxAge THEN n ELSE n + 1

\* time.Since(since) >= d, once the interval has passed
Since(n, d) == Older(n) > d

\* evaluateRule.  heard: the series whose rule was evaluated; back: the ones it
\* returned
Fires(h, heard, back) ==
    /\ h \in heard \cap back /\ h \notin firing
    /\ IF pending[h] = 0 THEN Duration[RuleOf[h]] = 0 ELSE Since(pending[h], Duration[RuleOf[h]])

Expires(h, heard, back) ==
    /\ h \in (heard \cap firing) \ back
    /\ resolved[h] # 0 /\ Since(resolved[h], Expire)

PendsOn(h, heard, back) ==
    IF h \in firing \/ Fires(h, heard, back) THEN 0
    ELSE IF h \in back /\ pending[h] = 0 THEN 1 ELSE Older(pending[h])

Pends(h, heard, back) ==
    CASE h \notin heard -> Older(pending[h])
      [] h \in heard /\ (h \notin back \/ h \in firing \/ Fires(h, heard, back)) -> 0
      [] OTHER -> IF pending[h] = 0 THEN 1 ELSE Older(pending[h])

Resolves(h, heard, back) ==
    CASE h \notin heard -> Older(resolved[h])
      [] h \in heard /\ (h \in back \/ h \notin firing \/ Expires(h, heard, back)) -> 0
      [] OTHER -> IF resolved[h] = 0 THEN 1 ELSE Older(resolved[h])

\* The matchers of everything that fires
getMatches(f) == UNION {renderMatches[h] : h \in f}

startWorkerOnce(matches, fails) ==
    /\ worker' = IF fails \/ worker.there THEN worker
                 ELSE [there |-> TRUE, live |-> TRUE, matches |-> matches]
    /\ startFailed' = fails
    /\ UNCHANGED lingering

\* startWorker, or the end of the worker: isUpdate.  When the configuration
\* cannot be used, no worker is started, and one that runs keeps its matchers
startWorker(matches, fails) ==
    /\ worker' = CASE fails -> worker
                   [] ~fails /\ worker.there -> [worker EXCEPT !.matches = matches]
                   [] OTHER -> [there |-> TRUE, live |-> TRUE, matches |-> matches]
    /\ startFailed' = fails
    /\ UNCHANGED lingering

stopWorker ==
    /\ worker' = NoWorker /\ startFailed' = FALSE
    /\ lingering' = (lingering \/ worker.live)

\* evaluate.  failed: rules whose query fails; garbled: rules whose answer cannot
\* be decoded, which counts as an answer without any series; fails: startWorker
\* fails.  The interval is longer than a cancelled worker takes to return
evaluate(failed, garbled, fails) ==
    LET heard == {h \in Series : RuleOf[h] \notin failed}
        back == {h \in heard \cap truth : RuleOf[h] \notin garbled}
        fired == {h \in Series : Fires(h, heard, back)}
        expired == {h \in Series : Expires(h, heard, back)}
    IN  /\ ~lingering
        /\ firing' = (firing \cup fired) \ expired
        /\ pending' = [h \in Series |-> Pends(h, heard, back)]
        /\ resolved' = [h \in Series |-> Resolves(h, heard, back)]
        /\ held' = [h \in Series |-> IF h \notin heard THEN Older(held[h])
                                     ELSE IF h \in back THEN Counted(held[h]) ELSE 0]
        /\ gone' = [h \in Series |-> IF h \notin heard THEN Older(gone[h])
                                     ELSE IF h \in back THEN 0 ELSE Counted(gone[h])]
        /\ CASE fired \cup expired = {} -> ~fails /\ UNCHANGED <<worker, lingering, startFailed>>
             [] fired \cup expired # {} /\ getMatches(firing') = {} ->
                  /\ ~fails
                  /\ IF worker.there THEN stopWorker
                     ELSE startFailed' = FALSE /\ UNCHANGED <<worker, lingering>>
             [] OTHER -> startWorker(getMatches(firing'), fails)

Evaluate ==
    /\ evaluate({}, {}, FALSE)
    /\ UNCHANGED <<truth, flips, ruleFaults>>

EvaluateBadly ==
    /\ ruleFaults < MaxRuleFaults /\ ruleFaults' = ruleFaults + 1
    /\ \/ \E r \in RuleNames : evaluate({r}, {}, FALSE) \/ evaluate({}, {r}, FALSE)
       \/ evaluate({}, {}, TRUE)
    /\ UNCHANGED <<truth, flips>>

\* Run of the cancelled worker returns; its goroutine calls the package variable
\* cancel, whatever worker that belongs to by now
cancel ==
    /\ lingering /\ lingering' = FALSE
    /\ worker' = [worker EXCEPT !.live = FALSE]
    /\ UNCHANGED <<truth, pending, firing, resolved, held, gone, startFailed, flips, ruleFaults>>

-----------------------------------------------------------------------------
RulesNext ==
    \/ Evaluate \/ EvaluateBadly \/ cancel
    \/ \E h \in Series : Flip(h)

RulesSpec == RulesInit /\ [][RulesNext]_ruleVars

-----------------------------------------------------------------------------
\* A series is collected only after every answer during its duration had it, and
\* it is dropped only after no answer during the expiry had it: a series that
\* comes and goes, and a second trigger before the expiry, start from the
\* beginning (a rule that could not be evaluated gives no answer)
InTime ==
    \A h \in Series :
        /\ h \in firing' \ firing => held'[h] > Duration[RuleOf[h]]
        /\ h \in firing \ firing' => gone'[h] > Expire
NeverTooEarly == [][InTime]_ruleVars

\* The worker forwards the matchers of what fires, no more and no less, also
\* when two series enable the same matcher: the exception is a worker whose
\* configuration failed (it is not tried again before the next change)
ForwardsWhatFires ==
    ~startFailed => /\ worker.there = (getMatches(firing) # {})
                    /\ worker.there => worker.live /\ worker.matches = getMatches(firing)

=============================================================================
