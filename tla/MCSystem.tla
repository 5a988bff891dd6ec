------------------------------ MODULE MCSystem ------------------------------
(***************************************************************************)
(* Small instances of System: the values of the constants that a .cfg      *)
(* cannot hold.                                                            *)
(***************************************************************************)
EXTENDS System

-----------------------------------------------------------------------------
(* Values that all runs share                                              *)

\* McoStatus
TwoFailingOperands ==
    {[storage |-> s, deployments |-> "", statefulSets |-> t,
      crds |-> IF s = "" THEN {"crd"} ELSE {}] :
        s \in {"", "ObjectStorageConfInvalid"}, t \in {"", "StatefulSetNotReady"}}

\* DashboardLoader: two ConfigMaps that share a folder and a dashboard
DashContent(good, broken, folder, home) ==
    [desired |-> TRUE, good |-> good, broken |-> broken, folder |-> folder, home |-> home]
SharedContents ==
    [a |-> {DashContent({"u1"}, {}, "f", {"u1"})},
     b |-> {DashContent({"u1", "u2"}, {}, "f", {}), DashContent({"u1"}, {"u2"}, "general", {})}]

\* CollectRules: two series of a rule without a duration that share a matcher, one
\* of a rule with
TwoRules == [h1 |-> "r0", h2 |-> "r0", h3 |-> "r2"]
TwoDurations == [r0 |-> 0, r2 |-> 2]
SharedMatchers == [h1 |-> {"m1", "m"}, h2 |-> {"m"}, h3 |-> {"m3"}]

\* MetricsForwarder
ThreeMatchers == {<<"m1", "m2", "m3">>}

\* LabelAllowlist
TwoUserLists == {[labels |-> {}, ignored |-> {}], [labels |-> {}, ignored |-> {"l"}]}

\* QueryProxy: nothing, a cluster, every cluster, and both with different namespaces
FourGrants == {[c \in {} |-> {}], [c \in {"c1"} |-> {"ns"}], [c \in {"*"} |-> {"ns"}],
               [c \in {"*", "c1"} |-> IF c = "*" THEN {"*"} ELSE {"ns"}]}

\* HubOperands: two specs that differ in everything the operands depend on
ManyShards == [size |-> "default", shards |-> 2, timeout |-> "300s", endpoints |-> "a"]
OneShard == [size |-> "large", shards |-> 1, timeout |-> "60s", endpoints |-> "b"]
BothSpecs == {ManyShards, OneShard}
ManyShardsFirst == {ManyShards}

-----------------------------------------------------------------------------
(* Inputs of the runs                                                      *)

McoSpec(mcoa, delegated, on, ns) ==
    [paused |-> FALSE, mcoa |-> mcoa, delegated |-> delegated,
     on |-> [k \in {"namespace"} |-> on], ns |-> [k \in {"namespace"} |-> ns]]

\* From the defaults to MCOA and a binding elsewhere, and back
MovingSpecs == {McoSpec(FALSE, FALSE, "unset", "n1"), McoSpec(TRUE, FALSE, "on", "n2")}

\* MCOA, the binding and the delegation switched
SwitchedSpecs == {McoSpec(TRUE, FALSE, "on", "n1"), McoSpec(TRUE, FALSE, "on", "n2"),
                  McoSpec(FALSE, TRUE, "on", "n2")}

\* Delegation in another namespace than the default
DelegatedSpecs == {McoSpec(FALSE, FALSE, "on", "n2"), McoSpec(FALSE, TRUE, "on", "n2")}

AllResourceSpecs ==
    {[paused |-> p, metrics |-> m, mcoa |-> ~m] : p \in BOOLEAN, m \in BOOLEAN}

MonitoringConfig(data, prom, ams, own) ==
    [there |-> TRUE, data |-> data, prom |-> prom, label |-> FALSE, name |-> FALSE, ams |-> ams,
     own |-> own]

\* A user's setting, and a YAML that does not parse
UserConfigs == {MonitoringConfig("yaml", FALSE, <<>>, TRUE),
                MonitoringConfig("bad", FALSE, <<>>, FALSE)}

\* What an earlier version of the operator has left, beside a user's stanza
OldConfigs ==
    {MonitoringConfig("yaml", TRUE, <<<<"hub", "router">>, <<"user", "own">>>>, FALSE)}

\* ... or beside nothing
LegacyConfigs == {MonitoringConfig("yaml", TRUE, <<<<"hub", "router">>>>, FALSE)}

=============================================================================
