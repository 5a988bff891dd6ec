----------------------------- MODULE CmoConfig -----------------------------
(***************************************************************************)
(* Alert forwarding on a managed cluster: the ConfigMaps                   *)
(* cluster-monitoring-config ("cmo") and user-workload-monitoring-config   *)
(* ("uwl") belong to the cluster's user, and each endpoint operator puts   *)
(* its hub's stanza into them and takes it out again.  A cluster can have  *)
(* several: a hub is itself managed by a global hub, and an operator is    *)
(* either the legacy one (ocp_monitoring_config.go) or the MCOA agent      *)
(* (controllers/mcoa).  Operators read their informers' copies, and a      *)
(* write based on an old copy is refused.                                  *)
(***************************************************************************)
EXTENDS Naturals, Sequences, FiniteSets

CONSTANTS
    Hubs,         \* the operators, by hub
    Agents,       \* those that run as MCOA agents
    UserMaps,     \* what the user may write into cluster-monitoring-config
    OldMaps,      \* what earlier versions may have left in it
    MaxHubChanges,\* bound: changes of what the hubs ask for
    MaxCmoEdits,  \* bound: edits of the user
    MaxCmoFaults  \* bound: restarts and failed calls

Keys == {"cmo", "uwl"}

\* data: "nil" no data, "other" no config.yaml, "bad" a config.yaml that does not
\* parse.  prom: a prometheus section with our labels and alertmanager stanzas;
\* own: what else the user has set (for "cmo": enableUserWorkload)
NoMap == [there |-> FALSE, data |-> "nil", prom |-> FALSE, label |-> FALSE, name |-> FALSE,
          ams |-> <<>>, own |-> FALSE]

VARIABLES
    actual,       \* the ConfigMaps
    copy,         \* each operator's cached copies
    behind,       \* the ConfigMaps whose changes its informers have not delivered yet
    want,         \* what each hub asks for: "off", "on", "platform" (no user workload alerts)
    todo,         \* each operator's work queue
    at,           \* where the legacy operator's Reconcile is
    plan,         \* the hub-info it has read
    flag,         \* clusterMonitoringConfigReverted: "unread", "yes", "no"
    marker,       \* the ConfigMap cluster-monitoring-reverted exists
    deaf,         \* ghost: the ConfigMaps that were missing when the agent started
    cut,          \* ghost: the marker outlived an enabling, or a step saw an old copy
    hubChanges, cmoEdits, cmoFaults

cmoVars == <<actual, copy, behind, want, todo, at, plan, flag, marker, deaf, cut, hubChanges, cmoEdits,
             cmoFaults>>

Stanza(h) == <<h, "mtls">>
RouterStanza(h) == <<h, "router">>
UserStanza == <<"user", "own">>
Stanzas == {Stanza(h) : h \in Hubs} \cup {RouterStanza(h) : h \in Hubs} \cup {UserStanza}

MapType == [there : BOOLEAN, data : {"nil", "other", "bad", "yaml"}, prom : BOOLEAN,
            label : BOOLEAN, name : BOOLEAN, ams : Seq(Stanzas), own : BOOLEAN]

CmoTypeOK ==
    /\ actual \in [Keys -> MapType] /\ copy \in [Hubs -> [Keys -> MapType]]
    /\ want \in [Hubs -> {"off", "on", "platform"}] /\ plan \in [Hubs -> {"off", "on", "platform"}]
    /\ todo \in [Hubs -> SUBSET Keys] /\ deaf \in [Hubs -> SUBSET Keys]
    /\ behind \in [Hubs -> SUBSET Keys]
    /\ at \in [Hubs -> {"idle", "secrets", "revert", "revertUwl", "mark", "config", "unset", "uwl"}]
    /\ flag \in [Hubs -> {"unread", "yes", "no"}] /\ marker \in [Hubs -> BOOLEAN]
    /\ cut \in [Hubs -> BOOLEAN]
    /\ hubChanges \in 0..MaxHubChanges /\ cmoEdits \in 0..MaxCmoEdits
    /\ cmoFaults \in 0..MaxCmoFaults

-----------------------------------------------------------------------------
(* What the functions make of a ConfigMap                                  *)

\* The stanza names this hub's CA secret: the one of today or the router CA of before
IsManaged(s, h) == s[1] = h

HasClusterMonitoringConfigData(m) == m.there /\ m.data \in {"yaml", "bad"}

\* The elements of a list at some of its positions, in their order
Nth(positions, j) == CHOOSE i \in positions : Cardinality({k \in positions : k <= i}) = j
KeptAt(s, positions) == [j \in 1..Cardinality(positions) |-> s[Nth(positions, j)]]

UnmanagedByMtls(ams, h) == KeptAt(ams, {i \in DOMAIN ams : ams[i] # Stanza(h)})

\* The stanzas that are not this hub's
Unmanaged(ams, h) == KeptAt(ams, {i \in DOMAIN ams : ~IsManaged(ams[i], h)})

\* What is there but cannot be used: a config.yaml that does not parse, and a
\* ConfigMap without data, into which cluster-monitoring-config's writer assigns
Unusable(k, m) == m.there /\ (m.data = "bad" \/ (k = "cmo" /\ m.data = "nil"))

\* CreateOrUpdateCMOConfig: an agent sets the cluster's name, the legacy operator removes it
CreateOrUpdateCMOConfig(m, h) ==
    [m EXCEPT !.there = TRUE, !.data = "yaml", !.prom = TRUE, !.label = TRUE,
              !.name = h \in Agents,
              !.ams = Append(Unmanaged(m.ams, h), Stanza(h))]

CreateOrUpdateUserWorkloadMonitoringConfig(m, h) ==
    [m EXCEPT !.there = TRUE, !.data = "yaml", !.prom = TRUE,
              !.ams = Append(Unmanaged(m.ams, h), Stanza(h))]

RevertAllStanzas(m, h) ==
    IF ~HasClusterMonitoringConfigData(m) \/ ~m.prom THEN m
    ELSE LET name == m.name /\ h \notin Agents
         IN  [m EXCEPT !.label = FALSE, !.name = name, !.ams = <<>>, !.prom = name]

\* The section goes when the last stanza goes with it and nothing else is in it
RevertClusterMonitoringConfig(m, h) ==
    IF ~HasClusterMonitoringConfigData(m) \/ ~m.prom THEN m
    ELSE LET ams  == Unmanaged(m.ams, h)
             name == m.name /\ h \notin Agents
         IN  [m EXCEPT !.label = FALSE, !.name = name, !.ams = ams,
                       !.prom = m.ams = <<>> \/ ams # <<>> \/ name]

RevertUserWorkloadMonitoringConfig(m, h) ==
    IF ~HasClusterMonitoringConfigData(m) \/ ~m.prom THEN m
    ELSE LET ams == Unmanaged(m.ams, h)
         IN  [m EXCEPT !.ams = ams, !.prom = m.ams = <<>> \/ ams # <<>>]

-----------------------------------------------------------------------------
(* Writes                                                                  *)

\* Every operator watches both ConfigMaps
Announce == behind' = [h \in Hubs |-> behind[h] \cup {k \in Keys : actual'[k] # actual[k]}]

\* What the operator makes of its copy
Configured(k, h) == IF k = "cmo" THEN CreateOrUpdateCMOConfig(copy[h][k], h)
                    ELSE CreateOrUpdateUserWorkloadMonitoringConfig(copy[h][k], h)

Reverted(k, h) == IF k = "cmo" THEN RevertClusterMonitoringConfig(copy[h][k], h)
                  ELSE RevertUserWorkloadMonitoringConfig(copy[h][k], h)

\* Nothing is left in it
EmptyConfig(m) == m.there /\ ~m.prom /\ ~m.own

\* The copy does not parse, or it is old and an update is called for
ConfigureRefused(k, h) ==
    Unusable(k, copy[h][k]) \/ (Configured(k, h) # copy[h][k] /\ k \in behind[h])

Configure(k, h) ==
    /\ ~ConfigureRefused(k, h)
    /\ actual' = IF Configured(k, h) = copy[h][k] THEN actual
                 ELSE [actual EXCEPT ![k] = Configured(k, h)]

RevertRefused(k, h) ==
    \/ copy[h][k].there /\ copy[h][k].data = "bad"
    \/ /\ Reverted(k, h) # copy[h][k] /\ ~EmptyConfig(Reverted(k, h))
       /\ k \in behind[h]

\* The delete of a ConfigMap in which nothing is left names no resource version
Revert(k, h) ==
    /\ ~RevertRefused(k, h)
    /\ actual' = IF Reverted(k, h) = copy[h][k] THEN actual
                 ELSE [actual EXCEPT ![k] = IF EmptyConfig(Reverted(k, h)) THEN NoMap
                                            ELSE Reverted(k, h)]

\* Before any hub has asked for alerts
CmoInit ==
    /\ \E m \in {NoMap} \cup UserMaps \cup OldMaps :
         actual = [k \in Keys |-> IF k = "cmo" THEN m ELSE NoMap]
    /\ copy = [h \in Hubs |-> actual] /\ behind = [h \in Hubs |-> {}]
    /\ want = [h \in Hubs |-> "off"] /\ plan = want
    /\ todo = [h \in Hubs |-> {k \in Keys : h \notin Agents \/ actual[k].there}]
    /\ at = [h \in Hubs |-> "idle"]
    /\ flag = [h \in Hubs |-> "unread"] /\ marker = [h \in Hubs |-> FALSE]
    /\ deaf = [h \in Hubs |-> {k \in Keys : ~actual[k].there}]
    /\ cut = [h \in Hubs |-> FALSE]
    /\ hubChanges = 0 /\ cmoEdits = 0 /\ cmoFaults = 0

-----------------------------------------------------------------------------
(* Around the operators                                                    *)

\* The hub-info secret wakes the legacy operator; the agent's flags restart it
Started(h) ==
    /\ copy' = [copy EXCEPT ![h] = actual] /\ behind' = [behind EXCEPT ![h] = {}]
    /\ todo' = [todo EXCEPT ![h] = {k \in Keys : h \notin Agents \/ actual[k].there}]
    /\ deaf' = [deaf EXCEPT ![h] = {k \in Keys : ~actual[k].there}]
    /\ at' = [at EXCEPT ![h] = "idle"] /\ flag' = [flag EXCEPT ![h] = "unread"]
    /\ cut' = [cut EXCEPT ![h] = @ \/ at[h] = "unset"]

ChangeHub(h) ==
    /\ hubChanges < MaxHubChanges /\ hubChanges' = hubChanges + 1
    /\ \E w \in {"off", "on", "platform"} \ {want[h]} : want' = [want EXCEPT ![h] = w]
    /\ IF h \in Agents THEN Started(h)
       ELSE /\ todo' = [todo EXCEPT ![h] = Keys]
            /\ UNCHANGED <<copy, behind, at, flag, deaf, cut>>
    /\ UNCHANGED <<actual, plan, marker, cmoEdits, cmoFaults>>

RestartEndpoint(h) ==
    /\ cmoFaults < MaxCmoFaults /\ cmoFaults' = cmoFaults + 1
    /\ Started(h)
    /\ UNCHANGED <<actual, want, plan, marker, hubChanges, cmoEdits>>

\* The user replaces cluster-monitoring-config, deletes it, or adds a stanza at its end
EditConfig ==
    /\ cmoEdits < MaxCmoEdits /\ cmoEdits' = cmoEdits + 1
    /\ \/ \E m \in {NoMap} \cup UserMaps :
            m # actual["cmo"] /\ actual' = [actual EXCEPT !["cmo"] = m]
       \/ /\ actual["cmo"].prom
          /\ \A i \in DOMAIN actual["cmo"].ams : actual["cmo"].ams[i] # UserStanza
          /\ actual' = [actual EXCEPT !["cmo"].ams = Append(@, UserStanza)]
    /\ Announce
    /\ UNCHANGED <<copy, want, todo, at, plan, flag, marker, deaf, cut, hubChanges, cmoFaults>>

ConfigMapEventButDelete(h, k) ==
    /\ k \in behind[h] /\ behind' = [behind EXCEPT ![h] = @ \ {k}]
    /\ copy' = [copy EXCEPT ![h][k] = actual[k]]
    /\ todo' = IF actual[k].there THEN [todo EXCEPT ![h] = @ \cup {k}] ELSE todo
    /\ deaf' = [deaf EXCEPT ![h] = @ \ {k}]
    /\ UNCHANGED <<actual, want, at, plan, flag, marker, cut, hubChanges, cmoEdits, cmoFaults>>

\* ConfigMapDataChangedPredicate: the data changed, or the ConfigMap came or went
ConfigMapEvent(h, k) ==
    /\ k \in behind[h] /\ behind' = [behind EXCEPT ![h] = @ \ {k}]
    /\ copy' = [copy EXCEPT ![h][k] = actual[k]]
    /\ todo' = [todo EXCEPT ![h] = @ \cup {k}]
    /\ deaf' = [deaf EXCEPT ![h] = @ \ {k}]
    /\ UNCHANGED <<actual, want, at, plan, flag, marker, cut, hubChanges, cmoEdits, cmoFaults>>

-----------------------------------------------------------------------------
(* The legacy operator: createOrUpdateClusterMonitoringConfig              *)

Goes(h, step) == at' = [at EXCEPT ![h] = step]

StartCmo(h) ==
    /\ h \notin Agents /\ at[h] = "idle" /\ todo[h] # {}
    /\ todo' = [todo EXCEPT ![h] = {}] /\ plan' = [plan EXCEPT ![h] = want[h]]
    /\ Goes(h, "secrets")
    /\ UNCHANGED <<actual, copy, behind, want, flag, marker, deaf, cut, hubChanges, cmoEdits, cmoFaults>>

\* Any error ends the Reconcile and queues it again
FailCmo(h) ==
    /\ Goes(h, "idle") /\ todo' = [todo EXCEPT ![h] = Keys]

\* Of initPersistedRevertState
initPersistedRevertState(h) ==
    IF flag[h] # "unread" THEN flag[h] ELSE IF marker[h] THEN "yes" ELSE "no"

\* The secrets are copied; a disabled hub is reverted once
isRevertedAlready(h) ==
    /\ at[h] = "secrets"
    /\ IF plan[h] = "off"
       THEN /\ flag' = [flag EXCEPT ![h] = initPersistedRevertState(h)]
            /\ Goes(h, IF flag'[h] = "yes" THEN "idle" ELSE "revert")
       ELSE Goes(h, "config") /\ UNCHANGED flag
    /\ UNCHANGED <<actual, copy, behind, want, todo, plan, marker, deaf, cut, hubChanges, cmoEdits, cmoFaults>>

RevertStep(h) ==
    /\ \/ /\ at[h] = "revert" /\ Revert("cmo", h) /\ Goes(h, "revertUwl")
          /\ cut' = [cut EXCEPT ![h] = @ \/ "cmo" \in behind[h]]
       \/ /\ at[h] = "revertUwl" /\ Revert("uwl", h) /\ Goes(h, "mark")
          /\ cut' = [cut EXCEPT ![h] = @ \/ "uwl" \in behind[h]]
    /\ Announce
    /\ UNCHANGED <<copy, want, todo, plan, flag, marker, deaf, hubChanges, cmoEdits, cmoFaults>>

setConfigReverted(h) ==
    /\ at[h] = "mark"
    /\ marker' = [marker EXCEPT ![h] = TRUE] /\ flag' = [flag EXCEPT ![h] = "yes"]
    /\ Goes(h, "idle")
    /\ UNCHANGED <<actual, copy, behind, want, todo, plan, deaf, cut, hubChanges, cmoEdits, cmoFaults>>

\* The marker is looked at only after a write
ConfigureStep(h) ==
    /\ \/ /\ at[h] = "config" /\ Configure("cmo", h)
          /\ Goes(h, IF actual' = actual THEN "uwl" ELSE "unset")
          /\ cut' = [cut EXCEPT ![h] = @ \/ (actual' = actual /\ "cmo" \in behind[h])]
       \/ /\ at[h] = "uwl"
          /\ ~Unusable("cmo", copy[h]["cmo"])
          /\ IF plan[h] = "on" /\ copy[h]["cmo"].own THEN Configure("uwl", h) ELSE Revert("uwl", h)
          /\ Goes(h, "idle") /\ UNCHANGED cut
    /\ Announce
    /\ UNCHANGED <<copy, want, todo, plan, flag, marker, deaf, hubChanges, cmoEdits, cmoFaults>>

unsetInMemory(h) ==
    /\ at[h] = "unset" /\ Goes(h, "uwl")
    /\ flag' = [flag EXCEPT ![h] = IF marker[h] THEN "yes" ELSE "no"]
    /\ UNCHANGED <<actual, copy, behind, want, todo, plan, marker, deaf, cut, hubChanges, cmoEdits,
                   cmoFaults>>

\* Deleting the marker can fail, which is only logged
unset(h) ==
    /\ at[h] = "unset" /\ Goes(h, "uwl")
    /\ \/ /\ marker' = [marker EXCEPT ![h] = FALSE] /\ flag' = [flag EXCEPT ![h] = "no"]
          /\ UNCHANGED <<cut, cmoFaults>>
       \/ /\ initPersistedRevertState(h) = "yes"
          /\ cmoFaults < MaxCmoFaults /\ cmoFaults' = cmoFaults + 1
          /\ flag' = [flag EXCEPT ![h] = "yes"] /\ cut' = [cut EXCEPT ![h] = TRUE]
          /\ UNCHANGED marker
    /\ UNCHANGED <<actual, copy, behind, want, todo, plan, deaf, hubChanges, cmoEdits>>

\* The step of the Reconcile is refused
StepRefused(h) ==
    \/ at[h] = "revert" /\ RevertRefused("cmo", h)
    \/ at[h] = "revertUwl" /\ RevertRefused("uwl", h)
    \/ at[h] = "config" /\ ConfigureRefused("cmo", h)
    \/ /\ at[h] = "uwl"
       /\ \/ Unusable("cmo", copy[h]["cmo"])
          \/ IF plan[h] = "on" /\ copy[h]["cmo"].own THEN ConfigureRefused("uwl", h)
             ELSE RevertRefused("uwl", h)

\* It is, or a call fails; when the stanza is written, it is the read of the marker
CmoError(h) ==
    /\ at[h] # "idle" /\ (at[h] = "unset" => flag[h] = "unread")
    /\ IF StepRefused(h) THEN UNCHANGED cmoFaults
       ELSE cmoFaults < MaxCmoFaults /\ cmoFaults' = cmoFaults + 1
    /\ FailCmo(h)
    /\ cut' = [cut EXCEPT ![h] = @ \/ (at[h] = "unset" /\ marker[h])]
    /\ UNCHANGED <<actual, copy, behind, want, plan, flag, marker, deaf, hubChanges, cmoEdits>>

-----------------------------------------------------------------------------
(* The MCOA agent                                                          *)

reconcileCMO(h) == IF want[h] = "off" THEN Revert("cmo", h) ELSE Configure("cmo", h)

reconcileUWLConfig(h) == IF want[h] = "on" THEN Configure("uwl", h) ELSE Revert("uwl", h)

\* A Reconcile that fails stays queued
AgentReconcile(h, k) ==
    /\ h \in Agents /\ k \in todo[h]
    /\ IF k = "cmo" THEN reconcileCMO(h) ELSE reconcileUWLConfig(h)
    /\ todo' = [todo EXCEPT ![h] = @ \ {k}]
    /\ Announce
    /\ UNCHANGED <<copy, want, at, plan, flag, marker, deaf, cut, hubChanges, cmoEdits, cmoFaults>>

-----------------------------------------------------------------------------
LegacyStep(h) == StartCmo(h) \/ isRevertedAlready(h) \/ RevertStep(h) \/ setConfigReverted(h)
                 \/ ConfigureStep(h) \/ unset(h)

CmoNext ==
    \/ \E h \in Hubs : ChangeHub(h) \/ RestartEndpoint(h) \/ CmoError(h)
                       \/ StartCmo(h) \/ isRevertedAlready(h) \/ RevertStep(h)
                       \/ setConfigReverted(h) \/ ConfigureStep(h) \/ unset(h)
    \/ \E h \in Hubs, k \in Keys : ConfigMapEvent(h, k) \/ AgentReconcile(h, k)
    \/ EditConfig

CmoSpec == CmoInit /\ [][CmoNext]_cmoVars

\* Watches deliver, and queued work is done
CmoFair ==
    /\ \A h \in Hubs : WF_cmoVars(LegacyStep(h) \/ CmoError(h))
    /\ \A h \in Hubs, k \in Keys : /\ WF_cmoVars(ConfigMapEvent(h, k))
                                   /\ WF_cmoVars(AgentReconcile(h, k))

-----------------------------------------------------------------------------
Has(k, s) == \E i \in DOMAIN actual[k].ams : actual[k].ams[i] = s
HasManaged(k, h) == Has(k, Stanza(h)) \/ Has(k, RouterStanza(h))

\* A hub forwards once: an operator replaces its hub's stanza, the router CA's of
\* earlier versions included, and never adds a second one
OneStanzaEach ==
    \A k \in Keys, h \in Hubs :
        Cardinality({i \in DOMAIN actual[k].ams : IsManaged(actual[k].ams[i], h)}) <= 1

\* What the user has put into cluster-monitoring-config outlives every write of an
\* operator, but for one: the delete of a ConfigMap in which the operator's copy
\* shows nothing but the hub's stanza
KeepsSettings ==
    \/ cmoEdits' # cmoEdits
    \/ \E h \in Hubs : EmptyConfig(Reverted("cmo", h)) /\ ~actual'["cmo"].there
    \/ /\ actual["cmo"].own => actual'["cmo"].own
       /\ Has("cmo", UserStanza) => Has("cmo", UserStanza)'
SettingsKept == [][KeepsSettings]_cmoVars

\* An enabled hub's stanza comes into cluster-monitoring-config and stays, whatever
\* the user, the other operators and restarts do to the ConfigMap; a disabled
\* hub's stanzas leave both ConfigMaps and stay away
EnabledRight ==
    \A h \in Hubs : want[h] # "off" => \/ Has("cmo", Stanza(h)) \/ Unusable("cmo", actual["cmo"])
                                       \/ (h \in Agents /\ "cmo" \in deaf[h])
DisabledRight ==
    \A h \in Hubs : want[h] = "off" => \/ ~HasManaged("cmo", h) /\ ~HasManaged("uwl", h)
                                       \/ cut[h]
                                       \/ \E k \in Keys : Unusable(k, actual[k])
ForwardingRight == EnabledRight /\ DisabledRight
ForwardingSettles == <>[]ForwardingRight

\* The same without time: an operator with nothing to do, and nothing to learn, has
\* put its hub's stanza there, or taken both away
NoStanzaMissed ==
    \A h \in Hubs : at[h] = "idle" /\ todo[h] = {} /\ behind[h] = {} =>
        IF want[h] # "off" THEN Has("cmo", Stanza(h)) \/ (h \in Agents /\ "cmo" \in deaf[h])
        ELSE cut[h] \/ (~HasManaged("cmo", h) /\ ~HasManaged("uwl", h))

=============================================================================
