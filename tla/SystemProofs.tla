---------------------------- MODULE SystemProofs ----------------------------
(***************************************************************************)
(* Theorems about the RBAC query proxy, the part "proxy" of System: for    *)
(* any clusters, answers of the access review, life of a cache entry and   *)
(* bounds.                                                                 *)
(***************************************************************************)
EXTENDS LifecycleProofs, HubProofs, ManagedClusterProofs, CertDashboardProofs

-----------------------------------------------------------------------------
LEMMA ProxyStarts == SystemInit /\ part = "proxy" => Proxy!ProxyInit
  BY DEF SystemInit

LEMMA ProxySteps ==
    ASSUME [SystemNext]_systemVars
    PROVE  /\ part' = part
           /\ part = "proxy" => [Proxy!ProxyNext]_proxyVars
  BY DEF SystemNext, systemVars

-----------------------------------------------------------------------------
(***************************************************************************)
(* The cache of projects                                                   *)
(***************************************************************************)
Entries == [there : BOOLEAN, list : SUBSET ManagedClusters, age : 0..Expiration, failed : BOOLEAN]

LEMMA NewEntry ==
    ASSUME NEW t \in BOOLEAN, NEW l \in SUBSET ManagedClusters, NEW a \in 0..Expiration,
           NEW f \in BOOLEAN
    PROVE  [there |-> t, list |-> l, age |-> a, failed |-> f] \in Entries
  BY DEF Entries

LEMMA ZeroAge == 0 \in 0..Expiration /\ 0 \in 0..(Expiration + 1)
  BY ProxyAssumption

CacheInv ==
    /\ entry \in Entries /\ unchanged \in 0..(Expiration + 1) /\ projects \subseteq ManagedClusters
    /\ Proxy!ProjectsCurrent

\* What a lookup leaves in the cache: the entry that is there, the projects of now,
\* or a fetch that failed.
LEMMA LookupFills ==
    ASSUME Proxy!GetUserProjectList
    PROVE  \/ entry.there /\ entry' = entry
           \/ ~entry.there
              /\ entry' = [there |-> TRUE, list |-> projects, age |-> 0, failed |-> FALSE]
           \/ ~entry.there
              /\ entry' = [there |-> TRUE, list |-> {}, age |-> 0, failed |-> TRUE]
  BY DEF Proxy!GetUserProjectList

LEMMA CacheStarts ==
    ASSUME Proxy!ProxyInit
    PROVE  CacheInv
<1>1. entry \in Entries
  BY NewEntry, ZeroAge DEF Proxy!ProxyInit
<1>2. unchanged \in 0..(Expiration + 1) /\ projects \subseteq ManagedClusters
  BY ZeroAge DEF Proxy!ProxyInit
<1>3. Proxy!ProjectsCurrent
  BY DEF Proxy!ProjectsCurrent, Proxy!ProxyInit
<1>4. QED
  BY <1>1, <1>2, <1>3 DEF CacheInv

LEMMA LookupKeepsCache ==
    ASSUME CacheInv, Proxy!GetUserProjectList, UNCHANGED <<projects, unchanged>>
    PROVE  CacheInv'
<1>1. unchanged' \in 0..(Expiration + 1) /\ projects' \subseteq ManagedClusters
  BY DEF CacheInv
<1>2. CASE entry' = entry
  BY <1>2 DEF CacheInv, Proxy!ProjectsCurrent
<1>3. CASE entry' = [there |-> TRUE, list |-> projects, age |-> 0, failed |-> FALSE]
  <2>1. entry' \in Entries
    BY <1>3, NewEntry, ZeroAge DEF CacheInv
  <2>2. entry'.list = projects'
    BY <1>3
  <2>3. Proxy!ProjectsCurrent'
    BY <2>2 DEF Proxy!ProjectsCurrent
  <2>4. QED
    BY <1>1, <2>1, <2>3 DEF CacheInv
<1>4. CASE entry' = [there |-> TRUE, list |-> {}, age |-> 0, failed |-> TRUE]
  BY <1>1, <1>4, NewEntry, ZeroAge DEF CacheInv, Proxy!ProjectsCurrent
<1>5. QED
  BY <1>2, <1>3, <1>4, LookupFills

\* An entry that lives on grows older with the projects; one that does not is no
\* longer there.
LEMMA Cleaned ==
    ASSUME CacheInv, Proxy!TickProjects
    PROVE  /\ entry' \in Entries /\ entry'.list = entry.list /\ entry'.failed = entry.failed
           /\ entry'.there => entry.there /\ entry'.age = entry.age + 1
<1>0. /\ entry.there \in BOOLEAN /\ entry.failed \in BOOLEAN /\ entry.list \in SUBSET ManagedClusters
      /\ entry.age \in 0..Expiration /\ Expiration \in Nat
      /\ entry = [there |-> entry.there, list |-> entry.list, age |-> entry.age,
                  failed |-> entry.failed]
  BY ProxyAssumption DEF CacheInv, Entries
<1>1. CASE ~entry.there
  BY <1>0, <1>1 DEF Proxy!TickProjects, CacheInv
<1>2. CASE entry.there /\ entry.age >= Expiration
  <2>1. entry' = [entry EXCEPT !.there = FALSE]
    BY <1>2 DEF Proxy!TickProjects, Proxy!cleanExpiredProjectInfo
  <2>2. entry' = [there |-> FALSE, list |-> entry.list, age |-> entry.age, failed |-> entry.failed]
    BY <1>0, <2>1
  <2>3. QED
    BY <1>0, <2>2, NewEntry
<1>3. CASE entry.there /\ ~(entry.age >= Expiration)
  <2>1. PICK b \in BOOLEAN : entry' = [entry EXCEPT !.there = b, !.age = @ + 1]
    <3> DEFINE still == entry.age + 1 < Expiration
    <3>1. still \in BOOLEAN
      OBVIOUS
    <3>2. \/ entry' = [entry EXCEPT !.age = @ + 1]
          \/ entry' = [entry EXCEPT !.there = still, !.age = @ + 1]
      BY <1>3 DEF Proxy!TickProjects, Proxy!cleanExpiredProjectInfo
    <3>3. [entry EXCEPT !.age = @ + 1] = [entry EXCEPT !.there = TRUE, !.age = @ + 1]
      BY <1>0, <1>3
    <3> HIDE DEF still
    <3>4. QED
      BY <3>1, <3>2, <3>3
  <2>2. entry' = [there |-> b, list |-> entry.list, age |-> entry.age + 1, failed |-> entry.failed]
    BY <1>0, <2>1
  <2>3. entry.age + 1 \in 0..Expiration
    BY <1>0, <1>3
  <2>4. QED
    BY <1>0, <1>3, <2>2, <2>3, NewEntry
<1>4. QED
  BY <1>1, <1>2, <1>3

LEMMA TickKeepsCache ==
    ASSUME CacheInv, Proxy!TickProjects
    PROVE  CacheInv'
<1>1. /\ unchanged' = IF unchanged > Expiration THEN unchanged ELSE unchanged + 1
      /\ projects' = projects
  BY DEF Proxy!TickProjects
<1>2. unchanged' \in 0..(Expiration + 1)
  BY <1>1, ProxyAssumption DEF CacheInv
<1>3. Proxy!ProjectsCurrent'
  <2>1. SUFFICES ASSUME entry'.there, entry'.list # projects', ~entry'.failed
                 PROVE  unchanged' <= entry'.age
    BY DEF Proxy!ProjectsCurrent
  <2>2. entry.there /\ entry'.age = entry.age + 1 /\ unchanged <= entry.age
    BY <1>1, <2>1, Cleaned DEF CacheInv, Proxy!ProjectsCurrent
  <2>3. QED
    BY <1>1, <2>2, ProxyAssumption DEF CacheInv, Entries
<1>4. QED
  BY <1>1, <1>2, <1>3, Cleaned DEF CacheInv

LEMMA CacheStep ==
    ASSUME CacheInv, [Proxy!ProxyNext]_proxyVars
    PROVE  CacheInv'
<1>1. CASE Proxy!ChangeProjects
  BY <1>1, ProxyAssumption
     DEF Proxy!ChangeProjects, CacheInv, Entries, Proxy!ProjectsCurrent
<1>2. CASE Proxy!TickProjects
  BY <1>2, TickKeepsCache
<1>3. CASE Proxy!preCheckRequest
  BY <1>3, LookupKeepsCache DEF Proxy!preCheckRequest
<1>4. CASE UNCHANGED <<entry, projects, unchanged>>
  BY <1>4 DEF CacheInv, Proxy!ProjectsCurrent
<1>5. CASE Proxy!getUserMetricsACLs
  BY <1>4, <1>5, LookupKeepsCache DEF Proxy!getUserMetricsACLs
<1>6. CASE Proxy!Modify \/ UNCHANGED proxyVars
  BY <1>4, <1>6 DEF Proxy!Modify, proxyVars
<1>7. QED
  BY <1>1, <1>2, <1>3, <1>5, <1>6 DEF Proxy!ProxyNext

\* For any life of an entry, the cache holds other projects than the user's only for
\* as long as an entry lives, or after a fetch that failed (GetUserProjectList,
\* cleanExpiredProjectInfo).
THEOREM ProxyProjectsCurrent == SystemSpec => []ProjectsCurrent
<1> DEFINE Inv == part = "proxy" => CacheInv
<1>1. SystemInit => Inv
  BY ProxyStarts, CacheStarts
<1>2. Inv /\ [SystemNext]_systemVars => Inv'
  BY ProxySteps, CacheStep
<1>3. Inv => ProjectsCurrent
  BY DEF CacheInv, ProjectsCurrent
<1>4. QED
  BY <1>1, <1>2, <1>3, PTL DEF SystemSpec

-----------------------------------------------------------------------------
(***************************************************************************)
(* The review of a request                                                 *)
(***************************************************************************)
\* Every namespace of the cluster: an empty list stands for all
Whole(namespaces) == namespaces = {} \/ AllNamespaces \in namespaces

\* ... is granted, by the review or, where it is silent, by a project
Granted(c, g, list) ==
    \/ \E k \in {c, AllClusters} \cap DOMAIN g : Whole(g[k])
    \/ DOMAIN g \cap {c, AllClusters} = {} /\ c \in list

\* What a reviewed request carries says no more than the review and the projects it
\* was made from, whatever clusters have come and gone since.
ReviewInv ==
    /\ entry \in Entries
    /\ request = "reviewed" =>
         \A c \in DOMAIN access : Whole(access[c]) => Granted(c, grant, entry.list)

\* Expanding the grant for all clusters and adding the projects grants nothing new.
LEMMA CombinedGrants ==
    ASSUME NEW g, NEW list, NEW c \in DOMAIN Proxy!Combined(Proxy!Expanded(g), list),
           Whole(Proxy!Combined(Proxy!Expanded(g), list)[c])
    PROVE  Granted(c, g, list)
<1> DEFINE e == Proxy!Expanded(g)
<1>1. DOMAIN Proxy!Combined(e, list) = DOMAIN e \cup (list \cap clusters)
  BY DEF Proxy!Combined, Proxy!filterProjectsToManagedClusters
<1>2. c \in DOMAIN e => Proxy!Combined(e, list)[c] = e[c]
  BY <1>1 DEF Proxy!Combined
<1>3. CASE AllClusters \notin DOMAIN g
  <2>1. e = g
    BY <1>3 DEF Proxy!Expanded
  <2>2. QED
    BY <1>1, <1>2, <1>3, <2>1 DEF Granted
<1>4. CASE AllClusters \in DOMAIN g
  <2>1. /\ DOMAIN e = (DOMAIN g \ {AllClusters}) \cup clusters
        /\ \A x \in DOMAIN e :
             e[x] = IF x \notin clusters THEN g[x]
                    ELSE IF x \in DOMAIN g THEN g[x] \cup g[AllClusters] ELSE g[AllClusters]
    BY <1>4 DEF Proxy!Expanded
  <2>2. c \in DOMAIN e /\ Whole(e[c])
    BY <1>1, <1>2, <2>1
  <2>3. CASE c \notin clusters
    BY <2>1, <2>2, <2>3 DEF Granted
  <2>4. CASE c \in clusters /\ c \in DOMAIN g
    <3>1. Whole(g[c]) \/ Whole(g[AllClusters])
      BY <2>1, <2>2, <2>4 DEF Whole
    <3>2. QED
      BY <1>4, <2>4, <3>1 DEF Granted
  <2>5. CASE c \in clusters /\ c \notin DOMAIN g
    BY <1>4, <2>1, <2>2, <2>5 DEF Granted
  <2>6. QED
    BY <2>3, <2>4, <2>5
<1>5. QED
  BY <1>3, <1>4

LEMMA ReviewStep ==
    ASSUME CacheInv, ReviewInv, [Proxy!ProxyNext]_proxyVars
    PROVE  ReviewInv'
<1>0. entry' \in Entries
  BY CacheStep DEF CacheInv
<1>1. CASE UNCHANGED <<grant, request, access>> /\ entry'.list = entry.list
  BY <1>0, <1>1 DEF ReviewInv
<1>2. CASE Proxy!ChangeProjects
  BY <1>1, <1>2 DEF Proxy!ChangeProjects
<1>3. CASE Proxy!TickProjects
  <2>1. entry'.list = entry.list
    BY <1>3 DEF Proxy!TickProjects, Proxy!cleanExpiredProjectInfo, ReviewInv, Entries
  <2>2. QED
    BY <1>1, <1>3, <2>1 DEF Proxy!TickProjects
<1>4. CASE Proxy!preCheckRequest
  BY <1>0, <1>4 DEF Proxy!preCheckRequest, ReviewInv
<1>5. CASE Proxy!getUserMetricsACLs
  <2>1. CASE request' = "error"
    BY <1>0, <2>1 DEF ReviewInv
  <2>2. CASE access' = Proxy!Combined(Proxy!Expanded(grant), entry'.list)
    <3>1. grant' = grant
      BY <1>5 DEF Proxy!getUserMetricsACLs
    <3>2. \A c \in DOMAIN access' : Whole(access'[c]) => Granted(c, grant', entry'.list)
      BY <2>2, <3>1, CombinedGrants
    <3>3. QED
      BY <1>0, <3>2 DEF ReviewInv, Whole, Granted
  <2>3. QED
    BY <1>5, <2>1, <2>2 DEF Proxy!getUserMetricsACLs
<1>6. CASE Proxy!Modify
  BY <1>0, <1>6 DEF Proxy!Modify, ReviewInv
<1>7. CASE UNCHANGED proxyVars
  BY <1>1, <1>7 DEF proxyVars
<1>8. QED
  BY <1>2, <1>3, <1>4, <1>5, <1>6, <1>7 DEF Proxy!ProxyNext

\* Only Modify passes a request on, and only with access to every cluster.
LEMMA ModifyGrants ==
    ASSUME ReviewInv, [Proxy!ProxyNext]_proxyVars
    PROVE  Proxy!UnmodifiedForAll
<1> SUFFICES ASSUME request = "reviewed", request' = "unmodified",
                    carries \in {"query", "malformed"}, NEW c \in clusters
             PROVE  Granted(c, grant, entry.list)
  BY DEF Proxy!UnmodifiedForAll, Granted, Whole
<1>1. Proxy!Modify
  BY DEF Proxy!ProxyNext, Proxy!ChangeProjects, Proxy!TickProjects, Proxy!preCheckRequest,
         Proxy!getUserMetricsACLs, proxyVars
<1>2. c \in DOMAIN access /\ Whole(access[c])
  BY <1>1 DEF Proxy!Modify, Proxy!Restricted, Proxy!canAccessAll, Whole
<1>3. QED
  BY <1>2 DEF ReviewInv

\* For any clusters and any answer of the access review, a request with a query is passed on
\* unmodified only when every namespace of every cluster is granted, also when
\* clusters and projects come and go and the cache expires while the request is
\* handled (canAccessAll, getUserMetricsACLs).
THEOREM ProxyUnmodifiedMeansAll == SystemSpec => UnmodifiedMeansAll
<1> DEFINE Inv == part = "proxy" => CacheInv /\ ReviewInv
<1>1. SystemInit => Inv
  BY ProxyStarts, CacheStarts DEF Proxy!ProxyInit, CacheInv, ReviewInv
<1>2. Inv /\ [SystemNext]_systemVars
        => Inv' /\ [part = "proxy" => Proxy!UnmodifiedForAll]_proxyVars
  BY ProxySteps, CacheStep, ReviewStep, ModifyGrants
<1>3. QED
  BY <1>1, <1>2, PTL DEF SystemSpec, UnmodifiedMeansAll

-----------------------------------------------------------------------------
(***************************************************************************)
(* Types: the proxy                                                        *)
(***************************************************************************)
LEMMA ProxyBounds == MaxProjectChanges \in Nat /\ MaxProxyFaults \in Nat
  BY BoundsAssumption

\* What the review grants and the projects name are clusters.
LEMMA CombinedNames ==
    ASSUME clusters \subseteq ManagedClusters, NEW g \in Grants, NEW list \in SUBSET ManagedClusters
    PROVE  DOMAIN Proxy!Combined(Proxy!Expanded(g), list) \subseteq ManagedClusters
<1>1. DOMAIN Proxy!Expanded(g) \subseteq ManagedClusters
  <2>1. CASE AllClusters \notin DOMAIN g
    BY <2>1, ProxyAssumption DEF Proxy!Expanded
  <2>2. CASE AllClusters \in DOMAIN g
    BY <2>2, ProxyAssumption DEF Proxy!Expanded
  <2>3. QED
    BY <2>1, <2>2
<1>2. QED
  BY <1>1 DEF Proxy!Combined, Proxy!filterProjectsToManagedClusters

LEMMA ProxyTypes ==
    ASSUME CacheInv, CacheInv', Proxy!ProxyTypeOK, [Proxy!ProxyNext]_proxyVars
    PROVE  Proxy!ProxyTypeOK'
<1>0. entry' \in Entries /\ unchanged' \in 0..(Expiration + 1) /\ projects' \subseteq ManagedClusters
  BY DEF CacheInv
<1>1. /\ clusters' \subseteq ManagedClusters /\ grant' \in Grants
      /\ projectChanges' \in 0..MaxProjectChanges /\ carries' \in Proxy!Contents
  BY ProxyBounds
     DEF Proxy!ProxyTypeOK, Proxy!ProxyNext, proxyVars, Proxy!ChangeProjects, Proxy!TickProjects,
         Proxy!preCheckRequest, Proxy!getUserMetricsACLs, Proxy!Modify
<1>2. /\ request' \in {"none", "checked", "reviewed", "unmodified", "rewritten", "empty", "error"}
      /\ proxyFaults' \in 0..MaxProxyFaults
  BY ProxyBounds
     DEF Proxy!ProxyTypeOK, Proxy!ProxyNext, proxyVars, Proxy!ChangeProjects, Proxy!TickProjects,
         Proxy!preCheckRequest, Proxy!getUserMetricsACLs, Proxy!Modify, Proxy!Restricted, Proxy!ProxyFault,
         Proxy!GetUserProjectList
<1>3. DOMAIN access' \subseteq ManagedClusters
  <2>1. CASE access' = access
    BY <2>1 DEF Proxy!ProxyTypeOK
  <2>2. CASE access' = Proxy!NoAccess
    BY <2>2 DEF Proxy!NoAccess
  <2>3. CASE access' = Proxy!Combined(Proxy!Expanded(grant), entry'.list)
    BY <1>0, <2>3, CombinedNames DEF Proxy!ProxyTypeOK, Entries
  <2>4. QED
    BY <2>1, <2>2, <2>3
       DEF Proxy!ProxyNext, proxyVars, Proxy!ChangeProjects, Proxy!TickProjects,
           Proxy!preCheckRequest, Proxy!getUserMetricsACLs, Proxy!Modify
<1>4. QED
  BY <1>0, <1>1, <1>2, <1>3 DEF Proxy!ProxyTypeOK, Entries

LEMMA ProxyTypesStart == Proxy!ProxyInit => Proxy!ProxyTypeOK
  BY CacheStarts, ProxyBounds
     DEF Proxy!ProxyInit, Proxy!Contents, Proxy!ProxyTypeOK, CacheInv, Entries, Proxy!NoAccess


-----------------------------------------------------------------------------
(***************************************************************************)
(* Types: the TLS configuration of the proxy                               *)
(***************************************************************************)
LEMMA TlsStarts == SystemInit /\ part = "tls" => Tls!TlsInit
  BY DEF SystemInit

LEMMA TlsSteps ==
    ASSUME [SystemNext]_systemVars
    PROVE  /\ part' = part
           /\ part = "tls" => [Tls!TlsNext]_tlsVars
  BY DEF SystemNext, systemVars

LEMMA TlsTypesStart == Tls!TlsInit => Tls!TlsTypeOK
<1>0. MaxRotations \in Nat /\ MaxTlsFaults \in Nat
  BY BoundsAssumption
<1>1. 0 \in Tls!Version /\ 0 \in 0..MaxTlsFaults
  BY <1>0 DEF Tls!Version
<1>2. [ca |-> 0, pair |-> 0] \in [ca : Tls!Version, pair : Tls!Version]
  BY <1>1
<1>3. QED
  BY <1>1, <1>2 DEF Tls!TlsInit, Tls!TlsTypeOK

LEMMA TlsTypes ==
    ASSUME Tls!TlsTypeOK, [Tls!TlsNext]_tlsVars
    PROVE  Tls!TlsTypeOK'
<1>0. MaxRotations \in Nat /\ MaxTlsFaults \in Nat
  BY BoundsAssumption
<1>1. CASE Tls!Rotate
  BY <1>0, <1>1 DEF Tls!TlsTypeOK, Tls!Version, Tls!Rotate
<1>2. CASE Tls!newReloadingTransport
  BY <1>2 DEF Tls!TlsTypeOK, Tls!newReloadingTransport, Tls!reloadTLSConfig
<1>3. CASE Tls!checkForReload
  BY <1>3 DEF Tls!TlsTypeOK, Tls!checkForReload
<1>4. CASE Tls!Reload
  BY <1>0, <1>4 DEF Tls!TlsTypeOK, Tls!Reload, Tls!reloadTLSConfig
<1>5. CASE UNCHANGED tlsVars
  BY <1>5 DEF Tls!TlsTypeOK, tlsVars
<1>6. QED
  BY <1>1, <1>2, <1>3, <1>4, <1>5 DEF Tls!TlsNext

-----------------------------------------------------------------------------
(***************************************************************************)
(* The label allowlist                                                     *)
(***************************************************************************)
LEMMA AllowlistStarts == SystemInit /\ part = "allowlist" => Allowlist!AllowlistInit
  BY DEF SystemInit

LEMMA AllowlistSteps ==
    ASSUME [SystemNext]_systemVars
    PROVE  /\ part' = part
           /\ part = "allowlist" => [Allowlist!AllowlistNext]_listVars
  BY DEF SystemNext, systemVars

ConfigMaps == [there : BOOLEAN, parses : BOOLEAN, lists : Allowlist!Lists]

LEMMA NewConfigMap ==
    ASSUME NEW t \in BOOLEAN, NEW p \in BOOLEAN, NEW ls \in Allowlist!Lists
    PROVE  [there |-> t, parses |-> p, lists |-> ls] \in ConfigMaps
  BY DEF ConfigMaps

LEMMA FixedLists ==
    /\ Allowlist!Nothing \in Allowlist!Lists /\ Allowlist!Default \in ConfigMaps
    /\ Allowlist!Default.there /\ Allowlist!Default.parses
<1>1. [labels |-> {}, ignored |-> DefaultIgnored] \in Allowlist!Lists
  BY AllowlistAssumption DEF Allowlist!Lists
<1>2. QED
  BY <1>1, NewConfigMap DEF Allowlist!Default, Allowlist!Lists, Allowlist!Nothing

LEMMA LoadedLists ==
    ASSUME NEW m \in ConfigMaps
    PROVE  Allowlist!initialAllowlistLoad(m) \in Allowlist!Lists
  BY FixedLists DEF Allowlist!initialAllowlistLoad, ConfigMaps

LEMMA AllLabels ==
    ASSUME NEW cs \in [Clusters -> SUBSET Labels]
    PROVE  Allowlist!getAllLabels(cs) \in SUBSET Labels
  BY DEF Allowlist!getAllLabels

\* Whatever the lists were, the generated ones hold labels.
LEMMA GeneratedLists ==
    ASSUME NEW now \in Allowlist!Lists, NEW last \in Allowlist!Lists, NEW needed \in SUBSET Labels
    PROVE  Allowlist!generateAllowList(now, last, needed) \in Allowlist!Lists
<1> DEFINE missing == (needed \cup Required) \ (now.labels \cup now.ignored)
           back    == {l \in missing : l \notin last.labels /\ l \in last.ignored}
           ignored == now.ignored \cup back
           labels  == (now.labels \cup (missing \ back)) \ ignored
<1>1. now.labels \subseteq Labels /\ now.ignored \subseteq Labels /\ missing \subseteq Labels
  BY AllowlistAssumption DEF Allowlist!Lists
<1>2. back \subseteq Labels /\ ignored \subseteq Labels /\ labels \subseteq Labels
  BY <1>1
<1>3. Allowlist!generateAllowList(now, last, needed) = [labels |-> labels, ignored |-> ignored]
  BY DEF Allowlist!generateAllowList
<1> HIDE DEF missing, back, ignored, labels
<1>4. QED
  BY <1>2, <1>3 DEF Allowlist!Lists

Flags(f) == f \in [Pods -> BOOLEAN]

Syncs == [Pods -> [Allowlist!Slots -> Allowlist!Sync]]

ListTypes ==
    /\ clusterLabels \in [Clusters -> SUBSET Labels] /\ allowlist \in ConfigMaps
    /\ known \in [Pods -> [Clusters -> SUBSET Labels]] /\ memory \in [Pods -> Allowlist!Lists]
    /\ Flags(dirty) /\ Flags(signal) /\ Flags(timer) /\ Flags(synced) /\ Flags(syncLost)
    /\ Flags(overtaken) /\ syncs \in Syncs
    /\ listChanges \in 0..MaxListChanges /\ listFaults \in 0..MaxListFaults

LEMMA ListTypesAreTypes == Allowlist!AllowlistTypeOK <=> ListTypes
  BY DEF Allowlist!AllowlistTypeOK, ListTypes, ConfigMaps, Flags, Syncs

LEMMA ListBounds == MaxListChanges \in Nat /\ MaxListFaults \in Nat
  BY BoundsAssumption

\* A record of a synchronization
LEMMA NewSync ==
    ASSUME NEW stage \in {"none", "get", "again", "update", "set"},
           NEW needed \in SUBSET Labels, NEW new \in Allowlist!Lists
    PROVE  [stage |-> stage, needed |-> needed, new |-> new] \in Allowlist!Sync
  BY DEF Allowlist!Sync

LEMMA NoSyncs == [n \in Allowlist!Slots |-> Allowlist!NoSync] \in [Allowlist!Slots -> Allowlist!Sync]
  BY NewSync, FixedLists DEF Allowlist!NoSync

\* Only one record is written
LEMMA SyncsSet ==
    ASSUME syncs \in Syncs, NEW p \in Pods, NEW n \in Allowlist!Slots, NEW s \in Allowlist!Sync,
           syncs' = [syncs EXCEPT ![p][n] = s]
    PROVE  /\ syncs' \in Syncs /\ syncs'[p][n] = s
           /\ \A m \in Allowlist!Slots : m # n => syncs'[p][m] = syncs[p][m]
           /\ \A q \in Pods : q # p => syncs'[q] = syncs[q]
  BY DEF Syncs

\* Where one synchronization goes on to
LEMMA GoesOnTo ==
    ASSUME syncs \in Syncs, NEW p \in Pods, NEW n \in Allowlist!Slots,
           NEW stage \in {"none", "get", "again", "update", "set"}, NEW new \in Allowlist!Lists,
           Allowlist!GoesOn(p, n, stage, new)
    PROVE  /\ syncs' \in Syncs
           /\ syncs'[p][n] = [stage |-> stage, needed |-> syncs[p][n].needed, new |-> new]
           /\ \A m \in Allowlist!Slots : m # n => syncs'[p][m] = syncs[p][m]
           /\ \A q \in Pods : q # p => syncs'[q] = syncs[q]
<1> DEFINE s == [stage |-> stage, needed |-> syncs[p][n].needed, new |-> new]
<1>1. syncs[p][n] \in Allowlist!Sync
  BY DEF Syncs
<1>2. s \in Allowlist!Sync
  BY <1>1, NewSync DEF Allowlist!Sync
<1>3. syncs' = [syncs EXCEPT ![p][n] = s]
  BY DEF Allowlist!GoesOn
<1> HIDE DEF s
<1>4. /\ syncs' \in Syncs /\ syncs'[p][n] = s
      /\ \A m \in Allowlist!Slots : m # n => syncs'[p][m] = syncs[p][m]
      /\ \A q \in Pods : q # p => syncs'[q] = syncs[q]
  BY <1>2, <1>3, SyncsSet
<1>5. QED
  BY <1>4 DEF s

LEMMA EndsThere ==
    ASSUME syncs \in Syncs, NEW p \in Pods, NEW n \in Allowlist!Slots, Allowlist!Ends(p, n)
    PROVE  /\ syncs' \in Syncs /\ syncs'[p][n] = Allowlist!NoSync
           /\ \A m \in Allowlist!Slots : m # n => syncs'[p][m] = syncs[p][m]
           /\ \A q \in Pods : q # p => syncs'[q] = syncs[q]
<1>1. Allowlist!NoSync \in Allowlist!Sync
  BY NewSync, FixedLists DEF Allowlist!NoSync
<1>2. QED
  BY <1>1, SyncsSet DEF Allowlist!Ends

\* A write changes at most the stages of those that were about to write.
LEMMA Conflicts ==
    ASSUME NEW running \in Syncs
    PROVE  /\ Allowlist!Conflicting(running) \in Syncs
           /\ \A p \in Pods, n \in Allowlist!Slots :
                (Allowlist!Conflicting(running)[p][n].stage = "none") <=>
                    (running[p][n].stage = "none")
<1>1. ASSUME NEW s \in Allowlist!Sync
      PROVE  /\ Allowlist!Outdated(s) \in Allowlist!Sync
             /\ (Allowlist!Outdated(s).stage = "none") <=> (s.stage = "none")
  BY DEF Allowlist!Outdated, Allowlist!Sync
<1>2. ASSUME NEW p \in Pods, NEW n \in Allowlist!Slots
      PROVE  /\ running[p][n] \in Allowlist!Sync
             /\ Allowlist!Conflicting(running)[p][n] = Allowlist!Outdated(running[p][n])
  BY DEF Allowlist!Conflicting, Syncs
<1>3. Allowlist!Conflicting(running) \in Syncs
  BY <1>1, <1>2 DEF Allowlist!Conflicting, Syncs
<1>4. QED
  BY <1>1, <1>2, <1>3

LEMMA ListWritten ==
    ASSUME NEW list \in ConfigMaps, NEW running \in Syncs, Allowlist!Write(list, running)
    PROVE  /\ allowlist' \in ConfigMaps /\ Flags(dirty') /\ syncs' \in Syncs
           /\ \A p \in Pods : dirty'[p]
           /\ \A p \in Pods, n \in Allowlist!Slots :
                (syncs'[p][n].stage = "none") <=> (running[p][n].stage = "none")
  BY Conflicts DEF Allowlist!Write, Flags

LEMMA ListTypesStart == Allowlist!AllowlistInit => ListTypes
<1> SUFFICES ASSUME Allowlist!AllowlistInit PROVE ListTypes
  OBVIOUS
<1>1. allowlist \in ConfigMaps /\ memory \in [Pods -> Allowlist!Lists]
  BY FixedLists, LoadedLists DEF Allowlist!AllowlistInit
<1>2. known \in [Pods -> [Clusters -> SUBSET Labels]]
  BY DEF Allowlist!AllowlistInit
<1>3. syncs \in Syncs
  <2> DEFINE none == [n \in Allowlist!Slots |-> Allowlist!NoSync]
  <2>1. none \in [Allowlist!Slots -> Allowlist!Sync] /\ syncs = [p \in Pods |-> none]
    BY NoSyncs DEF Allowlist!AllowlistInit
  <2> HIDE DEF none
  <2>2. QED
    BY <2>1 DEF Syncs
<1>4. QED
  BY <1>1, <1>2, <1>3, ListBounds DEF Allowlist!AllowlistInit, ListTypes, Flags

LEMMA FlagsSet ==
    ASSUME NEW f, Flags(f), NEW p, NEW b \in BOOLEAN
    PROVE  Flags([f EXCEPT ![p] = b])
  BY DEF Flags

LEMMA FlagsRaised == 
    ASSUME NEW f, Flags(f), NEW p \in Pods, NEW b \in BOOLEAN
    PROVE  Flags([f EXCEPT ![p] = @ \/ b])
<1>1. (f[p] \/ b) \in BOOLEAN
  OBVIOUS
<1> DEFINE raised == f[p] \/ b
<1>2. [f EXCEPT ![p] = @ \/ b] = [f EXCEPT ![p] = raised]
  OBVIOUS
<1> HIDE DEF raised
<1>3. QED
  BY <1>1, <1>2, FlagsSet DEF raised

LEMMA FlagsAll == ASSUME NEW b \in BOOLEAN PROVE Flags([p \in Pods |-> b])
  BY DEF Flags

LEMMA ListActions ==
    ASSUME ListTypes
    PROVE  /\ \A c \in Clusters : Allowlist!ChangeLabels(c) => ListTypes'
           /\ Allowlist!EditList => ListTypes'
<1>1. ASSUME NEW c \in Clusters, Allowlist!ChangeLabels(c) PROVE ListTypes'
  BY <1>1, ListBounds DEF Allowlist!ChangeLabels, ListTypes
<1>2. ASSUME Allowlist!EditList PROVE ListTypes'
  <2>1. PICK list \in {[there |-> TRUE, parses |-> TRUE, lists |-> ls] : ls \in UserLists}
                   \cup {[there |-> TRUE, parses |-> FALSE, lists |-> Allowlist!Nothing],
                         [there |-> FALSE, parses |-> FALSE, lists |-> Allowlist!Nothing]} :
               Allowlist!Write(list, syncs)
    BY <1>2 DEF Allowlist!EditList
  <2>2. list \in ConfigMaps
    BY NewConfigMap, FixedLists, AllowlistAssumption
  <2>3. allowlist' \in ConfigMaps /\ Flags(dirty') /\ syncs' \in Syncs
    BY <2>1, <2>2, ListWritten DEF ListTypes
  <2>4. QED
    BY <1>2, <2>3, ListBounds DEF Allowlist!EditList, ListTypes
<1>3. QED
  BY <1>1, <1>2

\* A restart ends the pod's synchronizations and leaves the others' alone, unless it
\* writes the ConfigMap
LEMMA RestartSyncs ==
    ASSUME ListTypes, NEW p \in Pods, Allowlist!RestartProxy(p)
    PROVE  /\ allowlist' \in ConfigMaps /\ Flags(dirty') /\ syncs' \in Syncs /\ dirty'[p]
           /\ \A n \in Allowlist!Slots : syncs'[p][n].stage = "none"
           /\ \A q \in Pods : q # p =>
                \/ dirty'[q] /\ \A n \in Allowlist!Slots :
                                  (syncs'[q][n].stage = "none") <=> (syncs[q][n].stage = "none")
                \/ allowlist' = allowlist /\ dirty'[q] = dirty[q] /\ syncs'[q] = syncs[q]
<1> DEFINE none == [n \in Allowlist!Slots |-> Allowlist!NoSync]
           stopped == [syncs EXCEPT ![p] = none]
<1>1. none \in [Allowlist!Slots -> Allowlist!Sync] /\ \A n \in Allowlist!Slots : none[n].stage = "none"
  BY NoSyncs DEF Allowlist!NoSync
<1>2. \/ Allowlist!Write(Allowlist!Default, stopped)
      \/ /\ dirty' = [dirty EXCEPT ![p] = TRUE]
         /\ syncs' = stopped /\ allowlist' = allowlist
  BY DEF Allowlist!RestartProxy
<1> HIDE DEF none
<1>3. /\ stopped \in Syncs /\ stopped[p] = none
      /\ \A q \in Pods : q # p => stopped[q] = syncs[q]
  BY <1>1 DEF ListTypes, Syncs
<1> HIDE DEF stopped
<1>4. CASE Allowlist!Write(Allowlist!Default, stopped)
  BY <1>1, <1>3, <1>4, ListWritten, FixedLists
<1>5. CASE dirty' = [dirty EXCEPT ![p] = TRUE] /\ syncs' = stopped /\ allowlist' = allowlist
  <2>1. /\ Flags(dirty') /\ dirty'[p] = TRUE
        /\ \A q \in Pods : q # p => dirty'[q] = dirty[q]
    BY <1>5 DEF ListTypes, Flags
  <2>2. QED
    BY <1>1, <1>3, <1>5, <2>1 DEF ListTypes
<1>6. QED
  BY <1>2, <1>4, <1>5

LEMMA RestartTypes ==
    ASSUME ListTypes, NEW p \in Pods, Allowlist!RestartProxy(p)
    PROVE  ListTypes'
<1>1. allowlist' \in ConfigMaps /\ Flags(dirty') /\ syncs' \in Syncs
  BY RestartSyncs
<1>2. memory' \in [Pods -> Allowlist!Lists]
  <2>1. Allowlist!initialAllowlistLoad(allowlist') \in Allowlist!Lists
    BY <1>1, LoadedLists
  <2>2. memory' = [memory EXCEPT ![p] = Allowlist!initialAllowlistLoad(allowlist')]
    BY DEF Allowlist!RestartProxy
  <2>3. QED
    BY <2>1, <2>2 DEF ListTypes
<1>3. known' \in [Pods -> [Clusters -> SUBSET Labels]]
  <2> DEFINE nothing == [c \in Clusters |-> {}]
  <2>1. nothing \in [Clusters -> SUBSET Labels]
    OBVIOUS
  <2>2. known' = [known EXCEPT ![p] = nothing]
    BY DEF Allowlist!RestartProxy
  <2> HIDE DEF nothing
  <2>3. QED
    BY <2>1, <2>2 DEF ListTypes
<1>4. /\ signal' = [signal EXCEPT ![p] = FALSE] /\ timer' = [timer EXCEPT ![p] = FALSE]
      /\ synced' = [synced EXCEPT ![p] = FALSE] /\ syncLost' = [syncLost EXCEPT ![p] = FALSE]
      /\ overtaken' = [overtaken EXCEPT ![p] = FALSE]
      /\ clusterLabels' = clusterLabels /\ listChanges' = listChanges
      /\ listFaults < MaxListFaults /\ listFaults' = listFaults + 1
  BY DEF Allowlist!RestartProxy
<1>5. /\ Flags(signal') /\ Flags(timer') /\ Flags(synced') /\ Flags(syncLost')
      /\ Flags(overtaken')
  BY <1>4, FlagsSet DEF ListTypes
<1>6. listFaults' \in 0..MaxListFaults
  BY <1>4, ListBounds DEF ListTypes
<1>7. QED
  BY <1>1, <1>2, <1>3, <1>4, <1>5, <1>6 DEF ListTypes

LEMMA SendTypes ==
    ASSUME Flags(signal), NEW p \in Pods, NEW n \in BOOLEAN, Allowlist!Send(p, n)
    PROVE  Flags(signal')
  BY FlagsRaised DEF Allowlist!Send

LEMMA HandlerTypes ==
    ASSUME ListTypes, NEW p \in Pods
    PROVE  /\ \A c \in Clusters : Allowlist!ClusterEvent(p, c) => ListTypes'
           /\ Allowlist!ListEvent(p) => ListTypes'
           /\ Allowlist!CachesSynced(p) => ListTypes'
           /\ Allowlist!debounceSync(p) => ListTypes'
<1>1. ASSUME NEW c \in Clusters, Allowlist!ClusterEvent(p, c) PROVE ListTypes'
  <2>1. known' \in [Pods -> [Clusters -> SUBSET Labels]]
    BY <1>1 DEF Allowlist!ClusterEvent, ListTypes
  <2>2. Flags(signal')
    BY <1>1, SendTypes DEF Allowlist!ClusterEvent, ListTypes
  <2>3. QED
    BY <1>1, <2>1, <2>2 DEF Allowlist!ClusterEvent, ListTypes
<1>2. ASSUME Allowlist!ListEvent(p) PROVE ListTypes'
  <2>0. UNCHANGED <<clusterLabels, known, memory, timer, synced, overtaken, listChanges>>
    BY <1>2 DEF Allowlist!ListEvent
  <2>1. CASE allowlist.there
    <3>1. /\ UNCHANGED <<allowlist, syncs, syncLost, listFaults>>
          /\ dirty' = [dirty EXCEPT ![p] = FALSE] /\ Allowlist!Send(p, TRUE)
      BY <1>2, <2>1 DEF Allowlist!ListEvent
    <3>2. Flags(signal') /\ Flags(dirty')
      BY <3>1, SendTypes, FlagsSet DEF ListTypes
    <3>3. QED
      BY <2>0, <3>1, <3>2 DEF ListTypes
  <2>2. CASE ~allowlist.there
    <3>1. signal' = signal /\ Allowlist!ensureAllowlistConfigMapExists(p)
      BY <1>2, <2>2 DEF Allowlist!ListEvent
    <3>2. CASE Allowlist!Write(Allowlist!Default, syncs) /\ UNCHANGED <<syncLost, listFaults>>
      <4>1. allowlist' \in ConfigMaps /\ Flags(dirty') /\ syncs' \in Syncs
        BY <3>2, ListWritten, FixedLists DEF ListTypes
      <4>2. QED
        BY <2>0, <3>1, <3>2, <4>1 DEF ListTypes
    <3>3. CASE /\ listFaults < MaxListFaults /\ listFaults' = listFaults + 1
               /\ syncLost' = [syncLost EXCEPT ![p] = TRUE] /\ dirty' = [dirty EXCEPT ![p] = FALSE]
               /\ UNCHANGED <<allowlist, syncs>>
      <4>1. Flags(syncLost') /\ Flags(dirty')
        BY <3>3, FlagsSet DEF ListTypes
      <4>2. listFaults' \in 0..MaxListFaults
        BY <3>3, ListBounds DEF ListTypes
      <4>3. QED
        BY <2>0, <3>1, <3>3, <4>1, <4>2 DEF ListTypes
    <3>4. QED
      BY <3>1, <3>2, <3>3 DEF Allowlist!ensureAllowlistConfigMapExists
  <2>3. QED
    BY <2>1, <2>2
<1>3. ASSUME Allowlist!CachesSynced(p) PROVE ListTypes'
  BY <1>3, SendTypes, FlagsSet DEF Allowlist!CachesSynced, ListTypes
<1>4. ASSUME Allowlist!debounceSync(p) PROVE ListTypes'
  BY <1>4, FlagsSet DEF Allowlist!debounceSync, ListTypes
<1>5. QED
  BY <1>1, <1>2, <1>3, <1>4

\* A synchronization starts in a free slot, with the labels that the pod knows
LEMMA StartsSync ==
    ASSUME ListTypes, NEW p \in Pods, Allowlist!StartSync(p), synced[p]
    PROVE  \E n \in Allowlist!Slots \ Allowlist!Running(p) :
             LET s == [stage |-> "get", needed |-> Allowlist!getAllLabels(known[p]),
                       new |-> Allowlist!Nothing]
             IN  /\ syncs' = [syncs EXCEPT ![p][n] = s]
                 /\ s \in Allowlist!Sync
<1>1. Allowlist!getAllLabels(known[p]) \in SUBSET Labels
  BY AllLabels DEF ListTypes
<1>2. [stage |-> "get", needed |-> Allowlist!getAllLabels(known[p]),
       new |-> Allowlist!Nothing] \in Allowlist!Sync
  BY <1>1, FixedLists, NewSync
<1>3. QED
  BY <1>2, Zenon DEF Allowlist!StartSync

LEMMA StartTypes ==
    ASSUME ListTypes, NEW p \in Pods, Allowlist!StartSync(p)
    PROVE  ListTypes'
<1>1. /\ timer' = [timer EXCEPT ![p] = FALSE]
      /\ UNCHANGED <<clusterLabels, allowlist, known, memory, dirty, signal, synced, listChanges,
                     listFaults>>
  BY DEF Allowlist!StartSync
<1>2. Flags(timer')
  BY <1>1, FlagsSet DEF ListTypes
<1>3. CASE ~synced[p]
  <2>1. UNCHANGED <<syncs, overtaken, syncLost>>
    BY <1>3 DEF Allowlist!StartSync
  <2>2. QED
    BY <1>1, <1>2, <2>1 DEF ListTypes
<1>4. CASE synced[p]
  <2>1. syncs' \in Syncs
    BY <1>4, StartsSync, SyncsSet DEF ListTypes
  <2>2. /\ overtaken' = [overtaken EXCEPT ![p] = Allowlist!Running(p) # {}]
        /\ syncLost' = [syncLost EXCEPT ![p] = FALSE]
    BY <1>4 DEF Allowlist!StartSync
  <2>3. Flags(overtaken') /\ Flags(syncLost')
    BY <2>2, FlagsSet DEF ListTypes
  <2>4. QED
    BY <1>1, <1>2, <2>1, <2>3 DEF ListTypes
<1>5. QED
  BY <1>3, <1>4

\* How a synchronization goes on when it has read the ConfigMap
LEMMA Gets ==
    ASSUME ListTypes, NEW p \in Pods, NEW n \in Allowlist!Slots, Allowlist!GetAllowlist(p, n)
    PROVE  LET new == Allowlist!generateAllowList(allowlist.lists, memory[p], syncs[p][n].needed)
           IN  /\ new \in Allowlist!Lists /\ syncs[p][n] \in Allowlist!Sync
               /\ \/ /\ allowlist.there /\ allowlist.parses
                     /\ Allowlist!GoesOn(p, n, IF new = allowlist.lists THEN "set" ELSE "update", new)
                     /\ UNCHANGED syncLost
                  \/ /\ ~(allowlist.there /\ allowlist.parses)
                     /\ \/ Allowlist!GoesOn(p, n, "set", syncs[p][n].new) \/ Allowlist!Ends(p, n)
                     /\ syncLost' = syncLost \/ syncLost' = [syncLost EXCEPT ![p] = TRUE]
               /\ syncs[p][n].stage \in {"get", "again"}
               /\ UNCHANGED <<clusterLabels, allowlist, known, memory, dirty, signal, timer, synced,
                              overtaken, listChanges, listFaults>>
<1>1. syncs[p][n] \in Allowlist!Sync
  BY DEF ListTypes, Syncs
<1>2. /\ syncs[p][n].needed \in SUBSET Labels /\ allowlist.lists \in Allowlist!Lists
      /\ memory[p] \in Allowlist!Lists
  BY <1>1 DEF ListTypes, ConfigMaps, Allowlist!Sync
<1> DEFINE new == Allowlist!generateAllowList(allowlist.lists, memory[p], syncs[p][n].needed)
<1>3. new \in Allowlist!Lists
  BY <1>2, GeneratedLists
<1> HIDE DEF new
<1>4. /\ syncs[p][n].stage \in {"get", "again"}
      /\ UNCHANGED <<clusterLabels, allowlist, known, memory, dirty, signal, timer, synced,
                     overtaken, listChanges, listFaults>>
  BY DEF Allowlist!GetAllowlist
<1>5. \/ /\ allowlist.there /\ allowlist.parses
         /\ Allowlist!GoesOn(p, n, IF new = allowlist.lists THEN "set" ELSE "update", new)
         /\ UNCHANGED syncLost
      \/ /\ ~(allowlist.there /\ allowlist.parses)
         /\ \/ Allowlist!GoesOn(p, n, "set", syncs[p][n].new) \/ Allowlist!Ends(p, n)
         /\ syncLost' = syncLost \/ syncLost' = [syncLost EXCEPT ![p] = TRUE]
  BY Zenon DEF Allowlist!GetAllowlist, new
<1>6. QED
  BY <1>1, <1>3, <1>4, <1>5, Zenon DEF new

LEMMA GetTypes ==
    ASSUME ListTypes, NEW p \in Pods, NEW n \in Allowlist!Slots, Allowlist!GetAllowlist(p, n)
    PROVE  ListTypes'
<1> DEFINE new == Allowlist!generateAllowList(allowlist.lists, memory[p], syncs[p][n].needed)
<1>1. /\ new \in Allowlist!Lists /\ syncs[p][n] \in Allowlist!Sync
      /\ \/ Allowlist!GoesOn(p, n, "set", new) \/ Allowlist!GoesOn(p, n, "update", new)
         \/ Allowlist!GoesOn(p, n, "set", syncs[p][n].new) \/ Allowlist!Ends(p, n)
      /\ syncLost' = syncLost \/ syncLost' = [syncLost EXCEPT ![p] = TRUE]
      /\ UNCHANGED <<clusterLabels, allowlist, known, memory, dirty, signal, timer, synced,
                     overtaken, listChanges, listFaults>>
  BY Gets
<1>2. syncs[p][n].new \in Allowlist!Lists
  BY <1>1 DEF Allowlist!Sync
<1> HIDE DEF new
<1>3. syncs' \in Syncs
  BY <1>1, <1>2, GoesOnTo, EndsThere DEF ListTypes
<1>4. Flags(syncLost')
  <2>1. Flags([syncLost EXCEPT ![p] = TRUE]) /\ Flags(syncLost)
    BY FlagsSet DEF ListTypes
  <2>2. QED
    BY <1>1, <2>1, Zenon
<1>5. QED
  BY <1>1, <1>3, <1>4 DEF ListTypes

LEMMA UpdateTypes ==
    ASSUME ListTypes, NEW p \in Pods, NEW n \in Allowlist!Slots, Allowlist!UpdateAllowlist(p, n)
    PROVE  /\ ListTypes' /\ \A q \in Pods : dirty'[q]
           /\ \A q \in Pods, m \in Allowlist!Slots :
                (syncs'[q][m].stage = "none") <=> (syncs[q][m].stage = "none")
<1> DEFINE list == [allowlist EXCEPT !.lists = syncs[p][n].new]
           s == [syncs[p][n] EXCEPT !.stage = "set"]
           running == [syncs EXCEPT ![p][n] = s]
<1>1. syncs[p][n] \in Allowlist!Sync /\ allowlist \in ConfigMaps
  BY DEF ListTypes, Syncs
<1>2. list \in ConfigMaps /\ s \in Allowlist!Sync /\ s.stage = "set"
  BY <1>1 DEF ConfigMaps, Allowlist!Sync
<1>3. /\ Allowlist!Write(list, running) /\ syncs[p][n].stage = "update"
      /\ UNCHANGED <<clusterLabels, known, memory, signal, timer, synced, syncLost, overtaken,
                     listChanges, listFaults>>
  BY DEF Allowlist!UpdateAllowlist
<1> HIDE DEF list, s
<1>4. /\ running \in Syncs
      /\ \A q \in Pods, m \in Allowlist!Slots :
            running[q][m] = IF q = p /\ m = n THEN s ELSE syncs[q][m]
  BY <1>2 DEF ListTypes, Syncs
<1> HIDE DEF running
<1>5. /\ allowlist' \in ConfigMaps /\ Flags(dirty') /\ syncs' \in Syncs
      /\ \A q \in Pods : dirty'[q]
      /\ \A q \in Pods, m \in Allowlist!Slots :
            (syncs'[q][m].stage = "none") <=> (running[q][m].stage = "none")
  BY <1>2, <1>3, <1>4, ListWritten
<1>6. \A q \in Pods, m \in Allowlist!Slots :
        (running[q][m].stage = "none") <=> (syncs[q][m].stage = "none")
  BY <1>2, <1>3, <1>4
<1>7. QED
  BY <1>3, <1>5, <1>6 DEF ListTypes

LEMMA EndTypes ==
    ASSUME ListTypes, NEW p \in Pods, NEW n \in Allowlist!Slots
    PROVE  /\ Allowlist!setInMemoryAllowlist(p, n) => ListTypes'
           /\ Allowlist!SyncFails(p, n) => ListTypes'
<1>1. ASSUME Allowlist!setInMemoryAllowlist(p, n) PROVE ListTypes'
  <2>1. syncs[p][n] \in Allowlist!Sync
    BY DEF ListTypes, Syncs
  <2>2. memory' \in [Pods -> Allowlist!Lists]
    BY <1>1, <2>1 DEF Allowlist!setInMemoryAllowlist, ListTypes, Allowlist!Sync
  <2>3. syncs' \in Syncs
    BY <1>1, EndsThere DEF Allowlist!setInMemoryAllowlist, ListTypes
  <2>4. QED
    BY <1>1, <2>2, <2>3 DEF Allowlist!setInMemoryAllowlist, ListTypes
<1>2. ASSUME Allowlist!SyncFails(p, n) PROVE ListTypes'
  <2>1. syncs' \in Syncs
    BY <1>2, EndsThere DEF Allowlist!SyncFails, ListTypes
  <2>2. Flags(syncLost')
    BY <1>2, FlagsSet DEF Allowlist!SyncFails, ListTypes
  <2>3. listFaults' \in 0..MaxListFaults
    BY <1>2, ListBounds DEF Allowlist!SyncFails, ListTypes
  <2>4. QED
    BY <1>2, <2>1, <2>2, <2>3 DEF Allowlist!SyncFails, ListTypes
<1>3. QED
  BY <1>1, <1>2

LEMMA ListTypesStay ==
    ASSUME ListTypes, [Allowlist!AllowlistNext]_listVars
    PROVE  ListTypes'
<1>1. CASE UNCHANGED listVars
  BY <1>1 DEF ListTypes, listVars
<1>2. QED
  BY <1>1, ListActions, RestartTypes, HandlerTypes, StartTypes, GetTypes, UpdateTypes, EndTypes
     DEF Allowlist!AllowlistNext, Allowlist!SyncStep

-----------------------------------------------------------------------------
(***************************************************************************)
(* The conditions of the MultiClusterObservability resource                *)
(***************************************************************************)
LEMMA StatusStarts == SystemInit /\ part = "status" => Status!McoStatusInit
  BY DEF SystemInit

LEMMA StatusSteps ==
    ASSUME [SystemNext]_systemVars
    PROVE  /\ part' = part
           /\ part = "status" => [Status!McoStatusNext]_statusVars
  BY DEF SystemNext, systemVars

LEMMA StatusBounds ==
    MaxResourceChanges \in Nat /\ MaxOperandChanges \in Nat /\ MaxMisreads \in Nat
  BY BoundsAssumption

LEMMA ConditionIsSet ==
    ASSUME NEW c \in Status!Conditions, NEW t, NEW r \in Status!Reasons \cup {""}
    PROVE  /\ Status!setStatusCondition(c, t, r) \in Status!Conditions
           /\ Status!RemoveStatusCondition(c, t) \in Status!Conditions
  BY DEF Status!Conditions, Status!setStatusCondition, Status!RemoveStatusCondition

LEMMA NoneIsConditions == Status!None \in Status!Conditions
  BY DEF Status!None, Status!Conditions

\* What is read of the operands, rightly or not
OperandsRead(o) == o = operand \/ o \in Status!Misread(operand)

LEMMA FailureIsReason ==
    ASSUME operand \in Status!OperandType, NEW o, OperandsRead(o)
    PROVE  Status!FirstFailure(o) \in Status!Reasons \cup {""}
<1>1. operand = [storage |-> operand.storage, deployments |-> operand.deployments,
                 statefulSets |-> operand.statefulSets, crds |-> operand.crds]
  BY DEF Status!OperandType
<1>2. /\ o.storage \in {"", "ObjectStorageSecretNotFound", "ObjectStorageConfInvalid"}
      /\ o.deployments \in {"", "DeploymentNotFound", "DeploymentNotReady"}
      /\ o.statefulSets \in {"", "StatefulSetNotFound", "StatefulSetNotReady"}
  BY <1>1 DEF OperandsRead, Status!Misread, Status!OperandType
<1>3. QED
  BY <1>2 DEF Status!FirstFailure, Status!Reasons

LEMMA StatusIsConditions ==
    ASSUME NEW c \in Status!Conditions, NEW s, NEW o,
           Status!FirstFailure(o) \in Status!Reasons \cup {""}
    PROVE  Status!updateStatus(c, s, o) \in Status!Conditions
<1>0. {"Ready", "Installing", "MetricsDisabled", "CRDMissing"} \subseteq Status!Reasons \cup {""}
  BY DEF Status!Reasons
<1> DEFINE c1 == Status!updateInstallStatus(c)
           c2 == Status!updateReadyStatus(c1, o)
           c3 == Status!updateAddonSpecStatus(c2, s)
<1>1. c1 \in Status!Conditions
  BY <1>0, ConditionIsSet DEF Status!updateInstallStatus
<1>2. c2 \in Status!Conditions
  <2> HIDE DEF c1
  <2>1. CASE Status!FirstFailure(o) # ""
    <3>1. Status!RemoveStatusCondition(c1, "Ready") \in Status!Conditions
      BY <1>1, <1>0, ConditionIsSet
    <3>2. QED
      BY <2>1, <3>1, ConditionIsSet DEF Status!updateReadyStatus
  <2>2. CASE Status!FirstFailure(o) = ""
    <3>1. Status!setStatusCondition(c1, "Ready", "Ready") \in Status!Conditions
      BY <1>1, <1>0, ConditionIsSet
    <3>2. Status!RemoveStatusCondition(Status!setStatusCondition(c1, "Ready", "Ready"), "Failed")
            \in Status!Conditions
      BY <3>1, <1>0, ConditionIsSet
    <3>3. QED
      BY <2>2, <3>2, <1>0, ConditionIsSet DEF Status!updateReadyStatus
  <2>3. QED
    BY <2>1, <2>2
<1>3. c3 \in Status!Conditions
  <2> HIDE DEF c2
  <2>1. QED
    BY <1>2, <1>0, ConditionIsSet DEF Status!updateAddonSpecStatus
<1>4. Status!updateStatus(c, s, o) = Status!updateMCOAStatus(c3, s, o)
  BY DEF Status!updateStatus
<1> HIDE DEF c3
<1>5. QED
  BY <1>3, <1>4, <1>0, ConditionIsSet DEF Status!updateMCOAStatus

LEMMA StatusTypesStart == Status!McoStatusInit => Status!McoStatusTypeOK
<1> SUFFICES ASSUME Status!McoStatusInit PROVE Status!McoStatusTypeOK
  OBVIOUS
<1>1. resource \in Status!ResourceType /\ newConds \in Status!Conditions
  BY NoneIsConditions DEF Status!McoStatusInit, Status!ResourceType
<1>2. operand \in Status!OperandType
  BY DEF Status!McoStatusInit, Status!OperandType
<1>3. due \in BOOLEAN /\ overlooked \in BOOLEAN /\ outdated \subseteq {"cache", "read"}
  BY DEF Status!McoStatusInit
<1>4. resourceChanges \in 0..MaxResourceChanges /\ operandChanges \in 0..MaxOperandChanges
      /\ misreads \in 0..MaxMisreads
  <2>1. resourceChanges = 0 /\ operandChanges = 0 /\ misreads = 0
    BY DEF Status!McoStatusInit
  <2>2. QED
    BY <2>1, StatusBounds
<1>5. resourceCache = resource /\ read = resource /\ phase = "idle"
  BY DEF Status!McoStatusInit
<1>6. QED
  BY <1>1, <1>2, <1>3, <1>4, <1>5 DEF Status!McoStatusTypeOK

LEMMA StatusTypesStay ==
    ASSUME Status!McoStatusTypeOK, [Status!McoStatusNext]_statusVars
    PROVE  Status!McoStatusTypeOK'
<1> USE StatusBounds
<1>0. resource = [spec |-> resource.spec, conds |-> resource.conds]
      /\ resource.spec \in ResourceSpecs /\ resource.conds \in Status!Conditions
  BY DEF Status!McoStatusTypeOK, Status!ResourceType
<1>1. ASSUME NEW s \in ResourceSpecs, Status!ChangeResource(s) PROVE Status!McoStatusTypeOK'
  <2>1. resource' = [spec |-> s, conds |-> resource.conds]
    BY <1>0, <1>1 DEF Status!ChangeResource
  <2>2. resource' \in Status!ResourceType
    BY <1>0, <2>1 DEF Status!ResourceType
  <2>3. QED
    BY <1>1, <2>2 DEF Status!ChangeResource, Status!McoStatusTypeOK, Status!Written
<1>2. ASSUME NEW o \in Operands, Status!ChangeOperand(o) PROVE Status!McoStatusTypeOK'
  BY <1>2, StatusAssumption DEF Status!ChangeOperand, Status!McoStatusTypeOK
<1>3. CASE Status!SyncResource
  BY <1>3 DEF Status!SyncResource, Status!McoStatusTypeOK
<1>4. CASE Status!ReadResource
  <2>1. overlooked' \in BOOLEAN
    BY <1>4, StatusAssumption DEF Status!ReadResource, Status!McoStatusTypeOK, Status!ResourceType
  <2>2. due' \in BOOLEAN /\ phase' \in {"idle", "update"} /\ outdated' \subseteq {"cache", "read"}
    BY <1>4 DEF Status!ReadResource
  <2>3. QED
    BY <1>4, <2>1, <2>2 DEF Status!ReadResource, Status!McoStatusTypeOK
<1>5. CASE Status!EvaluateOperands
  <2>1. \E o : OperandsRead(o) /\ Status!Computed(o)
    BY <1>5 DEF Status!EvaluateOperands, OperandsRead
  <2>2. PICK o : OperandsRead(o) /\ Status!Computed(o)
    BY <2>1
  <2>3. read.conds \in Status!Conditions
    BY DEF Status!McoStatusTypeOK, Status!ResourceType
  <2>4. newConds' \in Status!Conditions /\ phase' \in {"idle", "write"}
    BY <2>2, <2>3, FailureIsReason, StatusIsConditions DEF Status!Computed, Status!McoStatusTypeOK
  <2>5. misreads' \in 0..MaxMisreads
    BY <1>5 DEF Status!EvaluateOperands, Status!McoStatusTypeOK
  <2>7. overlooked' = (phase' = "idle" /\ "read" \in outdated) \/ overlooked' = TRUE
    BY <1>5, Zenon DEF Status!EvaluateOperands
  <2>8. overlooked' \in BOOLEAN
    BY <2>7
  <2>6. QED
    BY <1>5, <2>4, <2>5, <2>8 DEF Status!EvaluateOperands, Status!McoStatusTypeOK
<1>6. CASE Status!UpdateStatus
  <2>1. resource' = resource \/ resource' = [spec |-> resource.spec, conds |-> newConds]
    BY <1>0, <1>6 DEF Status!UpdateStatus
  <2>2. resource' \in Status!ResourceType
    BY <1>0, <2>1 DEF Status!ResourceType, Status!McoStatusTypeOK
  <2>3. QED
    BY <1>6, <2>2 DEF Status!UpdateStatus, Status!McoStatusTypeOK, Status!Written
<1>7. CASE UNCHANGED statusVars
  BY <1>7 DEF statusVars, Status!McoStatusTypeOK
<1>8. QED
  BY <1>1, <1>2, <1>3, <1>4, <1>5, <1>6, <1>7 DEF Status!McoStatusNext, Status!ReconcileStatus

-----------------------------------------------------------------------------
(***************************************************************************)
(* The types of all parts                                                  *)
(***************************************************************************)
\* The inductive invariant that the types of a part need
PartInv ==
    /\ part = "lifecycle" => Lifecycle!TypeOK
    /\ part = "storage" => Storage!StorageTypeOK
    /\ part = "status" => Status!McoStatusTypeOK
    /\ part = "objects" => ReadInv /\ Objects!DeployerTypeOK
    /\ part = "certs" => CertInv
    /\ part = "dashboards" => DashTypes
    /\ part = "rules" => TimesInv /\ Rules!RulesTypeOK
    /\ part = "forwarder" => TokenInv /\ RoundInv /\ Forwarder!ForwarderTypeOK
    /\ part = "cmo" => MapsInv /\ Cmo!CmoTypeOK
    /\ part = "allowlist" => ListTypes
    /\ part = "proxy" => CacheInv /\ Proxy!ProxyTypeOK
    /\ part = "tls" => Tls!TlsTypeOK
    /\ part = "hub" => Hub!HubTypeOK

LEMMA PartsStart == SystemInit => PartInv
<1> SUFFICES ASSUME SystemInit PROVE PartInv
  OBVIOUS
<1>1. part = "lifecycle" => Lifecycle!TypeOK
  BY LifecycleTypesStart
<1>2. part = "storage" => Storage!StorageTypeOK
  BY StorageStarts, StorageTypesStart
<1>3. part = "status" => Status!McoStatusTypeOK
  BY StatusStarts, StatusTypesStart
<1>4. part = "objects" => ReadInv /\ Objects!DeployerTypeOK
  BY ObjectsBegin, ObjectsStart, ObjectTypesStart
<1>5. part = "certs" => CertInv
  BY CertsStart, CertsBegin
<1>6. part = "dashboards" => DashTypes
  BY DashboardsStart, DashTypesStart
<1>7. part = "rules" => TimesInv /\ Rules!RulesTypeOK
  BY RulesStart, TimesStart, RulesTypesStart
<1>8. part = "forwarder" => TokenInv /\ RoundInv /\ Forwarder!ForwarderTypeOK
  BY ForwarderStarts, TokenStarts, ForwarderTypesStart
<1>9. part = "cmo" => MapsInv /\ Cmo!CmoTypeOK
  BY CmoStarts, MapsStart, CmoTypesStart
<1>10. part = "allowlist" => ListTypes
  BY AllowlistStarts, ListTypesStart
<1>11. part = "proxy" => CacheInv /\ Proxy!ProxyTypeOK
  BY ProxyStarts, CacheStarts, ProxyTypesStart
<1>12. part = "tls" => Tls!TlsTypeOK
  BY TlsStarts, TlsTypesStart
<1>13. part = "hub" => Hub!HubTypeOK
  BY HubStarts, HubBegins
<1>14. QED
  BY <1>1, <1>2, <1>3, <1>4, <1>5, <1>6, <1>7, <1>8, <1>9, <1>10, <1>11, <1>12, <1>13
     DEF PartInv

LEMMA PartsGoOn == PartInv /\ [SystemNext]_systemVars => PartInv'
<1> SUFFICES ASSUME PartInv, [SystemNext]_systemVars PROVE PartInv'
  OBVIOUS
<1>0. part' = part
  BY TlsSteps
<1>1. part = "lifecycle" => Lifecycle!TypeOK'
  BY LifecycleSteps, LifecycleTypesStay DEF PartInv
<1>2. part = "storage" => Storage!StorageTypeOK'
  BY StorageSteps, StorageTypesStay DEF PartInv
<1>3. part = "status" => Status!McoStatusTypeOK'
  BY StatusSteps, StatusTypesStay DEF PartInv
<1>4. part = "objects" => ReadInv' /\ Objects!DeployerTypeOK'
  BY ObjectsStep, ObjectsKeepRead, ObjectTypesStay DEF PartInv
<1>5. part = "certs" => CertInv'
  BY CertsStep, CertsStay DEF PartInv
<1>6. part = "dashboards" => DashTypes'
  BY DashboardsStep, DashTypesStay DEF PartInv
<1>7. part = "rules" => TimesInv' /\ Rules!RulesTypeOK'
  BY RulesStep, TimesStep, RulesTypesStay DEF PartInv
<1>8. part = "forwarder" => TokenInv' /\ RoundInv' /\ Forwarder!ForwarderTypeOK'
  BY ForwarderSteps, TokenStep, ForwarderTypesStay DEF PartInv
<1>9. part = "cmo" => MapsInv' /\ Cmo!CmoTypeOK'
  BY CmoSteps, MapsStep, CmoTypesStep DEF PartInv, CmoInv
<1>10. part = "allowlist" => ListTypes'
  BY AllowlistSteps, ListTypesStay DEF PartInv
<1>11. part = "proxy" => CacheInv' /\ Proxy!ProxyTypeOK'
  BY ProxySteps, CacheStep, ProxyTypes DEF PartInv
<1>12. part = "tls" => Tls!TlsTypeOK'
  BY TlsSteps, TlsTypes DEF PartInv
<1>13. part = "hub" => Hub!HubTypeOK'
  BY HubSteps, HubStaysTyped DEF PartInv
<1>14. QED
  BY <1>0, <1>1, <1>2, <1>3, <1>4, <1>5, <1>6, <1>7, <1>8, <1>9, <1>10, <1>11, <1>12, <1>13
     DEF PartInv

\* For any value of the constants, every part keeps to its types: what the operators
\* and agents read, remember and write is of the form that the code gives it, the work
\* queue of the dashboards holds no ConfigMap twice, and every counter of a retry is
\* within the maximum that the code compares it with.
THEOREM SystemTypeCorrect == SystemSpec => []SystemTypeOK
<1>1. PartInv => SystemTypeOK
  BY DashTypesAreTypes, ListTypesAreTypes DEF PartInv, SystemTypeOK, CertInv
<1>2. QED
  BY PartsStart, PartsGoOn, <1>1, PTL DEF SystemSpec

-----------------------------------------------------------------------------
(***************************************************************************)
(* At rest: the certificates of the query proxy's connection               *)
(***************************************************************************)
\* What the goroutine has noticed and read is between the links it remembers and
\* the one that is there; conn is compared only when no swap came early.
SwapInv ==
    /\ paths <= files
    /\ tls \in {"reload", "reloadPair"} => paths < files /\ target <= files
    /\ tls = "reloadPair" => target <= caRead /\ caRead <= files
    /\ \/ early
       \/ /\ tls = "newPair" => caRead = files
          /\ tls = "newPaths" => conn = [ca |-> files, pair |-> files]
          /\ tls \notin {"newCA", "newPair", "newPaths"} /\ paths = files =>
               conn = [ca |-> files, pair |-> files]

LEMMA SwapsStart == Tls!TlsInit => SwapInv
  BY DEF Tls!TlsInit, SwapInv

LEMMA SwapsStay ==
    ASSUME Tls!TlsTypeOK, SwapInv, [Tls!TlsNext]_tlsVars
    PROVE  SwapInv'
<1>0. /\ files \in Nat /\ paths \in Nat /\ target \in Nat /\ caRead \in Nat
      /\ early \in BOOLEAN
  BY BoundsAssumption DEF Tls!TlsTypeOK, Tls!Version
<1>1. CASE Tls!Rotate
  <2>1. files' = files + 1 /\ UNCHANGED <<conn, paths, caRead, tls, target>>
    BY <1>1 DEF Tls!Rotate
  <2>2. early \/ tls \in {"newPair", "newPaths"} => early'
    BY <1>1, Zenon DEF Tls!Rotate
  <2>3. QED
    BY <1>0, <2>1, <2>2 DEF SwapInv
<1>2. CASE Tls!newReloadingTransport
  BY <1>0, <1>2 DEF SwapInv, Tls!newReloadingTransport, Tls!reloadTLSConfig
<1>3. CASE Tls!checkForReload
  BY <1>0, <1>3 DEF SwapInv, Tls!checkForReload
<1>4. CASE Tls!Reload
  BY <1>0, <1>4 DEF SwapInv, Tls!Reload, Tls!reloadTLSConfig
<1>5. CASE UNCHANGED tlsVars
  BY <1>5 DEF SwapInv, tlsVars
<1>6. QED
  BY <1>1, <1>2, <1>3, <1>4, <1>5 DEF Tls!TlsNext

\* However the swaps of the files fall between the reads, and whichever reads fail,
\* a goroutine that sees no difference between the links has given the connection the
\* files as they are (checkForReload, reloadTLSConfig).
THEOREM TlsNoSwapMissed == SystemSpec => []NoSwapMissed
<1> DEFINE Inv == PartInv /\ (part = "tls" => SwapInv)
<1>1. SystemInit => Inv
  BY PartsStart, TlsStarts, SwapsStart
<1>2. ASSUME Inv, [SystemNext]_systemVars PROVE Inv'
  <2>1. PartInv' /\ part' = part
    BY <1>2, PartsGoOn, TlsSteps
  <2>2. part = "tls" => SwapInv'
    BY <1>2, TlsSteps, SwapsStay DEF PartInv
  <2>3. QED
    BY <2>1, <2>2
<1>3. Inv => NoSwapMissed
  BY DEF SwapInv, NoSwapMissed, Tls!NoSwapMissed, Tls!CertificatesRight
<1>4. QED
  BY <1>1, <1>2, <1>3, PTL DEF SystemSpec

-----------------------------------------------------------------------------
(***************************************************************************)
(* At rest: the allowlist of labels                                        *)
(***************************************************************************)
Quiet(p) == synced[p] /\ ~dirty[p] /\ ~signal[p] /\ ~timer[p] /\ ~syncLost[p]

Usable == allowlist.there /\ allowlist.parses

Needed(p) == Allowlist!getAllLabels(known[p])

Within(labels, lists) == labels \subseteq lists.labels \cup lists.ignored

\* A synchronization that will put the pod's labels into the ConfigMap
Brings(p, n) ==
    /\ syncs[p][n].needed = Needed(p)
    /\ \/ syncs[p][n].stage \in {"get", "again"}
       \/ syncs[p][n].stage = "update" /\ Within(Needed(p), syncs[p][n].new)

Idle(p) == \A n \in Allowlist!Slots : syncs[p][n].stage = "none"

\* A synchronization that started alone stays alone
Alone(p) ==
    overtaken[p] \/ \A m, n \in Allowlist!Slots :
                       syncs[p][m].stage # "none" /\ syncs[p][n].stage # "none" => m = n

\* What it ends with are the lists
Recalls(p) ==
    overtaken[p] \/ /\ Idle(p) => memory[p] = allowlist.lists
                    /\ \A n \in Allowlist!Slots :
                          syncs[p][n].stage = "set" => syncs[p][n].new = allowlist.lists

LabelsKept(p) ==
    /\ Alone(p)
    /\ Quiet(p) /\ Usable =>
         /\ Within(Needed(p), allowlist.lists) \/ \E n \in Allowlist!Slots : Brings(p, n)
         /\ Recalls(p)

LabelInv == \A p \in Pods : LabelsKept(p)

\* A pod to which nothing happens is as before.
LEMMA KeptAsBefore ==
    ASSUME NEW p \in Pods, LabelsKept(p), allowlist' = allowlist,
           Needed(p)' = Needed(p), memory'[p] = memory[p], dirty'[p] = dirty[p],
           signal'[p] = signal[p], timer'[p] = timer[p], synced'[p] = synced[p],
           syncs'[p] = syncs[p], syncLost'[p] = syncLost[p], overtaken'[p] = overtaken[p]
    PROVE  LabelsKept(p)'
<1>1. Alone(p)'
  BY DEF LabelsKept, Alone
<1>2. ASSUME Quiet(p)', Usable' PROVE Quiet(p) /\ Usable
  BY <1>2 DEF Quiet, Usable
<1>3. Recalls(p) => Recalls(p)'
  BY DEF Recalls, Idle
<1>4. \A n \in Allowlist!Slots : Brings(p, n) => Brings(p, n)'
  BY DEF Brings
<1>5. QED
  BY <1>1, <1>2, <1>3, <1>4 DEF LabelsKept

\* One with something to do has only its synchronizations to be counted.
LEMMA KeptWhenBusy ==
    ASSUME NEW p \in Pods, LabelsKept(p), overtaken'[p] = overtaken[p],
           ~Quiet(p)' \/ ~Usable',
           \A n \in Allowlist!Slots : syncs[p][n].stage = "none" => syncs'[p][n].stage = "none"
    PROVE  LabelsKept(p)'
  BY DEF LabelsKept, Alone

LEMMA SendWakes ==
    ASSUME ListTypes, NEW p \in Pods, NEW needed \in BOOLEAN, Allowlist!Send(p, needed)
    PROVE  /\ needed => signal'[p]
           /\ \A q \in Pods : q # p \/ ~needed => signal'[q] = signal[q]
<1>1. Flags(signal) /\ signal' = [signal EXCEPT ![p] = @ \/ needed]
  BY DEF Allowlist!Send, ListTypes
<1>2. signal'[p] = (signal[p] \/ needed)
  BY <1>1 DEF Flags
<1>3. \A q \in Pods : q # p => signal'[q] = signal[q]
  BY <1>1 DEF Flags
<1>4. signal[p] \in BOOLEAN
  BY <1>1 DEF Flags
<1>5. ~needed => signal'[p] = signal[p]
  BY <1>2, <1>4
<1>6. needed => signal'[p]
  BY <1>2
<1>7. QED
  BY <1>3, <1>5, <1>6

LEMMA EventsServe ==
    ASSUME ListTypes, LabelInv, NEW p \in Pods
    PROVE  /\ \A c \in Clusters : Allowlist!ClusterEvent(p, c) => LabelInv'
           /\ Allowlist!ListEvent(p) => LabelInv'
           /\ Allowlist!CachesSynced(p) => LabelInv'
           /\ Allowlist!debounceSync(p) => LabelInv'
<1>1. ASSUME NEW c \in Clusters, Allowlist!ClusterEvent(p, c) PROVE LabelInv'
  <2> DEFINE needed == Allowlist!getAllLabels(known'[p]) # Allowlist!getAllLabels(known[p])
  <2>1. /\ UNCHANGED <<allowlist, memory, dirty, timer, synced, syncs, syncLost, overtaken>>
        /\ Allowlist!Send(p, needed) /\ needed \in BOOLEAN
        /\ \A q \in Pods : q # p => known'[q] = known[q]
    BY <1>1 DEF Allowlist!ClusterEvent, ListTypes
  <2>2. /\ needed => signal'[p]
        /\ \A q \in Pods : q # p \/ ~needed => signal'[q] = signal[q]
    BY <2>1, SendWakes
  <2>3. ~needed => Needed(p)' = Needed(p)
    BY DEF Needed
  <2>4. \A q \in Pods : q # p => Needed(q)' = Needed(q)
    BY <2>1 DEF Needed
  <2>5. needed => ~Quiet(p)'
    BY <2>2 DEF Quiet
  <2> HIDE DEF needed
  <2>6. LabelsKept(p)'
    BY <2>1, <2>2, <2>3, <2>5, KeptAsBefore, KeptWhenBusy DEF LabelInv
  <2>7. \A q \in Pods : q # p => LabelsKept(q)'
    BY <2>1, <2>2, <2>4, KeptAsBefore DEF LabelInv
  <2>8. QED
    BY <2>6, <2>7 DEF LabelInv
<1>2. ASSUME Allowlist!ListEvent(p) PROVE LabelInv'
  <2>0. UNCHANGED <<known, memory, timer, synced, overtaken>>
    BY <1>2 DEF Allowlist!ListEvent
  <2>1. CASE allowlist.there
    <3>1. /\ UNCHANGED <<allowlist, syncs, syncLost>>
          /\ Allowlist!Send(p, TRUE) /\ dirty' = [dirty EXCEPT ![p] = FALSE]
      BY <1>2, <2>1 DEF Allowlist!ListEvent
    <3>2. signal'[p] /\ \A q \in Pods : q # p => signal'[q] = signal[q]
      BY <3>1, SendWakes
    <3>3. \A q \in Pods : q # p => dirty'[q] = dirty[q]
      BY <3>1 DEF ListTypes, Flags
    <3>4. ~Quiet(p)' /\ \A q \in Pods : Needed(q)' = Needed(q)
      BY <2>0, <3>2 DEF Quiet, Needed
    <3>5. LabelsKept(p)'
      BY <2>0, <3>1, <3>4, KeptWhenBusy DEF LabelInv
    <3>6. \A q \in Pods : q # p => LabelsKept(q)'
      BY <2>0, <3>1, <3>2, <3>3, <3>4, KeptAsBefore DEF LabelInv
    <3>7. QED
      BY <3>5, <3>6 DEF LabelInv
  <2>2. CASE ~allowlist.there /\ Allowlist!Write(Allowlist!Default, syncs)
    <3>1. /\ \A q \in Pods : dirty'[q]
          /\ \A q \in Pods, n \in Allowlist!Slots :
                (syncs'[q][n].stage = "none") <=> (syncs[q][n].stage = "none")
      BY <2>2, ListWritten, FixedLists DEF ListTypes
    <3>2. \A q \in Pods : ~Quiet(q)'
      BY <3>1 DEF Quiet
    <3>3. QED
      BY <2>0, <3>1, <3>2, KeptWhenBusy DEF LabelInv
  <2>3. CASE ~allowlist.there /\ UNCHANGED <<allowlist, syncs>>
    BY <2>0, <2>3, KeptWhenBusy DEF LabelInv, Usable
  <2>4. QED
    BY <1>2, <2>1, <2>2, <2>3, Zenon
       DEF Allowlist!ListEvent, Allowlist!ensureAllowlistConfigMapExists
<1>3. ASSUME Allowlist!CachesSynced(p) PROVE LabelInv'
  <2>1. /\ UNCHANGED <<allowlist, known, memory, dirty, timer, syncs, syncLost, overtaken>>
        /\ Allowlist!Send(p, TRUE) /\ synced' = [synced EXCEPT ![p] = TRUE]
    BY <1>3 DEF Allowlist!CachesSynced
  <2>2. signal'[p] /\ \A q \in Pods : q # p => signal'[q] = signal[q]
    BY <2>1, SendWakes
  <2>3. \A q \in Pods : q # p => synced'[q] = synced[q]
    BY <2>1 DEF ListTypes, Flags
  <2>4. ~Quiet(p)' /\ \A q \in Pods : Needed(q)' = Needed(q)
    BY <2>1, <2>2 DEF Quiet, Needed
  <2>5. LabelsKept(p)'
    BY <2>1, <2>4, KeptWhenBusy DEF LabelInv
  <2>6. \A q \in Pods : q # p => LabelsKept(q)'
    BY <2>1, <2>2, <2>3, <2>4, KeptAsBefore DEF LabelInv
  <2>7. QED
    BY <2>5, <2>6 DEF LabelInv
<1>4. ASSUME Allowlist!debounceSync(p) PROVE LabelInv'
  <2>1. /\ UNCHANGED <<allowlist, known, memory, dirty, synced, syncs, syncLost, overtaken>>
        /\ timer'[p] /\ \A q \in Pods : q # p => timer'[q] = timer[q] /\ signal'[q] = signal[q]
    BY <1>4 DEF Allowlist!debounceSync, ListTypes, Flags
  <2>2. ~Quiet(p)' /\ \A q \in Pods : Needed(q)' = Needed(q)
    BY <2>1 DEF Quiet, Needed
  <2>3. LabelsKept(p)'
    BY <2>1, <2>2, KeptWhenBusy DEF LabelInv
  <2>4. \A q \in Pods : q # p => LabelsKept(q)'
    BY <2>1, <2>2, KeptAsBefore DEF LabelInv
  <2>5. QED
    BY <2>3, <2>4 DEF LabelInv
<1>5. QED
  BY <1>1, <1>2, <1>3, <1>4

\* What generateAllowList makes has every needed label in one of its lists.
LEMMA GeneratedCover ==
    ASSUME NEW now \in Allowlist!Lists, NEW last, NEW needed
    PROVE  Within(needed, Allowlist!generateAllowList(now, last, needed))
  BY DEF Allowlist!generateAllowList, Within

LEMMA StartServes ==
    ASSUME ListTypes, LabelInv, NEW p \in Pods, Allowlist!StartSync(p)
    PROVE  LabelInv'
<1>1. /\ UNCHANGED <<allowlist, known, memory, dirty, signal, synced>>
      /\ \A q \in Pods : q # p => timer'[q] = timer[q]
      /\ \A q \in Pods : Needed(q)' = Needed(q)
  BY DEF Allowlist!StartSync, ListTypes, Flags, Needed
<1>2. CASE ~synced[p]
  <2>1. UNCHANGED <<syncs, overtaken, syncLost>> /\ ~Quiet(p)'
    BY <1>1, <1>2 DEF Allowlist!StartSync, Quiet
  <2>2. LabelsKept(p)'
    BY <2>1, KeptWhenBusy DEF LabelInv
  <2>3. \A q \in Pods : q # p => LabelsKept(q)'
    BY <1>1, <2>1, KeptAsBefore DEF LabelInv
  <2>4. QED
    BY <2>2, <2>3 DEF LabelInv
<1>3. CASE synced[p]
  <2> DEFINE s == [stage |-> "get", needed |-> Allowlist!getAllLabels(known[p]),
                   new |-> Allowlist!Nothing]
  <2>1. PICK n \in Allowlist!Slots \ Allowlist!Running(p) :
               syncs' = [syncs EXCEPT ![p][n] = s] /\ s \in Allowlist!Sync
    BY <1>3, StartsSync
  <2>2. s.stage = "get" /\ s.needed = Needed(p)
    BY DEF Needed
  <2> HIDE DEF s
  <2>3. /\ syncs'[p][n] = s
        /\ \A m \in Allowlist!Slots : m # n => syncs'[p][m] = syncs[p][m]
        /\ \A q \in Pods : q # p => syncs'[q] = syncs[q]
    <3>1. n \in Allowlist!Slots /\ syncs \in Syncs
      BY DEF ListTypes
    <3>2. QED
      BY <2>1, <3>1 DEF Syncs
  <2>4. /\ overtaken' = [overtaken EXCEPT ![p] = Allowlist!Running(p) # {}]
        /\ syncLost' = [syncLost EXCEPT ![p] = FALSE]
    BY <1>3 DEF Allowlist!StartSync
  <2>5. /\ overtaken'[p] = (Allowlist!Running(p) # {})
        /\ \A q \in Pods : q # p => overtaken'[q] = overtaken[q] /\ syncLost'[q] = syncLost[q]
    BY <2>4 DEF ListTypes, Flags
  <2>6. Brings(p, n)'
    BY <1>1, <2>2, <2>3 DEF Brings
  <2>7. ~overtaken'[p] => \A m \in Allowlist!Slots : syncs[p][m].stage = "none"
    BY <2>5 DEF Allowlist!Running
  <2>8. Alone(p)'
    BY <2>3, <2>7 DEF Alone
  <2>9. Recalls(p)'
    <3>1. ~Idle(p)'
      BY <2>2, <2>3 DEF Idle
    <3>2. ~overtaken'[p] => \A m \in Allowlist!Slots : syncs'[p][m].stage # "set"
      BY <2>2, <2>3, <2>7
    <3>3. QED
      BY <3>1, <3>2 DEF Recalls
  <2>10. LabelsKept(p)'
    BY <2>6, <2>8, <2>9 DEF LabelsKept
  <2>11. \A q \in Pods : q # p => LabelsKept(q)'
    BY <1>1, <2>3, <2>5, KeptAsBefore DEF LabelInv
  <2>12. QED
    BY <2>10, <2>11 DEF LabelInv
<1>4. QED
  BY <1>2, <1>3

LEMMA GetServes ==
    ASSUME ListTypes, LabelInv, NEW p \in Pods, NEW n \in Allowlist!Slots,
           Allowlist!GetAllowlist(p, n)
    PROVE  LabelInv'
<1> DEFINE new == Allowlist!generateAllowList(allowlist.lists, memory[p], syncs[p][n].needed)
<1>1. /\ new \in Allowlist!Lists /\ syncs[p][n] \in Allowlist!Sync
      /\ \/ /\ Usable
            /\ Allowlist!GoesOn(p, n, IF new = allowlist.lists THEN "set" ELSE "update", new)
            /\ UNCHANGED syncLost
         \/ /\ ~Usable
            /\ \/ Allowlist!GoesOn(p, n, "set", syncs[p][n].new) \/ Allowlist!Ends(p, n)
            /\ syncLost' = syncLost \/ syncLost' = [syncLost EXCEPT ![p] = TRUE]
      /\ syncs[p][n].stage \in {"get", "again"}
      /\ UNCHANGED <<clusterLabels, allowlist, known, memory, dirty, signal, timer, synced,
                     overtaken, listChanges, listFaults>>
  BY Gets, Zenon DEF Usable
<1>2. \A q \in Pods : Needed(q)' = Needed(q)
  BY <1>1 DEF Needed
<1>3. Within(syncs[p][n].needed, new)
  BY GeneratedCover DEF ListTypes, ConfigMaps
<1>4. /\ syncs[p][n].new \in Allowlist!Lists
      /\ LabelsKept(p) /\ Alone(p)
  BY <1>1 DEF Allowlist!Sync, LabelInv, LabelsKept
<1> HIDE DEF new
<1>5. /\ \A m \in Allowlist!Slots : m # n => syncs'[p][m] = syncs[p][m]
      /\ \A q \in Pods : q # p => syncs'[q] = syncs[q]
  <2>1. syncs \in Syncs
    BY DEF ListTypes
  <2>2. \/ Allowlist!GoesOn(p, n, "set", new) \/ Allowlist!GoesOn(p, n, "update", new)
        \/ Allowlist!GoesOn(p, n, "set", syncs[p][n].new) \/ Allowlist!Ends(p, n)
    BY <1>1
  <2>3. CASE Allowlist!GoesOn(p, n, "set", new)
    BY <1>1, <2>1, <2>3, GoesOnTo
  <2>4. CASE Allowlist!GoesOn(p, n, "update", new)
    BY <1>1, <2>1, <2>4, GoesOnTo
  <2>5. CASE Allowlist!GoesOn(p, n, "set", syncs[p][n].new)
    BY <1>4, <2>1, <2>5, GoesOnTo
  <2>6. CASE Allowlist!Ends(p, n)
    BY <2>1, <2>6, EndsThere
  <2>7. QED
    BY <2>2, <2>3, <2>4, <2>5, <2>6
<1>6. \A q \in Pods : q # p => LabelsKept(q)'
  <2>1. \A q \in Pods : q # p => syncLost'[q] = syncLost[q]
    BY <1>1 DEF ListTypes, Flags
  <2>2. QED
    BY <1>1, <1>2, <1>5, <2>1, KeptAsBefore DEF LabelInv
<1>7. CASE ~Usable
  <2>1. ~Usable'
    BY <1>1, <1>7 DEF Usable
  <2>2. \A m \in Allowlist!Slots : syncs[p][m].stage = "none" => syncs'[p][m].stage = "none"
    BY <1>1, <1>5
  <2>3. QED
    BY <1>1, <1>4, <1>6, <2>1, <2>2, KeptWhenBusy DEF LabelInv
<1>8. CASE Usable
  <2> DEFINE stage == IF new = allowlist.lists THEN "set" ELSE "update"
             s == [stage |-> stage, needed |-> syncs[p][n].needed, new |-> new]
  <2>1. Allowlist!GoesOn(p, n, stage, new) /\ syncLost' = syncLost
    BY <1>1, <1>8
  <2>2. stage \in {"none", "get", "again", "update", "set"}
    OBVIOUS
  <2>3. syncs'[p][n] = s
    BY <1>1, <2>1, <2>2, GoesOnTo DEF ListTypes
  <2>4. /\ s.stage # "none" /\ (s.stage = "set" => s.new = allowlist.lists)
        /\ s.needed = syncs[p][n].needed /\ s.new = new
        /\ s.stage = "update" \/ (s.stage = "set" /\ new = allowlist.lists)
    OBVIOUS
  <2> HIDE DEF s, stage
  <2>5. Alone(p)'
    BY <1>1, <1>4, <1>5 DEF Alone
  <2>6. ASSUME Quiet(p)', Usable'
        PROVE  /\ Recalls(p)'
               /\ Within(Needed(p), allowlist.lists)' \/ \E m \in Allowlist!Slots : Brings(p, m)'
    <3>1. Quiet(p) /\ Usable
      BY <1>1, <1>8, <2>1, <2>6 DEF Quiet
    <3>2. /\ Within(Needed(p), allowlist.lists) \/ \E m \in Allowlist!Slots : Brings(p, m)
          /\ Recalls(p)
      BY <1>4, <3>1 DEF LabelsKept
    <3>3. Recalls(p)'
      BY <1>1, <1>5, <2>3, <2>4, <3>2 DEF Recalls, Idle
    <3>4. CASE Within(Needed(p), allowlist.lists)
      BY <1>1, <1>2, <3>3, <3>4
    <3>5. ASSUME NEW m \in Allowlist!Slots, Brings(p, m), m # n PROVE Brings(p, m)'
      BY <1>2, <1>5, <3>5 DEF Brings
    <3>6. ASSUME Brings(p, n)
          PROVE  Within(Needed(p), allowlist.lists)' \/ Brings(p, n)'
      <4>1. Within(Needed(p), new) /\ s.needed = Needed(p)
        BY <1>3, <2>4, <3>6 DEF Brings
      <4>2. QED
        BY <1>1, <1>2, <2>3, <2>4, <4>1 DEF Brings
    <3>7. QED
      BY <3>2, <3>3, <3>4, <3>5, <3>6
  <2>7. QED
    BY <1>6, <2>5, <2>6 DEF LabelInv, LabelsKept
<1>9. QED
  BY <1>7, <1>8

LEMMA UpdateServes ==
    ASSUME ListTypes, LabelInv, NEW p \in Pods, NEW n \in Allowlist!Slots,
           Allowlist!UpdateAllowlist(p, n)
    PROVE  LabelInv'
<1>1. overtaken' = overtaken
  BY DEF Allowlist!UpdateAllowlist
<1>2. \A q \in Pods : ~Quiet(q)'
  BY UpdateTypes DEF Quiet
<1>3. QED
  BY <1>1, <1>2, UpdateTypes, KeptWhenBusy DEF LabelInv

LEMMA EndServes ==
    ASSUME ListTypes, LabelInv, NEW p \in Pods, NEW n \in Allowlist!Slots
    PROVE  /\ Allowlist!setInMemoryAllowlist(p, n) => LabelInv'
           /\ Allowlist!SyncFails(p, n) => LabelInv'
<1>0. ASSUME Allowlist!Ends(p, n)
      PROVE  /\ syncs'[p][n].stage = "none"
             /\ \A m \in Allowlist!Slots : m # n => syncs'[p][m] = syncs[p][m]
             /\ \A q \in Pods : q # p => syncs'[q] = syncs[q]
  BY <1>0, EndsThere DEF ListTypes, Allowlist!NoSync
<1>1. ASSUME Allowlist!SyncFails(p, n) PROVE LabelInv'
  <2>1. /\ UNCHANGED <<allowlist, known, memory, dirty, signal, timer, synced, overtaken>>
        /\ syncLost'[p] /\ \A q \in Pods : q # p => syncLost'[q] = syncLost[q]
        /\ Allowlist!Ends(p, n)
    BY <1>1 DEF Allowlist!SyncFails, ListTypes, Flags
  <2>2. ~Quiet(p)' /\ \A q \in Pods : Needed(q)' = Needed(q)
    BY <2>1 DEF Quiet, Needed
  <2>3. LabelsKept(p)'
    BY <1>0, <2>1, <2>2, KeptWhenBusy DEF LabelInv
  <2>4. \A q \in Pods : q # p => LabelsKept(q)'
    BY <1>0, <2>1, <2>2, KeptAsBefore DEF LabelInv
  <2>5. QED
    BY <2>3, <2>4 DEF LabelInv
<1>2. ASSUME Allowlist!setInMemoryAllowlist(p, n) PROVE LabelInv'
  <2>1. /\ UNCHANGED <<allowlist, known, dirty, signal, timer, synced, syncLost, overtaken>>
        /\ memory'[p] = syncs[p][n].new /\ \A q \in Pods : q # p => memory'[q] = memory[q]
        /\ Allowlist!Ends(p, n) /\ syncs[p][n].stage = "set"
    BY <1>2 DEF Allowlist!setInMemoryAllowlist, ListTypes
  <2>2. \A q \in Pods : Needed(q)' = Needed(q)
    BY <2>1 DEF Needed
  <2>3. \A q \in Pods : q # p => LabelsKept(q)'
    BY <1>0, <2>1, <2>2, KeptAsBefore DEF LabelInv
  <2>4. LabelsKept(p) /\ Alone(p)
    BY DEF LabelInv, LabelsKept
  <2>5. Alone(p)'
    BY <1>0, <2>1, <2>4 DEF Alone
  <2>6. ASSUME Quiet(p)', Usable'
        PROVE  /\ Recalls(p)'
               /\ Within(Needed(p), allowlist.lists)' \/ \E m \in Allowlist!Slots : Brings(p, m)'
    <3>1. Quiet(p) /\ Usable
      BY <2>1, <2>6 DEF Quiet, Usable
    <3>2. /\ Within(Needed(p), allowlist.lists) \/ \E m \in Allowlist!Slots : Brings(p, m)
          /\ Recalls(p)
      BY <2>4, <3>1 DEF LabelsKept
    <3>3. Recalls(p)'
      <4>1. CASE overtaken[p]
        BY <2>1, <4>1 DEF Recalls
      <4>2. CASE ~overtaken[p]
        <5>1. memory'[p] = allowlist.lists
          BY <2>1, <3>2, <4>2 DEF Recalls
        <5>2. \A m \in Allowlist!Slots : syncs'[p][m].stage = "none"
          BY <1>0, <2>1, <2>4, <4>2 DEF Alone
        <5>3. QED
          BY <2>1, <5>1, <5>2 DEF Recalls
      <4>3. QED
        BY <4>1, <4>2
    <3>4. ASSUME NEW m \in Allowlist!Slots, Brings(p, m) PROVE Brings(p, m)'
      <4>1. m # n
        BY <2>1, <3>4 DEF Brings
      <4>2. QED
        BY <1>0, <2>1, <2>2, <3>4, <4>1 DEF Brings
    <3>5. QED
      BY <2>1, <2>2, <3>2, <3>3, <3>4
  <2>7. QED
    BY <2>3, <2>5, <2>6 DEF LabelInv, LabelsKept
<1>3. QED
  BY <1>1, <1>2

LEMMA LabelsStay ==
    ASSUME ListTypes, LabelInv, [Allowlist!AllowlistNext]_listVars
    PROVE  LabelInv'
<1>1. CASE UNCHANGED listVars \/ \E c \in Clusters : Allowlist!ChangeLabels(c)
  <2>1. UNCHANGED <<allowlist, known, memory, dirty, signal, timer, synced, syncs, syncLost,
                    overtaken>>
    BY <1>1 DEF listVars, Allowlist!ChangeLabels
  <2>2. \A p \in Pods : Needed(p)' = Needed(p)
    BY <2>1 DEF Needed
  <2>3. QED
    BY <2>1, <2>2, KeptAsBefore DEF LabelInv
<1>2. CASE Allowlist!EditList
  <2>1. PICK list \in {[there |-> TRUE, parses |-> TRUE, lists |-> ls] : ls \in UserLists}
                   \cup {[there |-> TRUE, parses |-> FALSE, lists |-> Allowlist!Nothing],
                         [there |-> FALSE, parses |-> FALSE, lists |-> Allowlist!Nothing]} :
               Allowlist!Write(list, syncs)
    BY <1>2 DEF Allowlist!EditList
  <2>2. list \in ConfigMaps
    BY NewConfigMap, FixedLists, AllowlistAssumption
  <2>3. /\ \A q \in Pods : dirty'[q]
        /\ \A q \in Pods, n \in Allowlist!Slots :
              (syncs'[q][n].stage = "none") <=> (syncs[q][n].stage = "none")
    BY <2>1, <2>2, ListWritten DEF ListTypes
  <2>4. overtaken' = overtaken /\ \A q \in Pods : ~Quiet(q)'
    BY <1>2, <2>3 DEF Allowlist!EditList, Quiet
  <2>5. QED
    BY <2>3, <2>4, KeptWhenBusy DEF LabelInv
<1>3. ASSUME NEW p \in Pods, Allowlist!RestartProxy(p) PROVE LabelInv'
  <2>1. \A q \in Pods : q # p => /\ known'[q] = known[q] /\ memory'[q] = memory[q]
                                /\ signal'[q] = signal[q] /\ timer'[q] = timer[q]
                                /\ synced'[q] = synced[q] /\ syncLost'[q] = syncLost[q]
                                /\ overtaken'[q] = overtaken[q]
    BY <1>3 DEF Allowlist!RestartProxy, ListTypes, Flags
  <2>2. LabelsKept(p)'
    <3>1. /\ dirty'[p]
          /\ \A n \in Allowlist!Slots : syncs'[p][n].stage = "none"
      BY <1>3, RestartSyncs
    <3>2. Alone(p)' /\ ~Quiet(p)'
      BY <3>1 DEF Alone, Quiet
    <3>3. QED
      BY <3>2 DEF LabelsKept
  <2>3. ASSUME NEW q \in Pods, q # p PROVE LabelsKept(q)'
    <3>1. \/ dirty'[q] /\ \A n \in Allowlist!Slots :
                             (syncs'[q][n].stage = "none") <=> (syncs[q][n].stage = "none")
          \/ allowlist' = allowlist /\ dirty'[q] = dirty[q] /\ syncs'[q] = syncs[q]
      BY <1>3, <2>3, RestartSyncs
    <3>2. Needed(q)' = Needed(q)
      BY <2>1, <2>3 DEF Needed
    <3>3. CASE dirty'[q] /\ \A n \in Allowlist!Slots :
                             (syncs'[q][n].stage = "none") <=> (syncs[q][n].stage = "none")
      <4>1. ~Quiet(q)'
        BY <3>3 DEF Quiet
      <4>2. QED
        BY <2>1, <2>3, <3>3, <4>1, KeptWhenBusy DEF LabelInv
    <3>4. CASE allowlist' = allowlist /\ dirty'[q] = dirty[q] /\ syncs'[q] = syncs[q]
      BY <2>1, <2>3, <3>2, <3>4, KeptAsBefore DEF LabelInv
    <3>5. QED
      BY <3>1, <3>3, <3>4
  <2>4. QED
    BY <2>2, <2>3 DEF LabelInv
<1>4. QED
  BY <1>1, <1>2, <1>3, EventsServe, StartServes, GetServes, UpdateServes, EndServes
     DEF Allowlist!AllowlistNext, Allowlist!SyncStep

\* For any number of pods and of overlapping synchronizations and any lists: a pod that
\* rests, and none of whose synchronizations has failed since the last one started, has
\* every label it knows of in the ConfigMap, and answers from the ConfigMap as it is
\* unless the last one started beside another, although the pods write it beside each
\* other and the user edits it (syncAllowlistConfigMap, generateAllowList).
THEOREM AllowlistNoLabelMissed == SystemSpec => []NoLabelMissed
<1> DEFINE Inv == PartInv /\ (part = "allowlist" => LabelInv)
<1>1. SystemInit => Inv
  <2>1. Allowlist!AllowlistInit => LabelInv
    <3> SUFFICES ASSUME Allowlist!AllowlistInit, NEW p \in Pods PROVE LabelsKept(p)
      BY DEF LabelInv
    <3>1. ~synced[p] /\ \A n \in Allowlist!Slots : syncs[p][n].stage = "none"
      BY DEF Allowlist!AllowlistInit, Allowlist!NoSync
    <3>2. QED
      BY <3>1 DEF LabelsKept, Alone, Quiet
  <2>2. QED
    BY <2>1, PartsStart, AllowlistStarts
<1>2. ASSUME Inv, [SystemNext]_systemVars PROVE Inv'
  <2>1. PartInv' /\ part' = part
    BY <1>2, PartsGoOn, AllowlistSteps
  <2>2. part = "allowlist" => LabelInv'
    BY <1>2, AllowlistSteps, LabelsStay DEF PartInv
  <2>3. QED
    BY <2>1, <2>2
<1>3. Inv => NoLabelMissed
  <2> SUFFICES ASSUME LabelInv, Usable, NEW p \in Pods, Allowlist!AtRest(p)
               PROVE  /\ Within(Needed(p), allowlist.lists)
                      /\ overtaken[p] \/ memory[p] = allowlist.lists
    BY DEF NoLabelMissed, Allowlist!NoLabelMissed, Usable, Within, Needed
  <2>1. Quiet(p) /\ Idle(p)
    BY DEF Allowlist!AtRest, Allowlist!Running, Quiet, Idle
  <2>2. \A n \in Allowlist!Slots : ~Brings(p, n)
    BY <2>1 DEF Brings, Idle
  <2>3. QED
    BY <2>1, <2>2 DEF LabelInv, LabelsKept, Recalls
<1>4. QED
  BY <1>1, <1>2, <1>3, PTL DEF SystemSpec

-----------------------------------------------------------------------------
(***************************************************************************)
(* At rest: the conditions                                                 *)
(***************************************************************************)
\* The conditions c say what is the case for the spec s and the operands o
Fit(c, s, o) ==
    /\ c["Failed"] = Status!FirstFailure(o)
    /\ (c["Ready"] # "") <=> (Status!FirstFailure(o) = "")
    /\ (c["MetricsDisabled"] # "") <=> ~s.metrics
    /\ (c["MCOADegraded"] # "") <=> (s.mcoa /\ o.crds # Crds)

\* Two specs that differ at most in the annotation that pauses
SameAsked(s, t) == s.metrics = t.metrics /\ s.mcoa = t.mcoa

StatusInv ==
    /\ "cache" \notin outdated => resourceCache = resource
    /\ "read" \notin outdated => read = resource
    /\ phase # "idle" /\ ~due => SameAsked(read.spec, resourceCache.spec)
    /\ phase = "write" /\ ~due /\ ~overlooked => Fit(newConds, read.spec, operand)
    /\ phase = "idle" /\ ~due /\ ~overlooked =>
         Fit(resource.conds, resourceCache.spec, operand)

\* What updateStatus computes says what is the case.
LEMMA UpdateFits ==
    ASSUME NEW c \in Status!Conditions, NEW s \in ResourceSpecs, NEW o
    PROVE  Fit(Status!updateStatus(c, s, o), s, o)
<1> DEFINE types == {"Ready", "Failed", "Installing", "MetricsDisabled", "MCOADegraded"}
           c1 == Status!updateInstallStatus(c)
           c2 == Status!updateReadyStatus(c1, o)
           c3 == Status!updateAddonSpecStatus(c2, s)
<1>0. c \in [types -> Status!Reasons \cup {""}]
  BY DEF Status!Conditions, Status!ConditionTypes
<1>1. DOMAIN c1 = types
  BY <1>0 DEF Status!updateInstallStatus, Status!setStatusCondition
<1>2. /\ DOMAIN c2 = types
      /\ c2["Failed"] = Status!FirstFailure(o)
      /\ (c2["Ready"] # "") <=> (Status!FirstFailure(o) = "")
  <2> HIDE DEF c1
  <2>1. QED
    BY <1>1 DEF Status!updateReadyStatus, Status!setStatusCondition,
                Status!RemoveStatusCondition
<1>3. /\ DOMAIN c3 = types
      /\ c3["Failed"] = c2["Failed"] /\ c3["Ready"] = c2["Ready"]
      /\ (c3["MetricsDisabled"] # "") <=> ~s.metrics
  <2> HIDE DEF c2
  <2>1. QED
    BY <1>2 DEF Status!updateAddonSpecStatus, Status!setStatusCondition,
                Status!RemoveStatusCondition
<1> HIDE DEF c2, c3
<1> DEFINE c4 == Status!updateMCOAStatus(c3, s, o)
<1>4. /\ c4["Failed"] = c3["Failed"] /\ c4["Ready"] = c3["Ready"]
      /\ c4["MetricsDisabled"] = c3["MetricsDisabled"]
      /\ (c4["MCOADegraded"] # "") <=> (s.mcoa /\ o.crds # Crds)
  BY <1>3 DEF Status!updateMCOAStatus, Status!setStatusCondition,
              Status!RemoveStatusCondition
<1>5. Status!updateStatus(c, s, o) = c4
  BY DEF Status!updateStatus, c3, c2
<1> HIDE DEF c4
<1>6. QED
  BY <1>2, <1>3, <1>4, <1>5 DEF Fit

\* Specs that differ in nothing but the pause.
LEMMA PauseWakesNobody ==
    ASSUME NEW s \in ResourceSpecs, NEW t \in ResourceSpecs,
           [t EXCEPT !.paused = s.paused] = s
    PROVE  SameAsked(s, t)
  BY StatusAssumption DEF SameAsked

LEMMA FitsAsWell ==
    ASSUME NEW c, NEW s, NEW t, NEW o, Fit(c, s, o), SameAsked(s, t)
    PROVE  Fit(c, t, o)
  BY DEF Fit, SameAsked

LEMMA StatusStays ==
    ASSUME Status!McoStatusTypeOK, StatusInv, [Status!McoStatusNext]_statusVars
    PROVE  StatusInv'
<1>0. /\ resource.spec \in ResourceSpecs /\ resource.conds \in Status!Conditions
      /\ resourceCache.spec \in ResourceSpecs
      /\ read.spec \in ResourceSpecs /\ read.conds \in Status!Conditions
  BY DEF Status!McoStatusTypeOK, Status!ResourceType
<1>1. ASSUME NEW s \in ResourceSpecs, Status!ChangeResource(s) PROVE StatusInv'
  <2>1. resource'.conds = resource.conds
    BY <1>1 DEF Status!ChangeResource, Status!McoStatusTypeOK, Status!ResourceType
  <2>2. outdated' = {"cache", "read"}
        /\ UNCHANGED <<resourceCache, read, due, phase, newConds, operand, overlooked>>
    BY <1>1 DEF Status!ChangeResource, Status!Written
  <2>3. QED
    BY <2>1, <2>2 DEF StatusInv
<1>2. ASSUME NEW o \in Operands, Status!ChangeOperand(o) PROVE StatusInv'
  BY <1>2 DEF Status!ChangeOperand, StatusInv
<1>3. CASE Status!SyncResource
  <2>1. /\ resourceCache' = resource
        /\ ("read" \in outdated') <=> ("read" \in outdated)
        /\ "cache" \notin outdated'
        /\ UNCHANGED <<resource, read, phase, newConds, operand, overlooked>>
    BY <1>3 DEF Status!SyncResource
  <2>2. ~due' => ~due /\ SameAsked(resourceCache.spec, resource.spec)
    <3> DEFINE woken == [resource.spec EXCEPT !.paused = resourceCache.spec.paused]
                          # resourceCache.spec
    <3>1. due' = (due \/ woken)
      BY <1>3 DEF Status!SyncResource
    <3>2. ~woken => SameAsked(resourceCache.spec, resource.spec)
      BY <1>0, PauseWakesNobody
    <3> HIDE DEF woken
    <3>3. QED
      BY <3>1, <3>2
  <2>3. phase' # "idle" /\ ~due' => SameAsked(read'.spec, resourceCache'.spec)
    BY <2>1, <2>2 DEF StatusInv, SameAsked
  <2>4. phase' = "idle" /\ ~due' /\ ~overlooked' =>
          Fit(resource'.conds, resourceCache'.spec, operand')
    BY <2>1, <2>2, FitsAsWell DEF StatusInv
  <2>5. QED
    BY <2>1, <2>2, <2>3, <2>4 DEF StatusInv
<1>4. CASE Status!ReadResource
  <2>1. /\ phase = "idle" /\ due' = FALSE /\ read' = resourceCache
        /\ overlooked' = resourceCache.spec.paused
        /\ phase' = IF resourceCache.spec.paused THEN "idle" ELSE "update"
        /\ UNCHANGED <<resource, resourceCache, operand>>
    BY <1>4 DEF Status!ReadResource
  <2>2. "read" \notin outdated' => "cache" \notin outdated
    BY <1>4 DEF Status!ReadResource
  <2>3. "cache" \notin outdated' => "cache" \notin outdated
    BY <1>4 DEF Status!ReadResource
  <2>4. phase' = "idle" => overlooked'
    BY <2>1
  <2>5. phase' # "write"
    BY <2>1
  <2>6. QED
    BY <2>1, <2>2, <2>3, <2>4, <2>5 DEF StatusInv, SameAsked
<1>5. CASE Status!EvaluateOperands
  <2>1. /\ phase = "update" /\ phase' \in {"idle", "write"}
        /\ UNCHANGED <<resource, resourceCache, read, outdated, due, operand>>
    BY <1>5 DEF Status!EvaluateOperands, Status!Computed
  <2>2. ~overlooked' => /\ Status!Computed(operand)
                        /\ (phase' = "idle") => "read" \notin outdated
    <3>1. \/ Status!Computed(operand)
             /\ overlooked' = (phase' = "idle" /\ "read" \in outdated)
          \/ overlooked'
      BY <1>5, Zenon DEF Status!EvaluateOperands
    <3>2. QED
      BY <3>1
  <2>3. Status!Computed(operand) =>
          /\ Fit(newConds', read.spec, operand)
          /\ phase' = "idle" => newConds' = read.conds
    BY <1>0, UpdateFits DEF Status!Computed
  <2>4. ASSUME phase' = "idle", ~due', ~overlooked'
        PROVE  Fit(resource'.conds, resourceCache'.spec, operand')
    <3>1. Fit(read.conds, read.spec, operand) /\ read = resource
      BY <2>2, <2>3, <2>4 DEF StatusInv
    <3>2. SameAsked(read.spec, resourceCache.spec)
      BY <2>1, <2>4 DEF StatusInv
    <3>3. QED
      BY <2>1, <3>1, <3>2, FitsAsWell
  <2>5. QED
    BY <2>1, <2>2, <2>3, <2>4 DEF StatusInv
<1>6. CASE Status!UpdateStatus
  <2>1. /\ phase = "write" /\ phase' = "idle"
        /\ UNCHANGED <<resourceCache, read, newConds, operand, overlooked>>
    BY <1>6 DEF Status!UpdateStatus
  <2>2. CASE "read" \in outdated
    BY <1>6, <2>1, <2>2 DEF Status!UpdateStatus, StatusInv
  <2>3. CASE "read" \notin outdated
    <3>1. /\ resource'.conds = newConds /\ outdated' = {"cache", "read"} /\ due' = due
      BY <1>6, <2>3
         DEF Status!UpdateStatus, Status!Written, Status!McoStatusTypeOK, Status!ResourceType
    <3>2. ~due /\ ~overlooked => Fit(newConds, resourceCache.spec, operand)
      BY <2>1, FitsAsWell DEF StatusInv
    <3>3. QED
      BY <2>1, <3>1, <3>2 DEF StatusInv
  <2>4. QED
    BY <2>2, <2>3
<1>7. CASE UNCHANGED statusVars
  BY <1>7 DEF statusVars, StatusInv
<1>8. QED
  BY <1>1, <1>2, <1>3, <1>4, <1>5, <1>6, <1>7 DEF Status!McoStatusNext, Status!ReconcileStatus

\* For any specs and operands: a status controller that has nothing to do, and has
\* not overlooked a change, shows conditions that say what is the case, although
\* its cache lags, users and operands change while it computes, and its writes meet
\* conflicts (updateStatus, Status().Update, GenerationChangedPredicate).
THEOREM StatusNoChangeMissed == SystemSpec => []NoChangeMissed
<1> DEFINE Inv == PartInv /\ (part = "status" => StatusInv)
<1>1. SystemInit => Inv
  <2>1. Status!McoStatusInit => StatusInv
    BY DEF Status!McoStatusInit, StatusInv
  <2>2. QED
    BY <2>1, PartsStart, StatusStarts
<1>2. ASSUME Inv, [SystemNext]_systemVars PROVE Inv'
  <2>1. PartInv' /\ part' = part
    BY <1>2, PartsGoOn, StatusSteps
  <2>2. part = "status" => StatusInv'
    BY <1>2, StatusSteps, StatusStays DEF PartInv
  <2>3. QED
    BY <2>1, <2>2
<1>3. Inv => NoChangeMissed
  BY DEF StatusInv, Fit, NoChangeMissed, Status!NoChangeMissed, Status!Truthful
<1>4. QED
  BY <1>1, <1>2, <1>3, PTL DEF SystemSpec

-----------------------------------------------------------------------------
\* For any constants: no part of the system is at rest with work undone that it has
\* been told of, whatever came between two of its steps.  Each part has its own
\* theorem and inductive invariant, in the module that proves the part's others.
THEOREM SystemNothingMissed == SystemSpec => []NothingMissed
<1>1. /\ ClientsAccepted /\ NoSwapMissed /\ NoLabelMissed /\ NoChangeMissed
      /\ NoDriftMissed /\ NoStanzaMissed /\ NoEditMissed
      => NothingMissed
  BY DEF NothingMissed
<1>2. QED
  BY <1>1, CertsClientsAccepted, TlsNoSwapMissed, AllowlistNoLabelMissed,
     StatusNoChangeMissed, ObjectsNoDriftMissed, MonitoringNoStanzaMissed,
     OperandsNoEditMissed, PTL

=============================================================================
