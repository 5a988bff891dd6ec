----------------------------- MODULE QueryProxy -----------------------------
(***************************************************************************)
(* A pod of the RBAC query proxy and one user of it.  A query is passed on *)
(* unmodified when the user may see everything, and with the clusters and  *)
(* namespaces the user may see otherwise; a request without a query is     *)
(* passed on as it is (proxy.go, modifier.go).  The user's projects are    *)
(* cached by token (user_project.go).  A tick is one cleaning period of    *)
(* the cache.                                                              *)
(***************************************************************************)
EXTENDS Naturals, FiniteSets

CONSTANTS
    ManagedClusters, \* the clusters there can be
    AllClusters,     \* the key "*" of the access review's answer
    AllNamespaces,   \* the namespace "*"
    Grants,          \* answers of the access review: functions to sets of namespaces
    Expiration,      \* expiredDuration, in ticks
    MaxProjectChanges, \* bound: changes of clusters and projects
    MaxProxyFaults   \* bound: failed calls

VARIABLES
    clusters,     \* the managed clusters the informer knows
    projects,     \* the projects the user may see
    grant,        \* the access review's answer for the user
    entry,        \* the cache: there, the projects, their age, whether the fetch failed
    unchanged,    \* ghost: ticks since the projects changed
    request,      \* "none", "checked", "reviewed", "unmodified", "rewritten", "empty", "error"
    carries,      \* what is in the request (see Contents)
    access,       \* userMetricsAccess of the request
    projectChanges, proxyFaults

proxyVars == <<clusters, projects, grant, entry, unchanged, request, carries, access,
               projectChanges, proxyFaults>>

\* A query, or matchers of series; one that does not parse; other values; no values
Contents == {"query", "malformed", "other", "nothing"}

NoAccess == [c \in {} |-> {}]

ProxyTypeOK ==
    /\ clusters \subseteq ManagedClusters /\ projects \subseteq ManagedClusters
    /\ grant \in Grants
    /\ entry \in [there : BOOLEAN, list : SUBSET ManagedClusters, age : 0..Expiration,
                  failed : BOOLEAN]
    /\ unchanged \in 0..(Expiration + 1)
    /\ request \in {"none", "checked", "reviewed", "unmodified", "rewritten", "empty", "error"}
    /\ carries \in Contents /\ DOMAIN access \subseteq ManagedClusters
    /\ projectChanges \in 0..MaxProjectChanges /\ proxyFaults \in 0..MaxProxyFaults

ProxyInit ==
    /\ clusters \in SUBSET ManagedClusters /\ projects \in SUBSET ManagedClusters
    /\ grant \in Grants
    /\ entry = [there |-> FALSE, list |-> {}, age |-> 0, failed |-> FALSE]
    /\ unchanged = 0 /\ request = "none" /\ carries = "nothing" /\ access = NoAccess
    /\ projectChanges = 0 /\ proxyFaults = 0

ProxyFault == proxyFaults < MaxProxyFaults /\ proxyFaults' = proxyFaults + 1

-----------------------------------------------------------------------------
(* Around the proxy                                                        *)

\* A project comes or goes for the user, a cluster for the informer
ChangeProjects ==
    /\ projectChanges < MaxProjectChanges /\ projectChanges' = projectChanges + 1
    /\ \/ /\ \E c \in ManagedClusters :
               projects' = IF c \in projects THEN projects \ {c} ELSE projects \cup {c}
          /\ unchanged' = 0 /\ UNCHANGED clusters
       \/ /\ \E c \in ManagedClusters :
               clusters' = IF c \in clusters THEN clusters \ {c} ELSE clusters \cup {c}
          /\ UNCHANGED <<projects, unchanged>>
    /\ UNCHANGED <<grant, entry, request, carries, access, proxyFaults>>

\* An entry that has expired is removed by the next cleaning, which runs once a
\* tick: an entry made between two cleanings is Expiration + 1 ticks old by then
cleanExpiredProjectInfo ==
    IF entry.age >= Expiration THEN {[entry EXCEPT !.there = FALSE]}
    ELSE {[entry EXCEPT !.age = @ + 1]}
         \cup {[entry EXCEPT !.there = entry.age + 1 < Expiration, !.age = @ + 1]}

TickProjects ==
    /\ IF entry.there THEN entry' \in cleanExpiredProjectInfo ELSE UNCHANGED entry
    /\ unchanged' = IF unchanged > Expiration THEN unchanged ELSE unchanged + 1
    /\ UNCHANGED <<clusters, projects, grant, request, carries, access, projectChanges,
                   proxyFaults>>

-----------------------------------------------------------------------------
(* A request                                                               *)

GetAndKeepUserProjectList ==
    \/ entry.there /\ entry' = [entry EXCEPT !.age = 0] /\ UNCHANGED proxyFaults
    \/ /\ ~entry.there
       /\ entry' = [there |-> TRUE, list |-> projects, age |-> 0, failed |-> FALSE]
       /\ UNCHANGED proxyFaults
    \/ /\ ~entry.there /\ ProxyFault
       /\ entry' = [there |-> TRUE, list |-> {}, age |-> 0, failed |-> TRUE]

\* The user's projects, from the cache or fetched into it; a fetch that fails is
\* kept as a user without projects
GetUserProjectList ==
    \/ entry.there /\ UNCHANGED <<entry, proxyFaults>>
    \/ /\ ~entry.there
       /\ entry' = [there |-> TRUE, list |-> projects, age |-> 0, failed |-> FALSE]
       /\ UNCHANGED proxyFaults
    \/ /\ ~entry.there /\ ProxyFault
       /\ entry' = [there |-> TRUE, list |-> {}, age |-> 0, failed |-> TRUE]

preCheckRequest ==
    /\ request \in {"none", "unmodified", "rewritten", "empty", "error"}
    /\ GetUserProjectList
    /\ request' = IF clusters = {} THEN "empty" ELSE "checked"
    /\ carries' \in Contents /\ access' = NoAccess
    /\ UNCHANGED <<clusters, projects, grant, unchanged, projectChanges>>

\* What the review grants for all clusters is granted for each of them
Expanded(g) ==
    IF AllClusters \notin DOMAIN g THEN g
    ELSE [c \in (DOMAIN g \ {AllClusters}) \cup clusters |->
            IF c \notin clusters THEN g[c]
            ELSE IF c \in DOMAIN g THEN g[c] \cup g[AllClusters] ELSE g[AllClusters]]

filterProjectsToManagedClusters(list) == list \cap clusters

\* A project of a cluster's name stands for all its namespaces, unless the
\* review names some
Combined(g, list) ==
    [c \in DOMAIN g \cup filterProjectsToManagedClusters(list) |->
        IF c \in DOMAIN g THEN g[c] ELSE {AllNamespaces}]

getUserMetricsACLs ==
    /\ request = "checked"
    /\ \/ /\ GetUserProjectList
          /\ access' = Combined(Expanded(grant), entry'.list)
          /\ request' = "reviewed"
       \/ ProxyFault /\ request' = "error" /\ UNCHANGED <<entry, access>>
    /\ UNCHANGED <<clusters, projects, grant, unchanged, carries, projectChanges>>

canAccessAllClusters(a) == clusters # {} /\ clusters \subseteq DOMAIN a

\* An empty list of namespaces stands for all of them
canAccessAll(a) ==
    /\ clusters # {} \/ DOMAIN a # {}
    /\ \A c \in clusters : c \in DOMAIN a /\ (a[c] = {} \/ AllNamespaces \in a[c])

\* rewriteQueryValues: only a query is restricted to what the user may see
Restricted ==
    CASE carries = "query"     -> "rewritten"
      [] carries = "malformed" -> "error"
      [] OTHER                 -> "unmodified"

\* Modify reads the informer's clusters again
Modify ==
    /\ request = "reviewed"
    /\ request' = IF canAccessAll(access) THEN "unmodified" ELSE Restricted
    /\ UNCHANGED <<clusters, projects, grant, entry, unchanged, carries, access, projectChanges,
                   proxyFaults>>

-----------------------------------------------------------------------------
ProxyNext ==
    \/ ChangeProjects \/ TickProjects \/ preCheckRequest \/ getUserMetricsACLs \/ Modify

ProxySpec == ProxyInit /\ [][ProxyNext]_proxyVars

-----------------------------------------------------------------------------
\* The cache holds other projects than the user's only for as long as an entry
\* lives, counted from the change of the projects, or after a fetch that failed
ProjectsCurrent ==
    entry.there /\ entry.list # projects => entry.failed \/ unchanged <= entry.age

\* A query is passed on unmodified only when every namespace of every cluster the
\* informer knows is granted, by the review or, where it is silent, by a project,
\* also when clusters come and go while the request is handled
UnmodifiedForAll ==
    request = "reviewed" /\ request' = "unmodified" /\ carries \in {"query", "malformed"} =>
        \A c \in clusters :
            \/ \E k \in {c, AllClusters} \cap DOMAIN grant :
                 grant[k] = {} \/ AllNamespaces \in grant[k]
            \/ DOMAIN grant \cap {c, AllClusters} = {} /\ c \in entry.list
UnmodifiedMeansAll == [][UnmodifiedForAll]_proxyVars

=============================================================================
