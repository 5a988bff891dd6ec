----------------------------- MODULE AddonStatus -----------------------------
(***************************************************************************)
(* The vocabulary of the addon's status: the components that report a      *)
(* condition on the ObservabilityAddon of a managed cluster, the reasons   *)
(* they report and the transitions allowed between them (pkg/status), and  *)
(* the standard condition the status controller derives from them          *)
(* (endpointmetrics/controllers/status).                                   *)
(***************************************************************************)
EXTENDS Naturals

Components == {"MetricsCollector", "UwlMetricsCollector"}

Reasons == {"UpdateSuccessful", "UpdateFailed", "ForwardSuccessful", "ForwardFailed",
            "CMOReconcileLoopDetected", "CMOReconcileLoopStopped", "Disabled", "NotSupported"}

\* "none": the component has not reported yet
Reported == Reasons \cup {"none"}

\* the reasons a component may move to from reason r.  None of them is r: the
\* message of a condition does not change without its reason
componentTransitions(r) ==
    CASE r = "UpdateFailed"  -> {"UpdateSuccessful", "Disabled", "NotSupported"}
      [] r = "Disabled"      -> {"UpdateSuccessful", "UpdateFailed", "NotSupported"}
      [] r = "NotSupported"  -> {"UpdateSuccessful", "UpdateFailed", "Disabled"}
      [] r = "CMOReconcileLoopDetected" ->
            {"CMOReconcileLoopStopped", "Disabled", "NotSupported"}
      [] r = "CMOReconcileLoopStopped" -> Reasons \ {r}
      [] OTHER -> Reasons \ {r, "CMOReconcileLoopStopped"}

\* UpdateComponentCondition accepts the report of reason r in state s
Accepts(s, r) == s = "none" \/ r \in componentTransitions(s)

StdTypes == {"Available", "Progressing", "Degraded"}

\* newReason: the priority of a reason among the components, and its type
Priority ==
    [Disabled |-> 1, ForwardSuccessful |-> 2, CMOReconcileLoopStopped |-> 3,
     UpdateSuccessful |-> 4, ForwardFailed |-> 5, CMOReconcileLoopDetected |-> 6,
     UpdateFailed |-> 7, NotSupported |-> 8]

StdType(r) ==
    CASE r = "ForwardSuccessful" -> "Available"
      [] r \in {"UpdateSuccessful", "CMOReconcileLoopStopped"} -> "Progressing"
      [] OTHER -> "Degraded"

Reporting(comp) == {c \in Components : comp[c] # "none"}

\* The component whose reason has the highest priority, the platform collector
\* before the user workload one
Leading(comp) ==
    CHOOSE c \in Reporting(comp) : \A d \in Reporting(comp) \ {c} :
        \/ Priority[comp[c]] > Priority[comp[d]]
        \/ Priority[comp[c]] = Priority[comp[d]] /\ c = "MetricsCollector"

\* The message of a Degraded condition names its component; the others carry a
\* message of the addon as a whole
aggregateComponentsConditions(comp) ==
    LET c == Leading(comp)
        r == comp[c]
    IN  [type |-> StdType(r), reason |-> r,
         by |-> IF StdType(r) = "Degraded" /\ r # "Disabled" THEN c ELSE "addon"]

=============================================================================
