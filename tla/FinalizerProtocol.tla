------------------------- MODULE FinalizerProtocol --------------------------
(***************************************************************************)
(* What a finalizer of this operator promises, without caches, requests,   *)
(* Reconciles and agents: what must not outlive the finalized object is    *)
(* made only under the finalizer, and the finalizer goes once all of it is *)
(* gone, or because somebody else takes it off by force.  A site is one    *)
(* finalizer and what it protects: a managed cluster with the finalizer of *)
(* the endpoint operator on its ObservabilityAddon, or one of the two      *)
(* controllers of the MultiClusterObservability resource.                  *)
(***************************************************************************)
CONSTANT Sites

VARIABLES
    held,     \* sites under the finalizer
    dirty,    \* sites where something that the finalizer protects is left
    taken     \* sites whose last finalizer was taken by force

finalizerVars == <<held, dirty, taken>>

FinalizerInit == held = {} /\ dirty = {} /\ taken = {}

\* A new finalizer covers also what an earlier one, taken by force, left
Hold(s) == held' = held \cup {s} /\ taken' = taken \ {s} /\ UNCHANGED dirty

\* Work that began under a finalizer may end after somebody has taken it
Soil(s) ==
    /\ s \in held \cup taken
    /\ dirty' = dirty \cup {s} /\ UNCHANGED <<held, taken>>

Clean(s) == dirty' = dirty \ {s} /\ UNCHANGED <<held, taken>>

Release(s) ==
    /\ s \notin dirty
    /\ held' = held \ {s} /\ taken' = taken \ {s} /\ UNCHANGED dirty

Take(s) ==
    /\ s \in held
    /\ held' = held \ {s} /\ taken' = taken \cup {s} /\ UNCHANGED dirty

FinalizerNext == \E s \in Sites : Hold(s) \/ Soil(s) \/ Clean(s) \/ Release(s) \/ Take(s)

FinalizerSpec == FinalizerInit /\ [][FinalizerNext]_finalizerVars

=============================================================================
