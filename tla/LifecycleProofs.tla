-------------------------- MODULE LifecycleProofs ---------------------------
(***************************************************************************)
(* Theorems about the part "lifecycle" of System: what the finalizers of   *)
(* the two controllers of the MultiClusterObservability resource protect,  *)
(* for any specs, components, namespaces, faults and bounds.               *)
(***************************************************************************)
EXTENDS System, TLAPS

LEMMA LifecycleStarts == SystemInit /\ part = "lifecycle" => Lifecycle!Init
  BY DEF SystemInit

LEMMA LifecycleSteps ==
    ASSUME [SystemNext]_systemVars
    PROVE  /\ part' = part
           /\ part = "lifecycle" => [Lifecycle!Next]_mcoVars
  BY DEF SystemNext, systemVars

-----------------------------------------------------------------------------
(***************************************************************************)
(* The inductive invariant                                                 *)
(***************************************************************************)
\* The copies of the resource are resources.
Copies ==
    /\ mco \in Lifecycle!McoType /\ cache \in Lifecycle!McoType
    /\ snap \in [Lifecycle!Controllers -> Lifecycle!McoType]

Held(c) == mco.there /\ c \in mco.fin

\* As the controllers see it
HeldInCache(c) == cache.there /\ ~cache.deleting /\ c \in cache.fin

\* The controller is on the way to release its finalizer
Leaving(c) ==
    IF c = "mco" THEN mpc \in {"finalize", "release"} ELSE apc \in {"cleanup", "release"}

\* What the MCO controller's finalizer protects, and that it is gone at its release
McoProtected ==
    /\ cma \/ works \/ roles \/ mpc = "deploy" => Held("mco")
    /\ mpc \in {"release", "undeploy"} => ~cma /\ ~works

\* The same of the analytics controller
AnalyticsProtected ==
    /\ policies # {} \/ rsConfig # {} \/ apc \in {"defaults", "refresh", "delegate", "handle"} =>
         Held("analytics")
    /\ apc = "release" => policies = {} /\ rsConfig = {}

\* The cache trails the resource within one life of it
CacheTrails ==
    /\ \A c \in Lifecycle!Controllers : HeldInCache(c) => Held(c)
    /\ cache.there /\ cache.deleting /\ mco.there => mco.deleting

\* A controller that leaves does so for the life that ends
LeavesForGood ==
    \A c \in Lifecycle!Controllers :
        Leaving(c) => /\ Held(c) => mco.deleting
                      /\ ~HeldInCache(c)

FinalizerInv == McoProtected /\ AnalyticsProtected /\ CacheTrails /\ LeavesForGood

-----------------------------------------------------------------------------
(***************************************************************************)
(* Types                                                                   *)
(***************************************************************************)
LEMMA SpecsAreTyped ==
    /\ Lifecycle!NoMco \in Lifecycle!McoType
    /\ \A s \in Specs :
         [there |-> TRUE, deleting |-> FALSE, fin |-> {}, spec |-> s] \in Lifecycle!McoType
<1>1. Lifecycle!AnySpec \in Specs
  BY LifecycleAssumption DEF Lifecycle!AnySpec
<1>2. QED
  BY <1>1, LifecycleAssumption DEF Lifecycle!NoMco, Lifecycle!McoType

LEMMA ChangesAreTyped ==
    ASSUME mco \in Lifecycle!McoType
    PROVE  /\ \A f \in SUBSET Lifecycle!Controllers :
                [mco EXCEPT !.fin = f] \in Lifecycle!McoType
           /\ \A s \in Specs : [mco EXCEPT !.spec = s] \in Lifecycle!McoType
           /\ [mco EXCEPT !.deleting = TRUE] \in Lifecycle!McoType
           /\ [mco EXCEPT !.spec.on = [k \in Kinds |-> IF @[k] = "unset" THEN "on" ELSE @[k]]]
                \in Lifecycle!McoType
<1>1. /\ \A f \in SUBSET Lifecycle!Controllers :
           [mco EXCEPT !.fin = f] \in Lifecycle!McoType
      /\ \A s \in Specs : [mco EXCEPT !.spec = s] \in Lifecycle!McoType
      /\ [mco EXCEPT !.deleting = TRUE] \in Lifecycle!McoType
  BY LifecycleAssumption DEF Lifecycle!McoType, Lifecycle!Finalizers
<1>2. [mco EXCEPT !.spec.on = [k \in Kinds |-> IF @[k] = "unset" THEN "on" ELSE @[k]]]
         \in Lifecycle!McoType
  <2>1. mco.spec \in Lifecycle!SpecType
    BY DEF Lifecycle!McoType
  <2>2. [mco.spec EXCEPT !.on = [k \in Kinds |-> IF @[k] = "unset" THEN "on" ELSE @[k]]]
          \in Lifecycle!SpecType
    BY <2>1 DEF Lifecycle!SpecType
  <2>3. QED
    BY <2>2 DEF Lifecycle!McoType
<1>3. QED
  BY <1>1, <1>2

LEMMA PatchMoves ==
    ASSUME mco \in Lifecycle!McoType, NEW c \in Lifecycle!Controllers,
           NEW f \in SUBSET Lifecycle!Controllers, Lifecycle!Patch(c, f)
    PROVE  /\ mco' \in Lifecycle!McoType
           /\ mco.there /\ works' = works /\ (overruled => overruled')
           /\ mco'.there => /\ mco'.fin = f /\ mco'.deleting = mco.deleting
                            /\ cma' = cma /\ manager' = manager
           /\ ~mco'.there => f = {} /\ ~cma'
           /\ ~overruled' => \A d \in Lifecycle!Controllers \ {c} : d \in f <=> d \in mco.fin
<1>1. mco.there /\ (overruled => overruled')
  BY DEF Lifecycle!Patch, Lifecycle!CanPatch
<1>2. ~overruled' => \A d \in Lifecycle!Controllers \ {c} : d \in f <=> d \in mco.fin
  BY DEF Lifecycle!Patch
<1>3. CASE mco.deleting /\ f = {}
  <2>1. /\ mco' = Lifecycle!NoMco /\ works' = works /\ cma' = FALSE
    BY <1>3 DEF Lifecycle!Patch, Lifecycle!Gone
  <2>2. ~mco'.there
    BY <2>1 DEF Lifecycle!NoMco
  <2>3. QED
    BY <1>1, <1>2, <1>3, <2>1, <2>2, SpecsAreTyped
<1>4. CASE ~(mco.deleting /\ f = {})
  <2>1. mco' = [mco EXCEPT !.fin = f] /\ UNCHANGED <<cma, works, manager>>
    BY <1>4 DEF Lifecycle!Patch, Lifecycle!mcoaVars
  <2>2. mco'.there /\ mco'.fin = f /\ mco'.deleting = mco.deleting
    BY <1>1, <2>1 DEF Lifecycle!McoType
  <2>3. QED
    BY <1>1, <1>2, <2>1, <2>2, ChangesAreTyped
<1>5. QED
  BY <1>3, <1>4

\* A Reconcile patches what it has read, without its own finalizer or with it.
LEMMA FinalizersRead ==
    ASSUME Copies, NEW c \in Lifecycle!Controllers
    PROVE  /\ snap[c].fin \ {c} \in SUBSET Lifecycle!Controllers
           /\ snap[c].fin \cup {c} \in SUBSET Lifecycle!Controllers
  BY DEF Copies, Lifecycle!McoType, Lifecycle!Finalizers

LEMMA GoneIsTyped == Lifecycle!Gone => mco' \in Lifecycle!McoType
  BY SpecsAreTyped DEF Lifecycle!Gone

LEMMA McoStaysTyped ==
    ASSUME Copies, [Lifecycle!Next]_mcoVars
    PROVE  mco' \in Lifecycle!McoType
<1> USE DEF Copies
<1>1. CASE UNCHANGED mco
  BY <1>1
<1>2. CASE Lifecycle!removeFinalizer \/ Lifecycle!addFinalizer
  BY <1>1, <1>2, FinalizersRead, PatchMoves DEF Lifecycle!removeFinalizer, Lifecycle!addFinalizer,
     Lifecycle!McoPatches, Lifecycle!Controllers
<1>3. CASE Lifecycle!removeAnalyticsFinalizer \/ Lifecycle!addAnalyticsFinalizer
  BY <1>1, <1>3, FinalizersRead, PatchMoves DEF Lifecycle!removeAnalyticsFinalizer,
     Lifecycle!addAnalyticsFinalizer, Lifecycle!AnalyticsPatches, Lifecycle!Controllers
<1>4. CASE Lifecycle!ensureRightSizingDefaults
  BY <1>4, ChangesAreTyped DEF Lifecycle!ensureRightSizingDefaults
<1>5. CASE Lifecycle!DeleteMco
  BY <1>5, ChangesAreTyped, GoneIsTyped DEF Lifecycle!DeleteMco
<1>6. ASSUME NEW s \in Specs, Lifecycle!CreateMco(s) \/ Lifecycle!ChangeMco(s)
      PROVE  mco' \in Lifecycle!McoType
  BY <1>6, ChangesAreTyped, SpecsAreTyped DEF Lifecycle!CreateMco, Lifecycle!ChangeMco
<1>7. CASE Lifecycle!MStep
  BY <1>1, <1>2, <1>7 DEF Lifecycle!MStep, Lifecycle!MStart, Lifecycle!initFinalization,
     Lifecycle!Deploy, Lifecycle!cleanMCOA, Lifecycle!Undeploy, Lifecycle!deployOperands
<1>8. CASE Lifecycle!AStep
  BY <1>1, <1>3, <1>4, <1>8 DEF Lifecycle!AStep, Lifecycle!AStart, Lifecycle!refreshInstance,
     Lifecycle!disableAdc, Lifecycle!CleanupRightSizingResources, Lifecycle!Delegate,
     Lifecycle!HandleRightSizing, Lifecycle!syncAdc, Lifecycle!Kept
<1>9. CASE Lifecycle!Environment
  BY <1>1, <1>9 DEF Lifecycle!Environment, Lifecycle!SyncMco, Lifecycle!AddonDeploys,
     Lifecycle!AddonCleans, Lifecycle!WindowElapses, Lifecycle!Kept
<1>10. CASE Lifecycle!MFails \/ Lifecycle!AFails \/ Lifecycle!HandleFails \/ Lifecycle!Restart
  BY <1>1, <1>10 DEF Lifecycle!MFails, Lifecycle!AFails, Lifecycle!HandleFails,
     Lifecycle!Restart
<1>11. QED
  BY <1>1, <1>5, <1>6, <1>7, <1>8, <1>9, <1>10
     DEF Lifecycle!Next, Lifecycle!UserAction, mcoVars

LEMMA CopiesStay ==
    ASSUME Copies, [Lifecycle!Next]_mcoVars
    PROVE  Copies'
<1>1. cache' \in {cache, mco}
  BY DEF Lifecycle!Next, Lifecycle!MStep, Lifecycle!AStep, Lifecycle!Environment,
     Lifecycle!UserAction, mcoVars, Lifecycle!MStart, Lifecycle!initFinalization,
     Lifecycle!removeFinalizer, Lifecycle!addFinalizer, Lifecycle!Deploy, Lifecycle!cleanMCOA,
     Lifecycle!Undeploy, Lifecycle!deployOperands, Lifecycle!MRest, Lifecycle!AStart,
     Lifecycle!refreshInstance, Lifecycle!disableAdc, Lifecycle!CleanupRightSizingResources,
     Lifecycle!removeAnalyticsFinalizer, Lifecycle!addAnalyticsFinalizer,
     Lifecycle!ensureRightSizingDefaults, Lifecycle!Delegate, Lifecycle!HandleRightSizing,
     Lifecycle!syncAdc, Lifecycle!ARest, Lifecycle!SyncMco, Lifecycle!AddonDeploys,
     Lifecycle!AddonCleans, Lifecycle!WindowElapses, Lifecycle!CreateMco, Lifecycle!ChangeMco,
     Lifecycle!DeleteMco, Lifecycle!userUnchanged, Lifecycle!MFails, Lifecycle!AFails,
     Lifecycle!HandleFails, Lifecycle!Restart
<1>2. \/ snap' = snap
      \/ \E c \in Lifecycle!Controllers, m \in {cache, snap["analytics"], Lifecycle!NoMco} :
           snap' = [snap EXCEPT ![c] = m]
      \/ snap' = [c \in Lifecycle!Controllers |-> Lifecycle!NoMco]
  <2>1. \A c, pc : Lifecycle!Forget(c, pc) => snap' \in {snap, [snap EXCEPT ![c] = Lifecycle!NoMco]}
    BY DEF Lifecycle!Forget
  <2>2. CASE \/ Lifecycle!MStart \/ Lifecycle!AStart \/ Lifecycle!refreshInstance
             \/ Lifecycle!Restart \/ UNCHANGED mcoVars
    BY <2>2 DEF Lifecycle!MStart, Lifecycle!AStart, Lifecycle!refreshInstance,
       Lifecycle!Restart, mcoVars, Lifecycle!Controllers
  <2>3. CASE Lifecycle!Environment \/ Lifecycle!UserAction
    BY <2>3 DEF Lifecycle!Environment, Lifecycle!UserAction, Lifecycle!SyncMco,
       Lifecycle!AddonDeploys, Lifecycle!AddonCleans, Lifecycle!WindowElapses,
       Lifecycle!CreateMco, Lifecycle!ChangeMco, Lifecycle!DeleteMco, Lifecycle!userUnchanged
  <2>4. QED
    BY <2>1, <2>2, <2>3
       DEF Lifecycle!Next, Lifecycle!MStep, Lifecycle!AStep, Lifecycle!Controllers
<1>3. snap' \in [Lifecycle!Controllers -> Lifecycle!McoType]
  BY <1>2, SpecsAreTyped DEF Copies, Lifecycle!Controllers
<1>4. QED
  BY <1>1, <1>3, McoStaysTyped DEF Copies

-----------------------------------------------------------------------------
(***************************************************************************)
(* The steps                                                               *)
(***************************************************************************)
LEMMA McoSteps ==
    ASSUME Copies, FinalizerInv, Lifecycle!MStep, ~overruled'
    PROVE  FinalizerInv'
<1> USE DEF FinalizerInv, McoProtected, AnalyticsProtected, CacheTrails, LeavesForGood, Held,
     HeldInCache, Leaving, Lifecycle!Controllers
<1>1. CASE Lifecycle!MStart
  BY <1>1 DEF Lifecycle!MStart, Lifecycle!MRest, Lifecycle!mcoaVars, Lifecycle!rsVars,
     Lifecycle!AfterFinalizers
<1>2. CASE Lifecycle!initFinalization
  BY <1>2 DEF Lifecycle!initFinalization, Lifecycle!cleanupMCOAManifestWorks,
     Lifecycle!MRest, Lifecycle!rsVars
<1>3. CASE Lifecycle!removeFinalizer
  <2>1. /\ mpc = "release" /\ mpc' = "idle" /\ ~roles'
        /\ UNCHANGED <<cache, apc, policies, rsConfig>>
        /\ \/ Lifecycle!Patch("mco", snap["mco"].fin \ {"mco"})
           \/ UNCHANGED <<mco, cma, works>>
    BY <1>3 DEF Lifecycle!removeFinalizer, Lifecycle!McoPatches, Lifecycle!MRest,
       Lifecycle!rsVars, Lifecycle!mcoaVars
  <2>2. CASE Lifecycle!Patch("mco", snap["mco"].fin \ {"mco"})
    BY <2>1, <2>2, FinalizersRead, PatchMoves DEF Copies
  <2>3. CASE UNCHANGED <<mco, cma, works>>
    BY <2>1, <2>3
  <2>4. QED
    BY <2>1, <2>2, <2>3
<1>4. CASE Lifecycle!addFinalizer
  <2>1. /\ mpc = "addFin" /\ mpc' \in {"idle", "deploy"}
        /\ UNCHANGED <<cache, apc, policies, rsConfig, roles>>
        /\ \/ Lifecycle!Patch("mco", snap["mco"].fin \cup {"mco"})
           \/ UNCHANGED <<mco, cma, works>> /\ mpc' = "idle"
    BY <1>4 DEF Lifecycle!addFinalizer, Lifecycle!McoPatches, Lifecycle!MRest,
       Lifecycle!rsVars, Lifecycle!mcoaVars, Lifecycle!AfterFinalizers
  <2>2. CASE Lifecycle!Patch("mco", snap["mco"].fin \cup {"mco"})
    BY <2>1, <2>2, FinalizersRead, PatchMoves DEF Copies
  <2>3. CASE UNCHANGED <<mco, cma, works>> /\ mpc' = "idle"
    BY <2>1, <2>3
  <2>4. QED
    BY <2>1, <2>2, <2>3
<1>5. CASE Lifecycle!Deploy
  BY <1>5 DEF Lifecycle!Deploy, Lifecycle!MRest, Lifecycle!rsVars
<1>6. CASE Lifecycle!cleanMCOA
  BY <1>6 DEF Lifecycle!cleanMCOA, Lifecycle!cleanupMCOAManifestWorks, Lifecycle!MRest,
     Lifecycle!rsVars
<1>7. CASE Lifecycle!Undeploy \/ Lifecycle!deployOperands
  BY <1>7 DEF Lifecycle!Undeploy, Lifecycle!deployOperands, Lifecycle!MRest, Lifecycle!rsVars,
     Lifecycle!mcoaVars
<1>8. QED
  BY <1>1, <1>2, <1>3, <1>4, <1>5, <1>6, <1>7 DEF Lifecycle!MStep

LEMMA AnalyticsSteps ==
    ASSUME Copies, FinalizerInv, Lifecycle!AStep, ~overruled'
    PROVE  FinalizerInv'
<1> USE DEF FinalizerInv, McoProtected, AnalyticsProtected, CacheTrails, LeavesForGood, Held,
     HeldInCache, Leaving, Lifecycle!Controllers
<1>1. CASE Lifecycle!AStart
  BY <1>1 DEF Lifecycle!AStart, Lifecycle!ARest, Lifecycle!Kept, Lifecycle!rsVars
<1>2. CASE Lifecycle!refreshInstance
  BY <1>2 DEF Lifecycle!refreshInstance, Lifecycle!ARest, Lifecycle!Kept, Lifecycle!rsVars,
     Lifecycle!Gate
<1>3. CASE Lifecycle!disableAdc
  BY <1>3 DEF Lifecycle!disableAdc, Lifecycle!Kept, Lifecycle!rsVars
<1>4. CASE Lifecycle!CleanupRightSizingResources
  BY <1>4 DEF Lifecycle!CleanupRightSizingResources, Lifecycle!CleanupRSResourcesByLabel,
     Lifecycle!ARest, Lifecycle!Kept
<1>5. CASE Lifecycle!removeAnalyticsFinalizer
  <2>1. /\ apc = "release" /\ apc' = "idle"
        /\ UNCHANGED <<cache, mpc, policies, rsConfig, roles>>
        /\ \/ Lifecycle!Patch("analytics", snap["analytics"].fin \ {"analytics"})
           \/ UNCHANGED <<mco, cma, works>>
    BY <1>5 DEF Lifecycle!removeAnalyticsFinalizer, Lifecycle!AnalyticsPatches,
       Lifecycle!ARest, Lifecycle!rsVars, Lifecycle!mcoaVars
  <2>2. CASE Lifecycle!Patch("analytics", snap["analytics"].fin \ {"analytics"})
    BY <2>1, <2>2, FinalizersRead, PatchMoves DEF Copies
  <2>3. CASE UNCHANGED <<mco, cma, works>>
    BY <2>1, <2>3
  <2>4. QED
    BY <2>1, <2>2, <2>3
<1>6. CASE Lifecycle!addAnalyticsFinalizer
  <2>1. /\ apc = "addFin" /\ apc' = "idle"
        /\ UNCHANGED <<cache, mpc, policies, rsConfig, roles>>
        /\ \/ Lifecycle!Patch("analytics", snap["analytics"].fin \cup {"analytics"})
           \/ UNCHANGED <<mco, cma, works>>
    BY <1>6 DEF Lifecycle!addAnalyticsFinalizer, Lifecycle!AnalyticsPatches,
       Lifecycle!ARest, Lifecycle!rsVars, Lifecycle!mcoaVars
  <2>2. CASE Lifecycle!Patch("analytics", snap["analytics"].fin \cup {"analytics"})
    BY <2>1, <2>2, FinalizersRead, PatchMoves DEF Copies
  <2>3. CASE UNCHANGED <<mco, cma, works>>
    BY <2>1, <2>3
  <2>4. QED
    BY <2>1, <2>2, <2>3
<1>7. CASE Lifecycle!ensureRightSizingDefaults
  <2>1. /\ apc = "defaults"
        /\ UNCHANGED <<cache, mpc, cma, works, roles, policies, rsConfig>>
        /\ apc' \in {"refresh", "delegate", "handle"}
        /\ mco'.there = mco.there /\ mco'.deleting = mco.deleting /\ mco'.fin = mco.fin
    BY <1>7 DEF Lifecycle!ensureRightSizingDefaults, Lifecycle!ARest, Lifecycle!rsVars,
       Lifecycle!Gate, Copies, Lifecycle!McoType
  <2>2. QED
    BY <2>1
<1>8. CASE Lifecycle!Delegate
  BY <1>8 DEF Lifecycle!Delegate, Lifecycle!CleanupPolicyResourcesForDelegation,
     Lifecycle!ARest, Lifecycle!Kept
<1>9. CASE Lifecycle!HandleRightSizing
  BY <1>9 DEF Lifecycle!HandleRightSizing, Lifecycle!ARest, Lifecycle!Kept
<1>10. CASE Lifecycle!syncAdc
  BY <1>10 DEF Lifecycle!syncAdc, Lifecycle!ARest, Lifecycle!Kept, Lifecycle!rsVars
<1>11. QED
  BY <1>1, <1>2, <1>3, <1>4, <1>5, <1>6, <1>7, <1>8, <1>9, <1>10 DEF Lifecycle!AStep

LEMMA OtherSteps ==
    ASSUME Copies, FinalizerInv, ~overruled',
           \/ Lifecycle!Environment \/ Lifecycle!UserAction \/ Lifecycle!Restart
           \/ Lifecycle!MFails \/ Lifecycle!AFails \/ Lifecycle!HandleFails
           \/ UNCHANGED mcoVars
    PROVE  FinalizerInv'
<1> USE DEF FinalizerInv, McoProtected, AnalyticsProtected, CacheTrails, LeavesForGood, Held,
     HeldInCache, Leaving, Lifecycle!Controllers
<1>1. CASE Lifecycle!SyncMco
  BY <1>1 DEF Lifecycle!SyncMco, Lifecycle!rsVars, Lifecycle!mcoaVars
<1>2. CASE Lifecycle!AddonDeploys \/ Lifecycle!AddonCleans \/ Lifecycle!WindowElapses
  BY <1>2 DEF Lifecycle!AddonDeploys, Lifecycle!AddonCleans, Lifecycle!WindowElapses,
     Lifecycle!ARest, Lifecycle!Kept, Lifecycle!rsVars
<1>3. ASSUME NEW s \in Specs, Lifecycle!CreateMco(s)
      PROVE  FinalizerInv'
  BY <1>3 DEF Lifecycle!CreateMco, Lifecycle!userUnchanged, Lifecycle!rsVars
<1>4. ASSUME NEW s \in Specs, Lifecycle!ChangeMco(s)
      PROVE  FinalizerInv'
  <2>1. /\ UNCHANGED <<cache, mpc, apc, cma, works, roles, policies, rsConfig>>
        /\ mco'.there = mco.there /\ mco'.deleting = mco.deleting /\ mco'.fin = mco.fin
    BY <1>4 DEF Lifecycle!ChangeMco, Lifecycle!userUnchanged, Lifecycle!rsVars, Copies,
       Lifecycle!McoType
  <2>2. QED
    BY <2>1
<1>5. CASE Lifecycle!DeleteMco
  <2>1. UNCHANGED <<cache, mpc, apc, works, roles, policies, rsConfig>>
    BY <1>5 DEF Lifecycle!DeleteMco, Lifecycle!rsVars, Lifecycle!mcoaVars, Lifecycle!Gone
  <2>2. CASE mco.fin = {}
    BY <1>5, <2>1, <2>2 DEF Lifecycle!DeleteMco, Lifecycle!Gone, Lifecycle!NoMco
  <2>3. CASE mco.fin # {}
    <3>1. /\ UNCHANGED cma
          /\ mco'.there = mco.there /\ mco'.deleting = TRUE /\ mco'.fin = mco.fin
      BY <1>5, <2>3 DEF Lifecycle!DeleteMco, Lifecycle!mcoaVars, Copies, Lifecycle!McoType
    <3>2. QED
      BY <2>1, <3>1
  <2>4. QED
    BY <2>2, <2>3
<1>6. CASE Lifecycle!Restart
  BY <1>6 DEF Lifecycle!Restart, Lifecycle!mcoaVars, Lifecycle!rsVars
<1>7. CASE Lifecycle!MFails \/ UNCHANGED mcoVars
  BY <1>7 DEF Lifecycle!MFails, Lifecycle!mcoaVars, Lifecycle!rsVars, mcoVars
<1>8. CASE Lifecycle!AFails
  <2>1. PICK R \in SUBSET policies : policies' = R
    BY <1>8 DEF Lifecycle!AFails
  <2>2. QED
    BY <1>8, <2>1 DEF Lifecycle!AFails, Lifecycle!mcoaVars
<1>9. CASE Lifecycle!HandleFails
  BY <1>9 DEF Lifecycle!HandleFails, Lifecycle!mcoaVars
<1>10. QED
  BY <1>1, <1>2, <1>3, <1>4, <1>5, <1>6, <1>7, <1>8, <1>9
     DEF Lifecycle!Environment, Lifecycle!UserAction

LEMMA OverruledStays ==
    ASSUME [Lifecycle!Next]_mcoVars, Copies
    PROVE  overruled => overruled'
<1>1. CASE UNCHANGED overruled
  BY <1>1
<1>2. CASE Lifecycle!removeFinalizer \/ Lifecycle!addFinalizer
  BY <1>1, <1>2 DEF Lifecycle!removeFinalizer, Lifecycle!addFinalizer,
     Lifecycle!McoPatches, Lifecycle!Patch
<1>3. CASE Lifecycle!removeAnalyticsFinalizer \/ Lifecycle!addAnalyticsFinalizer
  BY <1>1, <1>3 DEF Lifecycle!removeAnalyticsFinalizer, Lifecycle!addAnalyticsFinalizer,
     Lifecycle!AnalyticsPatches, Lifecycle!Patch
<1>4. CASE Lifecycle!MStep
  BY <1>1, <1>2, <1>4 DEF Lifecycle!MStep, Lifecycle!MStart, Lifecycle!initFinalization,
     Lifecycle!Deploy, Lifecycle!cleanMCOA, Lifecycle!Undeploy, Lifecycle!deployOperands
<1>5. CASE Lifecycle!AStep
  BY <1>1, <1>3, <1>5 DEF Lifecycle!AStep, Lifecycle!AStart, Lifecycle!refreshInstance,
     Lifecycle!disableAdc, Lifecycle!CleanupRightSizingResources, Lifecycle!Delegate,
     Lifecycle!HandleRightSizing, Lifecycle!syncAdc, Lifecycle!ensureRightSizingDefaults,
     Lifecycle!Kept
<1>6. CASE Lifecycle!Environment \/ Lifecycle!UserAction
  BY <1>1, <1>6 DEF Lifecycle!Environment, Lifecycle!SyncMco, Lifecycle!AddonDeploys,
     Lifecycle!AddonCleans, Lifecycle!WindowElapses, Lifecycle!Kept, Lifecycle!UserAction,
     Lifecycle!CreateMco, Lifecycle!ChangeMco, Lifecycle!DeleteMco, Lifecycle!userUnchanged
<1>7. CASE Lifecycle!MFails \/ Lifecycle!AFails \/ Lifecycle!HandleFails \/ Lifecycle!Restart
  BY <1>1, <1>7 DEF Lifecycle!MFails, Lifecycle!AFails, Lifecycle!HandleFails,
     Lifecycle!Restart
<1>8. QED
  BY <1>1, <1>4, <1>5, <1>6, <1>7 DEF Lifecycle!Next, mcoVars

LEMMA LifecycleBegins == SystemInit /\ part = "lifecycle" => Copies /\ FinalizerInv
<1> SUFFICES ASSUME Lifecycle!Init PROVE Copies /\ FinalizerInv
  BY LifecycleStarts
<1>1. Copies
  BY SpecsAreTyped DEF Lifecycle!Init, Copies
<1>2. FinalizerInv
  BY DEF Lifecycle!Init, Lifecycle!NoMco, FinalizerInv, McoProtected, AnalyticsProtected,
     CacheTrails, LeavesForGood, Held, HeldInCache, Leaving
<1>3. QED
  BY <1>1, <1>2

LEMMA LifecycleGoesOn ==
    ASSUME [SystemNext]_systemVars,
           part = "lifecycle" => Copies /\ (~overruled => FinalizerInv)
    PROVE  (part = "lifecycle" => Copies /\ (~overruled => FinalizerInv))'
<1> SUFFICES ASSUME part = "lifecycle" PROVE Copies' /\ (~overruled' => FinalizerInv')
  BY LifecycleSteps
<1>1. [Lifecycle!Next]_mcoVars
  BY LifecycleSteps
<1>2. ASSUME FinalizerInv, ~overruled' PROVE FinalizerInv'
  BY <1>1, <1>2, McoSteps, AnalyticsSteps, OtherSteps DEF Lifecycle!Next
<1>3. QED
  BY <1>1, <1>2, CopiesStay, OverruledStays

-----------------------------------------------------------------------------
(***************************************************************************)
(* What the finalizers protect                                             *)
(***************************************************************************)
\* The resource goes by a patch that takes the last finalizer, or at once when it
\* has none.
LEMMA HowItGoes ==
    ASSUME Copies, [Lifecycle!Next]_mcoVars, mco.there, ~mco'.there
    PROVE  /\ works' = works /\ policies' = policies /\ rsConfig' = rsConfig
           /\ \/ mco.fin = {} /\ Lifecycle!DeleteMco
              \/ /\ mpc = "release" /\ ~roles'
                 /\ ~overruled' => mco.fin \subseteq {"mco"}
              \/ /\ apc = "release" /\ roles' = roles
                 /\ ~overruled' => mco.fin \subseteq {"analytics"}
<1>1. CASE mco' = mco
  BY <1>1
<1>2. CASE Lifecycle!removeFinalizer
  <2>1. /\ mpc = "release" /\ ~roles' /\ UNCHANGED <<policies, rsConfig>>
        /\ Lifecycle!Patch("mco", snap["mco"].fin \ {"mco"}) \/ mco' = mco
    BY <1>2 DEF Lifecycle!removeFinalizer, Lifecycle!McoPatches, Lifecycle!MRest,
       Lifecycle!rsVars
  <2>2. QED
    BY <1>1, <2>1, FinalizersRead, PatchMoves
       DEF Copies, Lifecycle!Controllers, Lifecycle!McoType, Lifecycle!Finalizers
<1>3. CASE Lifecycle!removeAnalyticsFinalizer
  <2>1. /\ apc = "release" /\ UNCHANGED <<roles, policies, rsConfig>>
        /\ Lifecycle!Patch("analytics", snap["analytics"].fin \ {"analytics"}) \/ mco' = mco
    BY <1>3 DEF Lifecycle!removeAnalyticsFinalizer, Lifecycle!AnalyticsPatches,
       Lifecycle!ARest, Lifecycle!rsVars
  <2>2. QED
    BY <1>1, <2>1, FinalizersRead, PatchMoves
       DEF Copies, Lifecycle!Controllers, Lifecycle!McoType, Lifecycle!Finalizers
<1>4. CASE Lifecycle!addFinalizer
  <2>1. Lifecycle!Patch("mco", snap["mco"].fin \cup {"mco"}) \/ mco' = mco
    BY <1>4 DEF Lifecycle!addFinalizer, Lifecycle!McoPatches
  <2>2. QED
    BY <1>1, <2>1, FinalizersRead, PatchMoves DEF Copies, Lifecycle!Controllers
<1>5. CASE Lifecycle!addAnalyticsFinalizer
  <2>1. Lifecycle!Patch("analytics", snap["analytics"].fin \cup {"analytics"}) \/ mco' = mco
    BY <1>5 DEF Lifecycle!addAnalyticsFinalizer, Lifecycle!AnalyticsPatches
  <2>2. QED
    BY <1>1, <2>1, FinalizersRead, PatchMoves DEF Copies, Lifecycle!Controllers
<1>6. CASE Lifecycle!ensureRightSizingDefaults
  BY <1>6 DEF Lifecycle!ensureRightSizingDefaults, Copies, Lifecycle!McoType
<1>7. CASE Lifecycle!DeleteMco
  BY <1>7 DEF Lifecycle!DeleteMco, Lifecycle!Gone, Lifecycle!rsVars, Copies, Lifecycle!McoType
<1>8. ASSUME NEW s \in Specs, Lifecycle!CreateMco(s) \/ Lifecycle!ChangeMco(s)
      PROVE  FALSE
  BY <1>8 DEF Lifecycle!CreateMco, Lifecycle!ChangeMco, Copies, Lifecycle!McoType
<1>9. CASE Lifecycle!MStep
  BY <1>1, <1>2, <1>4, <1>9 DEF Lifecycle!MStep, Lifecycle!MStart, Lifecycle!initFinalization,
     Lifecycle!Deploy, Lifecycle!cleanMCOA, Lifecycle!Undeploy, Lifecycle!deployOperands
<1>10. CASE Lifecycle!AStep
  BY <1>1, <1>3, <1>5, <1>6, <1>10 DEF Lifecycle!AStep, Lifecycle!AStart,
     Lifecycle!refreshInstance, Lifecycle!disableAdc, Lifecycle!CleanupRightSizingResources,
     Lifecycle!Delegate, Lifecycle!HandleRightSizing, Lifecycle!syncAdc, Lifecycle!Kept
<1>11. CASE Lifecycle!Environment
  BY <1>1, <1>11 DEF Lifecycle!Environment, Lifecycle!SyncMco, Lifecycle!AddonDeploys,
     Lifecycle!AddonCleans, Lifecycle!WindowElapses, Lifecycle!Kept
<1>12. CASE Lifecycle!MFails \/ Lifecycle!AFails \/ Lifecycle!HandleFails \/ Lifecycle!Restart
  BY <1>1, <1>12 DEF Lifecycle!MFails, Lifecycle!AFails, Lifecycle!HandleFails,
     Lifecycle!Restart
<1>13. QED
  BY <1>1, <1>7, <1>8, <1>9, <1>10, <1>11, <1>12
     DEF Lifecycle!Next, Lifecycle!UserAction, mcoVars

LEMMA GoesClean ==
    ASSUME Copies, FinalizerInv, [Lifecycle!Next]_mcoVars
    PROVE  Lifecycle!DepartsClean
<1> SUFFICES ASSUME mco.there, ~mco'.there, mco.fin # {}, ~overruled'
             PROVE  policies' = {} /\ rsConfig' = {} /\ ~roles' /\ ~works'
  BY DEF Lifecycle!DepartsClean
<1>1. CASE mpc = "release" /\ ~roles' /\ mco.fin \subseteq {"mco"}
  <2>1. ~works
    BY <1>1 DEF FinalizerInv, McoProtected
  <2>2. policies = {} /\ rsConfig = {}
    BY <1>1 DEF FinalizerInv, AnalyticsProtected, Held
  <2>3. ~works'
    BY <2>1, HowItGoes
  <2>4. QED
    BY <1>1, <2>2, <2>3, HowItGoes
<1>2. CASE apc = "release" /\ roles' = roles /\ mco.fin \subseteq {"analytics"}
  <2>1. ~works /\ ~roles /\ policies = {} /\ rsConfig = {}
    BY <1>2 DEF FinalizerInv, McoProtected, AnalyticsProtected, Held
  <2>2. ~roles'
    BY <1>2, <2>1
  <2>3. ~works'
    BY <2>1, HowItGoes
  <2>4. QED
    BY <2>1, <2>2, <2>3, HowItGoes
<1>3. QED
  BY <1>1, <1>2, HowItGoes

\* The addon manager goes with the resource, or is undeployed.
LEMMA HowManagerGoes ==
    ASSUME Copies, [Lifecycle!Next]_mcoVars, manager, ~manager'
    PROVE  (mco.there /\ ~mco'.there) \/ mpc = "undeploy"
<1>1. CASE manager' = manager
  BY <1>1
<1>2. CASE Lifecycle!removeFinalizer \/ Lifecycle!addFinalizer
  BY <1>1, <1>2, FinalizersRead, PatchMoves DEF Copies, Lifecycle!Controllers,
     Lifecycle!removeFinalizer, Lifecycle!addFinalizer, Lifecycle!McoPatches,
     Lifecycle!mcoaVars
<1>3. CASE Lifecycle!removeAnalyticsFinalizer \/ Lifecycle!addAnalyticsFinalizer
  BY <1>1, <1>3, FinalizersRead, PatchMoves DEF Copies, Lifecycle!Controllers,
     Lifecycle!removeAnalyticsFinalizer, Lifecycle!addAnalyticsFinalizer,
     Lifecycle!AnalyticsPatches, Lifecycle!mcoaVars
<1>4. CASE Lifecycle!DeleteMco
  <2>1. mco.there /\ (mco' = Lifecycle!NoMco \/ UNCHANGED manager)
    BY <1>4 DEF Lifecycle!DeleteMco, Lifecycle!Gone, Lifecycle!mcoaVars
  <2>2. ~Lifecycle!NoMco.there
    BY DEF Lifecycle!NoMco
  <2>3. QED
    BY <1>1, <2>1, <2>2
<1>5. CASE Lifecycle!MStep
  BY <1>1, <1>2, <1>5 DEF Lifecycle!MStep, Lifecycle!MStart, Lifecycle!initFinalization,
     Lifecycle!cleanupMCOAManifestWorks, Lifecycle!Deploy, Lifecycle!cleanMCOA,
     Lifecycle!Undeploy, Lifecycle!deployOperands, Lifecycle!mcoaVars
<1>6. CASE Lifecycle!AStep
  BY <1>1, <1>3, <1>6 DEF Lifecycle!AStep, Lifecycle!AStart, Lifecycle!refreshInstance,
     Lifecycle!disableAdc, Lifecycle!CleanupRightSizingResources, Lifecycle!Delegate,
     Lifecycle!HandleRightSizing, Lifecycle!syncAdc, Lifecycle!ensureRightSizingDefaults,
     Lifecycle!Kept
<1>7. CASE Lifecycle!Environment
  BY <1>1, <1>7 DEF Lifecycle!Environment, Lifecycle!SyncMco, Lifecycle!AddonDeploys,
     Lifecycle!AddonCleans, Lifecycle!WindowElapses, Lifecycle!Kept, Lifecycle!mcoaVars
<1>8. CASE \/ Lifecycle!MFails \/ Lifecycle!AFails \/ Lifecycle!HandleFails
           \/ Lifecycle!Restart
  BY <1>1, <1>8 DEF Lifecycle!MFails, Lifecycle!AFails, Lifecycle!HandleFails,
     Lifecycle!Restart, Lifecycle!mcoaVars
<1>9. CASE Lifecycle!UserAction
  BY <1>1, <1>4, <1>9 DEF Lifecycle!UserAction, Lifecycle!CreateMco, Lifecycle!ChangeMco
<1>10. QED
  BY <1>1, <1>5, <1>6, <1>7, <1>8, <1>9 DEF Lifecycle!Next, mcoVars

LEMMA ManagerGoesLast ==
    ASSUME Copies, FinalizerInv, [Lifecycle!Next]_mcoVars
    PROVE  Lifecycle!ManagerLast
<1> SUFFICES ASSUME manager, ~manager', ~overruled' PROVE ~works
  BY DEF Lifecycle!ManagerLast
<1>1. QED
  BY HowManagerGoes, HowItGoes DEF FinalizerInv, McoProtected, Held

\* For any specs, components, failures, restarts and users, the addon manager goes
\* only when the ManifestWorks that it alone cleans up are gone
\* (cleanupMCOAManifestWorks before Undeploy, and before the finalizer goes).
THEOREM LifecycleManagerOutlivesWorks == SystemSpec => ManagerOutlivesWorks
<1> DEFINE Inv == part = "lifecycle" => Copies /\ (~overruled => FinalizerInv)
<1>1. SystemInit => Inv
  BY LifecycleBegins
<1>2. Inv /\ [SystemNext]_systemVars =>
        Inv' /\ [part = "lifecycle" => Lifecycle!ManagerLast]_mcoVars
  <2> SUFFICES ASSUME Inv, [SystemNext]_systemVars
               PROVE  Inv' /\ (part = "lifecycle" => Lifecycle!ManagerLast)
    OBVIOUS
  <2>1. Inv'
    BY LifecycleGoesOn
  <2>2. ASSUME part = "lifecycle" PROVE Lifecycle!ManagerLast
    BY <2>2, LifecycleSteps, OverruledStays, ManagerGoesLast DEF Lifecycle!ManagerLast
  <2>3. QED
    BY <2>1, <2>2
<1>3. QED
  BY <1>1, <1>2, PTL DEF SystemSpec, ManagerOutlivesWorks

-----------------------------------------------------------------------------
(***************************************************************************)
(* The finalizer protocol                                                  *)
(***************************************************************************)
\* What the finalizer of a controller is there for.
LeftOf(c) == IF c = "mco" THEN cma \/ works ELSE policies # {} \/ rsConfig # {}

\* Nothing happens to another controller's finalizer, nor to what it is there for,
\* and the one of c comes and goes, or protects, as the protocol wants it.
MovesFor(c) ==
    /\ \A d \in Lifecycle!Controllers \ {c} :
         (Held(d)' <=> Held(d)) /\ (LeftOf(d)' <=> LeftOf(d))
    /\ \/ (Held(c)' <=> Held(c)) /\ (LeftOf(c)' => LeftOf(c) \/ Held(c))
       \/ (LeftOf(c)' <=> LeftOf(c)) /\ (Held(c) /\ ~Held(c)' => ~LeftOf(c))

LEMMA MovesAreProtocol ==
    ASSUME NEW c \in Lifecycle!Controllers, MovesFor(c)
    PROVE  Lifecycle!Finalizer!FinalizerNext \/ UNCHANGED Lifecycle!Finalizer!finalizerVars
<1> DEFINE under == {d \in Lifecycle!Controllers : Held(d)}
           left == {d \in Lifecycle!Controllers : LeftOf(d)}
<1>1. /\ under = {d \in Lifecycle!Controllers : mco.there /\ d \in mco.fin}
      /\ left = {d \in Lifecycle!Controllers : IF d = "mco" THEN cma \/ works
                                               ELSE policies # {} \/ rsConfig # {}}
      /\ under' = {d \in Lifecycle!Controllers : mco'.there /\ d \in mco'.fin}
      /\ left' = {d \in Lifecycle!Controllers : IF d = "mco" THEN cma' \/ works'
                                                ELSE policies' # {} \/ rsConfig' # {}}
  BY DEF Held, LeftOf
<1>2. /\ under' \in {under, under \cup {c}, under \ {c}}
      /\ left' \in {left, left \cup {c}, left \ {c}}
      /\ \/ under' = under /\ (left' = left \cup {c} => left' = left \/ c \in under)
         \/ left' = left /\ (under' = under \ {c} => under' = under \/ c \notin left)
  BY DEF MovesFor
<1> HIDE DEF under, left
<1>3. \/ under' = under /\ left' = left
      \/ under' = under \cup {c} /\ left' = left
      \/ under' = under \ {c} /\ left' = left /\ c \notin left
      \/ left' = left \cup {c} /\ under' = under /\ c \in under
      \/ left' = left \ {c} /\ under' = under
  BY <1>2
<1>4. QED
  BY <1>1, <1>3
     DEF Lifecycle!Finalizer!FinalizerNext, Lifecycle!Finalizer!finalizerVars,
         Lifecycle!Finalizer!Hold, Lifecycle!Finalizer!Soil, Lifecycle!Finalizer!Clean,
         Lifecycle!Finalizer!Release

\* A patch that takes the finalizer of c off, when what it is for is gone.
LEMMA ReleaseMoves ==
    ASSUME Copies, FinalizerInv, ~overruled', UNCHANGED <<policies, rsConfig>>,
           NEW c \in Lifecycle!Controllers, ~LeftOf(c),
           Lifecycle!Patch(c, snap[c].fin \ {c})
    PROVE  MovesFor(c)
<1> DEFINE f == snap[c].fin \ {c}
<1>1. /\ mco.there /\ works' = works
      /\ mco'.there => mco'.fin = f /\ cma' = cma
      /\ ~mco'.there => f = {} /\ ~cma'
      /\ \A d \in Lifecycle!Controllers \ {c} : d \in f <=> d \in mco.fin
  BY FinalizersRead, PatchMoves DEF Copies
<1>2. \A d \in Lifecycle!Controllers \ {c} : Held(d)' <=> Held(d)
  BY <1>1 DEF Held
<1>3. cma' <=> cma
  <2>1. CASE mco'.there
    BY <1>1, <2>1
  <2>2. CASE ~mco'.there /\ c = "mco"
    BY <1>1, <2>2 DEF LeftOf
  <2>3. CASE ~mco'.there /\ c = "analytics"
    BY <1>1, <2>3 DEF FinalizerInv, McoProtected, Held, Lifecycle!Controllers
  <2>4. QED
    BY <2>1, <2>2, <2>3 DEF Lifecycle!Controllers
<1>4. \A d \in Lifecycle!Controllers : LeftOf(d)' <=> LeftOf(d)
  BY <1>1, <1>3 DEF LeftOf
<1>5. QED
  BY <1>2, <1>4 DEF MovesFor

\* A patch that puts it on.
LEMMA HoldMoves ==
    ASSUME Copies, ~overruled', UNCHANGED <<policies, rsConfig>>,
           NEW c \in Lifecycle!Controllers,
           Lifecycle!Patch(c, snap[c].fin \cup {c})
    PROVE  MovesFor(c)
<1>1. /\ mco.there /\ works' = works
      /\ mco'.there /\ mco'.fin = snap[c].fin \cup {c} /\ cma' = cma
      /\ \A d \in Lifecycle!Controllers \ {c} :
           d \in snap[c].fin \cup {c} <=> d \in mco.fin
  BY FinalizersRead, PatchMoves DEF Copies
<1>2. QED
  BY <1>1 DEF MovesFor, Held, LeftOf

\* Where no finalizer is touched, only what one is for.
LEMMA WorkMoves ==
    ASSUME NEW c \in Lifecycle!Controllers, NEW other \in Lifecycle!Controllers, other # c,
           \A d \in Lifecycle!Controllers : Held(d)' <=> Held(d),
           LeftOf(other)' <=> LeftOf(other),
           LeftOf(c)' => LeftOf(c) \/ Held(c)
    PROVE  MovesFor(c)
  BY DEF MovesFor, Lifecycle!Controllers

LEMMA McoHonours ==
    ASSUME Copies, FinalizerInv, Lifecycle!MStep, ~overruled'
    PROVE  MovesFor("mco")
<1> USE DEF Lifecycle!Controllers
<1>1. UNCHANGED <<policies, rsConfig>>
  BY DEF Lifecycle!MStep, Lifecycle!MStart, Lifecycle!initFinalization, Lifecycle!Deploy,
     Lifecycle!cleanMCOA, Lifecycle!Undeploy, Lifecycle!deployOperands, Lifecycle!addFinalizer,
     Lifecycle!removeFinalizer, Lifecycle!MRest, Lifecycle!rsVars
<1>2. LeftOf("analytics")' <=> LeftOf("analytics")
  BY <1>1 DEF LeftOf
<1>3. ASSUME mco' = mco, works' = works, cma' => cma \/ Held("mco")
      PROVE  MovesFor("mco")
  <2>1. \A d \in Lifecycle!Controllers : Held(d)' <=> Held(d)
    BY <1>3 DEF Held
  <2>2. LeftOf("mco")' => LeftOf("mco") \/ Held("mco")
    BY <1>3 DEF LeftOf
  <2>3. QED
    BY <1>2, <2>1, <2>2, WorkMoves
<1>4. CASE Lifecycle!removeFinalizer
  <2>1. /\ mpc = "release"
        /\ Lifecycle!Patch("mco", snap["mco"].fin \ {"mco"}) \/ UNCHANGED <<mco, cma, works>>
    BY <1>4 DEF Lifecycle!removeFinalizer, Lifecycle!McoPatches, Lifecycle!mcoaVars
  <2>2. ~LeftOf("mco")
    BY <2>1 DEF FinalizerInv, McoProtected, LeftOf
  <2>3. QED
    BY <1>1, <1>3, <2>1, <2>2, ReleaseMoves
<1>5. CASE Lifecycle!addFinalizer
  <2>1. Lifecycle!Patch("mco", snap["mco"].fin \cup {"mco"}) \/ UNCHANGED <<mco, cma, works>>
    BY <1>5 DEF Lifecycle!addFinalizer, Lifecycle!McoPatches, Lifecycle!mcoaVars
  <2>2. QED
    BY <1>1, <1>3, <2>1, HoldMoves
<1>6. CASE Lifecycle!Deploy
  BY <1>3, <1>6 DEF Lifecycle!Deploy, FinalizerInv, McoProtected
<1>7. CASE Lifecycle!MStart \/ Lifecycle!Undeploy \/ Lifecycle!deployOperands
  BY <1>3, <1>7 DEF Lifecycle!MStart, Lifecycle!Undeploy, Lifecycle!deployOperands,
     Lifecycle!mcoaVars
<1>8. CASE Lifecycle!initFinalization \/ Lifecycle!cleanMCOA
  BY <1>3, <1>8 DEF Lifecycle!initFinalization, Lifecycle!cleanMCOA,
     Lifecycle!cleanupMCOAManifestWorks
<1>9. QED
  BY <1>4, <1>5, <1>6, <1>7, <1>8 DEF Lifecycle!MStep

LEMMA AnalyticsHonours ==
    ASSUME Copies, FinalizerInv, Lifecycle!AStep, ~overruled'
    PROVE  MovesFor("analytics")
<1> USE DEF Lifecycle!Controllers
<1>1. ASSUME UNCHANGED <<cma, works>>, \A d \in Lifecycle!Controllers : Held(d)' <=> Held(d),
             LeftOf("analytics")' => LeftOf("analytics") \/ Held("analytics")
      PROVE  MovesFor("analytics")
  <2>1. LeftOf("mco")' <=> LeftOf("mco")
    BY <1>1 DEF LeftOf
  <2>2. QED
    BY <1>1, <2>1, WorkMoves
<1>2. ASSUME mco' = mco PROVE \A d \in Lifecycle!Controllers : Held(d)' <=> Held(d)
  BY <1>2 DEF Held
<1>3. ASSUME UNCHANGED <<policies, rsConfig>>
      PROVE  LeftOf("analytics")' => LeftOf("analytics") \/ Held("analytics")
  BY <1>3 DEF LeftOf
<1>4. CASE Lifecycle!removeAnalyticsFinalizer
  <2>1. /\ apc = "release" /\ UNCHANGED <<policies, rsConfig>>
        /\ \/ Lifecycle!Patch("analytics", snap["analytics"].fin \ {"analytics"})
           \/ UNCHANGED <<mco, cma, works>>
    BY <1>4 DEF Lifecycle!removeAnalyticsFinalizer, Lifecycle!AnalyticsPatches,
       Lifecycle!rsVars, Lifecycle!mcoaVars
  <2>2. ~LeftOf("analytics")
    BY <2>1 DEF FinalizerInv, AnalyticsProtected, LeftOf
  <2>3. QED
    BY <1>1, <1>2, <1>3, <2>1, <2>2, ReleaseMoves
<1>5. CASE Lifecycle!addAnalyticsFinalizer
  <2>1. /\ UNCHANGED <<policies, rsConfig>>
        /\ \/ Lifecycle!Patch("analytics", snap["analytics"].fin \cup {"analytics"})
           \/ UNCHANGED <<mco, cma, works>>
    BY <1>5 DEF Lifecycle!addAnalyticsFinalizer, Lifecycle!AnalyticsPatches,
       Lifecycle!rsVars, Lifecycle!mcoaVars
  <2>2. QED
    BY <1>1, <1>2, <1>3, <2>1, HoldMoves
<1>6. CASE Lifecycle!ensureRightSizingDefaults
  <2>1. /\ UNCHANGED <<cma, works, policies, rsConfig>>
        /\ mco'.there = mco.there /\ mco'.fin = mco.fin
    BY <1>6 DEF Lifecycle!ensureRightSizingDefaults, Lifecycle!rsVars, Copies,
       Lifecycle!McoType
  <2>2. \A d \in Lifecycle!Controllers : Held(d)' <=> Held(d)
    BY <2>1 DEF Held
  <2>3. QED
    BY <1>1, <1>3, <2>1, <2>2
<1>7. CASE Lifecycle!CleanupRightSizingResources
  <2>1. UNCHANGED <<mco, cma, works>> /\ policies' = {} /\ rsConfig' = {}
    BY <1>7 DEF Lifecycle!CleanupRightSizingResources, Lifecycle!Kept,
       Lifecycle!CleanupRSResourcesByLabel
  <2>2. QED
    BY <1>1, <1>2, <2>1 DEF LeftOf
<1>8. CASE Lifecycle!Delegate \/ Lifecycle!HandleRightSizing
  <2>1. UNCHANGED <<mco, cma, works>> /\ apc \in {"delegate", "handle"}
    BY <1>8 DEF Lifecycle!Delegate, Lifecycle!HandleRightSizing, Lifecycle!Kept
  <2>2. Held("analytics")
    BY <2>1 DEF FinalizerInv, AnalyticsProtected
  <2>3. QED
    BY <1>1, <1>2, <2>1, <2>2
<1>9. CASE \/ Lifecycle!AStart \/ Lifecycle!refreshInstance \/ Lifecycle!disableAdc
           \/ Lifecycle!syncAdc
  <2>1. UNCHANGED <<mco, cma, works, policies, rsConfig>>
    BY <1>9 DEF Lifecycle!AStart, Lifecycle!refreshInstance, Lifecycle!disableAdc,
       Lifecycle!syncAdc, Lifecycle!Kept, Lifecycle!rsVars
  <2>2. QED
    BY <1>1, <1>2, <1>3, <2>1
<1>10. QED
  BY <1>4, <1>5, <1>6, <1>7, <1>8, <1>9 DEF Lifecycle!AStep

LEMMA OthersHonour ==
    ASSUME Copies, FinalizerInv, ~overruled',
           \/ Lifecycle!Environment \/ Lifecycle!UserAction \/ Lifecycle!MFails
           \/ Lifecycle!AFails \/ Lifecycle!HandleFails \/ Lifecycle!Restart
    PROVE  \E c \in Lifecycle!Controllers : MovesFor(c)
<1> USE DEF Lifecycle!Controllers
<1>1. ASSUME UNCHANGED <<policies, rsConfig>>, \A d \in Lifecycle!Controllers : Held(d)' <=> Held(d),
             cma' \/ works' => cma \/ works \/ Held("mco")
      PROVE  MovesFor("mco")
  BY <1>1, WorkMoves DEF LeftOf
<1>2. ASSUME UNCHANGED <<mco, cma, works>>,
             LeftOf("analytics")' => LeftOf("analytics") \/ Held("analytics")
      PROVE  MovesFor("analytics")
  BY <1>2, WorkMoves DEF LeftOf, Held
<1>3. ASSUME mco' = mco PROVE \A d \in Lifecycle!Controllers : Held(d)' <=> Held(d)
  BY <1>3 DEF Held
<1>4. CASE Lifecycle!Environment
  <2>1. UNCHANGED <<mco, policies, rsConfig>> /\ (cma' \/ works' => cma \/ works)
    BY <1>4 DEF Lifecycle!Environment, Lifecycle!SyncMco, Lifecycle!AddonDeploys,
       Lifecycle!AddonCleans, Lifecycle!WindowElapses, Lifecycle!Kept, Lifecycle!mcoaVars,
       Lifecycle!rsVars
  <2>2. QED
    BY <1>1, <1>3, <2>1
<1>5. CASE \E s \in Specs : Lifecycle!CreateMco(s) \/ Lifecycle!ChangeMco(s)
  <2>1. /\ UNCHANGED <<cma, works, policies, rsConfig>>
        /\ mco'.there /\ (mco.there => mco'.fin = mco.fin) /\ (~mco.there => mco'.fin = {})
    BY <1>5 DEF Lifecycle!CreateMco, Lifecycle!ChangeMco, Lifecycle!userUnchanged,
       Lifecycle!rsVars, Copies, Lifecycle!McoType
  <2>2. \A d \in Lifecycle!Controllers : Held(d)' <=> Held(d)
    BY <2>1 DEF Held
  <2>3. QED
    BY <1>1, <2>1, <2>2
<1>6. CASE Lifecycle!DeleteMco
  <2>1. UNCHANGED <<works, policies, rsConfig>> /\ mco.there
    BY <1>6 DEF Lifecycle!DeleteMco, Lifecycle!Gone, Lifecycle!mcoaVars, Lifecycle!rsVars
  <2>2. cma' => cma
    BY <1>6 DEF Lifecycle!DeleteMco, Lifecycle!Gone, Lifecycle!mcoaVars
  <2>3. \A d \in Lifecycle!Controllers : Held(d)' <=> Held(d)
    <3>1. CASE mco.fin = {}
      BY <1>6, <3>1 DEF Lifecycle!DeleteMco, Lifecycle!Gone, Lifecycle!NoMco, Held
    <3>2. CASE mco.fin # {}
      BY <1>6, <3>2 DEF Lifecycle!DeleteMco, Held, Copies, Lifecycle!McoType
    <3>3. QED
      BY <3>1, <3>2
  <2>4. QED
    BY <1>1, <2>1, <2>2, <2>3
<1>7. CASE Lifecycle!MFails \/ Lifecycle!Restart
  <2>1. UNCHANGED <<mco, cma, works, policies, rsConfig>>
    BY <1>7 DEF Lifecycle!MFails, Lifecycle!Restart, Lifecycle!mcoaVars, Lifecycle!rsVars
  <2>2. QED
    BY <1>1, <1>3, <2>1
<1>8. CASE Lifecycle!AFails
  <2>1. /\ UNCHANGED <<mco, cma, works, rsConfig>>
        /\ policies' = policies \/ apc \in {"cleanup", "delegate"}
    BY <1>8 DEF Lifecycle!AFails, Lifecycle!mcoaVars
  <2>2. policies' \subseteq policies
    BY <1>8 DEF Lifecycle!AFails
  <2>3. QED
    BY <1>2, <2>1, <2>2 DEF LeftOf
<1>9. CASE Lifecycle!HandleFails
  <2>1. UNCHANGED <<mco, cma, works>> /\ apc = "handle"
    BY <1>9 DEF Lifecycle!HandleFails, Lifecycle!mcoaVars
  <2>2. QED
    BY <1>2, <2>1 DEF FinalizerInv, AnalyticsProtected
<1>10. QED
  BY <1>4, <1>5, <1>6, <1>7, <1>8, <1>9 DEF Lifecycle!UserAction

LEMMA StepsHonour ==
    ASSUME Copies, FinalizerInv, [Lifecycle!Next]_mcoVars
    PROVE  Lifecycle!HonoursFinalizers
<1> SUFFICES ASSUME ~overruled'
             PROVE  \/ Lifecycle!Finalizer!FinalizerNext
                    \/ UNCHANGED Lifecycle!Finalizer!finalizerVars
  BY DEF Lifecycle!HonoursFinalizers
<1>1. CASE UNCHANGED mcoVars
  BY <1>1 DEF mcoVars, Lifecycle!Finalizer!finalizerVars
<1>2. CASE Lifecycle!Next
  <2>1. \E c \in Lifecycle!Controllers : MovesFor(c)
    BY <1>2, McoHonours, AnalyticsHonours, OthersHonour DEF Lifecycle!Next, Lifecycle!Controllers
  <2>2. QED
    BY <2>1, MovesAreProtocol
<1>3. QED
  BY <1>1, <1>2

\* For any specs, components, failures, restarts and users, the steps of the two
\* controllers, of MCOA and of the garbage collector are steps of the finalizer
\* protocol: what outlives the resource is made under the finalizer of the controller
\* that makes it, and the finalizer goes when it is gone.  When the resource goes
\* although it had a finalizer, nothing of either is left (addFinalizer,
\* initFinalization, CleanupRightSizingResources).
THEOREM LifecycleFinalizersHonoured == SystemSpec => FinalizersHonoured
<1> DEFINE Inv == part = "lifecycle" => Copies /\ (~overruled => FinalizerInv)
           Honour == part = "lifecycle" =>
                       Lifecycle!HonoursFinalizers /\ Lifecycle!DepartsClean
<1>1. SystemInit => Inv
  BY LifecycleBegins
<1>2. Inv /\ [SystemNext]_systemVars => Inv' /\ [Honour]_mcoVars
  <2> SUFFICES ASSUME Inv, [SystemNext]_systemVars
               PROVE  Inv' /\ Honour
    OBVIOUS
  <2>1. Inv'
    BY LifecycleGoesOn
  <2>2. ASSUME part = "lifecycle" PROVE Lifecycle!HonoursFinalizers
    BY <2>2, LifecycleSteps, OverruledStays, StepsHonour DEF Lifecycle!HonoursFinalizers
  <2>3. ASSUME part = "lifecycle" PROVE Lifecycle!DepartsClean
    BY <2>3, LifecycleSteps, OverruledStays, GoesClean DEF Lifecycle!DepartsClean
  <2>4. QED
    BY <2>1, <2>2, <2>3
<1>3. QED
  BY <1>1, <1>2, PTL DEF SystemSpec, FinalizersHonoured

-----------------------------------------------------------------------------
(***************************************************************************)
(* The types of the rest                                                   *)
(***************************************************************************)
LEMMA LifecycleBounds == MaxChanges \in Nat /\ MaxFaults \in Nat
  BY BoundsAssumption

LEMMA LifecycleTypesStart ==
    ASSUME SystemInit, part = "lifecycle" PROVE Lifecycle!TypeOK
<1>1. Lifecycle!Init
  BY LifecycleStarts
<1>2. /\ mco \in Lifecycle!McoType /\ cache \in Lifecycle!McoType
      /\ snap \in [Lifecycle!Controllers -> Lifecycle!McoType]
  BY <1>1, SpecsAreTyped DEF Lifecycle!Init
<1>3. /\ req \in [Lifecycle!Controllers -> BOOLEAN]
      /\ mpc \in Lifecycle!MSteps /\ apc \in Lifecycle!ASteps
  BY <1>1 DEF Lifecycle!Init, Lifecycle!MSteps, Lifecycle!ASteps
<1>4. {terminating, cma, works, manager, roles, operands, wasDelegated, overruled, misplaced}
          \subseteq BOOLEAN
  BY <1>1, Zenon DEF Lifecycle!Init
<1>5. adc \in Lifecycle!AdcType
  BY <1>1 DEF Lifecycle!Init, Lifecycle!NoAdc, Lifecycle!AdcType
<1>6. /\ policies \subseteq Kinds \X Namespaces \X Lifecycle!PolicyParts
      /\ rsConfig \subseteq Kinds
      /\ state \in [Kinds -> [ns : Namespaces, enabled : BOOLEAN]]
      /\ cleanupAt \in {"zero", "waiting", "elapsed"}
  BY <1>1, LifecycleAssumption DEF Lifecycle!Init, Lifecycle!FreshState
<1>7. changes \in 0..MaxChanges /\ faults \in 0..MaxFaults
  BY <1>1, LifecycleBounds DEF Lifecycle!Init
<1>8. QED
  BY <1>2, <1>3, <1>4, <1>5, <1>6, <1>7 DEF Lifecycle!TypeOK

LEMMA WhereReconcilesAre ==
    ASSUME mpc \in Lifecycle!MSteps, apc \in Lifecycle!ASteps,
           cleanupAt \in {"zero", "waiting", "elapsed"}, [Lifecycle!Next]_mcoVars
    PROVE  /\ mpc' \in Lifecycle!MSteps /\ apc' \in Lifecycle!ASteps
           /\ cleanupAt' \in {"zero", "waiting", "elapsed"}
<1> USE DEF Lifecycle!Next, Lifecycle!MStep, Lifecycle!AStep, Lifecycle!Environment,
     Lifecycle!UserAction, mcoVars, Lifecycle!MStart, Lifecycle!initFinalization,
     Lifecycle!removeFinalizer, Lifecycle!addFinalizer, Lifecycle!Deploy, Lifecycle!cleanMCOA,
     Lifecycle!Undeploy, Lifecycle!deployOperands, Lifecycle!MRest, Lifecycle!AStart,
     Lifecycle!refreshInstance, Lifecycle!disableAdc, Lifecycle!CleanupRightSizingResources,
     Lifecycle!removeAnalyticsFinalizer, Lifecycle!addAnalyticsFinalizer,
     Lifecycle!ensureRightSizingDefaults, Lifecycle!Delegate, Lifecycle!HandleRightSizing,
     Lifecycle!syncAdc, Lifecycle!ARest, Lifecycle!SyncMco, Lifecycle!AddonDeploys,
     Lifecycle!AddonCleans, Lifecycle!WindowElapses, Lifecycle!CreateMco, Lifecycle!ChangeMco,
     Lifecycle!DeleteMco, Lifecycle!userUnchanged, Lifecycle!MFails, Lifecycle!AFails,
     Lifecycle!HandleFails, Lifecycle!Restart, Lifecycle!memVars, Lifecycle!MSteps, Lifecycle!ASteps,
     Lifecycle!McoPatches, Lifecycle!AnalyticsPatches, Lifecycle!AfterFinalizers, Lifecycle!Gate,
     Lifecycle!cleanupMCOAManifestWorks
<1>1. mpc' \in Lifecycle!MSteps
  OBVIOUS
<1>2. apc' \in Lifecycle!ASteps
  OBVIOUS
<1>3. cleanupAt' \in {"zero", "waiting", "elapsed"}
  OBVIOUS
<1>4. QED
  BY <1>1, <1>2, <1>3

LEMMA LifecycleCounts ==
    ASSUME changes \in 0..MaxChanges, faults \in 0..MaxFaults, [Lifecycle!Next]_mcoVars
    PROVE  changes' \in 0..MaxChanges /\ faults' \in 0..MaxFaults
<1>1. /\ \/ changes' = changes
         \/ changes < MaxChanges /\ changes' = changes + 1
      /\ \/ faults' = faults
         \/ faults < MaxFaults /\ faults' = faults + 1
  BY DEF Lifecycle!Next, Lifecycle!MStep, Lifecycle!AStep, Lifecycle!Environment,
     Lifecycle!UserAction, mcoVars, Lifecycle!MStart, Lifecycle!initFinalization,
     Lifecycle!removeFinalizer, Lifecycle!addFinalizer, Lifecycle!Deploy, Lifecycle!cleanMCOA,
     Lifecycle!Undeploy, Lifecycle!deployOperands, Lifecycle!MRest, Lifecycle!AStart,
     Lifecycle!refreshInstance, Lifecycle!disableAdc, Lifecycle!CleanupRightSizingResources,
     Lifecycle!removeAnalyticsFinalizer, Lifecycle!addAnalyticsFinalizer,
     Lifecycle!ensureRightSizingDefaults, Lifecycle!Delegate, Lifecycle!HandleRightSizing,
     Lifecycle!syncAdc, Lifecycle!ARest, Lifecycle!SyncMco, Lifecycle!AddonDeploys,
     Lifecycle!AddonCleans, Lifecycle!WindowElapses, Lifecycle!CreateMco, Lifecycle!ChangeMco,
     Lifecycle!DeleteMco, Lifecycle!userUnchanged, Lifecycle!MFails, Lifecycle!AFails,
     Lifecycle!HandleFails, Lifecycle!Restart, Lifecycle!bounds, Lifecycle!Fault, Lifecycle!UserStep
<1>2. QED
  BY <1>1, LifecycleBounds

LEMMA RequestsAreFlags ==
    ASSUME Copies, req \in [Lifecycle!Controllers -> BOOLEAN], [Lifecycle!Next]_mcoVars
    PROVE  req' \in [Lifecycle!Controllers -> BOOLEAN]
<1>1. ASSUME NEW C, Lifecycle!Wake(C) PROVE req' \in [Lifecycle!Controllers -> BOOLEAN]
  BY <1>1 DEF Lifecycle!Wake
<1>2. ASSUME Lifecycle!MStart \/ Lifecycle!AStart
      PROVE  req' \in [Lifecycle!Controllers -> BOOLEAN]
  <2>1. cache.there \in BOOLEAN /\ cache.deleting \in BOOLEAN
    BY DEF Copies, Lifecycle!McoType
  <2>2. PICK c \in Lifecycle!Controllers, b \in BOOLEAN : req' = [req EXCEPT ![c] = b]
    BY <1>2 DEF Lifecycle!MStart, Lifecycle!AStart, Lifecycle!Controllers
  <2>3. QED
    BY <2>2
<1>3. ASSUME Lifecycle!Restart PROVE  req' \in [Lifecycle!Controllers -> BOOLEAN]
  <2>1. mco.there \in BOOLEAN
    BY DEF Copies, Lifecycle!McoType
  <2>2. QED
    BY <1>3, <2>1 DEF Lifecycle!Restart
<1>4. CASE Lifecycle!MStep
  BY <1>1, <1>2, <1>4 DEF Lifecycle!MStep, Lifecycle!initFinalization,
     Lifecycle!removeFinalizer, Lifecycle!addFinalizer, Lifecycle!Deploy, Lifecycle!cleanMCOA,
     Lifecycle!Undeploy, Lifecycle!deployOperands, Lifecycle!McoPatches,
     Lifecycle!cleanupMCOAManifestWorks
<1>5. CASE Lifecycle!AStep
  BY <1>1, <1>2, <1>5 DEF Lifecycle!AStep,
     Lifecycle!refreshInstance, Lifecycle!disableAdc, Lifecycle!CleanupRightSizingResources,
     Lifecycle!removeAnalyticsFinalizer, Lifecycle!addAnalyticsFinalizer,
     Lifecycle!ensureRightSizingDefaults, Lifecycle!Delegate, Lifecycle!HandleRightSizing,
     Lifecycle!syncAdc, Lifecycle!AnalyticsPatches
<1>6. CASE Lifecycle!Environment \/ Lifecycle!UserAction \/ UNCHANGED mcoVars
  BY <1>1, <1>6 DEF Lifecycle!Environment, Lifecycle!UserAction, mcoVars, Lifecycle!SyncMco,
     Lifecycle!AddonDeploys, Lifecycle!AddonCleans, Lifecycle!WindowElapses, Lifecycle!CreateMco,
     Lifecycle!ChangeMco, Lifecycle!DeleteMco, Lifecycle!userUnchanged
<1>7. CASE Lifecycle!MFails \/ Lifecycle!AFails \/ Lifecycle!HandleFails
  BY <1>1, <1>7 DEF Lifecycle!MFails, Lifecycle!AFails, Lifecycle!HandleFails
<1>8. QED
  BY <1>3, <1>4, <1>5, <1>6, <1>7 DEF Lifecycle!Next

McoaFlags == cma \in BOOLEAN /\ works \in BOOLEAN /\ manager \in BOOLEAN
OtherFlags ==
    /\ terminating \in BOOLEAN /\ roles \in BOOLEAN /\ operands \in BOOLEAN
    /\ wasDelegated \in BOOLEAN /\ overruled \in BOOLEAN /\ misplaced \in BOOLEAN

LEMMA PatchKeepsFlags ==
    ASSUME McoaFlags, operands \in BOOLEAN, overruled \in BOOLEAN, adc \in Lifecycle!AdcType,
           NEW c, NEW f, Lifecycle!Patch(c, f)
    PROVE  /\ McoaFlags' /\ operands' \in BOOLEAN /\ overruled' \in BOOLEAN 
           /\ adc' \in Lifecycle!AdcType
<1>1. overruled' \in BOOLEAN
  BY DEF Lifecycle!Patch
<1>2. Lifecycle!NoAdc \in Lifecycle!AdcType
  BY DEF Lifecycle!NoAdc, Lifecycle!AdcType
<1>3. CASE Lifecycle!Gone
  BY <1>1, <1>2, <1>3 DEF Lifecycle!Gone, McoaFlags
<1>4. CASE UNCHANGED <<Lifecycle!mcoaVars, operands>>
  BY <1>1, <1>4 DEF Lifecycle!mcoaVars, McoaFlags
<1>5. QED
  BY <1>3, <1>4 DEF Lifecycle!Patch

LEMMA AdcMade ==
    ASSUME NEW s, NEW b \in BOOLEAN
    PROVE  Lifecycle!AdcOf(s, b) \in Lifecycle!AdcType /\ Lifecycle!NoAdc \in Lifecycle!AdcType
  BY DEF Lifecycle!AdcOf, Lifecycle!AdcType, Lifecycle!NoAdc

\* What a Reconcile has read
LEMMA SpecRead ==
    ASSUME Copies, NEW c \in Lifecycle!Controllers
    PROVE  /\ snap[c].spec \in Lifecycle!SpecType /\ snap[c].spec.delegated \in BOOLEAN
           /\ snap[c].there \in BOOLEAN /\ mco.there \in BOOLEAN /\ mco.deleting \in BOOLEAN
           /\ snap[c].spec.ns \in [Kinds -> Namespaces]
  BY DEF Copies, Lifecycle!McoType, Lifecycle!SpecType

LEMMA AdcStays ==
    ASSUME Copies, McoaFlags, OtherFlags, adc \in Lifecycle!AdcType, [Lifecycle!Next]_mcoVars
    PROVE  adc' \in Lifecycle!AdcType
<1> USE DEF Lifecycle!Controllers
<1>1. CASE adc' = adc
  BY <1>1
<1>2. CASE adc' = Lifecycle!NoAdc
  BY <1>2, AdcMade
<1>3. ASSUME NEW c, NEW f, Lifecycle!Patch(c, f) PROVE adc' \in Lifecycle!AdcType
  BY <1>3, PatchKeepsFlags DEF OtherFlags
<1>4. CASE Lifecycle!Deploy
  BY <1>4, AdcMade, SpecRead DEF Lifecycle!Deploy
<1>5. ASSUME NEW b \in BOOLEAN, Lifecycle!syncRightSizingStateToADC(b)
      PROVE  adc' \in Lifecycle!AdcType
  BY <1>5, AdcMade DEF Lifecycle!syncRightSizingStateToADC
<1>6. CASE Lifecycle!MStep
  BY <1>1, <1>2, <1>3, <1>4, <1>6 DEF Lifecycle!MStep, Lifecycle!MStart, Lifecycle!initFinalization,
     Lifecycle!removeFinalizer, Lifecycle!addFinalizer, Lifecycle!cleanMCOA,
     Lifecycle!Undeploy, Lifecycle!deployOperands, Lifecycle!McoPatches, Lifecycle!mcoaVars,
     Lifecycle!cleanupMCOAManifestWorks, Lifecycle!MRest
<1>7. CASE Lifecycle!AStep
  <2>1. CASE \/ Lifecycle!disableAdc \/ Lifecycle!CleanupRightSizingResources
             \/ Lifecycle!syncAdc
    BY <1>1, <1>5, <2>1, SpecRead DEF Lifecycle!disableAdc,
       Lifecycle!CleanupRightSizingResources, Lifecycle!syncAdc
  <2>2. CASE Lifecycle!removeAnalyticsFinalizer \/ Lifecycle!addAnalyticsFinalizer
    BY <1>1, <1>3, <2>2 DEF Lifecycle!removeAnalyticsFinalizer, Lifecycle!mcoaVars,
       Lifecycle!addAnalyticsFinalizer, Lifecycle!AnalyticsPatches
  <2>3. QED
    BY <1>1, <1>7, <2>1, <2>2 DEF Lifecycle!AStep, Lifecycle!AStart, Lifecycle!refreshInstance,
       Lifecycle!ensureRightSizingDefaults, Lifecycle!Delegate, Lifecycle!HandleRightSizing
<1>8. CASE Lifecycle!DeleteMco
  BY <1>1, <1>2, <1>8 DEF Lifecycle!DeleteMco, Lifecycle!Gone, Lifecycle!mcoaVars
<1>9. CASE \/ \E s \in Specs : Lifecycle!CreateMco(s) \/ Lifecycle!ChangeMco(s)
           \/ Lifecycle!Environment \/ UNCHANGED mcoVars
  BY <1>1, <1>9 DEF Lifecycle!Environment, mcoVars, Lifecycle!SyncMco, Lifecycle!mcoaVars,
     Lifecycle!AddonDeploys, Lifecycle!AddonCleans, Lifecycle!WindowElapses, Lifecycle!CreateMco,
     Lifecycle!ChangeMco
<1>10. CASE Lifecycle!MFails \/ Lifecycle!AFails \/ Lifecycle!HandleFails \/ Lifecycle!Restart
  BY <1>1, <1>10 DEF Lifecycle!MFails, Lifecycle!AFails, Lifecycle!HandleFails,
     Lifecycle!Restart, Lifecycle!mcoaVars
<1>11. QED
  BY <1>6, <1>7, <1>8, <1>9, <1>10 DEF Lifecycle!Next, Lifecycle!UserAction

LEMMA McoaFlagsStay ==
    ASSUME Copies, McoaFlags, OtherFlags, adc \in Lifecycle!AdcType, [Lifecycle!Next]_mcoVars
    PROVE  McoaFlags'
<1>1. ASSUME NEW c, NEW f, Lifecycle!Patch(c, f) PROVE McoaFlags'
  BY <1>1, PatchKeepsFlags DEF OtherFlags
<1>2. CASE cma' \in {cma, TRUE, FALSE} /\ works' \in {works, TRUE, FALSE}
           /\ manager' \in {manager, TRUE, FALSE}
  BY <1>2 DEF McoaFlags
<1>3. CASE Lifecycle!MStep
  BY <1>1, <1>2, <1>3 DEF Lifecycle!MStep, Lifecycle!MStart, Lifecycle!initFinalization,
     Lifecycle!removeFinalizer, Lifecycle!addFinalizer, Lifecycle!cleanMCOA,
     Lifecycle!Undeploy, Lifecycle!deployOperands, Lifecycle!McoPatches, Lifecycle!mcoaVars,
     Lifecycle!cleanupMCOAManifestWorks, Lifecycle!MRest, Lifecycle!Deploy
<1>4. CASE Lifecycle!AStep
  BY <1>1, <1>2, <1>4 DEF Lifecycle!AStep, Lifecycle!AStart, Lifecycle!refreshInstance,
       Lifecycle!ensureRightSizingDefaults, Lifecycle!Delegate, Lifecycle!HandleRightSizing,
       Lifecycle!disableAdc, Lifecycle!Kept, Lifecycle!mcoaVars,
       Lifecycle!CleanupRightSizingResources, Lifecycle!syncAdc,
       Lifecycle!removeAnalyticsFinalizer, Lifecycle!addAnalyticsFinalizer,
       Lifecycle!AnalyticsPatches
<1>5. CASE Lifecycle!Environment \/ Lifecycle!UserAction \/ UNCHANGED mcoVars
  BY <1>2, <1>5 DEF Lifecycle!Environment, mcoVars, Lifecycle!SyncMco, Lifecycle!mcoaVars,
     Lifecycle!AddonDeploys, Lifecycle!AddonCleans, Lifecycle!WindowElapses, Lifecycle!CreateMco,
     Lifecycle!ChangeMco, Lifecycle!UserAction, Lifecycle!DeleteMco, Lifecycle!Gone,
     Lifecycle!userUnchanged, Lifecycle!Kept
<1>6. CASE Lifecycle!MFails \/ Lifecycle!AFails \/ Lifecycle!HandleFails \/ Lifecycle!Restart
  BY <1>2, <1>6 DEF Lifecycle!MFails, Lifecycle!AFails, Lifecycle!HandleFails,
     Lifecycle!Restart, Lifecycle!mcoaVars
<1>7. QED
  BY <1>3, <1>4, <1>5, <1>6 DEF Lifecycle!Next

LEMMA OtherFlagsStay ==
    ASSUME Copies, McoaFlags, OtherFlags, adc \in Lifecycle!AdcType, [Lifecycle!Next]_mcoVars
    PROVE  OtherFlags'
<1> DEFINE Patched == /\ operands' \in BOOLEAN /\ overruled' \in BOOLEAN
                      /\ UNCHANGED <<terminating, wasDelegated, misplaced>>
           Same == UNCHANGED <<terminating, roles, operands, wasDelegated, overruled, misplaced>>
<1>1. ASSUME NEW c, NEW f, Lifecycle!Patch(c, f)
      PROVE  operands' \in BOOLEAN /\ overruled' \in BOOLEAN
  BY <1>1, PatchKeepsFlags DEF OtherFlags
<1>2. CASE Same
  BY <1>2 DEF OtherFlags
<1>3. ASSUME Lifecycle!MStart PROVE OtherFlags'
  <2>1. terminating' \in {TRUE, FALSE, terminating}
    BY <1>3 DEF Lifecycle!MStart
  <2>2. UNCHANGED <<roles, operands, wasDelegated, overruled, misplaced>>
    BY <1>3 DEF Lifecycle!MStart, Lifecycle!MRest, Lifecycle!memVars
  <2>3. QED
    BY <2>1, <2>2 DEF OtherFlags
<1>4. ASSUME Lifecycle!removeFinalizer \/ Lifecycle!addFinalizer PROVE OtherFlags'
  <2>1. operands' \in BOOLEAN /\ overruled' \in BOOLEAN
    BY <1>1, <1>4 DEF OtherFlags, Lifecycle!removeFinalizer, Lifecycle!addFinalizer,
       Lifecycle!McoPatches
  <2>2. UNCHANGED <<wasDelegated, misplaced>> /\ roles' \in {roles, FALSE}
    BY <1>4 DEF Lifecycle!removeFinalizer, Lifecycle!addFinalizer, Lifecycle!MRest,
       Lifecycle!memVars
  <2>3. terminating' \in BOOLEAN
    BY <1>4 DEF OtherFlags, Lifecycle!removeFinalizer, Lifecycle!addFinalizer
  <2>4. QED
    BY <2>1, <2>2, <2>3 DEF OtherFlags
<1>5. ASSUME Lifecycle!deployOperands PROVE OtherFlags'
  <2>1. operands' \in BOOLEAN
    BY <1>5, SpecRead DEF Lifecycle!deployOperands, Lifecycle!Controllers
  <2>2. UNCHANGED <<roles, terminating, wasDelegated, overruled, misplaced>>
    BY <1>5 DEF Lifecycle!deployOperands, Lifecycle!MRest, Lifecycle!memVars
  <2>3. QED
    BY <2>1, <2>2 DEF OtherFlags
<1>6. ASSUME Lifecycle!Deploy PROVE OtherFlags'
  BY <1>6 DEF OtherFlags, Lifecycle!Deploy, Lifecycle!MRest, Lifecycle!memVars
<1>7. CASE Lifecycle!MStep
  BY <1>2, <1>3, <1>4, <1>5, <1>6, <1>7 DEF Lifecycle!MStep, Lifecycle!initFinalization,
     Lifecycle!cleanMCOA, Lifecycle!Undeploy, Lifecycle!MRest, Lifecycle!memVars
<1>8. ASSUME Lifecycle!removeAnalyticsFinalizer \/ Lifecycle!addAnalyticsFinalizer
      PROVE  OtherFlags'
  <2>1. operands' \in BOOLEAN /\ overruled' \in BOOLEAN
    BY <1>1, <1>8 DEF OtherFlags, Lifecycle!removeAnalyticsFinalizer,
       Lifecycle!addAnalyticsFinalizer, Lifecycle!AnalyticsPatches
  <2>2. UNCHANGED <<terminating, roles, wasDelegated, misplaced>>
    BY <1>8 DEF Lifecycle!removeAnalyticsFinalizer, Lifecycle!addAnalyticsFinalizer,
       Lifecycle!ARest, Lifecycle!memVars
  <2>3. QED
    BY <2>1, <2>2 DEF OtherFlags
<1>9. ASSUME Lifecycle!Delegate \/ Lifecycle!HandleRightSizing PROVE OtherFlags'
  <2>1. misplaced' \in BOOLEAN
    BY <1>9 DEF OtherFlags, Lifecycle!Delegate, Lifecycle!HandleRightSizing,
       Lifecycle!CleanupPolicyResourcesForDelegation
  <2>2. wasDelegated' \in {TRUE, FALSE} /\ UNCHANGED <<terminating, roles, operands, overruled>>
    BY <1>9 DEF Lifecycle!Delegate, Lifecycle!HandleRightSizing, Lifecycle!ARest, Lifecycle!Kept
  <2>3. QED
    BY <2>1, <2>2 DEF OtherFlags
<1>10. CASE Lifecycle!AStep
  BY <1>2, <1>8, <1>9, <1>10 DEF Lifecycle!AStep, Lifecycle!AStart, Lifecycle!refreshInstance,
       Lifecycle!ensureRightSizingDefaults, Lifecycle!disableAdc, Lifecycle!Kept,
       Lifecycle!CleanupRightSizingResources, Lifecycle!syncAdc, Lifecycle!ARest,
       Lifecycle!memVars
<1>11. CASE \/ Lifecycle!Environment \/ Lifecycle!MFails \/ Lifecycle!AFails
            \/ UNCHANGED mcoVars
  BY <1>2, <1>11 DEF Lifecycle!Environment, mcoVars, Lifecycle!SyncMco,
     Lifecycle!AddonDeploys, Lifecycle!AddonCleans, Lifecycle!WindowElapses,
     Lifecycle!Kept, Lifecycle!ARest, Lifecycle!memVars, Lifecycle!MFails, Lifecycle!AFails
<1>12. CASE Lifecycle!UserAction
  <2>1. operands' \in {operands, FALSE}
    BY <1>12 DEF Lifecycle!UserAction, Lifecycle!CreateMco, Lifecycle!ChangeMco,
       Lifecycle!DeleteMco, Lifecycle!Gone
  <2>2. UNCHANGED <<terminating, roles, wasDelegated, overruled, misplaced>>
    BY <1>12 DEF Lifecycle!UserAction, Lifecycle!CreateMco, Lifecycle!ChangeMco,
       Lifecycle!DeleteMco, Lifecycle!userUnchanged, Lifecycle!memVars
  <2>3. QED
    BY <2>1, <2>2 DEF OtherFlags
<1>13. CASE Lifecycle!HandleFails \/ Lifecycle!Restart
  <2>1. /\ wasDelegated' = FALSE /\ terminating' \in {terminating, FALSE}
        /\ UNCHANGED <<roles, operands, overruled, misplaced>>
    BY <1>13 DEF Lifecycle!HandleFails, Lifecycle!Restart
  <2>2. QED
    BY <2>1 DEF OtherFlags
<1>14. QED
  BY <1>7, <1>10, <1>11, <1>12, <1>13 DEF Lifecycle!Next

RightSizingObjects == Kinds \X Namespaces \X Lifecycle!PolicyParts
MemoryType == [Kinds -> [ns : Namespaces, enabled : BOOLEAN]]

LEMMA AppliedAreObjects ==
    ASSUME NEW k \in Kinds, NEW ns \in Namespaces, NEW n \in 0..3
    PROVE  Lifecycle!Applied(k, ns, n) \subseteq RightSizingObjects
<1> DEFINE made == <<Lifecycle!CreateOrUpdateRSPrometheusRulePolicy(k, ns),
                     Lifecycle!CreateUpdateRSPlacement(k, ns),
                     Lifecycle!CreateRSPlacementBinding(k, ns)>>
<1>1. \A i \in 1..n : made[i] \subseteq RightSizingObjects
  <2> TAKE i \in 1..n
  <2>1. i \in {1, 2, 3}
    OBVIOUS
  <2>2. QED
    BY <2>1 DEF RightSizingObjects, Lifecycle!CreateOrUpdateRSPrometheusRulePolicy,
       Lifecycle!CreateUpdateRSPlacement, Lifecycle!CreateRSPlacementBinding,
       Lifecycle!PolicyParts
<1>2. Lifecycle!Applied(k, ns, n) = UNION {made[i] : i \in 1..n}
  BY DEF Lifecycle!Applied
<1>3. QED
  BY <1>1, <1>2

LEMMA StateMade ==
    ASSUME state \in MemoryType, NEW s \in Lifecycle!SpecType, NEW K
    PROVE  Lifecycle!NextState(s, K) \in MemoryType
  BY DEF Lifecycle!NextState, MemoryType, Lifecycle!SpecType, Lifecycle!Enabled

LEMMA HandledAreObjects ==
    ASSUME policies \subseteq RightSizingObjects, NEW s \in Lifecycle!SpecType, NEW k \in Kinds
    PROVE  Lifecycle!Handled(s, k) \subseteq RightSizingObjects
<1>1. s.ns[k] \in Namespaces
  BY DEF Lifecycle!SpecType
<1>2. Lifecycle!Applied(k, s.ns[k], 3) \subseteq RightSizingObjects
  BY <1>1, AppliedAreObjects
<1>3. QED
  BY <1>2 DEF Lifecycle!Handled

LEMMA AfterAreObjects ==
    ASSUME policies \subseteq RightSizingObjects, NEW s \in Lifecycle!SpecType, NEW K \in SUBSET Kinds
    PROVE  Lifecycle!AfterComponents(s, K) \subseteq RightSizingObjects
<1>1. \A k \in K : Lifecycle!Handled(s, k) \subseteq RightSizingObjects
  BY HandledAreObjects
<1>2. QED
  BY <1>1 DEF Lifecycle!AfterComponents

LEMMA PartsAreObjects ==
    ASSUME policies \subseteq RightSizingObjects, NEW s \in Lifecycle!SpecType, NEW k \in Kinds,
           NEW R \in Lifecycle!PartlyHandled(s, k)
    PROVE  R \subseteq RightSizingObjects
<1>1. s.ns[k] \in Namespaces
  BY DEF Lifecycle!SpecType
<1>2. \A n \in 0..2 : Lifecycle!Applied(k, s.ns[k], n) \subseteq RightSizingObjects
  BY <1>1, AppliedAreObjects
<1>3. QED
  BY <1>2 DEF Lifecycle!PartlyHandled

RightSizing ==
    policies \subseteq RightSizingObjects /\ rsConfig \subseteq Kinds /\ state \in MemoryType

LEMMA RightSizingStays ==
    ASSUME Copies, RightSizing, [Lifecycle!Next]_mcoVars
    PROVE  RightSizing'
<1> DEFINE Same == UNCHANGED <<policies, rsConfig, state>>
<1>1. CASE Same
  BY <1>1 DEF RightSizing
<1>2. snap["analytics"].spec \in Lifecycle!SpecType
  BY SpecRead DEF Lifecycle!Controllers
<1>3. CASE Lifecycle!CleanupRightSizingResources
  BY <1>3 DEF RightSizing, Lifecycle!CleanupRightSizingResources,
     Lifecycle!CleanupRSResourcesByLabel, Lifecycle!memVars
<1>4. CASE Lifecycle!Delegate
  <2>1. policies' \subseteq policies /\ rsConfig' = rsConfig
    BY <1>4 DEF Lifecycle!Delegate, Lifecycle!CleanupPolicyResourcesForDelegation
  <2>2. [k \in Kinds |-> [state[k] EXCEPT !.enabled = FALSE]] \in MemoryType
    BY DEF RightSizing, MemoryType
  <2>3. state' \in MemoryType
    BY <1>4, <2>2 DEF Lifecycle!Delegate, Lifecycle!CleanupPolicyResourcesForDelegation,
       RightSizing
  <2>4. QED
    BY <2>1, <2>3 DEF RightSizing
<1>5. CASE Lifecycle!HandleRightSizing
  <2>1. policies' \subseteq RightSizingObjects
    BY <1>2, <1>5, AfterAreObjects DEF Lifecycle!HandleRightSizing, RightSizing
  <2>2. state' \in MemoryType
    BY <1>2, <1>5, StateMade DEF Lifecycle!HandleRightSizing, RightSizing
  <2>3. rsConfig' \subseteq Kinds
    BY <1>5 DEF Lifecycle!HandleRightSizing, Lifecycle!AfterConfigMaps, RightSizing
  <2>4. QED
    BY <2>1, <2>2, <2>3 DEF RightSizing
<1>6. CASE Lifecycle!HandleFails
  <2> DEFINE s == snap["analytics"].spec
  <2>1. PICK k \in Kinds :
          /\ \E R \in Lifecycle!PartlyHandled(s, k) :
               policies' = {p \in Lifecycle!AfterComponents(s, Lifecycle!Before(k)) : p[1] # k}
                             \cup R
          /\ \E K \in {Lifecycle!Before(k), Lifecycle!Before(k) \cup {k}} :
               rsConfig' = Lifecycle!AfterConfigMaps(s, K)
          /\ state' = Lifecycle!NextState(s,
                        Lifecycle!Before(k) \cup {j \in {k} : Lifecycle!Enabled(s, j)})
    BY <1>6 DEF Lifecycle!HandleFails
  <2>2. Lifecycle!Before(k) \in SUBSET Kinds
    BY DEF Lifecycle!Before
  <2>3. policies' \subseteq RightSizingObjects
    BY <1>2, <2>1, <2>2, AfterAreObjects, PartsAreObjects DEF RightSizing
  <2>4. state' \in MemoryType
    BY <1>2, <2>1, StateMade DEF RightSizing
  <2>5. rsConfig' \subseteq Kinds
    BY <2>1, <2>2 DEF Lifecycle!AfterConfigMaps, RightSizing
  <2>6. QED
    BY <2>3, <2>4, <2>5 DEF RightSizing
<1>7. CASE Lifecycle!AFails
  <2>1. policies' \subseteq policies /\ UNCHANGED <<rsConfig, state>>
    BY <1>7 DEF Lifecycle!AFails, Lifecycle!memVars
  <2>2. QED
    BY <2>1 DEF RightSizing
<1>8. CASE Lifecycle!Restart
  <2>1. Lifecycle!FreshState \in MemoryType
    BY LifecycleAssumption DEF MemoryType, Lifecycle!FreshState
  <2>2. QED
    BY <1>8, <2>1 DEF Lifecycle!Restart, Lifecycle!rsVars, RightSizing
<1>9. CASE Lifecycle!MStep
  BY <1>1, <1>9 DEF Lifecycle!MStep, Lifecycle!MStart, Lifecycle!initFinalization,
     Lifecycle!removeFinalizer, Lifecycle!addFinalizer, Lifecycle!cleanMCOA,
     Lifecycle!Undeploy, Lifecycle!deployOperands, Lifecycle!Deploy, Lifecycle!MRest,
     Lifecycle!rsVars, Lifecycle!memVars
<1>10. CASE Lifecycle!AStep
  BY <1>1, <1>3, <1>4, <1>5, <1>10 DEF Lifecycle!AStep, Lifecycle!AStart,
     Lifecycle!refreshInstance, Lifecycle!ensureRightSizingDefaults, Lifecycle!disableAdc,
     Lifecycle!syncAdc, Lifecycle!removeAnalyticsFinalizer, Lifecycle!addAnalyticsFinalizer,
     Lifecycle!rsVars, Lifecycle!memVars
<1>11. CASE \/ Lifecycle!Environment \/ Lifecycle!UserAction \/ Lifecycle!MFails
            \/ UNCHANGED mcoVars
  BY <1>1, <1>11 DEF Lifecycle!Environment, mcoVars, Lifecycle!SyncMco,
     Lifecycle!AddonDeploys, Lifecycle!AddonCleans, Lifecycle!WindowElapses, Lifecycle!CreateMco,
     Lifecycle!ChangeMco, Lifecycle!UserAction, Lifecycle!DeleteMco,
     Lifecycle!userUnchanged, Lifecycle!MFails, Lifecycle!rsVars, Lifecycle!memVars
<1>12. QED
  BY <1>6, <1>7, <1>8, <1>9, <1>10, <1>11 DEF Lifecycle!Next

LEMMA LifecycleTypesAre ==
    Lifecycle!TypeOK <=>
        /\ Copies /\ McoaFlags /\ OtherFlags /\ RightSizing
        /\ req \in [Lifecycle!Controllers -> BOOLEAN]
        /\ mpc \in Lifecycle!MSteps /\ apc \in Lifecycle!ASteps
        /\ adc \in Lifecycle!AdcType
        /\ cleanupAt \in {"zero", "waiting", "elapsed"}
        /\ changes \in 0..MaxChanges /\ faults \in 0..MaxFaults
<1>1. {terminating, cma, works, manager, roles, operands, wasDelegated, overruled, misplaced}
          \subseteq BOOLEAN <=> McoaFlags /\ OtherFlags
  BY Zenon DEF McoaFlags, OtherFlags
<1>2. QED
  BY <1>1 DEF Lifecycle!TypeOK, Copies, RightSizing, RightSizingObjects, MemoryType

LEMMA LifecycleTypesStay ==
    ASSUME Lifecycle!TypeOK, [Lifecycle!Next]_mcoVars
    PROVE  Lifecycle!TypeOK'
<1>1. Copies' /\ McoaFlags' /\ OtherFlags' /\ RightSizing' /\ adc' \in Lifecycle!AdcType
  BY LifecycleTypesAre, CopiesStay, McoaFlagsStay, OtherFlagsStay, RightSizingStays, AdcStays
<1>2. req' \in [Lifecycle!Controllers -> BOOLEAN]
  BY LifecycleTypesAre, RequestsAreFlags
<1>3. /\ mpc' \in Lifecycle!MSteps /\ apc' \in Lifecycle!ASteps
      /\ cleanupAt' \in {"zero", "waiting", "elapsed"}
  BY LifecycleTypesAre, WhereReconcilesAre
<1>4. changes' \in 0..MaxChanges /\ faults' \in 0..MaxFaults
  BY LifecycleTypesAre, LifecycleCounts
<1>5. {terminating, cma, works, manager, roles, operands, wasDelegated, overruled, misplaced}'
          \subseteq BOOLEAN
  BY <1>1, Zenon DEF McoaFlags, OtherFlags
<1>6. QED
  BY <1>1, <1>2, <1>3, <1>4, <1>5 DEF Lifecycle!TypeOK, Copies, RightSizing, RightSizingObjects, MemoryType

=============================================================================
