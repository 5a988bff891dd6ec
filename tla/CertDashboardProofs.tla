------------------------- MODULE CertDashboardProofs -------------------------
(***************************************************************************)
(* Theorems about the certificates of the hub and about the loader of      *)
(* Grafana's dashboards, the parts "certs" and "dashboards" of System: for *)
(* any leaves, ConfigMaps, dashboards and bounds.                          *)
(***************************************************************************)
EXTENDS System, FiniteSetTheorems, TLAPS

-----------------------------------------------------------------------------
(***************************************************************************)
(* Certificates: bundles                                                   *)
(***************************************************************************)
LEMMA CertsStart == SystemInit /\ part = "certs" => Certs!CertInit
  BY DEF SystemInit

LEMMA CertsStep ==
    ASSUME [SystemNext]_systemVars
    PROVE  /\ part' = part
           /\ part = "certs" => [Certs!CertNext]_certVars
  BY DEF SystemNext, systemVars

LEMMA BundleParts ==
    ASSUME NEW b \in Certs!Bundles
    PROVE  /\ b.there \in BOOLEAN
           /\ b.there => /\ b.ca \in Certs!Certificate /\ b.older \subseteq Certs!Certificate
                         /\ b = Certs!Bundle(b.ca, b.older)
           /\ ~b.there => b = Certs!NoBundle
           /\ Certs!Trusted(b) \subseteq Certs!Certificate
<1>1. CASE b = Certs!NoBundle
  BY <1>1 DEF Certs!NoBundle, Certs!Trusted
<1>2. CASE b \in [there : {TRUE}, ca : Certs!Certificate, older : SUBSET Certs!Certificate]
  <2>1. b.there /\ b.ca \in Certs!Certificate /\ b.older \subseteq Certs!Certificate
    BY <1>2
  <2>2. b = Certs!Bundle(b.ca, b.older)
    BY <1>2 DEF Certs!Bundle
  <2>3. QED
    BY <2>1, <2>2 DEF Certs!Trusted
<1>3. QED
  BY <1>1, <1>2 DEF Certs!Bundles

LEMMA BundleMade ==
    ASSUME NEW ca, NEW older
    PROVE  /\ Certs!Bundle(ca, older).there /\ Certs!Bundle(ca, older).ca = ca
           /\ Certs!Bundle(ca, older).older = older
           /\ Certs!Trusted(Certs!Bundle(ca, older)) = {ca} \cup older
           /\ ca \in Certs!Certificate /\ older \subseteq Certs!Certificate
                => Certs!Bundle(ca, older) \in Certs!Bundles
           /\ Certs!NoBundle \in Certs!Bundles /\ ~Certs!NoBundle.there
           /\ Certs!Trusted(Certs!NoBundle) = {}
  BY DEF Certs!Bundles, Certs!NoBundle, Certs!Trusted, Certs!Bundle

LEMMA CertificateParts ==
    ASSUME NEW c \in Certs!Certificate
    PROVE  /\ c.key \in Certs!Keys /\ c.age \in 0..25
           /\ [key |-> c.key, age |-> 0] \in Certs!Certificate
           /\ [c EXCEPT !.age = 0] = [key |-> c.key, age |-> 0]
           /\ Certs!Older(c) \in Certs!Certificate /\ Certs!Older(c).key = c.key
           /\ Certs!Older(c).age = IF c.age < 25 THEN c.age + 1 ELSE c.age
  BY DEF Certs!Certificate, Certs!Older, Certs!CaLife, Certs!LeafLife

LEMMA BundleGetsOlder ==
    ASSUME NEW b \in Certs!Bundles
    PROVE  /\ Certs!OlderBundle(b) \in Certs!Bundles
           /\ Certs!OlderBundle(b).there = b.there
           /\ b.there => Certs!OlderBundle(b).ca = Certs!Older(b.ca)
           /\ \A c \in Certs!Trusted(b) : Certs!Older(c) \in Certs!Trusted(Certs!OlderBundle(b))
<1>1. CASE ~b.there
  BY <1>1 DEF Certs!OlderBundle, Certs!Trusted
<1>2. CASE b.there
  <2> DEFINE aged == {Certs!Older(c) : c \in b.older}
  <2>1. /\ b.ca \in Certs!Certificate /\ b.older \subseteq Certs!Certificate
        /\ b = Certs!Bundle(b.ca, b.older)
    BY <1>2, BundleParts
  <2>3. Certs!OlderBundle(b) = Certs!Bundle(Certs!Older(b.ca), aged)
    BY <1>2 DEF Certs!OlderBundle
  <2>4. Certs!Older(b.ca) \in Certs!Certificate /\ aged \subseteq Certs!Certificate
    BY <2>1, CertificateParts
  <2>5. Certs!Trusted(b) = {b.ca} \cup b.older
    BY <1>2 DEF Certs!Trusted
  <2>6. \A c \in b.older : Certs!Older(c) \in aged
    OBVIOUS
  <2> HIDE DEF aged
  <2>7. /\ Certs!Trusted(Certs!OlderBundle(b)) = {Certs!Older(b.ca)} \cup aged
        /\ Certs!OlderBundle(b) \in Certs!Bundles /\ Certs!OlderBundle(b).there
        /\ Certs!OlderBundle(b).ca = Certs!Older(b.ca)
    BY <2>3, <2>4, BundleMade
  <2>8. QED
    BY <1>2, <2>5, <2>6, <2>7
<1>3. QED
  BY <1>1, <1>2, BundleParts

\* A resync leaves every certificate that has not expired trusted, and the signing
\* one with a fifth of its life and more.
LEMMA ResyncKeepsTrust ==
    ASSUME NEW b \in Certs!Bundles, b.there
    PROVE  LET new == Certs!renewCA(Certs!removeExpiredCA(b)) IN
           /\ new \in Certs!Bundles /\ new.there /\ new.ca.age < 20
           /\ \A c \in Certs!Trusted(b) : c.age < 25 => c \in Certs!Trusted(new)
<1> DEFINE kept == {c \in b.older : ~Certs!Expired(c.age, Certs!CaLife)}
           rid == Certs!removeExpiredCA(b)
           new == Certs!renewCA(rid)
<1>1. /\ b.ca \in Certs!Certificate /\ b.older \subseteq Certs!Certificate
      /\ b = Certs!Bundle(b.ca, b.older)
  BY BundleParts
<1>2. rid = Certs!Bundle(b.ca, kept)
  BY DEF Certs!removeExpiredCA
<1>3. kept \subseteq Certs!Certificate /\ \A c \in b.older : c.age < 25 => c \in kept
  <2>1. \A c \in b.older : c.age \in 0..25
    BY <1>1, CertificateParts
  <2>2. QED
    BY <1>1, <2>1 DEF Certs!Expired, Certs!CaLife, Certs!LeafLife
<1>4. Certs!Trusted(b) = {b.ca} \cup b.older
  BY DEF Certs!Trusted
<1>5. rid.ca = b.ca /\ rid.older = kept /\ rid.there
  BY <1>2, BundleMade
<1>6. b.ca.age \in 0..25 /\ [b.ca EXCEPT !.age = 0] = [key |-> b.ca.key, age |-> 0]
      /\ [key |-> b.ca.key, age |-> 0] \in Certs!Certificate
  BY <1>1, CertificateParts
<1>7. Certs!needsRenew(b.ca.age, Certs!CaLife) <=> b.ca.age >= 20
  BY <1>6 DEF Certs!needsRenew, Certs!CaLife, Certs!LeafLife
<1> HIDE DEF kept, rid
<1>8. CASE b.ca.age >= 20
  <2> DEFINE fresh == [key |-> b.ca.key, age |-> 0]
  <2>3. new = Certs!Bundle(fresh, kept \cup {b.ca})
    BY <1>5, <1>6, <1>7, <1>8 DEF Certs!renewCA
  <2>4. fresh.age = 0
    OBVIOUS
  <2> HIDE DEF fresh, new
  <2>5. fresh \in Certs!Certificate
    BY <1>6 DEF fresh
  <2>6. /\ new \in Certs!Bundles /\ new.there /\ new.ca = fresh
        /\ Certs!Trusted(new) = {fresh} \cup (kept \cup {b.ca})
    BY <1>1, <1>3, <2>3, <2>5, BundleMade
  <2>7. QED
    BY <1>3, <1>4, <2>4, <2>6 DEF new, rid
<1>9. CASE ~(b.ca.age >= 20)
  <2>1. new = Certs!Bundle(b.ca, kept)
    BY <1>2, <1>5, <1>7, <1>9 DEF Certs!renewCA
  <2> HIDE DEF new
  <2>2. /\ new \in Certs!Bundles /\ new.there /\ new.ca = b.ca
        /\ Certs!Trusted(new) = {b.ca} \cup kept
    BY <1>1, <1>3, <2>1, BundleMade
  <2>3. QED
    BY <1>3, <1>4, <1>6, <1>9, <2>2 DEF new, rid
<1>10. QED
  BY <1>8, <1>9

\* onDelete trusts the certificates of both bundles.
LEMMA AddBackTrustsBoth ==
    ASSUME NEW b \in Certs!Bundles, NEW d \in Certs!Bundles, b.there
    PROVE  LET new == Certs!Bundle(b.ca, b.older \cup Certs!Trusted(d)) IN
           /\ new \in Certs!Bundles /\ new.there /\ new.ca = b.ca
           /\ Certs!Trusted(new) = Certs!Trusted(b) \cup Certs!Trusted(d)
<1>1. /\ b.ca \in Certs!Certificate /\ b.older \subseteq Certs!Certificate
      /\ Certs!Trusted(d) \subseteq Certs!Certificate
  BY BundleParts
<1>2. Certs!Trusted(b) = {b.ca} \cup b.older
  BY DEF Certs!Trusted
<1>3. QED
  BY <1>1, <1>2, BundleMade

-----------------------------------------------------------------------------
(***************************************************************************)
(* Certificates: the inductive invariant                                   *)
(***************************************************************************)
LeafType == [there : BOOLEAN, key : Certs!Keys, age : 0..Certs!CaLife]

\* Each key but the first was made because a secret had been deleted
KeysDeleted == lastKey + (IF bundle.there THEN 0 ELSE 1) <= deletions

\* The CA that signs has a fifth of its life left, and more once it was looked at
FirstInTime ==
    bundle.there => /\ bundle.ca.age <= 20
                    /\ "ca" \notin resync => bundle.ca.age <= 19

\* So has every leaf
LeavesInTime ==
    \A l \in Leaves : leaf[l].there => /\ leaf[l].age <= 4
                                       /\ l \notin resync => leaf[l].age <= 3

\* A bundle that was deleted is not lost, and one that has changed gets to the API
ComesBack == bundle.there \/ dropped.there
LoadedFollows == ~restartDue /\ bundle.there /\ ~dropped.there => loaded = bundle

Issuers == Certs!Trusted(bundle) \cup Certs!Trusted(dropped)

\* The issuer of every leaf is trusted, or about to be again, and outlives it
IssuersTrusted ==
    \A l \in Leaves : leaf[l].there =>
        \E c \in Issuers : c.key = leaf[l].key /\ c.age <= leaf[l].age + 20

CertMemory == LeavesInTime /\ ComesBack /\ LoadedFollows /\ IssuersTrusted

CertInv == Certs!CertTypeOK /\ KeysDeleted /\ FirstInTime /\ (~forgotten => CertMemory)

LEMMA LeafTypes ==
    ASSUME Certs!CertTypeOK
    PROVE  /\ leaf \in [Leaves -> LeafType]
           /\ \A l \in Leaves : /\ leaf[l] \in LeafType /\ leaf[l].there \in BOOLEAN
                                /\ leaf[l].key \in Certs!Keys /\ leaf[l].age \in 0..25
           /\ bundle \in Certs!Bundles /\ dropped \in Certs!Bundles /\ loaded \in Certs!Bundles
           /\ bundle.there => /\ Certs!Signed \in LeafType
                              /\ Certs!Signed.there /\ Certs!Signed.age = 0
                              /\ Certs!Signed.key = bundle.ca.key
                              /\ bundle.ca \in Certs!Certificate /\ bundle.ca.age \in 0..25
           /\ Certs!NoLeaf \in LeafType /\ ~Certs!NoLeaf.there
<1>1. leaf \in [Leaves -> LeafType]
  BY DEF Certs!CertTypeOK, LeafType
<1>2. \A l \in Leaves : /\ leaf[l] \in LeafType /\ leaf[l].there \in BOOLEAN
                        /\ leaf[l].key \in Certs!Keys /\ leaf[l].age \in 0..25
  BY <1>1 DEF LeafType, Certs!CaLife, Certs!LeafLife
<1>3. bundle \in Certs!Bundles /\ dropped \in Certs!Bundles /\ loaded \in Certs!Bundles
  BY DEF Certs!CertTypeOK
<1>4. bundle.there => /\ bundle.ca \in Certs!Certificate /\ bundle.ca.age \in 0..25
                      /\ bundle.ca.key \in Certs!Keys
  BY <1>3, BundleParts, CertificateParts
<1>5. bundle.there => /\ Certs!Signed \in LeafType
                      /\ Certs!Signed.there /\ Certs!Signed.age = 0
                      /\ Certs!Signed.key = bundle.ca.key
  BY <1>4 DEF Certs!Signed, LeafType, Certs!CaLife, Certs!LeafLife
<1>6. Certs!NoLeaf \in LeafType /\ ~Certs!NoLeaf.there
  BY CertsAssumption DEF Certs!NoLeaf, LeafType, Certs!Keys, Certs!CaLife, Certs!LeafLife
<1>7. QED
  BY <1>1, <1>2, <1>3, <1>4, <1>5, <1>6

LEMMA CertsBegin == Certs!CertInit => CertInv
<1> SUFFICES ASSUME Certs!CertInit PROVE CertInv
  OBVIOUS
<1> DEFINE first == [key |-> 0, age |-> 0]
<1>1. 0 \in Certs!Keys /\ 0 \in 0..Certs!CaLife
  BY CertsAssumption DEF Certs!Keys, Certs!CaLife, Certs!LeafLife
<1>2. first \in Certs!Certificate /\ first.age = 0 /\ first.key = 0
  BY <1>1 DEF Certs!Certificate
<1> HIDE DEF first
<1>3. /\ bundle = Certs!Bundle(first, {}) /\ loaded = bundle /\ dropped = Certs!NoBundle
      /\ lastKey = 0 /\ deletions = 0
  BY DEF Certs!CertInit, first
<1>4. /\ bundle \in Certs!Bundles /\ dropped \in Certs!Bundles
      /\ bundle.there /\ bundle.ca = first /\ Certs!Trusted(bundle) = {first}
  BY <1>2, <1>3, BundleMade
<1>5. /\ leaf \in [Leaves -> LeafType]
      /\ \A l \in Leaves : leaf[l].there /\ leaf[l].age = 0 /\ leaf[l].key = 0
  BY <1>1 DEF Certs!CertInit, LeafType
<1>6. Certs!CertTypeOK
  <2>1. /\ resync = {} /\ certReq = {} /\ certStep = "idle"
        /\ certFaults = 0 /\ deletions = 0
    BY DEF Certs!CertInit
  <2>2. restartDue = FALSE /\ caCreated = FALSE /\ forgotten = FALSE
    BY Zenon DEF Certs!CertInit
  <2>3. certFaults \in 0..MaxCertFaults /\ deletions \in 0..MaxDeletions
    BY <2>1, CertsAssumption
  <2>4. QED
    BY <1>1, <1>3, <1>4, <1>5, <2>1, <2>2, <2>3 DEF Certs!CertTypeOK, LeafType
<1>7. KeysDeleted /\ FirstInTime
  BY <1>2, <1>3, <1>4 DEF KeysDeleted, FirstInTime
<1>8. CertMemory
  BY <1>2, <1>3, <1>4, <1>5
     DEF CertMemory, LeavesInTime, ComesBack, LoadedFollows, IssuersTrusted, Issuers
<1>9. QED
  BY <1>6, <1>7, <1>8 DEF CertInv

\* Time goes on when everyone has had their turn.
LEMMA TimePasses == ASSUME CertInv, Certs!Tick PROVE CertInv'
<1> USE DEF CertInv
<1>1. /\ bundle' = Certs!OlderBundle(bundle) /\ loaded' = Certs!OlderBundle(loaded)
      /\ leaf' = [l \in Leaves |-> Certs!Older(leaf[l])]
      /\ resync = {} /\ resync' = Certs!Secrets /\ ~dropped.there /\ ~restartDue
      /\ UNCHANGED <<lastKey, dropped, restartDue, certReq, caCreated, certStep, forgotten,
                     deletions, certFaults>>
  BY DEF Certs!Tick, Certs!Quiet
<1>2. /\ bundle' \in Certs!Bundles /\ bundle'.there = bundle.there
      /\ bundle.there => bundle'.ca = Certs!Older(bundle.ca)
      /\ \A c \in Certs!Trusted(bundle) : Certs!Older(c) \in Certs!Trusted(bundle')
      /\ loaded' \in Certs!Bundles
  BY <1>1, BundleGetsOlder, LeafTypes
<1>3. \A l \in Leaves : /\ leaf'[l] \in LeafType /\ leaf'[l].there = leaf[l].there
                        /\ leaf'[l].key = leaf[l].key
                        /\ leaf[l].age < 25 => leaf'[l].age = leaf[l].age + 1
  <2>1. ASSUME NEW x \in LeafType
        PROVE  /\ Certs!Older(x) \in LeafType /\ Certs!Older(x).there = x.there
               /\ Certs!Older(x).key = x.key
               /\ x.age < 25 => Certs!Older(x).age = x.age + 1
    BY <2>1 DEF LeafType, Certs!Older, Certs!CaLife, Certs!LeafLife
  <2>2. \A l \in Leaves : leaf[l] \in LeafType
    BY LeafTypes
  <2>3. QED
    BY <1>1, <2>1, <2>2
<1>4. leaf' \in [Leaves -> LeafType]
  BY <1>1, <1>3
<1>5. Certs!CertTypeOK'
  BY <1>1, <1>2, <1>4, LeafTypes DEF Certs!CertTypeOK, LeafType
<1>6. KeysDeleted'
  BY <1>1, <1>2 DEF KeysDeleted
<1>7. FirstInTime'
  <2>1. CASE bundle.there
    <3>1. bundle.ca \in Certs!Certificate /\ bundle.ca.age \in 0..25 /\ bundle.ca.age <= 19
      BY <1>1, <2>1, LeafTypes DEF FirstInTime
    <3>2. Certs!Older(bundle.ca).age = IF bundle.ca.age < 25 THEN bundle.ca.age + 1 ELSE bundle.ca.age
      BY <3>1, CertificateParts
    <3>3. bundle'.ca.age <= 20
      BY <1>2, <2>1, <3>1, <3>2
    <3>4. QED
      BY <1>1, <3>3 DEF FirstInTime, Certs!Secrets
  <2>2. QED
    BY <1>2, <2>1 DEF FirstInTime
<1>8. ASSUME ~forgotten PROVE CertMemory'
  <2>1. CertMemory /\ bundle.there /\ loaded = bundle
    BY <1>1, <1>8 DEF CertMemory, ComesBack, LoadedFollows
  <2>2. \A l \in Leaves : leaf[l].there => leaf[l].age <= 3 /\ l \in resync'
    BY <1>1, <2>1 DEF CertMemory, LeavesInTime, Certs!Secrets
  <2>3. LeavesInTime'
    BY <1>3, <2>2, LeafTypes DEF LeavesInTime
  <2>4. IssuersTrusted'
    <3>1. ASSUME NEW l \in Leaves, leaf'[l].there
          PROVE  \E c \in Issuers' : c.key = leaf'[l].key /\ c.age <= leaf'[l].age + 20
      <4>1. leaf[l].there /\ leaf[l].age \in 0..3
        BY <1>3, <2>2, <3>1, LeafTypes
      <4>2. PICK c \in Issuers : c.key = leaf[l].key /\ c.age <= leaf[l].age + 20
        BY <2>1, <4>1 DEF CertMemory, IssuersTrusted
      <4>3. c \in Certs!Trusted(bundle)
        BY <1>1 DEF Issuers, Certs!Trusted
      <4>4. c \in Certs!Certificate
        BY <4>3, BundleParts, LeafTypes
      <4>5. /\ Certs!Older(c).key = c.key /\ Certs!Older(c).age = c.age + 1
            /\ c.age \in 0..25
        <5>1. c.age \in 0..25 /\ Certs!Older(c).key = c.key
          BY <4>4, CertificateParts
        <5>2. Certs!Older(c).age = IF c.age < 25 THEN c.age + 1 ELSE c.age
          BY <4>4, CertificateParts
        <5>3. c.age < 25
          BY <4>1, <4>2, <5>1
        <5>4. QED
          BY <5>1, <5>2, <5>3
      <4>6. Certs!Older(c) \in Issuers'
        BY <1>2, <4>3 DEF Issuers
      <4>7. leaf'[l].key = leaf[l].key /\ leaf'[l].age = leaf[l].age + 1
        BY <1>3, <4>1
      <4>8. Certs!Older(c).age <= leaf'[l].age + 20
        BY <4>1, <4>2, <4>5, <4>7
      <4>9. QED
        BY <4>2, <4>5, <4>6, <4>7, <4>8
    <3>2. QED
      BY <3>1 DEF IssuersTrusted
  <2>5. QED
    BY <1>1, <1>2, <2>1, <2>3, <2>4 DEF CertMemory, ComesBack, LoadedFollows
<1>9. QED
  BY <1>1, <1>5, <1>6, <1>7, <1>8

-----------------------------------------------------------------------------
\* A leaf is signed by the CA that is there, deleted or left alone.
LeafChanged(l) ==
    \/ leaf'[l] = leaf[l] /\ (l \in resync /\ l \notin resync' /\ leaf[l].there => leaf[l].age <= 3)
    \/ ~leaf'[l].there
    \/ bundle.there /\ leaf'[l] = Certs!Signed

LEMMA LeavesChange ==
    ASSUME CertInv, UNCHANGED <<bundle, lastKey, dropped, loaded, restartDue, forgotten>>,
           deletions' \in Nat, deletions <= deletions',
           resync' \subseteq resync, "ca" \in resync => "ca" \in resync',
           leaf' \in [Leaves -> LeafType],
           ~forgotten => \A l \in Leaves : LeafChanged(l)
    PROVE  KeysDeleted' /\ FirstInTime' /\ (~forgotten' => CertMemory')
<1> USE DEF CertInv
<1>1. KeysDeleted'
  BY DEF KeysDeleted, Certs!CertTypeOK, Certs!Keys
<1>2. FirstInTime'
  BY DEF FirstInTime
<1>3. ASSUME ~forgotten PROVE CertMemory'
  <2>1. ASSUME NEW l \in Leaves, leaf'[l].there
        PROVE  /\ leaf'[l].age <= 4
               /\ l \notin resync' => leaf'[l].age <= 3
               /\ \E c \in Issuers : c.key = leaf'[l].key /\ c.age <= leaf'[l].age + 20
    <3>1. CASE bundle.there /\ leaf'[l] = Certs!Signed
      <4>1. leaf'[l].age = 0 /\ leaf'[l].key = bundle.ca.key /\ bundle.ca.age <= 20
        BY <3>1, LeafTypes DEF FirstInTime
      <4>2. bundle.ca \in Issuers
        BY <3>1 DEF Issuers, Certs!Trusted
      <4>3. QED
        BY <4>1, <4>2
    <3>2. CASE leaf'[l] = leaf[l] /\ (l \in resync /\ l \notin resync' /\ leaf[l].there => leaf[l].age <= 3)
      <4>1. leaf[l].there /\ leaf[l].age <= 4 /\ (l \notin resync' => leaf[l].age <= 3)
        BY <1>3, <2>1, <3>2 DEF CertMemory, LeavesInTime
      <4>2. \E c \in Issuers : c.key = leaf[l].key /\ c.age <= leaf[l].age + 20
        BY <1>3, <4>1 DEF CertMemory, IssuersTrusted
      <4>3. QED
        BY <3>2, <4>1, <4>2
    <3>3. LeafChanged(l)
      BY <1>3
    <3>4. QED
      BY <2>1, <3>1, <3>2, <3>3 DEF LeafChanged
  <2>2. Issuers' = Issuers
    BY DEF Issuers
  <2>3. LeavesInTime' /\ IssuersTrusted'
    BY <2>1, <2>2 DEF LeavesInTime, IssuersTrusted
  <2>4. QED
    BY <1>3, <2>3 DEF CertMemory, ComesBack, LoadedFollows
<1>4. QED
  BY <1>1, <1>2, <1>3

\* Steps that sign or delete a leaf.
LEMMA LeafSteps ==
    ASSUME CertInv,
           \/ \E l \in Leaves : Certs!ResyncLeaf(l) \/ Certs!DeleteLeaf(l)
           \/ Certs!createCertSecret \/ Certs!CreateUpdateMtlsCertSecretForHubCollector
           \/ Certs!Sign
    PROVE  CertInv'
<1> USE DEF CertInv
<1> DEFINE Rest == UNCHANGED <<bundle, lastKey, dropped, loaded, restartDue, forgotten>>
<1>1. deletions \in 0..MaxDeletions /\ deletions \in Nat
  BY DEF Certs!CertTypeOK
<1>2. ASSUME NEW l \in Leaves, NEW x \in LeafType
      PROVE  /\ [leaf EXCEPT ![l] = x] \in [Leaves -> LeafType]
             /\ [leaf EXCEPT ![l] = x][l] = x
             /\ \A m \in Leaves \ {l} : [leaf EXCEPT ![l] = x][m] = leaf[m]
  BY LeafTypes
<1>3. ASSUME NEW l \in Leaves, Certs!ResyncLeaf(l) PROVE CertInv'
  <2>1. /\ Rest /\ UNCHANGED <<deletions, certFaults, caCreated, certStep>>
        /\ l \in resync \ {"spoke"} /\ resync' = resync \ {l} /\ ~dropped.there
        /\ certReq' \in {certReq, certReq \cup {"placement"}, certReq \cup {"mco"}}
    BY <1>3 DEF Certs!ResyncLeaf
  <2> DEFINE renew == leaf[l].there /\ Certs!needsRenew(leaf[l].age, Certs!LeafLife)
  <2>2. \/ leaf' = leaf /\ (renew => ~bundle.there)
        \/ leaf' = [leaf EXCEPT ![l] = Certs!NoLeaf]
        \/ bundle.there /\ leaf' = [leaf EXCEPT ![l] = Certs!Signed]
    BY <1>3 DEF Certs!ResyncLeaf
  <2>3. leaf[l].there /\ ~renew => leaf[l].age <= 3
    BY LeafTypes DEF Certs!needsRenew, Certs!LeafLife
  <2> HIDE DEF renew
  <2>4. leaf' \in [Leaves -> LeafType]
    BY <1>2, <2>2, LeafTypes
  <2>5. ASSUME ~forgotten, NEW m \in Leaves PROVE LeafChanged(m)
    <3>1. bundle.there
      BY <2>1, <2>5 DEF CertMemory, ComesBack
    <3>2. CASE leaf' = leaf /\ (renew => ~bundle.there)
      BY <2>1, <2>2, <2>3, <3>1, <3>2 DEF LeafChanged
    <3>3. CASE leaf' = [leaf EXCEPT ![l] = Certs!NoLeaf]
      BY <1>2, <2>1, <3>3, LeafTypes DEF LeafChanged
    <3>4. CASE leaf' = [leaf EXCEPT ![l] = Certs!Signed]
      BY <1>2, <2>1, <3>1, <3>4, LeafTypes DEF LeafChanged
    <3>5. QED
      BY <2>2, <3>2, <3>3, <3>4
  <2>6. "ca" # l
    BY CertsAssumption
  <2>7. Certs!CertTypeOK'
    BY <2>1, <2>4 DEF Certs!CertTypeOK, LeafType, Certs!CertControllers
  <2>8. QED
    BY <1>1, <2>1, <2>4, <2>5, <2>6, <2>7, LeavesChange
<1>4. ASSUME NEW l \in Leaves, Certs!DeleteLeaf(l) PROVE CertInv'
  <2>1. /\ Rest /\ UNCHANGED <<resync, certFaults, caCreated, certStep>>
        /\ deletions < MaxDeletions /\ deletions' = deletions + 1
        /\ leaf' = [leaf EXCEPT ![l] = Certs!NoLeaf]
        /\ certReq' \in {certReq \cup {"placement"}, certReq \cup {"mco"}}
    BY <1>4 DEF Certs!DeleteLeaf
  <2>2. leaf' \in [Leaves -> LeafType]
    BY <1>2, <2>1, LeafTypes
  <2>3. \A m \in Leaves : LeafChanged(m)
    BY <1>2, <2>1, LeafTypes DEF LeafChanged
  <2>4. deletions' \in 0..MaxDeletions
    BY <1>1, <2>1, CertsAssumption
  <2>5. Certs!CertTypeOK'
    BY <2>1, <2>2, <2>4 DEF Certs!CertTypeOK, LeafType, Certs!CertControllers
  <2>6. QED
    BY <1>1, <2>1, <2>2, <2>3, <2>5, LeavesChange
<1>5. CASE Certs!createCertSecret
  <2>1. /\ Rest /\ UNCHANGED <<resync, deletions, certFaults>>
        /\ certStep' = "idle" /\ caCreated' = FALSE
        /\ certReq' \in {certReq, certReq \cup {"mco"}}
        /\ \/ leaf' = leaf
           \/ /\ bundle.there
              /\ leaf' = [l \in Leaves |-> IF l = "grafana" /\ (caCreated \/ ~leaf[l].there)
                                         THEN Certs!Signed ELSE leaf[l]]
    BY <1>5 DEF Certs!createCertSecret
  <2>2. leaf' \in [Leaves -> LeafType]
    BY <2>1, LeafTypes
  <2>3. \A m \in Leaves : LeafChanged(m)
    BY <2>1 DEF LeafChanged
  <2>4. Certs!CertTypeOK'
    BY <2>1, <2>2 DEF Certs!CertTypeOK, LeafType, Certs!CertControllers
  <2>5. QED
    BY <1>1, <2>1, <2>2, <2>3, <2>4, LeavesChange
<1>6. CASE Certs!CreateUpdateMtlsCertSecretForHubCollector
  <2>1. /\ Rest /\ UNCHANGED <<resync, deletions, certFaults, caCreated, certStep>>
        /\ bundle.there /\ "hub" \in Leaves
        /\ certReq' \subseteq certReq
        /\ leaf' \in {leaf, [leaf EXCEPT !["hub"] = Certs!Signed]}
    BY <1>6 DEF Certs!CreateUpdateMtlsCertSecretForHubCollector,
       Certs!newMtlsCertSecretForHubCollector
  <2>2. leaf' \in [Leaves -> LeafType]
    BY <1>2, <2>1, LeafTypes
  <2>3. \A m \in Leaves : LeafChanged(m)
    BY <1>2, <2>1, LeafTypes DEF LeafChanged
  <2>4. Certs!CertTypeOK'
    BY <2>1, <2>2 DEF Certs!CertTypeOK, LeafType
  <2>5. QED
    BY <1>1, <2>1, <2>2, <2>3, <2>4, LeavesChange
<1>7. CASE Certs!Sign
  <2> DEFINE renew == Certs!needsRenew(leaf["spoke"].age, Certs!LeafLife)
  <2>1. /\ Rest /\ UNCHANGED <<certReq, deletions, certFaults, caCreated, certStep>>
        /\ bundle.there /\ "spoke" \in resync /\ resync' = resync \ {"spoke"}
        /\ leaf' = IF renew THEN [leaf EXCEPT !["spoke"] = Certs!Signed] ELSE leaf
    BY <1>7 DEF Certs!Sign
  <2>2. "spoke" \in Leaves
    BY <2>1 DEF Certs!CertTypeOK, Certs!Secrets
  <2>3. ~renew => leaf["spoke"].age <= 3
    BY <2>2, LeafTypes DEF Certs!needsRenew, Certs!LeafLife
  <2> HIDE DEF renew
  <2>4. leaf' \in [Leaves -> LeafType]
    BY <1>2, <2>1, <2>2, LeafTypes
  <2>5. \A m \in Leaves : LeafChanged(m)
    BY <1>2, <2>1, <2>2, <2>3, LeafTypes DEF LeafChanged
  <2>6. Certs!CertTypeOK'
    BY <2>1, <2>4 DEF Certs!CertTypeOK, LeafType
  <2>7. QED
    BY <1>1, <2>1, <2>4, <2>5, <2>6, LeavesChange
<1>8. QED
  BY <1>3, <1>4, <1>5, <1>6, <1>7

-----------------------------------------------------------------------------
\* The bundle changes, and every certificate that has not expired stays trusted.
LEMMA BundleChange ==
    ASSUME CertInv, leaf' = leaf, resync \ {"ca"} \subseteq resync',
           ~forgotten' => /\ ~forgotten /\ ComesBack' /\ LoadedFollows'
                          /\ \A c \in Issuers : c.age < 25 => c \in Issuers'
    PROVE  ~forgotten' => CertMemory'
<1> SUFFICES ASSUME ~forgotten' PROVE CertMemory'
  OBVIOUS
<1>1. CertMemory
  BY DEF CertInv
<1>2. \A l \in Leaves : l \in resync => l \in resync'
  BY CertsAssumption
<1>3. LeavesInTime'
  BY <1>1, <1>2 DEF CertMemory, LeavesInTime
<1>4. ASSUME NEW l \in Leaves, leaf[l].there
      PROVE  \E c \in Issuers' : c.key = leaf[l].key /\ c.age <= leaf[l].age + 20
  <2>1. PICK c \in Issuers : c.key = leaf[l].key /\ c.age <= leaf[l].age + 20
    BY <1>1, <1>4 DEF CertMemory, IssuersTrusted
  <2>2. c \in Certs!Certificate
    BY BundleParts, LeafTypes DEF Issuers, CertInv
  <2>3. c.age \in 0..25 /\ leaf[l].age \in 0..25 /\ leaf[l].age <= 4
    BY <1>1, <1>4, <2>2, CertificateParts, LeafTypes DEF CertMemory, LeavesInTime, CertInv
  <2>4. c \in Issuers'
    BY <2>1, <2>3
  <2>5. QED
    BY <2>1, <2>4
<1>5. IssuersTrusted'
  BY <1>4 DEF IssuersTrusted
<1>6. QED
  BY <1>3, <1>5 DEF CertMemory

LEMMA BundleSteps ==
    ASSUME CertInv,
           \/ Certs!ResyncCA \/ Certs!AddBack \/ Certs!restartPods
           \/ Certs!createCASecret \/ Certs!DeleteCA
    PROVE  CertInv'
<1> USE DEF CertInv
<1>1. /\ bundle \in Certs!Bundles /\ dropped \in Certs!Bundles /\ loaded \in Certs!Bundles
      /\ bundle.there \in BOOLEAN /\ dropped.there \in BOOLEAN
      /\ ~bundle.there => Certs!Trusted(bundle) = {}
      /\ ~dropped.there => Certs!Trusted(dropped) = {}
  BY BundleParts, LeafTypes DEF Certs!Trusted
<1>2. lastKey \in Nat /\ deletions \in Nat
  BY DEF Certs!CertTypeOK, Certs!Keys
<1>3. CASE Certs!ResyncCA
  <2>1. /\ "ca" \in resync /\ ~dropped.there /\ resync' = resync \ {"ca"}
        /\ bundle' = IF bundle.there THEN Certs!renewCA(Certs!removeExpiredCA(bundle)) ELSE bundle
        /\ certReq' \in {certReq, certReq \cup {"mco"}}
        /\ UNCHANGED <<lastKey, leaf, dropped, loaded, caCreated, certStep, forgotten,
                       deletions, certFaults>>
    BY <1>3 DEF Certs!ResyncCA
  <2>2. (restartDue' <=> restartDue \/ bundle' # bundle) /\ restartDue' \in BOOLEAN
    BY <1>3 DEF Certs!ResyncCA, Certs!CertTypeOK
  <2>3. /\ bundle' \in Certs!Bundles /\ bundle'.there = bundle.there
        /\ bundle'.there => bundle'.ca.age < 20 /\ bundle'.ca.age \in 0..25
        /\ \A c \in Certs!Trusted(bundle) : c.age < 25 => c \in Certs!Trusted(bundle')
    <3>1. CASE bundle.there
      <4>1. /\ bundle' \in Certs!Bundles /\ bundle'.there /\ bundle'.ca.age < 20
            /\ \A c \in Certs!Trusted(bundle) : c.age < 25 => c \in Certs!Trusted(bundle')
        BY <1>1, <2>1, <3>1, ResyncKeepsTrust
      <4>2. bundle'.ca.age \in 0..25
        BY <4>1, BundleParts, CertificateParts
      <4>3. QED
        BY <3>1, <4>1, <4>2
    <3>2. CASE ~bundle.there
      BY <1>1, <2>1, <3>2
    <3>3. QED
      BY <3>1, <3>2
  <2>4. Certs!CertTypeOK'
    BY <2>1, <2>2, <2>3 DEF Certs!CertTypeOK, Certs!CertControllers
  <2>5. KeysDeleted' /\ FirstInTime'
    BY <2>1, <2>3 DEF KeysDeleted, FirstInTime
  <2>6. ~forgotten => LoadedFollows'
    BY <2>1, <2>2, <2>3 DEF CertMemory, LoadedFollows
  <2>7. ~forgotten => ComesBack'
    BY <2>1, <2>3 DEF CertMemory, ComesBack
  <2>8. \A c \in Issuers : c.age < 25 => c \in Issuers'
    BY <2>1, <2>3 DEF Issuers
  <2>9. QED
    BY <2>1, <2>4, <2>5, <2>6, <2>7, <2>8, BundleChange
<1>4. CASE Certs!AddBack
  <2>1. /\ dropped.there /\ bundle.there /\ dropped' = Certs!NoBundle /\ restartDue' = TRUE
        /\ bundle' = Certs!Bundle(bundle.ca, bundle.older \cup Certs!Trusted(dropped))
        /\ certReq' = certReq \cup {"mco"}
        /\ UNCHANGED <<lastKey, leaf, loaded, resync, caCreated, certStep, forgotten,
                       deletions, certFaults>>
    BY <1>4 DEF Certs!AddBack
  <2>2. /\ bundle' \in Certs!Bundles /\ bundle'.there /\ bundle'.ca = bundle.ca
        /\ Certs!Trusted(bundle') = Certs!Trusted(bundle) \cup Certs!Trusted(dropped)
        /\ dropped' \in Certs!Bundles
    <3>1. dropped' \in Certs!Bundles
      BY <2>1 DEF Certs!Bundles
    <3>2. LET new == Certs!Bundle(bundle.ca, bundle.older \cup Certs!Trusted(dropped)) IN
          /\ new \in Certs!Bundles /\ new.there /\ new.ca = bundle.ca
          /\ Certs!Trusted(new) = Certs!Trusted(bundle) \cup Certs!Trusted(dropped)
      BY <1>1, <2>1, AddBackTrustsBoth
    <3>3. QED
      BY <2>1, <3>1, <3>2
  <2>3. Certs!CertTypeOK'
    BY <2>1, <2>2 DEF Certs!CertTypeOK, Certs!CertControllers
  <2>4. KeysDeleted' /\ FirstInTime' /\ ComesBack' /\ LoadedFollows'
    BY <2>1, <2>2 DEF KeysDeleted, FirstInTime, ComesBack, LoadedFollows
  <2>5. Issuers \subseteq Issuers'
    BY <2>2 DEF Issuers
  <2>6. QED
    BY <2>1, <2>3, <2>4, <2>5, BundleChange
<1>5. CASE Certs!restartPods
  <2>1. /\ restartDue /\ ~dropped.there /\ bundle.there /\ restartDue' = FALSE
        /\ UNCHANGED <<bundle, lastKey, leaf, dropped, resync, certReq, caCreated, certStep, deletions>>
        /\ \/ loaded' = bundle /\ UNCHANGED <<forgotten, certFaults>>
           \/ /\ forgotten' = TRUE /\ loaded' = loaded
              /\ certFaults < MaxCertFaults /\ certFaults' = certFaults + 1
    BY <1>5 DEF Certs!restartPods, Certs!updateDeployLabel
  <2>2. loaded' \in Certs!Bundles /\ forgotten' \in BOOLEAN
    BY <1>1, <2>1 DEF Certs!CertTypeOK
  <2>3. certFaults' \in 0..MaxCertFaults
    BY <2>1, CertsAssumption DEF Certs!CertTypeOK
  <2>4. Certs!CertTypeOK'
    BY <2>1, <2>2, <2>3 DEF Certs!CertTypeOK
  <2>5. KeysDeleted' /\ FirstInTime' /\ ComesBack' /\ Issuers' = Issuers
    BY <2>1 DEF KeysDeleted, FirstInTime, ComesBack, Issuers
  <2>6. ~forgotten' => ~forgotten /\ LoadedFollows'
    BY <2>1 DEF LoadedFollows
  <2>7. QED
    BY <2>1, <2>4, <2>5, <2>6, BundleChange
<1>6. CASE Certs!createCASecret
  <2> DEFINE first == [key |-> lastKey + 1, age |-> 0]
  <2>1. /\ certReq' = certReq \ {"mco"} /\ certStep' = "leaves"
        /\ UNCHANGED <<leaf, dropped, loaded, resync, forgotten, deletions, certFaults>>
        /\ \/ bundle.there /\ UNCHANGED <<bundle, lastKey, restartDue>>
           \/ /\ ~bundle.there /\ bundle' = Certs!Bundle(first, {})
              /\ lastKey' = lastKey + 1 /\ restartDue' = TRUE
    BY <1>6 DEF Certs!createCASecret
  <2>2. caCreated' \in BOOLEAN
    BY <1>6 DEF Certs!createCASecret
  <2>3. CASE bundle.there
    <3>1. UNCHANGED <<bundle, lastKey, restartDue>>
      BY <2>1, <2>3
    <3>2. Certs!CertTypeOK'
      BY <2>1, <2>2, <3>1 DEF Certs!CertTypeOK
    <3>3. /\ KeysDeleted' /\ FirstInTime' /\ Issuers' = Issuers
          /\ ~forgotten => ComesBack' /\ LoadedFollows'
      BY <2>1, <3>1 DEF KeysDeleted, FirstInTime, Issuers, CertMemory, ComesBack, LoadedFollows
    <3>4. QED
      BY <2>1, <3>2, <3>3, BundleChange
  <2>4. CASE ~bundle.there
    <3>1. lastKey + 1 <= MaxDeletions /\ lastKey + 1 <= deletions
      BY <1>2, <2>4, CertsAssumption DEF KeysDeleted, Certs!CertTypeOK
    <3>2. lastKey + 1 \in Certs!Keys
      BY <1>2, <3>1, CertsAssumption DEF Certs!Keys
    <3>3. first \in Certs!Certificate /\ first.age = 0
      BY <3>2 DEF Certs!Certificate, Certs!CaLife, Certs!LeafLife
    <3> HIDE DEF first
    <3>4. bundle' = Certs!Bundle(first, {}) /\ lastKey' = lastKey + 1 /\ restartDue' = TRUE
      BY <2>1, <2>4
    <3>5. bundle' \in Certs!Bundles /\ bundle'.there /\ bundle'.ca = first
      BY <3>3, <3>4, BundleMade
    <3>6. Certs!CertTypeOK'
      BY <2>1, <2>2, <3>2, <3>4, <3>5 DEF Certs!CertTypeOK
    <3>7. /\ KeysDeleted' /\ FirstInTime' /\ Issuers \subseteq Issuers'
          /\ ComesBack' /\ LoadedFollows'
      BY <1>1, <1>2, <2>1, <2>4, <3>1, <3>3, <3>4, <3>5
         DEF KeysDeleted, FirstInTime, Issuers, ComesBack, LoadedFollows
    <3>8. QED
      BY <2>1, <3>6, <3>7, BundleChange
  <2>5. QED
    BY <2>3, <2>4
<1>7. CASE Certs!DeleteCA
  <2>1. /\ bundle.there /\ ~dropped.there /\ dropped' = bundle /\ bundle' = Certs!NoBundle
        /\ deletions < MaxDeletions /\ deletions' = deletions + 1
        /\ certReq' = certReq \cup {"mco"}
        /\ UNCHANGED <<lastKey, leaf, loaded, restartDue, resync, caCreated, certStep, forgotten,
                       certFaults>>
    BY <1>7 DEF Certs!DeleteCA
  <2>2. bundle' \in Certs!Bundles /\ ~bundle'.there
    BY <2>1, BundleMade
  <2>3. deletions' \in 0..MaxDeletions
    BY <1>2, <2>1, CertsAssumption
  <2>4. Certs!CertTypeOK'
    BY <1>1, <2>1, <2>2, <2>3 DEF Certs!CertTypeOK, Certs!CertControllers
  <2>5. /\ KeysDeleted' /\ FirstInTime' /\ Issuers \subseteq Issuers'
        /\ ComesBack' /\ LoadedFollows'
    BY <1>1, <1>2, <2>1, <2>2 DEF KeysDeleted, FirstInTime, Issuers, ComesBack, LoadedFollows
  <2>6. QED
    BY <2>1, <2>4, <2>5, BundleChange
<1>8. QED
  BY <1>3, <1>4, <1>5, <1>6, <1>7

\* Calls that fail and restarts.
LEMMA CertFaultSteps ==
    ASSUME CertInv, Certs!CertFails \/ Certs!GiveUp \/ Certs!RestartCertOperator
    PROVE  CertInv'
<1> USE DEF CertInv
<1>1. /\ certFaults < MaxCertFaults /\ certFaults' = certFaults + 1
      /\ UNCHANGED <<bundle, lastKey, leaf, loaded, resync, deletions>>
      /\ dropped' \in {dropped, Certs!NoBundle}
      /\ certReq' \in {certReq, certReq \cup {"mco"}, Certs!CertControllers}
      /\ certStep' \in {certStep, "idle"}
  BY DEF Certs!CertFails, Certs!GiveUp, Certs!RestartCertOperator
<1>2. /\ forgotten' \in BOOLEAN /\ restartDue' \in BOOLEAN /\ caCreated' \in BOOLEAN
  BY DEF Certs!CertFails, Certs!GiveUp, Certs!RestartCertOperator, Certs!CertTypeOK
<1>3. ~forgotten' => /\ ~forgotten /\ (dropped' = dropped \/ ~dropped.there)
                     /\ restartDue' = restartDue \/ restartDue' = TRUE
  BY DEF Certs!CertFails, Certs!GiveUp, Certs!RestartCertOperator
<1>4. /\ dropped' \in Certs!Bundles
      /\ ~dropped.there => ~dropped'.there /\ Certs!Trusted(dropped) = {}
  BY <1>1, BundleMade, LeafTypes DEF Certs!Trusted
<1>5. certFaults' \in 0..MaxCertFaults
  BY <1>1, CertsAssumption DEF Certs!CertTypeOK
<1>6. Certs!CertTypeOK'
  BY <1>1, <1>2, <1>4, <1>5 DEF Certs!CertTypeOK, Certs!CertControllers
<1>7. KeysDeleted' /\ FirstInTime'
  BY <1>1 DEF KeysDeleted, FirstInTime
<1>8. ~forgotten' => ComesBack' /\ Issuers \subseteq Issuers'
  BY <1>1, <1>3, <1>4 DEF ComesBack, Issuers, CertMemory
<1>9. ~forgotten' => LoadedFollows'
  <2>1. CASE Certs!CertFails \/ Certs!RestartCertOperator
    BY <1>1, <1>3, <1>4, <2>1 DEF LoadedFollows, CertMemory, Certs!CertFails,
       Certs!RestartCertOperator
  <2>2. CASE Certs!GiveUp
    BY <2>2 DEF Certs!GiveUp
  <2>3. QED
    BY <2>1, <2>2
<1>10. QED
  BY <1>1, <1>3, <1>6, <1>7, <1>8, <1>9, BundleChange

LEMMA CertsStay == ASSUME CertInv, [Certs!CertNext]_certVars PROVE CertInv'
<1>1. CASE UNCHANGED certVars
  <2>1. UNCHANGED <<bundle, lastKey, leaf, dropped, loaded, restartDue, resync, certReq,
                    caCreated, certStep, forgotten, deletions, certFaults>>
    BY <1>1 DEF certVars
  <2>2. Certs!CertTypeOK'
    BY <2>1 DEF CertInv, Certs!CertTypeOK
  <2>3. QED
    BY <2>1, <2>2 DEF CertInv, KeysDeleted, FirstInTime, CertMemory, LeavesInTime, ComesBack,
       LoadedFollows, IssuersTrusted, Issuers
<1>2. QED
  BY <1>1, TimePasses, LeafSteps, BundleSteps, CertFaultSteps DEF Certs!CertNext, Certs!CertStep

\* For any leaves and any number of deletions, failures and rotations, every client
\* certificate is accepted whenever the operator is at rest: the issuer of each leaf
\* stays in the bundle for as long as the leaf lives, and the API has been started
\* with that bundle (createCASecret, removeExpiredCA, onDelete, restartPods).
THEOREM CertsClientsAccepted == SystemSpec => []ClientsAccepted
<1> DEFINE Inv == part = "certs" => CertInv
<1>1. SystemInit => Inv
  BY CertsStart, CertsBegin
<1>2. Inv /\ [SystemNext]_systemVars => Inv'
  BY CertsStep, CertsStay
<1>3. Inv => ClientsAccepted
  <2> SUFFICES ASSUME CertInv, Certs!Quiet, ~forgotten, NEW l \in Leaves, leaf[l].there
               PROVE  Certs!Accepts(l)
    BY DEF ClientsAccepted, Certs!ClientsAccepted
  <2>1. CertMemory /\ Certs!CertTypeOK
    BY DEF CertInv
  <2>2. leaf[l].age <= 3 /\ leaf[l].age \in 0..25
    BY <2>1, LeafTypes DEF Certs!Quiet, CertMemory, LeavesInTime
  <2>3. loaded = bundle /\ ~dropped.there
    BY <2>1 DEF Certs!Quiet, CertMemory, ComesBack, LoadedFollows
  <2>4. PICK c \in Issuers : c.key = leaf[l].key /\ c.age <= leaf[l].age + 20
    BY <2>1 DEF CertMemory, IssuersTrusted
  <2>5. c \in Certs!Trusted(loaded)
    BY <2>3 DEF Issuers, Certs!Trusted
  <2>6. c.age \in 0..25
    BY <2>1, <2>5, LeafTypes, BundleParts, CertificateParts
  <2>7. ~Certs!Expired(c.age, Certs!CaLife) /\ ~Certs!Expired(leaf[l].age, Certs!LeafLife)
    BY <2>2, <2>4, <2>6 DEF Certs!Expired, Certs!CaLife, Certs!LeafLife
  <2>8. QED
    BY <2>4, <2>5, <2>7 DEF Certs!Accepts
<1>4. QED
  BY <1>1, <1>2, <1>3, PTL DEF SystemSpec

-----------------------------------------------------------------------------
(***************************************************************************)
(* Dashboards: what the ConfigMaps hold                                    *)
(***************************************************************************)
LEMMA DashboardsStart == SystemInit /\ part = "dashboards" => Dashboards!DashInit
  BY DEF SystemInit

LEMMA DashboardsStep ==
    ASSUME [SystemNext]_systemVars
    PROVE  /\ part' = part
           /\ part = "dashboards" => [Dashboards!DashNext]_dashVars
  BY DEF SystemNext, systemVars

\* ConfigMaps name dashboards.
MapsTyped == maps \in [DashMaps -> Dashboards!Content]

LEMMA NoContentTyped == Dashboards!NoContent \in Dashboards!Content
  BY DEF Dashboards!NoContent, Dashboards!Content, Dashboards!Folders

LEMMA MapsStayTyped ==
    ASSUME MapsTyped, [Dashboards!DashNext]_dashVars
    PROVE  MapsTyped'
<1>1. CASE maps' = maps
  BY <1>1 DEF MapsTyped
<1>2. ASSUME NEW c \in DashMaps,
             NEW new \in MapContents[c] \cup {Dashboards!NoContent},
             Dashboards!ChangeMap(c, new)
      PROVE  MapsTyped'
  <2>1. new \in Dashboards!Content
    BY NoContentTyped, DashboardsAssumption
  <2>2. maps' = [maps EXCEPT ![c] = new]
    BY <1>2 DEF Dashboards!ChangeMap
  <2>3. QED
    BY <2>1, <2>2 DEF MapsTyped
<1>3. ASSUME NEW c \in DashMaps, Dashboards!ResyncMap(c) \/ Dashboards!AddLater(c)
      PROVE  maps' = maps
  BY <1>3 DEF Dashboards!ResyncMap, Dashboards!AddLater
<1>4. ASSUME NEW u, NEW f, Dashboards!MadeByHand(u, f) PROVE maps' = maps
  BY <1>4 DEF Dashboards!MadeByHand
<1>5. CASE \/ Dashboards!Index \/ Dashboards!WorkerReads \/ Dashboards!WorkerHandles
           \/ Dashboards!WorkerTimesOut \/ Dashboards!SweepLists \/ Dashboards!SweepScans
           \/ Dashboards!SweepDeletes \/ Dashboards!SweepFails \/ Dashboards!RestartLoader
  BY <1>1, <1>5 DEF Dashboards!Index, Dashboards!WorkerReads, Dashboards!WorkerHandles,
     Dashboards!WorkerTimesOut, Dashboards!SweepLists, Dashboards!SweepScans,
     Dashboards!SweepDeletes, Dashboards!SweepFails, Dashboards!RestartLoader
<1>6. CASE UNCHANGED dashVars
  BY <1>1, <1>6 DEF dashVars
<1>7. QED
  BY <1>1, <1>2, <1>3, <1>4, <1>5, <1>6 DEF Dashboards!DashNext

-----------------------------------------------------------------------------
(***************************************************************************)
(* Types: the loader of dashboards                                         *)
(***************************************************************************)
LEMMA DashBounds == MaxMapChanges \in Nat /\ MaxRetries \in Nat /\ MaxDashFaults \in Nat
  BY BoundsAssumption

\* The work queue holds no ConfigMap twice.
Once(q) == \A i, j \in DOMAIN q : q[i] = q[j] => i = j
QueueInv == keys \in Seq(DashMaps) /\ Once(keys)

\* The two instances of the module FiniteSets define the same.
LEMMA DashCardinality == \A S : Dashboards!Cardinality(S) = Cardinality(S)
  BY DEF Dashboards!Cardinality, Cardinality

\* Such a queue is as long as there are ConfigMaps, at most.
LEMMA QueueIsBounded ==
    ASSUME NEW q \in Seq(DashMaps), Once(q)
    PROVE  q \in Dashboards!BoundedSeq(DashMaps, Dashboards!Cardinality(DashMaps))
<1> DEFINE n == Cardinality(DashMaps)
<1>1. IsFiniteSet(DashMaps)
  BY DashboardsAssumption
<1>2. n \in Nat
  BY <1>1, FS_CardinalityType
<1>3. Len(q) \in Nat /\ q \in [1..Len(q) -> DashMaps] /\ DOMAIN q = 1..Len(q)
  OBVIOUS
<1>4. q \in Injection(1..Len(q), DashMaps)
  BY <1>3 DEF Once, Injection, IsInjective
<1>5. Cardinality(1..Len(q)) = Len(q)
  BY <1>3, FS_Interval
<1>6. Len(q) \in 0..n
  BY <1>1, <1>2, <1>3, <1>4, <1>5, FS_Injection
<1>7. Dashboards!Cardinality(DashMaps) = n
  BY DashCardinality
<1> HIDE DEF n
<1>8. QED
  BY <1>3, <1>6, <1>7, Zenon DEF Dashboards!BoundedSeq, Dashboards!SeqOf

LEMMA QueueGrows ==
    ASSUME NEW q \in Seq(DashMaps), Once(q), NEW c \in DashMaps
    PROVE  LET r == IF Dashboards!Contains(q, c) THEN q ELSE Append(q, c)
           IN  r \in Seq(DashMaps) /\ Once(r)
  BY DEF Once, Dashboards!Contains

LEMMA QueueShrinks ==
    ASSUME NEW q \in Seq(DashMaps), Once(q), q # <<>>
    PROVE  Tail(q) \in Seq(DashMaps) /\ Once(Tail(q)) /\ Head(q) \in DashMaps
  BY DEF Once

LEMMA QueueStarts ==
    ASSUME NEW S \in SUBSET DashMaps, NEW q \in Dashboards!SetToSeqs(S)
    PROVE  q \in Seq(DashMaps) /\ Once(q)
<1> DEFINE n == Cardinality(S)
<1>1. IsFiniteSet(S)
  BY DashboardsAssumption, FS_Subset
<1>2. n \in Nat
  BY <1>1, FS_CardinalityType
<1>3. Dashboards!Cardinality(S) = n
  BY DashCardinality
<1>4. q \in [1..n -> S] /\ \A i, j \in 1..n : i # j => q[i] # q[j]
  BY <1>3, Zenon DEF Dashboards!SetToSeqs
<1> HIDE DEF n
<1>5. q \in [1..n -> DashMaps]
  BY <1>4
<1>6. q \in Seq(DashMaps)
  BY <1>2, <1>5
<1>7. QED
  BY <1>4, <1>6 DEF Once

\* Whatever the worker does with its item, it is done with it then.
LEMMA WorkerIsDone ==
    ASSUME Dashboards!WorkerHandles
    PROVE  \E failed : Dashboards!Handled(failed)
<1>1. ASSUME NEW failing, NEW unlisted, NEW stuck, NEW lags,
             Dashboards!updateDashboard(failing, unlisted, stuck, lags)
      PROVE  \E failed : Dashboards!Handled(failed)
  BY <1>1 DEF Dashboards!updateDashboard
<1>2. ASSUME NEW failing, NEW unlisted, NEW stuck, NEW lags,
             Dashboards!deleteTrackedUIDs(failing, unlisted, stuck, lags)
      PROVE  \E failed : Dashboards!Handled(failed)
  BY <1>2 DEF Dashboards!deleteTrackedUIDs
<1>3. ASSUME NEW f, Dashboards!createCustomFolder(f)
      PROVE  \E failed : Dashboards!Handled(failed)
  BY <1>3 DEF Dashboards!createCustomFolder
<1>4. QED
  BY <1>1, <1>2, <1>3 DEF Dashboards!WorkerHandles

LEMMA QueueHoldsOnce ==
    ASSUME QueueInv, [Dashboards!DashNext]_dashVars
    PROVE  QueueInv'
<1>1. CASE keys' = keys
  BY <1>1 DEF QueueInv
<1>2. ASSUME NEW c \in DashMaps,
             keys' = IF Dashboards!Contains(keys, c) THEN keys ELSE Append(keys, c)
      PROVE  QueueInv'
  BY <1>2, QueueGrows DEF QueueInv
<1>3. ASSUME NEW c \in DashMaps, Dashboards!Add(c) PROVE QueueInv'
  BY <1>1, <1>2, <1>3 DEF Dashboards!Add
<1>4. CASE Dashboards!WorkerReads
  BY <1>4, QueueShrinks DEF QueueInv, Dashboards!WorkerReads
<1>5. CASE Dashboards!RestartLoader
  BY <1>5, QueueStarts DEF QueueInv, Dashboards!RestartLoader, Dashboards!Desired
<1>6. ASSUME NEW c \in DashMaps, \/ Dashboards!ResyncMap(c) \/ Dashboards!AddLater(c)
                                 \/ \E new : Dashboards!ChangeMap(c, new)
      PROVE  QueueInv'
  BY <1>1, <1>2, <1>3, <1>6
     DEF Dashboards!ResyncMap, Dashboards!AddLater, Dashboards!ChangeMap
<1>7. CASE \/ Dashboards!Index \/ Dashboards!WorkerHandles \/ Dashboards!WorkerTimesOut
           \/ Dashboards!SweepLists \/ Dashboards!SweepScans \/ Dashboards!SweepDeletes
           \/ Dashboards!SweepFails \/ UNCHANGED dashVars
           \/ \E u \in Uids, f \in Dashboards!Folders : Dashboards!MadeByHand(u, f)
  BY <1>1, <1>7, WorkerIsDone DEF dashVars, Dashboards!Index,
     Dashboards!WorkerTimesOut, Dashboards!SweepLists, Dashboards!SweepScans,
     Dashboards!SweepDeletes, Dashboards!SweepFails, Dashboards!MadeByHand,
     Dashboards!Handled
<1>8. QED
  BY <1>4, <1>5, <1>6, <1>7 DEF Dashboards!DashNext

\* The rest of the types, by what they are about
Boards == [Uids -> Dashboards!Placed]
Tracked == [known : BOOLEAN, uids : SUBSET Uids, folder : Dashboards!Folders]

InformerTypes ==
    /\ \A c \in DashMaps : maps[c] \in MapContents[c] \cup {Dashboards!NoContent}
    /\ later \subseteq DashMaps
    /\ retries \in [DashMaps -> 0..MaxRetries]
GrafanaTypes ==
    /\ boards \in Boards /\ searched \in Boards /\ listed \in Boards
    /\ expected \subseteq Uids
    /\ folders \subseteq Dashboards!Folders \ {Dashboards!General} /\ homeBoard \subseteq Uids
LoaderTypes ==
    /\ work \in [busy : BOOLEAN, key : DashMaps, map : Dashboards!Content]
    /\ uidMap \in [DashMaps -> Tracked]
    /\ lock \in {"free", "sweep", "delete", "worker"} /\ started \in BOOLEAN
    /\ abandoned \subseteq DashMaps
DashCounts == mapChanges \in 0..MaxMapChanges /\ dashFaults \in 0..MaxDashFaults

DashTypes ==
    MapsTyped /\ QueueInv /\ InformerTypes /\ GrafanaTypes /\ LoaderTypes /\ DashCounts

LEMMA DashTypesAreTypes == ASSUME DashTypes PROVE Dashboards!DashTypeOK
<1>1. keys \in Dashboards!BoundedSeq(DashMaps, Dashboards!Cardinality(DashMaps))
  BY QueueIsBounded DEF DashTypes, QueueInv
<1>2. QED
  BY <1>1 DEF DashTypes, Dashboards!DashTypeOK, InformerTypes, GrafanaTypes, LoaderTypes,
     DashCounts, Boards, Tracked

LEMMA NowhereIsPlaced ==
    /\ Dashboards!Nowhere \in Dashboards!Placed
    /\ Dashboards!Untracked \in Tracked
    /\ Dashboards!Idle \in [busy : BOOLEAN, key : DashMaps, map : Dashboards!Content]
<1>1. (CHOOSE c \in DashMaps : TRUE) \in DashMaps
  BY DashboardsAssumption
<1>2. QED
  BY <1>1, NoContentTyped DEF Dashboards!Nowhere, Dashboards!Placed, Dashboards!Untracked,
     Tracked, Dashboards!Idle, Dashboards!Folders

LEMMA DashTypesStart == ASSUME Dashboards!DashInit PROVE DashTypes
<1>1. MapsTyped /\ InformerTypes
  BY NoContentTyped, DashBounds DEF Dashboards!DashInit, MapsTyped, InformerTypes
<1>2. QueueInv
  BY DEF Dashboards!DashInit, QueueInv, Once
<1>3. GrafanaTypes
  BY NowhereIsPlaced DEF Dashboards!DashInit, GrafanaTypes, Boards
<1>4. LoaderTypes
  BY NowhereIsPlaced DEF Dashboards!DashInit, LoaderTypes
<1>5. DashCounts
  BY DashBounds DEF Dashboards!DashInit, DashCounts
<1>6. QED
  BY <1>1, <1>2, <1>3, <1>4, <1>5 DEF DashTypes

LEMMA DashCountsStay ==
    ASSUME DashCounts, [Dashboards!DashNext]_dashVars
    PROVE  DashCounts'
<1>1. /\ \/ mapChanges' = mapChanges
         \/ mapChanges < MaxMapChanges /\ mapChanges' = mapChanges + 1
      /\ \/ dashFaults' = dashFaults
         \/ dashFaults < MaxDashFaults /\ dashFaults' = dashFaults + 1
  BY DEF Dashboards!DashNext, dashVars, Dashboards!Index, Dashboards!WorkerReads,
     Dashboards!WorkerHandles, Dashboards!WorkerTimesOut, Dashboards!SweepLists,
     Dashboards!SweepScans, Dashboards!SweepDeletes, Dashboards!SweepFails,
     Dashboards!RestartLoader, Dashboards!MadeByHand, Dashboards!ResyncMap,
     Dashboards!AddLater, Dashboards!ChangeMap, Dashboards!Faulty
<1>2. QED
  BY <1>1, DashBounds DEF DashCounts

LEMMA HandledTypes ==
    ASSUME InformerTypes, LoaderTypes, NEW failed, Dashboards!Handled(failed)
    PROVE  /\ later' \subseteq DashMaps /\ retries' \in [DashMaps -> 0..MaxRetries]
           /\ work' \in [busy : BOOLEAN, key : DashMaps, map : Dashboards!Content]
           /\ abandoned' \subseteq DashMaps
<1>1. work.key \in DashMaps
  BY DEF LoaderTypes
<1>2. later' \subseteq DashMaps
  BY <1>1 DEF Dashboards!Handled, InformerTypes
<1>3. work' \in [busy : BOOLEAN, key : DashMaps, map : Dashboards!Content]
  BY NowhereIsPlaced DEF Dashboards!Handled
<1>4. retries' \in [DashMaps -> 0..MaxRetries]
  <2>1. retries[work.key] \in 0..MaxRetries
    BY <1>1 DEF InformerTypes
  <2>2. PICK n \in 0..MaxRetries : retries' = [retries EXCEPT ![work.key] = n]
    <3> DEFINE again == failed /\ retries[work.key] < MaxRetries
    <3>1. retries' = [retries EXCEPT ![work.key] =
                        IF again THEN retries[work.key] + 1 ELSE 0]
      BY <1>1 DEF Dashboards!Handled, InformerTypes
    <3>2. (IF again THEN retries[work.key] + 1 ELSE 0) \in 0..MaxRetries
      BY <2>1, DashBounds
    <3>3. QED
      BY <3>1, <3>2
  <2>3. QED
    BY <2>2 DEF InformerTypes
<1>5. abandoned' \subseteq DashMaps
  BY <1>1 DEF Dashboards!Handled, LoaderTypes
<1>6. QED
  BY <1>2, <1>3, <1>4, <1>5

LEMMA InformerTypesStay ==
    ASSUME DashTypes, [Dashboards!DashNext]_dashVars
    PROVE  InformerTypes'
<1> USE DEF DashTypes
<1>1. CASE UNCHANGED <<maps, later, retries>>
  BY <1>1 DEF InformerTypes
<1>2. ASSUME UNCHANGED maps, NEW failed, Dashboards!Handled(failed) PROVE InformerTypes'
  BY <1>2, HandledTypes DEF InformerTypes
<1>3. ASSUME UNCHANGED <<maps, retries>>, later' \subseteq DashMaps PROVE InformerTypes'
  BY <1>3 DEF InformerTypes
<1>4. ASSUME NEW c \in DashMaps, Dashboards!Add(c) PROVE later' \subseteq DashMaps
  BY <1>4 DEF InformerTypes, Dashboards!Add
<1>5. ASSUME NEW c \in DashMaps, Dashboards!ResyncMap(c) \/ Dashboards!AddLater(c)
      PROVE  InformerTypes'
  BY <1>3, <1>4, <1>5 DEF Dashboards!ResyncMap, Dashboards!AddLater, InformerTypes
<1>6. ASSUME NEW c \in DashMaps, NEW new \in MapContents[c] \cup {Dashboards!NoContent},
             Dashboards!ChangeMap(c, new)
      PROVE  InformerTypes'
  <2>1. later' \subseteq DashMaps /\ retries' = retries
    BY <1>4, <1>6 DEF Dashboards!ChangeMap, InformerTypes
  <2>2. maps' = [maps EXCEPT ![c] = new]
    BY <1>6 DEF Dashboards!ChangeMap
  <2>3. QED
    BY <2>1, <2>2 DEF InformerTypes, MapsTyped
<1>7. CASE Dashboards!WorkerHandles \/ Dashboards!WorkerTimesOut
  <2>1. maps' = maps
    BY <1>7 DEF Dashboards!WorkerHandles, Dashboards!WorkerTimesOut
  <2>2. \E failed : Dashboards!Handled(failed)
    BY <1>7, WorkerIsDone DEF Dashboards!WorkerTimesOut
  <2>3. QED
    BY <1>2, <2>1, <2>2
<1>8. CASE Dashboards!RestartLoader
  BY <1>8, DashBounds DEF Dashboards!RestartLoader, InformerTypes
<1>9. CASE \/ Dashboards!Index \/ Dashboards!WorkerReads \/ Dashboards!SweepLists
           \/ Dashboards!SweepScans \/ Dashboards!SweepDeletes \/ Dashboards!SweepFails
           \/ UNCHANGED dashVars
           \/ \E u \in Uids, f \in Dashboards!Folders : Dashboards!MadeByHand(u, f)
  BY <1>1, <1>9 DEF dashVars, Dashboards!Index, Dashboards!WorkerReads,
     Dashboards!SweepLists, Dashboards!SweepScans, Dashboards!SweepDeletes,
     Dashboards!SweepFails, Dashboards!MadeByHand
<1>10. QED
  BY <1>5, <1>6, <1>7, <1>8, <1>9 DEF Dashboards!DashNext

LEMMA BoardsMove ==
    ASSUME NEW b \in Boards
    PROVE  /\ \A fs : Dashboards!DeleteFolders(b, fs) \in Boards
           /\ \A us : Dashboards!DeleteDashboards(b, us) \in Boards
           /\ searched \in Boards =>
                \A lags : Dashboards!Searched(b, lags) \in Boards
  BY NowhereIsPlaced DEF Boards, Dashboards!DeleteFolders, Dashboards!DeleteDashboards,
     Dashboards!Searched, Dashboards!Placed

LEMMA HandlesTypes ==
    ASSUME DashTypes, Dashboards!WorkerHandles
    PROVE  GrafanaTypes' /\ uidMap' \in [DashMaps -> Tracked]
<1> USE DEF DashTypes, GrafanaTypes, LoaderTypes
<1>1. /\ work.key \in DashMaps /\ work.map \in Dashboards!Content
      /\ work.map.folder \in Dashboards!Folders
      /\ work.map.good \subseteq Uids /\ work.map.home \subseteq Uids
  BY DEF Dashboards!Content
<1>2. listed' = listed /\ expected' = expected
  BY DEF Dashboards!WorkerHandles
<1>3. ASSUME NEW failing \in SUBSET Uids, NEW lags \in BOOLEAN,
             NEW unlisted, NEW stuck,
             Dashboards!deleteTrackedUIDs(failing, unlisted, stuck, lags)
      PROVE  GrafanaTypes' /\ uidMap' \in [DashMaps -> Tracked]
  <2>1. /\ boards' \in Boards /\ searched' \in Boards
    BY <1>3, BoardsMove DEF Dashboards!deleteTrackedUIDs
  <2>2. folders' \subseteq folders /\ homeBoard' = homeBoard
    BY <1>3 DEF Dashboards!deleteTrackedUIDs
  <2>3. uidMap' \in [DashMaps -> Tracked]
    <3>1. [uidMap[work.key] EXCEPT !.uids = failing] \in Tracked
      BY <1>1 DEF Tracked
    <3>2. uidMap' = [uidMap EXCEPT ![work.key] =
            IF failing = {} THEN Dashboards!Untracked
                            ELSE [uidMap[work.key] EXCEPT !.uids = failing]]
      BY <1>1, <1>3 DEF Dashboards!deleteTrackedUIDs
    <3>3. QED
      BY <1>1, <3>1, <3>2, NowhereIsPlaced
  <2>4. QED
    BY <1>2, <2>1, <2>2, <2>3
<1>4. ASSUME NEW failing \in SUBSET Uids, NEW lags \in BOOLEAN,
             NEW unlisted, NEW stuck,
             Dashboards!updateDashboard(failing, unlisted, stuck, lags)
      PROVE  GrafanaTypes' /\ uidMap' \in [DashMaps -> Tracked]
  <2> DEFINE new == work.map
             old == uidMap[work.key]
             removed == old.uids \ new.good
             all == folders \cup ({new.folder} \ {Dashboards!General})
             written == [u \in Uids |-> IF u \in new.good \ failing
                                        THEN [there |-> TRUE, folder |-> new.folder]
                                        ELSE boards[u]]
  <2>1. written \in Boards
    BY <1>1 DEF Boards, Dashboards!Placed
  <2>2. boards' \in Boards
    <3>1. \E us, fs :
            boards' = Dashboards!DeleteFolders(Dashboards!DeleteDashboards(written, us), fs)
      BY <1>4 DEF Dashboards!updateDashboard
    <3>2. QED
      BY <2>1, <3>1, BoardsMove
  <2>3. searched' \in Boards
    BY <1>4, <2>2, BoardsMove DEF Dashboards!updateDashboard
  <2>4. folders' \subseteq Dashboards!Folders \ {Dashboards!General}
    <3>1. folders' \subseteq all
      BY <1>4 DEF Dashboards!updateDashboard
    <3>2. QED
      BY <1>1, <3>1
  <2>5. homeBoard' \subseteq Uids
    BY <1>1, <1>4 DEF Dashboards!updateDashboard
  <2>6. uidMap' \in [DashMaps -> Tracked]
    <3>1. old.uids \subseteq Uids
      BY <1>1 DEF Tracked
    <3>2. [known |-> TRUE, uids |-> new.good \cup (removed \cap failing), folder |-> new.folder]
            \in Tracked
      BY <1>1, <3>1 DEF Tracked
    <3>3. uidMap' = [uidMap EXCEPT ![work.key] =
            [known |-> TRUE, uids |-> new.good \cup (removed \cap failing), folder |-> new.folder]]
      BY <1>4 DEF Dashboards!updateDashboard
    <3>4. QED
      BY <1>1, <3>2, <3>3
  <2>7. QED
    BY <1>2, <2>2, <2>3, <2>4, <2>5, <2>6
<1>5. ASSUME Dashboards!createCustomFolder(work.map.folder)
      PROVE  GrafanaTypes' /\ uidMap' \in [DashMaps -> Tracked]
  BY <1>1, <1>2, <1>5 DEF Dashboards!createCustomFolder
<1>6. QED
  BY <1>3, <1>4, <1>5 DEF Dashboards!WorkerHandles

LEMMA ExpectedAreUids == ASSUME MapsTyped PROVE Dashboards!Expected \subseteq Uids
<1> SUFFICES ASSUME NEW u \in Dashboards!Expected PROVE u \in Uids
  OBVIOUS
<1>1. PICK c \in Dashboards!Desired : u \in maps[c].good \cup maps[c].broken
  BY DEF Dashboards!Expected
<1>2. maps[c] \in Dashboards!Content
  BY DEF MapsTyped, Dashboards!Desired
<1>3. QED
  BY <1>1, <1>2 DEF Dashboards!Content

LEMMA ScanTypes ==
    ASSUME DashTypes, Dashboards!SweepScans
    PROVE  GrafanaTypes' /\ LoaderTypes'
<1> USE DEF DashTypes, GrafanaTypes, LoaderTypes
<1>1. uidMap' \in [DashMaps -> Tracked]
  <2>1. ASSUME NEW c \in DashMaps PROVE Dashboards!Swept(c) \in Tracked
    <3>1. maps[c] \in Dashboards!Content /\ uidMap[c] \in Tracked
      BY DEF MapsTyped
    <3>2. [known |-> TRUE, uids |-> maps[c].good \cup maps[c].broken, folder |-> maps[c].folder]
            \in Tracked
      BY <3>1 DEF Tracked, Dashboards!Content
    <3>3. Dashboards!Swept(c) \in
            {Dashboards!Untracked, uidMap[c],
             [known |-> TRUE, uids |-> maps[c].good \cup maps[c].broken,
              folder |-> maps[c].folder]}
      BY DEF Dashboards!Swept
    <3>4. QED
      BY <3>1, <3>2, <3>3, NowhereIsPlaced
  <2>2. uidMap' = [c \in DashMaps |-> Dashboards!Swept(c)]
    BY DEF Dashboards!SweepScans
  <2>3. QED
    BY <2>1, <2>2
<1>2. /\ UNCHANGED <<boards, searched, listed, folders, homeBoard, work, started, abandoned>>
      /\ lock' = "delete" /\ expected' = Dashboards!Expected
  BY DEF Dashboards!SweepScans
<1>3. QED
  BY <1>1, <1>2, ExpectedAreUids

LEMMA SweepTypes ==
    ASSUME DashTypes, Dashboards!SweepDeletes \/ Dashboards!SweepFails
    PROVE  GrafanaTypes' /\ LoaderTypes'
<1> USE DEF DashTypes, GrafanaTypes, LoaderTypes
<1>1. /\ listed' \in Boards /\ expected' \subseteq Uids
      /\ lock' \in {"free", "worker"}
  BY NowhereIsPlaced
     DEF Dashboards!SweepDeletes, Dashboards!SweepFails, Dashboards!SweepEnds, Boards
<1>2. UNCHANGED <<work, uidMap, homeBoard, abandoned>>
  BY DEF Dashboards!SweepDeletes, Dashboards!SweepFails
<1>3. CASE Dashboards!SweepDeletes
  <2>1. PICK kept, stuck : Dashboards!deleteOrphans(kept, stuck)
    BY <1>3 DEF Dashboards!SweepDeletes
  <2>2. boards' \in Boards
    <3>1. \E us, fs :
            boards' = Dashboards!DeleteFolders(Dashboards!DeleteDashboards(boards, us), fs)
      BY <2>1 DEF Dashboards!deleteOrphans
    <3>2. QED
      BY <3>1, BoardsMove
  <2>3. searched' \in Boards
    BY <1>3, <2>2, BoardsMove DEF Dashboards!SweepDeletes
  <2>4. folders' \subseteq folders
    BY <2>1 DEF Dashboards!deleteOrphans
  <2>5. started' = TRUE
    BY <1>3 DEF Dashboards!SweepDeletes
  <2>6. QED
    BY <1>1, <1>2, <2>2, <2>3, <2>4, <2>5
<1>4. CASE Dashboards!SweepFails
  <2>1. UNCHANGED <<boards, searched, folders, started>>
    BY <1>4 DEF Dashboards!SweepFails
  <2>2. QED
    BY <1>1, <1>2, <2>1
<1>5. QED
  BY <1>3, <1>4

LEMMA LoaderTypesStay ==
    ASSUME DashTypes, [Dashboards!DashNext]_dashVars
    PROVE  GrafanaTypes' /\ LoaderTypes'
<1> USE DEF DashTypes, GrafanaTypes, LoaderTypes
<1> DEFINE SameGrafana == UNCHANGED <<boards, searched, listed, expected, folders, homeBoard>>
           SameLoader == UNCHANGED <<work, uidMap, lock, started, abandoned>>
<1>1. CASE SameGrafana /\ SameLoader
  BY <1>1
<1>2. CASE Dashboards!SweepScans \/ Dashboards!SweepDeletes \/ Dashboards!SweepFails
  BY <1>2, ScanTypes, SweepTypes
<1>3. CASE Dashboards!WorkerHandles
  <2>1. /\ work' \in [busy : BOOLEAN, key : DashMaps, map : Dashboards!Content]
        /\ abandoned' \subseteq DashMaps
    BY <1>3, HandledTypes, WorkerIsDone
  <2>2. lock' = "free" /\ started' = started
    BY <1>3 DEF Dashboards!WorkerHandles
  <2>3. QED
    BY <1>3, <2>1, <2>2, HandlesTypes
<1>4. CASE Dashboards!WorkerTimesOut
  <2>1. /\ work' \in [busy : BOOLEAN, key : DashMaps, map : Dashboards!Content]
        /\ abandoned' \subseteq DashMaps
    BY <1>4, HandledTypes DEF Dashboards!WorkerTimesOut
  <2>2. SameGrafana /\ UNCHANGED <<uidMap, lock, started>>
    BY <1>4 DEF Dashboards!WorkerTimesOut
  <2>3. QED
    BY <2>1, <2>2
<1>5. CASE Dashboards!WorkerReads
  <2>1. Head(keys) \in DashMaps
    BY <1>5, QueueShrinks DEF Dashboards!WorkerReads, QueueInv
  <2>2. maps[Head(keys)] \in Dashboards!Content
    BY <2>1 DEF MapsTyped
  <2>3. work' \in [busy : BOOLEAN, key : DashMaps, map : Dashboards!Content]
    BY <1>5, <2>1, <2>2 DEF Dashboards!WorkerReads
  <2>4. SameGrafana /\ UNCHANGED <<uidMap, lock, started, abandoned>>
    BY <1>5 DEF Dashboards!WorkerReads
  <2>5. QED
    BY <2>3, <2>4
<1>6. CASE Dashboards!Index \/ Dashboards!SweepLists
  BY <1>6 DEF Dashboards!Index, Dashboards!SweepLists
<1>7. CASE Dashboards!RestartLoader
  <2>1. /\ uidMap' = [c \in DashMaps |-> Dashboards!Untracked] /\ work' = Dashboards!Idle
        /\ listed' = [u \in Uids |-> Dashboards!Nowhere] /\ lock' = "free" /\ started' = FALSE
        /\ expected' = {} /\ abandoned' = {}
        /\ UNCHANGED <<boards, searched, folders, homeBoard>>
    BY <1>7 DEF Dashboards!RestartLoader
  <2>2. QED
    BY <2>1, NowhereIsPlaced DEF Boards
<1>8. ASSUME NEW u \in Uids, NEW f \in Dashboards!Folders, Dashboards!MadeByHand(u, f)
      PROVE  GrafanaTypes' /\ LoaderTypes'
  <2>1. boards' \in Boards
    BY <1>8 DEF Dashboards!MadeByHand, Boards, Dashboards!Placed
  <2>2. searched' \in Boards
    BY <1>8, <2>1, BoardsMove DEF Dashboards!MadeByHand
  <2>3. UNCHANGED <<listed, expected, folders, homeBoard>> /\ SameLoader
    BY <1>8 DEF Dashboards!MadeByHand
  <2>4. QED
    BY <2>1, <2>2, <2>3
<1>9. ASSUME NEW c, NEW new, \/ Dashboards!ResyncMap(c) \/ Dashboards!AddLater(c)
                             \/ Dashboards!ChangeMap(c, new)
      PROVE  SameGrafana /\ SameLoader
  BY <1>9 DEF Dashboards!ResyncMap, Dashboards!AddLater, Dashboards!ChangeMap
<1>10. CASE UNCHANGED dashVars
  BY <1>1, <1>10 DEF dashVars
<1>11. QED
  BY <1>1, <1>2, <1>3, <1>4, <1>5, <1>6, <1>7, <1>8, <1>9, <1>10 DEF Dashboards!DashNext

LEMMA DashTypesStay ==
    ASSUME DashTypes, [Dashboards!DashNext]_dashVars
    PROVE  DashTypes'
<1>1. MapsTyped' /\ QueueInv'
  BY MapsStayTyped, QueueHoldsOnce DEF DashTypes
<1>2. InformerTypes' /\ GrafanaTypes' /\ LoaderTypes' /\ DashCounts'
  BY InformerTypesStay, LoaderTypesStay, DashCountsStay DEF DashTypes
<1>3. QED
  BY <1>1, <1>2 DEF DashTypes

-----------------------------------------------------------------------------
(***************************************************************************)
(* Dashboards: what a sweep spares                                         *)
(***************************************************************************)
Names(c) == maps[c].good \cup maps[c].broken

\* While a sweep is to delete, what it does not expect is named only by ConfigMaps
\* that the worker has still to handle, or has given up.
ScanInv ==
    lock = "delete" => \A c \in Dashboards!Desired :
        Names(c) \subseteq expected \/ Dashboards!Queued(c) \/ c \in abandoned

LEMMA AddQueues ==
    ASSUME QueueInv, NEW c \in DashMaps, Dashboards!Add(c)
    PROVE  /\ Dashboards!Contains(keys', c) \/ c \in later'
           /\ \A d : Dashboards!Contains(keys, d) => Dashboards!Contains(keys', d)
           /\ later \subseteq later'
<1>1. CASE work.busy /\ work.key = c
  BY <1>1 DEF Dashboards!Add, Dashboards!Contains
<1>2. CASE ~(work.busy /\ work.key = c) /\ Dashboards!Contains(keys, c)
  BY <1>2 DEF Dashboards!Add, Dashboards!Contains
<1>3. CASE ~(work.busy /\ work.key = c) /\ ~Dashboards!Contains(keys, c)
  BY <1>3 DEF Dashboards!Add, Dashboards!Contains, QueueInv
<1>4. QED
  BY <1>1, <1>2, <1>3

LEMMA ChangesQueue ==
    ASSUME DashTypes, ScanInv, NEW c \in DashMaps, NEW new, Dashboards!ChangeMap(c, new)
    PROVE  ScanInv'
<1>1. /\ maps' = [maps EXCEPT ![c] = new] /\ UNCHANGED <<lock, expected, abandoned, work>>
      /\ IF Dashboards!shouldEnqueue(c, new) THEN Dashboards!Add(c) ELSE UNCHANGED <<keys, later>>
  BY DEF Dashboards!ChangeMap
<1>2. /\ \A d : Dashboards!Contains(keys, d) => Dashboards!Contains(keys', d)
      /\ later \subseteq later'
  BY <1>1, AddQueues DEF DashTypes
<1> SUFFICES ASSUME lock = "delete", NEW d \in DashMaps, maps'[d].desired
             PROVE  (Names(d) \subseteq expected \/ Dashboards!Queued(d) \/ d \in abandoned)'
  BY <1>1 DEF ScanInv, Dashboards!Desired
<1>3. CASE d = c
  <2>1. new.desired
    BY <1>1, <1>3 DEF DashTypes, MapsTyped
  <2>2. Dashboards!Contains(keys', c) \/ c \in later'
    BY <1>1, <2>1, AddQueues DEF Dashboards!shouldEnqueue, DashTypes
  <2>3. QED
    BY <1>3, <2>2 DEF Dashboards!Queued
<1>4. CASE d # c
  <2>1. maps'[d] = maps[d]
    BY <1>1, <1>4 DEF DashTypes, MapsTyped
  <2>2. Names(d) \subseteq expected \/ Dashboards!Queued(d) \/ d \in abandoned
    BY <2>1 DEF ScanInv, Dashboards!Desired
  <2>3. QED
    BY <1>1, <1>2, <2>1, <2>2 DEF Dashboards!Queued, Names
<1>5. QED
  BY <1>3, <1>4

LEMMA QueueKept ==
    ASSUME DashTypes, ScanInv, UNCHANGED <<maps, lock, expected>>,
           lock = "delete" => \A c \in DashMaps :
               /\ Dashboards!Queued(c) => (Dashboards!Queued(c) \/ c \in abandoned)'
               /\ c \in abandoned => (Dashboards!Queued(c) \/ c \in abandoned)'
    PROVE  ScanInv'
  BY DEF ScanInv, Dashboards!Desired, Names

LEMMA TimeoutKeepsQueue ==
    ASSUME DashTypes, ScanInv, Dashboards!WorkerTimesOut
    PROVE  ScanInv'
<1>1. /\ Dashboards!Handled(TRUE) /\ work.busy
      /\ UNCHANGED <<maps, lock, expected>>
  BY DEF Dashboards!WorkerTimesOut
<1>2. work.key \in later' \/ work.key \in abandoned'
  BY <1>1 DEF Dashboards!Handled
<1>3. ASSUME NEW c \in DashMaps, c # work.key
      PROVE  /\ Dashboards!Queued(c) => (Dashboards!Queued(c))'
             /\ c \in abandoned => c \in abandoned'
  <2>1. keys' = keys /\ later \subseteq later' /\ (c \in abandoned => c \in abandoned')
    BY <1>1, <1>3 DEF Dashboards!Handled
  <2>2. QED
    BY <1>3, <2>1 DEF Dashboards!Queued
<1>4. QED
  BY <1>1, <1>2, <1>3, QueueKept DEF Dashboards!Queued

LEMMA ReadKeepsQueue ==
    ASSUME DashTypes, ScanInv, Dashboards!WorkerReads
    PROVE  ScanInv'
<1>1. /\ ~work.busy /\ keys # <<>> /\ keys' = Tail(keys)
      /\ work' = [busy |-> TRUE, key |-> Head(keys), map |-> maps[Head(keys)]]
      /\ UNCHANGED <<maps, lock, expected, later, abandoned>>
  BY DEF Dashboards!WorkerReads
<1>2. ASSUME NEW c \in DashMaps, Dashboards!Contains(keys, c), c # Head(keys)
      PROVE  Dashboards!Contains(keys', c)
  <2>1. PICK i \in 1..Len(keys) : keys[i] = c
    BY <1>2 DEF Dashboards!Contains
  <2>2. i # 1
    BY <1>1, <1>2, <2>1 DEF DashTypes, QueueInv
  <2>3. i - 1 \in 1..Len(Tail(keys)) /\ Tail(keys)[i - 1] = c
    BY <1>1, <2>1, <2>2 DEF DashTypes, QueueInv
  <2>4. QED
    BY <1>1, <2>3 DEF Dashboards!Contains
<1>3. ASSUME NEW c \in DashMaps, Dashboards!Queued(c) PROVE (Dashboards!Queued(c))'
  BY <1>1, <1>2, <1>3 DEF Dashboards!Queued
<1>4. QED
  BY <1>1, <1>3, QueueKept

LEMMA LaterKeepsQueue ==
    ASSUME DashTypes, ScanInv, NEW c \in DashMaps,
           Dashboards!ResyncMap(c) \/ Dashboards!AddLater(c)
    PROVE  ScanInv'
<1>1. CASE Dashboards!ResyncMap(c)
  <2>1. Dashboards!Add(c) /\ UNCHANGED <<maps, lock, expected, abandoned, work>>
    BY <1>1 DEF Dashboards!ResyncMap
  <2>2. /\ \A d : Dashboards!Contains(keys, d) => Dashboards!Contains(keys', d)
        /\ later \subseteq later'
    BY <2>1, AddQueues DEF DashTypes
  <2>3. QED
    BY <2>1, <2>2, QueueKept DEF Dashboards!Queued
<1>2. CASE Dashboards!AddLater(c)
  <2>1. /\ UNCHANGED <<maps, lock, expected, abandoned, work>> /\ later' = later \ {c}
        /\ keys' = IF Dashboards!Contains(keys, c) THEN keys ELSE Append(keys, c)
    BY <1>2 DEF Dashboards!AddLater
  <2>2. CASE Dashboards!Contains(keys, c)
    BY <2>1, <2>2, QueueKept DEF Dashboards!Queued
  <2>3. CASE ~Dashboards!Contains(keys, c)
    <3>1. /\ Dashboards!Contains(keys', c)
          /\ \A d : Dashboards!Contains(keys, d) => Dashboards!Contains(keys', d)
      BY <2>1, <2>3 DEF Dashboards!Contains, DashTypes, QueueInv
    <3>2. QED
      BY <2>1, <3>1, QueueKept DEF Dashboards!Queued
  <2>4. QED
    BY <2>2, <2>3
<1>3. QED
  BY <1>1, <1>2

LEMMA ScanStays ==
    ASSUME DashTypes, ScanInv, [Dashboards!DashNext]_dashVars
    PROVE  ScanInv'
<1>1. CASE Dashboards!SweepScans
  BY <1>1 DEF Dashboards!SweepScans, ScanInv, Names, Dashboards!Expected, Dashboards!Desired
<1>2. CASE \/ Dashboards!SweepLists \/ Dashboards!SweepDeletes \/ Dashboards!SweepFails
           \/ Dashboards!RestartLoader \/ Dashboards!WorkerHandles
  BY <1>2 DEF Dashboards!SweepLists, Dashboards!SweepDeletes, Dashboards!SweepFails,
     Dashboards!SweepEnds, Dashboards!RestartLoader, Dashboards!WorkerHandles, ScanInv
<1>3. CASE \/ Dashboards!Index \/ UNCHANGED dashVars
           \/ \E u \in Uids, f \in Dashboards!Folders : Dashboards!MadeByHand(u, f)
  <2>1. UNCHANGED <<maps, lock, expected, abandoned, keys, later, work>>
    BY <1>3 DEF Dashboards!Index, Dashboards!MadeByHand, dashVars
  <2>2. QED
    BY <2>1, QueueKept DEF Dashboards!Queued
<1>4. QED
  BY <1>1, <1>2, <1>3, ChangesQueue, TimeoutKeepsQueue, ReadKeepsQueue, LaterKeepsQueue
     DEF Dashboards!DashNext

\* What a sweep expects it takes away neither as an orphan nor with a folder.
LEMMA ExpectedStay ==
    ASSUME DashTypes, Dashboards!SweepDeletes, NEW u \in expected,
           boards[u].there, listed[u] = boards[u]
    PROVE  boards'[u] = boards[u]
<1>1. u \in Uids
  BY DEF DashTypes, GrafanaTypes
<1>2. PICK kept, stuck : Dashboards!deleteOrphans(kept, stuck)
  BY DEF Dashboards!SweepDeletes
<1> DEFINE orphans == {v \in Uids : listed[v].there} \ expected
           deleted == Dashboards!EmptyFolders \ stuck
           left == Dashboards!DeleteDashboards(boards, orphans \ kept)
<1>3. boards' = Dashboards!DeleteFolders(left, deleted)
  BY <1>2 DEF Dashboards!deleteOrphans
<1>4. left[u] = boards[u]
  BY <1>1 DEF Dashboards!DeleteDashboards
<1>5. boards[u].folder \notin deleted
  BY DEF Dashboards!EmptyFolders
<1> HIDE DEF left, deleted
<1>6. QED
  BY <1>1, <1>3, <1>4, <1>5 DEF Dashboards!DeleteFolders

\* While a sweep is to delete, nobody but the sweep takes a dashboard away: the
\* worker does not get the lock.
LEMMA OnlySweepDeletes ==
    ASSUME [Dashboards!DashNext]_dashVars, lock = "delete", ~Dashboards!SweepDeletes,
           DashTypes, NEW u \in Uids, boards[u].there
    PROVE  boards'[u] = boards[u]
<1>1. ASSUME NEW v, NEW f, Dashboards!MadeByHand(v, f) PROVE boards'[u] = boards[u]
  <2>1. ~boards[v].there /\ boards' = [boards EXCEPT ![v] = [there |-> TRUE, folder |-> f]]
    BY <1>1 DEF Dashboards!MadeByHand
  <2>2. QED
    BY <2>1 DEF DashTypes, GrafanaTypes, Boards
<1>2. ~Dashboards!WorkerHandles
  BY DEF Dashboards!WorkerHandles, Dashboards!lockReconcile
<1>3. CASE boards' = boards
  BY <1>3
<1>4. ASSUME NEW c, NEW new, \/ Dashboards!ResyncMap(c) \/ Dashboards!AddLater(c)
                             \/ Dashboards!ChangeMap(c, new)
      PROVE  boards' = boards
  BY <1>4 DEF Dashboards!ResyncMap, Dashboards!AddLater, Dashboards!ChangeMap
<1>5. CASE \/ Dashboards!Index \/ Dashboards!WorkerReads \/ Dashboards!WorkerTimesOut
           \/ Dashboards!RestartLoader \/ Dashboards!SweepLists \/ Dashboards!SweepScans
           \/ Dashboards!SweepFails \/ UNCHANGED dashVars
  BY <1>5 DEF Dashboards!Index, Dashboards!WorkerReads, Dashboards!WorkerTimesOut,
     Dashboards!RestartLoader, Dashboards!SweepLists, Dashboards!SweepScans,
     Dashboards!SweepFails, dashVars
<1>6. QED
  BY <1>1, <1>2, <1>3, <1>4, <1>5 DEF Dashboards!DashNext

\* For any ConfigMaps and dashboards, however the worker, the informer and the sweep
\* interleave and calls fail: a dashboard that a ConfigMap names is taken away only
\* if the change that names it has come after the sweep has read the ConfigMaps, and
\* the worker has still to handle it or has given it up (cleanupOrphanDashboards,
\* lockReconcile, processNextItem).  By ScanInv: since the ConfigMaps were read, each
\* change has queued its ConfigMap, and the worker cannot have dealt with it.
THEOREM DashboardsSweepSparesNamed == SystemSpec => SweepSparesNamed
<1> DEFINE Inv == part = "dashboards" => DashTypes /\ ScanInv
<1>1. SystemInit => Inv
  <2> SUFFICES ASSUME Dashboards!DashInit PROVE DashTypes /\ ScanInv
    BY DashboardsStart
  <2>1. lock = "free"
    BY DEF Dashboards!DashInit
  <2>2. QED
    BY <2>1, DashTypesStart DEF ScanInv
<1>2. Inv /\ [SystemNext]_systemVars
        => Inv' /\ [part = "dashboards" => Dashboards!SparesNamed]_dashVars
  <2> SUFFICES ASSUME DashTypes, ScanInv, [Dashboards!DashNext]_dashVars
               PROVE  DashTypes' /\ ScanInv' /\ Dashboards!SparesNamed
    BY DashboardsStep
  <2>1. DashTypes' /\ ScanInv'
    BY DashTypesStay, ScanStays
  <2>2. ASSUME lock = "delete", NEW c \in Dashboards!Desired, NEW u \in Names(c),
               boards[u].there, listed[u] = boards[u], boards'[u] # boards[u]
        PROVE  Dashboards!Queued(c) \/ c \in abandoned
    <3>1. u \in Uids
      BY DEF DashTypes, MapsTyped, Names, Dashboards!Desired, Dashboards!Content
    <3>2. Dashboards!SweepDeletes
      BY <2>2, <3>1, OnlySweepDeletes
    <3>3. u \notin expected
      BY <2>2, <3>2, ExpectedStay
    <3>4. QED
      BY <2>2, <3>3 DEF ScanInv
  <2>3. QED
    BY <2>1, <2>2 DEF Dashboards!SparesNamed, Names
<1>3. QED
  BY <1>1, <1>2, PTL DEF SystemSpec, SweepSparesNamed

=============================================================================
