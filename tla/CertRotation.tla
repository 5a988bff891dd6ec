---------------------------- MODULE CertRotation ----------------------------
(***************************************************************************)
(* pkg/certificates: the client CA of the hub, the certificates it signs,  *)
(* and what the Observatorium API accepts.                                 *)
(*                                                                         *)
(* A CA secret holds a bundle: the CA certificate that signs, the first,   *)
(* and behind it, in no order that matters, earlier ones that are still    *)
(* trusted. It is created by the MCO controller, renewed (with its key)    *)
(* by an informer on the secrets, and put together again from the deleted  *)
(* one by the same informer when it was deleted. Leaves:                   *)
(*   "grafana"  created by the MCO controller, renewed by the informer;    *)
(*   "hub"      the hub's own collector, created by the placement          *)
(*              controller, deleted by the informer to be created again;   *)
(*   "spoke"    of a managed cluster: signed on request of its agent.      *)
(* A tick of time is a fifth of the life of a leaf: the informer resyncs   *)
(* hourly, so every secret has been looked at between two ticks.           *)
(***************************************************************************)
EXTENDS Naturals

CONSTANTS
    Leaves,        \* subset of {"grafana", "hub", "spoke"}
    MaxDeletions,  \* bound: secrets deleted by mistake
    MaxCertFaults  \* bound: failed calls and restarts of the operator

LeafLife == 5             \* GetCertDuration, in ticks
CaLife   == LeafLife * 5  \* createCACertificate

Keys == 0..MaxDeletions
Certificate == [key : Keys, age : 0..CaLife]

Bundle(ca, older) == [there |-> TRUE, ca |-> ca, older |-> older]
NoBundle == [there |-> FALSE]
Bundles == {NoBundle} \cup [there : {TRUE}, ca : Certificate, older : SUBSET Certificate]

\* The certificates of a bundle
Trusted(b) == IF b.there THEN {b.ca} \cup b.older ELSE {}

VARIABLES
    bundle,      \* tls.crt of the CA secret
    lastKey,     \* the last CA key that was generated
    leaf,        \* certificates in use: the key that signed, the age; or none
    dropped,     \* the bundle of a deleted CA secret that onDelete is at work on
    loaded,      \* the bundle the API was started with
    restartDue,  \* restartPods is to be called for a change of the bundle
    resync,      \* secrets the informer has yet to look at before time goes on
    certReq,     \* the controllers that are to reconcile
    caCreated,   \* CreateObservabilityCerts has created the CA: leaves are renewed
    certStep,    \* where CreateObservabilityCerts is
    forgotten,   \* onDelete gave up or died, or a restart of the API failed
    deletions, certFaults

certVars == <<bundle, lastKey, leaf, dropped, loaded, restartDue, resync, certReq, caCreated,
              certStep, forgotten, deletions, certFaults>>

NoLeaf == [there |-> FALSE, key |-> 0, age |-> 0]
Secrets == {"ca"} \cup Leaves
CertControllers == {"mco", "placement"}

CertTypeOK ==
    /\ {bundle, dropped, loaded} \subseteq Bundles
    /\ lastKey \in Keys
    /\ leaf \in [Leaves -> [there : BOOLEAN, key : Keys, age : 0..CaLife]]
    /\ resync \subseteq Secrets /\ certReq \subseteq CertControllers
    /\ {restartDue, caCreated, forgotten} \subseteq BOOLEAN
    /\ certStep \in {"idle", "leaves"}
    /\ deletions \in 0..MaxDeletions /\ certFaults \in 0..MaxCertFaults

CertInit ==
    /\ bundle = Bundle([key |-> 0, age |-> 0], {})
    /\ loaded = bundle /\ dropped = NoBundle
    /\ lastKey = 0
    /\ leaf = [l \in Leaves |-> [there |-> TRUE, key |-> 0, age |-> 0]]
    /\ restartDue = FALSE /\ resync = {} /\ certReq = {}
    /\ caCreated = FALSE /\ certStep = "idle" /\ forgotten = FALSE
    /\ deletions = 0 /\ certFaults = 0

-----------------------------------------------------------------------------
\* A fifth of its life is left
needsRenew(age, life) == 5 * age >= 4 * life

Expired(age, life) == age >= life

\* getCA: the first certificate of the bundle signs
Signed == [there |-> TRUE, key |-> bundle.ca.key, age |-> 0]

Older(c) == [c EXCEPT !.age = IF @ < CaLife THEN @ + 1 ELSE @]

OlderBundle(b) ==
    IF b.there THEN Bundle(Older(b.ca), {Older(c) : c \in b.older}) ELSE b

\* The operator and the agents have all had their turn
Quiet == resync = {} /\ certReq = {} /\ certStep = "idle" /\ ~dropped.there /\ ~restartDue

Tick ==
    /\ Quiet
    /\ bundle' = OlderBundle(bundle)
    /\ loaded' = OlderBundle(loaded)
    /\ leaf' = [l \in Leaves |-> Older(leaf[l])]
    /\ resync' = Secrets
    /\ UNCHANGED <<lastKey, dropped, restartDue, certReq, caCreated, certStep, forgotten,
                   deletions, certFaults>>

-----------------------------------------------------------------------------
(* The informer                                                            *)

\* removeExpiredCA: the first certificate stays in any case
removeExpiredCA(b) == Bundle(b.ca, {c \in b.older : ~Expired(c.age, CaLife)})

\* createCASecret with isRenew: the key is kept, the old certificates stay
renewCA(b) ==
    IF needsRenew(b.ca.age, CaLife)
    THEN Bundle([b.ca EXCEPT !.age = 0], b.older \cup {b.ca})
    ELSE b

\* onUpdate of a resync: the data is what it was
ResyncCA ==
    /\ "ca" \in resync /\ ~dropped.there
    /\ resync' = resync \ {"ca"}
    /\ bundle' = IF bundle.there THEN renewCA(removeExpiredCA(bundle)) ELSE bundle
    /\ restartDue' = (restartDue \/ bundle' # bundle)
    /\ certReq' = IF bundle' # bundle THEN certReq \cup {"mco"} ELSE certReq
    /\ UNCHANGED <<lastKey, leaf, dropped, loaded, caCreated, certStep, forgotten, deletions,
                   certFaults>>

\* The leaf of the hub collector is deleted, the placement controller creates it
\* again; a renewal needs the CA
ResyncLeaf(l) ==
    /\ l \in resync \ {"spoke"} /\ ~dropped.there
    /\ resync' = resync \ {l}
    /\ LET renew == leaf[l].there /\ needsRenew(leaf[l].age, LeafLife) IN
       /\ leaf' = CASE ~renew -> leaf
                    [] renew /\ l = "hub" -> [leaf EXCEPT ![l] = NoLeaf]
                    [] renew /\ l # "hub" /\ bundle.there -> [leaf EXCEPT ![l] = Signed]
                    [] OTHER -> leaf
       /\ certReq' = CASE ~renew -> certReq
                       [] renew /\ l = "hub" -> certReq \cup {"placement"}
                       [] OTHER -> certReq \cup {"mco"}
    /\ UNCHANGED <<bundle, lastKey, dropped, loaded, restartDue, caCreated, certStep, forgotten,
                   deletions, certFaults>>

ReplaceWithDropped ==
    /\ dropped.there /\ bundle.there
    /\ dropped' = NoBundle
    /\ restartDue' = TRUE
    /\ certReq' = certReq \cup {"mco"}
    /\ UNCHANGED <<bundle, lastKey, leaf, loaded, resync, caCreated, certStep, forgotten,
                   deletions, certFaults>>

\* onDelete of a CA secret: wait for the new one and add the old certificates
AddBack ==
    /\ dropped.there /\ bundle.there
    /\ bundle' = Bundle(bundle.ca, bundle.older \cup Trusted(dropped))
    /\ dropped' = NoBundle
    /\ restartDue' = TRUE
    /\ certReq' = certReq \cup {"mco"}
    /\ UNCHANGED <<lastKey, leaf, loaded, resync, caCreated, certStep, forgotten, deletions,
                   certFaults>>

\* The API starts again with the secret as it is then.  An error of the patch is
\* only logged
updateDeployLabel ==
    \/ loaded' = bundle /\ UNCHANGED <<forgotten, certFaults>>
    \/ /\ certFaults < MaxCertFaults
       /\ certFaults' = certFaults + 1
       /\ forgotten' = TRUE
       /\ UNCHANGED loaded

restartPods ==
    /\ restartDue /\ ~dropped.there /\ bundle.there
    /\ restartDue' = FALSE
    /\ updateDeployLabel
    /\ UNCHANGED <<bundle, lastKey, leaf, dropped, resync, certReq, caCreated, certStep, deletions>>

-----------------------------------------------------------------------------
(* The MCO controller, the placement controller and the agents             *)

\* createCASecret without isRenew
createCASecret ==
    /\ certStep = "idle" /\ "mco" \in certReq
    /\ certReq' = certReq \ {"mco"}
    /\ IF ~bundle.there
       THEN /\ bundle' = Bundle([key |-> lastKey + 1, age |-> 0], {})
            /\ lastKey' = lastKey + 1
            /\ restartDue' = TRUE
       ELSE UNCHANGED <<bundle, lastKey, restartDue>>
    /\ caCreated' = (~bundle.there)
    /\ certStep' = "leaves"
    /\ UNCHANGED <<leaf, dropped, loaded, resync, forgotten, deletions, certFaults>>

\* createCertSecret: create, or sign again when the CA was created just before
createCertSecret ==
    /\ certStep = "leaves"
    /\ certStep' = "idle" /\ caCreated' = FALSE
    /\ IF ~bundle.there
       THEN certReq' = certReq \cup {"mco"} /\ UNCHANGED leaf
       ELSE /\ leaf' = [l \in Leaves |->
                          IF l = "grafana" /\ (caCreated \/ ~leaf[l].there) THEN Signed
                          ELSE leaf[l]]
            /\ UNCHANGED certReq
    /\ UNCHANGED <<bundle, lastKey, dropped, loaded, restartDue, resync, forgotten, deletions,
                   certFaults>>

\* A call fails in between: the next Reconcile finds the CA
CertFails ==
    /\ certFaults < MaxCertFaults
    /\ certFaults' = certFaults + 1
    /\ certStep = "leaves"
    /\ certStep' = "idle" /\ caCreated' = FALSE
    /\ certReq' = certReq \cup {"mco"}
    /\ UNCHANGED <<bundle, lastKey, leaf, dropped, loaded, restartDue, resync, forgotten, deletions>>

newMtlsCertSecretForHubCollector == [leaf EXCEPT !["hub"] = Signed]

mtlsCertExpired(l) == l.there /\ Expired(l.age, LeafLife)

mtlsCertShouldBeRenewed(l) == ~l.there \/ needsRenew(l.age, LeafLife)

childCertIsSignedByCA(l) == l.key = bundle.ca.key /\ ~Expired(bundle.ca.age, CaLife)

CreateUpdateMtlsCertSecretForHubCollector ==
    /\ "placement" \in certReq /\ "hub" \in Leaves
    /\ bundle.there
    /\ certReq' = certReq \ {"placement"}
    /\ leaf' = IF ~childCertIsSignedByCA(leaf["hub"]) \/ mtlsCertShouldBeRenewed(leaf["hub"])
               THEN newMtlsCertSecretForHubCollector ELSE leaf
    /\ UNCHANGED <<bundle, lastKey, dropped, loaded, restartDue, resync, caCreated, certStep,
                   forgotten, deletions, certFaults>>

\* Sign: the agent of a managed cluster renews its certificate in time
Sign ==
    /\ "spoke" \in resync /\ bundle.there
    /\ resync' = resync \ {"spoke"}
    /\ leaf' = IF needsRenew(leaf["spoke"].age, LeafLife) THEN [leaf EXCEPT !["spoke"] = Signed]
               ELSE leaf
    /\ UNCHANGED <<bundle, lastKey, dropped, loaded, restartDue, certReq, caCreated, certStep,
                   forgotten, deletions, certFaults>>

-----------------------------------------------------------------------------
DeleteCA ==
    /\ deletions < MaxDeletions
    /\ deletions' = deletions + 1
    /\ bundle.there /\ ~dropped.there
    /\ dropped' = bundle
    /\ bundle' = NoBundle
    /\ certReq' = certReq \cup {"mco"}
    /\ UNCHANGED <<lastKey, leaf, loaded, restartDue, resync, caCreated, certStep, forgotten,
                   certFaults>>

DeleteLeaf(l) ==
    /\ deletions < MaxDeletions
    /\ deletions' = deletions + 1
    /\ l # "spoke" /\ leaf[l].there
    /\ leaf' = [leaf EXCEPT ![l] = NoLeaf]
    /\ certReq' = certReq \cup {IF l = "hub" THEN "placement" ELSE "mco"}
    /\ UNCHANGED <<bundle, lastKey, dropped, loaded, restartDue, resync, caCreated, certStep,
                   forgotten, certFaults>>

\* onDelete waits half a minute for the new secret
GiveUp ==
    /\ certFaults < MaxCertFaults
    /\ certFaults' = certFaults + 1
    /\ dropped.there /\ ~bundle.there
    /\ dropped' = NoBundle /\ forgotten' = TRUE
    /\ UNCHANGED <<bundle, lastKey, leaf, loaded, restartDue, resync, certReq, caCreated, certStep,
                   deletions>>

\* After a start the secrets are new to the informer: onAdd restarts the API
RestartCertOperator ==
    /\ certFaults < MaxCertFaults
    /\ certFaults' = certFaults + 1
    /\ forgotten' = (forgotten \/ dropped.there)
    /\ dropped' = NoBundle
    /\ certReq' = CertControllers
    /\ certStep' = "idle" /\ caCreated' = FALSE
    /\ restartDue' = TRUE
    /\ UNCHANGED <<bundle, lastKey, leaf, loaded, resync, deletions>>

CertStep ==
    \/ ResyncCA \/ (\E l \in Leaves : ResyncLeaf(l)) \/ AddBack \/ restartPods
    \/ createCASecret \/ createCertSecret \/ CreateUpdateMtlsCertSecretForHubCollector \/ Sign

CertNext ==
    \/ CertStep \/ Tick \/ CertFails \/ GiveUp \/ RestartCertOperator
    \/ DeleteCA \/ \E l \in Leaves : DeleteLeaf(l)

CertSpec == CertInit /\ [][CertNext]_certVars

\* The operator and the agents take their turn, and time goes on
CertFair == WF_certVars(CertStep) /\ WF_certVars(Tick)

-----------------------------------------------------------------------------
\* The API takes a certificate whose issuer is in the bundle it was started with
Accepts(l) ==
    /\ ~Expired(leaf[l].age, LeafLife)
    /\ \E c \in Trusted(loaded) : c.key = leaf[l].key /\ ~Expired(c.age, CaLife)

\* Whenever the operator is at rest, every client is accepted: over any number of
\* rotations of the CA and of the leaves, and also after the CA secret was
\* deleted by mistake, when some leaves carry the signature of the old key
\* (createCASecret keeps the key and the old certificates, onDelete adds them
\* back, removeExpiredCA takes only what has expired).  forgotten: onDelete gave
\* up after half a minute or died with the operator, or a restart of the API
\* failed, which is only logged
ClientsAccepted ==
    Quiet /\ ~forgotten => \A l \in Leaves : leaf[l].there => Accepts(l)

\* Whatever was forgotten, in the end every client is accepted again: the leaves
\* are signed anew by the CA that is there before they expire
AcceptedAgain == \A l \in Leaves : []<>(leaf[l].there /\ Accepts(l))

=============================================================================
