------------------------ MODULE CertRotation_proofs ------------------------
(***************************************************************************)
(* Proofs about CertRotation: its type invariant, that no certificate      *)
(* outlives its issuer, that a successful pass leaves every certificate    *)
(* trusted by the bundle, that without failures the bundle covers every    *)
(* certificate at any moment, and that a quick operator lets none expire.  *)
(***************************************************************************)
EXTENDS CertRotation, TLAPS

----------------------------------------------------------------------------
(* What a pass builds.                                                     *)

LEMMA TimesFacts ==
  /\ Times \subseteq Nat /\ Expiry \subseteq Nat
  /\ 0 \in Times
  /\ \A x \in Times : x + CACertValidity \in Expiry /\ x + TargetCertValidity \in Expiry
BY DurationsAssumption, CertBoundsAssumption DEF Times, Expiry

\* The signing CA a pass uses is well-formed and not over.
LEMMA SigningCAFacts ==
  ASSUME TypeOK, NEW s \in SigningCASecrets
  PROVE  s \in SignerSecrets /\ now <= s.ca.notAfter
<1>1. CASE cSigner # NoObj /\ ~SignerNeedsNew(cSigner)
  <2>1. s = cSigner
    BY <1>1 DEF SigningCASecrets
  <2>2. ~(now > cSigner.ca.notAfter)
    BY <1>1 DEF SignerNeedsNew, needNewCertificate
  <2>3. cSigner \in SignerSecrets
    BY <1>1 DEF TypeOK
  <2>4. cSigner.ca.notAfter \in Nat /\ now \in Nat
    BY <2>3, TimesFacts DEF TypeOK, SignerSecrets, CACerts
  <2>5. now <= cSigner.ca.notAfter
    BY <2>2, <2>4
  <2> QED
    BY <2>1, <2>3, <2>5
<1>2. CASE ~(cSigner # NoObj /\ ~SignerNeedsNew(cSigner))
  <2>1. FreshNames # {}
    BY <1>2 DEF SigningCASecrets
  <2> DEFINE n == CHOOSE n \in FreshNames : TRUE
  <2>2. n \in CANames
    <3>1. n \in FreshNames
      BY <2>1
    <3> QED
      BY <3>1 DEF FreshNames
  <2>3. s = [ca |-> NewCA(n), intact |-> TRUE]
    BY <1>2, <2>1 DEF SigningCASecrets
  <2> HIDE DEF n
  <2>4. now \in Times /\ now + CACertValidity \in Expiry
    BY TimesFacts DEF TypeOK
  <2>5. NewCA(n) \in CACerts
    BY <2>2, <2>4 DEF NewCA, CACerts
  <2>6. now <= NewCA(n).notAfter
    BY <2>4, TimesFacts, DurationsAssumption DEF NewCA
  <2> QED
    BY <2>3, <2>5, <2>6 DEF SignerSecrets
<1> QED
  BY <1>1, <1>2

\* The bundle a pass builds holds its signing CA.
LEMMA BundleFacts ==
  ASSUME TypeOK, NEW ca \in CACerts, now <= ca.notAfter
  PROVE  /\ manageCABundleConfigMap(cBundle, ca) \in Bundles
         /\ ca \in manageCABundleConfigMap(cBundle, ca).certs
         /\ manageCABundleConfigMap(cBundle, ca).certs \subseteq
              (IF cBundle = NoObj THEN {} ELSE cBundle.certs) \cup {ca}
BY DEF TypeOK, manageCABundleConfigMap, Bundles

\* The certificates a pass builds are well-formed and within their issuer.
LEMMA TargetFacts ==
  ASSUME TypeOK, NEW ca \in CACerts, now <= ca.notAfter, NEW b,
         NEW old \in TargetSecrets \cup {NoObj}
  PROVE  /\ BuildTarget(old, ca, b) \in TargetSecrets
         /\ (old # NoObj => old.notAfter <= old.issuer.notAfter)
              => BuildTarget(old, ca, b).notAfter <= BuildTarget(old, ca, b).issuer.notAfter
<1>1. /\ now \in Nat /\ ca.notAfter \in Nat /\ TargetCertValidity \in Nat
      /\ now \in Times /\ ca.notAfter \in Expiry
      /\ now + TargetCertValidity \in Expiry
  BY TimesFacts, DurationsAssumption DEF TypeOK, CACerts
<1>2. now + targetValidity(ca) \in Expiry /\ now + targetValidity(ca) <= ca.notAfter
  <2>1. CASE ca.notAfter - now < TargetCertValidity
    <3>1. targetValidity(ca) = ca.notAfter - now
      BY <2>1 DEF targetValidity
    <3>2. now + (ca.notAfter - now) = ca.notAfter
      BY <1>1
    <3> QED
      BY <3>1, <3>2, <1>1
  <2>2. CASE ~(ca.notAfter - now < TargetCertValidity)
    <3>1. targetValidity(ca) = TargetCertValidity
      BY <2>2 DEF targetValidity
    <3> QED
      BY <3>1, <1>1, <2>2
  <2> QED
    BY <2>1, <2>2
<1>3. CASE old # NoObj /\ ~TargetNeedsNew(old, ca, b)
  <2>1. BuildTarget(old, ca, b) = old
    BY <1>3 DEF BuildTarget
  <2> QED
    BY <1>3, <2>1
<1>4. CASE ~(old # NoObj /\ ~TargetNeedsNew(old, ca, b))
  <2> DEFINE new == [issuer |-> ca, notBefore |-> now,
                     notAfter |-> now + targetValidity(ca), intact |-> TRUE]
  <2>1. BuildTarget(old, ca, b) = new
    BY <1>4 DEF BuildTarget
  <2>2. new \in TargetSecrets
    BY <1>1, <1>2 DEF TargetSecrets
  <2>3. new.notAfter <= new.issuer.notAfter
    BY <1>2
  <2> HIDE DEF new
  <2> QED
    BY <2>1, <2>2, <2>3
<1> QED
  BY <1>3, <1>4

----------------------------------------------------------------------------
(* Type correctness.                                                       *)

LEMMA InitType == Init => TypeOK
BY TimesFacts DEF Init, TypeOK, NoTargets

\* CreateOrUpdate leaves the object as it was or as the pass built it.
LEMMA WriteFacts ==
  ASSUME NEW c, NEW x, NEW y, NEW d, Write(c, x, y, d), faults \in Nat, errs \in BOOLEAN
  PROVE  y \in {x, d} /\ errs' \in BOOLEAN /\ faults' \in Nat
<1>1. y \in {x, d}
  BY Zenon DEF Write
<1>2. errs' \in BOOLEAN
  BY DEF Write
<1>3. faults' \in Nat
  BY DEF Write, Fault
<1> QED
  BY <1>1, <1>2, <1>3

LEMMA BuildAllType ==
  ASSUME TypeOK, BuildAll PROVE TypeOK'
<1>1. PICK s \in SigningCASecrets :
        LET b == manageCABundleConfigMap(cBundle, s.ca)
        IN /\ dSigner' = s /\ dBundle' = b
           /\ dTargets' = [t \in Targets |-> BuildTarget(cTargets[t], s.ca, b)]
  BY DEF BuildAll
<1>2. s \in SignerSecrets /\ s.ca \in CACerts /\ now <= s.ca.notAfter
  BY SigningCAFacts DEF SignerSecrets
<1>3. dBundle' \in Bundles
  BY <1>1, <1>2, BundleFacts
<1>4. dTargets' \in [Targets -> TargetSecrets \cup {NoObj}]
  <2>1. \A t \in Targets : BuildTarget(cTargets[t], s.ca,
          manageCABundleConfigMap(cBundle, s.ca)) \in TargetSecrets
    <3> SUFFICES ASSUME NEW t \in Targets
                 PROVE  BuildTarget(cTargets[t], s.ca,
                          manageCABundleConfigMap(cBundle, s.ca)) \in TargetSecrets
      OBVIOUS
    <3>1. cTargets[t] \in TargetSecrets \cup {NoObj}
      BY DEF TypeOK
    <3> QED
      BY <1>2, <3>1, TargetFacts
  <2> QED
    BY <1>1, <2>1
<1> QED
  BY <1>1, <1>2, <1>3, <1>4, CertAbsenceAssumption
     DEF BuildAll, TypeOK, cluster, caches, deleted, bounds

LEMMA WriteType ==
  ASSUME TypeOK,
         WriteSigner \/ WriteBundle \/ \E t \in Targets : WriteTarget(t)
  PROVE  TypeOK'
<1>1. faults \in Nat /\ errs \in BOOLEAN
  BY DEF TypeOK
<1>2. CASE WriteSigner
  <2>1. signer' \in {signer, dSigner} /\ errs' \in BOOLEAN /\ faults' \in Nat
    BY <1>1, <1>2, WriteFacts DEF WriteSigner
  <2> QED
    BY <1>2, <2>1 DEF WriteSigner, TypeOK, caches, deleted, queues
<1>3. CASE WriteBundle
  <2>1. bundle' \in {bundle, dBundle} /\ errs' \in BOOLEAN /\ faults' \in Nat
    BY <1>1, <1>3, WriteFacts DEF WriteBundle
  <2> QED
    BY <1>3, <2>1 DEF WriteBundle, TypeOK, caches, deleted, queues
<1>4. ASSUME NEW t \in Targets, WriteTarget(t) PROVE TypeOK'
  <2>1. PICK x \in {targets[t], dTargets[t]} :
          /\ Write(cTargets[t], targets[t], x, dTargets[t])
          /\ targets' = [targets EXCEPT ![t] = x]
    BY <1>4 DEF WriteTarget
  <2>2. errs' \in BOOLEAN /\ faults' \in Nat
    BY <1>1, <2>1, WriteFacts
  <2>3. targets' \in [Targets -> TargetSecrets \cup {NoObj}]
    BY <2>1 DEF TypeOK
  <2> QED
    BY <1>4, <2>2, <2>3 DEF WriteTarget, TypeOK, caches, deleted, queues
<1> QED
  BY <1>2, <1>3, <1>4

LEMMA TypeStep ==
  ASSUME TypeOK, [Next]_vars PROVE TypeOK'
<1>1. CASE BuildAll
  BY <1>1, BuildAllType
<1>2. CASE WriteSigner \/ WriteBundle \/ \E t \in Targets : WriteTarget(t)
  BY <1>2, WriteType
<1>3. CASE EndPass
  BY <1>3 DEF EndPass, retry, Release, NoTargets, TypeOK, cluster, caches, deleted, bounds
<1>4. CASE CheckCertExpiry
  <2>1. nextCheck \in Nat
    BY DurationsAssumption, TimesFacts DEF nextCheck, TypeOK
  <2>2. requiredAt' \in Times \cup {NoObj}
    BY <1>4 DEF CheckCertExpiry, TypeOK
  <2>3. checkAt' \in Nat /\ faults' \in Nat
    BY <1>4, <2>1 DEF CheckCertExpiry, Fault, TypeOK
  <2>4. checkQueued' \in BOOLEAN /\ rotateQueued' \in BOOLEAN
    BY <1>4, Zenon DEF CheckCertExpiry, TypeOK
  <2> QED
    BY <1>4, <2>2, <2>3, <2>4 DEF CheckCertExpiry, TypeOK, cluster, caches, deleted, worker
<1>5. CASE SyncSecrets
  BY <1>5 DEF SyncSecrets, TypeOK, cluster, worker, bounds
<1>6. CASE SyncBundle
  BY <1>6, ZenonT(60) DEF SyncBundle, TypeOK, cluster, worker, bounds
<1>7. CASE DeleteSecret
  BY <1>7 DEF DeleteSecret, Change, TypeOK, caches, queues, worker
<1>8. CASE DeleteBundle
  BY <1>8 DEF DeleteBundle, Change, TypeOK, caches, queues, worker
<1>9. CASE ExternalEdit
  <2>1. changes' \in Nat
    BY <1>9 DEF ExternalEdit, Change, TypeOK
  <2>2. signer' \in SignerSecrets \cup {NoObj}
    BY <1>9 DEF ExternalEdit, TypeOK, SignerSecrets
  <2>3. targets' \in [Targets -> TargetSecrets \cup {NoObj}]
    <3>1. CASE UNCHANGED targets
      BY <3>1 DEF TypeOK
    <3>2. ASSUME NEW t \in Targets, targets[t] # NoObj,
                 targets' = [targets EXCEPT ![t] = [@ EXCEPT !.intact = FALSE]]
          PROVE  targets' \in [Targets -> TargetSecrets \cup {NoObj}]
      <4>1. targets[t] \in TargetSecrets
        BY <3>2 DEF TypeOK
      <4>2. [targets[t] EXCEPT !.intact = FALSE] \in TargetSecrets
        BY <4>1 DEF TargetSecrets
      <4> QED
        BY <3>2, <4>2 DEF TypeOK
    <3> QED
      BY <1>9, <3>1, <3>2 DEF ExternalEdit
  <2> QED
    BY <1>9, <2>1, <2>2, <2>3 DEF ExternalEdit, TypeOK, caches, deleted, queues, worker
<1>10. CASE Tick
  <2>1. now' \in Times
    BY <1>10, CertBoundsAssumption DEF Tick, TypeOK, Times
  <2> QED
    BY <1>10, <2>1 DEF Tick, TypeOK, cluster, caches, deleted, queues, worker, bounds
<1>11. CASE Restart
  <2>1. checkAt' \in Nat /\ faults' \in Nat
    BY <1>11, TimesFacts DEF Restart, Fault, TypeOK
  <2> QED
    BY <1>11, <2>1 DEF Restart, Release, NoTargets, TypeOK, cluster
<1>12. CASE UNCHANGED vars
  BY <1>12 DEF vars, TypeOK, cluster, caches, deleted, queues, worker, bounds
<1> QED
  BY <1>1, <1>2, <1>3, <1>4, <1>5, <1>6, <1>7, <1>8, <1>9, <1>10, <1>11, <1>12
     DEF Next, Pass

\* Every variable of the certificate rotation keeps its type; in particular
\* no certificate is ever issued with a validity that is already negative.
THEOREM CertTypeCorrect == Spec => []TypeOK
<1>1. Init => TypeOK
  BY InitType
<1>2. TypeOK /\ [Next]_vars => TypeOK'
  BY TypeStep
<1> QED
  BY <1>1, <1>2, PTL DEF Spec

----------------------------------------------------------------------------
(* Third parties.                                                          *)

\* A third party deletes a secret or breaks its annotations: the certificate
\* in a secret that is still there is the one that was there.
LEMMA ChangeFacts ==
  ASSUME TypeOK, DeleteSecret \/ ExternalEdit
  PROVE  /\ signer' # NoObj => signer # NoObj /\ signer'.ca = signer.ca
         /\ \A u \in Targets : targets'[u] # NoObj =>
              /\ targets[u] # NoObj /\ targets'[u].issuer = targets[u].issuer
              /\ targets'[u].notBefore = targets[u].notBefore
              /\ targets'[u].notAfter = targets[u].notAfter
<1>1. CASE DeleteSecret
  BY <1>1 DEF DeleteSecret, TypeOK
<1>2. CASE ExternalEdit
  <2>1. signer' # NoObj => signer # NoObj /\ signer'.ca = signer.ca
    BY <1>2 DEF ExternalEdit, TypeOK, SignerSecrets
  <2>2. CASE UNCHANGED targets
    BY <2>1, <2>2
  <2>3. ASSUME NEW t \in Targets, targets[t] # NoObj,
               targets' = [targets EXCEPT ![t] = [@ EXCEPT !.intact = FALSE]]
        PROVE  \A u \in Targets : targets'[u] # NoObj =>
                 /\ targets[u] # NoObj /\ targets'[u].issuer = targets[u].issuer
                 /\ targets'[u].notBefore = targets[u].notBefore
                 /\ targets'[u].notAfter = targets[u].notAfter
    <3>1. targets[t] \in TargetSecrets
      BY <2>3 DEF TypeOK
    <3>2. /\ targets'[t].issuer = targets[t].issuer
          /\ targets'[t].notBefore = targets[t].notBefore
          /\ targets'[t].notAfter = targets[t].notAfter
      BY <2>3, <3>1 DEF TypeOK, TargetSecrets
    <3>3. \A u \in Targets \ {t} : targets'[u] = targets[u]
      BY <2>3 DEF TypeOK
    <3> QED
      BY <2>3, <3>2, <3>3
  <2> QED
    BY <1>2, <2>1, <2>2, <2>3 DEF ExternalEdit
<1> QED
  BY <1>1, <1>2

----------------------------------------------------------------------------
(* No certificate outlives its issuer.                                     *)

LEMMA OutlivesStep ==
  ASSUME TypeOK, NoneOutlives, [Next]_vars PROVE NoneOutlives'
<1>1. CASE BuildAll
  <2>1. PICK s \in SigningCASecrets :
          dTargets' = [t \in Targets |-> BuildTarget(cTargets[t], s.ca,
                                           manageCABundleConfigMap(cBundle, s.ca))]
    BY <1>1 DEF BuildAll
  <2>2. s.ca \in CACerts /\ now <= s.ca.notAfter
    BY SigningCAFacts DEF SignerSecrets
  <2>3. Within(dTargets')
    <3> SUFFICES ASSUME NEW t \in Targets
                 PROVE  dTargets'[t].notAfter <= dTargets'[t].issuer.notAfter
      BY DEF Within
    <3>1. cTargets[t] \in TargetSecrets \cup {NoObj}
      BY DEF TypeOK
    <3>2. cTargets[t] # NoObj => cTargets[t].notAfter <= cTargets[t].issuer.notAfter
      BY DEF NoneOutlives, Within
    <3>3. dTargets'[t] = BuildTarget(cTargets[t], s.ca, manageCABundleConfigMap(cBundle, s.ca))
      BY <2>1
    <3> QED
      BY <2>2, <3>1, <3>2, <3>3, TargetFacts
  <2> QED
    BY <1>1, <2>3 DEF BuildAll, NoneOutlives, Within, cluster, caches
<1>2. ASSUME NEW t \in Targets, WriteTarget(t) PROVE NoneOutlives'
  <2>1. PICK x \in {targets[t], dTargets[t]} : targets' = [targets EXCEPT ![t] = x]
    BY <1>2 DEF WriteTarget
  <2>2. Within(targets')
    BY <2>1 DEF NoneOutlives, Within, TypeOK
  <2> QED
    BY <1>2, <2>2 DEF WriteTarget, NoneOutlives, Within, caches
<1>3. CASE EndPass \/ Restart
  BY <1>3 DEF EndPass, Restart, Release, NoTargets, NoneOutlives, Within, cluster, caches
<1>4. CASE SyncSecrets
  BY <1>4 DEF SyncSecrets, NoneOutlives, Within, cluster, worker
<1>5. CASE DeleteSecret
  BY <1>5 DEF DeleteSecret, NoneOutlives, Within, TypeOK, caches, worker
<1>6. CASE ExternalEdit
  <2>1. Within(targets')
    BY <1>6, ChangeFacts DEF NoneOutlives, Within
  <2> QED
    BY <1>6, <2>1 DEF ExternalEdit, NoneOutlives, Within, caches, worker
<1>7. CASE WriteSigner \/ WriteBundle \/ CheckCertExpiry \/ SyncBundle \/ DeleteBundle
             \/ Tick \/ UNCHANGED vars
  BY <1>7 DEF WriteSigner, WriteBundle, CheckCertExpiry, SyncBundle, DeleteBundle, Tick,
              vars, NoneOutlives, Within, cluster, caches, worker
<1> QED
  BY <1>1, <1>2, <1>3, <1>4, <1>5, <1>6, <1>7 DEF Next, Pass

\* No component certificate is valid for longer than the CA that issued it.
THEOREM WithinSigner == Spec => []NeverOutlivesSigner
<1>1. Init => TypeOK /\ NoneOutlives
  BY InitType DEF Init, NoneOutlives, Within, NoTargets
<1>2. TypeOK /\ NoneOutlives /\ [Next]_vars => (TypeOK /\ NoneOutlives)'
  BY TypeStep, OutlivesStep
<1>3. NoneOutlives => NeverOutlivesSigner
  BY DEF NoneOutlives, NeverOutlivesSigner
<1> QED
  BY <1>1, <1>2, <1>3, PTL DEF Spec

----------------------------------------------------------------------------
(* Common names tell CAs apart.                                            *)

\* Some object, cache or local refers to the CA c.
Refers(c) ==
  \/ signer # NoObj /\ signer.ca = c
  \/ cSigner # NoObj /\ cSigner.ca = c
  \/ dSigner # NoObj /\ dSigner.ca = c
  \/ bundle # NoObj /\ c \in bundle.certs
  \/ cBundle # NoObj /\ c \in cBundle.certs
  \/ dBundle # NoObj /\ c \in dBundle.certs
  \/ \E t \in Targets : targets[t] # NoObj /\ targets[t].issuer = c
  \/ \E t \in Targets : cTargets[t] # NoObj /\ cTargets[t].issuer = c
  \/ \E t \in Targets : dTargets[t] # NoObj /\ dTargets[t].issuer = c

LEMMA KnownRefers == \A c : c \in KnownCAs <=> Refers(c)
BY DEF KnownCAs, Refers

LEMMA KnownRefersNext == \A c : c \in KnownCAs' <=> Refers(c)'
BY DEF KnownCAs, Refers

\* The CA of a pass is a known one, or has a name no known CA has.
LEMMA SigningCAName ==
  ASSUME NEW s \in SigningCASecrets
  PROVE  (Refers(s.ca)) \/ (\A c \in KnownCAs : c.name # s.ca.name)
<1>1. CASE cSigner # NoObj /\ ~SignerNeedsNew(cSigner)
  BY <1>1 DEF SigningCASecrets, Refers
<1>2. CASE ~(cSigner # NoObj /\ ~SignerNeedsNew(cSigner))
  <2>1. FreshNames # {}
    BY <1>2 DEF SigningCASecrets
  <2> DEFINE n == CHOOSE n \in FreshNames : TRUE
  <2>2. n \in FreshNames
    BY <2>1
  <2>3. s = [ca |-> NewCA(n), intact |-> TRUE]
    BY <1>2, <2>1 DEF SigningCASecrets
  <2> HIDE DEF n
  <2>4. s.ca.name = n
    BY <2>3 DEF NewCA
  <2> QED
    BY <2>2, <2>4 DEF FreshNames
<1> QED
  BY <1>1, <1>2

LEMMA BuildRefers ==
  ASSUME TypeOK, BuildAll, NEW s \in SigningCASecrets,
         dSigner' = s,
         dBundle' = manageCABundleConfigMap(cBundle, s.ca),
         dTargets' = [t \in Targets |-> BuildTarget(cTargets[t], s.ca, dBundle')]
  PROVE  \A c : Refers(c)' => Refers(c) \/ c = s.ca
<1> SUFFICES ASSUME NEW c, Refers(c)', c # s.ca PROVE Refers(c)
  OBVIOUS
<1>1. s.ca \in CACerts /\ now <= s.ca.notAfter
  BY SigningCAFacts DEF SignerSecrets
<1>2. UNCHANGED <<signer, bundle, targets, cSigner, cTargets, cBundle>>
  BY DEF BuildAll, cluster, caches
<1>3. dBundle'.certs \subseteq (IF cBundle = NoObj THEN {} ELSE cBundle.certs) \cup {s.ca}
  BY <1>1, BundleFacts
<1>4. ASSUME NEW t \in Targets, dTargets'[t].issuer = c
      PROVE  cTargets[t] # NoObj /\ cTargets[t].issuer = c
  <2>1. dTargets'[t] = BuildTarget(cTargets[t], s.ca, dBundle')
    OBVIOUS
  <2> QED
    BY <1>4, <2>1 DEF BuildTarget
<1>5. CASE dSigner' # NoObj /\ dSigner'.ca = c
  BY <1>5
<1>6. CASE dBundle' # NoObj /\ c \in dBundle'.certs
  BY <1>3, <1>6 DEF Refers
<1>7. CASE \E t \in Targets : dTargets'[t] # NoObj /\ dTargets'[t].issuer = c
  BY <1>4, <1>7 DEF Refers
<1> QED
  BY <1>2, <1>5, <1>6, <1>7 DEF Refers

LEMMA OtherRefers ==
  ASSUME TypeOK, [Next]_vars, ~BuildAll, NEW c, Refers(c)' PROVE Refers(c)
<1>1. faults \in Nat /\ errs \in BOOLEAN
  BY DEF TypeOK
<1>2. CASE WriteSigner
  <2>1. signer' \in {signer, dSigner}
    BY <1>1, <1>2, WriteFacts DEF WriteSigner
  <2> QED
    BY <1>2, <2>1 DEF WriteSigner, Refers, caches
<1>3. CASE WriteBundle
  <2>1. bundle' \in {bundle, dBundle}
    BY <1>1, <1>3, WriteFacts DEF WriteBundle
  <2> QED
    BY <1>3, <2>1 DEF WriteBundle, Refers, caches
<1>4. ASSUME NEW t \in Targets, WriteTarget(t) PROVE Refers(c)
  <2>1. PICK x \in {targets[t], dTargets[t]} : targets' = [targets EXCEPT ![t] = x]
    BY <1>4 DEF WriteTarget
  <2>2. \A u \in Targets : targets'[u] = targets[u] \/ targets'[u] = dTargets[u]
    BY <2>1 DEF TypeOK
  <2>3. UNCHANGED <<signer, bundle, cSigner, cTargets, cBundle, dSigner, dBundle, dTargets>>
    BY <1>4 DEF WriteTarget, caches
  <2> QED
    BY <2>2, <2>3 DEF Refers
<1>5. CASE EndPass \/ Restart
  BY <1>5 DEF EndPass, Restart, Release, NoTargets, Refers, cluster, caches
<1>6. CASE SyncSecrets \/ SyncBundle
  BY <1>6 DEF SyncSecrets, SyncBundle, Refers, cluster, worker
<1>7. CASE DeleteSecret
  <2>1. \A u \in Targets : targets'[u] = targets[u] \/ targets'[u] = NoObj
    BY <1>7 DEF DeleteSecret, TypeOK
  <2>2. signer' = signer \/ signer' = NoObj
    BY <1>7 DEF DeleteSecret
  <2> QED
    BY <1>7, <2>1, <2>2 DEF DeleteSecret, Refers, caches, worker
<1>8. CASE DeleteBundle
  BY <1>8 DEF DeleteBundle, Refers, caches, worker
<1>9. CASE ExternalEdit
  <2>1. \A u \in Targets : targets'[u] # NoObj =>
          targets[u] # NoObj /\ targets'[u].issuer = targets[u].issuer
    BY <1>9, ChangeFacts
  <2>2. signer' # NoObj => signer # NoObj /\ signer'.ca = signer.ca
    BY <1>9 DEF ExternalEdit, TypeOK, SignerSecrets
  <2>3. UNCHANGED <<bundle, cSigner, cTargets, cBundle, dSigner, dBundle, dTargets>>
    BY <1>9 DEF ExternalEdit, caches, worker
  <2> QED
    BY <2>1, <2>2, <2>3 DEF Refers
<1>10. CASE CheckCertExpiry \/ Tick \/ UNCHANGED vars
  BY <1>10 DEF CheckCertExpiry, Tick, vars, Refers, cluster, caches, worker
<1> QED
  BY <1>2, <1>3, <1>4, <1>5, <1>6, <1>7, <1>8, <1>9, <1>10 DEF Next, Pass

LEMMA NamesStep ==
  ASSUME TypeOK, NamesUnique, [Next]_vars PROVE NamesUnique'
<1>1. CASE BuildAll
  <2>1. PICK s \in SigningCASecrets :
          /\ dSigner' = s /\ dBundle' = manageCABundleConfigMap(cBundle, s.ca)
          /\ dTargets' = [t \in Targets |-> BuildTarget(cTargets[t], s.ca, dBundle')]
    BY <1>1 DEF BuildAll
  <2>2. \A c : Refers(c)' => Refers(c) \/ c = s.ca
    BY <1>1, <2>1, BuildRefers
  <2> QED
    BY <2>2, SigningCAName, KnownRefers, KnownRefersNext DEF NamesUnique
<1>2. CASE ~BuildAll
  BY <1>2, OtherRefers, KnownRefers, KnownRefersNext DEF NamesUnique
<1> QED
  BY <1>1, <1>2

----------------------------------------------------------------------------
(* A successful pass leaves every certificate trusted.                     *)

PassInv == TypeOK /\ NamesUnique /\ BuiltTrusts /\ UnwrittenAsRead /\ WrittenAsBuilt

\* What BuildAll keeps, the bundle it builds trusts: the issuer's name is in
\* the bundle, and a name stands for one CA.
LEMMA BuildTrusts ==
  ASSUME TypeOK, NamesUnique, BuildAll PROVE BuiltTrusts'
<1>1. PICK s \in SigningCASecrets :
        /\ dSigner' = s /\ dBundle' = manageCABundleConfigMap(cBundle, s.ca)
        /\ dTargets' = [t \in Targets |-> BuildTarget(cTargets[t], s.ca, dBundle')]
  BY DEF BuildAll
<1>2. s.ca \in CACerts /\ now <= s.ca.notAfter
  BY SigningCAFacts DEF SignerSecrets
<1>3. s.ca \in dBundle'.certs
  BY <1>1, <1>2, BundleFacts
<1>4. \A c \in dBundle'.certs : Refers(c) \/ c = s.ca
  <2>1. dBundle'.certs \subseteq (IF cBundle = NoObj THEN {} ELSE cBundle.certs) \cup {s.ca}
    BY <1>1, <1>2, BundleFacts
  <2> QED
    BY <2>1 DEF Refers
<1> SUFFICES ASSUME NEW t \in Targets
             PROVE  dTargets'[t] # NoObj /\ dTargets'[t].issuer \in dBundle'.certs
  BY DEF BuiltTrusts
<1>5. dTargets'[t] = BuildTarget(cTargets[t], s.ca, dBundle')
  BY <1>1
<1>6. dTargets'[t] # NoObj
  <2>1. cTargets[t] \in TargetSecrets \cup {NoObj}
    BY DEF TypeOK
  <2> QED
    BY <1>2, <1>5, <2>1, TargetFacts, CertAbsenceAssumption
<1>7. CASE cTargets[t] # NoObj /\ ~TargetNeedsNew(cTargets[t], s.ca, dBundle')
  <2>1. dTargets'[t] = cTargets[t]
    BY <1>5, <1>7 DEF BuildTarget
  <2>2. PICK c \in dBundle'.certs : c.name = cTargets[t].issuer.name
    BY <1>7 DEF TargetNeedsNew
  <2>3. Refers(cTargets[t].issuer)
    BY <1>7 DEF Refers
  <2>4. Refers(c)
    BY <1>4, <2>2, <2>3, SigningCAName, KnownRefers
  <2>5. c = cTargets[t].issuer
    BY <2>2, <2>3, <2>4, KnownRefers DEF NamesUnique
  <2> QED
    BY <1>6, <2>1, <2>5
<1>8. CASE ~(cTargets[t] # NoObj /\ ~TargetNeedsNew(cTargets[t], s.ca, dBundle'))
  BY <1>3, <1>5, <1>6, <1>8 DEF BuildTarget
<1> QED
  BY <1>7, <1>8

LEMMA BuildPassInv ==
  ASSUME PassInv, BuildAll, ReadsFresh
  PROVE  BuiltTrusts' /\ UnwrittenAsRead' /\ WrittenAsBuilt'
<1>1. BuiltTrusts'
  BY BuildTrusts DEF PassInv
<1>2. CachesFresh
  BY DEF ReadsFresh, BuildAll
<1>3. UnwrittenAsRead'
  BY <1>2 DEF BuildAll, CachesFresh, UnwrittenAsRead, cluster, caches
<1>4. WrittenAsBuilt'
  BY DEF BuildAll, WrittenAsBuilt
<1> QED
  BY <1>1, <1>3, <1>4

LEMMA WritePassInv ==
  ASSUME PassInv,
         WriteSigner \/ WriteBundle \/ \E t \in Targets : WriteTarget(t)
  PROVE  BuiltTrusts' /\ UnwrittenAsRead' /\ WrittenAsBuilt'
<1>1. CASE WriteSigner
  BY <1>1 DEF WriteSigner, PassInv, BuiltTrusts, UnwrittenAsRead, WrittenAsBuilt, caches
<1>2. CASE WriteBundle
  <2>1. BuiltTrusts' /\ UnwrittenAsRead'
    BY <1>2 DEF WriteBundle, PassInv, BuiltTrusts, UnwrittenAsRead, caches
  <2>2. bundle \in {cBundle, NoObj} /\ todo' = Targets
    BY <1>2 DEF WriteBundle, PassInv, UnwrittenAsRead
  <2>3. ~errs' => bundle' \in {dBundle, NoObj}
    BY <1>2, <2>2 DEF WriteBundle, Write, Accepted
  <2>4. WrittenAsBuilt'
    BY <1>2, <2>2, <2>3 DEF WriteBundle, WrittenAsBuilt
  <2> QED
    BY <2>1, <2>4
<1>3. ASSUME NEW t \in Targets, WriteTarget(t)
      PROVE  BuiltTrusts' /\ UnwrittenAsRead' /\ WrittenAsBuilt'
  <2>1. PICK x \in {targets[t], dTargets[t]} :
          /\ Write(cTargets[t], targets[t], x, dTargets[t])
          /\ targets' = [targets EXCEPT ![t] = x]
    BY <1>3 DEF WriteTarget
  <2>2. /\ pc = "targets" /\ t \in todo /\ todo' = todo \ {t}
        /\ UNCHANGED <<pc, bundle, cBundle, cTargets, dBundle, dTargets>>
    BY <1>3 DEF WriteTarget, caches
  <2>3. targets'[t] = x /\ \A u \in Targets \ {t} : targets'[u] = targets[u]
    BY <2>1 DEF PassInv, TypeOK
  <2>4. BuiltTrusts'
    BY <2>2 DEF PassInv, BuiltTrusts
  <2>5. UnwrittenAsRead'
    BY <2>2, <2>3 DEF PassInv, UnwrittenAsRead, TypeOK
  <2>6. targets[t] # NoObj => cTargets[t] # NoObj /\ targets[t].issuer = cTargets[t].issuer
    BY <2>2 DEF PassInv, UnwrittenAsRead
  <2>7. ~errs' => ~errs /\ (x # NoObj => x.issuer = dTargets[t].issuer)
    <3>1. CASE /\ Accepted(cTargets[t], targets[t], dTargets[t])
               /\ x = IF cTargets[t] = dTargets[t] THEN targets[t] ELSE dTargets[t]
               /\ UNCHANGED <<errs, faults>>
      BY <2>6, <3>1
    <3>2. CASE errs' = TRUE
      BY <3>2
    <3> QED
      BY <2>1, <3>1, <3>2 DEF Write
  <2>8. WrittenAsBuilt'
    <3> SUFFICES ASSUME ~errs'
                 PROVE  /\ bundle' \in {dBundle', NoObj}
                        /\ \A u \in Targets \ todo' : targets'[u] # NoObj =>
                             targets'[u].issuer = dTargets'[u].issuer
      BY DEF WrittenAsBuilt
    <3>1. ~errs
      BY <2>7
    <3>2. bundle \in {dBundle, NoObj} /\ \A u \in Targets \ todo : targets[u] # NoObj =>
             targets[u].issuer = dTargets[u].issuer
      BY <2>2, <3>1 DEF PassInv, WrittenAsBuilt
    <3> QED
      BY <2>2, <2>3, <2>7, <3>2
  <2> QED
    BY <2>4, <2>5, <2>8
<1> QED
  BY <1>1, <1>2, <1>3

LEMMA SyncPassInv ==
  ASSUME PassInv, SyncSecrets \/ SyncBundle
  PROVE  BuiltTrusts' /\ UnwrittenAsRead' /\ WrittenAsBuilt'
<1>1. CASE SyncSecrets
  BY <1>1 DEF SyncSecrets, PassInv, BuiltTrusts, UnwrittenAsRead, WrittenAsBuilt, TypeOK,
              cluster, worker
<1>2. CASE SyncBundle
  BY <1>2 DEF SyncBundle, PassInv, BuiltTrusts, UnwrittenAsRead, WrittenAsBuilt,
              cluster, worker
<1> QED
  BY <1>1, <1>2

LEMMA ChangePassInv ==
  ASSUME PassInv, DeleteSecret \/ DeleteBundle \/ ExternalEdit
  PROVE  BuiltTrusts' /\ UnwrittenAsRead' /\ WrittenAsBuilt'
<1>1. \A u \in Targets : targets'[u] # NoObj =>
        targets[u] # NoObj /\ targets'[u].issuer = targets[u].issuer
  BY ChangeFacts DEF DeleteBundle, PassInv
<1>2. bundle' \in {bundle, NoObj}
  BY DEF DeleteSecret, DeleteBundle, ExternalEdit
<1>3. UNCHANGED <<pc, todo, errs, cBundle, cTargets, dBundle, dTargets>>
  BY DEF DeleteSecret, DeleteBundle, ExternalEdit, caches, worker
<1>4. BuiltTrusts'
  BY <1>3 DEF PassInv, BuiltTrusts
<1>5. UnwrittenAsRead'
  BY <1>1, <1>2, <1>3 DEF PassInv, TypeOK, UnwrittenAsRead
<1>6. WrittenAsBuilt'
  BY <1>1, <1>2, <1>3 DEF PassInv, WrittenAsBuilt
<1> QED
  BY <1>4, <1>5, <1>6

LEMMA PassStep ==
  ASSUME PassInv, [Next /\ ReadsFresh]_vars PROVE PassInv'
<1>1. TypeOK' /\ NamesUnique'
  BY TypeStep, NamesStep DEF PassInv
<1>2. CASE BuildAll /\ ReadsFresh
  BY <1>1, <1>2, BuildPassInv DEF PassInv
<1>3. CASE WriteSigner \/ WriteBundle \/ \E t \in Targets : WriteTarget(t)
  BY <1>1, <1>3, WritePassInv DEF PassInv
<1>4. CASE SyncSecrets \/ SyncBundle
  BY <1>1, <1>4, SyncPassInv DEF PassInv
<1>5. CASE DeleteSecret \/ DeleteBundle \/ ExternalEdit
  BY <1>1, <1>5, ChangePassInv DEF PassInv
<1>6. CASE EndPass \/ Restart
  BY <1>1, <1>6 DEF EndPass, Restart, Release, PassInv, BuiltTrusts, UnwrittenAsRead,
                    WrittenAsBuilt
<1>7. CASE CheckCertExpiry \/ Tick \/ UNCHANGED vars
  BY <1>1, <1>7 DEF CheckCertExpiry, Tick, vars, PassInv, BuiltTrusts, UnwrittenAsRead,
                    WrittenAsBuilt, cluster, caches, worker
<1> QED
  BY <1>2, <1>3, <1>4, <1>5, <1>6, <1>7 DEF Next, Pass

LEMMA InitPass == Init => PassInv
<1>1. Init => NamesUnique
  BY KnownRefers DEF Init, NamesUnique, Refers, NoTargets
<1> QED
  BY <1>1, InitType DEF Init, PassInv, BuiltTrusts, UnwrittenAsRead, WrittenAsBuilt

\* Whenever a pass of CreateOrRotateCertificates that read fresh caches ends
\* without an error, every certificate in the cluster was issued by a CA of
\* the bundle in the cluster, whatever failed, was deleted or edited before.
THEOREM PassLeavesTrust == FreshSpec => PassTrusts
<1>1. Init => PassInv
  BY InitPass
<1>2. PassInv /\ [Next /\ ReadsFresh]_vars => PassInv'
  BY PassStep
<1>3. PassInv => (EndPass /\ ~errs => \A t \in Targets :
                    targets[t] # NoObj /\ bundle # NoObj => targets[t].issuer \in bundle.certs)
  BY DEF PassInv, EndPass, WrittenAsBuilt, BuiltTrusts
<1>4. PassInv /\ [Next /\ ReadsFresh]_vars =>
        [EndPass /\ ~errs => \A t \in Targets :
           targets[t] # NoObj /\ bundle # NoObj => targets[t].issuer \in bundle.certs]_vars
  BY <1>3
<1> QED
  BY <1>1, <1>2, <1>4, PTL DEF FreshSpec, PassTrusts

----------------------------------------------------------------------------
(* The bundle covers every certificate at every step of a rotation.        *)

\* A certificate in use and not over was issued by one of certs.
Covers(certs) ==
  \A t \in Targets : targets[t] # NoObj /\ now <= targets[t].notAfter =>
    targets[t].issuer \in certs

\* The bundle a pass is about to write covers what the old one covers, and
\* the signer is written before it and the certificates after it.
CoverInv ==
  /\ BundleCovers
  /\ pc \in {"signer", "bundle"} => bundle = cBundle /\ Covers(dBundle.certs)
  /\ pc = "targets" => bundle = dBundle

\* An expired CA leaves the bundle, but it has no certificate in use.
LEMMA BuildCovers ==
  ASSUME TypeOK, NoneOutlives, CoverInv, BuildAll, ReadsFresh PROVE CoverInv'
<1>1. PICK s \in SigningCASecrets : dBundle' = manageCABundleConfigMap(cBundle, s.ca)
  BY DEF BuildAll
<1>2. CachesFresh /\ pc' = "signer" /\ UNCHANGED <<now, signer, bundle, targets, cBundle>>
  BY DEF ReadsFresh, BuildAll, cluster, caches
<1>3. ASSUME NEW t \in Targets, targets[t] # NoObj, now <= targets[t].notAfter
      PROVE  targets[t].issuer \in dBundle'.certs
  <2>1. bundle # NoObj /\ targets[t].issuer \in bundle.certs
    BY <1>3 DEF CoverInv, BundleCovers
  <2>2. cBundle # NoObj /\ targets[t].issuer \in cBundle.certs
    BY <1>2, <2>1 DEF CachesFresh
  <2>3. /\ targets[t] \in TargetSecrets
        /\ targets[t].notAfter <= targets[t].issuer.notAfter
    BY <1>3 DEF TypeOK, NoneOutlives, Within
  <2>4. /\ now \in Nat /\ targets[t].notAfter \in Nat
        /\ targets[t].issuer.notAfter \in Nat
    BY <2>3, TimesFacts DEF TypeOK, TargetSecrets, CACerts
  <2>5. now <= targets[t].issuer.notAfter
    BY <1>3, <2>3, <2>4
  <2> QED
    BY <1>1, <2>2, <2>5 DEF manageCABundleConfigMap
<1>4. bundle = cBundle
  BY <1>2 DEF CachesFresh
<1> QED
  BY <1>2, <1>3, <1>4 DEF CoverInv, BundleCovers, Covers

LEMMA CoverStep ==
  ASSUME MaxFaults = 0, "bundle" \notin Disturbed,
         PassInv, NoneOutlives, CoverInv, [Next /\ ReadsFresh]_vars
  PROVE  CoverInv'
<1>1. TypeOK /\ ~Fault
  BY DEF PassInv, TypeOK, Fault
<1>2. CASE BuildAll /\ ReadsFresh
  BY <1>1, <1>2, BuildCovers
<1>3. CASE WriteSigner
  BY <1>3 DEF WriteSigner, CoverInv, BundleCovers, Covers, caches
<1>4. CASE WriteBundle
  <2>1. pc = "bundle" /\ bundle = cBundle /\ dBundle # NoObj /\ Covers(dBundle.certs)
    BY <1>1, <1>4 DEF WriteBundle, CoverInv, TypeOK
  <2>2. bundle' = dBundle
    BY <1>1, <1>4, <2>1 DEF WriteBundle, Write, Accepted
  <2> QED
    BY <1>4, <2>1, <2>2 DEF WriteBundle, CoverInv, BundleCovers, Covers
<1>5. ASSUME NEW t \in Targets, WriteTarget(t) PROVE CoverInv'
  <2>1. PICK x \in {targets[t], dTargets[t]} : targets' = [targets EXCEPT ![t] = x]
    BY <1>5 DEF WriteTarget
  <2>2. \A u \in Targets : targets'[u] = targets[u] \/ targets'[u] = dTargets[u]
    BY <1>1, <2>1 DEF TypeOK
  <2>3. pc = "targets" /\ UNCHANGED <<now, pc, bundle, dBundle>>
    BY <1>5 DEF WriteTarget
  <2>4. bundle = dBundle /\ dBundle # NoObj
    BY <1>1, <2>3 DEF CoverInv, TypeOK
  <2>5. \A u \in Targets : dTargets[u].issuer \in dBundle.certs
    BY <2>3 DEF PassInv, BuiltTrusts
  <2> QED
    BY <2>2, <2>3, <2>4, <2>5 DEF CoverInv, BundleCovers
<1>6. CASE EndPass
  BY <1>6 DEF EndPass, Release, CoverInv, BundleCovers, cluster
<1>7. CASE SyncSecrets \/ SyncBundle \/ CheckCertExpiry \/ UNCHANGED vars
  BY <1>7 DEF SyncSecrets, SyncBundle, CheckCertExpiry, vars, CoverInv, BundleCovers, Covers,
              cluster, caches, worker
<1>8. CASE DeleteSecret \/ ExternalEdit
  <2>1. \A u \in Targets : targets'[u] # NoObj =>
          /\ targets[u] # NoObj /\ targets'[u].issuer = targets[u].issuer
          /\ targets'[u].notAfter = targets[u].notAfter
    BY <1>1, <1>8, ChangeFacts
  <2> QED
    BY <1>8, <2>1 DEF DeleteSecret, ExternalEdit, CoverInv, BundleCovers, Covers, caches, worker
<1>9. CASE Tick
  <2>1. \A u \in Targets : targets[u] # NoObj /\ now' <= targets[u].notAfter
                             => now <= targets[u].notAfter
    <3> SUFFICES ASSUME NEW u \in Targets, targets[u] # NoObj, now' <= targets[u].notAfter
                 PROVE  now <= targets[u].notAfter
      OBVIOUS
    <3>1. targets[u] \in TargetSecrets
      BY <1>1 DEF TypeOK
    <3>2. now \in Nat /\ targets[u].notAfter \in Nat
      BY <1>1, <3>1, TimesFacts DEF TypeOK, TargetSecrets
    <3> QED
      BY <1>9, <3>2 DEF Tick
  <2> QED
    BY <1>9, <2>1 DEF Tick, CoverInv, BundleCovers, Covers, cluster, caches, worker
<1>10. ~DeleteBundle /\ ~Restart
  BY <1>1 DEF DeleteBundle, Restart
<1> QED
  BY <1>2, <1>3, <1>4, <1>5, <1>6, <1>7, <1>8, <1>9, <1>10 DEF Next, Pass

\* As long as no request fails and nobody deletes the bundle, no moment of a
\* rotation leaves a certificate in use that the bundle does not trust.
THEOREM RotationCovers ==
  ASSUME MaxFaults = 0, "bundle" \notin Disturbed
  PROVE  FreshSpec => []BundleCovers
<1> DEFINE Inv == PassInv /\ NoneOutlives /\ CoverInv
<1>1. Init => Inv
  BY InitPass DEF Init, NoneOutlives, Within, NoTargets, CoverInv, BundleCovers
<1>2. Inv /\ [Next /\ ReadsFresh]_vars => Inv'
  BY PassStep, OutlivesStep, CoverStep DEF PassInv
<1>3. Inv => BundleCovers
  BY DEF CoverInv
<1> QED
  BY <1>1, <1>2, <1>3, PTL DEF FreshSpec
----------------------------------------------------------------------------
(* Nothing expires while the operator is quick.                            *)

\* The lifetimes leave room: a refresh before the end of the validity, a CA
\* whose last fifth outlasts a component certificate, and a check within the
\* last fifth of one. The operator's defaults have all of it.
RotationMargins ==
  /\ CACertRefresh # CACertValidity /\ TargetCertRefresh # TargetCertValidity
  /\ TargetCertValidity <= CACertValidity \div 5
  /\ CheckExpiryAfter <= TargetCertValidity \div 5

\* A secret is not in the last fifth of its validity.
FineSigner(s) == now <= s.ca.notAfter - CACertValidity \div 5
FineTarget(x) == now <= x.notAfter - TargetCertValidity \div 5

AllFine ==
  /\ signer # NoObj => FineSigner(signer)
  /\ \A t \in Targets : targets[t] # NoObj => FineTarget(targets[t])

\* No signing CA cuts short a certificate it issues.
FullSigner(s) == s # NoObj => s.ca.notAfter = s.ca.notBefore + CACertValidity
FullTarget(x) == x # NoObj => x.notAfter = x.notBefore + TargetCertValidity

FullValidity ==
  /\ FullSigner(signer) /\ FullSigner(cSigner) /\ FullSigner(dSigner)
  /\ \A t \in Targets :
       FullTarget(targets[t]) /\ FullTarget(cTargets[t]) /\ FullTarget(dTargets[t])

\* What a pass built is fine, for no time passes during a pass, ...
BuiltFine ==
  /\ pc = "idle" => ~errs /\ todo = {}
  /\ pc # "idle" => FineSigner(dSigner) /\ \A t \in Targets :
       dTargets[t] # NoObj /\ FineTarget(dTargets[t])

\* ... what it has written is fine unless a write failed, ...
WrittenFine ==
  pc # "idle" /\ ~errs =>
    /\ pc # "signer" /\ signer # NoObj => FineSigner(signer)
    /\ \A t \in Targets \ todo : targets[t] # NoObj => FineTarget(targets[t])

\* ... and whatever a cache has not seen is fine or has the same validity.
NearCache ==
  /\ signer # NoObj => \/ FineSigner(signer)
                       \/ cSigner # NoObj /\ signer.ca = cSigner.ca
  /\ \A t \in Targets : targets[t] # NoObj =>
       \/ FineTarget(targets[t])
       \/ cTargets[t] # NoObj /\ targets[t].notAfter = cTargets[t].notAfter

\* A cache that holds what is gone will be told, ...
DeletionsSeen ==
  /\ cSigner # NoObj /\ signer = NoObj => secretDeleted
  /\ \A t \in Targets : cTargets[t] # NoObj /\ targets[t] = NoObj => secretDeleted
  /\ cBundle # NoObj /\ bundle = NoObj => bundleDeleted

\* ... and a pass that goes through leaves nothing missing, unless another
\* one is queued or a deletion is on its way.
Present ==
  ~errs /\ ~rotateQueued =>
    /\ ~secretDeleted => /\ pc # "signer" => signer # NoObj
                         /\ \A t \in Targets \ todo : targets[t] # NoObj
    /\ ~bundleDeleted /\ pc \in {"idle", "targets"} => bundle # NoObj

CacheMissing ==
  \/ cSigner = NoObj \/ cBundle = NoObj
  \/ \E t \in Targets : cTargets[t] = NoObj

\* Where the certificate controller asks for no pass (it has asked in this
\* very instant, or something is missing), one is queued, or under way, or
\* has been done.
Settled ==
  requiredAt = now \/ CacheMissing => rotateQueued \/ pc # "idle" \/ AllFine

\* Between two passes the next check comes before the end of every secret.
Scheduled ==
  pc = "idle" /\ ~rotateQueued /\ ~checkQueued =>
    /\ signer # NoObj => checkAt <= signer.ca.notAfter
    /\ \A t \in Targets : targets[t] # NoObj => checkAt <= targets[t].notAfter

Timers ==
  /\ checkAt <= now + CheckExpiryAfter
  /\ requiredAt # NoObj => requiredAt <= now

ExpiryInv ==
  /\ NeverExpired /\ FullValidity /\ BuiltFine /\ WrittenFine /\ NearCache
  /\ DeletionsSeen /\ Present /\ Settled /\ Scheduled /\ Timers

LEMMA MarginFacts ==
  ASSUME RotationMargins
  PROVE  /\ CACertValidity \in Nat /\ TargetCertValidity \in Nat /\ CheckExpiryAfter \in Nat
         /\ CACertValidity \div 5 \in Nat /\ TargetCertValidity \div 5 \in Nat
         /\ CACertValidity \div 5 <= CACertValidity
         /\ TargetCertValidity \div 5 <= TargetCertValidity
         /\ TargetCertValidity <= CACertValidity \div 5
         /\ CheckExpiryAfter <= TargetCertValidity \div 5
BY DurationsAssumption DEF RotationMargins

LEMMA SecretTimes ==
  /\ \A s \in SignerSecrets : s.ca \in CACerts /\ s.ca.notBefore \in Nat /\ s.ca.notAfter \in Nat
  /\ \A x \in TargetSecrets : x.notBefore \in Nat /\ x.notAfter \in Nat
  /\ \A c \in CACerts : c.notAfter \in Nat
BY TimesFacts DEF SignerSecrets, TargetSecrets, CACerts

\* A secret that needs no new certificate is fine.
LEMMA KeptSignerFine ==
  ASSUME RotationMargins, TypeOK, NEW s \in SignerSecrets, FullSigner(s), ~SignerNeedsNew(s)
  PROVE  FineSigner(s)
<1>1. now \in Nat /\ s.ca.notBefore \in Nat /\ s.ca.notAfter \in Nat /\ s # NoObj
  BY TimesFacts, SecretTimes, CertAbsenceAssumption DEF TypeOK
<1>2. s.ca.notAfter - s.ca.notBefore = CACertValidity
  BY <1>1, MarginFacts DEF FullSigner
<1>3. ~(now > s.ca.notAfter - CACertValidity \div 5)
  BY <1>2 DEF SignerNeedsNew, needNewCertificate, RotationMargins
<1> QED
  BY <1>1, <1>3, MarginFacts DEF FineSigner

LEMMA KeptTargetFine ==
  ASSUME RotationMargins, TypeOK, NEW x \in TargetSecrets, FullTarget(x),
         NEW ca, NEW b, ~TargetNeedsNew(x, ca, b)
  PROVE  FineTarget(x)
<1>1. now \in Nat /\ x.notBefore \in Nat /\ x.notAfter \in Nat /\ x # NoObj
  BY TimesFacts, SecretTimes, CertAbsenceAssumption DEF TypeOK
<1>2. x.notAfter - x.notBefore = TargetCertValidity
  BY <1>1, MarginFacts DEF FullTarget
<1>3. ~(now > x.notAfter - TargetCertValidity \div 5)
  BY <1>2 DEF TargetNeedsNew, needNewCertificate, RotationMargins
<1> QED
  BY <1>1, <1>3, MarginFacts DEF FineTarget

\* So the signing CA of a pass is fine, ...
LEMMA BuiltSignerFine ==
  ASSUME RotationMargins, TypeOK, FullSigner(cSigner), NEW s \in SigningCASecrets
  PROVE  FullSigner(s) /\ FineSigner(s)
<1>1. CASE cSigner # NoObj /\ ~SignerNeedsNew(cSigner)
  <2>1. s = cSigner /\ cSigner \in SignerSecrets
    BY <1>1 DEF SigningCASecrets, TypeOK
  <2> QED
    BY <1>1, <2>1, KeptSignerFine
<1>2. CASE ~(cSigner # NoObj /\ ~SignerNeedsNew(cSigner))
  <2>1. PICK n : s = [ca |-> NewCA(n), intact |-> TRUE]
    BY <1>2 DEF SigningCASecrets
  <2>2. s.ca.notBefore = now /\ s.ca.notAfter = now + CACertValidity
    BY <2>1 DEF NewCA
  <2>3. now \in Nat
    BY TimesFacts DEF TypeOK
  <2> QED
    BY <2>2, <2>3, MarginFacts DEF FullSigner, FineSigner
<1> QED
  BY <1>1, <1>2

\* ... and it lives long enough to issue certificates of the full validity.
LEMMA BuiltTargetFine ==
  ASSUME RotationMargins, TypeOK, NEW s \in SignerSecrets, FineSigner(s), NEW b,
         NEW old \in TargetSecrets \cup {NoObj}, FullTarget(old)
  PROVE  /\ FullTarget(BuildTarget(old, s.ca, b))
         /\ FineTarget(BuildTarget(old, s.ca, b))
<1>1. CASE old # NoObj /\ ~TargetNeedsNew(old, s.ca, b)
  BY <1>1, KeptTargetFine DEF BuildTarget
<1>2. CASE ~(old # NoObj /\ ~TargetNeedsNew(old, s.ca, b))
  <2> DEFINE new == BuildTarget(old, s.ca, b)
  <2>1. new.notBefore = now /\ new.notAfter = now + targetValidity(s.ca)
    BY <1>2 DEF BuildTarget
  <2>2. now \in Nat /\ s.ca.notAfter \in Nat
    BY TimesFacts, SecretTimes DEF TypeOK
  <2>3. ~(s.ca.notAfter - now < TargetCertValidity)
    BY <2>2, MarginFacts DEF FineSigner
  <2>4. new.notAfter = now + TargetCertValidity
    BY <2>1, <2>3 DEF targetValidity
  <2> HIDE DEF new
  <2>5. FullTarget(new) /\ FineTarget(new)
    BY <2>1, <2>2, <2>4, MarginFacts DEF FullTarget, FineTarget
  <2> QED
    BY <2>5 DEF new
<1> QED
  BY <1>1, <1>2

LEMMA BuildExpiry ==
  ASSUME RotationMargins, TypeOK, ExpiryInv, BuildAll PROVE ExpiryInv'
<1>1. PICK s \in SigningCASecrets :
        /\ dSigner' = s
        /\ dTargets' = [t \in Targets |-> BuildTarget(cTargets[t], s.ca,
                                            manageCABundleConfigMap(cBundle, s.ca))]
  BY DEF BuildAll
<1>2. /\ pc' = "signer" /\ todo' = Targets /\ ~errs'
      /\ UNCHANGED <<now, signer, bundle, targets, requiredAt, cSigner, cTargets, cBundle,
                     secretDeleted, bundleDeleted, checkAt>>
  BY DEF BuildAll, cluster, caches, deleted
<1>3. FullSigner(s) /\ FineSigner(s) /\ s \in SignerSecrets /\ now <= s.ca.notAfter
  BY BuiltSignerFine, SigningCAFacts DEF ExpiryInv, FullValidity
<1>4. \A t \in Targets :
        FullTarget(dTargets'[t]) /\ FineTarget(dTargets'[t]) /\ dTargets'[t] # NoObj
  <2> SUFFICES ASSUME NEW t \in Targets
               PROVE  FullTarget(dTargets'[t]) /\ FineTarget(dTargets'[t])
                        /\ dTargets'[t] # NoObj
    OBVIOUS
  <2> DEFINE b == manageCABundleConfigMap(cBundle, s.ca)
  <2>1. dTargets'[t] = BuildTarget(cTargets[t], s.ca, b)
    BY <1>1
  <2>2. cTargets[t] \in TargetSecrets \cup {NoObj} /\ FullTarget(cTargets[t])
    BY DEF TypeOK, ExpiryInv, FullValidity
  <2> HIDE DEF b
  <2>3. FullTarget(dTargets'[t]) /\ FineTarget(dTargets'[t])
    BY <1>3, <2>1, <2>2, BuiltTargetFine
  <2>4. dTargets'[t] \in TargetSecrets
    BY <1>3, <2>1, <2>2, TargetFacts, SecretTimes
  <2> QED
    BY <2>3, <2>4, CertAbsenceAssumption
<1>5. NeverExpired' /\ NearCache' /\ DeletionsSeen' /\ Timers'
  BY <1>2 DEF ExpiryInv, NeverExpired, NearCache, DeletionsSeen, Timers, FineSigner, FineTarget
<1>6. FullValidity'
  BY <1>1, <1>2, <1>3, <1>4 DEF ExpiryInv, FullValidity, FullSigner, FullTarget
<1>7. BuiltFine'
  BY <1>1, <1>2, <1>3, <1>4 DEF BuiltFine, FineSigner, FineTarget
<1>8. WrittenFine' /\ Present' /\ Settled' /\ Scheduled'
  BY <1>2 DEF WrittenFine, Present, Settled, Scheduled
<1> QED
  BY <1>5, <1>6, <1>7, <1>8 DEF ExpiryInv

\* A write without an error leaves what the pass built, or what the cache,
\* which held the same, stands for.
LEMMA WriteSucceeds ==
  ASSUME NEW c, NEW x, NEW y, NEW d, Write(c, x, y, d), ~errs'
  PROVE  ~errs /\ (y = d \/ (c = d /\ y = x))
<1>1. CASE /\ Accepted(c, x, d) /\ y = IF c = d THEN x ELSE d
           /\ UNCHANGED <<errs, faults>>
  <2>1. errs' = errs
    BY <1>1
  <2>2. ~errs
    BY <2>1, Zenon
  <2>3. y = d \/ (c = d /\ y = x)
    BY <1>1
  <2> QED
    BY <2>2, <2>3
<1>2. CASE errs' = TRUE
  BY <1>2
<1> QED
  BY <1>1, <1>2 DEF Write

LEMMA SignerExpiry ==
  ASSUME RotationMargins, TypeOK, ExpiryInv, WriteSigner PROVE ExpiryInv'
<1>1. /\ pc = "signer" /\ pc' = "bundle"
      /\ UNCHANGED <<now, bundle, targets, requiredAt, cSigner, cTargets, cBundle,
                     secretDeleted, bundleDeleted, rotateQueued, checkQueued, checkAt,
                     dSigner, dTargets, todo>>
  BY DEF WriteSigner, caches, deleted, queues
<1>2. /\ signer' \in {signer, dSigner}
      /\ ~errs' => ~errs /\ (signer' = dSigner \/ cSigner = dSigner)
  BY DEF WriteSigner, Write
<1>3. /\ dSigner \in SignerSecrets /\ dSigner # NoObj
      /\ FineSigner(dSigner) /\ FullSigner(dSigner)
  BY <1>1, CertAbsenceAssumption DEF TypeOK, ExpiryInv, BuiltFine, FullValidity
<1>4. now \in Nat /\ now <= dSigner.ca.notAfter
  BY <1>3, TimesFacts, SecretTimes, MarginFacts DEF TypeOK, FineSigner
<1>5. NeverExpired' /\ NearCache' /\ FullValidity'
  BY <1>1, <1>2, <1>3, <1>4
     DEF ExpiryInv, NeverExpired, NearCache, FullValidity, FullSigner, FullTarget,
         FineSigner, FineTarget
<1>6. DeletionsSeen' /\ Timers' /\ BuiltFine'
  BY <1>1, <1>2, <1>3 DEF ExpiryInv, DeletionsSeen, Timers, BuiltFine, FineSigner, FineTarget
<1>7. WrittenFine'
  <2>1. ~errs' /\ signer' # NoObj => FineSigner(signer')
    BY <1>2, <1>3 DEF ExpiryInv, NearCache, FineSigner
  <2> QED
    BY <1>1, <1>2, <2>1 DEF ExpiryInv, WrittenFine, FineSigner, FineTarget
<1>8. Present'
  <2>1. ~errs' /\ ~secretDeleted => signer' # NoObj
    BY <1>2, <1>3 DEF ExpiryInv, DeletionsSeen
  <2> QED
    BY <1>1, <1>2, <2>1 DEF ExpiryInv, Present
<1>9. Settled' /\ Scheduled'
  BY <1>1 DEF Settled, Scheduled
<1> QED
  BY <1>5, <1>6, <1>7, <1>8, <1>9 DEF ExpiryInv

LEMMA BundleExpiry ==
  ASSUME RotationMargins, TypeOK, ExpiryInv, WriteBundle PROVE ExpiryInv'
<1>1. /\ pc = "bundle" /\ pc' = "targets"
      /\ UNCHANGED <<now, signer, targets, requiredAt, cSigner, cTargets, cBundle,
                     secretDeleted, bundleDeleted, rotateQueued, checkQueued, checkAt,
                     dSigner, dTargets, todo>>
  BY DEF WriteBundle, caches, deleted, queues
<1>2. /\ bundle' \in {bundle, dBundle}
      /\ ~errs' => ~errs /\ (bundle' = dBundle \/ (cBundle = dBundle /\ bundle' = bundle))
      /\ dBundle # NoObj
  <2>1. Write(cBundle, bundle, bundle', dBundle) /\ faults \in Nat /\ errs \in BOOLEAN
    BY DEF WriteBundle, TypeOK
  <2>2. dBundle # NoObj
    BY <1>1 DEF TypeOK
  <2> QED
    BY <2>1, <2>2, WriteFacts, WriteSucceeds
<1>3. NeverExpired' /\ NearCache' /\ FullValidity' /\ Timers' /\ BuiltFine' /\ WrittenFine'
  BY <1>1, <1>2
     DEF ExpiryInv, NeverExpired, NearCache, FullValidity, FullSigner, FullTarget,
         FineSigner, FineTarget, Timers, BuiltFine, WrittenFine
<1>4. DeletionsSeen'
  BY <1>1, <1>2 DEF ExpiryInv, DeletionsSeen
<1>5. Present'
  <2>1. ~errs' /\ ~bundleDeleted => bundle' # NoObj
    BY <1>2 DEF ExpiryInv, DeletionsSeen
  <2> QED
    BY <1>1, <1>2, <2>1 DEF ExpiryInv, Present
<1>6. Settled' /\ Scheduled'
  BY <1>1 DEF Settled, Scheduled
<1> QED
  BY <1>3, <1>4, <1>5, <1>6 DEF ExpiryInv

LEMMA TargetExpiry ==
  ASSUME RotationMargins, TypeOK, ExpiryInv, NEW t \in Targets, WriteTarget(t)
  PROVE  ExpiryInv'
<1>1. /\ pc = "targets" /\ pc' = "targets" /\ todo' = todo \ {t}
      /\ UNCHANGED <<now, signer, bundle, requiredAt, cSigner, cTargets, cBundle,
                     secretDeleted, bundleDeleted, rotateQueued, checkQueued, checkAt,
                     dSigner, dTargets>>
  BY DEF WriteTarget, caches, deleted, queues
<1>2. PICK x \in {targets[t], dTargets[t]} :
        /\ Write(cTargets[t], targets[t], x, dTargets[t])
        /\ targets' = [targets EXCEPT ![t] = x]
  BY DEF WriteTarget
<1>3. targets'[t] = x /\ \A u \in Targets \ {t} : targets'[u] = targets[u]
  BY <1>2 DEF TypeOK
<1>4. ~errs' => ~errs /\ (x = dTargets[t] \/ (cTargets[t] = dTargets[t] /\ x = targets[t]))
  BY <1>2, WriteSucceeds
<1>5. /\ dTargets[t] \in TargetSecrets /\ dTargets[t] # NoObj
      /\ FineTarget(dTargets[t]) /\ FullTarget(dTargets[t])
  BY <1>1 DEF TypeOK, ExpiryInv, BuiltFine, FullValidity
<1>6. now \in Nat /\ now <= dTargets[t].notAfter
  BY <1>5, TimesFacts, SecretTimes, MarginFacts DEF TypeOK, FineTarget
<1>7. NeverExpired'
  BY <1>1, <1>2, <1>3, <1>6 DEF ExpiryInv, NeverExpired
<1>8. FullValidity'
  BY <1>1, <1>2, <1>3, <1>5 DEF ExpiryInv, FullValidity, FullSigner, FullTarget
<1>9. NearCache'
  BY <1>1, <1>2, <1>3, <1>5 DEF ExpiryInv, NearCache, FineSigner, FineTarget
<1>10. DeletionsSeen'
  BY <1>1, <1>2, <1>3, <1>5 DEF ExpiryInv, DeletionsSeen
<1>11. Timers' /\ BuiltFine'
  BY <1>1 DEF ExpiryInv, Timers, BuiltFine, FineSigner, FineTarget
<1>12. WrittenFine'
  <2>1. ~errs' /\ x # NoObj => FineTarget(x)
    BY <1>4, <1>5 DEF ExpiryInv, NearCache, FineTarget
  <2> QED
    BY <1>1, <1>3, <1>4, <2>1 DEF ExpiryInv, WrittenFine, FineSigner, FineTarget
<1>13. Present'
  <2>1. ~errs' /\ ~secretDeleted => x # NoObj
    BY <1>4, <1>5 DEF ExpiryInv, DeletionsSeen
  <2> QED
    BY <1>1, <1>3, <1>4, <2>1 DEF ExpiryInv, Present
<1>14. Settled' /\ Scheduled'
  BY <1>1 DEF Settled, Scheduled
<1> QED
  BY <1>7, <1>8, <1>9, <1>10, <1>11, <1>12, <1>13, <1>14 DEF ExpiryInv

\* The next check comes before the end of what is fine.
LEMMA FineScheduled ==
  ASSUME RotationMargins, TypeOK, AllFine, NEW c \in Nat, c <= now + CheckExpiryAfter
  PROVE  /\ signer # NoObj => c <= signer.ca.notAfter
         /\ \A t \in Targets : targets[t] # NoObj => c <= targets[t].notAfter
<1>1. now \in Nat
  BY TimesFacts DEF TypeOK
<1>2. ASSUME signer # NoObj PROVE c <= signer.ca.notAfter
  <2>1. signer.ca.notAfter \in Nat
    BY <1>2, SecretTimes DEF TypeOK
  <2> QED
    BY <1>1, <1>2, <2>1, MarginFacts DEF AllFine, FineSigner
<1>3. ASSUME NEW t \in Targets, targets[t] # NoObj PROVE c <= targets[t].notAfter
  <2>1. targets[t].notAfter \in Nat
    BY <1>3, SecretTimes DEF TypeOK
  <2> QED
    BY <1>1, <1>3, <2>1, MarginFacts DEF AllFine, FineTarget
<1> QED
  BY <1>2, <1>3

LEMMA EndExpiry ==
  ASSUME RotationMargins, TypeOK, ExpiryInv, EndPass PROVE ExpiryInv'
<1>1. /\ pc = "targets" /\ pc' = "idle" /\ todo = {} /\ todo' = {} /\ ~errs'
      /\ dSigner' = NoObj /\ dTargets' = NoTargets
      /\ (~rotateQueued' => ~rotateQueued /\ ~errs)
      /\ UNCHANGED <<now, signer, bundle, targets, requiredAt, cSigner, cTargets, cBundle,
                     secretDeleted, bundleDeleted, checkQueued, checkAt>>
  BY DEF EndPass, Release, retry, cluster, caches, deleted
<1>2. ~rotateQueued' => AllFine
  BY <1>1 DEF ExpiryInv, WrittenFine, AllFine
<1>3. NeverExpired' /\ NearCache' /\ FullValidity' /\ Timers' /\ BuiltFine' /\ WrittenFine'
        /\ DeletionsSeen'
  BY <1>1
     DEF ExpiryInv, NeverExpired, NearCache, FullValidity, FullSigner, FullTarget, NoTargets,
         FineSigner, FineTarget, Timers, BuiltFine, WrittenFine, DeletionsSeen
<1>4. Present'
  BY <1>1 DEF ExpiryInv, Present
<1>5. Settled'
  BY <1>1, <1>2 DEF Settled, AllFine, FineSigner, FineTarget
<1>6. Scheduled'
  <2>1. checkAt \in Nat /\ checkAt <= now + CheckExpiryAfter
    BY DEF TypeOK, ExpiryInv, Timers
  <2> QED
    BY <1>1, <1>2, <2>1, FineScheduled DEF Scheduled
<1> QED
  BY <1>3, <1>4, <1>5, <1>6 DEF ExpiryInv

\* A check that asks for no pass finds everything fine, or a pass is queued
\* or under way.
LEMMA CheckFine ==
  ASSUME RotationMargins, TypeOK, ExpiryInv, pc = "idle", ~rotateQueued,
         (~SigningCAExpired /\ ~CertificatesExpired) \/ requiredAt = now
  PROVE  AllFine
<1>1. CASE CacheMissing \/ requiredAt = now
  BY <1>1 DEF ExpiryInv, Settled
<1>2. CASE ~CacheMissing /\ ~SigningCAExpired /\ ~CertificatesExpired
  <2>1. cSigner # NoObj /\ ~SignerNeedsNew(cSigner)
    BY <1>2 DEF CacheMissing, SigningCAExpired
  <2>2. FineSigner(cSigner)
    BY <2>1, KeptSignerFine DEF TypeOK, ExpiryInv, FullValidity
  <2>3. signer # NoObj => FineSigner(signer)
    BY <2>2 DEF ExpiryInv, NearCache, FineSigner
  <2>4. ASSUME NEW t \in Targets, targets[t] # NoObj PROVE FineTarget(targets[t])
    <3>1. cTargets[t] # NoObj /\ ~TargetNeedsNew(cTargets[t], cSigner.ca, cBundle)
      BY <1>2 DEF CacheMissing, CertificatesExpired
    <3>2. cTargets[t] \in TargetSecrets /\ FullTarget(cTargets[t])
      BY <3>1 DEF TypeOK, ExpiryInv, FullValidity
    <3>3. FineTarget(cTargets[t])
      BY <3>1, <3>2, KeptTargetFine
    <3> QED
      BY <2>4, <3>3 DEF ExpiryInv, NearCache, FineTarget
  <2> QED
    BY <2>3, <2>4 DEF AllFine
<1> QED
  BY <1>1, <1>2

LEMMA CheckExpiry ==
  ASSUME RotationMargins, TypeOK, ExpiryInv, CheckCertExpiry PROVE ExpiryInv'
<1>1. UNCHANGED <<now, signer, bundle, targets, cSigner, cTargets, cBundle,
                  secretDeleted, bundleDeleted, pc, dSigner, dBundle, dTargets, todo, errs>>
  BY DEF CheckCertExpiry, cluster, caches, deleted, worker
<1>2. NeverExpired' /\ NearCache' /\ FullValidity' /\ BuiltFine' /\ WrittenFine'
        /\ DeletionsSeen'
  BY <1>1
     DEF ExpiryInv, NeverExpired, NearCache, FullValidity, FullSigner, FullTarget,
         FineSigner, FineTarget, BuiltFine, WrittenFine, DeletionsSeen
<1>3. AllFine' <=> AllFine
  BY <1>1 DEF AllFine, FineSigner, FineTarget
<1>4. CASE UNCHANGED <<requiredAt, checkAt, rotateQueued>> /\ checkQueued' = TRUE
  <2>1. Present' /\ Scheduled' /\ Timers'
    BY <1>1, <1>4 DEF ExpiryInv, Present, Scheduled, Timers
  <2>2. Settled'
    BY <1>1, <1>3, <1>4 DEF ExpiryInv, Settled, CacheMissing
  <2> QED
    BY <1>2, <2>1, <2>2 DEF ExpiryInv
<1>5. ASSUME NEW expired \in BOOLEAN, NEW event \in BOOLEAN,
             expired = (SigningCAExpired \/ CertificatesExpired),
             event = (expired /\ (requiredAt # now \/ Horizon)),
             requiredAt' = IF expired THEN now ELSE requiredAt,
             checkAt' = nextCheck, checkQueued' = event,
             rotateQueued' = (rotateQueued \/ event)
      PROVE  ExpiryInv'
  <2>1. now \in Nat /\ nextCheck \in Nat /\ nextCheck <= now + CheckExpiryAfter
    BY TimesFacts, DurationsAssumption DEF TypeOK, nextCheck
  <2>2. Timers'
    BY <1>1, <1>5, <2>1 DEF ExpiryInv, Timers
  <2>3. rotateQueued => rotateQueued'
    BY <1>5, Zenon
  <2>4. Present'
    BY <1>1, <2>3 DEF ExpiryInv, Present
  <2>5. ~rotateQueued' /\ pc = "idle" => AllFine
    <3>1. ~rotateQueued' => ~rotateQueued /\ ~event
      BY <1>5, Zenon
    <3>2. ~event => ~expired \/ requiredAt = now
      BY <1>5, Zenon
    <3> QED
      BY <1>5, <3>1, <3>2, CheckFine
  <2>6. Settled'
    BY <1>1, <1>3, <2>5 DEF Settled
  <2>7. Scheduled'
    BY <1>1, <1>5, <2>1, <2>5, FineScheduled DEF Scheduled
  <2> QED
    BY <1>2, <2>2, <2>4, <2>6, <2>7 DEF ExpiryInv
<1>6. QED
  <2> DEFINE expired == SigningCAExpired \/ CertificatesExpired
             event   == expired /\ (requiredAt # now \/ Horizon)
  <2>1. \/ /\ requiredAt' = (IF expired THEN now ELSE requiredAt)
           /\ checkAt' = nextCheck /\ checkQueued' = event
           /\ rotateQueued' = (rotateQueued \/ event)
        \/ UNCHANGED <<requiredAt, checkAt, rotateQueued>> /\ checkQueued' = TRUE
    BY DEF CheckCertExpiry
  <2>2. expired \in BOOLEAN /\ event \in BOOLEAN
    BY Zenon
  <2> QED
    BY <1>4, <1>5, <2>1, <2>2

LEMMA SyncExpiry ==
  ASSUME RotationMargins, TypeOK, ExpiryInv, SyncSecrets \/ SyncBundle PROVE ExpiryInv'
<1>1. UNCHANGED <<now, signer, bundle, targets, requiredAt, checkAt, pc, dSigner, dBundle,
                  dTargets, todo, errs>>
  BY DEF SyncSecrets, SyncBundle, cluster, worker
<1>2. NeverExpired' /\ BuiltFine' /\ WrittenFine' /\ Timers'
  BY <1>1 DEF ExpiryInv, NeverExpired, FineSigner, FineTarget, BuiltFine, WrittenFine, Timers
<1>3. AllFine' <=> AllFine
  BY <1>1 DEF AllFine, FineSigner, FineTarget
<1>4. CASE SyncSecrets
  <2>1. /\ cSigner' = signer /\ cTargets' = targets /\ checkQueued' = TRUE
        /\ ~secretDeleted' /\ UNCHANGED <<cBundle, bundleDeleted>>
    BY <1>4 DEF SyncSecrets
  <2>2. ~rotateQueued' => ~rotateQueued /\ ~secretDeleted
    BY <1>4, Zenon DEF SyncSecrets
  <2>3. NearCache' /\ FullValidity' /\ DeletionsSeen'
    BY <1>1, <2>1
       DEF ExpiryInv, NearCache, FullValidity, FullSigner, FullTarget, FineSigner,
           FineTarget, DeletionsSeen
  <2>4. Present' /\ Scheduled'
    BY <1>1, <2>1, <2>2 DEF ExpiryInv, Present, Scheduled
  <2>5. Settled'
    <3> SUFFICES ASSUME ~rotateQueued', pc = "idle", requiredAt = now \/ CacheMissing'
                 PROVE  AllFine
      BY <1>1, <1>3 DEF Settled
    <3>1. signer # NoObj /\ \A t \in Targets : targets[t] # NoObj
      BY <2>2 DEF ExpiryInv, Present, BuiltFine
    <3>2. requiredAt = now \/ CacheMissing
      BY <2>1, <3>1 DEF CacheMissing
    <3> QED
      BY <2>2, <3>2 DEF ExpiryInv, Settled
  <2> QED
    BY <1>2, <2>3, <2>4, <2>5 DEF ExpiryInv
<1>5. CASE SyncBundle
  <2>1. /\ cBundle' = bundle /\ ~bundleDeleted'
        /\ UNCHANGED <<cSigner, cTargets, secretDeleted, checkQueued>>
    BY <1>5 DEF SyncBundle
  <2>2. ~rotateQueued' => ~rotateQueued /\ ~bundleDeleted
    BY <1>5, Zenon DEF SyncBundle
  <2>3. NearCache' /\ FullValidity' /\ DeletionsSeen'
    BY <1>1, <2>1
       DEF ExpiryInv, NearCache, FullValidity, FullSigner, FullTarget, FineSigner,
           FineTarget, DeletionsSeen
  <2>4. Present' /\ Scheduled'
    BY <1>1, <2>1, <2>2 DEF ExpiryInv, Present, Scheduled
  <2>5. Settled'
    <3> SUFFICES ASSUME ~rotateQueued', pc = "idle", requiredAt = now \/ CacheMissing'
                 PROVE  AllFine
      BY <1>1, <1>3 DEF Settled
    <3>1. bundle # NoObj
      BY <2>2 DEF ExpiryInv, Present, BuiltFine
    <3>2. requiredAt = now \/ CacheMissing
      BY <2>1, <3>1 DEF CacheMissing
    <3> QED
      BY <2>2, <3>2 DEF ExpiryInv, Settled
  <2> QED
    BY <1>2, <2>3, <2>4, <2>5 DEF ExpiryInv
<1> QED
  BY <1>4, <1>5

LEMMA ChangeExpiry ==
  ASSUME RotationMargins, TypeOK, ExpiryInv, DeleteSecret \/ DeleteBundle \/ ExternalEdit
  PROVE  ExpiryInv'
<1>1. UNCHANGED <<now, requiredAt, cSigner, cTargets, cBundle, rotateQueued, checkQueued,
                  checkAt, pc, dSigner, dBundle, dTargets, todo, errs>>
  BY DEF DeleteSecret, DeleteBundle, ExternalEdit, caches, queues, worker
<1>2. /\ signer' # NoObj => signer # NoObj /\ signer'.ca = signer.ca
      /\ \A u \in Targets : targets'[u] # NoObj =>
           /\ targets[u] # NoObj /\ targets'[u].issuer = targets[u].issuer
           /\ targets'[u].notBefore = targets[u].notBefore
           /\ targets'[u].notAfter = targets[u].notAfter
  BY ChangeFacts DEF DeleteBundle
<1>3. /\ (secretDeleted => secretDeleted') /\ (bundleDeleted => bundleDeleted')
      /\ signer # NoObj /\ signer' = NoObj => secretDeleted'
      /\ \A u \in Targets : targets[u] # NoObj /\ targets'[u] = NoObj => secretDeleted'
      /\ bundle # NoObj /\ bundle' = NoObj => bundleDeleted'
  <2>1. CASE DeleteSecret
    BY <2>1 DEF DeleteSecret
  <2>2. CASE DeleteBundle
    BY <2>2 DEF DeleteBundle
  <2>3. CASE ExternalEdit
    <3>1. signer # NoObj => signer' # NoObj
      BY <2>3, CertAbsenceAssumption DEF ExternalEdit, TypeOK, SignerSecrets
    <3>2. \A u \in Targets : targets[u] # NoObj => targets'[u] # NoObj
      <4>1. CASE UNCHANGED targets
        BY <4>1
      <4>2. ASSUME NEW t \in Targets, targets[t] # NoObj,
                   targets' = [targets EXCEPT ![t] = [@ EXCEPT !.intact = FALSE]]
            PROVE  \A u \in Targets : targets[u] # NoObj => targets'[u] # NoObj
        <5>1. [targets[t] EXCEPT !.intact = FALSE] \in TargetSecrets
          BY <4>2 DEF TypeOK, TargetSecrets
        <5> QED
          BY <4>2, <5>1, CertAbsenceAssumption DEF TypeOK
      <4> QED
        BY <2>3, <4>1, <4>2 DEF ExternalEdit
    <3> QED
      BY <2>3, <3>1, <3>2 DEF ExternalEdit, deleted
  <2> QED
    BY <2>1, <2>2, <2>3
<1>4. NeverExpired' /\ BuiltFine' /\ WrittenFine' /\ Timers' /\ NearCache' /\ FullValidity'
  BY <1>1, <1>2
     DEF ExpiryInv, NeverExpired, FineSigner, FineTarget, BuiltFine, WrittenFine, Timers,
         NearCache, FullValidity, FullSigner, FullTarget
<1>5. DeletionsSeen'
  BY <1>1, <1>3 DEF ExpiryInv, DeletionsSeen
<1>6. Present'
  BY <1>1, <1>3 DEF ExpiryInv, Present
<1>7. Settled' /\ Scheduled'
  <2>1. AllFine => AllFine'
    BY <1>1, <1>2 DEF AllFine, FineSigner, FineTarget
  <2> QED
    BY <1>1, <1>2, <2>1 DEF ExpiryInv, Settled, Scheduled, CacheMissing
<1> QED
  BY <1>4, <1>5, <1>6, <1>7 DEF ExpiryInv

\* Time passes only between passes, before the next check.
LEMMA TickExpiry ==
  ASSUME RotationMargins, TypeOK, ExpiryInv, Tick, Prompt PROVE ExpiryInv'
<1>1. /\ now \in Nat /\ now' = now + 1
      /\ UNCHANGED <<signer, bundle, targets, requiredAt, cSigner, cTargets, cBundle,
                     secretDeleted, bundleDeleted, rotateQueued, checkQueued, checkAt,
                     pc, dSigner, dBundle, dTargets, todo, errs>>
  BY TimesFacts DEF Tick, TypeOK, cluster, caches, deleted, queues, worker
<1>2. /\ pc = "idle" /\ ~rotateQueued /\ ~checkQueued /\ now < checkAt
      /\ cSigner = signer /\ cTargets = targets /\ cBundle = bundle
      /\ ~secretDeleted /\ ~bundleDeleted
  <2>1. Idle
    BY <1>1 DEF Prompt
  <2>2. <<cSigner, cTargets, cBundle, <<secretDeleted, bundleDeleted>>>>
          = <<signer, targets, bundle, <<FALSE, FALSE>>>>
    BY <2>1 DEF Idle, CachesFresh, deleted
  <2>3. <<secretDeleted, bundleDeleted>> = <<FALSE, FALSE>>
    BY <2>2
  <2> QED
    BY <2>1, <2>2, <2>3 DEF Idle
<1>3. now + 1 <= checkAt /\ checkAt \in Nat
  BY <1>1, <1>2 DEF TypeOK
<1>4. NeverExpired'
  <2>1. ASSUME signer # NoObj PROVE now' <= signer.ca.notAfter
    <3>1. checkAt <= signer.ca.notAfter /\ signer.ca.notAfter \in Nat
      BY <1>2, <2>1, SecretTimes DEF TypeOK, ExpiryInv, Scheduled
    <3> QED
      BY <1>1, <1>3, <3>1
  <2>2. ASSUME NEW t \in Targets, targets[t] # NoObj PROVE now' <= targets[t].notAfter
    <3>1. checkAt <= targets[t].notAfter /\ targets[t].notAfter \in Nat
      BY <1>2, <2>2, SecretTimes DEF TypeOK, ExpiryInv, Scheduled
    <3> QED
      BY <1>1, <1>3, <3>1
  <2> QED
    BY <1>1, <2>1, <2>2 DEF NeverExpired
<1>5. FullValidity' /\ BuiltFine' /\ WrittenFine' /\ NearCache' /\ DeletionsSeen' /\ Scheduled'
  BY <1>1, <1>2
     DEF ExpiryInv, FullValidity, FullSigner, FullTarget, BuiltFine, WrittenFine, NearCache,
         DeletionsSeen, Scheduled
<1>6. Present'
  BY <1>1 DEF ExpiryInv, Present
<1>7. Timers'
  <2>1. requiredAt # NoObj => requiredAt \in Nat
    BY TimesFacts DEF TypeOK
  <2> QED
    BY <1>1, <1>3, <2>1, MarginFacts DEF ExpiryInv, Timers
<1>8. Settled'
  <2>1. ~CacheMissing'
    <3>1. signer # NoObj /\ bundle # NoObj /\ \A t \in Targets : targets[t] # NoObj
      BY <1>2 DEF ExpiryInv, Present, BuiltFine
    <3> QED
      BY <1>1, <1>2, <3>1 DEF CacheMissing
  <2>2. requiredAt # now'
    <3>1. now' \in Times
      BY CertBoundsAssumption, <1>1 DEF Tick, TypeOK, Times
    <3>2. requiredAt # NoObj => requiredAt \in Nat /\ requiredAt <= now
      BY TimesFacts DEF TypeOK, ExpiryInv, Timers
    <3> QED
      BY <1>1, <3>1, <3>2, CertAbsenceAssumption
  <2> QED
    BY <1>1, <2>1, <2>2 DEF Settled
<1> QED
  BY <1>4, <1>5, <1>6, <1>7, <1>8 DEF ExpiryInv

LEMMA RestartExpiry ==
  ASSUME RotationMargins, TypeOK, ExpiryInv, Restart PROVE ExpiryInv'
<1>1. /\ pc' = "idle" /\ dSigner' = NoObj /\ dTargets' = NoTargets /\ todo' = {} /\ ~errs'
      /\ cSigner' = signer /\ cTargets' = targets /\ cBundle' = bundle
      /\ rotateQueued' = TRUE /\ checkQueued' = TRUE /\ checkAt' = now
      /\ UNCHANGED <<now, signer, bundle, targets, requiredAt>>
  BY DEF Restart, Release, cluster
<1>2. NeverExpired' /\ NearCache' /\ FullValidity' /\ DeletionsSeen' /\ BuiltFine'
  BY <1>1
     DEF ExpiryInv, NeverExpired, NearCache, FullValidity, FullSigner, FullTarget, NoTargets,
         FineSigner, FineTarget, BuiltFine, DeletionsSeen
<1>3. WrittenFine' /\ Present' /\ Settled' /\ Scheduled'
  BY <1>1 DEF WrittenFine, Present, Settled, Scheduled
<1>4. Timers'
  BY <1>1, TimesFacts, MarginFacts DEF ExpiryInv, Timers, TypeOK
<1> QED
  BY <1>2, <1>3, <1>4 DEF ExpiryInv

LEMMA ExpiryStep ==
  ASSUME RotationMargins, TypeOK, ExpiryInv, [Next /\ ReadsFresh /\ Prompt]_vars
  PROVE  ExpiryInv'
<1>1. CASE UNCHANGED vars
  BY <1>1 DEF vars, cluster, caches, deleted, queues, worker, bounds, ExpiryInv, NeverExpired,
              FullValidity, FullSigner, FullTarget, BuiltFine, WrittenFine, NearCache,
              FineSigner, FineTarget, DeletionsSeen, Present, Settled, CacheMissing, AllFine,
              Scheduled, Timers
<1>2. CASE Next /\ Prompt
  BY <1>2, BuildExpiry, SignerExpiry, BundleExpiry, TargetExpiry, EndExpiry, CheckExpiry,
     SyncExpiry, ChangeExpiry, TickExpiry, RestartExpiry DEF Next, Pass
<1> QED
  BY <1>1, <1>2

\* With margins like the defaults', an operator that is done with its work
\* before time advances lets no CA and no certificate expire, whatever is
\* deleted or edited, whichever requests fail, and across restarts.
THEOREM QuickNeverExpires ==
  ASSUME RotationMargins PROVE PromptSpec => []NeverExpired
<1> DEFINE Inv == TypeOK /\ ExpiryInv
<1>1. Init => Inv
  BY InitType, TimesFacts, MarginFacts
     DEF Init, NoTargets, ExpiryInv, NeverExpired, FullValidity, FullSigner, FullTarget,
         BuiltFine, WrittenFine, NearCache, DeletionsSeen, Present, Settled, Scheduled, Timers
<1>2. Inv /\ [Next /\ ReadsFresh /\ Prompt]_vars => Inv'
  BY TypeStep, ExpiryStep
<1>3. Inv => NeverExpired
  BY DEF ExpiryInv
<1> QED
  BY <1>1, <1>2, <1>3, PTL DEF PromptSpec
============================================================================
