----------------------- MODULE TempoMonolithic_proofs -----------------------
(***************************************************************************)
(* Proofs about TempoMonolithic: its type invariant, that every step is    *)
(* one of StackLifecycle or hidden from it, and that an operator at rest   *)
(* leaves no pod with an expired certificate.                              *)
(***************************************************************************)
EXTENDS TempoMonolithic, TLAPS

\* A pass works on a CR that the finalizer holds; it finalizes one that is
\* being deleted.
HeldInv ==
  /\ pc # "idle" => cr # NoObj /\ cr.finalizer
  /\ cr # NoObj /\ cr.deleting => cr.finalizer
  /\ pc = "finalize" => cr.deleting

LEMMA MonolithicTimes ==
  /\ Times \subseteq Nat /\ 0 \in Times /\ Never \in Nat /\ 0 <= Never
  /\ \A x \in Times : x <= MaxTime /\ x + CheckExpiryAfter \in 0..Never /\ x \in -1..MaxTime
BY MonolithicBounds DEF Times, Never

LEMMA UpdatedCR ==
  ASSUME NEW c \in CRs
  PROVE  /\ [c EXCEPT !.finalizer = TRUE] \in CRs
         /\ [c EXCEPT !.deleting = TRUE] \in CRs
         /\ \A x \in Times : [c EXCEPT !.requiredAt = x] \in CRs
         /\ \A m \in Managements, o \in BOOLEAN :
              [c EXCEPT !.management = m, !.openshift = o] \in CRs
BY MonolithicTimes, MonolithicConstants DEF CRs

----------------------------------------------------------------------------
(* Type correctness.                                                       *)

TypeInv == TypeOK /\ HeldInv

LEMMA InitTypeInv == Init => TypeInv
<1> SUFFICES ASSUME Init PROVE TypeInv
  OBVIOUS
<1>1. -1 \in -1..MaxTime
  BY MonolithicBounds
<1>2. cr \in CRs /\ ~cr.deleting
  <2>1. Managements \ {"Unmanaged"} \subseteq {"", "Managed", "Unmanaged"}
    BY MonolithicConstants
  <2> QED
    BY <1>1, <2>1 DEF Init, CRs
<1>3. 0 \in 0..1 /\ 0 \in 0..MaxDisturbances /\ Never \in 0..Never
  BY MonolithicTimes, MonolithicBounds
<1> QED
  BY <1>2, <1>3, MonolithicTimes DEF Init, TypeInv, TypeOK, HeldInv

LEMMA DisturbType ==
  ASSUME TypeOK PROVE Disturb => disturbances' \in 0..MaxDisturbances
BY MonolithicBounds DEF TypeOK, Disturb

LEMMA FaultType ==
  ASSUME TypeOK, NEW step, Fault(step) PROVE disturbances' \in 0..MaxDisturbances
BY DisturbType DEF Fault

LEMMA ListingsType ==
  ASSUME TypeOK PROVE \A x \in Listings : x \subseteq ClusterScoped
BY DEF Listings, TypeOK

\* What a pass does to the cluster-scoped objects and to the StatefulSet.
LEMMA ReconciledType ==
  ASSUME TypeOK, reconcileManagedObjects
  PROVE  /\ roles' \subseteq ClusterScoped /\ disturbances' \in 0..MaxDisturbances
         /\ sts' \in {sts, hash} /\ err' \in {err, "other"}
         /\ err' # "other" => sts' = hash
<1>1. PICK listed \in Listings :
        LET pruned == listed \ WantedRoles
            all    == WantedRoles \cup {"statefulset"}
        IN  \/ /\ sts' = Template(hash) /\ roles' = (roles \cup WantedRoles) \ pruned
               /\ err' = (IF pruned \subseteq roles THEN err ELSE "other")
               /\ UNCHANGED disturbances
            \/ /\ Fault("objects") /\ err' = "other"
               /\ \E done \in (SUBSET all) \ {all} :
                    /\ roles' = roles \cup (done \cap ClusterScoped)
                    /\ sts' = IF "statefulset" \in done THEN Template(hash) ELSE sts
            \/ /\ Fault("prune") /\ err' = "other" /\ sts' = Template(hash)
               /\ \E kept \in (SUBSET pruned) \ {{}} :
                    roles' = (roles \cup WantedRoles) \ (pruned \ kept)
  BY DEF reconcileManagedObjects
<1>2. roles \subseteq ClusterScoped /\ WantedRoles \subseteq ClusterScoped
  BY DEF TypeOK, WantedRoles
<1>3. roles' \subseteq ClusterScoped
  BY <1>1, <1>2
<1>4. disturbances' \in 0..MaxDisturbances
  BY <1>1, FaultType DEF TypeOK
<1> QED
  BY <1>1, <1>3, <1>4 DEF Template

\* The steps of a pass that deletes or skips.
LEMMA DeletionType ==
  ASSUME TypeInv, Finalize \/ deleteObjects \/ RemoveFinalizer \/ Skip PROVE TypeInv'
<1> USE DEF TypeInv, TypeOK, HeldInv
<1>1. CASE Finalize
  <2>1. disturbances' \in 0..MaxDisturbances
    BY <1>1, FaultType DEF Finalize
  <2>2. CASE pc' = "finalize" /\ copy' = cr /\ queued' = FALSE
             /\ owned' \in IF Finalized(cr.management) THEN Listings ELSE {{}}
    <3>1. owned' \subseteq ClusterScoped
      BY <2>2, ListingsType
    <3>2. /\ pc = "idle" /\ cr \in CRs /\ cr # NoObj /\ cr.deleting
          /\ UNCHANGED <<now, cr, conditions, storage, lookups, seen, cert, roles, sts, pod, readyReplicas,
                         cSts, cReplicas, cPod, checkQueued, checkAt, hash, err>>
      BY <1>1 DEF Finalize, cluster, inputs, caches
    <3>3. /\ pc' \in {"idle", "finalize", "certs", "objects", "status"} /\ (pc' = "idle" <=> copy' = NoObj)
          /\ copy' \in CRs \cup {NoObj}
      BY <2>2, <3>2
    <3>4. queued' \in BOOLEAN
      BY <2>2, Zenon
    <3>5. TypeOK'
      BY <2>1, <3>1, <3>2, <3>3, <3>4, ZenonT(60)
    <3>6. HeldInv'
      BY <2>2, <3>2
    <3> QED
      BY <3>5, <3>6, Zenon
  <2>3. CASE UNCHANGED <<pc, copy, owned, queued>>
    BY <1>1, <2>1, <2>3 DEF Finalize, cluster, inputs, caches
  <2> QED
    BY <1>1, <2>2, <2>3 DEF Finalize
<1>2. CASE deleteObjects
  <2>1. PICK o \in owned :
          /\ owned' = owned \ {o}
          /\ \/ /\ roles' = roles \ {o} /\ err' = (IF o \in roles THEN err ELSE "other")
                /\ UNCHANGED disturbances
             \/ Fault("finalize") /\ err' = "other" /\ UNCHANGED roles
    BY <1>2 DEF deleteObjects
  <2>2. disturbances' \in 0..MaxDisturbances
    BY <2>1, FaultType
  <2>3. err' \in {"none", "config", "other"} /\ roles' \subseteq ClusterScoped /\ owned' \subseteq ClusterScoped
    BY <2>1
  <2> QED
    BY <1>2, <2>2, <2>3 DEF deleteObjects, inputs, caches, queues
<1>3. CASE RemoveFinalizer
  <2>1. disturbances' \in 0..MaxDisturbances
    BY <1>3, FaultType DEF RemoveFinalizer
  <2>2. cr' \in {cr, NoObj} /\ conditions' \in {conditions, {}} /\ queued' \in BOOLEAN
    BY <1>3 DEF RemoveFinalizer
  <2> QED
    BY <1>3, <2>1, <2>2 DEF RemoveFinalizer, Done, cluster, inputs, caches
<1>4. CASE Skip
  <2>1. cr # NoObj => [cr EXCEPT !.finalizer = TRUE] \in CRs
    BY UpdatedCR
  <2>2. cr' \in CRs \cup {NoObj} /\ (cr' # NoObj /\ cr'.deleting => cr'.finalizer)
    BY <1>4, <2>1 DEF Skip, CRs
  <2> QED
    BY <1>4, <2>2, ZenonT(60) DEF Skip, cluster, inputs, caches, worker
<1> QED
  BY <1>1, <1>2, <1>3, <1>4

\* The steps of a pass that creates.
LEMMA CreationType ==
  ASSUME TypeInv, \/ Reconcile \/ CreateOrRotateCertificates \/ createOrUpdate
                  \/ HandleTempoMonolithicStatus
  PROVE  TypeInv'
<1> USE DEF TypeInv, TypeOK, HeldInv
<1>3. CASE Reconcile
  <2>1. disturbances' \in 0..MaxDisturbances
    BY <1>3, FaultType DEF Reconcile
  <2>2. cr \in CRs /\ AddFinalizer(cr) \in CRs
    BY <1>3, UpdatedCR DEF Reconcile, AddFinalizer
  <2>3. cr' \in CRs /\ ~cr'.deleting /\ (pc' # "idle" => cr'.finalizer)
    BY <1>3, <2>2 DEF Reconcile, AddFinalizer, CRs
  <2>4. /\ pc = "idle" /\ copy = NoObj /\ queued' \in BOOLEAN
        /\ (pc' = "certs" /\ copy' = cr') \/ UNCHANGED <<pc, copy>>
        /\ UNCHANGED <<now, conditions, storage, lookups, seen, cert, roles, sts, pod, readyReplicas,
                       cSts, cReplicas, cPod, checkQueued, checkAt, owned, hash, err>>
    BY <1>3 DEF Reconcile, cluster, inputs, caches
  <2>5. cr' # NoObj
    BY <2>3, MonolithicAbsence
  <2>6. /\ pc' \in {"idle", "finalize", "certs", "objects", "status"} /\ (pc' = "idle" <=> copy' = NoObj)
        /\ copy' \in CRs \cup {NoObj} /\ pc' # "finalize"
    BY <2>3, <2>4, <2>5
  <2> QED
    BY <2>1, <2>3, <2>4, <2>5, <2>6
<1>4. CASE CreateOrRotateCertificates
  <2>1. disturbances' \in 0..MaxDisturbances
    BY <1>4, FaultType DEF CreateOrRotateCertificates
  <2>2. checkQueued' \in BOOLEAN
    BY <1>4, Zenon DEF CreateOrRotateCertificates
  <2> QED
    BY <1>4, <2>1, <2>2 DEF CreateOrRotateCertificates, inputs, caches
<1>5. CASE createOrUpdate
  <2>1. /\ roles' \subseteq ClusterScoped /\ disturbances' \in 0..MaxDisturbances
        /\ sts' \in Times \cup {NoObj} /\ err' \in {"none", "config", "other"}
    BY <1>5, ReconciledType DEF createOrUpdate
  <2> QED
    BY <1>5, <2>1 DEF createOrUpdate, caches, queues
<1>6. CASE HandleTempoMonolithicStatus
  <2>1. disturbances' \in 0..MaxDisturbances
    BY <1>6, FaultType DEF HandleTempoMonolithicStatus
  <2>2. queued' \in BOOLEAN
    BY <1>6, Zenon DEF HandleTempoMonolithicStatus
  <2>3. \A s, e : updateConditions(s, e) \subseteq Types
    BY DEF updateConditions, Types
  <2>4. conditions' \subseteq Types
    BY <1>6, <2>3 DEF HandleTempoMonolithicStatus
  <2> QED
    BY <1>6, <2>1, <2>2, <2>4 DEF HandleTempoMonolithicStatus, Done, cluster, inputs, caches
<1> QED
  BY <1>3, <1>4, <1>5, <1>6

\* The certificate controller, the cluster and the caches.
LEMMA ClusterType ==
  ASSUME TypeInv, CheckCertExpiry \/ World \/ Events PROVE TypeInv'
<1> USE DEF TypeInv, TypeOK, HeldInv
<1>1. CASE CheckCertExpiry
  <2>1. disturbances' \in 0..MaxDisturbances
    BY <1>1, FaultType DEF CheckCertExpiry
  <2>2. queued' \in BOOLEAN /\ checkQueued' \in BOOLEAN
    <3>1. checkQueued' \in BOOLEAN
      BY <1>1 DEF CheckCertExpiry
    <3>2. queued' = queued \/ queued' = (queued \/ createOrUpdateOnlyPred(cr, cr'))
      BY <1>1 DEF CheckCertExpiry
    <3> QED
      BY <3>1, <3>2, Zenon
  <2>3. checkAt' \in 0..Never
    BY <1>1, MonolithicTimes DEF CheckCertExpiry, nextCheck
  <2>4. cr # NoObj => [cr EXCEPT !.requiredAt = now] \in CRs
    BY UpdatedCR
  <2>5. cr' = cr \/ (cr # NoObj /\ cr' = [cr EXCEPT !.requiredAt = now])
    BY <1>1 DEF CheckCertExpiry, Checked
  <2>6. /\ cr' \in CRs \cup {NoObj} /\ (cr # NoObj <=> cr' # NoObj)
        /\ cr # NoObj => cr'.deleting = cr.deleting /\ cr'.finalizer = cr.finalizer
    BY <2>4, <2>5, MonolithicAbsence DEF CRs
  <2>7. UNCHANGED <<now, conditions, storage, lookups, seen, cert, roles, sts, pod, readyReplicas,
                    cSts, cReplicas, cPod, pc, copy, owned, hash, err>>
    BY <1>1 DEF CheckCertExpiry, cluster, inputs, caches, worker
  <2> QED
    BY <2>1, <2>2, <2>3, <2>6, <2>7
<1>2. CASE World
  <2>1. pod' \in Pods \cup {NoObj}
    BY <1>2 DEF World, RollPod, PodProgress, CountReplicas, Collect, Pods
  <2>2. readyReplicas' \in 0..1
    BY <1>2 DEF World, RollPod, PodProgress, CountReplicas, Collect, Replicas
  <2>3. /\ cert' \in {cert, NoObj} /\ sts' \in {sts, NoObj}
        /\ UNCHANGED <<now, cr, conditions, storage, lookups, seen, roles, cSts, cReplicas, cPod, queued,
                       checkAt, pc, copy, owned, hash, err, disturbances>>
    BY <1>2 DEF World, RollPod, PodProgress, CountReplicas, Collect, inputs, caches, queues, worker
  <2>4. checkQueued' \in BOOLEAN
    BY <1>2, Zenon DEF World, RollPod, PodProgress, CountReplicas, Collect, queues
  <2> QED
    BY <2>1, <2>2, <2>3, <2>4
<1>3. CASE Events
  <2>1. queued' \in BOOLEAN
    BY <1>3, Zenon DEF Events, SyncStatefulSet, SyncPod, queues
  <2> QED
    BY <1>3, <2>1 DEF Events, SyncStatefulSet, SyncPod, cluster, inputs, queues, worker
<1> QED
  BY <1>1, <1>2, <1>3

\* Users, failures, restarts and time.
LEMMA WorldType ==
  ASSUME TypeInv, \/ Edit \/ EditStorageSecret \/ ChangeUnwatched \/ DeleteCR \/ PodFails
                  \/ Restart \/ Tick
  PROVE  TypeInv'
<1> USE DEF TypeInv, TypeOK, HeldInv
<1>1. Disturb => disturbances' \in 0..MaxDisturbances
  BY DisturbType
<1>2. CASE Edit
  <2>1. PICK m \in Managements, o \in BOOLEAN :
          cr \in CRs /\ cr' = [cr EXCEPT !.management = m, !.openshift = o]
    BY <1>2 DEF Edit
  <2>2. cr' \in CRs /\ cr'.deleting = cr.deleting /\ cr'.finalizer = cr.finalizer
    BY <2>1, UpdatedCR DEF CRs
  <2>3. queued' \in BOOLEAN
    BY <1>2, Zenon DEF Edit
  <2>4. /\ checkQueued' = TRUE /\ Disturb
        /\ UNCHANGED <<now, conditions, storage, lookups, seen, cert, roles, sts, pod, readyReplicas,
                       cSts, cReplicas, cPod, checkAt, pc, copy, owned, hash, err>>
    BY <1>2 DEF Edit, cluster, inputs, caches, worker
  <2> QED
    BY <1>1, <2>1, <2>2, <2>3, <2>4, MonolithicAbsence
<1>3. CASE EditStorageSecret
  <2>1. storage' \in BOOLEAN
    BY <1>3, Zenon DEF EditStorageSecret
  <2> QED
    BY <1>1, <1>3, <2>1 DEF EditStorageSecret, caches, worker
<1>8. CASE ChangeUnwatched
  <2>1. lookups' \in BOOLEAN
    BY <1>8, Zenon DEF ChangeUnwatched
  <2> QED
    BY <1>1, <1>8, <2>1 DEF ChangeUnwatched, caches, queues, worker
<1>4. CASE DeleteCR
  <2>1. queued' \in BOOLEAN
    BY <1>4, Zenon DEF DeleteCR
  <2>2. /\ checkQueued' = TRUE /\ Disturb /\ cr \in CRs
        /\ UNCHANGED <<now, storage, lookups, seen, cert, roles, sts, pod, readyReplicas, cSts, cReplicas,
                       cPod, checkAt, pc, copy, owned, hash, err>>
    BY <1>4 DEF DeleteCR, cluster, inputs, caches, worker
  <2>3. CASE cr.finalizer
    <3>1. cr' = [cr EXCEPT !.deleting = TRUE] /\ UNCHANGED conditions
      BY <1>4, <2>3 DEF DeleteCR
    <3>2. cr' \in CRs /\ cr'.finalizer /\ cr'.deleting
      BY <2>2, <2>3, <3>1, UpdatedCR DEF CRs
    <3> QED
      BY <1>1, <2>1, <2>2, <3>1, <3>2, MonolithicAbsence, ZenonT(60)
  <2>4. CASE ~cr.finalizer
    BY <1>1, <1>4, <2>1, <2>2, <2>4 DEF DeleteCR
  <2> QED
    BY <2>3, <2>4
<1>5. CASE PodFails
  <2>1. pod' \in Pods
    BY <1>5 DEF PodFails, Pods
  <2> QED
    BY <1>1, <1>5, <2>1 DEF PodFails, inputs, caches, queues, worker
<1>6. CASE Restart
  <2>1. Never \in 0..Never
    BY MonolithicTimes
  <2> QED
    BY <1>1, <1>6, <2>1 DEF Restart, Done, cluster, inputs
<1>7. CASE Tick
  <2>1. now' \in Times
    BY <1>7, MonolithicBounds DEF Tick, Times
  <2> QED
    BY <1>7, <2>1 DEF Tick, cluster, inputs, caches, queues, worker
<1> QED
  BY <1>2, <1>3, <1>4, <1>5, <1>6, <1>7, <1>8

LEMMA TypeInvStep ==
  ASSUME TypeInv, [Next]_vars PROVE TypeInv'
<1>1. CASE UNCHANGED vars
  BY <1>1 DEF TypeInv, TypeOK, HeldInv, vars, cluster, inputs, caches, queues, worker
<1>2. CASE Next
  BY <1>2, DeletionType, CreationType, ClusterType, WorldType DEF Next, Pass
<1> QED
  BY <1>1, <1>2

\* Every variable of the TempoMonolithic controller keeps its type: in
\* particular a pass never goes on without the CR whose objects it writes.
THEOREM MonolithicTypeCorrect == Spec => []TypeOK
<1>1. Init => TypeInv
  BY InitTypeInv
<1>2. TypeInv /\ [Next]_vars => TypeInv'
  BY TypeInvStep
<1>3. TypeInv => TypeOK
  BY DEF TypeInv
<1> QED
  BY <1>1, <1>2, <1>3, PTL DEF Spec

----------------------------------------------------------------------------
(* The steps of the abstract lifecycle.                                    *)

existing == (IF cert = NoObj THEN {} ELSE {"certificate"})
              \cup (IF sts = NoObj THEN {} ELSE {"statefulset"})
              \cup roles
managed  == cr # NoObj /\ cr.management # "Unmanaged"

\* What StackLifecycle sees of a step that leaves phase, management and
\* objects alone.
LEMMA Hidden ==
  ASSUME UNCHANGED <<phase, managed, existing>> PROVE [L!Next]_(L!vars)
BY DEF L!vars, managed, existing

\* A CR that is updated in place, by what a lifecycle can tell.
LEMMA SamePhase ==
  ASSUME TypeInv, cr # NoObj, cr' # NoObj, cr'.finalizer = cr.finalizer,
         cr'.deleting = cr.deleting, cr'.management = cr.management,
         UNCHANGED <<cert, sts, roles>>
  PROVE  UNCHANGED <<phase, managed, existing>>
BY DEF phase, managed, existing

\* With fresh listings: what finalize has not deleted is still on its list,
\* unless a Delete failed and the pass will be repeated.
FinalizeCovers ==
  pc = "finalize" /\ err = "none" /\ Finalized(copy.management) => roles \subseteq owned

LEMMA CoversStep ==
  ASSUME TypeInv, FreshLists, FinalizeCovers, [Next]_vars PROVE FinalizeCovers'
<1>1. CASE Finalize
  <2>1. CASE copy' = cr /\ owned' \in IF Finalized(cr.management) THEN Listings ELSE {{}}
    BY <1>1, <2>1 DEF Finalize, FinalizeCovers, Finalized, Listings, cluster
  <2>2. CASE UNCHANGED <<pc, copy, owned>>
    BY <1>1, <2>2 DEF Finalize, FinalizeCovers
  <2> QED
    BY <1>1, <2>1, <2>2 DEF Finalize
<1>2. CASE deleteObjects
  <2>1. PICK o \in owned :
          /\ owned' = owned \ {o}
          /\ \/ roles' = roles \ {o} /\ err' = (IF o \in roles THEN err ELSE "other")
             \/ err' = "other" /\ UNCHANGED roles
    BY <1>2 DEF deleteObjects
  <2>2. UNCHANGED <<pc, copy>>
    BY <1>2 DEF deleteObjects
  <2> QED
    BY <2>1, <2>2 DEF FinalizeCovers, Finalized
<1>3. CASE \/ RemoveFinalizer \/ Skip \/ Reconcile \/ CreateOrRotateCertificates \/ createOrUpdate
           \/ HandleTempoMonolithicStatus \/ Restart
  <2>1. pc' # "finalize"
    BY <1>3 DEF RemoveFinalizer, Skip, Reconcile, CreateOrRotateCertificates, createOrUpdate,
       HandleTempoMonolithicStatus, Restart, Done, worker
  <2> QED
    BY <2>1 DEF FinalizeCovers
<1>4. CASE \/ CheckCertExpiry \/ World \/ Events \/ Edit \/ EditStorageSecret \/ ChangeUnwatched
           \/ DeleteCR \/ PodFails \/ Tick \/ UNCHANGED vars
  <2>1. UNCHANGED <<pc, copy, owned, err, roles>>
    BY <1>4 DEF CheckCertExpiry, World, RollPod, PodProgress, CountReplicas, Collect, Events,
       SyncStatefulSet, SyncPod, Edit, EditStorageSecret, ChangeUnwatched, DeleteCR, PodFails, Tick,
       vars, cluster, worker
  <2> QED
    BY <2>1 DEF FinalizeCovers, Finalized
<1> QED
  BY <1>1, <1>2, <1>3, <1>4 DEF Next, Pass

LEMMA PassLifecycle ==
  ASSUME TypeInv, FinalizeCovers, Pass PROVE [L!Next]_(L!vars)
<1> USE DEF TypeInv, TypeOK, HeldInv
<1>1. CASE Finalize
  <2>1. UNCHANGED <<phase, managed, existing>>
    BY <1>1 DEF Finalize, phase, managed, existing, cluster
  <2> QED
    BY <2>1, Hidden
<1>5. CASE deleteObjects
  <2>1. /\ roles' \subseteq roles /\ UNCHANGED <<cr, cert, sts>>
    BY <1>5 DEF deleteObjects
  <2>2. existing' \in SUBSET existing /\ UNCHANGED <<phase, managed>>
    BY <2>1 DEF existing, phase, managed
  <2>3. L!Lose
    BY <2>2 DEF L!Lose, managed, existing
  <2> QED
    BY <2>3 DEF L!Next
<1>6. CASE RemoveFinalizer
  <2>1. pc = "finalize" /\ owned = {} /\ UNCHANGED <<cert, sts, roles>>
    BY <1>6 DEF RemoveFinalizer, cluster
  <2>2. CASE UNCHANGED cr
    <3>1. UNCHANGED <<phase, managed, existing>>
      BY <2>1, <2>2 DEF phase, managed, existing
    <3> QED
      BY <3>1, Hidden
  <2>3. CASE err = "none" /\ copy = cr /\ cr' = NoObj
    <3>1. phase = "going" /\ phase' = "gone" /\ managed' = FALSE
      BY <2>1, <2>3 DEF phase, managed
    <3>2. managed => roles = {}
      BY <2>1, <2>3 DEF FinalizeCovers, Finalized, managed
    <3>3. existing' \in SUBSET existing
      BY <2>1 DEF existing
    <3>4. managed => existing' \cap ClusterScoped = {}
      BY <2>1, <3>2 DEF existing, ClusterScoped
    <3>5. L!Leave
      BY <3>1, <3>3, <3>4 DEF L!Leave, managed, existing
    <3> QED
      BY <3>5 DEF L!Next
  <2> QED
    BY <1>6, <2>2, <2>3 DEF RemoveFinalizer
<1>2. CASE Skip \/ Reconcile
  <2>1. UNCHANGED <<cert, sts, roles>>
    BY <1>2 DEF Skip, Reconcile, cluster
  <2>2. cr' = cr \/ (cr # NoObj /\ ~cr.deleting /\ cr' = [cr EXCEPT !.finalizer = TRUE])
    BY <1>2 DEF Skip, Reconcile, AddFinalizer
  <2>3. CASE cr' = cr
    <3>1. UNCHANGED <<phase, managed, existing>>
      BY <2>1, <2>3 DEF phase, managed, existing
    <3> QED
      BY <3>1, Hidden
  <2>4. CASE cr # NoObj /\ ~cr.deleting /\ cr' = [cr EXCEPT !.finalizer = TRUE]
    <3>1. cr \in CRs /\ cr' \in CRs
      BY <2>4, UpdatedCR
    <3>2. /\ cr' # NoObj /\ cr'.finalizer = TRUE /\ cr'.deleting = cr.deleting
          /\ cr'.management = cr.management
      BY <2>4, <3>1, MonolithicAbsence DEF CRs
    <3>3. UNCHANGED <<managed, existing>> /\ phase' = "held" /\ phase \in {"new", "held"}
      BY <2>1, <2>4, <3>2 DEF managed, existing, phase
    <3>4. CASE phase = "new"
      <4>1. L!Hold
        BY <3>3, <3>4 DEF L!Hold, managed, existing
      <4> QED
        BY <4>1 DEF L!Next
    <3>5. CASE phase = "held"
      BY <3>3, <3>5, Hidden
    <3> QED
      BY <3>3, <3>4, <3>5
  <2> QED
    BY <2>2, <2>3, <2>4
<1>3. CASE CreateOrRotateCertificates \/ createOrUpdate
  <2>1. pc # "idle" /\ UNCHANGED cr
    BY <1>3 DEF CreateOrRotateCertificates, createOrUpdate
  <2>2. phase \in {"held", "going"} /\ UNCHANGED <<phase, managed>>
    BY <2>1 DEF phase, managed
  <2>3. existing' \in SUBSET ({"certificate", "statefulset"} \cup ClusterScoped)
    <3>1. roles' \subseteq ClusterScoped
      BY <1>3, ReconciledType DEF CreateOrRotateCertificates, createOrUpdate
    <3> QED
      BY <3>1 DEF existing
  <2>4. L!Work
    BY <2>2, <2>3 DEF L!Work, managed, existing
  <2> QED
    BY <2>4 DEF L!Next
<1>4. CASE HandleTempoMonolithicStatus
  <2>1. UNCHANGED <<phase, managed, existing>>
    BY <1>4 DEF HandleTempoMonolithicStatus, phase, managed, existing, cluster
  <2> QED
    BY <2>1, Hidden
<1> QED
  BY <1>1, <1>2, <1>3, <1>4, <1>5, <1>6 DEF Pass

LEMMA UserLifecycle ==
  ASSUME TypeInv, Edit \/ DeleteCR \/ CheckCertExpiry PROVE [L!Next]_(L!vars)
<1> USE DEF TypeInv, TypeOK, HeldInv
<1>1. CASE Edit
  <2>1. PICK m \in Managements, o \in BOOLEAN :
          cr \in CRs /\ cr' = [cr EXCEPT !.management = m, !.openshift = o]
    BY <1>1 DEF Edit
  <2>2. /\ cr' \in CRs /\ cr' # NoObj /\ cr # NoObj
        /\ cr'.deleting = cr.deleting /\ cr'.finalizer = cr.finalizer
    <3>1. cr' \in CRs
      BY <2>1, UpdatedCR
    <3>2. cr'.deleting = cr.deleting /\ cr'.finalizer = cr.finalizer
      BY <2>1 DEF CRs
    <3> QED
      BY <2>1, <3>1, <3>2, MonolithicAbsence
  <2>3. UNCHANGED <<phase, existing>> /\ phase # "gone"
    BY <1>1, <2>2 DEF Edit, cluster, phase, existing
  <2>4. CASE managed' = managed
    BY <2>3, <2>4, Hidden
  <2>5. CASE managed' # managed
    <3>1. managed' = ~managed
      BY <2>5, Zenon DEF managed
    <3>2. L!Manage
      BY <2>3, <3>1 DEF L!Manage, managed, existing
    <3> QED
      BY <3>2 DEF L!Next
  <2> QED
    BY <2>4, <2>5
<1>2. CASE DeleteCR /\ cr.finalizer
  <2>1. /\ cr \in CRs /\ cr # NoObj /\ ~cr.deleting /\ cr' = [cr EXCEPT !.deleting = TRUE]
        /\ UNCHANGED <<cert, sts, roles>>
    BY <1>2 DEF DeleteCR, cluster
  <2>2. /\ cr' \in CRs /\ cr' # NoObj /\ cr'.deleting = TRUE
        /\ cr'.finalizer = cr.finalizer /\ cr'.management = cr.management
    <3>1. cr' \in CRs
      BY <2>1, UpdatedCR
    <3>2. /\ cr'.deleting = TRUE /\ cr'.finalizer = cr.finalizer
          /\ cr'.management = cr.management
      BY <2>1 DEF CRs
    <3> QED
      BY <2>1, <3>1, <3>2, MonolithicAbsence
  <2>3. phase = "held" /\ phase' = "going" /\ UNCHANGED <<managed, existing>>
    BY <1>2, <2>1, <2>2 DEF phase, managed, existing
  <2>4. L!Delete
    BY <2>3 DEF L!Delete, managed, existing
  <2> QED
    BY <2>4 DEF L!Next
<1>3. CASE DeleteCR /\ ~cr.finalizer
  <2>1. cr # NoObj /\ cr' = NoObj /\ UNCHANGED <<cert, sts, roles>>
    BY <1>3 DEF DeleteCR, cluster
  <2>2. phase = "new" /\ phase' = "gone" /\ managed' = FALSE
    BY <1>3, <2>1 DEF phase, managed
  <2>3. existing' \in SUBSET existing
    BY <2>1 DEF existing
  <2>4. L!Leave
    BY <2>2, <2>3 DEF L!Leave, managed, existing
  <2> QED
    BY <2>4 DEF L!Next
<1>4. CASE CheckCertExpiry
  <2>1. cr' = cr \/ (cr # NoObj /\ cr' = [cr EXCEPT !.requiredAt = now])
    BY <1>4 DEF CheckCertExpiry, Checked
  <2>2. UNCHANGED <<cert, sts, roles>>
    BY <1>4 DEF CheckCertExpiry, cluster
  <2>3. CASE cr' = cr
    <3>1. UNCHANGED <<phase, managed, existing>>
      BY <2>2, <2>3 DEF phase, managed, existing
    <3> QED
      BY <3>1, Hidden
  <2>4. CASE cr # NoObj /\ cr' = [cr EXCEPT !.requiredAt = now]
    <3>1. cr \in CRs /\ cr' \in CRs
      BY <2>4, UpdatedCR
    <3>2. /\ cr' # NoObj /\ cr'.finalizer = cr.finalizer
          /\ cr'.deleting = cr.deleting /\ cr'.management = cr.management
      BY <2>4, <3>1, MonolithicAbsence DEF CRs
    <3> QED
      BY <2>2, <2>4, <3>2, SamePhase, Hidden
  <2> QED
    BY <2>1, <2>3, <2>4
<1> QED
  BY <1>1, <1>2, <1>3, <1>4

LEMMA LifecycleStep ==
  ASSUME TypeInv, FinalizeCovers, [Next]_vars PROVE [L!Next]_(L!vars)
<1>1. CASE \/ RollPod \/ PodProgress \/ CountReplicas \/ Events \/ EditStorageSecret \/ ChangeUnwatched
           \/ PodFails \/ Restart \/ Tick \/ UNCHANGED vars
  <2>1. UNCHANGED <<cr, cert, sts, roles>>
    BY <1>1 DEF RollPod, PodProgress, CountReplicas, Events, SyncStatefulSet, SyncPod,
       EditStorageSecret, ChangeUnwatched, PodFails, Restart, Tick, vars, cluster
  <2>2. UNCHANGED <<phase, managed, existing>>
    BY <2>1 DEF phase, managed, existing
  <2> QED
    BY <2>2, Hidden
<1>2. CASE Collect
  <2>1. /\ UNCHANGED <<cr, roles>> /\ cert' \in {cert, NoObj} /\ sts' \in {sts, NoObj}
    BY <1>2 DEF Collect
  <2>2. existing' \in SUBSET existing /\ UNCHANGED <<phase, managed>>
    BY <2>1 DEF existing, phase, managed
  <2>3. L!Lose
    BY <2>2 DEF L!Lose, managed, existing
  <2> QED
    BY <2>3 DEF L!Next
<1> QED
  BY <1>1, <1>2, PassLifecycle, UserLifecycle DEF Next, World

\* Every step of a TempoMonolithic, with failures, restarts and edits between
\* any two requests of a finalization, is a step of StackLifecycle or hidden
\* from it, if the listings of finalize have caught up: nothing is created
\* before the finalizer is there or after the CR has left, and the
\* cluster-scoped objects of a managed CR go before it.
THEOREM MonolithicLifecycle ==
  ASSUME FreshLists
  PROVE  Spec => L!Steps
<1> DEFINE Inv == TypeInv /\ FinalizeCovers
<1>1. Init => Inv /\ L!Init
  <2> SUFFICES ASSUME Init PROVE L!Init
    BY InitTypeInv DEF Init, FinalizeCovers
  <2>1. cr \in CRs /\ ~cr.finalizer /\ cr.management # "Unmanaged"
    <3>1. -1 \in -1..MaxTime
      BY MonolithicBounds
    <3>2. Managements \ {"Unmanaged"} \subseteq {"", "Managed", "Unmanaged"}
      BY MonolithicConstants
    <3> QED
      BY <3>1, <3>2 DEF Init, CRs
  <2>2. cr # NoObj
    BY <2>1, MonolithicAbsence
  <2>3. phase = "new" /\ managed = TRUE /\ existing = {}
    BY <2>1, <2>2 DEF Init, phase, managed, existing
  <2> QED
    BY <2>3 DEF L!Init, managed, existing
<1>2. Inv /\ [Next]_vars => Inv'
  BY TypeInvStep, CoversStep
<1>3. Inv /\ [Next]_vars => [L!Next]_(L!vars)
  BY LifecycleStep
<1> HIDE DEF Inv
<1> QED
  BY <1>1, <1>2, <1>3, PTL DEF Spec, L!Steps

----------------------------------------------------------------------------
(* What keeps the certificate of the pods valid.                           *)

\* A check comes often enough to find a certificate that needs to be renewed
\* before it is over.
CheckMargin ==
  CheckExpiryAfter <= Validity \div 5 \/ Refresh + CheckExpiryAfter <= Validity

\* A pass will run, or is still to look at the certificate, or will be retried.
PassAhead == queued \/ pc = "certs" \/ (pc = "status" /\ err = "other")

\* A pass that meets no error carries the certificate that is stored into the
\* StatefulSet.
PassCarries ==
  /\ pc \in {"idle", "certs"} => err = "none"
  /\ pc = "objects" => err = "none" /\ cert # NoObj /\ hash = cert
  /\ pc = "status" /\ err = "none" => cert # NoObj /\ sts = cert

Stuck == "ConfigurationError" \in conditions

\* Between two passes the StatefulSet has the certificate that is stored, or
\* the conditions say why not.
Carried == pc = "idle" /\ ~queued /\ Checked /\ ~Stuck => cert # NoObj /\ sts = cert

\* The next check is near, ...
CheckNear ==
  /\ cr # NoObj => cr.requiredAt <= now
  /\ Checked /\ ~checkQueued => checkAt <= now + CheckExpiryAfter

\* ... a renewal asked for in this instant is ahead or done, ...
Answered == Checked /\ cert # NoObj /\ cr.requiredAt = now => PassAhead \/ ~NeedsNew(cert)

\* ... and the next check comes before the certificate is over.
InTime ==
  Checked /\ cert # NoObj /\ ~checkQueued => checkAt <= cert + Validity \/ PassAhead

\* While the CR is there, pods belong to a StatefulSet.
PodOwned == cr # NoObj /\ pod # NoObj => sts # NoObj

ServesInv == PassCarries /\ Carried /\ CheckNear /\ Answered /\ InTime /\ PodOwned

LEMMA MarginFacts ==
  ASSUME TypeOK, CheckMargin
  PROVE  /\ now \in Nat /\ checkAt \in Nat /\ CheckExpiryAfter \in Nat
         /\ ~NeedsNew(now)
         /\ \A x \in Times : ~NeedsNew(x) => now + CheckExpiryAfter <= x + Validity
<1>1. /\ now \in Nat /\ checkAt \in Nat /\ CheckExpiryAfter \in Nat /\ Refresh \in Nat
      /\ Validity \in Nat /\ Validity \div 5 \in Nat /\ Validity \div 5 <= Validity
  BY MonolithicTimes, MonolithicBounds DEF TypeOK
<1>2. ~NeedsNew(now)
  BY <1>1 DEF NeedsNew
<1>3. ASSUME NEW x \in Times, ~NeedsNew(x)
      PROVE  now + CheckExpiryAfter <= x + Validity
  <2>1. x \in Nat /\ now <= x + Refresh /\ now <= x + Validity - Validity \div 5
    BY <1>1, <1>3, MonolithicTimes DEF NeedsNew
  <2>2. CASE CheckExpiryAfter <= Validity \div 5
    BY <1>1, <2>1, <2>2
  <2>3. CASE Refresh + CheckExpiryAfter <= Validity
    BY <1>1, <2>1, <2>3
  <2> QED
    BY <2>2, <2>3 DEF CheckMargin
<1> QED
  BY <1>1, <1>2, <1>3

\* A step that does no more than queue a pass.
LEMMA QueuesServes ==
  ASSUME ServesInv, PodOwned', queued => queued',
         UNCHANGED <<now, cr, conditions, cert, sts, checkQueued, checkAt, pc, hash, err>>
  PROVE  ServesInv'
<1>1. PassAhead => PassAhead'
  BY DEF PassAhead
<1>2. (Checked' <=> Checked) /\ (cert # NoObj => (NeedsNew(cert)' <=> NeedsNew(cert)))
  BY DEF Checked, NeedsNew
<1>3. PassCarries' /\ Carried' /\ CheckNear'
  BY <1>2 DEF ServesInv, PassCarries, Carried, Stuck, CheckNear
<1>4. Answered' /\ InTime'
  BY <1>1, <1>2 DEF ServesInv, Answered, InTime
<1> QED
  BY <1>3, <1>4 DEF ServesInv

\* A step that queues a pass and a check.
LEMMA BothQueuedServes ==
  ASSUME ServesInv, queued', checkQueued', cr # NoObj, cr' # NoObj, cr'.requiredAt <= now,
         UNCHANGED <<now, cert, sts, pod, pc, hash, err>>
  PROVE  ServesInv'
<1>1. PassAhead'
  BY DEF PassAhead
<1>2. PassCarries' /\ Carried' /\ CheckNear' /\ PodOwned'
  BY DEF ServesInv, PassCarries, Carried, CheckNear, PodOwned
<1> QED
  BY <1>1, <1>2 DEF ServesInv, Answered, InTime

\* A CR whose certificate nobody looks at, or one that is gone.
LEMMA UncheckedServes ==
  ASSUME ~Checked', cr' # NoObj => cr'.requiredAt <= now', PodOwned', PassCarries'
  PROVE  ServesInv'
BY DEF ServesInv, Carried, CheckNear, Answered, InTime

LEMMA DeletionServes ==
  ASSUME TypeInv, ServesInv, Finalize \/ deleteObjects \/ RemoveFinalizer PROVE ServesInv'
<1>1. cr # NoObj /\ cr.deleting /\ cr' \in {cr, NoObj}
  BY DEF Finalize, deleteObjects, RemoveFinalizer, TypeInv, HeldInv
<1>2. UNCHANGED <<now, sts, pod, cert, hash>> \/ (UNCHANGED <<now, sts, pod, cert>> /\ pc' = "idle")
  BY DEF Finalize, deleteObjects, RemoveFinalizer, Done, cluster
<1>3. pc' = "finalize" \/ (pc' = "idle" /\ err' = "none")
  BY DEF Finalize, deleteObjects, RemoveFinalizer, Done, ServesInv, PassCarries
<1>4. ~Checked' /\ PodOwned' /\ PassCarries' /\ (cr' # NoObj => cr'.requiredAt <= now')
  BY <1>1, <1>2, <1>3 DEF Checked, ServesInv, PodOwned, PassCarries, CheckNear
<1> QED
  BY <1>4, UncheckedServes

LEMMA StartServes ==
  ASSUME TypeInv, ServesInv, Skip \/ Reconcile PROVE ServesInv'
<1> USE DEF TypeInv, TypeOK
<1>1. CASE UNCHANGED <<now, cr, conditions, cert, sts, pod, queued, checkQueued, checkAt, pc, hash, err>>
  BY <1>1, QueuesServes DEF ServesInv, PodOwned
<1>3. CASE Skip
  <2>1. pc' = "idle" /\ UNCHANGED <<now, sts, pod, pc, err>>
    BY <1>3 DEF Skip, cluster, worker
  <2>2. ~Checked' /\ PodOwned' /\ (cr' # NoObj => cr'.requiredAt <= now')
    <3>1. CASE cr' = NoObj
      BY <3>1 DEF Checked, PodOwned
    <3>2. CASE /\ cr # NoObj /\ ~cr.deleting /\ cr.management = "Unmanaged"
               /\ cr' = [cr EXCEPT !.finalizer = TRUE]
      <4>1. cr \in CRs /\ cr'.management = cr.management /\ cr'.requiredAt = cr.requiredAt
        BY <3>2 DEF CRs
      <4> QED
        BY <2>1, <3>2, <4>1 DEF Checked, ServesInv, CheckNear, PodOwned
    <3> QED
      BY <1>3, <3>1, <3>2 DEF Skip
  <2>3. PassCarries'
    BY <2>1 DEF ServesInv, PassCarries
  <2> QED
    BY <2>2, <2>3, UncheckedServes
<1>4. CASE Reconcile /\ pc' = "certs"
  <2>1. /\ err' = "none" /\ cr \in CRs /\ cr # NoObj /\ cr' = [cr EXCEPT !.finalizer = TRUE]
        /\ UNCHANGED <<now, sts, pod, cert, checkQueued, checkAt>>
    BY <1>4 DEF Reconcile, AddFinalizer, cluster, ServesInv, PassCarries
  <2>2. /\ cr'.management = cr.management /\ cr'.requiredAt = cr.requiredAt
        /\ cr'.deleting = cr.deleting
    BY <2>1 DEF CRs
  <2>3. (Checked' => Checked) /\ PodOwned'
    BY <2>1, <2>2 DEF Checked, ServesInv, PodOwned
  <2>4. PassAhead' /\ PassCarries' /\ Carried'
    BY <1>4, <2>1 DEF PassAhead, PassCarries, Carried
  <2>5. CheckNear'
    BY <2>1, <2>2, <2>3 DEF ServesInv, CheckNear
  <2> QED
    BY <2>3, <2>4, <2>5 DEF ServesInv, Answered, InTime
<1> QED
  BY <1>1, <1>3, <1>4 DEF Reconcile, cluster, caches, worker

LEMMA CertsServes ==
  ASSUME TypeInv, CheckMargin, ServesInv, CreateOrRotateCertificates PROVE ServesInv'
<1>1. pc = "certs" /\ err = "none" /\ UNCHANGED <<now, cr, conditions, sts, pod, queued, checkAt>>
  BY DEF CreateOrRotateCertificates, ServesInv, PassCarries
<1>2. (Checked' <=> Checked) /\ PodOwned'
  BY <1>1 DEF Checked, ServesInv, PodOwned
<1>3. CASE err' = "other" /\ pc' = "status" /\ UNCHANGED <<cert, hash, checkQueued>>
  <2>1. PassAhead' /\ PassCarries' /\ Carried'
    BY <1>3 DEF PassAhead, PassCarries, Carried
  <2> QED
    BY <1>1, <1>2, <1>3, <2>1 DEF ServesInv, CheckNear, Answered, InTime
<1>4. CASE /\ cert' = IF cert = NoObj THEN now ELSE IF NeedsNew(cert) THEN now ELSE cert
           /\ hash' = cert' /\ pc' = "objects"
           /\ checkQueued' = (checkQueued \/ cert' # cert)
           /\ UNCHANGED <<err, disturbances>>
  <2>1. now \in Times /\ cert \in Times \cup {NoObj}
    BY DEF TypeInv, TypeOK
  <2>2. cert' \in Times /\ cert' # NoObj
    BY <1>4, <2>1, MonolithicAbsence
  <2>3. ~NeedsNew(cert')
    BY <1>4, MarginFacts DEF TypeInv
  <2>4. ~checkQueued' => ~checkQueued /\ cert' = cert
    BY <1>4, Zenon
  <2>5. PassCarries' /\ Carried'
    BY <1>1, <1>4, <2>2 DEF PassCarries, Carried
  <2>6. CheckNear'
    BY <1>1, <1>2, <2>4 DEF ServesInv, CheckNear
  <2>7. Answered'
    BY <1>1, <2>3 DEF Answered, NeedsNew
  <2>8. InTime'
    <3> SUFFICES ASSUME Checked, ~checkQueued' PROVE checkAt <= cert' + Validity
      BY <1>1, <1>2 DEF InTime
    <3>1. checkAt <= now + CheckExpiryAfter
      BY <2>4 DEF ServesInv, CheckNear
    <3>2. now + CheckExpiryAfter <= cert' + Validity
      BY <2>2, <2>3, MarginFacts DEF TypeInv
    <3>3. checkAt \in Nat /\ now \in Nat /\ CheckExpiryAfter \in Nat
      BY MarginFacts DEF TypeInv
    <3>4. cert' + Validity \in Nat
      <4>1. \A x \in Times : x + Validity \in Nat
        BY MonolithicTimes, MonolithicBounds
      <4> QED
        BY <2>2, <4>1, Zenon
    <3>5. \A b \in Nat : now + CheckExpiryAfter <= b => checkAt <= b
      BY <3>1, <3>3
    <3> QED
      BY <3>2, <3>4, <3>5, Zenon
  <2> QED
    BY <1>2, <2>5, <2>6, <2>7, <2>8 DEF ServesInv
<1> QED
  BY <1>3, <1>4 DEF CreateOrRotateCertificates

LEMMA ObjectsServes ==
  ASSUME TypeInv, ServesInv, createOrUpdate PROVE ServesInv'
<1>1. /\ pc = "objects" /\ pc' = "status" /\ err = "none" /\ cert # NoObj /\ hash = cert
      /\ UNCHANGED <<now, cr, conditions, cert, pod, queued, checkQueued, checkAt>>
  BY DEF createOrUpdate, queues, ServesInv, PassCarries
<1>2. /\ err' \in {"none", "config", "other"} /\ (err' = "none" => sts' = cert)
      /\ sts' \in {sts, cert}
  BY <1>1, ReconciledType DEF createOrUpdate, TypeInv
<1>3. PassAhead => PassAhead'
  BY <1>1 DEF PassAhead
<1>4. (Checked' <=> Checked) /\ (NeedsNew(cert)' <=> NeedsNew(cert))
  BY <1>1 DEF Checked, NeedsNew
<1>5. PassCarries' /\ Carried' /\ CheckNear' /\ PodOwned'
  BY <1>1, <1>2, <1>4 DEF ServesInv, PassCarries, Carried, CheckNear, PodOwned
<1>6. Answered' /\ InTime'
  BY <1>1, <1>3, <1>4 DEF ServesInv, Answered, InTime
<1> QED
  BY <1>5, <1>6 DEF ServesInv

LEMMA StatusServes ==
  ASSUME TypeInv, ServesInv, HandleTempoMonolithicStatus PROVE ServesInv'
<1>1. /\ pc = "status" /\ pc' = "idle" /\ err' = "none"
      /\ UNCHANGED <<now, cr, cert, sts, pod, checkQueued, checkAt>>
  BY DEF HandleTempoMonolithicStatus, Done, cluster
<1>2. ~queued' => ~queued /\ err # "other"
  <2>1. queued' = (queued \/ Requeued) \/ queued' = TRUE
    BY DEF HandleTempoMonolithicStatus
  <2> QED
    BY <2>1, Zenon DEF Requeued
<1>3. PassAhead => PassAhead'
  BY <1>1, <1>2 DEF PassAhead
<1>4. (Checked' <=> Checked) /\ (cert # NoObj => (NeedsNew(cert)' <=> NeedsNew(cert)))
  BY <1>1 DEF Checked, NeedsNew
<1>5. PassCarries' /\ CheckNear' /\ PodOwned'
  BY <1>1, <1>4 DEF ServesInv, PassCarries, CheckNear, PodOwned
<1>6. Carried'
  <2>1. err \in {"none", "config", "other"}
    BY DEF TypeInv, TypeOK
  <2>2. \A x : "ConfigurationError" \in updateConditions(x, "config")
    BY DEF updateConditions
  <2>3. err = "config" /\ ~queued' => Stuck'
    BY <2>2 DEF HandleTempoMonolithicStatus, Stuck
  <2> QED
    BY <1>1, <1>2, <1>4, <2>1, <2>3 DEF ServesInv, PassCarries, Carried
<1>7. Answered' /\ InTime'
  BY <1>1, <1>3, <1>4 DEF ServesInv, Answered, InTime
<1> QED
  BY <1>5, <1>6, <1>7 DEF ServesInv

\* CertRotationMonolithicReconciler looks at every CR that is managed.
LEMMA CheckServes ==
  ASSUME TypeInv, CheckMargin, ServesInv, CheckCertExpiry
  PROVE  ServesInv'
<1>1. UNCHANGED <<now, conditions, cert, sts, pod, pc, hash, err>>
  BY DEF CheckCertExpiry, cluster, worker
<1>2. CASE ~Checked /\ UNCHANGED <<cr, queued>>
  <2>1. ~Checked' /\ PodOwned' /\ PassCarries' /\ (cr' # NoObj => cr'.requiredAt <= now')
    BY <1>1, <1>2 DEF Checked, ServesInv, PodOwned, PassCarries, CheckNear
  <2> QED
    BY <2>1, UncheckedServes
<1>3. CASE /\ Checked /\ cr.requiredAt # now /\ cr' = [cr EXCEPT !.requiredAt = now]
           /\ queued' = (queued \/ createOrUpdateOnlyPred(cr, cr')) /\ checkQueued' = TRUE
  <2>1. cr \in CRs /\ cr # NoObj
    BY <1>3 DEF Checked, TypeInv, TypeOK
  <2>2. cr' \in CRs /\ cr' # NoObj
    BY <1>3, <2>1, UpdatedCR, MonolithicAbsence DEF TypeInv, TypeOK
  <2>3. cr'.requiredAt = now /\ cr'.management = cr.management
    BY <1>3, <2>1 DEF CRs
  <2>4. createOrUpdateOnlyPred(cr, cr')
    BY <1>3, <2>3 DEF createOrUpdateOnlyPred
  <2>5. queued'
    BY <1>3, <2>4, Zenon
  <2>6. cr'.requiredAt <= now
    <3>1. now \in Nat
      BY MarginFacts DEF TypeInv
    <3> QED
      BY <2>3, <3>1
  <2> QED
    BY <1>1, <1>3, <2>1, <2>2, <2>3, <2>5, <2>6, BothQueuedServes
<1>4. CASE /\ checkAt' = nextCheck /\ UNCHANGED <<cr, queued>> /\ checkQueued' = FALSE
           /\ ~(cert # NoObj /\ NeedsNew(cert) /\ cr.requiredAt # now)
  <2>1. (Checked' <=> Checked) /\ (PassAhead' <=> PassAhead)
    BY <1>1, <1>4 DEF Checked, PassAhead
  <2>2. PassCarries' /\ Carried' /\ PodOwned'
    BY <1>1, <1>4, <2>1 DEF ServesInv, PassCarries, Carried, Stuck, PodOwned
  <2>3. CheckNear'
    <3>1. checkAt' <= now + CheckExpiryAfter
      <4>1. now \in Nat /\ CheckExpiryAfter \in Nat
        BY MarginFacts DEF TypeInv
      <4> QED
        BY <1>4, <4>1 DEF nextCheck
    <3> QED
      BY <1>1, <1>4, <3>1 DEF ServesInv, CheckNear
  <2>4. Answered'
    BY <1>1, <1>4, <2>1 DEF ServesInv, Answered, NeedsNew
  <2>5. InTime'
    <3> SUFFICES ASSUME Checked, cert # NoObj, ~PassAhead
                 PROVE  now + CheckExpiryAfter <= cert + Validity
      BY <1>1, <1>4, <2>1 DEF InTime, nextCheck
    <3>1. ~NeedsNew(cert)
      BY <1>4 DEF ServesInv, Answered
    <3> QED
      BY <3>1, MarginFacts DEF TypeInv, TypeOK
  <2> QED
    BY <2>2, <2>3, <2>4, <2>5 DEF ServesInv
<1>5. CASE checkQueued' = TRUE /\ UNCHANGED <<cr, queued, checkAt>>
  <2>1. (Checked' <=> Checked) /\ (PassAhead' <=> PassAhead)
    BY <1>1, <1>5 DEF Checked, PassAhead
  <2> QED
    BY <1>1, <1>5, <2>1
       DEF ServesInv, PassCarries, Carried, Stuck, PodOwned, CheckNear, Answered, NeedsNew, InTime
<1> QED
  BY <1>2, <1>3, <1>4, <1>5 DEF CheckCertExpiry

LEMMA UserServes ==
  ASSUME TypeInv, ServesInv, Edit \/ EditStorageSecret \/ ChangeUnwatched \/ DeleteCR PROVE ServesInv'
<1>1. CASE Edit
  <2>1. PICK m \in Managements, o \in BOOLEAN :
          /\ <<m, o>> # <<cr.management, cr.openshift>>
          /\ cr' = [cr EXCEPT !.management = m, !.openshift = o]
    BY <1>1 DEF Edit
  <2>2. cr \in CRs /\ cr # NoObj
    BY <1>1 DEF Edit, TypeInv, TypeOK
  <2>3. cr' \in CRs
    BY <2>1, <2>2, UpdatedCR
  <2>4. cr'.management = m /\ cr'.openshift = o /\ cr'.requiredAt = cr.requiredAt
    BY <2>1, <2>2 DEF CRs
  <2>5. createOrUpdateOnlyPred(cr, cr')
    BY <2>1, <2>4 DEF createOrUpdateOnlyPred
  <2>6. queued' /\ checkQueued'
    BY <1>1, <2>5, Zenon DEF Edit
  <2>7. cr.requiredAt <= now
    BY <2>2 DEF ServesInv, CheckNear
  <2>8. UNCHANGED <<now, cert, sts, pod, pc, hash, err>>
    BY <1>1 DEF Edit, cluster, worker
  <2> QED
    BY <2>2, <2>3, <2>4, <2>6, <2>7, <2>8, MonolithicAbsence, BothQueuedServes
<1>2. CASE EditStorageSecret \/ ChangeUnwatched
  <2>1. UNCHANGED <<now, cr, conditions, cert, sts, pod, checkQueued, checkAt, pc, hash, err>>
    BY <1>2 DEF EditStorageSecret, ChangeUnwatched, queues, worker
  <2>2. queued => queued'
    BY <1>2, Zenon DEF EditStorageSecret, ChangeUnwatched, queues
  <2>3. PodOwned'
    BY <2>1 DEF ServesInv, PodOwned
  <2> QED
    BY <2>1, <2>2, <2>3, QueuesServes
<1>3. CASE DeleteCR
  <2>1. /\ cr \in CRs /\ cr # NoObj /\ (cr' = [cr EXCEPT !.deleting = TRUE] \/ cr' = NoObj)
        /\ UNCHANGED <<now, cert, sts, pod, pc, hash, err>>
    BY <1>3 DEF DeleteCR, cluster, TypeInv, TypeOK, worker
  <2>2. ~Checked' /\ (cr' # NoObj => cr'.requiredAt = cr.requiredAt)
    BY <2>1 DEF Checked, CRs
  <2>3. PodOwned' /\ PassCarries' /\ (cr' # NoObj => cr'.requiredAt <= now')
    BY <2>1, <2>2 DEF ServesInv, PodOwned, PassCarries, CheckNear
  <2> QED
    BY <2>2, <2>3, UncheckedServes
<1> QED
  BY <1>1, <1>2, <1>3

LEMMA ServesStep ==
  ASSUME TypeInv, CheckMargin, ServesInv, [Next]_vars PROVE ServesInv'
<1>1. CASE RollPod \/ PodProgress \/ CountReplicas \/ Events \/ PodFails \/ UNCHANGED vars
  <2>1. UNCHANGED <<now, cr, conditions, cert, sts, checkQueued, checkAt, pc, hash, err>>
    BY <1>1 DEF RollPod, PodProgress, CountReplicas, Events, SyncStatefulSet, SyncPod,
       PodFails, vars, cluster, queues, worker
  <2>2. queued => queued'
    <3>1. UNCHANGED queued \/ queued' = (queued \/ updateOrDeleteWithStatusPred)
      BY <1>1 DEF RollPod, PodProgress, CountReplicas, Events, SyncStatefulSet, SyncPod,
         PodFails, vars, queues
    <3> QED
      BY <3>1, Zenon
  <2>3. PodOwned'
    <3>1. UNCHANGED pod \/ pod # NoObj \/ sts # NoObj
      BY <1>1 DEF RollPod, PodProgress, CountReplicas, Events, SyncStatefulSet, SyncPod,
         PodFails, vars, cluster
    <3> QED
      BY <2>1, <3>1 DEF ServesInv, PodOwned
  <2> QED
    BY <2>1, <2>2, <2>3, QueuesServes
<1>4. CASE Collect
  <2>1. cr = NoObj /\ cr' = NoObj /\ UNCHANGED <<pc, err>>
    BY <1>4 DEF Collect, worker
  <2>2. pc = "idle" /\ err = "none"
    BY <2>1 DEF TypeInv, HeldInv, ServesInv, PassCarries
  <2> QED
    BY <2>1, <2>2, UncheckedServes DEF Checked, PodOwned, PassCarries
<1>2. CASE Restart
  <2>1. /\ pc' = "idle" /\ queued' = TRUE /\ checkQueued' = TRUE
        /\ err' = "none"
        /\ UNCHANGED <<now, cr, conditions, cert, sts, pod>>
    BY <1>2 DEF Restart, Done, cluster
  <2>2. PassAhead'
    BY <2>1 DEF PassAhead
  <2> QED
    BY <2>1, <2>2 DEF ServesInv, PassCarries, Carried, PodOwned, CheckNear, Answered, InTime
<1>3. CASE Tick
  <2>1. /\ now' = now + 1
        /\ UNCHANGED <<cr, conditions, cert, sts, pod, queued, checkQueued, checkAt, pc, hash, err>>
    BY <1>3 DEF Tick, cluster, queues, worker
  <2>2. now \in Nat /\ checkAt \in Nat /\ CheckExpiryAfter \in Nat
    BY MarginFacts DEF TypeInv
  <2>3. cr # NoObj => cr.requiredAt \in Int /\ cr.requiredAt <= now
    <3>1. cr # NoObj => cr.requiredAt \in -1..MaxTime
      BY DEF TypeInv, TypeOK, CRs
    <3>2. -1..MaxTime \subseteq Int
      BY MonolithicBounds
    <3> QED
      BY <3>1, <3>2 DEF ServesInv, CheckNear
  <2>4. (Checked' <=> Checked) /\ (PassAhead' <=> PassAhead)
    BY <2>1 DEF Checked, PassAhead
  <2>5. PassCarries' /\ Carried' /\ PodOwned' /\ InTime'
    BY <2>1, <2>4 DEF ServesInv, PassCarries, Carried, Stuck, PodOwned, InTime
  <2>6. CheckNear'
    <3>1. cr # NoObj => cr.requiredAt <= now + 1
      BY <2>2, <2>3
    <3>2. Checked /\ ~checkQueued => checkAt <= now + 1 + CheckExpiryAfter
      <4> SUFFICES ASSUME Checked, ~checkQueued PROVE checkAt <= now + 1 + CheckExpiryAfter
        OBVIOUS
      <4>1. checkAt <= now + CheckExpiryAfter
        BY DEF ServesInv, CheckNear
      <4> QED
        BY <2>2, <4>1
    <3> QED
      BY <2>1, <2>4, <3>1, <3>2 DEF CheckNear
  <2>7. Answered'
    <3>1. cr # NoObj => cr.requiredAt # now + 1
      BY <2>2, <2>3
    <3> QED
      BY <2>1, <3>1 DEF Answered, Checked
  <2> QED
    BY <2>5, <2>6, <2>7 DEF ServesInv
<1> QED
  BY <1>1, <1>2, <1>3, <1>4, DeletionServes, StartServes, CertsServes, ObjectsServes, StatusServes,
     CheckServes, UserServes DEF Next, Pass, World

\* Where checks come often enough, an operator at rest leaves no pod of a CR
\* with management: Managed with an expired certificate, whichever requests
\* failed, however often it was restarted, and whatever the CR, its storage
\* secret or the other things a pass looks up were before, unless the
\* condition ConfigurationError tells that its objects are not kept up.
THEOREM ServesValidCertificates ==
  ASSUME CheckMargin
  PROVE  Spec => []ServesStated
<1> DEFINE Inv == TypeInv /\ ServesInv
<1>1. Init => Inv
  <2> SUFFICES ASSUME Init PROVE ServesInv
    BY InitTypeInv
  <2>1. cr.requiredAt = -1 /\ now = 0
    BY DEF Init
  <2>2. cr.requiredAt <= now
    <3>1. -1 <= 0
      OBVIOUS
    <3> QED
      BY <2>1, <3>1
  <2> QED
    BY <2>1, <2>2 DEF Init, ServesInv, PassCarries, Carried, CheckNear, Answered, InTime,
       PassAhead, PodOwned
<1>2. Inv /\ [Next]_vars => Inv'
  BY TypeInvStep, ServesStep
<1>3. Inv => ServesStated
  <2> SUFFICES ASSUME Inv, Idle, Checked, ~Stuck, pod # NoObj
               PROVE  ~(now > pod.cert + Validity)
    BY DEF ServesStated, PodExpired, Stuck
  <2>1. cert # NoObj /\ sts = cert /\ pod.cert = cert
    BY DEF Idle, PodSettled, ServesInv, Carried, PodOwned, Checked
  <2>2. now < checkAt /\ checkAt <= cert + Validity
    BY <2>1 DEF Idle, ServesInv, InTime, PassAhead
  <2>3. now \in Nat /\ checkAt \in Nat
    BY MarginFacts DEF TypeInv
  <2>4. cert \in Nat /\ Validity \in Nat
    BY <2>1, MonolithicTimes, MonolithicBounds DEF TypeInv, TypeOK
  <2>5. ~(now > cert + Validity)
    BY <2>2, <2>3, <2>4
  <2> QED
    BY <2>1, <2>5
<1> QED
  BY <1>1, <1>2, <1>3, PTL DEF Spec
=============================================================================
