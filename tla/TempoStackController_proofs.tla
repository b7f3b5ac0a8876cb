--------------------- MODULE TempoStackController_proofs ---------------------
(***************************************************************************)
(* What TempoStackController promises for every set of objects, specs and  *)
(* secrets and every bound.                                                *)
(***************************************************************************)
EXTENDS TempoStackController, TLAPS

\* Wrapped counters stay in their range.
LEMMA ModRange ==
  ASSUME NEW n \in Nat, NEW k \in Nat \ {0}
  PROVE  n % k \in 0..k-1
  OBVIOUS

\* A version of the CR with a new resourceVersion is a version of the CR.
LEMMA BumpedType ==
  ASSUME NEW c \in CRs
  PROVE  /\ Bumped(c) \in CRs
         /\ Bumped(c) # NoCR
         /\ Bumped(c).finalizer = c.finalizer
         /\ Bumped(c).deleting = c.deleting
         /\ Bumped(c).managementState = c.managementState
<1>1. (c.rv + 1) % RVs \in 0..RVs-1
  <2>1. c.rv + 1 \in Nat
    BY BoundsAssumption DEF CRs
  <2> QED
    BY <2>1, ModRange, BoundsAssumption
<1>2. Bumped(c) \in CRs
  BY <1>1 DEF Bumped, CRs
<1> QED
  BY <1>2, AbsenceAssumption DEF Bumped, CRs

\* A sequence that is another one without its first element has the same last.
LEMMA RestKeepsLast ==
  ASSUME NEW S, NEW w \in Seq(S), NEW t \in Seq(S), Len(w) \in Nat \ {0},
         Len(t) = Len(w) - 1, \A i \in 1..(Len(w)-1) : t[i] = w[i+1]
  PROVE  /\ t = <<>> => w[1] = w[Len(w)]
         /\ t # <<>> => t[Len(t)] = w[Len(w)]
<1>1. CASE Len(t) = 0
  <2>1. t = <<>> /\ Len(w) = 1
    BY <1>1
  <2> QED
    BY <2>1
<1>2. CASE Len(t) # 0
  <2>1. t # <<>>
    BY <1>2
  <2>2. t[Len(t)] = w[Len(w)]
    BY <1>2
  <2> QED
    BY <2>1, <2>2
<1> QED
  BY <1>1, <1>2

\* Taking the first element of a sequence keeps its last one.
LEMMA TailKeepsLast ==
  ASSUME NEW S, NEW w \in Seq(S), w # <<>>
  PROVE  /\ Tail(w) = <<>> => Head(w) = w[Len(w)]
         /\ Tail(w) # <<>> => Tail(w)[Len(Tail(w))] = w[Len(w)]
<1>1. /\ Len(w) \in Nat \ {0} /\ Tail(w) \in Seq(S) /\ Len(Tail(w)) = Len(w) - 1
      /\ Head(w) = w[1] /\ \A i \in 1..(Len(w)-1) : Tail(w)[i] = w[i+1]
  OBVIOUS
<1> QED
  BY <1>1, RestKeepsLast

LEMMA NextUIDType ==
  ASSUME TypeOK, NEW o \in Objects
  PROVE  NextUID(o) \in Nat
  BY DEF TypeOK, NextUID

\* Writing a well-typed object keeps the store and its stream well typed.
LEMMA WriteObjType ==
  ASSUME TypeOK, NEW o \in Objects, NEW x \in Objs \cup {NoObj}, WriteObj(o, x)
  PROVE  /\ store' \in [Objects -> Objs \cup {NoObj}]
         /\ watch' \in [Objects -> Seq(Objs \cup {NoObj})]
  BY DEF TypeOK, WriteObj

LEMMA WriteCRType ==
  ASSUME TypeOK, NEW c \in Versions, WriteCR(c)
  PROVE  cr' \in Versions /\ crWatch' \in Seq(Versions)
  BY DEF TypeOK, WriteCR

LEMMA ReleaseType ==
  ASSUME Release
  PROVE  /\ pc' = "idle" /\ tempo' \in Versions
         /\ desired' \in [Objects -> Values \cup {NoVal}]
         /\ todo' = {} /\ owned' = {} /\ errs' = FALSE /\ outcome' = "ok"
  BY DEF Release, Versions, NothingDesired

----------------------------------------------------------------------------
LEMMA InitType == Init => TypeOK
<1> SUFFICES ASSUME Init PROVE TypeOK
  OBVIOUS
<1>1. \A s \in Specs : NewCR(s) \in CRs
  BY BoundsAssumption DEF NewCR, CRs, Managements, Conditions
<1>2. cr \in Versions /\ crWatch \in Seq(Versions) /\ crCache \in Versions
  BY <1>1 DEF Init, Versions
<1>3. /\ store \in [Objects -> Objs \cup {NoObj}]
      /\ cache \in [Objects -> Objs \cup {NoObj}]
      /\ watch \in [Objects -> Seq(Objs \cup {NoObj})]
      /\ uids \in [Objects -> Nat]
  BY BoundsAssumption DEF Init
<1>4. /\ desired \in [Objects -> Values \cup {NoVal}]
      /\ todo \subseteq DOMAIN BuildOrder /\ \A i \in todo : desired[BuildOrder[i]] # NoVal
      /\ owned \subseteq Objects \X Nat
  BY DEF Init, NothingDesired
<1>5. /\ tempo \in Versions /\ (pc # "idle" => tempo # NoCR)
      /\ pc \in {"idle", "addFinalizer", "createOrUpdate", "apply", "prune",
                "status", "finalize"}
      /\ errs \in BOOLEAN /\ outcome \in {"ok", "config", "failed"}
      /\ queued \in BOOLEAN
  BY DEF Init, Versions
<1>6. /\ secret \in Secrets /\ secretCache \in Secrets /\ secretWatch \in Seq(Secrets)
      /\ changes \in Nat /\ faults \in Nat /\ relists \in Nat
  BY DEF Init
<1> QED
  BY <1>2, <1>3, <1>4, <1>5, <1>6 DEF TypeOK

\* What users, third parties and the cluster do keeps the types.
LEMMA EnvironmentType == TypeOK /\ Environment => TypeOK'
<1> SUFFICES ASSUME TypeOK, Environment PROVE TypeOK'
  OBVIOUS
<1>1. ASSUME NEW s \in Specs, UserSpec(s) PROVE TypeOK'
  <2>1. cr \in CRs /\ [cr EXCEPT !.spec = s] \in CRs
    BY <1>1 DEF UserSpec, TypeOK, Versions, CRs
  <2>2. cr' \in Versions /\ crWatch' \in Seq(Versions)
    BY <1>1, <2>1, BumpedType, WriteCRType DEF UserSpec, Versions
  <2> QED
    BY <1>1, <2>2 DEF UserSpec, TypeOK, Change, objStream, secStream, worker
<1>2. ASSUME NEW m \in Managements, UserManage(m) PROVE TypeOK'
  <2>1. cr \in CRs /\ [cr EXCEPT !.managementState = m] \in CRs
    BY <1>2 DEF UserManage, TypeOK, Versions, CRs
  <2>2. cr' \in Versions /\ crWatch' \in Seq(Versions)
    BY <1>2, <2>1, BumpedType, WriteCRType DEF UserManage, Versions
  <2> QED
    BY <1>2, <2>2 DEF UserManage, TypeOK, Change, objStream, secStream, worker
<1>3. ASSUME UserDelete PROVE TypeOK'
  <2>1. cr \in CRs /\ [cr EXCEPT !.deleting = TRUE] \in CRs
    BY <1>3 DEF UserDelete, TypeOK, Versions, CRs
  <2>2. cr' \in Versions /\ crWatch' \in Seq(Versions)
    BY <1>3, <2>1, BumpedType, WriteCRType DEF UserDelete, Versions
  <2> QED
    BY <1>3, <2>2, SMTT(60) DEF UserDelete, TypeOK, Change, objStream, secStream, worker
<1>4. ASSUME NEW s \in Secrets, SecretChange(s) PROVE TypeOK'
  BY <1>4 DEF SecretChange, TypeOK, Change, crStream, objStream, worker
<1>5. ASSUME NEW o \in Objects, ExternalDelete(o) PROVE TypeOK'
  <2>1. /\ store' \in [Objects -> Objs \cup {NoObj}]
        /\ watch' \in [Objects -> Seq(Objs \cup {NoObj})]
    BY <1>5, WriteObjType DEF ExternalDelete
  <2> QED
    BY <1>5, <2>1, SMTT(60) DEF ExternalDelete, TypeOK, Change, crStream, secStream, worker
<1>6. ASSUME NEW o \in Objects, NEW v \in Values, ExternalEdit(o, v) PROVE TypeOK'
  <2>1. [store[o] EXCEPT !.val = v] \in Objs
    BY <1>6 DEF ExternalEdit, TypeOK, Objs
  <2>2. /\ store' \in [Objects -> Objs \cup {NoObj}]
        /\ watch' \in [Objects -> Seq(Objs \cup {NoObj})]
    BY <1>6, <2>1, WriteObjType DEF ExternalEdit
  <2>3. /\ changes' = changes + 1
        /\ UNCHANGED <<cr, secret, uids, crStream, cache, secStream, queued, worker,
                       faults, relists>>
    BY <1>6 DEF ExternalEdit, Change
  <2> QED
    BY <2>2, <2>3, SMTT(60) DEF TypeOK, crStream, secStream, worker
<1>7. ASSUME NEW o \in Objects, WorkloadStatus(o) PROVE TypeOK'
  BY <1>7 DEF WorkloadStatus, TypeOK, Change, clusterVars, crStream, objStream,
     secStream, worker
<1> QED
  BY <1>1, <1>2, <1>3, <1>4, <1>5, <1>6, <1>7 DEF Environment

\* Informers, the garbage collector and a restart keep the types.
LEMMA ClusterType ==
  ASSUME TypeOK, \/ \E o \in Objects : GarbageCollect(o) \/ Deliver(o) \/ Relist(o)
                 \/ DeliverCR \/ DeliverSecret \/ Restart
  PROVE  TypeOK'
<1>1. ASSUME NEW o \in Objects, GarbageCollect(o) PROVE TypeOK'
  <2>1. /\ store' \in [Objects -> Objs \cup {NoObj}]
        /\ watch' \in [Objects -> Seq(Objs \cup {NoObj})]
    BY <1>1, WriteObjType DEF GarbageCollect
  <2> QED
    BY <1>1, <2>1 DEF GarbageCollect, TypeOK, crStream, secStream, worker, bounds
<1>2. ASSUME NEW o \in Objects, Deliver(o) PROVE TypeOK'
  <2>1. /\ cache' \in [Objects -> Objs \cup {NoObj}]
        /\ watch' \in [Objects -> Seq(Objs \cup {NoObj})]
    BY <1>2 DEF Deliver, TypeOK
  <2>2. queued' \in BOOLEAN
    BY <1>2 DEF Deliver
  <2> QED
    BY <1>2, <2>1, <2>2 DEF Deliver, TypeOK, clusterVars, crStream, secStream, worker, bounds
<1>3. ASSUME NEW o \in Objects, Relist(o) PROVE TypeOK'
  <2>1. /\ cache' \in [Objects -> Objs \cup {NoObj}]
        /\ watch' \in [Objects -> Seq(Objs \cup {NoObj})]
    BY <1>3 DEF Relist, TypeOK
  <2>2. queued' \in BOOLEAN
    BY <1>3 DEF Relist
  <2> QED
    BY <1>3, <2>1, <2>2 DEF Relist, TypeOK, clusterVars, crStream, secStream, worker
<1>4. ASSUME DeliverCR PROVE TypeOK'
  <2>1. queued' \in BOOLEAN
    BY <1>4 DEF DeliverCR
  <2> QED
    BY <1>4, <2>1 DEF DeliverCR, TypeOK, clusterVars, objStream, secStream, worker, bounds
<1>5. ASSUME DeliverSecret PROVE TypeOK'
  <2>1. queued' \in BOOLEAN
    BY <1>5 DEF DeliverSecret
  <2> QED
    BY <1>5, <2>1 DEF DeliverSecret, TypeOK, clusterVars, crStream, objStream, worker, bounds
<1>6. ASSUME Restart PROVE TypeOK'
  <2>1. queued' \in BOOLEAN
    BY <1>6 DEF Restart
  <2> QED
    BY <1>6, <2>1, ReleaseType DEF Restart, Fault, TypeOK, clusterVars
<1> QED
  BY <1>1, <1>2, <1>3, <1>4, <1>5, <1>6

\* The head of the work list is an object the pass wants.
LEMMA ObjectToReconcile ==
  ASSUME TypeOK, NEW i \in todo
  PROVE  /\ BuildOrder[i] \in Objects
         /\ desired[BuildOrder[i]] \in Values
  BY ObjectsAssumption, ContentAssumption DEF TypeOK

\* CreateOrUpdate of one object keeps the types of what it writes.
LEMMA ReconcileObjectType ==
  ASSUME TypeOK, ObjStreamInv, NEW o \in Objects, desired[o] \in Values,
         \/ CreateObject(o) \/ UnchangedObject(o) \/ UpdateObject(o)
         \/ DeleteImmutable(o) \/ RejectedWrite(o) \/ FailedWrite(o)
  PROVE  /\ store' \in [Objects -> Objs \cup {NoObj}]
         /\ watch' \in [Objects -> Seq(Objs \cup {NoObj})]
         /\ uids' \in [Objects -> Nat]
         /\ owned' \subseteq owned
         /\ errs' \in BOOLEAN /\ faults' \in Nat
<1> DEFINE Goal == /\ store' \in [Objects -> Objs \cup {NoObj}]
                   /\ watch' \in [Objects -> Seq(Objs \cup {NoObj})]
                   /\ uids' \in [Objects -> Nat]
                   /\ owned' \subseteq owned
                   /\ errs' \in BOOLEAN /\ faults' \in Nat
<1>1. CASE CreateObject(o)
  <2>1. [uid |-> NextUID(o), val |-> desired[o]] \in Objs
    BY NextUIDType DEF Objs
  <2> QED
    BY <1>1, <2>1, NextUIDType, WriteObjType DEF CreateObject, StillManaged, TypeOK
<1>2. CASE UnchangedObject(o)
  BY <1>2 DEF UnchangedObject, StillManaged, TypeOK
<1>3. CASE UpdateObject(o)
  <2>1. store[o] \in Objs
    BY <1>3 DEF UpdateObject, UpToDate, ObjStreamInv, TypeOK
  <2>2. [store[o] EXCEPT !.val = desired[o]] \in Objs
    BY <2>1 DEF Objs
  <2>3. /\ store' \in [Objects -> Objs \cup {NoObj}]
        /\ watch' \in [Objects -> Seq(Objs \cup {NoObj})]
    BY <1>3, <2>2, WriteObjType DEF UpdateObject
  <2>4. owned' \subseteq owned /\ UNCHANGED <<uids, errs, faults>>
    BY <1>3 DEF UpdateObject, StillManaged
  <2> QED
    BY <2>3, <2>4 DEF TypeOK
<1>4. CASE DeleteImmutable(o)
  BY <1>4, WriteObjType DEF DeleteImmutable, StillManaged, TypeOK
<1>5. CASE RejectedWrite(o)
  BY <1>5 DEF RejectedWrite, TypeOK
<1>6. CASE FailedWrite(o)
  BY <1>6 DEF FailedWrite, Fault, TypeOK
<1> QED
  BY <1>1, <1>2, <1>3, <1>4, <1>5, <1>6

LEMMA DeleteOwnedType ==
  ASSUME TypeOK, NEW o \in Objects, DeleteOwned(o)
  PROVE  /\ store' \in [Objects -> Objs \cup {NoObj}]
         /\ watch' \in [Objects -> Seq(Objs \cup {NoObj})]
         /\ errs' \in BOOLEAN /\ faults' \in Nat
<1>1. CASE WriteObj(o, NoObj) /\ UNCHANGED <<errs, faults>>
  BY <1>1, WriteObjType DEF TypeOK
<1>2. CASE errs' = TRUE /\ UNCHANGED <<store, watch>> /\ (Fault \/ UNCHANGED faults)
  BY <1>2 DEF TypeOK, Fault
<1> QED
  BY <1>1, <1>2 DEF DeleteOwned

\* Listings return names and UIDs of objects.
LEMMA ListingsType ==
  ASSUME TypeOK
  PROVE  /\ findClusterRoleObjects \subseteq Objects \X Nat
         /\ findObjectsOwnedByTempoOperator \subseteq Objects \X Nat
  BY ObjectsAssumption DEF TypeOK, Objs, findClusterRoleObjects,
     findObjectsOwnedByTempoOperator

\* A step of Reconcile keeps the types.
LEMMA ReconcileType == TypeOK /\ ObjStreamInv /\ Reconcile => TypeOK'
<1> SUFFICES ASSUME TypeOK, ObjStreamInv, Reconcile PROVE TypeOK'
  OBVIOUS
<1>1. CASE StartReconcile
  <2>1. /\ pc' \in {"idle", "addFinalizer", "createOrUpdate", "finalize"}
        /\ tempo' \in Versions /\ (pc' # "idle" => tempo' # NoCR)
        /\ owned' \subseteq Objects \X Nat
    BY <1>1, ListingsType DEF StartReconcile, AfterFinalizer, TypeOK, Versions
  <2>2. /\ queued' = FALSE
        /\ UNCHANGED <<clusterVars, crStream, objStream, secStream, desired, todo,
                       errs, outcome, bounds>>
    BY <1>1 DEF StartReconcile
  <2> QED
    BY <2>1, <2>2 DEF TypeOK, clusterVars, crStream, objStream, secStream, bounds
<1>2. CASE AddFinalizer
  <2>1. UNCHANGED <<store, secret, uids, crCache, objStream, secStream, changes, relists>>
    BY <1>2 DEF AddFinalizer
  <2>2. CASE Current(tempo) /\ WriteCR(Bumped([cr EXCEPT !.finalizer = TRUE]))
    <3>1. cr \in CRs /\ [cr EXCEPT !.finalizer = TRUE] \in CRs
      BY <2>2 DEF Current, TypeOK, Versions, CRs
    <3>2. cr' \in CRs /\ cr' # NoCR
      BY <2>2, <3>1, BumpedType DEF WriteCR
    <3>3. crWatch' \in Seq(Versions)
      BY <2>2, <3>1, BumpedType, WriteCRType DEF Versions
    <3>4. CASE Return /\ UNCHANGED faults
      BY <2>1, <3>2, <3>3, <3>4, ReleaseType DEF Return, TypeOK, objStream, secStream, Versions
    <3>5. CASE /\ pc' = AfterFinalizer(cr') /\ tempo' = cr'
               /\ UNCHANGED <<queued, desired, todo, owned, errs, outcome, faults>>
      <4>1. pc' \in {"idle", "createOrUpdate"}
        BY <3>5 DEF AfterFinalizer
      <4> QED
        BY <2>1, <3>2, <3>3, <3>5, <4>1 DEF TypeOK, objStream, secStream, Versions
    <3> QED
      BY <1>2, <2>2, <3>1, <3>4, <3>5 DEF AddFinalizer, WriteCR
  <2>3. CASE Requeue /\ UNCHANGED <<cr, crWatch>> /\ (Fault \/ UNCHANGED faults)
    BY <2>1, <2>3, ReleaseType DEF Requeue, Fault, TypeOK, objStream, secStream
  <2> QED
    BY <1>2, <2>2, <2>3 DEF AddFinalizer
<1>3. CASE createOrUpdate
  <2>1. /\ pc' \in {"apply", "status"}
        /\ outcome' \in {"ok", "config", "failed"} /\ faults' \in Nat
    BY <1>3 DEF createOrUpdate, Fail, Fault, TypeOK
  <2>2. tempo # NoCR
    BY <1>3 DEF createOrUpdate, TypeOK
  <2>3. CASE UNCHANGED <<desired, todo, owned>>
    BY <1>3, <2>1, <2>2, <2>3 DEF createOrUpdate, TypeOK, clusterVars, crStream,
       objStream, secStream
  <2>4. CASE /\ desired' = Want[<<tempo.spec, secretCache>>]
             /\ todo' = managedObjects(desired')
             /\ owned' = findObjectsOwnedByTempoOperator
    <3>1. <<tempo.spec, secretCache>> \in Specs \X Secrets
      BY <2>2 DEF TypeOK, Versions, CRs
    <3>2. desired' \in [Objects -> Values \cup {NoVal}]
      BY <2>4, <3>1, ContentAssumption
    <3>3. /\ todo' \subseteq DOMAIN BuildOrder
          /\ \A i \in todo' : desired'[BuildOrder[i]] # NoVal
      BY <2>4 DEF managedObjects
    <3>4. UNCHANGED <<clusterVars, crStream, objStream, secStream, queued, tempo,
                      errs, changes, relists>>
      BY <1>3 DEF createOrUpdate
    <3> QED
      BY <2>1, <2>2, <2>4, <3>2, <3>3, <3>4, ListingsType DEF TypeOK, clusterVars,
         crStream, objStream, secStream
  <2> QED
    BY <1>3, <2>3, <2>4 DEF createOrUpdate
<1>4. CASE reconcileObject
  <2>1. PICK i \in todo :
          /\ todo' = todo \ {i}
          /\ \/ CreateObject(BuildOrder[i]) \/ UnchangedObject(BuildOrder[i])
             \/ UpdateObject(BuildOrder[i]) \/ DeleteImmutable(BuildOrder[i])
             \/ RejectedWrite(BuildOrder[i]) \/ FailedWrite(BuildOrder[i])
    BY <1>4 DEF reconcileObject
  <2>2. BuildOrder[i] \in Objects /\ desired[BuildOrder[i]] \in Values
    BY ObjectToReconcile
  <2>3. /\ store' \in [Objects -> Objs \cup {NoObj}]
        /\ watch' \in [Objects -> Seq(Objs \cup {NoObj})]
        /\ uids' \in [Objects -> Nat]
        /\ owned' \subseteq owned
        /\ errs' \in BOOLEAN /\ faults' \in Nat
    BY <2>1, <2>2, ReconcileObjectType
  <2>4. UNCHANGED <<cr, secret, crStream, cache, secStream, queued, pc, tempo,
                    desired, outcome, changes, relists>>
    BY <1>4 DEF reconcileObject
  <2> QED
    BY <2>1, <2>3, <2>4 DEF TypeOK, crStream, secStream
<1>5. CASE AfterApply \/ AfterPrune
  <2>1. pc' \in {"status", "prune"} /\ outcome' \in {"ok", "config", "failed"} /\ tempo # NoCR
    BY <1>5 DEF AfterApply, AfterPrune, Fail, TypeOK
  <2>2. UNCHANGED <<clusterVars, crStream, objStream, secStream, queued, tempo,
                    desired, todo, owned, errs, bounds>>
    BY <1>5 DEF AfterApply, AfterPrune
  <2> QED
    BY <2>1, <2>2 DEF TypeOK, clusterVars, crStream, objStream, secStream, bounds
<1>6. CASE pruneObject \/ finalizeObject
  <2>1. PICK p \in owned : DeleteOwned(p[1]) /\ owned' = owned \ {p}
    BY <1>6 DEF pruneObject, finalizeObject
  <2>2. p[1] \in Objects
    BY DEF TypeOK
  <2>3. UNCHANGED <<cr, secret, uids, crStream, cache, secStream, queued, pc,
                    tempo, desired, todo, outcome, changes, relists>>
    BY <1>6 DEF pruneObject, finalizeObject
  <2>4. /\ store' \in [Objects -> Objs \cup {NoObj}]
        /\ watch' \in [Objects -> Seq(Objs \cup {NoObj})]
        /\ errs' \in BOOLEAN /\ faults' \in Nat
    BY <2>1, <2>2, DeleteOwnedType
  <2> QED
    BY <2>1, <2>3, <2>4 DEF TypeOK, crStream, secStream
<1>7. CASE handleReconcileStatus
  <2>1. UNCHANGED <<store, secret, uids, crCache, objStream, secStream, changes, relists>>
    BY <1>7 DEF handleReconcileStatus
  <2>2. cr' \in Versions /\ crWatch' \in Seq(Versions)
    <3>1. CASE UNCHANGED <<cr, crWatch>>
      BY <3>1 DEF TypeOK
    <3>2. CASE /\ StatusAccepted
               /\ WriteCR(Bumped([cr EXCEPT !.condition = ConditionOf(outcome)]))
      <4>1. cr \in CRs
        BY <3>2 DEF StatusAccepted, Current, TypeOK, Versions
      <4>2. [cr EXCEPT !.condition = ConditionOf(outcome)] \in CRs
        BY <4>1 DEF TypeOK, ConditionOf, CRs, Conditions
      <4> QED
        BY <3>2, <4>2, BumpedType, WriteCRType DEF Versions
    <3> QED
      BY <1>7, <3>1, <3>2 DEF handleReconcileStatus
  <2>3. Release /\ (queued' = TRUE \/ queued' = queued)
    BY <1>7 DEF handleReconcileStatus, Return, Requeue
  <2>4. faults' \in Nat
    BY <1>7 DEF handleReconcileStatus, Fault, TypeOK
  <2> QED
    BY <2>1, <2>2, <2>3, <2>4, ReleaseType DEF TypeOK, objStream, secStream
<1>8. CASE RemoveFinalizer
  <2>1. UNCHANGED <<store, secret, uids, crCache, objStream, secStream, changes, relists>>
    BY <1>8 DEF RemoveFinalizer
  <2>2. cr' \in Versions /\ crWatch' \in Seq(Versions)
    BY <1>8, WriteCRType DEF RemoveFinalizer, TypeOK, Versions
  <2>3. Release /\ (queued' = TRUE \/ queued' = queued)
    BY <1>8 DEF RemoveFinalizer, Return, Requeue
  <2>4. faults' \in Nat
    BY <1>8 DEF RemoveFinalizer, Fault, TypeOK
  <2> QED
    BY <2>1, <2>2, <2>3, <2>4, ReleaseType DEF TypeOK, objStream, secStream
<1> QED
  BY <1>1, <1>2, <1>3, <1>4, <1>5, <1>6, <1>7, <1>8 DEF Reconcile
----------------------------------------------------------------------------
(* The inductive invariant.                                                *)

Writing == {"createOrUpdate", "apply", "prune", "status"}

LEMMA InitInv == Init => IInv
<1> SUFFICES ASSUME Init PROVE IInv
  OBVIOUS
<1>1. PICK s \in Specs : cr = NewCR(s)
  BY DEF Init
<1>2. ~Armed(cr) /\ ~Dying(cr) /\ ~Armed(crCache) /\ ~Dying(crCache)
  BY <1>1 DEF Init, Armed, Dying, NewCR
<1>3. Len(crWatch) = 1 /\ crWatch[1] = cr /\ crWatch # <<>>
  BY DEF Init
<1>4. CRStreamInv
  BY <1>2, <1>3 DEF CRStreamInv
<1>5. ObjStreamInv
  BY DEF Init, ObjStreamInv
<1> QED
  BY <1>4, <1>5, ObjectsAssumption DEF Init, IInv, FinalizerSeesDeletion,
     WriterHasFinalizer, FinalizerFirst

\* In a stream whose cache or events show a deletion timestamp, the current
\* version has one too, or is gone.
LEMMA DyingReachesEnd ==
  ASSUME TypeOK, CRStreamInv
  PROVE  /\ Dying(crCache) => Marked(cr)
         /\ \A i \in 1..Len(crWatch) : Dying(crWatch[i]) => Marked(cr)
<1>1. crWatch # <<>> => Len(crWatch) \in 1..Len(crWatch)
  BY DEF TypeOK
<1>2. Dying(crCache) => Marked(cr)
  BY <1>1 DEF CRStreamInv, Dying, Marked
<1>3. ASSUME NEW i \in 1..Len(crWatch), Dying(crWatch[i]) PROVE Marked(cr)
  <2>1. crWatch # <<>>
    BY DEF TypeOK
  <2>2. CASE i = Len(crWatch)
    BY <1>3, <2>1, <2>2 DEF CRStreamInv, Dying, Marked
  <2>3. CASE i < Len(crWatch)
    BY <1>1, <1>3, <2>1, <2>3 DEF CRStreamInv
  <2> QED
    BY <2>2, <2>3 DEF TypeOK
<1> QED
  BY <1>2, <1>3

\* A new version of the CR joins the stream.
LEMMA WriteCRStream ==
  ASSUME TypeOK, CRStreamInv, NEW c \in Versions, WriteCR(c), UNCHANGED crCache,
         Marked(cr) => Marked(c),
         \/ Held => Held'
         \/ Marked(crCache) /\ \A i \in 1..Len(crWatch) : Marked(crWatch[i])
  PROVE  /\ CRStreamInv'
         /\ \A i \in 1..Len(crWatch') : crWatch'[i] = c \/ (i \in 1..Len(crWatch) /\ crWatch'[i] = crWatch[i])
<1> DEFINE n == Len(crWatch)
<1>1. /\ n \in Nat /\ Len(crWatch') = n + 1
      /\ crWatch'[n+1] = c /\ \A i \in 1..n : crWatch'[i] = crWatch[i]
      /\ crWatch' # <<>> /\ cr' = c
  <2>1. crWatch \in Seq(Versions) /\ crWatch' = Append(crWatch, c) /\ cr' = c
    BY DEF WriteCR, TypeOK
  <2> QED
    BY <2>1
<1>2. Armed(c) => Held'
  BY <1>1 DEF Armed, Held
<1>3. /\ Armed(crCache) => Held'
      /\ \A i \in 1..n : Armed(crWatch[i]) => Held'
  <2>1. CASE Held => Held'
    BY <2>1 DEF CRStreamInv
  <2>2. CASE Marked(crCache) /\ \A i \in 1..n : Marked(crWatch[i])
    BY <2>2 DEF Armed, Marked
  <2> QED
    BY <2>1, <2>2
<1>4. /\ Dying(crCache) => Marked(c)
      /\ \A i \in 1..n : Dying(crWatch[i]) => Marked(c)
  BY DyingReachesEnd
<1>5. \A i \in 1..Len(crWatch') : Armed(crWatch'[i]) => Held'
  BY <1>1, <1>2, <1>3
<1>6. Dying(crCache') => \A i \in 1..Len(crWatch') : Marked(crWatch'[i])
  BY <1>1, <1>4 DEF CRStreamInv
<1>7. ASSUME NEW i \in 1..Len(crWatch'), NEW j \in 1..Len(crWatch'), i < j, Dying(crWatch'[i])
      PROVE  Marked(crWatch'[j])
  <2>1. i \in 1..n /\ Dying(crWatch[i])
    BY <1>1, <1>7
  <2>2. CASE j = n + 1
    BY <1>1, <1>4, <2>1, <2>2
  <2>3. CASE j \in 1..n
    BY <1>1, <1>7, <2>1, <2>3 DEF CRStreamInv
  <2> QED
    BY <1>1, <2>2, <2>3
<1>8. Armed(crCache') => Held'
  BY <1>3
<1>9. /\ crWatch' = <<>> => crCache' = cr'
      /\ crWatch' # <<>> => crWatch'[Len(crWatch')] = cr'
  BY <1>1
<1>10. CRStreamInv'
  BY <1>5, <1>6, <1>7, <1>8, <1>9 DEF CRStreamInv
<1>11. ASSUME NEW i \in 1..Len(crWatch')
       PROVE  crWatch'[i] = c \/ (i \in 1..Len(crWatch) /\ crWatch'[i] = crWatch[i])
  <2>1. CASE i = n + 1
    <3>1. crWatch'[i] = c
      BY <1>1, <2>1
    <3> QED
      BY <3>1
  <2>2. CASE i \in 1..n
    <3>1. crWatch'[i] = crWatch[i]
      BY <1>1, <2>2
    <3> QED
      BY <2>2, <3>1
  <2> QED
    BY <1>1, <2>1, <2>2
<1> QED
  BY <1>10, <1>11

\* The next event of the CR reaches the cache.
LEMMA DeliverCRStream ==
  ASSUME TypeOK, CRStreamInv, DeliverCR
  PROVE  /\ CRStreamInv'
         /\ crCache' = crWatch[1] /\ 1 \in 1..Len(crWatch)
         /\ \A i \in 1..Len(crWatch') : i+1 \in 1..Len(crWatch) /\ crWatch'[i] = crWatch[i+1]
<1> DEFINE n == Len(crWatch)
<1>0. crWatch \in Seq(Versions) /\ crWatch # <<>> /\ cr' = cr
      /\ crCache' = Head(crWatch) /\ crWatch' = Tail(crWatch)
  BY DEF DeliverCR, TypeOK, clusterVars
<1>1. /\ n \in Nat \ {0} /\ Len(crWatch') = n - 1
      /\ crCache' = crWatch[1] /\ \A i \in 1..(n-1) : crWatch'[i] = crWatch[i+1]
      /\ n = 1 => crWatch' = <<>>
      /\ n # 1 => crWatch' # <<>>
  <2>1. n \in Nat \ {0} /\ Len(crWatch') = n - 1 /\ crWatch' \in Seq(Versions)
    BY <1>0
  <2>2. crCache' = crWatch[1] /\ \A i \in 1..(n-1) : crWatch'[i] = crWatch[i+1]
    BY <1>0
  <2> QED
    BY <2>1, <2>2
<1>2. Held' = Held
  BY <1>0 DEF Held
<1>3. 1 \in 1..n /\ n \in 1..n /\ crWatch[n] = cr
  BY <1>1 DEF DeliverCR, CRStreamInv
<1>4. \A i \in 1..Len(crWatch') : i+1 \in 1..n /\ crWatch'[i] = crWatch[i+1] /\ 1 < i+1
  BY <1>1
<1>5. Dying(crCache') => \A i \in 1..Len(crWatch') : Marked(crWatch'[i])
  BY <1>1, <1>3, <1>4 DEF CRStreamInv
<1>6. \A i, j \in 1..Len(crWatch') : i < j /\ Dying(crWatch'[i]) => Marked(crWatch'[j])
  <2> SUFFICES ASSUME NEW i \in 1..Len(crWatch'), NEW j \in 1..Len(crWatch'),
                      i < j, Dying(crWatch'[i])
               PROVE  Marked(crWatch'[j])
    OBVIOUS
  <2>1. i+1 \in 1..n /\ j+1 \in 1..n /\ i+1 < j+1
    BY <1>1, <1>4
  <2> QED
    BY <1>4, <2>1 DEF CRStreamInv
<1>7. \A i \in 1..Len(crWatch') : Armed(crWatch'[i]) => Held'
  BY <1>2, <1>4 DEF CRStreamInv
<1>8. Armed(crCache') => Held'
  BY <1>1, <1>2, <1>3 DEF CRStreamInv
<1>9. /\ crWatch' = <<>> => crCache' = cr'
      /\ crWatch' # <<>> => crWatch'[Len(crWatch')] = cr'
  BY <1>0, <1>1, <1>3
<1>10. CRStreamInv'
  BY <1>5, <1>6, <1>7, <1>8, <1>9 DEF CRStreamInv
<1> QED
  BY <1>1, <1>3, <1>4, <1>10
\* A write to an object joins the stream of that object.
LEMMA WriteObjStream ==
  ASSUME TypeOK, ObjStreamInv, NEW o \in Objects, NEW x \in Objs \cup {NoObj},
         WriteObj(o, x), UNCHANGED cache
  PROVE  /\ ObjStreamInv'
         /\ \A q \in Objects : store'[q] = IF q = o THEN x ELSE store[q]
<1>1. \A q \in Objects : store'[q] = IF q = o THEN x ELSE store[q]
  BY DEF WriteObj, TypeOK
<1>2. ASSUME NEW q \in Objects
      PROVE  /\ watch'[q] = <<>> => cache'[q] = store'[q]
             /\ watch'[q] # <<>> => watch'[q][Len(watch'[q])] = store'[q]
  <2>1. CASE q # o
    BY <1>1, <2>1 DEF WriteObj, TypeOK, ObjStreamInv
  <2>2. CASE q = o
    <3>1. watch[o] \in Seq(Objs \cup {NoObj}) /\ watch'[o] = Append(watch[o], x)
      BY DEF WriteObj, TypeOK
    <3>2. watch'[o] # <<>> /\ watch'[o][Len(watch'[o])] = x
      BY <3>1
    <3> QED
      BY <1>1, <2>2, <3>2
  <2> QED
    BY <2>1, <2>2
<1> QED
  BY <1>1, <1>2 DEF ObjStreamInv

\* A step that writes the CR and keeps its finalizer while it has one.
LEMMA EditCRInv ==
  ASSUME TypeOK, IInv, NEW c \in Versions, WriteCR(c),
         UNCHANGED <<crCache, store, watch, cache>>,
         Marked(cr) => Marked(c), Held => Held', cr' # NoCR => cr # NoCR,
         pc' = "finalize" => pc = "finalize", pc' \in Writing => Held'
  PROVE  IInv'
<1>1. /\ CRStreamInv'
      /\ \A i \in 1..Len(crWatch') :
           crWatch'[i] = c \/ (i \in 1..Len(crWatch) /\ crWatch'[i] = crWatch[i])
  BY WriteCRStream DEF IInv
<1>2. ObjStreamInv'
  BY DEF IInv, ObjStreamInv
<1>3. FinalizerSeesDeletion'
  <2> SUFFICES ASSUME pc = "finalize"
               PROVE  /\ Marked(crCache)
                      /\ \A i \in 1..Len(crWatch') : Marked(crWatch'[i])
    BY DEF FinalizerSeesDeletion
  <2>1. Marked(crCache) /\ \A i \in 1..Len(crWatch) : Marked(crWatch[i])
    BY DEF IInv, FinalizerSeesDeletion
  <2>2. Marked(cr)
    <3>1. CASE crWatch = <<>>
      BY <2>1, <3>1 DEF IInv, CRStreamInv
    <3>2. CASE crWatch # <<>>
      <4>1. Len(crWatch) \in 1..Len(crWatch)
        BY <3>2 DEF TypeOK
      <4> QED
        BY <2>1, <3>2, <4>1 DEF IInv, CRStreamInv
    <3> QED
      BY <3>1, <3>2
  <2> QED
    BY <1>1, <2>1, <2>2
<1>4. WriterHasFinalizer'
  BY DEF WriterHasFinalizer, Writing, Held
<1>5. FinalizerFirst'
  BY DEF IInv, FinalizerFirst, Held
<1> QED
  BY <1>1, <1>2, <1>3, <1>4, <1>5 DEF IInv

\* A step that leaves the CR and its stream alone.
LEMMA OtherInv ==
  ASSUME IInv, ObjStreamInv', UNCHANGED <<cr, crWatch, crCache>>,
         pc' = "finalize" => pc = "finalize" \/ Dying(crCache),
         pc' \in Writing => Held,
         \A o \in Objects : store'[o] # NoObj => store[o] # NoObj \/ Held
  PROVE  IInv'
<1>1. CRStreamInv'
  BY DEF IInv, CRStreamInv, Held
<1>2. FinalizerSeesDeletion'
  <2>1. CASE pc' = "finalize" /\ pc = "finalize"
    BY <2>1 DEF IInv, FinalizerSeesDeletion
  <2>2. CASE pc' = "finalize" /\ Dying(crCache)
    BY <2>2 DEF IInv, CRStreamInv, FinalizerSeesDeletion, Dying, Marked
  <2> QED
    BY <2>1, <2>2 DEF FinalizerSeesDeletion
<1>3. WriterHasFinalizer'
  BY DEF WriterHasFinalizer, Writing, Held
<1>4. FinalizerFirst'
  BY ObjectsAssumption DEF IInv, FinalizerFirst, Held
<1> QED
  BY <1>1, <1>2, <1>3, <1>4 DEF IInv

\* Users, third parties and the cluster preserve the invariant.
LEMMA EnvironmentInv == TypeOK /\ IInv /\ Environment => IInv'
<1> SUFFICES ASSUME TypeOK, IInv, Environment PROVE IInv'
  OBVIOUS
<1>w. pc \in Writing => Held
  BY DEF IInv, WriterHasFinalizer, Writing, Held
<1>1. ASSUME NEW s \in Specs, UserSpec(s) PROVE IInv'
  <2>1. cr \in CRs /\ [cr EXCEPT !.spec = s] \in CRs
    BY <1>1 DEF UserSpec, TypeOK, Versions, CRs
  <2> DEFINE c == Bumped([cr EXCEPT !.spec = s])
  <2>2. c \in Versions /\ c # NoCR /\ c.finalizer = cr.finalizer /\ c.deleting = cr.deleting
    BY <2>1, BumpedType DEF CRs, Versions
  <2>3. WriteCR(c) /\ UNCHANGED <<crCache, store, watch, cache, pc>> /\ cr # NoCR
    BY <1>1 DEF UserSpec, objStream, worker
  <2>4. cr' = c
    BY <2>3 DEF WriteCR
  <2> HIDE DEF c
  <2>5. (Marked(cr) => Marked(c)) /\ (Held => Held')
    BY <2>2, <2>3, <2>4 DEF Marked, Held
  <2> QED
    BY <1>w, <2>2, <2>3, <2>5, EditCRInv
<1>2. ASSUME NEW m \in Managements, UserManage(m) PROVE IInv'
  <2>1. cr \in CRs /\ [cr EXCEPT !.managementState = m] \in CRs
    BY <1>2 DEF UserManage, TypeOK, Versions, CRs
  <2> DEFINE c == Bumped([cr EXCEPT !.managementState = m])
  <2>2. c \in Versions /\ c # NoCR /\ c.finalizer = cr.finalizer /\ c.deleting = cr.deleting
    BY <2>1, BumpedType DEF CRs, Versions
  <2>3. WriteCR(c) /\ UNCHANGED <<crCache, store, watch, cache, pc>> /\ cr # NoCR
    BY <1>2 DEF UserManage, objStream, worker
  <2>4. cr' = c
    BY <2>3 DEF WriteCR
  <2> HIDE DEF c
  <2>5. (Marked(cr) => Marked(c)) /\ (Held => Held')
    BY <2>2, <2>3, <2>4 DEF Marked, Held
  <2> QED
    BY <1>w, <2>2, <2>3, <2>5, EditCRInv
<1>3. ASSUME UserDelete PROVE IInv'
  <2>1. cr \in CRs /\ [cr EXCEPT !.deleting = TRUE] \in CRs
    BY <1>3 DEF UserDelete, TypeOK, Versions, CRs
  <2> DEFINE c == IF cr.finalizer THEN Bumped([cr EXCEPT !.deleting = TRUE]) ELSE NoCR
  <2>2. c \in Versions /\ Marked(c) /\ (c # NoCR => c.finalizer) /\ (c = NoCR => ~cr.finalizer)
    BY <2>1, BumpedType DEF CRs, Versions, Marked
  <2>3. WriteCR(c) /\ UNCHANGED <<crCache, store, watch, cache, pc>> /\ cr # NoCR
    BY <1>3 DEF UserDelete, objStream, worker
  <2>4. cr' = c
    BY <2>3 DEF WriteCR
  <2> HIDE DEF c
  <2>5. (Marked(cr) => Marked(c)) /\ (Held => Held')
    BY <2>2, <2>3, <2>4 DEF Held
  <2> QED
    BY <1>w, <2>2, <2>3, <2>5, EditCRInv
<1>4. ASSUME NEW s \in Secrets, SecretChange(s) PROVE IInv'
  <2>1. UNCHANGED <<cr, crWatch, crCache, store, watch, cache, pc>>
    BY <1>4 DEF SecretChange, crStream, objStream, worker
  <2>2. ObjStreamInv'
    BY <2>1 DEF IInv, ObjStreamInv
  <2> QED
    BY <1>w, <2>1, <2>2, OtherInv
<1>5. ASSUME NEW o \in Objects, ExternalDelete(o) PROVE IInv'
  <2>1. WriteObj(o, NoObj) /\ UNCHANGED <<cr, crWatch, crCache, cache, pc>>
    BY <1>5 DEF ExternalDelete, crStream, worker
  <2>2. ObjStreamInv' /\ \A q \in Objects : store'[q] = IF q = o THEN NoObj ELSE store[q]
    BY <2>1, WriteObjStream DEF IInv
  <2> QED
    BY <1>w, <2>1, <2>2, OtherInv
<1>6. ASSUME NEW o \in Objects, NEW v \in Values, ExternalEdit(o, v) PROVE IInv'
  <2> DEFINE x == [store[o] EXCEPT !.val = v]
  <2>1. x \in Objs /\ store[o] # NoObj
    BY <1>6 DEF ExternalEdit, TypeOK, Objs
  <2>2. WriteObj(o, x) /\ UNCHANGED <<cr, crWatch, crCache, cache, pc>>
    BY <1>6 DEF ExternalEdit, crStream, worker
  <2> HIDE DEF x
  <2>3. ObjStreamInv' /\ \A q \in Objects : store'[q] = IF q = o THEN x ELSE store[q]
    BY <2>1, <2>2, WriteObjStream DEF IInv
  <2> QED
    BY <1>w, <2>1, <2>2, <2>3, OtherInv
<1>7. ASSUME NEW o \in Objects, WorkloadStatus(o) PROVE IInv'
  <2>1. UNCHANGED <<cr, crWatch, crCache, store, watch, cache, pc>>
    BY <1>7 DEF WorkloadStatus, clusterVars, crStream, objStream, worker
  <2>2. ObjStreamInv'
    BY <2>1 DEF IInv, ObjStreamInv
  <2> QED
    BY <1>w, <2>1, <2>2, OtherInv
<1> QED
  BY <1>1, <1>2, <1>3, <1>4, <1>5, <1>6, <1>7 DEF Environment
\* Informers, the garbage collector and a restart preserve the invariant.
LEMMA ClusterInv ==
  ASSUME TypeOK, IInv, \/ \E o \in Objects : GarbageCollect(o) \/ Deliver(o) \/ Relist(o)
                       \/ DeliverCR \/ DeliverSecret \/ Restart
  PROVE  IInv'
<1>w. pc \in Writing => Held
  BY DEF IInv, WriterHasFinalizer, Writing, Held
<1>1. ASSUME NEW o \in Objects, GarbageCollect(o) PROVE IInv'
  <2>1. WriteObj(o, NoObj) /\ UNCHANGED <<cr, crWatch, crCache, cache, pc>>
    BY <1>1 DEF GarbageCollect, crStream, worker
  <2>2. ObjStreamInv' /\ \A q \in Objects : store'[q] = IF q = o THEN NoObj ELSE store[q]
    BY <2>1, WriteObjStream DEF IInv
  <2> QED
    BY <1>w, <2>1, <2>2, OtherInv
<1>2. ASSUME NEW o \in Objects, Deliver(o) PROVE IInv'
  <2>1. UNCHANGED <<cr, crWatch, crCache, store, pc>>
    BY <1>2 DEF Deliver, clusterVars, crStream, worker
  <2>2. /\ watch[o] \in Seq(Objs \cup {NoObj}) /\ watch[o] # <<>>
        /\ watch'[o] = Tail(watch[o]) /\ cache'[o] = Head(watch[o])
        /\ \A q \in Objects \ {o} : watch'[q] = watch[q] /\ cache'[q] = cache[q]
    BY <1>2 DEF Deliver, TypeOK
  <2>3. watch[o][Len(watch[o])] = store[o]
    BY <2>2 DEF IInv, ObjStreamInv
  <2>4. /\ watch'[o] = <<>> => cache'[o] = store[o]
        /\ watch'[o] # <<>> => watch'[o][Len(watch'[o])] = store[o]
    BY <2>2, <2>3, TailKeepsLast
  <2>5. ObjStreamInv'
    BY <2>1, <2>2, <2>4 DEF IInv, ObjStreamInv
  <2> QED
    BY <1>w, <2>1, <2>5, OtherInv
<1>3. ASSUME NEW o \in Objects, Relist(o) PROVE IInv'
  <2>1. UNCHANGED <<cr, crWatch, crCache, store, pc>>
    BY <1>3 DEF Relist, clusterVars, crStream, worker
  <2>2. /\ watch'[o] = <<>> /\ cache'[o] = store[o]
        /\ \A q \in Objects \ {o} : watch'[q] = watch[q] /\ cache'[q] = cache[q]
    BY <1>3 DEF Relist, TypeOK
  <2>3. ObjStreamInv'
    BY <2>1, <2>2 DEF IInv, ObjStreamInv
  <2> QED
    BY <1>w, <2>1, <2>3, OtherInv
<1>4. ASSUME DeliverCR PROVE IInv'
  <2>1. UNCHANGED <<cr, store, watch, cache, pc>>
    BY <1>4 DEF DeliverCR, clusterVars, objStream, worker
  <2>2. /\ CRStreamInv'
        /\ crCache' = crWatch[1] /\ 1 \in 1..Len(crWatch)
        /\ \A i \in 1..Len(crWatch') : i+1 \in 1..Len(crWatch) /\ crWatch'[i] = crWatch[i+1]
    BY <1>4, DeliverCRStream DEF IInv
  <2>3. FinalizerSeesDeletion'
    BY <2>1, <2>2 DEF IInv, FinalizerSeesDeletion
  <2>4. ObjStreamInv' /\ WriterHasFinalizer' /\ FinalizerFirst'
    BY <2>1 DEF IInv, ObjStreamInv, WriterHasFinalizer, FinalizerFirst
  <2> QED
    BY <2>2, <2>3, <2>4 DEF IInv
<1>5. ASSUME DeliverSecret PROVE IInv'
  <2>1. UNCHANGED <<cr, crWatch, crCache, store, watch, cache, pc>>
    BY <1>5 DEF DeliverSecret, clusterVars, crStream, objStream, worker
  <2>2. ObjStreamInv'
    BY <2>1 DEF IInv, ObjStreamInv
  <2> QED
    BY <1>w, <2>1, <2>2, OtherInv
<1>6. ASSUME Restart PROVE IInv'
  <2>1. /\ crCache' = cr /\ crWatch' = <<>> /\ Len(crWatch') = 0
        /\ cache' = store /\ watch' = [o \in Objects |-> <<>>]
        /\ UNCHANGED <<cr, store>> /\ pc' = "idle"
    BY <1>6 DEF Restart, Release, clusterVars
  <2>2. CRStreamInv'
    BY <2>1 DEF CRStreamInv, Armed, Held
  <2>3. ObjStreamInv'
    BY <2>1 DEF ObjStreamInv
  <2> QED
    BY <2>1, <2>2, <2>3 DEF IInv, FinalizerSeesDeletion, WriterHasFinalizer, FinalizerFirst
<1> QED
  BY <1>1, <1>2, <1>3, <1>4, <1>5, <1>6

\* Deleting one owned object: the stream follows and nothing new appears.
LEMMA DeleteOwnedStream ==
  ASSUME TypeOK, ObjStreamInv, NEW o \in Objects, DeleteOwned(o), UNCHANGED cache
  PROVE  /\ ObjStreamInv'
         /\ \A q \in Objects : store'[q] = store[q] \/ (q = o /\ store'[q] = NoObj)
         /\ ~errs' => ~errs /\ store'[o] = NoObj
<1>1. CASE store[o] # NoObj /\ WriteObj(o, NoObj) /\ UNCHANGED <<errs, faults>>
  <2>1. ObjStreamInv' /\ \A q \in Objects : store'[q] = IF q = o THEN NoObj ELSE store[q]
    BY <1>1, WriteObjStream
  <2> QED
    BY <1>1, <2>1
<1>2. CASE errs' = TRUE /\ UNCHANGED <<store, watch>>
  BY <1>2 DEF ObjStreamInv
<1> QED
  BY <1>1, <1>2 DEF DeleteOwned

\* CreateOrUpdate of one object: the stream follows.
LEMMA ReconcileObjectStream ==
  ASSUME TypeOK, ObjStreamInv, NEW o \in Objects, desired[o] \in Values, UNCHANGED cache,
         \/ CreateObject(o) \/ UnchangedObject(o) \/ UpdateObject(o)
         \/ DeleteImmutable(o) \/ RejectedWrite(o) \/ FailedWrite(o)
  PROVE  ObjStreamInv'
<1>1. CASE CreateObject(o)
  <2>1. [uid |-> NextUID(o), val |-> desired[o]] \in Objs
    BY NextUIDType DEF Objs
  <2> QED
    BY <1>1, <2>1, WriteObjStream DEF CreateObject
<1>2. CASE UpdateObject(o)
  <2>1. store[o] \in Objs
    BY <1>2 DEF UpdateObject, UpToDate, ObjStreamInv, TypeOK
  <2>2. [store[o] EXCEPT !.val = desired[o]] \in Objs
    BY <2>1 DEF Objs
  <2> QED
    BY <1>2, <2>2, WriteObjStream DEF UpdateObject
<1>3. CASE DeleteImmutable(o)
  BY <1>3, WriteObjStream DEF DeleteImmutable
<1>4. CASE UNCHANGED <<store, watch>>
  BY <1>4 DEF ObjStreamInv
<1> QED
  BY <1>1, <1>2, <1>3, <1>4 DEF UnchangedObject, RejectedWrite, FailedWrite

\* A step of Reconcile preserves the invariant.
LEMMA ReconcileInv == TypeOK /\ IInv /\ Reconcile => IInv'
<1> SUFFICES ASSUME TypeOK, IInv, Reconcile PROVE IInv'
  OBVIOUS
<1>w. pc \in Writing => Held
  BY DEF IInv, WriterHasFinalizer, Writing, Held
<1>1. CASE StartReconcile
  <2>1. UNCHANGED <<cr, crWatch, crCache, store, watch, cache>>
    BY <1>1 DEF StartReconcile, clusterVars, crStream, objStream
  <2>2. ObjStreamInv'
    BY <2>1 DEF IInv, ObjStreamInv
  <2>3. pc' = "finalize" => Dying(crCache)
    BY <1>1 DEF StartReconcile, AfterFinalizer, Dying
  <2>4. pc' \in Writing => Armed(crCache)
    BY <1>1 DEF StartReconcile, AfterFinalizer, needsFinalizer, Writing, Armed
  <2>5. pc' \in Writing => Held
    BY <2>4 DEF IInv, CRStreamInv
  <2> QED
    BY <2>1, <2>2, <2>3, <2>5, OtherInv
<1>2. CASE AddFinalizer
  <2>1. UNCHANGED <<crCache, store, watch, cache>>
    BY <1>2 DEF AddFinalizer, objStream
  <2>2. CASE UNCHANGED <<cr, crWatch>> /\ Requeue
    <3>1. ObjStreamInv'
      BY <2>1 DEF IInv, ObjStreamInv
    <3>2. pc' = "idle"
      BY <2>2 DEF Requeue, Release
    <3> QED
      BY <2>1, <2>2, <3>1, <3>2, OtherInv DEF Writing
  <2>3. CASE Current(tempo) /\ WriteCR(Bumped([cr EXCEPT !.finalizer = TRUE]))
    <3> DEFINE c == Bumped([cr EXCEPT !.finalizer = TRUE])
    <3>1. cr \in CRs /\ [cr EXCEPT !.finalizer = TRUE] \in CRs /\ cr # NoCR
      BY <2>3, AbsenceAssumption DEF Current, TypeOK, Versions, CRs
    <3>2. c \in Versions /\ c # NoCR /\ c.finalizer = TRUE /\ c.deleting = cr.deleting
      BY <3>1, BumpedType DEF CRs, Versions
    <3>3. pc' # "finalize"
      BY <1>2 DEF AddFinalizer, Return, Requeue, Release, AfterFinalizer
    <3>4. WriteCR(c) /\ cr' = c
      BY <2>3 DEF WriteCR
    <3> HIDE DEF c
    <3>5. (Marked(cr) => Marked(c)) /\ Held'
      BY <3>1, <3>2, <3>4 DEF Marked, Held
    <3> QED
      BY <2>1, <3>1, <3>2, <3>3, <3>4, <3>5, EditCRInv
  <2> QED
    BY <1>2, <2>2, <2>3 DEF AddFinalizer
<1>3. CASE createOrUpdate \/ AfterApply \/ AfterPrune
  <2>1. UNCHANGED <<cr, crWatch, crCache, store, watch, cache>>
    BY <1>3 DEF createOrUpdate, AfterApply, AfterPrune, clusterVars, crStream, objStream
  <2>2. ObjStreamInv'
    BY <2>1 DEF IInv, ObjStreamInv
  <2>3. pc \in Writing /\ pc' # "finalize"
    BY <1>3 DEF createOrUpdate, AfterApply, AfterPrune, Fail, Writing
  <2> QED
    BY <1>w, <2>1, <2>2, <2>3, OtherInv
<1>4. CASE reconcileObject
  <2>1. PICK i \in todo :
             \/ CreateObject(BuildOrder[i]) \/ UnchangedObject(BuildOrder[i])
             \/ UpdateObject(BuildOrder[i]) \/ DeleteImmutable(BuildOrder[i])
             \/ RejectedWrite(BuildOrder[i]) \/ FailedWrite(BuildOrder[i])
    BY <1>4 DEF reconcileObject
  <2>2. BuildOrder[i] \in Objects /\ desired[BuildOrder[i]] \in Values
    BY ObjectToReconcile
  <2>3. UNCHANGED <<cr, crWatch, crCache, cache, pc>> /\ pc = "apply"
    BY <1>4 DEF reconcileObject, crStream
  <2>4. ObjStreamInv'
    BY <2>1, <2>2, <2>3, ReconcileObjectStream DEF IInv
  <2> QED
    BY <1>w, <2>3, <2>4, OtherInv DEF Writing
<1>5. CASE pruneObject \/ finalizeObject
  <2>1. PICK p \in owned : DeleteOwned(p[1])
    BY <1>5 DEF pruneObject, finalizeObject
  <2>2. p[1] \in Objects
    BY DEF TypeOK
  <2>3. UNCHANGED <<cr, crWatch, crCache, cache, pc>>
    BY <1>5 DEF pruneObject, finalizeObject, crStream
  <2>4. /\ ObjStreamInv'
        /\ \A q \in Objects : store'[q] = store[q] \/ (q = p[1] /\ store'[q] = NoObj)
    BY <2>1, <2>2, <2>3, DeleteOwnedStream DEF IInv
  <2> QED
    BY <1>w, <2>3, <2>4, OtherInv
<1>6. CASE handleReconcileStatus
  <2>1. UNCHANGED <<crCache, store, watch, cache>> /\ pc' = "idle"
    BY <1>6 DEF handleReconcileStatus, objStream, Return, Requeue, Release
  <2>2. CASE UNCHANGED <<cr, crWatch>>
    <3>1. ObjStreamInv'
      BY <2>1 DEF IInv, ObjStreamInv
    <3> QED
      BY <2>1, <2>2, <3>1, OtherInv DEF Writing
  <2>3. CASE StatusAccepted /\ WriteCR(Bumped([cr EXCEPT !.condition = ConditionOf(outcome)]))
    <3> DEFINE c == Bumped([cr EXCEPT !.condition = ConditionOf(outcome)])
    <3>1. cr \in CRs /\ cr # NoCR
      BY <2>3 DEF StatusAccepted, Current, TypeOK, Versions
    <3>2. [cr EXCEPT !.condition = ConditionOf(outcome)] \in CRs
      BY <3>1 DEF TypeOK, ConditionOf, CRs, Conditions
    <3>3. c \in Versions /\ c # NoCR /\ c.finalizer = cr.finalizer /\ c.deleting = cr.deleting
      BY <3>1, <3>2, BumpedType DEF CRs, Versions
    <3>4. WriteCR(c) /\ cr' = c
      BY <2>3 DEF WriteCR
    <3> HIDE DEF c
    <3>5. (Marked(cr) => Marked(c)) /\ (Held => Held')
      BY <3>1, <3>3, <3>4 DEF Marked, Held
    <3> QED
      BY <2>1, <3>1, <3>3, <3>4, <3>5, EditCRInv DEF Writing
  <2> QED
    BY <1>6, <2>2, <2>3 DEF handleReconcileStatus
<1>7. CASE RemoveFinalizer
  <2>1. UNCHANGED <<crCache, store, watch, cache>> /\ pc' = "idle" /\ pc = "finalize"
    BY <1>7 DEF RemoveFinalizer, objStream, Return, Requeue, Release
  <2>2. ObjStreamInv'
    BY <2>1 DEF IInv, ObjStreamInv
  <2>3. CASE UNCHANGED <<cr, crWatch>>
    BY <2>1, <2>2, <2>3, OtherInv DEF Writing
  <2>4. CASE WriteCR(NoCR)
    <3>1. Marked(crCache) /\ \A i \in 1..Len(crWatch) : Marked(crWatch[i])
      BY <2>1 DEF IInv, FinalizerSeesDeletion
    <3>2. NoCR \in Versions /\ Marked(NoCR)
      BY DEF Versions, Marked
    <3>3. CRStreamInv'
      BY <2>1, <2>4, <3>1, <3>2, WriteCRStream DEF IInv
    <3>4. cr' = NoCR
      BY <2>4 DEF WriteCR
    <3> QED
      BY <2>1, <2>2, <3>3, <3>4 DEF IInv, FinalizerSeesDeletion, WriterHasFinalizer,
         FinalizerFirst
  <2> QED
    BY <1>7, <2>3, <2>4 DEF RemoveFinalizer
<1> QED
  BY <1>1, <1>2, <1>3, <1>4, <1>5, <1>6, <1>7 DEF Reconcile
LEMMA NextInv == TypeOK /\ IInv /\ [Next]_vars => TypeOK' /\ IInv'
<1> SUFFICES ASSUME TypeOK, IInv, [Next]_vars PROVE TypeOK' /\ IInv'
  OBVIOUS
<1>1. CASE Environment
  BY <1>1, EnvironmentType, EnvironmentInv
<1>2. CASE \/ \E o \in Objects : GarbageCollect(o) \/ Deliver(o) \/ Relist(o)
           \/ DeliverCR \/ DeliverSecret \/ Restart
  BY <1>2, ClusterType, ClusterInv
<1>3. CASE Reconcile
  BY <1>3, ReconcileType, ReconcileInv DEF IInv
<1>4. CASE UNCHANGED vars
  <2>1. TypeOK'
    BY <1>4 DEF TypeOK, vars, clusterVars, crStream, objStream, secStream, worker, bounds
  <2>2. IInv'
    BY <1>4 DEF IInv, CRStreamInv, ObjStreamInv, FinalizerSeesDeletion, Held,
       WriterHasFinalizer, FinalizerFirst, vars, clusterVars, crStream, objStream, worker
  <2> QED
    BY <2>1, <2>2
<1> QED
  BY <1>1, <1>2, <1>3, <1>4 DEF Next

\* The variables of the controller always have their types.
THEOREM TypeCorrect == Spec => []TypeOK
<1>1. Init => TypeOK /\ IInv
  BY InitType, InitInv
<1> QED
  BY <1>1, NextInv, PTL DEF Spec

\* However old its copy of the CR, Reconcile writes objects only while the CR
\* exists and carries the finalizer (tempostack_controller.go, Reconcile).
THEOREM WriterSafe == Spec => []WriterHasFinalizer
<1>1. Init => TypeOK /\ IInv
  BY InitType, InitInv
<1>2. IInv => WriterHasFinalizer
  BY DEF IInv
<1> QED
  BY <1>1, <1>2, NextInv, PTL DEF Spec

\* No cluster-scoped object exists under a CR that lacks the finalizer.
THEOREM FinalizerPrecedes == Spec => []FinalizerFirst
<1>1. Init => TypeOK /\ IInv
  BY InitType, InitInv
<1>2. IInv => FinalizerFirst
  BY DEF IInv
<1> QED
  BY <1>1, <1>2, NextInv, PTL DEF Spec

----------------------------------------------------------------------------
(* With fresh listings the finalizer misses nothing.                       *)

LEMMA InitCovers == Init => FinalizeCovers
  BY DEF Init, FinalizeCovers

\* Steps outside the finalizer create no object while it runs.
LEMMA CoversStable ==
  ASSUME FinalizeCovers, pc' = "finalize" => pc = "finalize",
         UNCHANGED <<owned, errs, tempo>>,
         pc = "finalize" => \A o \in Objects : store'[o] # NoObj => store[o] # NoObj
  PROVE  FinalizeCovers'
  BY ObjectsAssumption DEF FinalizeCovers

LEMMA NextCovers ==
  TypeOK /\ IInv /\ FinalizeCovers /\ [Next /\ ListsFresh]_vars => FinalizeCovers'
<1> SUFFICES ASSUME TypeOK, IInv, FinalizeCovers, [Next /\ ListsFresh]_vars
             PROVE  FinalizeCovers'
  OBVIOUS
<1>1. CASE Environment
  <2>1. UNCHANGED worker
    BY <1>1 DEF Environment, UserSpec, UserManage, UserDelete, SecretChange,
       ExternalDelete, ExternalEdit, WorkloadStatus
  <2>2. ASSUME NEW o \in Objects, store'[o] # NoObj PROVE store[o] # NoObj
    <3>1. CASE UNCHANGED store
      BY <2>2, <3>1
    <3>2. ASSUME NEW q \in Objects, WriteObj(q, NoObj) PROVE store[o] # NoObj
      BY <2>2, <3>2 DEF WriteObj, TypeOK
    <3>3. ASSUME NEW q \in Objects, NEW v \in Values, ExternalEdit(q, v)
          PROVE store[o] # NoObj
      <4>1. \A r \in Objects : r # q => store'[r] = store[r]
        BY <3>3 DEF ExternalEdit, WriteObj, TypeOK
      <4> QED
        BY <2>2, <3>3, <4>1 DEF ExternalEdit
    <3> QED
      BY <1>1, <3>1, <3>2, <3>3 DEF Environment, UserSpec, UserManage, UserDelete,
         SecretChange, ExternalDelete, WorkloadStatus, clusterVars
  <2> QED
    BY <2>1, <2>2, CoversStable DEF worker
<1>2. CASE \/ \E o \in Objects : GarbageCollect(o) \/ Deliver(o) \/ Relist(o)
           \/ DeliverCR \/ DeliverSecret
  <2>1. UNCHANGED worker
    BY <1>2 DEF GarbageCollect, Deliver, Relist, DeliverCR, DeliverSecret
  <2>2. ASSUME NEW o \in Objects, store'[o] # NoObj PROVE store[o] # NoObj
    <3>1. CASE UNCHANGED store
      BY <2>2, <3>1
    <3>2. ASSUME NEW q \in Objects, WriteObj(q, NoObj) PROVE store[o] # NoObj
      BY <2>2, <3>2 DEF WriteObj, TypeOK
    <3> QED
      BY <1>2, <3>1, <3>2 DEF GarbageCollect, Deliver, Relist, DeliverCR,
         DeliverSecret, clusterVars
  <2> QED
    BY <2>1, <2>2, CoversStable DEF worker
<1>3. CASE pc' # "finalize"
  BY <1>3 DEF FinalizeCovers
<1>4. CASE StartReconcile /\ ListsFresh /\ pc' = "finalize"
  <2>1. pc # "finalize" /\ UNCHANGED <<cr, crCache, store>> /\ tempo' = crCache
    BY <1>4 DEF StartReconcile, clusterVars, crStream, AfterFinalizer
  <2>2. \A o \in Objects : cache[o] = store[o]
    BY <1>4, <2>1 DEF ListsFresh, UpToDate, IInv, ObjStreamInv
  <2>3. tempo'.managementState = "Managed" => owned' = findClusterRoleObjects
    BY <1>4, <2>1 DEF StartReconcile, skipFinalize, AfterFinalizer
  <2>4. ASSUME NEW o \in ClusterScoped, store[o] # NoObj,
               tempo'.managementState = "Managed"
        PROVE  \E p \in owned' : p[1] = o
    <3>1. <<o, cache[o].uid>> \in findClusterRoleObjects
      BY <2>2, <2>4, ObjectsAssumption DEF findClusterRoleObjects
    <3> QED
      BY <2>3, <2>4, <3>1
  <2> QED
    BY <2>1, <2>4 DEF FinalizeCovers
<1>5. CASE finalizeObject
  <2>1. PICK p \in owned : DeleteOwned(p[1]) /\ owned' = owned \ {p}
    BY <1>5 DEF finalizeObject
  <2>2. p[1] \in Objects
    BY DEF TypeOK
  <2>3. UNCHANGED <<cache, pc, tempo>> /\ pc = "finalize"
    BY <1>5 DEF finalizeObject
  <2>4. /\ \A q \in Objects : store'[q] = store[q] \/ (q = p[1] /\ store'[q] = NoObj)
        /\ ~errs' => ~errs /\ store'[p[1]] = NoObj
    BY <2>1, <2>2, <2>3, DeleteOwnedStream DEF IInv
  <2>5. ASSUME ~errs', tempo.managementState = "Managed",
               NEW o \in ClusterScoped, store'[o] # NoObj
        PROVE  \E r \in owned' : r[1] = o
    <3>1. o \in Objects /\ o # p[1] /\ store[o] # NoObj /\ ~errs
      BY <2>4, <2>5, ObjectsAssumption
    <3>2. PICK r \in owned : r[1] = o
      BY <2>3, <2>5, <3>1 DEF FinalizeCovers
    <3> QED
      BY <2>1, <3>1, <3>2
  <2> QED
    BY <2>3, <2>5 DEF FinalizeCovers
<1>6. CASE UNCHANGED vars
  BY <1>6 DEF FinalizeCovers, vars, clusterVars, worker
<1>7. CASE (Restart \/ Reconcile) /\ ListsFresh
  <2>1. ASSUME \/ Restart \/ AddFinalizer \/ createOrUpdate \/ reconcileObject
               \/ AfterApply \/ pruneObject \/ AfterPrune \/ handleReconcileStatus
               \/ RemoveFinalizer
        PROVE  pc' # "finalize"
    BY <2>1 DEF Restart, AddFinalizer, createOrUpdate, reconcileObject, AfterApply,
       pruneObject, AfterPrune, handleReconcileStatus, RemoveFinalizer, Release,
       Return, Requeue, AfterFinalizer, Fail
  <2> QED
    BY <1>3, <1>4, <1>5, <1>7, <2>1 DEF Reconcile
<1> QED
  BY <1>1, <1>2, <1>6, <1>7 DEF Next

\* When a managed CR goes, none of its cluster-scoped objects is left, given
\* that listings are fresh (finalizer.go, finalize).
THEOREM FinalizerComplete == FreshSpec => OrphanFree
<1> DEFINE Goes == cr # NoCR /\ cr' = NoCR /\ cr.managementState = "Managed"
                     => \A o \in ClusterScoped : store'[o] = NoObj
<1>1. Init => TypeOK /\ IInv /\ FinalizeCovers
  BY InitType, InitInv, InitCovers
<1>2. TypeOK /\ IInv /\ FinalizeCovers /\ [Next /\ ListsFresh]_vars
        => TypeOK' /\ IInv' /\ FinalizeCovers'
  <2>1. [Next /\ ListsFresh]_vars => [Next]_vars
    OBVIOUS
  <2> QED
    BY <2>1, NextInv, NextCovers
<1>3. TypeOK /\ IInv /\ FinalizeCovers /\ [Next /\ ListsFresh]_vars => [Goes]_vars
  <2> SUFFICES ASSUME TypeOK, IInv, FinalizeCovers, Next, cr # NoCR, cr' = NoCR,
                      cr.managementState = "Managed", NEW o \in ClusterScoped
               PROVE  store'[o] = NoObj
    OBVIOUS
  <2>1. CASE Environment
    <3>1. UserDelete
      <4>1. cr \in CRs
        BY DEF TypeOK, Versions
      <4>2. ASSUME NEW s \in Specs, UserSpec(s) PROVE FALSE
        <5>1. [cr EXCEPT !.spec = s] \in CRs
          BY <4>1 DEF CRs
        <5> QED
          BY <4>2, <5>1, BumpedType DEF UserSpec, WriteCR
      <4>3. ASSUME NEW m \in Managements, UserManage(m) PROVE FALSE
        <5>1. [cr EXCEPT !.managementState = m] \in CRs
          BY <4>1 DEF CRs
        <5> QED
          BY <4>3, <5>1, BumpedType DEF UserManage, WriteCR
      <4> QED
        BY <2>1, <4>2, <4>3 DEF Environment, SecretChange, ExternalDelete,
           ExternalEdit, WorkloadStatus, clusterVars
    <3>2. ~cr.finalizer /\ UNCHANGED store
      <4>1. cr \in CRs /\ [cr EXCEPT !.deleting = TRUE] \in CRs
        BY DEF TypeOK, Versions, CRs
      <4> QED
        BY <3>1, <4>1, BumpedType DEF UserDelete, WriteCR
    <3> QED
      BY <3>2 DEF IInv, FinalizerFirst
  <2>2. CASE Reconcile
    <3>1. RemoveFinalizer
      <4>1. ASSUME AddFinalizer PROVE FALSE
        <5>1. WriteCR(Bumped([cr EXCEPT !.finalizer = TRUE]))
          BY <4>1 DEF AddFinalizer
        <5>2. [cr EXCEPT !.finalizer = TRUE] \in CRs
          BY DEF TypeOK, Versions, CRs
        <5> QED
          BY <5>1, <5>2, BumpedType DEF WriteCR
      <4>2. ASSUME handleReconcileStatus PROVE FALSE
        <5>1. WriteCR(Bumped([cr EXCEPT !.condition = ConditionOf(outcome)]))
          BY <4>2 DEF handleReconcileStatus
        <5>2. [cr EXCEPT !.condition = ConditionOf(outcome)] \in CRs
          BY DEF TypeOK, Versions, CRs, ConditionOf, Conditions
        <5> QED
          BY <5>1, <5>2, BumpedType DEF WriteCR
      <4> QED
        BY <2>2, <4>1, <4>2 DEF Reconcile, StartReconcile, createOrUpdate,
           reconcileObject, AfterApply, pruneObject, AfterPrune, finalizeObject, clusterVars
    <3>2. /\ pc = "finalize" /\ owned = {} /\ ~errs /\ tempo = cr /\ UNCHANGED store
      BY <3>1 DEF RemoveFinalizer, Current
    <3> QED
      BY <3>2 DEF FinalizeCovers
  <2>3. CASE ~Environment /\ ~Reconcile
    <3>1. UNCHANGED cr
      BY <2>3 DEF Next, GarbageCollect, Deliver, Relist, DeliverCR, DeliverSecret,
         Restart, clusterVars
    <3> QED
      BY <3>1
  <2> QED
    BY <2>1, <2>2, <2>3
<1> QED
  BY <1>1, <1>2, <1>3, PTL DEF FreshSpec, OrphanFree
----------------------------------------------------------------------------
(* The promise: every step is one of StackLifecycle, or hidden.            *)

\* What a step may do to the CR.
SameLife   == /\ cr # NoCR /\ cr' # NoCR
              /\ cr'.finalizer = cr.finalizer /\ cr'.deleting = cr.deleting
SameManage == cr'.managementState = cr.managementState
MarksCR    == /\ cr # NoCR /\ cr' # NoCR /\ SameManage
              /\ cr.finalizer /\ ~cr.deleting /\ cr'.finalizer /\ cr'.deleting
DropsCR    == cr # NoCR /\ ~cr.finalizer /\ cr' = NoCR
HoldsCR    == /\ cr # NoCR /\ cr' # NoCR /\ SameManage
              /\ ~cr.finalizer /\ ~cr.deleting /\ cr'.finalizer /\ ~cr'.deleting
ReleasesCR == /\ cr # NoCR /\ cr.finalizer /\ cr.deleting /\ cr' = NoCR
              /\ pc = "finalize" /\ owned = {} /\ ~errs /\ tempo = cr

WritesCR == UNCHANGED store /\ (SameLife \/ MarksCR \/ DropsCR \/ HoldsCR \/ ReleasesCR)

\* A new CR has no deletion timestamp, and there is no worker yet.
LEMMA InitCopy == Init => CopyInv
<1> SUFFICES ASSUME Init PROVE CopyInv
  OBVIOUS
<1>1. PICK s \in Specs : cr = NewCR(s)
  BY DEF Init
<1> QED
  BY <1>1 DEF Init, CopyInv, NewCR

\* Requests of users: an edit keeps the life of the CR, a deletion marks it or,
\* without the finalizer, drops it.
LEMMA UserWrites ==
  ASSUME TypeOK, Environment
  PROVE  UNCHANGED <<pc, tempo>> /\ (UNCHANGED cr \/ WritesCR)
<1>1. ASSUME NEW s \in Specs, UserSpec(s) PROVE WritesCR
  <2>1. cr \in CRs /\ [cr EXCEPT !.spec = s] \in CRs /\ cr # NoCR
    BY <1>1 DEF UserSpec, TypeOK, Versions, CRs
  <2> QED
    BY <1>1, <2>1, BumpedType DEF UserSpec, WriteCR, CRs, WritesCR, SameLife
<1>2. ASSUME NEW m \in Managements, UserManage(m) PROVE WritesCR
  <2>1. cr \in CRs /\ [cr EXCEPT !.managementState = m] \in CRs /\ cr # NoCR
    BY <1>2 DEF UserManage, TypeOK, Versions, CRs
  <2> QED
    BY <1>2, <2>1, BumpedType DEF UserManage, WriteCR, CRs, WritesCR, SameLife
<1>3. ASSUME UserDelete PROVE WritesCR
  <2>1. cr \in CRs /\ [cr EXCEPT !.deleting = TRUE] \in CRs /\ cr # NoCR
    BY <1>3 DEF UserDelete, TypeOK, Versions, CRs
  <2>2. CASE cr.finalizer
    BY <1>3, <2>1, <2>2, BumpedType DEF UserDelete, WriteCR, CRs, WritesCR, MarksCR, SameManage
  <2>3. CASE ~cr.finalizer
    BY <1>3, <2>3 DEF UserDelete, WriteCR, WritesCR, DropsCR
  <2> QED
    BY <2>2, <2>3
<1>4. UNCHANGED <<pc, tempo>>
  BY DEF Environment, UserSpec, UserManage, UserDelete, SecretChange, ExternalDelete,
     ExternalEdit, WorkloadStatus, worker
<1> QED
  BY <1>1, <1>2, <1>3, <1>4 DEF Environment, SecretChange, ExternalDelete, ExternalEdit,
     WorkloadStatus, clusterVars

\* Requests of the worker: registering the finalizer holds the CR, a status
\* keeps its life, removing the finalizer releases it.
LEMMA WorkerWrites ==
  ASSUME TypeOK, CopyInv, Reconcile
  PROVE  UNCHANGED cr \/ WritesCR
<1>1. ASSUME AddFinalizer, cr' # cr PROVE WritesCR
  <2>1. /\ cr \in CRs /\ cr # NoCR /\ [cr EXCEPT !.finalizer = TRUE] \in CRs
        /\ tempo = cr /\ pc = "addFinalizer"
    BY <1>1 DEF AddFinalizer, Current, TypeOK, Versions, CRs
  <2>2. cr' = Bumped([cr EXCEPT !.finalizer = TRUE]) /\ UNCHANGED store
    BY <1>1 DEF AddFinalizer, WriteCR
  <2> QED
    BY <2>1, <2>2, BumpedType DEF CopyInv, CRs, WritesCR, HoldsCR, SameManage
<1>2. ASSUME handleReconcileStatus, cr' # cr PROVE WritesCR
  <2>1. cr' = Bumped([cr EXCEPT !.condition = ConditionOf(outcome)]) /\ UNCHANGED store /\ cr # NoCR
    BY <1>2 DEF handleReconcileStatus, WriteCR, StatusAccepted, Current
  <2>2. cr \in CRs /\ [cr EXCEPT !.condition = ConditionOf(outcome)] \in CRs
    BY <2>1 DEF TypeOK, Versions, CRs, ConditionOf, Conditions
  <2> QED
    BY <2>1, <2>2, BumpedType DEF CRs, WritesCR, SameLife
<1>3. ASSUME RemoveFinalizer, cr' # cr PROVE WritesCR
  <2>1. /\ cr' = NoCR /\ UNCHANGED store /\ cr # NoCR /\ tempo = cr
        /\ pc = "finalize" /\ owned = {} /\ ~errs
    BY <1>3 DEF RemoveFinalizer, WriteCR, Current
  <2> QED
    BY <2>1 DEF CopyInv, WritesCR, ReleasesCR
<1> QED
  BY <1>1, <1>2, <1>3 DEF Reconcile, StartReconcile, createOrUpdate, reconcileObject, AfterApply,
     pruneObject, AfterPrune, finalizeObject, clusterVars

\* Nobody else writes the CR.
LEMMA CRWrites ==
  ASSUME TypeOK, CopyInv, [Next]_vars
  PROVE  UNCHANGED cr \/ WritesCR
<1>1. CASE Environment
  BY <1>1, UserWrites
<1>2. CASE Reconcile
  BY <1>2, WorkerWrites
<1>3. CASE ~Environment /\ ~Reconcile
  BY <1>3 DEF Next, GarbageCollect, Deliver, Relist, DeliverCR, DeliverSecret, Restart,
     clusterVars, vars
<1> QED
  BY <1>1, <1>2, <1>3

\* What a worker has read does not change under it, and a deletion timestamp
\* is only set on a CR with the finalizer.
LEMMA NextCopy ==
  ASSUME TypeOK, CopyInv, [Next]_vars
  PROVE  CopyInv'
<1>1. cr' # NoCR /\ cr'.deleting => cr'.finalizer
  <2>1. CASE UNCHANGED cr
    BY <2>1 DEF CopyInv
  <2>2. CASE WritesCR
    BY <2>2 DEF CopyInv, WritesCR, SameLife, MarksCR, DropsCR, HoldsCR, ReleasesCR
  <2> QED
    BY <2>1, <2>2, CRWrites
<1>2. /\ pc' = "addFinalizer" => ~tempo'.finalizer /\ ~tempo'.deleting
      /\ pc' = "finalize" => tempo'.finalizer /\ tempo'.deleting
  <2>1. CASE UNCHANGED <<pc, tempo>>
    BY <2>1 DEF CopyInv
  <2>2. CASE pc' \notin {"addFinalizer", "finalize"}
    BY <2>2
  <2>3. CASE StartReconcile
    BY <2>3 DEF StartReconcile, needsFinalizer, AfterFinalizer
  <2>4. ASSUME \/ Restart \/ AddFinalizer \/ createOrUpdate \/ AfterApply \/ AfterPrune
               \/ handleReconcileStatus \/ RemoveFinalizer
        PROVE  pc' \notin {"addFinalizer", "finalize"}
    BY <2>4 DEF Restart, AddFinalizer, createOrUpdate, AfterApply, AfterPrune,
       handleReconcileStatus, RemoveFinalizer, Release, Return, Requeue, AfterFinalizer, Fail
  <2>5. ASSUME \/ reconcileObject \/ pruneObject \/ finalizeObject \/ UNCHANGED vars
               \/ DeliverCR \/ DeliverSecret
               \/ \E o \in Objects : GarbageCollect(o) \/ Deliver(o) \/ Relist(o)
        PROVE  UNCHANGED <<pc, tempo>>
    BY <2>5 DEF reconcileObject, pruneObject, finalizeObject, vars, DeliverCR, DeliverSecret,
       GarbageCollect, Deliver, Relist, worker
  <2> QED
    BY <2>1, <2>2, <2>3, <2>4, <2>5, UserWrites DEF Next, Reconcile
<1> QED
  BY <1>1, <1>2 DEF CopyInv

\* Objects appear only in the hands of a pass.
LEMMA ObjectsAppear ==
  ASSUME TypeOK, [Next]_vars
  PROVE  \/ \A o \in Objects : store'[o] # NoObj => store[o] # NoObj
         \/ pc = "apply" /\ UNCHANGED cr
<1>1. ASSUME NEW o \in Objects, WriteObj(o, NoObj)
      PROVE  \A q \in Objects : store'[q] # NoObj => store[q] # NoObj
  BY <1>1 DEF WriteObj, TypeOK
<1>2. ASSUME NEW o \in Objects, NEW v \in Values, ExternalEdit(o, v)
      PROVE  \A q \in Objects : store'[q] # NoObj => store[q] # NoObj
  BY <1>2 DEF ExternalEdit, WriteObj, TypeOK
<1>3. ASSUME pruneObject \/ finalizeObject
      PROVE  \A q \in Objects : store'[q] # NoObj => store[q] # NoObj
  <2>1. PICK p \in owned : DeleteOwned(p[1])
    BY <1>3 DEF pruneObject, finalizeObject
  <2>2. p[1] \in Objects
    BY DEF TypeOK
  <2> QED
    BY <1>1, <2>1, <2>2 DEF DeleteOwned
<1>4. ASSUME reconcileObject
      PROVE  pc = "apply" /\ UNCHANGED cr
  BY <1>4 DEF reconcileObject
<1>5. ASSUME NEW o \in Objects, ExternalDelete(o) \/ GarbageCollect(o)
      PROVE  \A q \in Objects : store'[q] # NoObj => store[q] # NoObj
  BY <1>1, <1>5 DEF ExternalDelete, GarbageCollect
<1>6. ASSUME UNCHANGED store
      PROVE  \A q \in Objects : store'[q] # NoObj => store[q] # NoObj
  BY <1>6
<1>7. CASE Environment
  <2>1. \/ UNCHANGED store
        \/ \E o \in Objects : ExternalDelete(o)
        \/ \E o \in Objects, v \in Values : ExternalEdit(o, v)
    BY <1>7 DEF Environment, UserSpec, UserManage, UserDelete, SecretChange, WorkloadStatus, clusterVars
  <2> QED
    BY <1>2, <1>5, <1>6, <2>1
<1>8. CASE Reconcile
  <2>1. UNCHANGED store \/ pruneObject \/ finalizeObject \/ reconcileObject
    BY <1>8 DEF Reconcile, StartReconcile, AddFinalizer, createOrUpdate, AfterApply, AfterPrune,
       handleReconcileStatus, RemoveFinalizer, clusterVars
  <2> QED
    BY <1>3, <1>4, <1>6, <2>1
<1>9. CASE ~Environment /\ ~Reconcile
  <2>1. UNCHANGED store \/ \E o \in Objects : GarbageCollect(o)
    BY <1>9 DEF Next, Deliver, Relist, DeliverCR, DeliverSecret, Restart, clusterVars, vars
  <2> QED
    BY <1>5, <1>6, <2>1
<1> QED
  BY <1>7, <1>8, <1>9

\* Each step is one of StackLifecycle, or does not show.
LEMMA LifecycleStep ==
  ASSUME TypeOK, IInv, FinalizeCovers, CopyInv, [Next]_vars
  PROVE  [L!Next]_(L!vars)
<1> DEFINE existing == {o \in Objects : store[o] # NoObj}
           managed  == cr # NoCR /\ cr.managementState = "Managed"
<1>1. CASE UNCHANGED cr
  <2>1. phase' = phase /\ managed' = managed
    BY <1>1 DEF phase
  <2>2. CASE \A o \in Objects : store'[o] # NoObj => store[o] # NoObj
    <3>1. existing' \in SUBSET existing
      BY <2>2
    <3> QED
      BY <2>1, <3>1 DEF L!Next, L!Lose
  <2>3. CASE pc = "apply"
    <3>1. phase \in {"held", "going"}
      BY <2>3 DEF IInv, WriterHasFinalizer, phase
    <3>2. existing' \in SUBSET Objects
      OBVIOUS
    <3> QED
      BY <2>1, <3>1, <3>2 DEF L!Next, L!Work
  <2> QED
    BY <2>2, <2>3, ObjectsAppear
<1>2. CASE WritesCR
  <2>0. existing' = existing
    BY <1>2 DEF WritesCR
  <2>1. CASE SameLife /\ SameManage
    <3>1. phase' = phase /\ managed' = managed
      BY <2>1 DEF SameLife, SameManage, phase
    <3> QED
      BY <2>0, <3>1 DEF L!vars
  <2>2. CASE SameLife /\ ~SameManage
    <3>1. phase' = phase /\ phase # "gone"
      BY <2>2 DEF SameLife, phase
    <3>2. cr \in CRs /\ cr' \in CRs
      BY <2>2, NextInv DEF SameLife, TypeOK, Versions
    <3>3. managed' = ~managed
      BY <2>2, <3>2 DEF SameLife, SameManage, CRs, Managements
    <3> QED
      BY <2>0, <3>1, <3>3 DEF L!Next, L!Manage
  <2>3. CASE MarksCR
    <3>1. phase = "held" /\ phase' = "going" /\ managed' = managed
      BY <2>3 DEF MarksCR, SameManage, phase
    <3> QED
      BY <2>0, <3>1 DEF L!Next, L!Delete
  <2>4. CASE HoldsCR
    <3>1. phase = "new" /\ phase' = "held" /\ managed' = managed
      BY <2>4 DEF HoldsCR, SameManage, phase
    <3> QED
      BY <2>0, <3>1 DEF L!Next, L!Hold
  <2>5. CASE DropsCR
    <3>1. phase = "new" /\ phase' = "gone" /\ managed' = FALSE
      BY <2>5 DEF DropsCR, phase
    <3> QED
      BY <2>0, <3>1 DEF L!Next, L!Leave
  <2>6. CASE ReleasesCR
    <3>1. phase = "going" /\ phase' = "gone" /\ managed' = FALSE
      BY <2>6 DEF ReleasesCR, phase
    <3>2. managed => existing \cap ClusterScoped = {}
      BY <2>6 DEF ReleasesCR, FinalizeCovers
    <3> QED
      BY <2>0, <3>1, <3>2 DEF L!Next, L!Leave
  <2> QED
    BY <1>2, <2>1, <2>2, <2>3, <2>4, <2>5, <2>6 DEF WritesCR
<1> QED
  BY <1>1, <1>2, CRWrites

\* StackLifecycle is what users see, given that listings are fresh: the CR is
\* held by the finalizer before anything exists for it, nothing appears for one
\* that has left, and a managed one leaves only without cluster-scoped objects.
THEOREM LifecycleSteps == FreshSpec => L!Steps
<1>1. Init => TypeOK /\ IInv /\ FinalizeCovers /\ CopyInv
  BY InitType, InitInv, InitCovers, InitCopy
<1>2. Init => L!Init
  <2> SUFFICES ASSUME Init PROVE L!Init
    OBVIOUS
  <2>1. PICK s \in Specs : cr = NewCR(s)
    BY DEF Init
  <2>2. cr # NoCR
    <3>1. NewCR(s) \in CRs
      BY BoundsAssumption DEF NewCR, CRs, Managements, Conditions
    <3> QED
      BY <2>1, <3>1, AbsenceAssumption
  <2>3. phase = "new" /\ (cr # NoCR /\ cr.managementState = "Managed") = TRUE
    BY <2>1, <2>2 DEF NewCR, phase
  <2>4. {o \in Objects : store[o] # NoObj} = {}
    BY DEF Init
  <2> QED
    BY <2>3, <2>4 DEF L!Init
<1>3. TypeOK /\ IInv /\ FinalizeCovers /\ CopyInv /\ [Next /\ ListsFresh]_vars
        => (TypeOK /\ IInv /\ FinalizeCovers /\ CopyInv)' /\ [L!Next]_(L!vars)
  <2>1. [Next /\ ListsFresh]_vars => [Next]_vars
    OBVIOUS
  <2> QED
    BY <2>1, NextInv, NextCovers, NextCopy, LifecycleStep
<1> QED
  BY <1>1, <1>2, <1>3, PTL DEF FreshSpec, L!Steps

----------------------------------------------------------------------------
(* Pruning.                                                                *)

\* There is nothing to prune at first.
LEMMA InitPrune == Init => IncarnationOrder /\ PruneInv
<1> SUFFICES ASSUME Init PROVE IncarnationOrder /\ PruneInv
  OBVIOUS
<1>1. ASSUME NEW o \in Objects
      PROVE  store[o] = NoObj /\ cache[o] = NoObj /\ watch[o] = <<>> /\ 1..Len(watch[o]) = {}
  BY DEF Init
<1> QED
  BY <1>1 DEF Init, IncarnationOrder, PruneInv, AtMost, AtLeast

\* The order of the incarnations of one object.
Ordered(o) ==
  /\ store[o] # NoObj => store[o].uid = uids[o]
  /\ AtMost(cache[o], uids[o])
  /\ \A k \in 1..Len(watch[o]) : AtMost(watch[o][k], uids[o])
  /\ cache[o] # NoObj => \A k \in 1..Len(watch[o]) : AtLeast(watch[o][k], cache[o].uid)
  /\ \A j, k \in 1..Len(watch[o]) :
       j < k /\ watch[o][j] # NoObj => AtLeast(watch[o][k], watch[o][j].uid)

\* It is not disturbed by what happens to other objects.
LEMMA OrderElsewhere ==
  ASSUME NEW q \in Objects, Ordered(q),
         store'[q] = store[q], cache'[q] = cache[q], watch'[q] = watch[q], uids'[q] = uids[q]
  PROVE  Ordered(q)'
  BY DEF Ordered, AtMost, AtLeast

\* The next event of a stream is followed by the rest of it.
LEMMA StreamTail ==
  ASSUME TypeOK, NEW o \in Objects, watch[o] # <<>>
  PROVE  /\ Len(watch[o]) \in Nat \ {0} /\ Head(watch[o]) = watch[o][1]
         /\ Len(Tail(watch[o])) = Len(watch[o]) - 1
         /\ \A k \in 1..(Len(watch[o]) - 1) : Tail(watch[o])[k] = watch[o][k + 1]
<1>1. watch[o] \in Seq(Objs \cup {NoObj})
  BY DEF TypeOK
<1> QED
  BY <1>1

\* A write of the latest incarnation, or of a new one, keeps the order, and so
\* does a deletion.
LEMMA WriteOrder ==
  ASSUME TypeOK, NEW o \in Objects, NEW x \in Objs \cup {NoObj}, WriteObj(o, x), UNCHANGED cache,
         Ordered(o), uids'[o] \in Nat, uids[o] <= uids'[o], x # NoObj => x.uid = uids'[o]
  PROVE  Ordered(o)'
<1>0. /\ uids[o] \in Nat /\ cache[o] \in Objs \cup {NoObj} /\ watch[o] \in Seq(Objs \cup {NoObj})
      /\ watch'[o] = Append(watch[o], x) /\ store'[o] = x /\ cache'[o] = cache[o]
  BY DEF TypeOK, WriteObj
<1> DEFINE w == watch[o]
           n == Len(w)
<1>1. /\ n \in Nat /\ Len(watch'[o]) = n + 1 /\ watch'[o][n + 1] = x
      /\ \A k \in 1..n : watch'[o][k] = w[k] /\ w[k] \in Objs \cup {NoObj}
  BY <1>0
<1>2. ASSUME NEW y \in Objs \cup {NoObj}, AtMost(y, uids[o])
      PROVE  AtMost(y, uids'[o]) /\ (y # NoObj => AtLeast(x, y.uid))
  BY <1>0, <1>2 DEF AtMost, AtLeast, Objs
<1>3. AtMost(x, uids'[o])
  BY DEF AtMost
<1>4. AtMost(cache[o], uids[o]) /\ \A k \in 1..n : AtMost(w[k], uids[o])
  BY DEF Ordered
<1>5. /\ cache[o] # NoObj => \A k \in 1..n : AtLeast(w[k], cache[o].uid)
      /\ \A j, k \in 1..n : j < k /\ w[j] # NoObj => AtLeast(w[k], w[j].uid)
  BY DEF Ordered
<1> HIDE DEF n, w
<1>6. \A k \in 1..Len(watch'[o]) : k = n + 1 \/ k \in 1..n
  BY <1>1
<1>7. AtMost(cache'[o], uids'[o]) /\ \A k \in 1..Len(watch'[o]) : AtMost(watch'[o][k], uids'[o])
  BY <1>0, <1>1, <1>2, <1>3, <1>4, <1>6
<1>8. cache'[o] # NoObj => \A k \in 1..Len(watch'[o]) : AtLeast(watch'[o][k], cache'[o].uid)
  BY <1>0, <1>1, <1>2, <1>4, <1>5, <1>6
<1>9. ASSUME NEW j \in 1..Len(watch'[o]), NEW k \in 1..Len(watch'[o]), j < k, watch'[o][j] # NoObj
      PROVE  AtLeast(watch'[o][k], watch'[o][j].uid)
  <2>1. j \in 1..n
    BY <1>1, <1>9
  <2>2. CASE k \in 1..n
    BY <1>1, <1>5, <1>9, <2>1, <2>2
  <2>3. CASE k = n + 1
    BY <1>1, <1>2, <1>4, <1>9, <2>1, <2>3
  <2> QED
    BY <1>6, <2>2, <2>3
<1>10. store'[o] # NoObj => store'[o].uid = uids'[o]
  BY <1>0
<1> QED
  BY <1>7, <1>8, <1>9, <1>10 DEF Ordered, AtMost, AtLeast

\* So does the delivery of an event.
LEMMA DeliverOrder ==
  ASSUME TypeOK, NEW o \in Objects, Ordered(o), watch[o] # <<>>, UNCHANGED <<store, uids>>,
         cache'[o] = Head(watch[o]), watch'[o] = Tail(watch[o])
  PROVE  Ordered(o)'
<1>1. /\ Len(watch[o]) \in Nat \ {0} /\ cache'[o] = watch[o][1]
      /\ Len(watch'[o]) = Len(watch[o]) - 1
      /\ \A k \in 1..(Len(watch[o]) - 1) : watch'[o][k] = watch[o][k + 1]
  BY StreamTail
<1>2. /\ 1 \in 1..Len(watch[o])
      /\ \A k \in 1..Len(watch'[o]) : k + 1 \in 1..Len(watch[o]) /\ 1 < k + 1 /\ watch'[o][k] = watch[o][k + 1]
  BY <1>1
<1>3. AtMost(cache'[o], uids[o]) /\ \A k \in 1..Len(watch'[o]) : AtMost(watch'[o][k], uids[o])
  BY <1>1, <1>2 DEF Ordered
<1>4. cache'[o] # NoObj => \A k \in 1..Len(watch'[o]) : AtLeast(watch'[o][k], cache'[o].uid)
  BY <1>1, <1>2 DEF Ordered
<1>5. ASSUME NEW j \in 1..Len(watch'[o]), NEW k \in 1..Len(watch'[o]), j < k, watch'[o][j] # NoObj
      PROVE  AtLeast(watch'[o][k], watch'[o][j].uid)
  <2>1. j + 1 < k + 1
    BY <1>1, <1>5
  <2> QED
    BY <1>2, <1>5, <2>1 DEF Ordered
<1>6. store'[o] # NoObj => store'[o].uid = uids'[o]
  BY DEF Ordered
<1> QED
  BY <1>3, <1>4, <1>5, <1>6 DEF Ordered, AtMost, AtLeast

\* So does a cache that is filled by a listing.
LEMMA ListOrder ==
  ASSUME TypeOK, NEW o \in Objects, Ordered(o), UNCHANGED <<store, uids>>,
         cache'[o] = store[o], watch'[o] = <<>>
  PROVE  Ordered(o)'
<1>1. 1..Len(watch'[o]) = {}
  OBVIOUS
<1>2. uids[o] \in Nat
  BY DEF TypeOK
<1> QED
  BY <1>1, <1>2 DEF Ordered, AtMost, AtLeast

\* A step that writes at most one object, and creates it with the next UID, if
\* it creates it, keeps the order.
LEMMA WriteOrders ==
  ASSUME TypeOK, IncarnationOrder, UNCHANGED cache, NEW o \in Objects, NEW x \in Objs \cup {NoObj},
         WriteObj(o, x), uids' \in [Objects -> Nat],
         \A q \in Objects : uids[q] <= uids'[q] /\ (q # o => uids'[q] = uids[q]),
         x # NoObj => x.uid = uids'[o]
  PROVE  IncarnationOrder'
<1> SUFFICES ASSUME NEW q \in Objects PROVE Ordered(q)'
  BY DEF Ordered, IncarnationOrder, AtMost, AtLeast
<1>1. Ordered(q)
  BY DEF Ordered, IncarnationOrder
<1>2. CASE q = o
  BY <1>1, <1>2, WriteOrder
<1>3. CASE q # o
  <2>1. store'[q] = store[q] /\ watch'[q] = watch[q] /\ cache'[q] = cache[q] /\ uids'[q] = uids[q]
    BY <1>3 DEF WriteObj, TypeOK
  <2> QED
    BY <1>1, <2>1, OrderElsewhere
<1> QED
  BY <1>2, <1>3

\* The content of an object changes; the incarnation stays.
LEMMA EditedObject ==
  ASSUME TypeOK, NEW o \in Objects, store[o] # NoObj, NEW v \in Values
  PROVE  LET x == [store[o] EXCEPT !.val = v]
         IN  x \in Objs /\ x # NoObj /\ x.uid = store[o].uid
  BY AbsenceAssumption, ZenonT(60) DEF TypeOK, Objs

\* Every step keeps the order of the incarnations.
LEMMA NextOrder ==
  ASSUME TypeOK, IInv, IncarnationOrder, [Next]_vars
  PROVE  IncarnationOrder'
<1>o. ASSUME NEW q \in Objects PROVE Ordered(q)
  BY DEF Ordered, IncarnationOrder
<1>s. ASSUME \A q \in Objects : Ordered(q)' PROVE IncarnationOrder'
  BY <1>s DEF Ordered, IncarnationOrder, AtMost, AtLeast
<1>a. ASSUME UNCHANGED <<store, cache, watch, uids>> PROVE IncarnationOrder'
  BY <1>a DEF IncarnationOrder, AtMost, AtLeast
<1>d. ASSUME NEW o \in Objects, WriteObj(o, NoObj), UNCHANGED <<cache, uids>> PROVE IncarnationOrder'
  <2>1. uids' \in [Objects -> Nat] /\ \A q \in Objects : uids[q] <= uids'[q] /\ uids'[q] = uids[q]
    BY <1>d DEF TypeOK
  <2> QED
    BY <1>d, <2>1, WriteOrders
<1>e. ASSUME NEW o \in Objects, NEW v \in Values, store[o] # NoObj,
             WriteObj(o, [store[o] EXCEPT !.val = v]), UNCHANGED <<cache, uids>>
      PROVE  IncarnationOrder'
  <2>1. uids' \in [Objects -> Nat] /\ \A q \in Objects : uids[q] <= uids'[q] /\ uids'[q] = uids[q]
    BY <1>e DEF TypeOK
  <2> DEFINE x == [store[o] EXCEPT !.val = v]
  <2>2. x \in Objs /\ x # NoObj /\ x.uid = store[o].uid
    BY <1>e, EditedObject
  <2>3. x.uid = uids'[o]
    BY <1>e, <2>1, <2>2 DEF IncarnationOrder
  <2>4. WriteObj(o, x)
    BY <1>e
  <2> HIDE DEF x
  <2> QED
    BY <1>e, <2>1, <2>2, <2>3, <2>4, WriteOrders
<1>1. ASSUME NEW o \in Objects, ExternalDelete(o) \/ GarbageCollect(o) PROVE IncarnationOrder'
  BY <1>1, <1>d DEF ExternalDelete, GarbageCollect
<1>2. ASSUME NEW o \in Objects, NEW v \in Values, ExternalEdit(o, v) PROVE IncarnationOrder'
  BY <1>2, <1>e DEF ExternalEdit
<1>3. ASSUME NEW o \in Objects, Deliver(o) \/ Relist(o) PROVE IncarnationOrder'
  <2>1. /\ \/ watch[o] # <<>> /\ cache'[o] = Head(watch[o]) /\ watch'[o] = Tail(watch[o])
           \/ cache'[o] = store[o] /\ watch'[o] = <<>>
        /\ \A q \in Objects \ {o} : cache'[q] = cache[q] /\ watch'[q] = watch[q]
        /\ UNCHANGED <<store, uids>>
    BY <1>3 DEF Deliver, Relist, clusterVars, TypeOK
  <2>2. Ordered(o)'
    BY <1>o, <2>1, DeliverOrder, ListOrder
  <2>3. ASSUME NEW q \in Objects \ {o} PROVE Ordered(q)'
    BY <1>o, <2>1, OrderElsewhere
  <2> QED
    BY <1>s, <2>2, <2>3
<1>4. CASE Restart
  <2>1. ASSUME NEW q \in Objects PROVE Ordered(q)'
    <3>1. cache'[q] = store[q] /\ watch'[q] = <<>> /\ UNCHANGED <<store, uids>>
      BY <1>4 DEF Restart, clusterVars
    <3> QED
      BY <1>o, <3>1, ListOrder
  <2> QED
    BY <1>s, <2>1
<1>5. CASE reconcileObject
  <2>1. PICK i \in todo : LET o == BuildOrder[i]
                          IN \/ CreateObject(o) \/ UnchangedObject(o) \/ UpdateObject(o)
                             \/ DeleteImmutable(o) \/ RejectedWrite(o) \/ FailedWrite(o)
    BY <1>5 DEF reconcileObject
  <2> DEFINE o == BuildOrder[i]
  <2>2. o \in Objects /\ desired[o] \in Values
    BY ObjectToReconcile
  <2>3. UNCHANGED cache
    BY <1>5 DEF reconcileObject
  <2> HIDE DEF o
  <2>4. CASE CreateObject(o)
    <3> DEFINE x == [uid |-> NextUID(o), val |-> desired[o]]
    <3>1. WriteObj(o, x) /\ uids' = [uids EXCEPT ![o] = NextUID(o)]
      BY <2>4 DEF CreateObject
    <3>2. /\ uids' \in [Objects -> Nat] /\ uids'[o] = NextUID(o)
          /\ \A q \in Objects : uids[q] <= uids'[q] /\ (q # o => uids'[q] = uids[q])
      BY <2>2, <3>1 DEF TypeOK, NextUID
    <3>3. x \in Objs /\ x.uid = uids'[o]
      BY <2>2, <3>2, NextUIDType DEF Objs
    <3> HIDE DEF x
    <3> QED
      BY <2>2, <2>3, <3>1, <3>2, <3>3, WriteOrders
  <2>5. CASE UpdateObject(o)
    <3>1. /\ WriteObj(o, [store[o] EXCEPT !.val = desired[o]]) /\ UNCHANGED uids
          /\ store[o] # NoObj
      BY <2>2, <2>5 DEF UpdateObject, UpToDate, IInv, ObjStreamInv
    <3> QED
      BY <1>e, <2>2, <2>3, <3>1
  <2>6. CASE DeleteImmutable(o)
    BY <1>d, <2>2, <2>3, <2>6 DEF DeleteImmutable
  <2>7. CASE UnchangedObject(o) \/ RejectedWrite(o) \/ FailedWrite(o)
    BY <1>a, <2>3, <2>7 DEF UnchangedObject, RejectedWrite, FailedWrite
  <2> QED
    BY <2>1, <2>4, <2>5, <2>6, <2>7 DEF o
<1>6. CASE pruneObject \/ finalizeObject
  <2>1. PICK p \in owned : DeleteOwned(p[1])
    BY <1>6 DEF pruneObject, finalizeObject
  <2>2. p[1] \in Objects /\ UNCHANGED <<cache, uids>>
    BY <1>6 DEF TypeOK, pruneObject, finalizeObject
  <2> QED
    BY <1>a, <1>d, <2>1, <2>2 DEF DeleteOwned
<1>7. CASE \/ StartReconcile \/ AddFinalizer \/ createOrUpdate \/ AfterApply \/ AfterPrune
           \/ handleReconcileStatus \/ RemoveFinalizer
           \/ \E s \in Specs : UserSpec(s)
           \/ \E m \in Managements : UserManage(m)
           \/ UserDelete
           \/ \E s \in Secrets : SecretChange(s)
           \/ \E o \in Objects : WorkloadStatus(o)
           \/ DeliverCR \/ DeliverSecret \/ UNCHANGED vars
  <2>1. UNCHANGED <<store, cache, watch, uids>>
    BY <1>7 DEF StartReconcile, AddFinalizer, createOrUpdate, AfterApply, AfterPrune,
       handleReconcileStatus, RemoveFinalizer, UserSpec, UserManage, UserDelete, SecretChange,
       WorkloadStatus, DeliverCR, DeliverSecret, clusterVars, objStream, vars
  <2> QED
    BY <1>a, <2>1
<1> QED
  BY <1>1, <1>2, <1>3, <1>4, <1>5, <1>6, <1>7 DEF Next, Environment, Reconcile

\* Whoever follows the latest incarnation still does after a write of it, or
\* of another object.
LEMMA WriteFollows ==
  ASSUME TypeOK, NEW o \in Objects, NEW x \in Objs \cup {NoObj}, WriteObj(o, x), UNCHANGED cache,
         NEW q \in Objects, NEW uid \in Nat, Follows(q, uid), q = o => AtLeast(x, uid)
  PROVE  Follows(q, uid)'
<1>1. CASE q = o
  <2>1. watch[o] \in Seq(Objs \cup {NoObj}) /\ watch'[o] = Append(watch[o], x)
    BY DEF WriteObj, TypeOK
  <2>2. ASSUME NEW k \in 1..Len(watch'[o])
        PROVE  watch'[o][k] = x \/ (k \in 1..Len(watch[o]) /\ watch'[o][k] = watch[o][k])
    BY <2>1
  <2> QED
    BY <1>1, <2>1, <2>2 DEF Follows, AtLeast
<1>2. CASE q # o
  <2>1. watch'[q] = watch[q] /\ cache'[q] = cache[q]
    BY <1>2 DEF WriteObj, TypeOK
  <2> QED
    BY <2>1 DEF Follows, AtLeast
<1> QED
  BY <1>1, <1>2

\* The invariant survives a step that leaves the pass and the UIDs alone and
\* shows nobody an older incarnation.
LEMMA PruneStable ==
  ASSUME TypeOK, PruneInv, UNCHANGED <<pc, errs, owned, desired, todo, uids>>,
         \A o \in Objects : Follows(o, uids[o]) => Follows(o, uids[o])'
  PROVE  PruneInv'
<1> SUFFICES ASSUME pc \in {"apply", "prune"}, errs => pc = "prune", NEW p \in owned,
                    desired[p[1]] # NoVal, ~(p[2] < uids[p[1]])
             PROVE  /\ pc = "apply" /\ p[2] = uids[p[1]] /\ Follows(p[1], p[2])'
                    /\ \E i \in todo : BuildOrder[i] = p[1]
  BY DEF PruneInv
<1>1. p[1] \in Objects
  BY DEF TypeOK
<1>2. /\ pc = "apply" /\ p[2] = uids[p[1]] /\ Follows(p[1], p[2])
      /\ \E i \in todo : BuildOrder[i] = p[1]
  BY DEF PruneInv
<1>3. Follows(p[1], uids[p[1]])'
  BY <1>1, <1>2
<1>4. Follows(p[1], p[2])'
  BY <1>2, <1>3
<1> QED
  BY <1>2, <1>4

\* Every step keeps the invariant, whatever the age of the listing.
LEMMA NextPrune ==
  ASSUME TypeOK, IInv, IncarnationOrder, PruneInv, [Next]_vars
  PROVE  PruneInv'
<1>a. ASSUME pc' \notin {"apply", "prune"} PROVE PruneInv'
  BY <1>a DEF PruneInv
<1>b. ASSUME UNCHANGED <<cache, watch, pc, errs, owned, desired, todo, uids>> PROVE PruneInv'
  BY <1>b, PruneStable DEF Follows, AtLeast
<1>u. ASSUME NEW o \in Objects PROVE uids[o] \in Nat
  BY DEF TypeOK
<1>1. ASSUME NEW o \in Objects, ExternalDelete(o) PROVE PruneInv'
  <2>1. WriteObj(o, NoObj) /\ UNCHANGED <<cache, pc, errs, owned, desired, todo, uids>>
    BY <1>1 DEF ExternalDelete, worker
  <2>2. ASSUME NEW q \in Objects, Follows(q, uids[q]) PROVE Follows(q, uids[q])'
    <3>1. AtLeast(NoObj, uids[q])
      BY DEF AtLeast
    <3>2. \A uid \in Nat : Follows(q, uid) /\ AtLeast(NoObj, uid) => Follows(q, uid)'
      BY <2>1, WriteFollows
    <3> QED
      BY <1>u, <2>1, <2>2, <3>1, <3>2
  <2> QED
    BY <2>1, <2>2, PruneStable
<1>2. ASSUME NEW o \in Objects, NEW v \in Values, ExternalEdit(o, v) PROVE PruneInv'
  <2> DEFINE x == [store[o] EXCEPT !.val = v]
  <2>1. WriteObj(o, x) /\ UNCHANGED <<cache, pc, errs, owned, desired, todo, uids>> /\ store[o] # NoObj
    BY <1>2 DEF ExternalEdit, worker
  <2>2. x \in Objs /\ x.uid = store[o].uid
    BY <2>1, EditedObject
  <2>3. AtLeast(x, uids[o])
    BY <1>u, <2>1, <2>2 DEF IncarnationOrder, AtLeast
  <2> HIDE DEF x
  <2>4. ASSUME NEW q \in Objects, Follows(q, uids[q]) PROVE Follows(q, uids[q])'
    <3>1. \A uid \in Nat : Follows(q, uid) /\ (q = o => AtLeast(x, uid)) => Follows(q, uid)'
      BY <2>1, <2>2, WriteFollows
    <3> QED
      BY <1>u, <2>1, <2>3, <2>4, <3>1
  <2> QED
    BY <2>1, <2>4, PruneStable
<1>3. ASSUME NEW o \in Objects, GarbageCollect(o) PROVE PruneInv'
  BY <1>a, <1>3 DEF GarbageCollect, IInv, WriterHasFinalizer, worker
<1>4. ASSUME NEW o \in Objects, Deliver(o) PROVE PruneInv'
  <2>1. /\ cache' = [cache EXCEPT ![o] = Head(watch[o])] /\ watch' = [watch EXCEPT ![o] = Tail(watch[o])]
        /\ UNCHANGED <<pc, errs, owned, desired, todo, uids>> /\ watch[o] # <<>>
    BY <1>4 DEF Deliver, clusterVars, worker
  <2>2. ASSUME NEW q \in Objects, Follows(q, uids[q]) PROVE Follows(q, uids[q])'
    <3>1. CASE q = o
      <4>1. cache'[o] = Head(watch[o]) /\ watch'[o] = Tail(watch[o])
        BY <2>1 DEF TypeOK
      <4>2. AtLeast(cache'[o], uids[o])
        BY <2>1, <2>2, <3>1, <4>1, StreamTail DEF Follows
      <4>3. ASSUME NEW k \in 1..Len(watch'[o]) PROVE AtLeast(watch'[o][k], uids[o])
        <5>0. /\ Len(watch[o]) \in Nat \ {0} /\ Len(watch'[o]) = Len(watch[o]) - 1
              /\ \A j \in 1..(Len(watch[o]) - 1) : watch'[o][j] = watch[o][j + 1]
          BY <2>1, <4>1, StreamTail
        <5>1. k + 1 \in 1..Len(watch[o]) /\ watch'[o][k] = watch[o][k + 1]
          BY <4>3, <5>0
        <5> QED
          BY <2>2, <3>1, <5>1 DEF Follows
      <4> QED
        BY <2>1, <3>1, <4>2, <4>3 DEF Follows, AtLeast
    <3>2. CASE q # o
      <4>1. cache'[q] = cache[q] /\ watch'[q] = watch[q]
        BY <2>1, <3>2 DEF TypeOK
      <4> QED
        BY <2>1, <2>2, <4>1 DEF Follows, AtLeast
    <3> QED
      BY <3>1, <3>2
  <2> QED
    BY <2>1, <2>2, PruneStable
<1>5. ASSUME NEW o \in Objects, Relist(o) PROVE PruneInv'
  <2>1. /\ cache' = [cache EXCEPT ![o] = store[o]] /\ watch' = [watch EXCEPT ![o] = <<>>]
        /\ UNCHANGED <<pc, errs, owned, desired, todo, uids>>
    BY <1>5 DEF Relist, clusterVars, worker
  <2>2. ASSUME NEW q \in Objects, Follows(q, uids[q]) PROVE Follows(q, uids[q])'
    <3>1. CASE q = o
      <4>1. cache'[o] = store[o] /\ 1..Len(watch'[o]) = {}
        BY <2>1 DEF TypeOK
      <4>2. AtLeast(store[o], uids[o])
        BY <1>u DEF IncarnationOrder, AtLeast
      <4> QED
        BY <2>1, <3>1, <4>1, <4>2 DEF Follows, AtLeast
    <3>2. CASE q # o
      <4>1. cache'[q] = cache[q] /\ watch'[q] = watch[q]
        BY <2>1, <3>2 DEF TypeOK
      <4> QED
        BY <2>1, <2>2, <4>1 DEF Follows, AtLeast
    <3> QED
      BY <3>1, <3>2
  <2> QED
    BY <2>1, <2>2, PruneStable
<1>6. ASSUME createOrUpdate, pc' = "apply" PROVE PruneInv'
  <2>1. /\ desired' = Want[<<tempo.spec, secretCache>>] /\ todo' = managedObjects(desired')
        /\ owned' = findObjectsOwnedByTempoOperator /\ UNCHANGED <<cache, watch, uids>>
    BY <1>6 DEF createOrUpdate, Fail, clusterVars, objStream
  <2>2. ASSUME NEW p \in owned', desired'[p[1]] # NoVal, ~(p[2] < uids'[p[1]])
        PROVE  p[2] = uids'[p[1]] /\ Follows(p[1], p[2])' /\ \E i \in todo' : BuildOrder[i] = p[1]
    <3>1. PICK o \in Listed : cache[o] # NoObj /\ p = <<o, cache[o].uid>>
      BY <2>1, <2>2 DEF findObjectsOwnedByTempoOperator
    <3>2. o \in Objects /\ cache[o].uid \in Nat
      BY <3>1, ObjectsAssumption DEF TypeOK, Objs
    <3>3. p[2] = uids'[p[1]]
      BY <1>u, <2>1, <2>2, <3>1, <3>2 DEF IncarnationOrder, AtMost
    <3>4. Follows(o, cache[o].uid)
      BY <3>1, <3>2 DEF IncarnationOrder, Follows, AtLeast
    <3>5. Follows(p[1], p[2])'
      BY <2>1, <3>1, <3>4 DEF Follows, AtLeast
    <3>6. PICK i \in DOMAIN BuildOrder : BuildOrder[i] = o
      BY <3>2, OrderAssumption
    <3>7. i \in todo'
      BY <2>1, <2>2, <3>1, <3>6 DEF managedObjects
    <3> QED
      BY <3>1, <3>3, <3>5, <3>6, <3>7
  <2> QED
    BY <1>6, <2>2 DEF PruneInv
<1>7. CASE reconcileObject
  <2>1. PICK i \in todo : /\ todo' = todo \ {i}
                          /\ LET o == BuildOrder[i]
                             IN \/ CreateObject(o) \/ UnchangedObject(o) \/ UpdateObject(o)
                                \/ DeleteImmutable(o) \/ RejectedWrite(o) \/ FailedWrite(o)
    BY <1>7 DEF reconcileObject
  <2> DEFINE o == BuildOrder[i]
  <2>2. o \in Objects /\ desired[o] \in Values
    BY ObjectToReconcile
  <2>3. pc = "apply" /\ pc' = "apply" /\ UNCHANGED <<cache, desired>>
    BY <1>7 DEF reconcileObject
  <2> HIDE DEF o
  <2>4. CASE errs'
    BY <2>3, <2>4 DEF PruneInv
  <2>5. CASE ~errs'
    <3>1. ~errs /\ (CreateObject(o) \/ UnchangedObject(o) \/ UpdateObject(o) \/ DeleteImmutable(o))
      BY <2>1, <2>5 DEF o, CreateObject, UnchangedObject, UpdateObject, DeleteImmutable,
         RejectedWrite, FailedWrite
    <3>2. owned' \subseteq owned
      BY <3>1 DEF CreateObject, UnchangedObject, UpdateObject, DeleteImmutable, StillManaged
    <3>3. \A q \in Objects \ {o} : watch'[q] = watch[q] /\ uids'[q] = uids[q]
      BY <3>1 DEF CreateObject, UnchangedObject, UpdateObject, DeleteImmutable, WriteObj, TypeOK
    <3>4. \/ uids'[o] = uids[o] + 1
          \/ uids' = uids /\ cache[o] # NoObj /\ <<o, cache[o].uid>> \notin owned'
      BY <2>2, <3>1 DEF CreateObject, UnchangedObject, UpdateObject, DeleteImmutable, StillManaged,
         NextUID, TypeOK
    <3>5. ASSUME NEW p \in owned', desired[p[1]] # NoVal, ~(p[2] < uids'[p[1]])
          PROVE  /\ p[2] = uids'[p[1]] /\ Follows(p[1], p[2])'
                 /\ \E j \in todo' : BuildOrder[j] = p[1]
      <4>1. p \in owned /\ p[1] \in Objects /\ p[2] \in Nat /\ p = <<p[1], p[2]>>
        BY <3>2 DEF TypeOK
      <4>2. \/ p[2] < uids[p[1]]
            \/ /\ p[2] = uids[p[1]] /\ Follows(p[1], p[2])
               /\ \E j \in todo : BuildOrder[j] = p[1]
        BY <2>3, <3>1, <3>5, <4>1 DEF PruneInv
      <4>3. p[1] # o
        <5>1. SUFFICES ASSUME p[1] = o PROVE FALSE
          OBVIOUS
        <5>2. uids' = uids /\ cache[o] # NoObj /\ <<o, cache[o].uid>> \notin owned'
          BY <1>u, <3>4, <3>5, <4>1, <4>2, <5>1
        <5>3. p[2] = uids[o] /\ Follows(o, p[2])
          BY <3>5, <4>2, <5>1, <5>2
        <5>4. cache[o].uid \in Nat /\ cache[o].uid <= uids[o]
          BY <2>2, <5>2 DEF IncarnationOrder, AtMost, TypeOK, Objs
        <5>5. cache[o].uid >= p[2]
          BY <5>2, <5>3 DEF Follows, AtLeast
        <5>6. cache[o].uid = p[2]
          BY <1>u, <2>2, <5>3, <5>4, <5>5
        <5> QED
          BY <3>5, <4>1, <5>1, <5>2, <5>6
      <4>4. /\ p[2] = uids[p[1]] /\ Follows(p[1], p[2])
            /\ \E j \in todo : BuildOrder[j] = p[1]
        BY <3>3, <3>5, <4>1, <4>2, <4>3
      <4>5. \E j \in todo' : BuildOrder[j] = p[1]
        BY <2>1, <4>3, <4>4 DEF o
      <4>6. Follows(p[1], p[2])'
        BY <2>3, <3>3, <4>1, <4>3, <4>4 DEF Follows, AtLeast
      <4> QED
        BY <3>3, <4>1, <4>3, <4>4, <4>5, <4>6
    <3> QED
      BY <2>3, <3>5 DEF PruneInv
  <2> QED
    BY <2>4, <2>5
<1>8. CASE AfterApply
  <2>1. CASE pc' = "prune"
    <3>1. ~errs /\ pc = "apply" /\ todo = {} /\ UNCHANGED <<owned, desired, uids>>
      BY <1>8, <2>1 DEF AfterApply, Fail, clusterVars
    <3> QED
      BY <3>1 DEF PruneInv
  <2>2. CASE pc' # "prune"
    BY <1>a, <1>8, <2>2 DEF AfterApply, Fail
  <2> QED
    BY <2>1, <2>2
<1>9. CASE pruneObject
  <2>1. /\ pc = "prune" /\ pc' = "prune" /\ owned' \subseteq owned /\ desired' = desired
        /\ uids' = uids
    BY <1>9 DEF pruneObject
  <2> QED
    BY <2>1 DEF PruneInv
<1>10. CASE \/ StartReconcile \/ AddFinalizer \/ AfterPrune \/ handleReconcileStatus
            \/ finalizeObject \/ RemoveFinalizer \/ Restart
            \/ createOrUpdate /\ pc' # "apply"
  <2>1. pc' \notin {"apply", "prune"}
    BY <1>10 DEF StartReconcile, AddFinalizer, AfterPrune, handleReconcileStatus, finalizeObject,
       RemoveFinalizer, Restart, createOrUpdate, Release, Return, Requeue, AfterFinalizer, Fail
  <2> QED
    BY <1>a, <2>1
<1>11. CASE \/ \E s \in Specs : UserSpec(s)
            \/ \E m \in Managements : UserManage(m)
            \/ UserDelete
            \/ \E s \in Secrets : SecretChange(s)
            \/ \E o \in Objects : WorkloadStatus(o)
            \/ DeliverCR \/ DeliverSecret \/ UNCHANGED vars
  <2>1. UNCHANGED <<cache, watch, pc, errs, owned, desired, todo, uids>>
    BY <1>11 DEF UserSpec, UserManage, UserDelete, SecretChange, WorkloadStatus, DeliverCR,
       DeliverSecret, clusterVars, objStream, worker, vars
  <2> QED
    BY <1>b, <2>1
<1> QED
  BY <1>1, <1>2, <1>3, <1>4, <1>5, <1>6, <1>7, <1>8, <1>9, <1>10, <1>11 DEF Next, Environment, Reconcile

\* Pruning deletes an incarnation it has listed only if BuildAll does not want
\* the object any more (reconcileManagedObjects): from listings of any age,
\* whatever third parties delete, and whatever fails or restarts.
THEOREM PruneSafe == Spec => PrunesOnlyUnmanaged
<1> DEFINE Prunes == \A p \in owned : pruneObject /\ owned' = owned \ {p} /\ Incarnation(store[p[1]], p[2])
                                      /\ store'[p[1]] = NoObj
                       => desired[p[1]] = NoVal
           Inv == TypeOK /\ IInv /\ IncarnationOrder /\ PruneInv
<1>1. Init => Inv
  BY InitType, InitInv, InitPrune
<1>2. Inv /\ [Next]_vars => Inv'
  BY NextInv, NextOrder, NextPrune
<1>3. Inv /\ [Next]_vars => [Prunes]_vars
  <2> SUFFICES ASSUME Inv, NEW p \in owned, pruneObject, Incarnation(store[p[1]], p[2])
               PROVE  desired[p[1]] = NoVal
    OBVIOUS
  <2>1. p[1] \in Objects /\ p[2] \in Nat /\ pc = "prune"
    BY DEF TypeOK, pruneObject
  <2>2. p[2] = uids[p[1]]
    BY <2>1 DEF IncarnationOrder, Incarnation
  <2> QED
    BY <2>1, <2>2 DEF PruneInv
<1> QED
  BY <1>1, <1>2, <1>3, PTL DEF Spec, PrunesOnlyUnmanaged
============================================================================
