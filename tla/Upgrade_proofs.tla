--------------------------- MODULE Upgrade_proofs ---------------------------
(***************************************************************************)
(* Proofs about Upgrade: its type invariant, and that the version in the   *)
(* status of the CR never claims a step the spec has not seen, as long as  *)
(* the pods can be listed.                                                 *)
(***************************************************************************)
EXTENDS Upgrade, TLAPS

\* Writing to a CR gives a CR.
LEMMA BumpedCR ==
  ASSUME NEW c \in CRs
  PROVE  Bumped(c) \in CRs /\ Bumped(c).version = c.version /\ Bumped(c).legacy = c.legacy
  <1>1. (c.rv + 1) % RVs \in 0..RVs-1
    BY UpgradeBoundsAssumption DEF CRs
  <1> QED BY <1>1 DEF CRs, Bumped

\* The environment, the informers and a restart keep the types.
LEMMA EnvironmentType ==
  ASSUME TypeOK,
         \/ UserEdit \/ Kubernetes \/ ExpireJob \/ SyncCR \/ SyncSts \/ SyncJob
         \/ \E v \in Versions : Restart(v)
  PROVE  TypeOK'
  <1> USE DEF TypeOK, InSteps, InUpgrade
  <1>1. CASE UserEdit
    <2>1. [cr EXCEPT !.edits = @ + 1] \in CRs
      BY <1>1, UpgradeBoundsAssumption DEF UserEdit, CRs
    <2> QED BY <1>1, <2>1, BumpedCR DEF UserEdit, caches, worker, bounds
  <1>2. CASE StartPod
    BY <1>2, StepsAssumption DEF StartPod, caches, worker, bounds, Stss, Versions
  <1>3. CASE StopPod
    BY <1>3, StepsAssumption DEF StopPod, caches, worker, bounds
  <1>4. CASE ReportStatus
    BY <1>4 DEF ReportStatus, Running, caches, worker, bounds, Stss
  <1>5. CASE RunJob
    BY <1>5 DEF RunJob, Fault, caches, worker, bounds, Jobs
  <1>6. CASE ExpireJob
    BY <1>6 DEF ExpireJob, caches, worker, bounds
  <1>7. CASE SyncCR
    BY <1>7 DEF SyncCR, cluster, worker, bounds
  <1>8. CASE SyncSts
    BY <1>8 DEF SyncSts, cluster, worker, bounds
  <1>9. CASE SyncJob
    BY <1>9 DEF SyncJob, cluster, worker, bounds
  <1>10. CASE \E v \in Versions : Restart(v)
    BY <1>10 DEF Restart, Release, cluster
  <1> QED BY <1>1, <1>2, <1>3, <1>4, <1>5, <1>6, <1>7, <1>8, <1>9, <1>10 DEF Kubernetes

\* So do the steps of an upgrade ...
LEMMA UpgradingType ==
  ASSUME TypeOK, Upgrading
  PROVE  TypeOK'
  <1> USE DEF TypeOK, StepFailed, Finish, InSteps, InUpgrade
  <1>1. CASE upgradeSpec
    <2>1. pc' = "step" /\ tempo' = tempo /\ upgraded' = tempo =>
            /\ tempo' \in CRs /\ upgraded' \in CRs /\ upgraded' # NoObj
      BY <1>1 DEF upgradeSpec
    <2>2. pc' = "step" => steps' = pendingSteps(tempo.version) /\ upgraded' = tempo
      BY <1>1 DEF upgradeSpec
    <2>3. \A v \in pendingSteps(tempo.version) : v \in Versions /\ tempo.version < v /\ v <= op
      BY StepsAssumption DEF pendingSteps
    <2> QED BY <1>1, <2>1, <2>2, <2>3 DEF upgradeSpec, cluster, caches, bounds
  <1>2. CASE StepSpec
    <2>1. PICK v \in SpecSteps : upgraded' = [upgraded EXCEPT !.legacy = @ \ {v}]
                              /\ steps' = steps \ {v}
      BY <1>2 DEF StepSpec
    <2>2. upgraded \in CRs
      BY <1>2 DEF StepSpec
    <2>3. upgraded' \in CRs
      BY <2>1, <2>2 DEF CRs
    <2> QED BY <1>2, <2>1, <2>3, UpgradeAbsenceAssumption
            DEF StepSpec, cluster, caches, bounds
  <1>3. CASE StepDelete
    BY <1>3 DEF StepDelete, Fault, caches
  <1>4. CASE StepChown
    <2>1. sts' \in Stss \cup {NoObj}
      BY <1>4 DEF StepChown, Stss
    <2> QED BY <1>4, <2>1 DEF StepChown, Fault, caches
  <1>5. CASE WaitDrained
    BY <1>5 DEF WaitDrained, Fault, cluster, caches
  <1>6. CASE CreateJob
    BY <1>6 DEF CreateJob, Fault, caches, Jobs
  <1>7. CASE WaitJob
    BY <1>7 DEF WaitJob, Fault, cluster, caches
  <1>8. CASE StepsDone
    <2>1. upgraded \in CRs
      BY <1>8 DEF StepsDone
    <2>2. [upgraded EXCEPT !.version = op] \in CRs
      BY <2>1 DEF CRs
    <2> QED BY <1>8, <2>2, UpgradeAbsenceAssumption
            DEF StepsDone, cluster, caches, bounds
  <1>9. CASE PatchSpec
    <2>1. cr' \in CRs
      <3>1. [cr EXCEPT !.legacy = @ \ specPatch(tempo, upgraded)] \in CRs
        BY DEF CRs
      <3> QED BY <1>9, <3>1, BumpedCR DEF PatchSpec
    <2>2. upgraded \in CRs
      BY <1>9 DEF PatchSpec
    <2>3. [cr' EXCEPT !.version = upgraded.version] \in CRs
      BY <2>1, <2>2 DEF CRs
    <2> QED BY <1>9, <2>1, <2>3, UpgradeAbsenceAssumption DEF PatchSpec, Fault, caches
  <1>10. CASE PatchStatus
    <2>1. upgraded \in CRs
      BY <1>10 DEF PatchStatus
    <2>2. cr' \in CRs
      <3>1. [cr EXCEPT !.version = upgraded.version] \in CRs
        BY <2>1 DEF CRs
      <3> QED BY <1>10, <3>1, BumpedCR DEF PatchStatus
    <2> QED BY <1>10, <2>2, UpgradeAbsenceAssumption DEF PatchStatus, Fault, caches
  <1> QED BY <1>1, <1>2, <1>3, <1>4, <1>5, <1>6, <1>7, <1>8, <1>9, <1>10 DEF Upgrading

\* ... and the rest of Reconcile.
LEMMA ReconcileType ==
  ASSUME TypeOK, Reconcile
  PROVE  TypeOK'
  <1> USE DEF TypeOK, Finish, InSteps, InUpgrade
  <1>1. CASE StartReconcile
    BY <1>1, UpgradeAbsenceAssumption DEF StartReconcile, cluster, caches, bounds
  <1>2. CASE createOrUpdate
    <2>1. [image |-> op, replicas |-> 1, status |-> 0] \in Stss
      BY DEF Stss
    <2>2. sts # NoObj => [image |-> op, replicas |-> 1, status |-> sts.status] \in Stss
      BY DEF Stss
    <2>3. sts' \in Stss \cup {NoObj}
      BY <1>2, <2>1, <2>2 DEF createOrUpdate
    <2> QED BY <1>2, <2>3 DEF createOrUpdate, Fault, caches
  <1>3. CASE handleReconcileStatus
    <2>1. ConditionOf(outcome) \in Conditions
      BY DEF ConditionOf, Conditions
    <2>2. ASSUME NEW v \in {tempo.version, Empty}, WriteStatus(v)
          PROVE  cr' \in CRs
      <3>1. refreshedVersion(v) \in Versions \cup {Empty, Unparseable}
        BY <1>3 DEF refreshedVersion, CRs, handleReconcileStatus
      <3>2. [cr EXCEPT !.version = refreshedVersion(v),
                       !.condition = ConditionOf(outcome)] \in CRs
        BY <2>1, <3>1 DEF CRs
      <3> QED BY <2>2, <3>2, BumpedCR DEF WriteStatus
    <2>3. cr' \in CRs
      BY <1>3, <2>2 DEF handleReconcileStatus
    <2>4. queued' \in BOOLEAN
      BY <1>3, Zenon DEF handleReconcileStatus
    <2> QED BY <1>3, <2>3, <2>4 DEF handleReconcileStatus, Release, Fault, caches
  <1> QED BY <1>1, <1>2, <1>3, UpgradingType DEF Reconcile

\* The type invariant of the upgrade: in particular the copies Upgrade works
\* on exist when it needs them, and every step it runs lies between the
\* version of the CR and the version of the operator.
THEOREM UpgradeTypeCorrect == Spec => []TypeOK
  <1>1. Init => TypeOK
    <2> SUFFICES ASSUME Init PROVE TypeOK
      OBVIOUS
    <2>1. PICK v \in StartVersions :
             cr = [version |-> v,
                   legacy |-> IF v = Empty THEN {} ELSE {s \in SpecSteps : v < s},
                   edits |-> 0, condition |-> "none", rv |-> 0]
      BY DEF Init
    <2>2. cr \in CRs
      BY <2>1, StepsAssumption, UpgradeBoundsAssumption DEF CRs, Conditions
    <2>3. sts \in Stss \cup {NoObj} /\ pod \in 0..Latest /\ volumes \in {"none", "root", "tempo"}
      BY StepsAssumption DEF Init, Stss, Versions
    <2> QED BY <2>2, <2>3 DEF Init, TypeOK, InSteps, InUpgrade
  <1>2. TypeOK /\ [Next]_vars => TypeOK'
    <2> SUFFICES ASSUME TypeOK, [Next]_vars PROVE TypeOK'
      OBVIOUS
    <2>1. CASE UNCHANGED vars
      BY <2>1 DEF TypeOK, vars, cluster, caches, worker, bounds
    <2>2. CASE Next
      BY <2>2, EnvironmentType, ReconcileType DEF Next
    <2> QED BY <2>1, <2>2
  <1> QED BY <1>1, <1>2, PTL DEF Spec

----------------------------------------------------------------------------
\* What the version of the CR is worth: it is honest, every copy of it is
\* honest and older, and Upgrade has recorded what its steps did.
HonestInv == CopiesHonest /\ StepsRecorded

\* A CR that loses deprecated parts, or that takes over the version of an
\* honest copy with more of them, stays honest.
LEMMA HonestSubset ==
  ASSUME NEW c \in CRs, NEW d \in CRs, Honest(c), d.legacy \subseteq c.legacy,
         d.version = c.version
  PROVE  Honest(d)
  BY DEF Honest, CRs

\* The environment, the informers and a restart.
LEMMA EnvironmentHonest ==
  ASSUME TypeOK, TypeOK', HonestInv,
         \/ UserEdit \/ Kubernetes \/ ExpireJob \/ SyncCR \/ SyncSts \/ SyncJob
         \/ \E v \in Versions : Restart(v)
  PROVE  HonestInv'
  <1> USE DEF HonestInv, CopiesHonest, StepsRecorded, Due, InSteps
  <1>1. CASE UserEdit
    <2>1. [cr EXCEPT !.edits = @ + 1] \in CRs
      BY <1>1, UpgradeBoundsAssumption DEF UserEdit, CRs, TypeOK
    <2>2. cr'.version = cr.version /\ cr'.legacy = cr.legacy
      BY <1>1, <2>1, BumpedCR DEF UserEdit, TypeOK, CRs
    <2> QED BY <1>1, <2>2 DEF UserEdit, caches, worker, Honest
  <1>2. CASE \/ StartPod \/ StopPod \/ ReportStatus \/ RunJob \/ ExpireJob \/ SyncSts \/ SyncJob
    <2>1. UNCHANGED <<op, cr, crCache, worker>>
      BY <1>2 DEF StartPod, StopPod, ReportStatus, RunJob, ExpireJob, SyncSts, SyncJob,
         caches, cluster
    <2> QED BY <2>1 DEF worker, Honest
  <1>3. CASE SyncCR
    BY <1>3 DEF SyncCR, cluster, worker, Honest
  <1>4. CASE \E v \in Versions : Restart(v)
    BY <1>4 DEF Restart, Release, cluster, Honest
  <1> QED BY <1>1, <1>2, <1>3, <1>4 DEF Kubernetes

\* The steps of an upgrade.
LEMMA UpgradingHonest ==
  ASSUME TypeOK, TypeOK', HonestInv, Upgrading
  PROVE  HonestInv'
  <1> USE DEF HonestInv, CopiesHonest, StepsRecorded, InSteps
  <1>1. CASE \E o \in {"config", "failed"} : Finish(o) /\ UNCHANGED <<op, cr, crCache>>
    <2>1. pc # "idle"
      BY DEF Upgrading, upgradeSpec, StepSpec, StepDelete, StepChown, WaitDrained,
         CreateJob, WaitJob, StepsDone, PatchSpec, PatchStatus
    <2> QED BY <1>1, <2>1 DEF Finish, Honest
  <1>2. CASE upgradeSpec /\ pc' # "status"
    <2>1. pc' = "step" =>
            \A v \in upgraded'.legacy : v \in tempo'.legacy /\ (v <= op' => v \in steps')
      <3> SUFFICES ASSUME pc' = "step", NEW v \in upgraded'.legacy
                   PROVE  v \in tempo'.legacy /\ (v <= op' => v \in steps')
        OBVIOUS
      <3>1. tempo \in CRs /\ tempo' = tempo /\ upgraded' = tempo /\ op' = op /\ Honest(tempo)
            /\ steps' = pendingSteps(tempo.version)
        BY <1>2 DEF upgradeSpec, TypeOK, StepFailed, Finish
      <3>2. v \in SpecSteps /\ tempo.version < v
        BY <3>1 DEF CRs, Honest
      <3> QED BY <3>1, <3>2 DEF pendingSteps
    <2>2. UNCHANGED <<op, cr, crCache, tempo>> /\ pc' \in {"step", "createOrUpdate"}
      BY <1>2 DEF upgradeSpec, cluster, caches, StepFailed, Finish
    <2> QED BY <1>2, <2>1, <2>2 DEF upgradeSpec, Honest
  <1>3. CASE StepSpec
    <2>1. PICK v \in SpecSteps : /\ upgraded' = [upgraded EXCEPT !.legacy = @ \ {v}]
                                 /\ steps' = steps \ {v}
      BY <1>3 DEF StepSpec
    <2>2. upgraded'.legacy = upgraded.legacy \ {v}
      BY <1>3, <2>1 DEF TypeOK, CRs, StepSpec, InUpgrade
    <2> QED BY <1>3, <2>1, <2>2 DEF StepSpec, cluster, caches, Honest
  <1>4. CASE (StepDelete \/ StepChown) /\ pc' # "status"
    <2>1. PICK v \in DeleteSteps \cup ChownSteps :
            /\ Due(v)
            /\ \/ pc' = "step" /\ steps' = steps \ {v}
               \/ /\ pc' \in {"drain", "createJob"} /\ v \in ChownSteps
                  /\ steps' = steps
      BY <1>4 DEF StepDelete, StepChown, StepFailed, Finish
    <2>2. UNCHANGED <<op, cr, crCache, tempo, upgraded>> /\ pc = "step"
      BY <1>4 DEF StepDelete, StepChown, StepFailed, Finish, caches
    <2>3. v \notin upgraded.legacy
      BY <2>2, StepsAssumption DEF TypeOK, CRs, InUpgrade
    <2> QED BY <2>1, <2>2, <2>3 DEF Due, Honest
  <1>5. CASE (WaitDrained \/ CreateJob) /\ pc' # "status"
    <2>1. UNCHANGED <<op, cr, crCache, tempo, upgraded, steps>>
          /\ pc \in {"drain", "createJob"} /\ pc' \in {"createJob", "waitJob"}
      BY <1>5 DEF WaitDrained, CreateJob, StepFailed, Finish, caches, cluster
    <2> QED BY <2>1 DEF Due, Honest
  <1>6. CASE WaitJob /\ pc' # "status"
    <2>1. UNCHANGED <<op, cr, crCache, tempo, upgraded>> /\ pc = "waitJob" /\ pc' = "step"
          /\ steps' = {v \in steps : ~Due(v)}
      BY <1>6 DEF WaitJob, StepFailed, Finish, caches, cluster
    <2>2. PICK w \in ChownSteps : Due(w)
      BY <2>1
    <2>3. \A v \in steps : Due(v) => v = w
      BY <2>2 DEF Due, TypeOK, Versions
    <2>4. w \notin upgraded.legacy
      BY <2>1, StepsAssumption DEF TypeOK, CRs, InUpgrade
    <2> QED BY <2>1, <2>3, <2>4 DEF Honest
  <1>7. CASE StepsDone
    <2>1. upgraded \in CRs /\ upgraded' = [upgraded EXCEPT !.version = op]
      BY <1>7 DEF StepsDone, TypeOK, InUpgrade
    <2>2. upgraded'.version = op /\ upgraded'.legacy = upgraded.legacy
      BY <2>1 DEF CRs
    <2>3. \A v \in upgraded.legacy : v \in Versions
      BY <2>1, StepsAssumption DEF CRs
    <2>4. \A v \in upgraded.legacy : op < v
      BY <1>7, <2>3 DEF StepsDone, TypeOK, Versions
    <2> QED BY <1>7, <2>2, <2>4 DEF StepsDone, cluster, caches, Honest
  <1>8. CASE PatchSpec /\ pc' # "status"
    <2>1. /\ pc = "patch" /\ pc' = "patchStatus" /\ UNCHANGED <<op, crCache, tempo>>
          /\ cr' = IF cr.legacy \cap specPatch(tempo, upgraded) = {} THEN cr
                   ELSE Bumped([cr EXCEPT !.legacy = @ \ specPatch(tempo, upgraded)])
          /\ upgraded' = [cr' EXCEPT !.version = upgraded.version]
      BY <1>8 DEF PatchSpec, Finish, caches
    <2>2. [cr EXCEPT !.legacy = @ \ specPatch(tempo, upgraded)] \in CRs
      BY DEF TypeOK, CRs
    <2>3. cr'.version = cr.version /\ cr'.legacy = cr.legacy \ specPatch(tempo, upgraded)
      BY <2>1, <2>2, BumpedCR DEF TypeOK, CRs
    <2>4. Honest(cr')
      BY <2>3, HonestSubset DEF TypeOK
    <2>5. \A v \in cr'.legacy : op < v
      BY <2>1, <2>3 DEF specPatch
    <2>6. upgraded'.version = op
      BY <2>1 DEF TypeOK, CRs
    <2> QED BY <2>1, <2>3, <2>4, <2>5, <2>6 DEF Honest
  <1>9. CASE PatchStatus /\ pc' # "status"
    <2>1. /\ pc = "patchStatus" /\ pc' = "createOrUpdate" /\ UNCHANGED <<op, crCache>>
          /\ cr' = IF cr.version = upgraded.version THEN cr
                   ELSE Bumped([cr EXCEPT !.version = upgraded.version])
          /\ tempo' = cr'
      BY <1>9 DEF PatchStatus, Finish, caches
    <2>2. upgraded.version = op
      BY <2>1
    <2>3. [cr EXCEPT !.version = op] \in CRs
      BY DEF TypeOK, CRs
    <2>4. cr'.version = op /\ cr'.legacy = cr.legacy
      BY <2>1, <2>2, <2>3, BumpedCR DEF TypeOK, CRs
    <2>5. op # Empty
      BY StepsAssumption DEF TypeOK, Versions, Empty
    <2> QED BY <2>1, <2>4, <2>5 DEF Honest
  <1> QED BY <1>1, <1>2, <1>3, <1>4, <1>5, <1>6, <1>7, <1>8, <1>9
         DEF Upgrading, upgradeSpec, StepSpec, StepDelete, StepChown, WaitDrained, CreateJob,
             WaitJob, StepsDone, PatchSpec, PatchStatus, StepFailed, Finish, caches, cluster

\* The rest of Reconcile, when the pods can be listed.
LEMMA ReconcileHonest ==
  ASSUME TypeOK, TypeOK', HonestInv, Reconcile, MaxListFaults = 0
  PROVE  HonestInv'
  <1> USE DEF HonestInv, CopiesHonest, StepsRecorded, InSteps
  <1>1. CASE StartReconcile
    BY <1>1 DEF StartReconcile, cluster, caches, Honest
  <1>2. CASE createOrUpdate
    <2>1. pc # "idle" /\ pc' = "status" /\ UNCHANGED <<op, cr, crCache, tempo>>
      BY <1>2 DEF createOrUpdate, Finish, caches
    <2> QED BY <2>1 DEF Honest
  <1>3. CASE handleReconcileStatus
    <2>1. pc = "status" /\ pc' = "idle" /\ UNCHANGED <<op, crCache>>
      BY <1>3 DEF handleReconcileStatus, Release, caches
    <2>2. WriteStatus(tempo.version) \/ cr' = cr
      BY <1>3 DEF handleReconcileStatus, TypeOK
    <2>3. ASSUME WriteStatus(tempo.version)
          PROVE  Honest(cr') /\ cr'.legacy = cr.legacy
      <3>1. tempo \in CRs /\ Honest(tempo) /\ cr.legacy \subseteq tempo.legacy
        BY <2>1 DEF TypeOK
      <3> DEFINE new == [cr EXCEPT !.version = refreshedVersion(tempo.version),
                                   !.condition = ConditionOf(outcome)]
      <3>2. ConditionOf(outcome) \in Conditions
        BY DEF ConditionOf, Conditions, TypeOK
      <3>3. refreshedVersion(tempo.version) \in Versions \cup {Empty, Unparseable}
        BY <3>1 DEF refreshedVersion, CRs, TypeOK
      <3>4. new \in CRs /\ new.legacy = cr.legacy /\ new.version = refreshedVersion(tempo.version)
        BY <3>2, <3>3 DEF TypeOK, CRs
      <3>5. cr'.legacy = cr.legacy /\ cr'.version = refreshedVersion(tempo.version)
        BY <2>3, <3>4, BumpedCR DEF WriteStatus
      <3>6. op # Empty
        BY StepsAssumption DEF TypeOK, Versions, Empty
      <3> QED BY <3>1, <3>5, <3>6 DEF Honest, refreshedVersion
    <2> QED BY <2>1, <2>2, <2>3 DEF Honest
  <1> QED BY <1>1, <1>2, <1>3, UpgradingHonest DEF Reconcile

LEMMA InitHonest == Init => HonestInv
  <1> SUFFICES ASSUME Init PROVE HonestInv
    OBVIOUS
  <1>1. PICK v \in StartVersions :
           cr = [version |-> v,
                 legacy |-> IF v = Empty THEN {} ELSE {s \in SpecSteps : v < s},
                 edits |-> 0, condition |-> "none", rv |-> 0]
    BY DEF Init
  <1>2. Honest(cr)
    BY <1>1 DEF Honest
  <1> QED BY <1>2 DEF Init, HonestInv, CopiesHonest, StepsRecorded, InSteps

LEMMA HonestStep ==
  ASSUME TypeOK, TypeOK', HonestInv, MaxListFaults = 0, [Next]_vars
  PROVE  HonestInv'
  <1>1. CASE UNCHANGED vars
    BY <1>1 DEF HonestInv, CopiesHonest, StepsRecorded, Due, Honest, vars, cluster,
       caches, worker
  <1>2. CASE Next
    BY <1>2, EnvironmentHonest, ReconcileHonest DEF Next
  <1> QED BY <1>1, <1>2

\* For every list of upgrade steps, any mix of failed requests, conflicts,
\* restarts and operator versions: if the pods can always be listed, the
\* version Refresh and Upgrade leave in the status never claims a step that
\* the stored spec has not seen.
THEOREM VersionsHonest == MaxListFaults = 0 => (Spec => []VersionHonest)
  <1> SUFFICES ASSUME MaxListFaults = 0 PROVE Spec => []VersionHonest
    OBVIOUS
  <1>1. TypeOK /\ TypeOK' /\ HonestInv /\ [Next]_vars => HonestInv'
    BY HonestStep
  <1>2. HonestInv => VersionHonest
    BY DEF HonestInv, CopiesHonest, VersionHonest
  <1> QED BY <1>1, <1>2, InitHonest, UpgradeTypeCorrect, PTL DEF Spec

----------------------------------------------------------------------------
\* The version of the CR is written by the patch of an upgrade and by the
\* refresh of the status.
LEMMA VersionWrites ==
  ASSUME TypeOK, HonestInv, MaxListFaults = 0, Next
  PROVE  \/ cr'.version = cr.version
         \/ /\ pc = "patchStatus" /\ pc' = "createOrUpdate" /\ cr'.version = op
            /\ tempo' = cr'
         \/ /\ pc = "status" /\ pc' = "idle"
            /\ cr'.version = refreshedVersion(tempo.version)
  <1>1. CASE UserEdit
    <2>1. [cr EXCEPT !.edits = @ + 1] \in CRs
      BY <1>1, UpgradeBoundsAssumption DEF UserEdit, CRs, TypeOK
    <2> QED BY <1>1, <2>1, BumpedCR DEF UserEdit, TypeOK, CRs
  <1>2. CASE PatchSpec
    <2>1. [cr EXCEPT !.legacy = @ \ specPatch(tempo, upgraded)] \in CRs
      BY DEF TypeOK, CRs
    <2> QED BY <1>2, <2>1, BumpedCR DEF PatchSpec, TypeOK, CRs
  <1>3. CASE PatchStatus
    <2>1. upgraded.version = op /\ pc = "patchStatus"
      BY <1>3 DEF PatchStatus, HonestInv, StepsRecorded
    <2>2. [cr EXCEPT !.version = op] \in CRs
      BY DEF TypeOK, CRs
    <2> QED BY <1>3, <2>1, <2>2, BumpedCR DEF PatchStatus, TypeOK, CRs
  <1>4. CASE handleReconcileStatus
    <2>1. pc = "status" /\ pc' = "idle" /\ tempo \in CRs
      BY <1>4 DEF handleReconcileStatus, Release, TypeOK
    <2>2. CASE WriteStatus(tempo.version)
      <3>1. ConditionOf(outcome) \in Conditions
        BY DEF ConditionOf, Conditions, TypeOK
      <3>2. refreshedVersion(tempo.version) \in Versions \cup {Empty, Unparseable}
        BY <2>1 DEF refreshedVersion, CRs, TypeOK
      <3> DEFINE new == [cr EXCEPT !.version = refreshedVersion(tempo.version),
                                   !.condition = ConditionOf(outcome)]
      <3>3. new \in CRs /\ new.version = refreshedVersion(tempo.version)
        BY <3>1, <3>2 DEF TypeOK, CRs
      <3> QED BY <2>1, <2>2, <3>3, BumpedCR DEF WriteStatus
    <2> QED BY <1>4, <2>2 DEF handleReconcileStatus, TypeOK
  <1> QED
    BY <1>1, <1>2, <1>3, <1>4
       DEF Next, Kubernetes, StartPod, StopPod, ReportStatus, RunJob, ExpireJob, SyncCR, SyncSts,
           SyncJob, Restart, Reconcile, StartReconcile, Upgrading, upgradeSpec, StepSpec,
           StepDelete, StepChown, WaitDrained, CreateJob, WaitJob, StepsDone, createOrUpdate, cluster

\* The cache and the copy of a pass take over versions, and never make one.
LEMMA VersionReads ==
  ASSUME TypeOK, Next
  PROVE  /\ crCache' \in {crCache, cr}
         /\ pc' # "idle" => \/ pc = "idle" /\ tempo' = crCache /\ crCache' = crCache
                            \/ pc # "idle" /\ tempo' = tempo
                            \/ pc = "patchStatus" /\ tempo' = cr'
         /\ op' = op \/ (pc' = "idle" /\ cr' = cr /\ crCache' = cr)
  BY DEF Next, UserEdit, Kubernetes, StartPod, StopPod, ReportStatus, RunJob, ExpireJob, SyncCR,
         SyncSts, SyncJob, Restart, Release, Reconcile, StartReconcile, Upgrading, upgradeSpec,
         StepSpec, StepDelete, StepChown, WaitDrained, CreateJob, WaitJob, StepsDone, PatchSpec,
         PatchStatus, createOrUpdate, handleReconcileStatus, StepFailed, Finish, cluster, caches,
         worker

----------------------------------------------------------------------------
(* The versions the worker, its cache and the CR have.                     *)

\* Since the operator started, a CR that is newer than the operator has one
\* version only, and any other has at most two: the one it had before and
\* that of the operator.
Agree(c, d) ==
  /\ c.version > op \/ d.version > op => c.version = d.version
  /\ c.version # op /\ d.version # op => c.version = d.version

VersionsAgree ==
  /\ Agree(cr, crCache)
  /\ pc # "idle" => Agree(cr, tempo) /\ Agree(crCache, tempo)

\* A pass that has not failed is past the upgrade of its copy.
PastUpgrade ==
  /\ pc \in InUpgrade => tempo.version <= op
  /\ pc = "createOrUpdate" \/ (pc = "status" /\ outcome = "ok") =>
       tempo.version = Empty \/ tempo.version >= op

VersionInv == VersionsAgree /\ PastUpgrade

LEMMA VersionsAgreeStep ==
  ASSUME TypeOK, TypeOK', HonestInv, MaxListFaults = 0, VersionInv, Next
  PROVE  VersionsAgree'
  <1>1. /\ op \in Int /\ cr.version \in Int /\ crCache.version \in Int /\ op # Empty
        /\ pc # "idle" => tempo.version \in Int
    BY StepsAssumption DEF TypeOK, CRs, Versions, Empty, Unparseable
  <1>2. CASE pc' = "idle" /\ cr' = cr /\ crCache' = cr
    BY <1>2 DEF VersionsAgree, Agree
  <1>3. CASE op' = op /\ cr'.version = cr.version
    <2>1. Agree(cr, crCache)'
      BY <1>3, VersionReads DEF VersionInv, VersionsAgree, Agree
    <2>2. pc' # "idle" => Agree(cr, tempo)' /\ Agree(crCache, tempo)'
      BY <1>3, VersionReads DEF VersionInv, VersionsAgree, Agree
    <2> QED BY <2>1, <2>2 DEF VersionsAgree
  <1>4. CASE /\ op' = op /\ pc = "patchStatus" /\ pc' = "createOrUpdate" /\ cr'.version = op
             /\ tempo' = cr'
    <2>1. tempo.version <= op
      BY <1>4 DEF VersionInv, PastUpgrade, InUpgrade, InSteps
    <2>2. cr.version <= op /\ crCache.version <= op
      BY <1>1, <1>4, <2>1 DEF VersionInv, VersionsAgree, Agree
    <2>3. ~(op > op) /\ \A c \in {crCache.version, cr.version} : ~(c > op)
      BY <1>1, <2>2
    <2>4. crCache'.version = crCache.version \/ crCache'.version = cr.version
      BY VersionReads
    <2>5. ~(crCache'.version > op')
      BY <1>4, <2>3, <2>4
    <2>6. ~(cr'.version > op') /\ ~(tempo'.version > op') /\ cr'.version = op' /\ tempo'.version = op'
      BY <1>4, <2>3
    <2> QED BY <2>5, <2>6, Zenon DEF VersionsAgree, Agree
  <1>5. CASE /\ op' = op /\ pc = "status" /\ pc' = "idle"
             /\ cr'.version = refreshedVersion(tempo.version)
    <2>1. crCache'.version = crCache.version \/ crCache'.version = cr.version
      BY VersionReads
    <2>2. /\ \A c \in {crCache.version, cr.version} :
               /\ c > op \/ tempo.version > op => c = tempo.version
               /\ c # op /\ tempo.version # op => c = tempo.version
      BY <1>5 DEF VersionInv, VersionsAgree, Agree
    <2>3. CASE tempo.version = Empty
      <3>1. ~(op > op) /\ ~(Empty > op) /\ \A c \in {crCache.version, cr.version} : ~(c > op)
        BY <1>1, <1>5, <2>2, <2>3, StepsAssumption DEF Empty, TypeOK, Versions
      <3>2. cr'.version = op'
        BY <1>5, <2>3 DEF refreshedVersion
      <3>3. ~(cr'.version > op') /\ ~(crCache'.version > op')
        BY <1>5, <2>1, <3>1, <3>2
      <3> QED BY <1>5, <3>2, <3>3 DEF VersionsAgree, Agree
    <2>4. CASE tempo.version # Empty
      <3>1. cr'.version = tempo.version
        BY <1>5, <2>4 DEF refreshedVersion
      <3> QED BY <1>5, <2>1, <2>2, <3>1 DEF VersionsAgree, Agree
    <2> QED BY <2>3, <2>4
  <1> QED BY <1>2, <1>3, <1>4, <1>5, VersionWrites, VersionReads

LEMMA PastUpgradeStep ==
  ASSUME TypeOK, TypeOK', HonestInv, MaxListFaults = 0, VersionInv, Next
  PROVE  PastUpgrade'
  <1> USE DEF PastUpgrade, InUpgrade, InSteps, VersionInv
  <1>1. CASE \/ UserEdit \/ Kubernetes \/ ExpireJob \/ SyncCR \/ SyncSts \/ SyncJob
    <2>1. UNCHANGED <<op, worker>>
      BY <1>1 DEF UserEdit, Kubernetes, StartPod, StopPod, ReportStatus, RunJob, ExpireJob,
         SyncCR, SyncSts, SyncJob
    <2> QED BY <2>1 DEF worker
  <1>2. CASE (\E v \in Versions : Restart(v)) \/ handleReconcileStatus
    <2>1. pc' = "idle"
      BY <1>2 DEF Restart, Release, handleReconcileStatus
    <2> QED BY <2>1
  <1>3. CASE StartReconcile
    <2>1. /\ pc' \in {"upgrade", "createOrUpdate"} /\ tempo' = crCache /\ op' = op
          /\ pc' = "createOrUpdate" => crCache.version \in {Empty, op}
      BY <1>3 DEF StartReconcile, needsUpgrade
    <2>2. op \in Int
      BY DEF TypeOK, Versions
    <2> QED BY <2>1, <2>2
  <1>4. CASE upgradeSpec
    <2>1. op \in Int /\ tempo \in CRs /\ tempo.version \in Int
      BY <1>4 DEF upgradeSpec, TypeOK, CRs, Versions, Empty, Unparseable
    <2> QED BY <1>4, <2>1 DEF upgradeSpec, StepFailed, Finish
  <1>5. CASE /\ Upgrading /\ ~upgradeSpec /\ pc' # "status" /\ pc' # "createOrUpdate"
    <2>1. op' = op /\ tempo' = tempo /\ pc \in InUpgrade /\ pc' \in InUpgrade
      BY <1>5 DEF Upgrading, StepSpec, StepDelete, StepChown, WaitDrained, CreateJob, WaitJob,
         StepsDone, PatchSpec, PatchStatus, StepFailed, Finish
    <2> QED BY <2>1
  <1>6. CASE Upgrading /\ pc' = "status"
    <2>1. outcome' # "ok"
      BY <1>6 DEF Upgrading, upgradeSpec, StepSpec, StepDelete, StepChown, WaitDrained, CreateJob,
         WaitJob, StepsDone, PatchSpec, PatchStatus, StepFailed, Finish
    <2> QED BY <1>6, <2>1
  <1>7. CASE PatchStatus /\ pc' = "createOrUpdate"
    <2>1. op' = op /\ pc = "patchStatus" /\ tempo' = cr'
      BY <1>7 DEF PatchStatus, Finish
    <2>2. op \in Int /\ (cr'.version = cr.version \/ cr'.version = op)
      BY <2>1, <1>7, VersionWrites DEF TypeOK, Versions
    <2>3. cr'.version = op
      <3>1. upgraded.version = op /\ [cr EXCEPT !.version = op] \in CRs
        BY <2>1 DEF HonestInv, StepsRecorded, TypeOK, CRs
      <3>2. cr' = IF cr.version = op THEN cr ELSE Bumped([cr EXCEPT !.version = op])
        BY <1>7, <3>1 DEF PatchStatus, Finish
      <3> QED BY <3>1, <3>2, BumpedCR DEF TypeOK, CRs
    <2> QED BY <1>7, <2>1, <2>2, <2>3
  <1>8. CASE createOrUpdate
    <2>1. op' = op /\ tempo' = tempo /\ pc = "createOrUpdate" /\ pc' = "status"
      BY <1>8 DEF createOrUpdate, Finish
    <2> QED BY <2>1
  <1>9. ASSUME Upgrading, pc' = "createOrUpdate", ~upgradeSpec PROVE PatchStatus
    BY <1>9 DEF Upgrading, StepSpec, StepDelete, StepChown, WaitDrained, CreateJob,
       WaitJob, StepsDone, PatchSpec, StepFailed, Finish
  <1> QED
    BY <1>1, <1>2, <1>3, <1>4, <1>5, <1>6, <1>7, <1>8, <1>9 DEF Next, Reconcile

\* As long as the pods can be listed, the version in the status only goes
\* back when a pass that failed reports the copy it started from: no pass
\* that succeeds does it, nor the patch of an upgrade, for any versions,
\* restarts and downgrades of the operator and however stale its cache is.
THEOREM SuccessNeverReverts ==
  ASSUME MaxListFaults = 0
  PROVE  Spec => RevertsOnlyOnError
  <1>1. Init => HonestInv /\ VersionInv
    <2>1. Init => VersionInv
      BY DEF Init, VersionInv, VersionsAgree, Agree, PastUpgrade, InUpgrade, InSteps
    <2> QED BY <2>1, InitHonest
  <1>2. TypeOK /\ TypeOK' /\ HonestInv /\ VersionInv /\ [Next]_vars => HonestInv' /\ VersionInv'
    <2> SUFFICES ASSUME TypeOK, TypeOK', HonestInv, VersionInv, [Next]_vars
                 PROVE  HonestInv' /\ VersionInv'
      OBVIOUS
    <2>1. CASE UNCHANGED vars
      <3>1. UNCHANGED <<op, cr, crCache, pc, tempo, outcome>>
        BY <2>1 DEF vars, cluster, caches, worker
      <3>2. VersionInv'
        BY <3>1 DEF VersionInv, VersionsAgree, Agree, PastUpgrade
      <3> QED BY <2>1, <3>2, HonestStep
    <2>2. CASE Next
      BY <2>2, HonestStep, VersionsAgreeStep, PastUpgradeStep DEF VersionInv
    <2> QED BY <2>1, <2>2
  <1>3. TypeOK /\ HonestInv /\ VersionInv /\ [Next]_vars =>
          [cr.version \in Versions /\ cr'.version < cr.version
             => pc = "status" /\ outcome # "ok"]_vars
    <2> SUFFICES ASSUME TypeOK, HonestInv, VersionInv, Next,
                        cr.version \in Versions, cr'.version < cr.version
                 PROVE  pc = "status" /\ outcome # "ok"
      OBVIOUS
    <2>1. /\ op \in Int /\ cr.version \in Int /\ op # Empty
          /\ pc # "idle" => tempo.version \in Int
      BY StepsAssumption DEF TypeOK, CRs, Versions, Empty, Unparseable
    <2>2. cr'.version # cr.version
      BY <2>1
    <2>3. CASE pc = "patchStatus" /\ cr'.version = op
      BY <2>1, <2>3 DEF VersionInv, VersionsAgree, Agree, PastUpgrade, InUpgrade
    <2>4. CASE pc = "status" /\ cr'.version = refreshedVersion(tempo.version)
      <3>1. ASSUME outcome = "ok" PROVE FALSE
        <4>1. tempo.version = Empty \/ tempo.version >= op
          BY <2>4, <3>1 DEF VersionInv, PastUpgrade
        <4>2. /\ cr.version > op \/ tempo.version > op => cr.version = tempo.version
              /\ cr.version # Empty
          BY <2>1, <2>4, StepsAssumption DEF VersionInv, VersionsAgree, Agree, Versions, Empty
        <4> QED BY <2>1, <2>4, <4>1, <4>2 DEF refreshedVersion, Empty
      <3> QED BY <2>4, <3>1
    <2> QED BY <2>2, <2>3, <2>4, VersionWrites
  <1> QED BY <1>1, <1>2, <1>3, UpgradeTypeCorrect, PTL DEF Spec, RevertsOnlyOnError

----------------------------------------------------------------------------
(* The volumes of the ingester.                                            *)

\* Volumes the chown step has not seen belong to a CR, to copies of it, to an
\* ingester and to a pod from before that step, and a pass that gets past the
\* steps has not left it out.
RootOlder ==
  volumes = "root" /\ ~OpenShift => \A v \in ChownSteps :
    /\ cr.version < v /\ crCache.version < v /\ (pc # "idle" => tempo.version < v)
    /\ sts # NoObj => sts.image < v
    /\ pod < v
    /\ pc \in InSteps => op < v \/ v \in steps
    /\ pc \in {"patch", "patchStatus", "createOrUpdate"} => op < v

\* A job that is done has done its work, ...
JobDone == job = "done" \/ jobCache = "done" => volumes = "tempo"

\* ... and a CR without volumes is one whose version cannot be read.
Made(c) == c.version # Empty /\ (volumes = "none" => c.version = Unparseable)
NoneMade ==
  /\ Made(cr) /\ Made(crCache) /\ (pc # "idle" => Made(tempo))
  /\ volumes = "none" => sts = NoObj /\ pod = 0 /\ pc \in {"idle", "upgrade", "status"}

VolumesInv == RootOlder /\ JobDone /\ NoneMade


\* Volumes change hands once.
LEMMA JobStep ==
  ASSUME TypeOK, VolumesInv, Next
  PROVE  JobDone' /\ (volumes' = volumes \/ volumes' = "tempo")
  <1> USE DEF VolumesInv, JobDone
  <1>1. CASE StartPod
    <2>1. volumes' = volumes
      BY <1>1 DEF StartPod, NoneMade
    <2> QED BY <1>1, <2>1 DEF StartPod, caches
  <1>2. CASE RunJob
    BY <1>2 DEF RunJob, caches
  <1>3. CASE UNCHANGED <<volumes, job, jobCache>>
    BY <1>3
  <1>4. CASE ExpireJob \/ CreateJob \/ SyncJob \/ (\E v \in Versions : Restart(v))
    <2>1. /\ volumes' = volumes /\ (job' # "done" \/ job' = job) /\ jobCache' \in {jobCache, job}
      BY <1>4, UpgradeAbsenceAssumption DEF ExpireJob, CreateJob, SyncJob, Restart, cluster, caches, Jobs
    <2> QED BY <2>1
  <1> QED
    BY <1>1, <1>2, <1>3, <1>4
       DEF Next, UserEdit, Kubernetes, StopPod, ReportStatus, SyncCR, SyncSts, Reconcile,
           StartReconcile, Upgrading, upgradeSpec, StepSpec, StepDelete, StepChown, WaitDrained,
           WaitJob, StepsDone, PatchSpec, PatchStatus, createOrUpdate, handleReconcileStatus,
           cluster, caches

LEMMA NoneMadeStep ==
  ASSUME TypeOK, HonestInv, MaxListFaults = 0, VolumesInv, Next
  PROVE  NoneMade'
  <1> USE DEF VolumesInv, NoneMade
  <1>1. volumes' = "none" => volumes = "none"
    BY JobStep
  <1>2. op # Empty
    BY StepsAssumption DEF TypeOK, Versions, Empty
  <1>3. Made(cr)'
    BY <1>1, <1>2, VersionWrites DEF Made, refreshedVersion
  <1>4. Made(crCache)' /\ (pc' # "idle" => Made(tempo)')
    BY <1>1, <1>3, VersionReads DEF Made
  <1>5. ASSUME volumes = "none"
        PROVE  sts' = NoObj /\ pod' = 0 /\ pc' \in {"idle", "upgrade", "status"}
    <2>1. /\ sts = NoObj /\ pod = 0 /\ crCache.version = Unparseable
          /\ pc \in {"idle", "upgrade", "status"} /\ (pc # "idle" => tempo.version = Unparseable)
      BY <1>5 DEF Made
    <2>2. op # Unparseable /\ Unparseable # Empty /\ ~(Unparseable > op)
      BY StepsAssumption DEF TypeOK, Versions, Empty, Unparseable
    <2>3. CASE StartReconcile
      BY <2>1, <2>2, <2>3 DEF StartReconcile, needsUpgrade, cluster
    <2>4. CASE upgradeSpec
      BY <2>1, <2>2, <2>4 DEF upgradeSpec, StepFailed, Finish, cluster
    <2>5. CASE handleReconcileStatus
      BY <2>1, <2>5 DEF handleReconcileStatus, Release
    <2>6. CASE \/ UserEdit \/ Kubernetes \/ ExpireJob \/ SyncCR \/ SyncSts \/ SyncJob
               \/ \E v \in Versions : Restart(v)
      BY <2>1, <2>6 DEF UserEdit, Kubernetes, StartPod, StopPod, ReportStatus, RunJob, ExpireJob,
         SyncCR, SyncSts, SyncJob, Restart, Release, cluster, worker
    <2> QED
      BY <2>1, <2>3, <2>4, <2>5, <2>6
         DEF Next, Reconcile, Upgrading, StepSpec, StepDelete, StepChown, WaitDrained, CreateJob,
             WaitJob, StepsDone, PatchSpec, PatchStatus, createOrUpdate
  <1> QED BY <1>1, <1>3, <1>4, <1>5

\* The CR and its copies stay older than the step while the volumes are root's.
LEMMA RootVersions ==
  ASSUME TypeOK, HonestInv, MaxListFaults = 0, VolumesInv, Next, volumes = "root", ~OpenShift,
         NEW v \in ChownSteps
  PROVE  cr'.version < v /\ crCache'.version < v /\ (pc' # "idle" => tempo'.version < v)
  <1>1. /\ cr.version < v /\ crCache.version < v /\ (pc # "idle" => tempo.version < v)
        /\ pc = "patchStatus" => op < v
    BY DEF VolumesInv, RootOlder
  <1>2. pc # "idle" => tempo.version # Empty
    BY DEF VolumesInv, NoneMade, Made
  <1>3. cr'.version < v
    BY <1>1, <1>2, VersionWrites DEF refreshedVersion
  <1> QED BY <1>1, <1>3, VersionReads

\* So do its ingester and its pods.
LEMMA RootIngester ==
  ASSUME TypeOK, VolumesInv, Next, volumes = "root", ~OpenShift, NEW v \in ChownSteps
  PROVE  (sts' # NoObj => sts'.image < v) /\ pod' < v
  <1>1. (sts # NoObj => sts \in Stss /\ sts.image < v) /\ pod < v /\ (pc = "createOrUpdate" => op < v)
    BY DEF VolumesInv, RootOlder, TypeOK
  <1>2. pod' < v
    <2>1. 0 < v
      BY StepsAssumption DEF Versions
    <2>2. pod' = pod \/ pod' = 0 \/ (sts # NoObj /\ pod' = sts.image)
      BY DEF Next, UserEdit, Kubernetes, StartPod, StopPod, ReportStatus, RunJob, ExpireJob, SyncCR,
         SyncSts, SyncJob, Restart, Reconcile, StartReconcile, Upgrading, upgradeSpec, StepSpec,
         StepDelete, StepChown, WaitDrained, CreateJob, WaitJob, StepsDone, PatchSpec, PatchStatus,
         createOrUpdate, handleReconcileStatus, cluster
    <2> QED BY <1>1, <2>1, <2>2
  <1>3. CASE ReportStatus
    BY <1>1, <1>2, <1>3 DEF ReportStatus, Stss
  <1>4. CASE StepChown
    BY <1>1, <1>2, <1>4 DEF StepChown, Stss
  <1>5. CASE createOrUpdate
    BY <1>1, <1>2, <1>5 DEF createOrUpdate
  <1>6. CASE sts' \in {sts, NoObj}
    BY <1>1, <1>2, <1>6
  <1> QED
    BY <1>2, <1>3, <1>4, <1>5, <1>6
       DEF Next, UserEdit, Kubernetes, StartPod, StopPod, RunJob, ExpireJob, SyncCR, SyncSts,
           SyncJob, Restart, Reconcile, StartReconcile, Upgrading, upgradeSpec, StepSpec,
           StepDelete, WaitDrained, CreateJob, WaitJob, StepsDone, PatchSpec, PatchStatus,
           handleReconcileStatus, cluster

\* And a pass does not leave the step out.
LEMMA RootSteps ==
  ASSUME TypeOK, VolumesInv, Next, volumes = "root", ~OpenShift, NEW v \in ChownSteps
  PROVE  /\ pc' \in InSteps => op' < v \/ v \in steps'
         /\ pc' \in {"patch", "patchStatus", "createOrUpdate"} => op' < v
  <1> USE DEF InSteps
  <1>1. /\ pc \in InSteps => op < v \/ v \in steps
        /\ pc \in {"patch", "patchStatus", "createOrUpdate"} => op < v
        /\ crCache.version < v /\ (pc # "idle" => tempo.version < v)
    BY DEF VolumesInv, RootOlder
  <1>2. op \in Int /\ v \in Int
    BY StepsAssumption DEF TypeOK, Versions
  <1>3. CASE \/ UserEdit \/ Kubernetes \/ ExpireJob \/ SyncCR \/ SyncSts \/ SyncJob
    <2>1. UNCHANGED <<op, worker>>
      BY <1>3 DEF UserEdit, Kubernetes, StartPod, StopPod, ReportStatus, RunJob, ExpireJob,
         SyncCR, SyncSts, SyncJob
    <2> QED BY <1>1, <2>1 DEF worker
  <1>4. CASE pc' \in {"idle", "status"}
    BY <1>4
  <1>5. CASE StartReconcile
    <2>1. crCache.version # Empty
      BY DEF VolumesInv, NoneMade, Made
    <2> QED BY <1>1, <1>5, <2>1 DEF StartReconcile, needsUpgrade
  <1>6. CASE upgradeSpec /\ pc' # "status"
    <2>1. op' = op /\ pc # "idle" /\ tempo.version \in Int
      BY <1>6 DEF upgradeSpec, TypeOK, CRs, Versions, Empty, Unparseable
    <2>2. CASE pc' = "createOrUpdate" /\ tempo.version > op
      BY <1>1, <1>2, <2>1, <2>2
    <2>3. CASE pc' = "step" /\ steps' = pendingSteps(tempo.version)
      BY <1>1, <1>2, <2>1, <2>3 DEF pendingSteps
    <2> QED BY <1>6, <2>2, <2>3 DEF upgradeSpec, StepFailed, Finish
  <1>7. CASE (StepSpec \/ StepDelete \/ StepChown \/ WaitDrained \/ CreateJob) /\ pc' # "status"
    <2>1. pc \in InSteps /\ pc' \in InSteps /\ op' = op
      BY <1>7 DEF StepSpec, StepDelete, StepChown, WaitDrained, CreateJob, StepFailed, Finish
    <2>2. steps' = steps \/ \E w \in SpecSteps \cup DeleteSteps : steps' = steps \ {w}
      BY <1>7 DEF StepSpec, StepDelete, StepChown, WaitDrained, CreateJob, StepFailed, Finish
    <2>3. \A w \in SpecSteps \cup DeleteSteps : w # v
      BY StepsAssumption
    <2> QED BY <1>1, <2>1, <2>2, <2>3
  <1>8. CASE WaitJob /\ pc' # "status"
    BY <1>8 DEF WaitJob, VolumesInv, JobDone, StepFailed, Finish
  <1>9. CASE StepsDone
    <2>1. pc = "step" /\ steps = {} /\ pc' = "patch" /\ op' = op
      BY <1>9 DEF StepsDone
    <2> QED BY <1>1, <2>1
  <1>10. CASE (PatchSpec \/ PatchStatus) /\ pc' # "status"
    <2>1. pc \in {"patch", "patchStatus"} /\ pc' \in {"patchStatus", "createOrUpdate"} /\ op' = op
      BY <1>10 DEF PatchSpec, PatchStatus, Finish
    <2> QED BY <1>1, <2>1
  <1>11. CASE createOrUpdate \/ handleReconcileStatus \/ (\E w \in Versions : Restart(w))
    <2>1. pc' \in {"idle", "status"}
      BY <1>11 DEF createOrUpdate, handleReconcileStatus, Restart, Release, Finish
    <2> QED BY <2>1
  <1> QED
    BY <1>3, <1>4, <1>5, <1>6, <1>7, <1>8, <1>9, <1>10, <1>11 DEF Next, Reconcile, Upgrading

LEMMA VolumesStep ==
  ASSUME TypeOK, HonestInv, MaxListFaults = 0, VolumesInv, [Next]_vars
  PROVE  VolumesInv'
  <1>1. CASE UNCHANGED vars
    <2>1. UNCHANGED <<op, cr, sts, job, pod, volumes, crCache, jobCache, pc, tempo, steps>>
      BY <1>1 DEF vars, cluster, caches, worker
    <2>2. RootOlder'
      BY <2>1 DEF VolumesInv, RootOlder
    <2>3. JobDone' /\ NoneMade'
      BY <2>1 DEF VolumesInv, JobDone, NoneMade, Made
    <2> QED BY <2>2, <2>3 DEF VolumesInv
  <1>2. CASE Next
    <2>1. RootOlder'
      <3> SUFFICES ASSUME volumes' = "root", ~OpenShift, NEW v \in ChownSteps
                   PROVE  /\ cr'.version < v /\ crCache'.version < v
                          /\ pc' # "idle" => tempo'.version < v
                          /\ sts' # NoObj => sts'.image < v
                          /\ pod' < v
                          /\ pc' \in InSteps => op' < v \/ v \in steps'
                          /\ pc' \in {"patch", "patchStatus", "createOrUpdate"} => op' < v
        BY DEF RootOlder
      <3>1. volumes = "root"
        BY <1>2, JobStep
      <3> QED BY <1>2, <3>1, RootVersions, RootIngester, RootSteps
    <2> QED BY <1>2, <2>1, JobStep, NoneMadeStep DEF VolumesInv
  <1> QED BY <1>1, <1>2

\* An ingester that does not run as root never meets volumes that belong to
\* root, for every list of upgrade steps and whatever fails, as long as the
\* pods can be listed and the CR was given a version before the operator was
\* replaced: the chown step of the upgrade is skipped only where there is
\* nothing to chown, and nothing starts the new pods before its job is done.
THEOREM VolumesChowned ==
  ASSUME MaxListFaults = 0, Empty \notin StartVersions
  PROVE  Spec => []VolumesOwned
  <1>1. Init => VolumesInv
    <2> SUFFICES ASSUME Init PROVE VolumesInv
      OBVIOUS
    <2>1. PICK v \in StartVersions :
            /\ cr = [version |-> v,
                     legacy |-> IF v = Empty THEN {} ELSE {s \in SpecSteps : v < s},
                     edits |-> 0, condition |-> "none", rv |-> 0]
            /\ \/ v \notin Versions /\ sts = NoObj /\ pod = 0 /\ volumes = "none"
               \/ /\ v \in Versions
                  /\ sts = [image |-> v, replicas |-> 1, status |-> 1] /\ pod = v
                  /\ volumes = IF \E s \in ChownSteps : s <= v THEN "tempo" ELSE "root"
      BY DEF Init
    <2>2. cr.version = v /\ v # Empty /\ v \in Versions \cup {Empty, Unparseable}
      BY <2>1, StepsAssumption
    <2>3. crCache = cr /\ pc = "idle" /\ job = NoObj /\ jobCache = NoObj /\ NoObj # "done"
      BY UpgradeAbsenceAssumption DEF Init, Jobs
    <2>4. JobDone /\ NoneMade
      BY <2>1, <2>2, <2>3 DEF JobDone, NoneMade, Made
    <2>5. RootOlder
      <3> SUFFICES ASSUME volumes = "root", NEW s \in ChownSteps
                   PROVE  cr.version < s /\ (sts # NoObj => sts.image < s) /\ pod < s
        BY <2>3 DEF RootOlder, InSteps
      <3>1. v \in Versions /\ pod = v /\ sts = [image |-> v, replicas |-> 1, status |-> 1]
            /\ ~(s <= v)
        BY <2>1
      <3>2. v < s
        BY <3>1, StepsAssumption DEF Versions
      <3> QED BY <2>2, <3>1, <3>2
    <2> QED BY <2>4, <2>5 DEF VolumesInv
  <1>2. TypeOK /\ TypeOK' /\ HonestInv /\ VolumesInv /\ [Next]_vars => HonestInv' /\ VolumesInv'
    BY HonestStep, VolumesStep
  <1>3. VolumesInv => VolumesOwned
    BY DEF VolumesInv, RootOlder, VolumesOwned
  <1> QED BY <1>1, <1>2, <1>3, InitHonest, UpgradeTypeCorrect, PTL DEF Spec
============================================================================
