------------------------------ MODULE Upgrade ------------------------------
(***************************************************************************)
(* The automated upgrade of a TempoStack: the operator version recorded in *)
(* the status of the CR, the upgrade steps with their side effects on the  *)
(* ingester and its volumes, the two patches that store the result, and    *)
(* the refresh of the status that ends every pass of Reconcile.            *)
(*                                                                         *)
(*   internal/upgrade/*.go, internal/status/status.go                      *)
(*   internal/controller/tempo/tempostack_controller.go                    *)
(*                                                                         *)
(* Simplifications: one managed TempoStack that is not deleted, with one   *)
(* ingester; versions are numbers; the Tempo version moves with the        *)
(* operator version; a cache catches up in one step; of the objects        *)
(* createOrUpdate writes only the ingester matters here.                   *)
(***************************************************************************)
EXTENDS Integers, FiniteSets

CONSTANTS
  Latest,           \* the latest operator version
  SpecSteps,        \* versions whose step rewrites a deprecated part of the spec
  DeleteSteps,      \* versions whose step deletes the ingester (0.5.0)
  ChownSteps,       \* versions whose step chowns its volumes (0.11.0)
  OpenShift,        \* the OpenShiftRoute gate: nothing to chown
  StartVersions,    \* versions recorded in the CR at the start
  Downgrades,       \* old operator versions may be deployed again
  NoObj,
  RVs,              \* bound: resourceVersions wrap around here
  MaxChanges,       \* bound: edits of the CR by users
  MaxFaults,        \* bound: failed requests and timeouts
  MaxListFaults,    \* bound: failed listings of the pods
  MaxRestarts       \* bound: restarts of the operator, with any version

Versions    == 1..Latest
Empty       == 0            \* the status of a new CR
Unparseable == -1           \* a version semver rejects

ASSUME StepsAssumption ==
  /\ Latest \in Nat \ {0}
  /\ SpecSteps \subseteq Versions /\ DeleteSteps \subseteq Versions
  /\ ChownSteps \subseteq Versions
  /\ SpecSteps \cap (DeleteSteps \cup ChownSteps) = {}
  /\ DeleteSteps \cap ChownSteps = {}
  /\ StartVersions \subseteq Versions \cup {Empty, Unparseable}

ASSUME UpgradeBoundsAssumption ==
  /\ OpenShift \in BOOLEAN /\ Downgrades \in BOOLEAN
  /\ RVs \in Nat \ {0} /\ MaxChanges \in Nat /\ MaxFaults \in Nat
  /\ MaxListFaults \in Nat /\ MaxRestarts \in Nat

Conditions == {"none", "components", "ConfigurationError", "Failed"}

\* legacy: the deprecated parts still in the spec; edits: the generation.
CRs  == [version : Versions \cup {Empty, Unparseable}, legacy : SUBSET SpecSteps,
         edits : 0..MaxChanges, condition : Conditions, rv : 0..RVs-1]
Stss == [image : Versions, replicas : 0..1, status : 0..1]
Jobs == {"running", "done", "failed"}

ASSUME UpgradeAbsenceAssumption == NoObj \notin CRs /\ NoObj \notin Stss /\ NoObj \notin Jobs

VARIABLES
  op,               \* version of the running operator
  \* API server
  cr, sts, job,
  pod,              \* version of the running ingester pod, or 0
  volumes,          \* owner of its volumes: none, root, tempo
  \* informer caches, work queue
  crCache, stsCache, jobCache, queued,
  \* the worker
  pc, tempo, upgraded, steps, outcome,
  \* bounds
  faults, listFaults, restarts

cluster == <<cr, sts, job, pod, volumes>>
caches  == <<crCache, stsCache, jobCache>>
worker  == <<pc, tempo, upgraded, steps, outcome>>
bounds  == <<faults, listFaults, restarts>>
vars    == <<op, cluster, caches, queued, worker, bounds>>

Bumped(c) == [c EXCEPT !.rv = (@ + 1) % RVs]

----------------------------------------------------------------------------
(* Users and the controllers of Kubernetes.                                *)

\* A user edits some part of the spec that no step touches.
UserEdit ==
  /\ cr.edits < MaxChanges
  /\ cr' = Bumped([cr EXCEPT !.edits = @ + 1])
  /\ UNCHANGED <<op, sts, job, pod, volumes, caches, queued, worker, bounds>>

\* The StatefulSet controller: pods follow the spec, ...
StartPod ==
  /\ sts # NoObj /\ sts.replicas = 1 /\ pod = 0
  /\ pod' = sts.image
  /\ volumes' = IF volumes # "none" THEN volumes
                ELSE IF \E v \in ChownSteps : v <= sts.image THEN "tempo" ELSE "root"
  /\ UNCHANGED <<op, cr, sts, job, caches, queued, worker, bounds>>

StopPod ==
  /\ pod # 0
  /\ sts # NoObj => sts.replicas = 0 \/ sts.image # pod
  /\ pod' = 0
  /\ UNCHANGED <<op, cr, sts, job, volumes, caches, queued, worker, bounds>>

\* ... and the status follows the pods.
Running == IF pod = 0 THEN 0 ELSE 1
ReportStatus ==
  /\ sts # NoObj /\ sts.status # Running
  /\ sts' = [sts EXCEPT !.status = Running]
  /\ UNCHANGED <<op, cr, job, pod, volumes, caches, queued, worker, bounds>>

Fault == faults < MaxFaults /\ faults' = faults + 1

\* The chown job succeeds, or fails for good; a day later it is gone.
RunJob ==
  /\ job = "running"
  /\ \/ job' = "done" /\ volumes' = "tempo" /\ UNCHANGED faults
     \/ Fault /\ job' = "failed" /\ UNCHANGED volumes
  /\ UNCHANGED <<op, cr, sts, pod, caches, queued, worker, listFaults, restarts>>

ExpireJob ==
  /\ job \in {"done", "failed"} /\ job' = NoObj
  /\ UNCHANGED <<op, cr, sts, pod, volumes, caches, queued, worker, bounds>>

----------------------------------------------------------------------------
(* Informers: createOrUpdateOnlyPred for the CR, updateOrDeleteWithStatus- *)
(* Pred for the ingester; nobody watches the job.                          *)

SyncCR ==
  /\ crCache # cr
  /\ crCache' = cr
  /\ queued' = (queued \/ crCache.edits # cr.edits \/ crCache.legacy # cr.legacy)
  /\ UNCHANGED <<op, cluster, stsCache, jobCache, worker, bounds>>

SyncSts ==
  /\ stsCache # sts
  /\ stsCache' = sts
  /\ queued' = (queued \/ stsCache # NoObj)
  /\ UNCHANGED <<op, cluster, crCache, jobCache, worker, bounds>>

SyncJob ==
  /\ jobCache # job
  /\ jobCache' = job
  /\ UNCHANGED <<op, cluster, crCache, stsCache, queued, worker, bounds>>

----------------------------------------------------------------------------
(* Reconcile, and Upgrade within it.                                       *)

\* The locals of a worker that is not running Reconcile.
Release == /\ pc' = "idle" /\ tempo' = NoObj /\ upgraded' = NoObj
           /\ steps' = {} /\ outcome' = "ok"

\* Another version of the operator is deployed, or the same one restarts.
Restart(v) ==
  /\ restarts < MaxRestarts /\ restarts' = restarts + 1
  /\ v < op => Downgrades
  /\ op' = v
  /\ crCache' = cr /\ stsCache' = sts /\ jobCache' = job /\ queued' = TRUE
  /\ Release
  /\ UNCHANGED <<cluster, faults, listFaults>>

\* What is left is to report the outcome; tempo is the original.
Finish(o) == /\ pc' = "status" /\ outcome' = o
             /\ upgraded' = NoObj /\ steps' = {} /\ UNCHANGED tempo

\* An error of an upgrade step is a ConfigurationError.
StepFailed == Finish("config")

\* Mutant: CRs without a version are upgraded, others are not.
upgradesNew(t) == t.version = Empty

\* New CRs, without a version, are up to date.
needsUpgrade(t) == t.version # Empty /\ t.version # op

StartReconcile ==
  /\ pc = "idle" /\ queued
  /\ queued' = FALSE
  /\ pc' = IF needsUpgrade(crCache) THEN "upgrade" ELSE "createOrUpdate"
  /\ tempo' = crCache
  /\ UNCHANGED <<op, cluster, caches, upgraded, steps, outcome, bounds>>

\* Mutant: the step of the CR's own version is run again.
stepsFrom(from) ==
  {v \in SpecSteps \cup DeleteSteps \cup ChownSteps : from <= v /\ v <= op}

\* The steps this operator knows that are newer than the CR.
pendingSteps(from) ==
  {v \in SpecSteps \cup DeleteSteps \cup ChownSteps : from < v /\ v <= op}

upgradeSpec ==
  /\ pc = "upgrade"
  /\ \/ tempo.version = Unparseable /\ StepFailed
     \/ /\ tempo.version > op
        /\ pc' = "createOrUpdate" /\ UNCHANGED <<tempo, upgraded, steps, outcome>>
     \/ /\ tempo.version # Unparseable /\ tempo.version <= op
        /\ pc' = "step" /\ upgraded' = tempo /\ steps' = pendingSteps(tempo.version)
        /\ UNCHANGED <<tempo, outcome>>
  /\ UNCHANGED <<op, cluster, caches, queued, bounds>>

\* The steps are run in ascending order.
Due(v) == v \in steps /\ \A w \in steps : v <= w

\* upgrade0_3_0, upgrade0_6_0, upgrade0_8_0, upgrade0_15_4: on the copy.
StepSpec ==
  /\ pc = "step"
  /\ \E v \in SpecSteps :
       /\ Due(v)
       /\ upgraded' = [upgraded EXCEPT !.legacy = @ \ {v}]
       /\ steps' = steps \ {v}
  /\ UNCHANGED <<op, cluster, caches, queued, pc, tempo, outcome, bounds>>

\* upgrade0_5_0: delete the ingester, if it is there; it will be re-created.
StepDelete ==
  /\ pc = "step"
  /\ \E v \in DeleteSteps :
       /\ Due(v)
       /\ \/ /\ stsCache = NoObj \/ sts # NoObj
             /\ sts' = IF stsCache = NoObj THEN sts ELSE NoObj
             /\ steps' = steps \ {v}
             /\ UNCHANGED <<pc, tempo, upgraded, outcome, faults>>
          \/ /\ stsCache # NoObj /\ sts = NoObj
             /\ StepFailed /\ UNCHANGED <<sts, faults>>
          \/ Fault /\ StepFailed /\ UNCHANGED sts
  /\ UNCHANGED <<op, cr, job, pod, volumes, caches, queued, listFaults, restarts>>

\* upgrade0_11_0 and scale_down_ingester: nothing to do on OpenShift or
\* without volumes; an ingester that does not exist needs no scaling down.
StepChown ==
  /\ pc = "step"
  /\ \E v \in ChownSteps :
       /\ Due(v)
       /\ \/ /\ OpenShift \/ volumes = "none"
             /\ steps' = steps \ {v}
             /\ UNCHANGED <<sts, pc, tempo, upgraded, outcome, faults>>
          \/ /\ ~OpenShift /\ volumes # "none"
             /\ \/ /\ stsCache = NoObj
                   /\ pc' = "createJob"
                   /\ UNCHANGED <<sts, tempo, upgraded, steps, outcome, faults>>
                \/ /\ stsCache # NoObj /\ sts # NoObj
                   /\ sts' = [sts EXCEPT !.replicas = 0]
                   /\ pc' = "drain"
                   /\ UNCHANGED <<tempo, upgraded, steps, outcome, faults>>
                \/ /\ stsCache # NoObj /\ sts = NoObj
                   /\ StepFailed /\ UNCHANGED <<sts, faults>>
          \/ ~OpenShift /\ Fault /\ StepFailed /\ UNCHANGED sts
  /\ UNCHANGED <<op, cr, job, pod, volumes, caches, queued, listFaults, restarts>>

\* It polls until the status shows no replicas, an error or the timeout.
WaitDrained ==
  /\ pc = "drain"
  /\ \/ /\ stsCache # NoObj /\ stsCache.status = 0
        /\ pc' = "createJob" /\ UNCHANGED <<tempo, upgraded, steps, outcome, faults>>
     \/ stsCache = NoObj /\ StepFailed /\ UNCHANGED faults
     \/ Fault /\ StepFailed
  /\ UNCHANGED <<op, cluster, caches, queued, listFaults, restarts>>

\* chown_pvcs: create the job, which fails if one is still around, ...
CreateJob ==
  /\ pc = "createJob"
  /\ \/ /\ job = NoObj /\ job' = "running"
        /\ pc' = "waitJob" /\ UNCHANGED <<tempo, upgraded, steps, outcome, faults>>
     \/ job # NoObj /\ StepFailed /\ UNCHANGED <<job, faults>>
     \/ Fault /\ StepFailed /\ UNCHANGED job
  /\ UNCHANGED <<op, cr, sts, pod, volumes, caches, queued, listFaults, restarts>>

\* ... and poll until it succeeded, an error or the timeout.
WaitJob ==
  /\ pc = "waitJob"
  /\ \/ /\ jobCache = "done"
        /\ pc' = "step" /\ steps' = {v \in steps : ~Due(v)}
        /\ UNCHANGED <<tempo, upgraded, outcome, faults>>
     \/ jobCache = NoObj /\ StepFailed /\ UNCHANGED faults
     \/ Fault /\ StepFailed
  /\ UNCHANGED <<op, cluster, caches, queued, listFaults, restarts>>

StepsDone ==
  /\ pc = "step" /\ steps = {}
  /\ upgraded' = [upgraded EXCEPT !.version = op]
  /\ pc' = "patch"
  /\ UNCHANGED <<op, cluster, caches, queued, tempo, steps, outcome, bounds>>

\* Mutant: nothing of the spec is stored.
nothingChanged(old, new) == {}

\* The merge patch of the spec holds what the steps changed, without a
\* resourceVersion.
specPatch(old, new) == old.legacy \ new.legacy

PatchSpec ==
  /\ pc = "patch"
  /\ \/ /\ cr' = IF cr.legacy \cap specPatch(tempo, upgraded) = {} THEN cr
                 ELSE Bumped([cr EXCEPT !.legacy = @ \ specPatch(tempo, upgraded)])
        /\ upgraded' = [cr' EXCEPT !.version = upgraded.version]
        /\ pc' = "patchStatus" /\ UNCHANGED <<tempo, steps, outcome, faults>>
     \/ Fault /\ Finish("failed") /\ UNCHANGED cr
  /\ UNCHANGED <<op, sts, job, pod, volumes, caches, queued, listFaults, restarts>>

\* The patch of the status is relative to the same original, so it carries
\* the new resourceVersion if there is one.
StatusPatchAccepted == upgraded.rv = tempo.rv \/ upgraded.rv = cr.rv

PatchStatus ==
  /\ pc = "patchStatus"
  /\ \/ /\ StatusPatchAccepted
        /\ cr' = IF cr.version = upgraded.version THEN cr
                 ELSE Bumped([cr EXCEPT !.version = upgraded.version])
        /\ tempo' = cr' /\ upgraded' = NoObj
        /\ pc' = "createOrUpdate" /\ UNCHANGED <<steps, outcome, faults>>
     \/ ~StatusPatchAccepted /\ Finish("failed") /\ UNCHANGED <<cr, faults>>
     \/ Fault /\ Finish("failed") /\ UNCHANGED cr
  /\ UNCHANGED <<op, sts, job, pod, volumes, caches, queued, listFaults, restarts>>

\* createOrUpdate, as far as it concerns the ingester.
AsDesired(s) == s.image = op /\ s.replicas = 1

createOrUpdate ==
  /\ pc = "createOrUpdate"
  /\ \/ /\ stsCache = NoObj /\ sts = NoObj
        /\ sts' = [image |-> op, replicas |-> 1, status |-> 0]
        /\ Finish("ok") /\ UNCHANGED faults
     \/ /\ stsCache # NoObj /\ AsDesired(stsCache)
        /\ Finish("ok") /\ UNCHANGED <<sts, faults>>
     \/ /\ stsCache # NoObj /\ ~AsDesired(stsCache) /\ stsCache = sts
        /\ sts' = [image |-> op, replicas |-> 1, status |-> sts.status]
        /\ Finish("ok") /\ UNCHANGED faults
     \/ /\ IF stsCache = NoObj THEN sts # NoObj ELSE ~AsDesired(stsCache) /\ stsCache # sts
        /\ Finish("failed") /\ UNCHANGED <<sts, faults>>
     \/ /\ Fault /\ \E o \in {"config", "failed"} : Finish(o)
        /\ UNCHANGED sts
  /\ UNCHANGED <<op, cr, job, pod, volumes, caches, queued, listFaults, restarts>>

ConditionOf(o) == CASE o = "ok"     -> "components"
                    [] o = "config" -> "ConfigurationError"
                    [] o = "failed" -> "Failed"

\* Mutant: every pass records the running version.
alwaysCurrent(v) == op

\* Refresh: the version fields are empty for new CRs.
refreshedVersion(v) == IF v = Empty THEN op ELSE v

\* The status as the pass computed it replaces the one of the CR, read again
\* from the cache if there was a conflict.
WriteStatus(v) ==
  /\ tempo = cr \/ crCache = cr
  /\ LET new == [cr EXCEPT !.version = refreshedVersion(v),
                           !.condition = ConditionOf(outcome)]
     IN cr' = IF new = cr THEN cr ELSE Bumped(new)

\* Mutant: no error is retried.
neverRetried(o) == FALSE

Retried(o) == o = "failed"

handleReconcileStatus ==
  /\ pc = "status"
  /\ Release
  /\ \/ /\ WriteStatus(tempo.version)
        /\ queued' = (queued \/ Retried(outcome)) /\ UNCHANGED <<faults, listFaults>>
     \/ \* GetComponentsStatus failed: the status starts from an empty one
        /\ listFaults < MaxListFaults /\ listFaults' = listFaults + 1
        /\ WriteStatus(Empty)
        /\ queued' = (queued \/ Retried(outcome)) /\ UNCHANGED faults
     \/ /\ tempo # cr /\ crCache # cr
        /\ queued' = TRUE /\ UNCHANGED <<cr, faults, listFaults>>
     \/ /\ Fault /\ queued' = TRUE /\ UNCHANGED <<cr, listFaults>>
  /\ UNCHANGED <<op, sts, job, pod, volumes, caches, restarts>>

----------------------------------------------------------------------------
\* A new CR has no version, no deprecated parts and no volumes; others were
\* made by the operator of their version.
Init ==
  /\ op \in Versions
  /\ \E v \in StartVersions :
       /\ cr = [version |-> v,
                legacy |-> IF v = Empty THEN {} ELSE {s \in SpecSteps : v < s},
                edits |-> 0, condition |-> "none", rv |-> 0]
       /\ v <= op \/ Downgrades
       /\ \/ v \notin Versions /\ sts = NoObj /\ pod = 0 /\ volumes = "none"
          \/ /\ v \in Versions
             /\ sts = [image |-> v, replicas |-> 1, status |-> 1] /\ pod = v
             /\ volumes = IF \E s \in ChownSteps : s <= v THEN "tempo" ELSE "root"
  /\ job = NoObj
  /\ crCache = cr /\ stsCache = sts /\ jobCache = job /\ queued = TRUE
  /\ pc = "idle" /\ tempo = NoObj /\ upgraded = NoObj /\ steps = {} /\ outcome = "ok"
  /\ faults = 0 /\ listFaults = 0 /\ restarts = 0

Upgrading ==
  \/ upgradeSpec \/ StepSpec \/ StepDelete \/ StepChown \/ WaitDrained
  \/ CreateJob \/ WaitJob \/ StepsDone \/ PatchSpec \/ PatchStatus

Reconcile == StartReconcile \/ Upgrading \/ createOrUpdate \/ handleReconcileStatus

Kubernetes == StartPod \/ StopPod \/ ReportStatus \/ RunJob

Next ==
  \/ UserEdit \/ Kubernetes \/ ExpireJob
  \/ SyncCR \/ SyncSts \/ SyncJob
  \/ \E v \in Versions : Restart(v)
  \/ Reconcile

Spec == Init /\ [][Next]_vars

\* The worker, the informers and the controllers of Kubernetes keep running.
FairSpec == Spec /\ WF_vars(Reconcile) /\ WF_vars(SyncCR) /\ WF_vars(SyncSts)
                 /\ WF_vars(SyncJob) /\ WF_vars(StartPod) /\ WF_vars(StopPod)
                 /\ WF_vars(ReportStatus) /\ WF_vars(RunJob) /\ WF_vars(ExpireJob)

\* Passes that read the current version of the CR.
ReadsFresh == pc = "idle" /\ pc' # "idle" => crCache = cr
FreshSpec  == Init /\ [][Next /\ ReadsFresh]_vars

----------------------------------------------------------------------------
(* Properties.                                                             *)

InSteps   == {"step", "drain", "createJob", "waitJob"}
InUpgrade == InSteps \cup {"patch", "patchStatus"}

\* Every variable has its type; the worker has its copies when it needs them,
\* and the steps it runs lie between the version of the CR and its own.
TypeOK ==
  /\ op \in Versions
  /\ cr \in CRs /\ crCache \in CRs
  /\ tempo \in CRs \cup {NoObj} /\ (pc # "idle" => tempo # NoObj)
  /\ upgraded \in CRs \cup {NoObj} /\ (pc \in InUpgrade => upgraded # NoObj)
  /\ sts \in Stss \cup {NoObj} /\ stsCache \in Stss \cup {NoObj}
  /\ job \in Jobs \cup {NoObj} /\ jobCache \in Jobs \cup {NoObj}
  /\ pod \in 0..Latest /\ volumes \in {"none", "root", "tempo"}
  /\ queued \in BOOLEAN
  /\ pc \in InUpgrade \cup {"idle", "upgrade", "createOrUpdate", "status"}
  /\ steps \subseteq Versions /\ \A v \in steps : tempo.version < v /\ v <= op
  /\ pc \notin InSteps => steps = {}
  /\ outcome \in {"ok", "config", "failed"}
  /\ faults \in Nat /\ listFaults \in Nat /\ restarts \in Nat

\* A CR is as old as its version says, or newer.
Honest(c) ==
  /\ c.version = Empty => c.legacy = {}
  /\ \A v \in c.legacy : c.version < v

\* The version in the status never claims an upgrade step the spec has not
\* seen, whatever fails between the two patches: otherwise Reconcile would
\* skip that step for good.
VersionHonest == Honest(cr)

\* Why it holds: caches and copies are honest and older than the CR; the copy
\* that is upgraded has only lost what a step removed, ...
CopiesHonest ==
  /\ Honest(cr) /\ Honest(crCache) /\ cr.legacy \subseteq crCache.legacy
  /\ pc # "idle" => Honest(tempo) /\ cr.legacy \subseteq tempo.legacy

\* ... and a step is only taken off the list once it is done.
StepsRecorded ==
  /\ pc \in InSteps =>
       \A v \in upgraded.legacy : v \in tempo.legacy /\ (v <= op => v \in steps)
  /\ pc \in {"drain", "createJob", "waitJob"} => \E v \in ChownSteps : Due(v)
  /\ pc = "patch" => /\ upgraded.version = op
                     /\ \A v \in upgraded.legacy : v \in tempo.legacy /\ op < v
  /\ pc = "patchStatus" => upgraded.version = op /\ \A v \in cr.legacy : op < v

\* The new Tempo, which does not run as root, never meets volumes that belong
\* to root.
VolumesOwned ==
  volumes = "root" /\ pod # 0 /\ ~OpenShift => \A v \in ChownSteps : pod < v

\* The version in the status never goes back.
VersionNeverReverts ==
  [][cr.version \in Versions => cr'.version >= cr.version]_vars

\* As long as the pods can be listed, a pass that succeeds never writes an older
\* version back, even if it started from a copy of the CR that predates the
\* upgrade, or runs in an operator that is older than the CR: only a failed pass
\* reports the status of its old copy.
RevertsOnlyOnError ==
  [][cr.version \in Versions /\ cr'.version < cr.version
       => pc = "status" /\ outcome # "ok"]_vars

\* Every CR ends up with the version of the operator, or keeps a newer one.
UpgradeCompletes == <>[](cr.version >= op)

\* "we delete the ingester StatefulSet, which will be recreated in the
\* reconcile loop"
IngesterRecreated == (sts = NoObj) ~> (sts # NoObj /\ sts.replicas = 1)
============================================================================
