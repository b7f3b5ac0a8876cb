-------------------------- MODULE TempoStackStatus --------------------------
(***************************************************************************)
(* The status of a TempoStack: how a pass of Reconcile turns the pods of   *)
(* the components and its own outcome into conditions, and when such a     *)
(* pass is run.                                                            *)
(*                                                                         *)
(*   internal/status/components.go, conditions.go, status.go, metrics.go   *)
(*   internal/controller/tempo/tempostack_controller.go (handleReconcile-  *)
(*   Status), common.go (updateOrDeleteWithStatusPred)                     *)
(*                                                                         *)
(* Simplifications: one managed TempoStack that is not deleted; of the     *)
(* pass before handleReconcileStatus only the outcome is kept; a condition *)
(* has its message as its reason; a cache catches up in one step; versions *)
(* are in Upgrade.                                                         *)
(***************************************************************************)
EXTENDS Integers, Sequences, FiniteSets

CONSTANTS
  Pods, Components,
  Component,        \* the component of a pod, [Pods -> Components]
  Generator,        \* the metrics generator, which the spec may disable
  Counted,          \* components that GetComponentsStatus counts
  ListOrder,        \* the order in which componentsStatus lists them
  ConfigErrors,     \* messages of a ConfigurationError
  OtherErrors,      \* messages of any other error
  NoObj,
  RVs,              \* bound: resourceVersions wrap around here
  MaxChanges,       \* bound: changes of pods and of the spec
  MaxFaults         \* bound: failed requests and failed passes

Phases    == {"Pending", "Running", "Succeeded", "Failed", "Unknown"}
PodStates == [phase : Phases, ready : BOOLEAN, terminating : BOOLEAN]

PodStatuses == {"Pending", "Running", "Ready", "Succeeded", "Failed", "Unknown"}
PodMaps     == [Pods -> PodStatuses \cup {"none"}]

Types   == {"Ready", "Failed", "Pending", "ConfigurationError"}
Reasons == {"none", "Ready", "FailedComponents", "PendingComponents"}
             \cup ConfigErrors \cup OtherErrors
ConditionLists ==
  [Types -> [status : {"absent", "False", "True"}, reason : Reasons]]

CRs == [generator : BOOLEAN, conditions : ConditionLists, components : PodMaps,
        rv : 0..RVs-1]

ASSUME ComponentsAssumption ==
  /\ IsFiniteSet(Pods)
  /\ Component \in [Pods -> Components]
  /\ Counted \subseteq Components
  /\ ListOrder \in Seq(Components)

ASSUME ErrorsAssumption ==
  /\ ConfigErrors \cap OtherErrors = {}
  /\ {"ok", "FailedComponents"} \cap (ConfigErrors \cup OtherErrors) = {}

ASSUME StatusBoundsAssumption ==
  RVs \in Nat \ {0} /\ MaxChanges \in Nat /\ MaxFaults \in Nat

ASSUME StatusAbsenceAssumption == NoObj \notin PodStates /\ NoObj \notin CRs

VARIABLES
  \* API server
  cr, pods,
  \* informer caches, work queue
  crCache, podCache,
  reported,         \* status of each workload, as last seen by its informer
  queued,
  \* the worker
  pc, tempo, outcome,
  next,             \* position in ListOrder
  found,            \* pod status maps so far
  metrics,          \* the status_condition gauges
  \* bounds
  changes, faults

caches == <<crCache, podCache, reported>>
worker == <<pc, tempo, outcome, next, found>>
bounds == <<changes, faults>>
vars   == <<cr, pods, caches, queued, worker, metrics, bounds>>

NoPods       == [p \in Pods |-> "none"]
NoConditions == [t \in Types |-> [status |-> "absent", reason |-> "none"]]

Bumped(c) == [c EXCEPT !.rv = (@ + 1) % RVs]

----------------------------------------------------------------------------
(* Users, the kubelet, the controllers of the workloads.                   *)

Change == changes < MaxChanges /\ changes' = changes + 1
Fault  == faults < MaxFaults /\ faults' = faults + 1

\* A user turns the metrics generator on or off.
UserEdit ==
  /\ Change
  /\ cr' = Bumped([cr EXCEPT !.generator = ~@])
  /\ UNCHANGED <<pods, caches, queued, worker, metrics, faults>>

\* A pod is created, moves on, is marked for deletion, or goes.
PodChange(p, s) ==
  /\ Change
  /\ pods[p] # s
  /\ s # NoObj => (s.ready => s.phase = "Running")
  /\ IF pods[p] = NoObj THEN s.phase = "Pending" /\ ~s.terminating
     ELSE \/ s = NoObj
          \/ /\ s # NoObj /\ pods[p].phase \notin {"Failed", "Succeeded"}
             /\ s.phase = "Pending" => pods[p].phase = "Pending"
             /\ pods[p].terminating => s.terminating
  /\ pods' = [pods EXCEPT ![p] = s]
  /\ UNCHANGED <<cr, caches, queued, worker, metrics, faults>>

\* What the status of a workload says: its active pods, its ready pods.
Active(c)  == {p \in Pods : /\ Component[p] = c /\ pods[p] # NoObj
                            /\ ~pods[p].terminating
                            /\ pods[p].phase \notin {"Failed", "Succeeded"}}
View(c)    == <<Cardinality(Active(c)), Cardinality({p \in Active(c) : pods[p].ready})>>

\* Mutant: only the number of replicas is compared.
replicasDifferent(old, new) == old[1] # new[1]

\* statusDifferent, of updateOrDeleteWithStatusPred.
statusDifferent(old, new) == old # new

\* A new status of a workload is an event.
SyncWorkload(c) ==
  /\ reported[c] # View(c)
  /\ reported' = [reported EXCEPT ![c] = View(c)]
  /\ queued' = (queued \/ statusDifferent(reported[c], View(c)))
  /\ UNCHANGED <<cr, pods, crCache, podCache, worker, metrics, bounds>>

\* Pods are cached, but they are no events.
SyncPods ==
  /\ podCache # pods
  /\ podCache' = pods
  /\ UNCHANGED <<cr, pods, crCache, reported, queued, worker, metrics, bounds>>

\* createOrUpdateOnlyPred: the status of the CR is no event.
SyncCR ==
  /\ crCache # cr
  /\ crCache' = cr
  /\ queued' = (queued \/ crCache.generator # cr.generator)
  /\ UNCHANGED <<cr, pods, podCache, reported, worker, metrics, bounds>>

----------------------------------------------------------------------------
(* components.go and conditions.go.                                        *)

podStatus(p) == IF p.phase = "Running" /\ p.ready THEN "Ready" ELSE p.phase

\* appendPodStatus skips terminating pods.
appendPodStatus(p) ==
  IF podCache[p] = NoObj THEN "none"
  ELSE IF podCache[p].terminating THEN "none" ELSE podStatus(podCache[p])

\* Mutant: the other conditions are not reset.
noReset(conditions, type, reason) ==
  [conditions EXCEPT ![type] = [status |-> "True", reason |-> reason]]

\* UpdateCondition: nothing to do if the condition is there, otherwise it is
\* set and all others are reset.
UpdateCondition(conditions, type, reason) ==
  IF conditions[type] = [status |-> "True", reason |-> reason] THEN conditions
  ELSE [t \in Types |->
          IF t = type THEN [status |-> "True", reason |-> reason]
          ELSE IF conditions[t].status = "absent" THEN conditions[t]
          ELSE [status |-> "False", reason |-> conditions[t].reason]]

\* Mutant: unknown pods are pending, not failed.
someFailed(map) == \E p \in Pods : Component[p] \in Counted /\ map[p] = "Failed"

Some(map, statuses) == \E p \in Pods : Component[p] \in Counted /\ map[p] \in statuses

anyFailed(map) == Some(map, {"Failed", "Unknown"})

\* GetComponentsStatus: failed pods first, then those that are not ready.
ComponentConditions(conditions, map) ==
  IF anyFailed(map) THEN UpdateCondition(conditions, "Failed", "FailedComponents")
  ELSE IF Some(map, {"Pending", "Running"})
  THEN UpdateCondition(conditions, "Pending", "PendingComponents")
  ELSE UpdateCondition(conditions, "Ready", "Ready")

----------------------------------------------------------------------------
(* Reconcile.                                                              *)

Release == pc' = "idle" /\ tempo' = NoObj /\ outcome' = "ok" /\ next' = 1 /\ found' = NoPods

\* The pass up to its outcome.
StartReconcile ==
  /\ pc = "idle" /\ queued
  /\ queued' = FALSE
  /\ pc' = "list" /\ tempo' = crCache
  /\ \/ outcome' = "ok" /\ UNCHANGED faults
     \/ Fault /\ outcome' \in ConfigErrors \cup OtherErrors
  /\ UNCHANGED <<cr, pods, caches, next, found, metrics, changes>>

\* Mutant: the pods of the generator are always listed.
listsAll(c) == TRUE

\* componentsStatus asks for this component.
lists(c) == c = Generator => tempo.generator

\* componentsStatus lists the pods of one component after the other, of the
\* generator only if it is enabled; an error ends it, with no result.
listComponent ==
  /\ pc = "list" /\ next \in DOMAIN ListOrder
  /\ LET c == ListOrder[next]
     IN \/ /\ found' = [p \in Pods |->
                          IF Component[p] = c /\ lists(c) THEN appendPodStatus(p) ELSE found[p]]
           /\ next' = next + 1 /\ UNCHANGED <<pc, faults>>
        \/ /\ Fault
           /\ found' = NoPods /\ pc' = "refreshEmpty" /\ UNCHANGED next
  /\ UNCHANGED <<cr, pods, caches, queued, tempo, outcome, metrics, changes>>

Listed ==
  /\ pc = "list" /\ next \notin DOMAIN ListOrder
  /\ pc' = "refresh"
  /\ UNCHANGED <<cr, pods, caches, queued, tempo, outcome, next, found, metrics, bounds>>

\* The conditions of handleReconcileStatus.
NewConditions ==
  IF outcome \in ConfigErrors
  THEN UpdateCondition(tempo.conditions, "ConfigurationError", outcome)
  ELSE IF outcome \in OtherErrors
  THEN UpdateCondition(tempo.conditions, "Failed", outcome)
  ELSE IF pc = "refreshEmpty" THEN NoConditions
  ELSE ComponentConditions(tempo.conditions, found)

TrueTypes(conditions) == {t \in Types : conditions[t].status = "True"}

\* Refresh: update the metrics, then write the status; after a conflict, to
\* the version of the CR that is in the cache.
Refresh ==
  /\ pc \in {"refresh", "refreshEmpty"}
  /\ Release
  /\ metrics' = TrueTypes(NewConditions)
  /\ \/ /\ tempo = cr \/ crCache = cr
        /\ LET new == [generator |-> cr.generator, conditions |-> NewConditions,
                       components |-> found, rv |-> cr.rv]
           IN cr' = IF new = cr THEN cr ELSE Bumped(new)
        /\ queued' = (queued \/ outcome \in OtherErrors) /\ UNCHANGED faults
     \/ /\ tempo # cr /\ crCache # cr
        /\ queued' = TRUE /\ UNCHANGED <<cr, faults>>
     \/ Fault /\ queued' = TRUE /\ UNCHANGED cr
  /\ UNCHANGED <<pods, caches, changes>>

\* The operator restarts; the gauges start at zero.
Restart ==
  /\ Fault
  /\ Release
  /\ crCache' = cr /\ podCache' = pods
  /\ reported' = [c \in Components |-> View(c)]
  /\ queued' = TRUE /\ metrics' = {}
  /\ UNCHANGED <<cr, pods, changes>>

----------------------------------------------------------------------------
\* A new TempoStack, whose workloads have no pods yet.
Init ==
  /\ cr \in {[generator |-> g, conditions |-> NoConditions, components |-> NoPods,
              rv |-> 0] : g \in BOOLEAN}
  /\ pods = [p \in Pods |-> NoObj]
  /\ crCache = cr /\ podCache = pods /\ reported = [c \in Components |-> <<0, 0>>]
  /\ queued = TRUE
  /\ pc = "idle" /\ tempo = NoObj /\ outcome = "ok" /\ next = 1 /\ found = NoPods
  /\ metrics = {}
  /\ changes = 0 /\ faults = 0

Reconcile == StartReconcile \/ listComponent \/ Listed \/ Refresh

Next ==
  \/ UserEdit \/ \E p \in Pods, s \in PodStates \cup {NoObj} : PodChange(p, s)
  \/ SyncPods \/ SyncCR \/ \E c \in Components : SyncWorkload(c)
  \/ Reconcile \/ Restart

Spec == Init /\ [][Next]_vars

\* The worker and the informers keep running.
Fairness == /\ WF_vars(Reconcile) /\ WF_vars(SyncPods) /\ WF_vars(SyncCR)
            /\ \A c \in Components : WF_vars(SyncWorkload(c))
FairSpec == Spec /\ Fairness

\* The watch of the pods is ahead of the watches of the workloads, which
\* miss no state of their pods.
Ordered ==
  /\ reported' # reported => podCache' = pods
  /\ pods' # pods => reported = [c \in Components |-> View(c)]
OrderedSpec == Init /\ [][Next /\ Ordered]_vars /\ Fairness

----------------------------------------------------------------------------
(* Properties.                                                             *)

\* Every variable has its type; a disabled generator has no pods in the maps.
TypeOK ==
  /\ cr \in CRs /\ crCache \in CRs
  /\ tempo \in CRs \cup {NoObj} /\ (pc # "idle" => tempo # NoObj)
  /\ pods \in [Pods -> PodStates \cup {NoObj}]
  /\ podCache \in [Pods -> PodStates \cup {NoObj}]
  /\ reported \in [Components -> Nat \X Nat]
  /\ queued \in BOOLEAN
  /\ pc \in {"idle", "list", "refresh", "refreshEmpty"}
  /\ outcome \in {"ok"} \cup ConfigErrors \cup OtherErrors
  /\ next \in Nat \ {0} /\ found \in PodMaps /\ (pc = "idle" => found = NoPods)
  /\ \A p \in Pods : found[p] # "none" => (Component[p] = Generator => tempo.generator)
  /\ metrics \subseteq Types
  /\ changes \in Nat /\ faults \in Nat

AtMostOne(types) == \A s, t \in types : s = t

\* UpdateCondition: "it resets all other status conditions to false", also
\* when it starts from an old copy of the conditions or returns early. At most
\* one condition of the CR is true, and at most one gauge is set.
OneCondition == AtMostOne(TrueTypes(cr.conditions)) /\ AtMostOne(metrics)

\* The condition agrees with the pod status maps stored beside it, although
\* the two are computed from copies of different age and an outcome of the
\* pass takes precedence.
Agrees(c) ==
  /\ c.conditions["Ready"].status = "True" =>
       ~Some(c.components, {"Failed", "Unknown", "Pending", "Running"})
  /\ c.conditions["Pending"].status = "True" =>
       /\ Some(c.components, {"Pending", "Running"})
       /\ ~Some(c.components, {"Failed", "Unknown"})
  /\ c.conditions["Failed"] = [status |-> "True", reason |-> "FailedComponents"] =>
       Some(c.components, {"Failed", "Unknown"})

MapsAgree == Agrees(cr)

\* Copies have at most one true condition, too.
CopiesHaveOne ==
  /\ AtMostOne(TrueTypes(crCache.conditions))
  /\ pc # "idle" => AtMostOne(TrueTypes(tempo.conditions))

Troubled == {"Failed", "Unknown", "Pending", "Running"}
Healthy(p) == pods[p] = NoObj \/ pods[p].terminating \/ podStatus(pods[p]) \notin Troubled

\* "ConditionReady defines that all components are ready."
AllComponentsReady ==
  cr.conditions["Ready"].status = "True" =>
    \A p \in Pods : cr.components[p] \notin Troubled

\* The same, of components that have no pods yet.
ReadyHasPods ==
  cr.conditions["Ready"].status = "True" => \E p \in Pods : cr.components[p] = "Ready"

\* "handleReconcileStatus updates the status of each component and sets an
\* appropriate status condition": in the end, there is one.
HasCondition == <>[](TrueTypes(cr.conditions) # {})

\* In the end, the condition is Ready only if the counted pods are.
ReadyIsTrue ==
  <>[](cr.conditions["Ready"].status = "True" =>
         \A p \in Pods : Component[p] \in Counted /\ (Component[p] = Generator => cr.generator)
                           => Healthy(p))
============================================================================
