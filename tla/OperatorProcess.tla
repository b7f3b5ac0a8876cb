-------------------------- MODULE OperatorProcess --------------------------
(***************************************************************************)
(* What the operator does to its own pod, and what depends on it.          *)
(*                                                                         *)
(*   cmd/start: the runnable that reconciles the operator once per start   *)
(*   internal/controller/tempo/operator_controller.go                      *)
(*   internal/manifests/operator, networkpolicies/operator.go              *)
(*   internal/controller/tempo/tempostack_zone_labeling_controller.go      *)
(*   internal/manifests/manifestutils/node_placement.go                    *)
(*                                                                         *)
(* The operator creates the NetworkPolicies that decide whether its next   *)
(* request reaches the API server; every controller of the process depends *)
(* on that.  The one composed here is the zone labelling controller, whose *)
(* annotation the init containers of the Tempo pods wait for.              *)
(*                                                                         *)
(* A pod is [node, az, up, zone]: the node it is scheduled on or "", the   *)
(* annotation, whether its containers run, and the zone in their           *)
(* environment.  A label of a node is a value, "" or "absent".  The        *)
(* controller has one worker.                                              *)
(***************************************************************************)
EXTENDS NetworkPolicies, Sequences, FiniteSets

CONSTANTS
  Gates,           \* feature gates a start may run with
  Endpoints,       \* [ports, ips] the API server may have
  Pods0, Reused,   \* zone-aware pods; those re-created under the same name
  Nodes,
  LabelKeys,       \* the topology keys of the CR
  InitialLabels,   \* [Nodes -> [LabelKeys -> values]]
  NewLabels,       \* the same, as the nodes are relabelled to
  NoPod, NoObj, NoZone,
  MaxRestarts, MaxFaults, MaxMoves, MaxDeletions, MaxRelabels

ASSUME ReusedPods == Reused \subseteq Pods0

ASSUME ProcessBounds ==
  {MaxRestarts, MaxFaults, MaxMoves, MaxDeletions, MaxRelabels} \subseteq Nat

ASSUME GatesAssumption ==
  Gates \subseteq [prometheus : BOOLEAN, monitors : BOOLEAN, rules : BOOLEAN, netpol : BOOLEAN]

\* A zone is the labels of a node by key; a name is never empty.
Zones == [LabelKeys -> STRING]
Pod   == [node : Nodes \cup {""}, az : Zones \cup {NoZone}, up : BOOLEAN, zone : Zones \cup {NoZone}]

ASSUME NodesAssumption ==
  "" \notin Nodes /\ InitialLabels \in [Nodes -> Zones] /\ NewLabels \in [Nodes -> Zones]

ASSUME EndpointsAssumption == \A e \in Endpoints : e.ips # {} /\ e.ports # {}

ASSUME ProcessAbsence ==
  /\ NoZone \notin Zones /\ NoPod \notin Pod /\ NoObj \notin {"monitor", "rule"}
  /\ \A e \in Endpoints \cup {fallbackKubeAPIServerInfo} : policyAPIServer(e) # NoObj

VARIABLES
  pc,         \* of the process: "down", "up", "writing", "running"
  gates, todo, failed,   \* of the start-up reconcile
  own,        \* the operator's own objects by name
  missed,     \* history: a start-up failed to write the API server's policy
  endpoint,   \* where the API server listens
  pods, labels,
  queue,      \* the requests of the zone controller
  work,       \* the annotation it is about to write: <<pod, zone>> or <<>>
  relabelled, \* nodes whose labels have changed
  budget      \* what is left of the bounds

startup == <<pc, gates, todo, failed, own, missed, endpoint>>
zoning  == <<pods, labels, queue, work, relabelled>>
vars    == <<startup, zoning, budget>>

Names == {"monitor", "apiserver", "deny-all", "metrics", "webhook", "rule"}
Spend(what) == budget[what] > 0 /\ budget' = [budget EXCEPT ![what] = @ - 1]

Init ==
  /\ pc = "down" /\ gates = NoObj /\ todo = <<>> /\ failed = FALSE
  /\ own = [n \in Names |-> NoObj] /\ missed = FALSE /\ endpoint \in Endpoints
  /\ pods = [p \in Pods0 |-> NoPod] /\ labels = InitialLabels
  /\ queue = {} /\ work = <<>> /\ relabelled = {}
  /\ budget = [restart |-> MaxRestarts, fault |-> MaxFaults, move |-> MaxMoves,
               delete |-> MaxDeletions, relabel |-> MaxRelabels]

----------------------------------------------------------------------------
(* What the policies make of the operator's connections.                   *)

OwnPolicies == {own[n] : n \in {"apiserver", "deny-all", "metrics", "webhook"}} \ {NoObj}
Toward(type) == {q \in OwnPolicies : type \in q.types}

ReachesAPIServer ==
  \/ Toward("Egress") = {}
  \/ \E q \in Toward("Egress"), ip \in endpoint.ips, port \in endpoint.ports :
       <<ip, port>> \in q.egress \/ <<"any", port>> \in q.egress

WebhookReachable ==
  Toward("Ingress") = {} \/ \E q \in Toward("Ingress") : <<"any", 9443>> \in q.ingress

----------------------------------------------------------------------------
(* Start-up.  Without the API server the caches do not fill and no         *)
(* controller starts.                                                      *)

Existing == {p \in Pods0 : pods[p] # NoPod}

Start(g) ==
  /\ pc = "down" /\ ReachesAPIServer
  /\ pc' = "up" /\ gates' = g /\ failed' = FALSE
  /\ queue' = Existing
  /\ UNCHANGED <<todo, own, missed, endpoint, pods, labels, work, relabelled, budget>>

\* Mutant: policies are created only where there are none.
firstStartOnly(info) == IF own["apiserver"] = NoObj /\ gates.netpol THEN GenerateOperatorPolicies(info) ELSE <<>>

NetworkPolicyManifests(info) == IF gates.netpol THEN GenerateOperatorPolicies(info) ELSE <<>>

\* operator.BuildAll
BuildAll(info) ==
  (IF gates.monitors THEN <<<<"monitor", "monitor">>>> ELSE <<>>)
    \o NetworkPolicyManifests(info)
    \o (IF gates.rules THEN <<<<"rule", "rule">>>> ELSE <<>>)

\* A failed listing of the EndpointSlices falls back to port 6443.
Build ==
  /\ pc = "up" /\ ReachesAPIServer
  /\ \/ todo' = BuildAll(DiscoverKubernetesAPIServer(TRUE, endpoint)) /\ UNCHANGED budget
     \/ todo' = BuildAll(DiscoverKubernetesAPIServer(FALSE, endpoint)) /\ Spend("fault")
  /\ pc' = "writing"
  /\ UNCHANGED <<gates, failed, own, missed, endpoint, zoning>>

\* The own Deployment, the client or the version is not available, or the
\* API server is not: the error is logged, and nothing is tried again.
Abandon ==
  /\ pc = "up"
  /\ \/ ~ReachesAPIServer /\ UNCHANGED budget
     \/ Spend("fault")
  /\ pc' = "running" /\ failed' = TRUE
  /\ UNCHANGED <<gates, todo, own, missed, endpoint, zoning>>

\* A request that does not arrive; the error is logged, and the loop goes on.
Fails == (~ReachesAPIServer /\ UNCHANGED budget) \/ Spend("fault")

Write ==
  /\ pc = "writing" /\ todo # <<>>
  /\ LET name == Head(todo)[1]
     IN  \/ /\ ReachesAPIServer
            /\ own' = [own EXCEPT ![name] = Head(todo)[2]]
            /\ UNCHANGED <<failed, missed, budget>>
         \/ /\ Fails /\ failed' = TRUE /\ UNCHANGED own
            /\ missed' = IF name = "apiserver" THEN TRUE ELSE missed
  /\ todo' = Tail(todo)
  /\ UNCHANGED <<pc, gates, endpoint, zoning>>

\* Mutant: the ServiceMonitor is never pruned.
keepsMonitors(n) == n = "rule" /\ gates.prometheus /\ ~gates.rules

\* pruneObjects: the NetworkPolicies are not looked at.
Pruned(n) == gates.prometheus /\ ((n = "monitor" /\ ~gates.monitors) \/ (n = "rule" /\ ~gates.rules))

\* The first error ends it; the monitors go first.
PruneFails ==
  /\ \/ ~ReachesAPIServer /\ UNCHANGED <<own, budget>>
     \/ Spend("fault") /\ \E gone \in {{}, {"monitor"}} :
          own' = [n \in Names |-> IF n \in gone /\ Pruned(n) THEN NoObj ELSE own[n]]
  /\ failed' = TRUE

Prune ==
  /\ pc = "writing" /\ todo = <<>>
  /\ \/ failed /\ UNCHANGED <<own, failed, budget>>
     \/ /\ ~failed /\ (ReachesAPIServer \/ ~gates.prometheus)
        /\ own' = [n \in Names |-> IF Pruned(n) THEN NoObj ELSE own[n]]
        /\ UNCHANGED <<failed, budget>>
     \/ ~failed /\ gates.prometheus /\ PruneFails
  /\ pc' = "running"
  /\ UNCHANGED <<gates, todo, missed, endpoint, zoning>>

Crash ==
  /\ pc # "down" /\ Spend("restart")
  /\ pc' = "down" /\ todo' = <<>> /\ queue' = {} /\ work' = <<>>
  /\ UNCHANGED <<gates, failed, own, missed, endpoint, pods, labels, relabelled>>

\* A control plane node is replaced.
MoveAPIServer(e) ==
  /\ e # endpoint /\ Spend("move")
  /\ endpoint' = e
  /\ UNCHANGED <<pc, gates, todo, failed, own, missed, zoning>>

----------------------------------------------------------------------------
(* The pods and nodes.  Every change of a pod is an event; the predicate   *)
(* drops deletions.  Events of a process that is down are lost.            *)

\* Mutant: only the creation of a pod is an event.
createdOnly(p) == IF pc = "down" \/ pods[p] # NoPod THEN queue ELSE queue \cup {p}

\* createOrUpdatePodWithLabelPred
Queued(p) == IF pc = "down" THEN queue ELSE queue \cup {p}

PodChange(p, new) ==
  /\ pods' = [pods EXCEPT ![p] = new]
  /\ queue' = Queued(p)
  /\ UNCHANGED <<startup, labels, work, relabelled>>

\* ConfigureReplication: the pods carry the label and wait for the annotation.
Create(p) ==
  /\ pods[p] = NoPod /\ (p \in Reused \/ budget.delete = MaxDeletions)
  /\ PodChange(p, [node |-> "", az |-> NoZone, up |-> FALSE, zone |-> NoZone]) /\ UNCHANGED budget

Schedule(p, n) ==
  /\ p \in Existing /\ pods[p].node = ""
  /\ PodChange(p, [pods[p] EXCEPT !.node = n]) /\ UNCHANGED budget

Delete(p) ==
  /\ p \in Existing /\ Spend("delete")
  /\ pods' = [pods EXCEPT ![p] = NoPod]
  /\ UNCHANGED <<startup, labels, queue, work, relabelled>>

Relabel(n) ==
  /\ labels[n] # NewLabels[n] /\ Spend("relabel")
  /\ labels' = [labels EXCEPT ![n] = NewLabels[n]]
  /\ relabelled' = relabelled \cup {n}
  /\ UNCHANGED <<startup, pods, queue, work>>

\* Mutant: the containers do not wait for the annotation.
noInitContainer(p) == p \in Existing /\ pods[p].node # "" /\ ~pods[p].up

\* initContainerAZAnnotationCheck
AnnotationChecked(p) == p \in Existing /\ pods[p].az # NoZone /\ ~pods[p].up

\* The environment is fixed when the containers start.
RunContainers(p) ==
  /\ AnnotationChecked(p) /\ pods[p].node # ""
  /\ PodChange(p, [pods[p] EXCEPT !.zone = pods[p].az, !.up = TRUE]) /\ UNCHANGED budget

----------------------------------------------------------------------------
(* The zone labelling controller.                                          *)

LabelsComplete(n) == \A k \in LabelKeys : labels[n][k] # "absent"

\* The values joined; empty only if there is one key and its value is.
getAvailabilityZone(n) ==
  IF Cardinality(LabelKeys) = 1 /\ \A k \in LabelKeys : labels[n][k] = "" THEN NoZone ELSE labels[n]

\* A node without a label is an error, and the request is retried: it stays.
Reconcile(p) ==
  /\ pc # "down" /\ work = <<>> /\ p \in queue
  /\ p \in Existing /\ pods[p].node # "" => LabelsComplete(pods[p].node)
  /\ queue' = queue \ {p}
  /\ work' = IF \/ p \notin Existing \/ pods[p].node = ""
                \/ getAvailabilityZone(pods[p].node) \in {NoZone, pods[p].az}
             THEN <<>> ELSE <<p, getAvailabilityZone(pods[p].node)>>
  /\ UNCHANGED <<startup, pods, labels, relabelled, budget>>

\* The patch names the pod; it carries neither UID nor resource version.
annotatePodWithAvailabilityZone ==
  /\ pc # "down" /\ work # <<>>
  /\ LET p == work[1]
     IN  \/ /\ ReachesAPIServer /\ UNCHANGED budget
            /\ IF p \in Existing THEN pods' = [pods EXCEPT ![p].az = work[2]] /\ queue' = Queued(p)
                                 ELSE UNCHANGED <<pods, queue>>
         \/ ~ReachesAPIServer /\ queue' = queue \cup {p} /\ UNCHANGED <<pods, budget>>
         \/ Spend("fault") /\ queue' = queue \cup {p} /\ UNCHANGED pods
  /\ work' = <<>>
  /\ UNCHANGED <<startup, labels, relabelled>>

----------------------------------------------------------------------------
Next ==
  \/ \E g \in Gates : Start(g)
  \/ Build \/ Abandon \/ Write \/ Prune \/ Crash
  \/ \E e \in Endpoints : MoveAPIServer(e)
  \/ \E p \in Pods0 : \/ Create(p) \/ Delete(p) \/ RunContainers(p) \/ Reconcile(p)
                      \/ \E n \in Nodes : Schedule(p, n)
  \/ \E n \in Nodes : Relabel(n)
  \/ annotatePodWithAvailabilityZone

\* Kubernetes restarts the process, start-up and the worker go on, and the
\* kubelet starts containers.
Fairness ==
  /\ WF_vars(\E g \in Gates : Start(g)) /\ WF_vars(Build \/ Abandon) /\ WF_vars(Write) /\ WF_vars(Prune)
  /\ \A p \in Pods0 : WF_vars(Reconcile(p)) /\ WF_vars(RunContainers(p))
  /\ WF_vars(annotatePodWithAvailabilityZone)

Spec == Init /\ [][Next]_vars /\ Fairness

----------------------------------------------------------------------------
(* Properties.                                                             *)

\* After every write of a start-up, also one that a crash interrupts, the
\* operator's pod may still reach the API server, while the API server stays
\* in place. It cuts itself off in two cases only: its policy for the API
\* server does not exist, because writing it has failed, or that policy is
\* the one for the fallback port, and the API server listens elsewhere.
AccessKept ==
  budget.move = MaxMoves /\ ~ReachesAPIServer =>
    \/ own["apiserver"] = NoObj /\ missed
    \/ own["apiserver"] = policyAPIServer(fallbackKubeAPIServerInfo) /\ 6443 \notin endpoint.ports

\* Admission webhooks are reachable in the end, however often start-up is
\* interrupted after the policy that denies everything, unless the last
\* start-up met an error or the API server is out of reach.
WebhookServed == <>[](WebhookReachable \/ failed \/ ~ReachesAPIServer)

\* A start-up without errors leaves the monitoring objects its gates ask
\* for, whatever earlier starts with other gates left behind.
MonitoringFollows ==
  (pc = "running" /\ ~failed) => (gates.prometheus =>
    (own["monitor"] # NoObj <=> gates.monitors) /\ (own["rule"] # NoObj <=> gates.rules))

Labelled(n) == n \in Nodes /\ LabelsComplete(n) /\ getAvailabilityZone(n) # NoZone

\* A pod registers in the ring with the zone of the node it runs on, unless
\* the node was relabelled: Tempo never starts without its zone or with that
\* of another node.
ZoneOfNode ==
  \A p \in Existing \ Reused :
    pods[p].up /\ pods[p].node \notin relabelled => pods[p].zone = labels[pods[p].node]

\* A scheduled pod whose node has its labels, or gets them later, starts in
\* the end, through restarts of the operator and failed patches, while the
\* API server is in reach.
PodsStart ==
  \A p \in Pods0 :
    (p \in Existing /\ pods[p].node # "") ~> \/ p \notin Existing
                                             \/ pods[p].up
                                             \/ ~Labelled(pods[p].node)
                                             \/ ~ReachesAPIServer

(***************************************************************************)
(* Expectations the code does not meet; the README explains each.          *)
(***************************************************************************)

\* The operator never loses its access. It does in the two cases above, and
\* when the API server moves: the policy holds the addresses found at
\* start-up, and only a start-up renews it.
AccessSurvives == ReachesAPIServer

\* A pod that is re-created under its name also gets the zone of its node.
ZoneOfReused ==
  \A p \in Reused \cap Existing :
    pods[p].up /\ pods[p].node \notin relabelled => pods[p].zone = labels[pods[p].node]
=============================================================================
