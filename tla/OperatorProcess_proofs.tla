----------------------- MODULE OperatorProcess_proofs -----------------------
(***************************************************************************)
(* Proofs about the operator's own start-up and the zone labelling         *)
(* controller, for every set of gates, pods, nodes and endpoints.          *)
(***************************************************************************)
EXTENDS OperatorProcess, SequenceTheorems, TLAPS

PolicyNames == {"apiserver", "deny-all", "metrics", "webhook"}
Infos       == Endpoints \cup {fallbackKubeAPIServerInfo}

\* What is stored under a name.
Objects(n) ==
  CASE n = "apiserver" -> {policyAPIServer(i) : i \in Infos}
    [] n = "deny-all"  -> {policyDenyAll}
    [] n = "metrics"   -> {policyIngressToMetrics}
    [] n = "webhook"   -> {policyWebhook}
    [] OTHER           -> {n}

Entries == UNION {{n} \X Objects(n) : n \in Names}

TypeOK ==
  /\ pc \in {"down", "up", "writing", "running"} /\ failed \in BOOLEAN
  /\ gates \in Gates \cup {NoObj} /\ (pc # "down" => gates \in Gates)
  /\ todo \in Seq(Entries)
  /\ own = [n \in Names |-> own[n]] /\ \A n \in Names : own[n] \in Objects(n) \cup {NoObj}
  /\ missed \in BOOLEAN /\ endpoint \in Endpoints
  /\ pods \in [Pods0 -> Pod \cup {NoPod}]
  /\ labels \in [Nodes -> Zones]
  /\ queue \subseteq Pods0
  /\ work = <<>> \/ work \in Pods0 \X Zones
  /\ relabelled \subseteq Nodes
  /\ budget \in [restart : 0..MaxRestarts, fault : 0..MaxFaults, move : 0..MaxMoves,
                 delete : 0..MaxDeletions, relabel : 0..MaxRelabels]

----------------------------------------------------------------------------
(* AccessKept.                                                             *)

\* A policy that lets the operator reach the API server.
Admits(q, e) ==
  /\ "Egress" \in q.types
  /\ \E ip \in e.ips, port \in e.ports :
       <<ip, port>> \in q.egress \/ <<"any", port>> \in q.egress

\* What discovery made of the API server, or of a failed listing.
Fits(q, e) == Admits(q, e) \/ (q = policyAPIServer(fallbackKubeAPIServerInfo) /\ 6443 \notin e.ports)

\* The policy for the API server is there before any other, or comes before
\* it in what is still to be written, or could not be written; and it fits.
AccessInv ==
  budget.move = MaxMoves =>
    /\ own["apiserver"] # NoObj => Fits(own["apiserver"], endpoint)
    /\ \A n \in PolicyNames : own[n] # NoObj => own["apiserver"] # NoObj \/ missed
    /\ \A i \in 1..Len(todo) : todo[i][1] = "apiserver" => Fits(todo[i][2], endpoint)
    /\ \A i \in 1..Len(todo) : todo[i][1] \in PolicyNames =>
         own["apiserver"] # NoObj \/ missed \/ \E j \in 1..i : todo[j][1] = "apiserver"

----------------------------------------------------------------------------
(* MonitoringFollows.                                                      *)

Wanted == (IF gates.monitors THEN {"monitor"} ELSE {}) \cup (IF gates.rules THEN {"rule"} ELSE {})

\* What the gates ask for is there or still to be written.
MonitoringInv ==
  /\ pc = "up" => ~failed
  /\ pc = "writing" /\ ~failed => \A n \in Wanted :
       own[n] # NoObj \/ \E i \in 1..Len(todo) : todo[i][1] = n
  /\ MonitoringFollows

----------------------------------------------------------------------------
(* ZoneOfNode.                                                             *)

\* A zone that was read for a pod is that of its node.
ZoneFits(n, z) == n # "" /\ (n \notin relabelled => z = labels[n])

\* What is annotated, or about to be, fits; a pod that is not re-created under
\* its name cannot come back between the two.
ZoneInv ==
  /\ \A p \in Existing \ Reused :
       /\ pods[p].az # NoZone => ZoneFits(pods[p].node, pods[p].az)
       /\ pods[p].up => ZoneFits(pods[p].node, pods[p].zone)
  /\ work # <<>> /\ work[1] \notin Reused =>
       IF work[1] \in Existing THEN ZoneFits(pods[work[1]].node, work[2])
                               ELSE budget.delete # MaxDeletions

----------------------------------------------------------------------------
(* What start-up builds.                                                   *)

\* Discovery returns an address the API server has had, or the fallback.
LEMMA DiscoveryType ==
  ASSUME NEW e \in Endpoints, NEW listed \in BOOLEAN
  PROVE  DiscoverKubernetesAPIServer(listed, e) \in Infos
BY DEF DiscoverKubernetesAPIServer, Infos

\* GenerateOperatorPolicies: the policy for the API server is the first.
LEMMA PoliciesList ==
  ASSUME NEW info \in Infos
  PROVE  /\ GenerateOperatorPolicies(info) \in Seq(Entries)
         /\ Len(GenerateOperatorPolicies(info)) = 4
         /\ GenerateOperatorPolicies(info)[1] = <<"apiserver", policyAPIServer(info)>>
         /\ \A i \in 2..4 : GenerateOperatorPolicies(info)[i][1] \in PolicyNames \ {"apiserver"}
<1> DEFINE s == GenerateOperatorPolicies(info)
<1>1. /\ <<"apiserver", policyAPIServer(info)>> \in Entries
      /\ <<"deny-all", policyDenyAll>> \in Entries
      /\ <<"metrics", policyIngressToMetrics>> \in Entries
      /\ <<"webhook", policyWebhook>> \in Entries
  BY DEF Entries, Names, Objects
<1>2. s = <<<<"apiserver", policyAPIServer(info)>>, <<"deny-all", policyDenyAll>>,
            <<"metrics", policyIngressToMetrics>>, <<"webhook", policyWebhook>>>>
  BY DEF GenerateOperatorPolicies
<1> HIDE DEF s
<1>3. s \in Seq(Entries) /\ Len(s) = 4
  BY <1>1, <1>2
<1>4. \A i \in 2..4 : s[i][1] \in PolicyNames \ {"apiserver"}
  BY <1>2 DEF PolicyNames
<1>5. s[1] = <<"apiserver", policyAPIServer(info)>>
  BY <1>2
<1> QED BY <1>3, <1>4, <1>5 DEF s

\* BuildAll: a list of entries in which the policy for the API server precedes
\* the others, and which holds what the gates ask for.
LEMMA BuildList ==
  ASSUME NEW info \in Infos, gates \in Gates
  PROVE  LET s == BuildAll(info)
         IN  /\ s \in Seq(Entries)
             /\ \A i \in 1..Len(s) : s[i][1] = "apiserver" => s[i][2] = policyAPIServer(info)
             /\ \A i \in 1..Len(s) : s[i][1] \in PolicyNames => \E j \in 1..i : s[j][1] = "apiserver"
             /\ \A n \in Wanted : \E i \in 1..Len(s) : s[i][1] = n
<1> DEFINE a == IF gates.monitors THEN <<<<"monitor", "monitor">>>> ELSE <<>>
           b == NetworkPolicyManifests(info)
           c == IF gates.rules THEN <<<<"rule", "rule">>>> ELSE <<>>
           s == BuildAll(info)
<1>1. /\ a \in Seq(Entries) /\ Len(a) \in {0, 1}
      /\ \A i \in 1..Len(a) : a[i] = <<"monitor", "monitor">>
      /\ gates.monitors => Len(a) = 1
  <2>1. <<"monitor", "monitor">> \in Entries
    BY DEF Entries, Names, Objects
  <2> QED BY <2>1
<1>2. /\ c \in Seq(Entries) /\ Len(c) \in {0, 1}
      /\ \A i \in 1..Len(c) : c[i] = <<"rule", "rule">>
      /\ gates.rules => Len(c) = 1
  <2>1. <<"rule", "rule">> \in Entries
    BY DEF Entries, Names, Objects
  <2> QED BY <2>1
<1>3. /\ b \in Seq(Entries) /\ Len(b) \in {0, 4}
      /\ Len(b) = 4 => b[1] = <<"apiserver", policyAPIServer(info)>>
      /\ \A i \in 2..Len(b) : b[i][1] \in PolicyNames \ {"apiserver"}
  BY PoliciesList DEF NetworkPolicyManifests
<1>4. s = a \o b \o c
  BY DEF BuildAll
<1> HIDE DEF a, b, c, s
<1>5. /\ s \in Seq(Entries) /\ Len(s) = Len(a) + Len(b) + Len(c)
      /\ \A i \in 1..Len(a) : s[i] = a[i]
      /\ \A i \in 1..Len(b) : s[Len(a) + i] = b[i]
      /\ \A i \in 1..Len(c) : s[Len(a) + Len(b) + i] = c[i]
  BY <1>1, <1>2, <1>3, <1>4
<1>6. ASSUME NEW i \in 1..Len(s)
      PROVE  /\ s[i][1] = "apiserver" => s[i][2] = policyAPIServer(info)
             /\ s[i][1] \in PolicyNames => \E j \in 1..i : s[j][1] = "apiserver"
  <2>1. CASE i \in 1..Len(a)
    BY <1>1, <1>5, <2>1 DEF PolicyNames
  <2>2. CASE \E k \in 1..Len(b) : i = Len(a) + k
    <3> PICK k \in 1..Len(b) : i = Len(a) + k
      BY <2>2
    <3>0. Len(b) = 4 /\ 1 \in 1..Len(b)
      BY <1>3
    <3>1. Len(b) = 4 /\ s[Len(a) + 1] = b[1] /\ s[i] = b[k] /\ Len(a) + 1 \in 1..i
      BY <3>0, <1>1, <1>5
    <3>2. k = 1 \/ k \in 2..Len(b)
      BY <3>1
    <3> QED BY <1>3, <3>1, <3>2
  <2>3. CASE \E k \in 1..Len(c) : i = Len(a) + Len(b) + k
    BY <1>2, <1>5, <2>3 DEF PolicyNames
  <2>4. Len(a) \in Nat /\ Len(b) \in Nat /\ Len(c) \in Nat
    BY <1>1, <1>2, <1>3
  <2>5. i \in 1..Len(a) \/ i - Len(a) \in 1..Len(b) \/ i - Len(a) - Len(b) \in 1..Len(c)
    BY <1>5, <2>4
  <2>6. i = Len(a) + (i - Len(a)) /\ i = Len(a) + Len(b) + (i - Len(a) - Len(b))
    BY <2>4
  <2> QED BY <2>1, <2>2, <2>3, <2>5, <2>6
<1>7. gates.monitors => \E i \in 1..Len(s) : s[i][1] = "monitor"
  BY <1>1, <1>2, <1>3, <1>5, SMTT(60)
<1>8. gates.rules => \E i \in 1..Len(s) : s[i][1] = "rule"
  <2> SUFFICES ASSUME gates.rules PROVE \E i \in 1..Len(s) : s[i][1] = "rule"
    OBVIOUS
  <2>0. Len(c) = 1 /\ 1 \in 1..Len(c) /\ c[1] = <<"rule", "rule">>
    BY <1>2
  <2>1. Len(a) + Len(b) + 1 \in 1..Len(s) /\ s[Len(a) + Len(b) + 1] = <<"rule", "rule">>
    BY <2>0, <1>1, <1>3, <1>5
  <2> QED BY <2>1
<1> QED BY <1>5, <1>6, <1>7, <1>8 DEF s, Wanted

----------------------------------------------------------------------------
(* Types.                                                                  *)

\* What a bound still allows only shrinks, and only the one that is used.
LEMMA SpendType ==
  ASSUME TypeOK, NEW b \in {"restart", "fault", "move", "delete", "relabel"}, Spend(b)
  PROVE  /\ budget' \in [restart : 0..MaxRestarts, fault : 0..MaxFaults, move : 0..MaxMoves,
                          delete : 0..MaxDeletions, relabel : 0..MaxRelabels]
         /\ budget'[b] = budget[b] - 1 /\ budget[b] > 0
         /\ b # "move" => budget'.move = budget.move
         /\ b # "delete" => budget'.delete = budget.delete
<1> DEFINE B == [restart : 0..MaxRestarts, fault : 0..MaxFaults, move : 0..MaxMoves,
                 delete : 0..MaxDeletions, relabel : 0..MaxRelabels]
<1>0. budget \in B /\ budget[b] > 0 /\ budget' = [budget EXCEPT ![b] = @ - 1]
  BY DEF TypeOK, Spend
<1>1. CASE b = "restart"
  BY <1>0, <1>1, ProcessBounds
<1>2. CASE b = "fault"
  BY <1>0, <1>2, ProcessBounds
<1>3. CASE b = "move"
  BY <1>0, <1>3, ProcessBounds
<1>4. CASE b = "delete"
  BY <1>0, <1>4, ProcessBounds
<1>5. CASE b = "relabel"
  BY <1>0, <1>5, ProcessBounds
<1> QED BY <1>1, <1>2, <1>3, <1>4, <1>5

\* The initial state has the types.
LEMMA InitType == Init => TypeOK
<1> SUFFICES ASSUME Init PROVE TypeOK
  OBVIOUS
<1>1. budget \in [restart : 0..MaxRestarts, fault : 0..MaxFaults, move : 0..MaxMoves,
                  delete : 0..MaxDeletions, relabel : 0..MaxRelabels]
  BY ProcessBounds DEF Init
<1>2. todo \in Seq(Entries)
  BY DEF Init
<1> QED BY <1>1, <1>2, NodesAssumption DEF Init, TypeOK

\* The head of what is to be written is an object under its name.
LEMMA HeadType ==
  ASSUME TypeOK, todo # <<>>
  PROVE  /\ Head(todo) = todo[1] /\ 1 \in 1..Len(todo)
         /\ todo[1][1] \in Names /\ todo[1][2] \in Objects(todo[1][1])
         /\ Tail(todo) \in Seq(Entries) /\ Len(Tail(todo)) = Len(todo) - 1
         /\ \A i \in 1..Len(Tail(todo)) : Tail(todo)[i] = todo[i + 1]
<1>1. todo \in Seq(Entries)
  BY DEF TypeOK
<1>2. Head(todo) = todo[1] /\ 1 \in 1..Len(todo) /\ todo[1] \in Entries
  BY <1>1
<1>3. Tail(todo) \in Seq(Entries) /\ Len(Tail(todo)) = Len(todo) - 1
  BY <1>1
<1>4. \A i \in 1..Len(Tail(todo)) : Tail(todo)[i] = todo[i + 1]
  BY <1>1
<1>5. todo[1][1] \in Names /\ todo[1][2] \in Objects(todo[1][1])
  BY <1>2 DEF Entries
<1> QED BY <1>2, <1>3, <1>4, <1>5

\* Start-up keeps the types.
LEMMA StartupType ==
  ASSUME TypeOK, \/ \E g \in Gates : Start(g)
                 \/ Build \/ Abandon \/ Write \/ Prune \/ Crash
                 \/ \E e \in Endpoints : MoveAPIServer(e)
  PROVE  TypeOK'
<1>1. ASSUME NEW g \in Gates, Start(g) PROVE TypeOK'
  BY <1>1 DEF TypeOK, Start, Existing
<1>2. CASE Build
  <2>1. budget' \in [restart : 0..MaxRestarts, fault : 0..MaxFaults, move : 0..MaxMoves,
                     delete : 0..MaxDeletions, relabel : 0..MaxRelabels]
    BY <1>2, SpendType DEF Build, TypeOK
  <2>2. todo' \in Seq(Entries)
    <3>1. gates \in Gates /\ endpoint \in Endpoints
      BY <1>2 DEF Build, TypeOK
    <3>2. PICK listed \in BOOLEAN : todo' = BuildAll(DiscoverKubernetesAPIServer(listed, endpoint))
      BY <1>2 DEF Build
    <3>3. DiscoverKubernetesAPIServer(listed, endpoint) \in Infos
      BY <3>1, DiscoveryType
    <3> QED BY <3>1, <3>2, <3>3, BuildList
  <2> QED BY <1>2, <2>1, <2>2 DEF TypeOK, Build, zoning
<1>3. CASE Abandon
  <2>1. budget' \in [restart : 0..MaxRestarts, fault : 0..MaxFaults, move : 0..MaxMoves,
                     delete : 0..MaxDeletions, relabel : 0..MaxRelabels]
    BY <1>3, SpendType DEF Abandon, TypeOK
  <2> QED BY <1>3, <2>1 DEF TypeOK, Abandon, zoning
<1>4. CASE Write
  <2>1. budget' \in [restart : 0..MaxRestarts, fault : 0..MaxFaults, move : 0..MaxMoves,
                     delete : 0..MaxDeletions, relabel : 0..MaxRelabels]
    BY <1>4, SpendType DEF Write, Fails, TypeOK
  <2>2. todo' \in Seq(Entries)
    BY <1>4, HeadType DEF Write
  <2>3. own' = [n \in Names |-> own'[n]] /\ \A n \in Names : own'[n] \in Objects(n) \cup {NoObj}
    <3>1. CASE UNCHANGED own
      BY <3>1 DEF TypeOK
    <3>2. CASE own' = [own EXCEPT ![todo[1][1]] = todo[1][2]]
      BY <1>4, <3>2, HeadType DEF TypeOK, Write
    <3> QED BY <1>4, <3>1, <3>2, HeadType DEF Write
  <2>4. failed' \in BOOLEAN
    BY <1>4 DEF Write, TypeOK
  <2> QED BY <1>4, <2>1, <2>2, <2>3, <2>4 DEF TypeOK, Write, zoning
<1>5. CASE Prune
  <2>1. budget' \in [restart : 0..MaxRestarts, fault : 0..MaxFaults, move : 0..MaxMoves,
                     delete : 0..MaxDeletions, relabel : 0..MaxRelabels]
    BY <1>5, SpendType DEF Prune, PruneFails, TypeOK
  <2>2. own' = [n \in Names |-> own'[n]] /\ \A n \in Names : own'[n] \in Objects(n) \cup {NoObj}
    BY <1>5 DEF Prune, PruneFails, TypeOK
  <2>3. failed' \in BOOLEAN
    BY <1>5 DEF Prune, PruneFails, TypeOK
  <2> QED BY <1>5, <2>1, <2>2, <2>3 DEF TypeOK, Prune, zoning
<1>6. CASE Crash
  <2>1. budget' \in [restart : 0..MaxRestarts, fault : 0..MaxFaults, move : 0..MaxMoves,
                     delete : 0..MaxDeletions, relabel : 0..MaxRelabels]
    BY <1>6, SpendType DEF Crash
  <2>2. todo' \in Seq(Entries)
    BY <1>6 DEF Crash
  <2> QED BY <1>6, <2>1, <2>2 DEF TypeOK, Crash
<1>7. ASSUME NEW e \in Endpoints, MoveAPIServer(e) PROVE TypeOK'
  <2>1. budget' \in [restart : 0..MaxRestarts, fault : 0..MaxFaults, move : 0..MaxMoves,
                     delete : 0..MaxDeletions, relabel : 0..MaxRelabels]
    BY <1>7, SpendType DEF MoveAPIServer
  <2> QED BY <1>7, <2>1 DEF TypeOK, MoveAPIServer, zoning
<1> QED BY <1>1, <1>2, <1>3, <1>4, <1>5, <1>6, <1>7

\* So do the pods, the nodes and the zone labelling controller.
LEMMA ZoningType ==
  ASSUME TypeOK, \/ \E p \in Pods0 : \/ Create(p) \/ Delete(p) \/ RunContainers(p) \/ Reconcile(p)
                                     \/ \E n \in Nodes : Schedule(p, n)
                 \/ \E n \in Nodes : Relabel(n)
                 \/ annotatePodWithAvailabilityZone
  PROVE  TypeOK'
<1>1. ASSUME NEW p \in Pods0, NEW new \in Pod, PodChange(p, new), UNCHANGED budget PROVE TypeOK'
  BY <1>1 DEF TypeOK, PodChange, Queued, startup
<1>2. ASSUME NEW p \in Pods0, Create(p) PROVE TypeOK'
  <2>1. [node |-> "", az |-> NoZone, up |-> FALSE, zone |-> NoZone] \in Pod
    BY DEF Pod
  <2> QED BY <1>1, <1>2, <2>1 DEF Create
<1>3. ASSUME NEW p \in Pods0, NEW n \in Nodes, Schedule(p, n) PROVE TypeOK'
  <2>1. [pods[p] EXCEPT !.node = n] \in Pod
    <3>1. pods[p] \in Pod
      BY <1>3 DEF Schedule, Existing, TypeOK
    <3>2. n \in Nodes \cup {""}
      OBVIOUS
    <3> QED BY <3>1, <3>2 DEF Pod
  <2> QED BY <1>1, <1>3, <2>1 DEF Schedule
<1>4. ASSUME NEW p \in Pods0, RunContainers(p) PROVE TypeOK'
  <2>1. [pods[p] EXCEPT !.zone = pods[p].az, !.up = TRUE] \in Pod
    <3>1. pods[p] \in Pod
      BY <1>4 DEF RunContainers, AnnotationChecked, Existing, TypeOK
    <3> QED BY <3>1 DEF Pod
  <2> QED BY <1>1, <1>4, <2>1 DEF RunContainers
<1>5. ASSUME NEW p \in Pods0, Delete(p) PROVE TypeOK'
  BY <1>5, SpendType DEF TypeOK, Delete, startup
<1>6. ASSUME NEW p \in Pods0, Reconcile(p) PROVE TypeOK'
  <2>1. work' = <<>> \/ work' \in Pods0 \X Zones
    <3>1. CASE \/ p \notin Existing \/ pods[p].node = ""
               \/ getAvailabilityZone(pods[p].node) \in {NoZone, pods[p].az}
      BY <1>6, <3>1 DEF Reconcile
    <3>2. CASE ~(\/ p \notin Existing \/ pods[p].node = ""
                 \/ getAvailabilityZone(pods[p].node) \in {NoZone, pods[p].az})
      <4>1. pods[p].node \in Nodes
        BY <3>2 DEF TypeOK, Existing, Pod
      <4>2. getAvailabilityZone(pods[p].node) \in Zones
        BY <3>2, <4>1 DEF TypeOK, getAvailabilityZone
      <4> QED BY <1>6, <3>2, <4>2 DEF Reconcile
    <3> QED BY <3>1, <3>2
  <2> QED BY <1>6, <2>1 DEF TypeOK, Reconcile, startup
<1>7. ASSUME NEW n \in Nodes, Relabel(n) PROVE TypeOK'
  BY <1>7, SpendType, NodesAssumption DEF TypeOK, Relabel, startup
<1>8. CASE annotatePodWithAvailabilityZone
  <2>1. work[1] \in Pods0 /\ work[2] \in Zones
    BY <1>8 DEF TypeOK, annotatePodWithAvailabilityZone
  <2>2. budget' \in [restart : 0..MaxRestarts, fault : 0..MaxFaults, move : 0..MaxMoves,
                     delete : 0..MaxDeletions, relabel : 0..MaxRelabels]
    BY <1>8, SpendType DEF annotatePodWithAvailabilityZone, TypeOK
  <2>3. pods' \in [Pods0 -> Pod \cup {NoPod}]
    <3>1. work[1] \in Existing => [pods[work[1]] EXCEPT !.az = work[2]] \in Pod
      <4> SUFFICES ASSUME work[1] \in Existing PROVE [pods[work[1]] EXCEPT !.az = work[2]] \in Pod
        OBVIOUS
      <4>1. pods[work[1]] \in Pod
        BY DEF Existing, TypeOK
      <4> QED BY <2>1, <4>1 DEF Pod
    <3> QED BY <1>8, <2>1, <3>1 DEF annotatePodWithAvailabilityZone, TypeOK
  <2>4. queue' \subseteq Pods0
    BY <1>8, <2>1 DEF annotatePodWithAvailabilityZone, TypeOK, Queued
  <2> QED BY <1>8, <2>2, <2>3, <2>4 DEF TypeOK, annotatePodWithAvailabilityZone, startup
<1> QED BY <1>2, <1>3, <1>4, <1>5, <1>6, <1>7, <1>8

\* Every step keeps the types.
LEMMA NextType == TypeOK /\ [Next]_vars => TypeOK'
<1> SUFFICES ASSUME TypeOK, [Next]_vars PROVE TypeOK'
  OBVIOUS
<1>1. CASE UNCHANGED vars
  BY <1>1 DEF vars, startup, zoning, TypeOK
<1>2. CASE Next
  BY <1>2, StartupType, ZoningType DEF Next
<1> QED BY <1>1, <1>2

\* No step gives back what a bound has used up.
LEMMA BudgetShrinks ==
  ASSUME TypeOK, [Next]_vars
  PROVE  /\ budget'.move = MaxMoves => budget.move = MaxMoves
         /\ budget'.delete = MaxDeletions => budget.delete = MaxDeletions
<1>1. CASE UNCHANGED budget
  BY <1>1
<1>2. ASSUME NEW b \in {"restart", "fault", "move", "delete", "relabel"}, Spend(b)
      PROVE  /\ budget'.move = MaxMoves => budget.move = MaxMoves
             /\ budget'.delete = MaxDeletions => budget.delete = MaxDeletions
  BY <1>2, SpendType DEF TypeOK
<1>3. UNCHANGED budget \/ \E b \in {"restart", "fault", "move", "delete", "relabel"} : Spend(b)
  <2>1. CASE \E p \in Pods0 : \/ Create(p) \/ Delete(p) \/ RunContainers(p) \/ Reconcile(p)
                             \/ \E n \in Nodes : Schedule(p, n)
    BY <2>1 DEF Create, Delete, RunContainers, Reconcile, Schedule
  <2>2. CASE annotatePodWithAvailabilityZone \/ \E n \in Nodes : Relabel(n)
    BY <2>2 DEF annotatePodWithAvailabilityZone, Relabel
  <2>3. CASE \/ \E g \in Gates : Start(g)
             \/ Build \/ Abandon \/ Write \/ Prune \/ Crash
             \/ \E e \in Endpoints : MoveAPIServer(e)
    BY <2>3 DEF Start, Build, Abandon, Write, Fails, Prune, PruneFails, Crash, MoveAPIServer
  <2> QED BY <2>1, <2>2, <2>3 DEF Next, vars
<1> QED BY <1>1, <1>2, <1>3

----------------------------------------------------------------------------
(* The operator's access to the API server.                                *)

\* policyAPIServer fits what discovery found, or fell back to.
LEMMA DiscoveredFits ==
  ASSUME endpoint \in Endpoints, NEW listed \in BOOLEAN
  PROVE  Fits(policyAPIServer(DiscoverKubernetesAPIServer(listed, endpoint)), endpoint)
<1> DEFINE info == DiscoverKubernetesAPIServer(listed, endpoint)
<1>1. PICK ip \in endpoint.ips, port \in endpoint.ports : TRUE
  BY EndpointsAssumption
<1>2. CASE listed
  <2>1. info = endpoint
    BY <1>1, <1>2 DEF DiscoverKubernetesAPIServer
  <2>2. <<ip, port>> \in policyAPIServer(info).egress /\ "Egress" \in policyAPIServer(info).types
    BY <2>1, <1>1 DEF policyAPIServer, Policy
  <2> QED BY <2>2 DEF Admits, Fits
<1>3. CASE ~listed /\ 6443 \in endpoint.ports
  <2>1. info = [ports |-> {6443}, ips |-> {}]
    BY <1>3 DEF DiscoverKubernetesAPIServer, fallbackKubeAPIServerInfo
  <2>2. <<"any", 6443>> \in policyAPIServer(info).egress /\ "Egress" \in policyAPIServer(info).types
    BY <2>1 DEF policyAPIServer, Policy
  <2> QED BY <1>1, <1>3, <2>2 DEF Admits, Fits
<1>4. CASE ~listed /\ 6443 \notin endpoint.ports
  BY <1>4 DEF Fits, DiscoverKubernetesAPIServer
<1> QED BY <1>2, <1>3, <1>4

\* The invariant is why the API server is in reach.
LEMMA AccessReaches == AccessInv => AccessKept
<1> SUFFICES ASSUME AccessInv, budget.move = MaxMoves, ~ReachesAPIServer
             PROVE  \/ own["apiserver"] = NoObj /\ missed
                    \/ /\ own["apiserver"] = policyAPIServer(fallbackKubeAPIServerInfo)
                       /\ 6443 \notin endpoint.ports
  BY DEF AccessKept
<1>1. own["apiserver"] # NoObj \/ missed
  BY DEF AccessInv, ReachesAPIServer, Toward, OwnPolicies, PolicyNames
<1>2. CASE own["apiserver"] # NoObj
  <2>1. Fits(own["apiserver"], endpoint)
    BY <1>2 DEF AccessInv
  <2>2. ~Admits(own["apiserver"], endpoint)
    BY <1>2 DEF Admits, ReachesAPIServer, Toward, OwnPolicies
  <2> QED BY <2>1, <2>2 DEF Fits
<1> QED BY <1>1, <1>2

\* A fresh cluster has no policies.
LEMMA AccessInit == Init => AccessInv
BY DEF Init, AccessInv, Names, PolicyNames

\* No step of the operator takes the access away.
LEMMA AccessStep ==
  ASSUME TypeOK, AccessInv, [Next]_vars
  PROVE  AccessInv'
<1>1. ASSUME UNCHANGED <<own, missed, todo, endpoint>> PROVE AccessInv'
  BY <1>1, BudgetShrinks DEF AccessInv
<1>2. CASE Build
  <2> SUFFICES ASSUME budget'.move = MaxMoves
               PROVE  /\ \A i \in 1..Len(todo') : todo'[i][1] = "apiserver" => Fits(todo'[i][2], endpoint)
                      /\ \A i \in 1..Len(todo') : todo'[i][1] \in PolicyNames =>
                           \E j \in 1..i : todo'[j][1] = "apiserver"
    BY <1>2, BudgetShrinks DEF AccessInv, Build
  <2>1. gates \in Gates /\ endpoint \in Endpoints
    BY <1>2 DEF Build, TypeOK
  <2>2. PICK listed \in BOOLEAN : todo' = BuildAll(DiscoverKubernetesAPIServer(listed, endpoint))
    BY <1>2, <2>1 DEF Build
  <2>3. DiscoverKubernetesAPIServer(listed, endpoint) \in Infos
    BY <2>1, DiscoveryType
  <2> QED BY <2>1, <2>2, <2>3, BuildList, DiscoveredFits
<1>3. CASE Write
  <2> SUFFICES ASSUME budget.move = MaxMoves
               PROVE  AccessInv'
    BY BudgetShrinks DEF AccessInv
  <2>1. endpoint' = endpoint /\ (missed => missed')
    <3>1. endpoint' = endpoint /\ (missed' = missed \/ missed' = TRUE)
      BY <1>3 DEF Write
    <3> QED BY <3>1
  <2>2. /\ 1 \in 1..Len(todo) /\ todo[1][1] \in Names /\ todo[1][2] \in Objects(todo[1][1])
        /\ Len(todo') = Len(todo) - 1 /\ Len(todo) \in Nat
        /\ \A i \in 1..Len(todo') : todo'[i] = todo[i + 1] /\ i + 1 \in 1..Len(todo)
    BY <1>3, HeadType DEF Write, TypeOK
  <2>3. ASSUME NEW i \in 1..Len(todo'), todo'[i][1] = "apiserver" PROVE Fits(todo'[i][2], endpoint)
    BY <2>1, <2>2, <2>3 DEF AccessInv
  <2>4. ASSUME todo[1][1] # "apiserver", NEW i \in 1..Len(todo'), todo'[i][1] \in PolicyNames,
               own["apiserver"] = NoObj, ~missed
        PROVE  \E j \in 1..i : todo'[j][1] = "apiserver"
    <3>1. PICK k \in 1..(i + 1) : todo[k][1] = "apiserver"
      BY <2>2, <2>4 DEF AccessInv
    <3>2. k - 1 \in 1..i /\ todo'[k - 1] = todo[k]
      BY <2>2, <2>4, <3>1, SMTT(30)
    <3> QED BY <3>1, <3>2
  <2>5. CASE UNCHANGED own /\ todo[1][1] # "apiserver"
    BY <2>1, <2>3, <2>4, <2>5 DEF AccessInv
  <2>6. CASE UNCHANGED own /\ todo[1][1] = "apiserver" /\ missed'
    BY <2>1, <2>3, <2>6 DEF AccessInv
  <2>7. CASE own' = [own EXCEPT ![todo[1][1]] = todo[1][2]] /\ todo[1][1] = "apiserver"
    <3>1. own'["apiserver"] = todo[1][2]
      BY <2>7 DEF TypeOK, Names
    <3>2. Fits(own'["apiserver"], endpoint)
      BY <2>1, <2>2, <2>7, <3>1 DEF AccessInv
    <3>3. own'["apiserver"] # NoObj
      BY <2>2, <2>7, <3>1, ProcessAbsence DEF Objects, Infos
    <3> QED BY <2>1, <2>3, <3>2, <3>3 DEF AccessInv
  <2>8. CASE own' = [own EXCEPT ![todo[1][1]] = todo[1][2]] /\ todo[1][1] # "apiserver"
    <3>1. own'["apiserver"] = own["apiserver"]
          /\ \A n \in PolicyNames : own'[n] = own[n] \/ n = todo[1][1]
      BY <2>8 DEF TypeOK, Names, PolicyNames
    <3>2. todo[1][1] \in PolicyNames => own["apiserver"] # NoObj \/ missed
      BY <2>2, <2>8 DEF AccessInv
    <3>3. \A n \in PolicyNames : own'[n] # NoObj => own'["apiserver"] # NoObj \/ missed'
      BY <2>1, <3>1, <3>2 DEF AccessInv
    <3>4. own'["apiserver"] # NoObj => Fits(own'["apiserver"], endpoint)
      BY <2>1, <3>1 DEF AccessInv
    <3>5. \A i \in 1..Len(todo') : todo'[i][1] \in PolicyNames =>
            own'["apiserver"] # NoObj \/ missed' \/ \E j \in 1..i : todo'[j][1] = "apiserver"
      BY <2>1, <2>4, <2>8, <3>1
    <3> QED BY <2>1, <2>3, <3>3, <3>4, <3>5 DEF AccessInv
  <2> QED BY <1>3, <2>5, <2>6, <2>7, <2>8, HeadType DEF Write
<1>4. CASE Prune
  <2>1. \A n \in PolicyNames : own'[n] = own[n]
    BY <1>4 DEF Prune, PruneFails, Pruned, TypeOK, PolicyNames, Names
  <2>2. todo' = todo /\ endpoint' = endpoint /\ missed' = missed /\ own'["apiserver"] = own["apiserver"]
    BY <1>4, <2>1 DEF Prune, PolicyNames
  <2> QED BY <2>1, <2>2, BudgetShrinks DEF AccessInv
<1>5. CASE Crash
  <2>1. todo' = <<>> /\ Len(todo') = 0 /\ UNCHANGED <<own, missed, endpoint>>
    BY <1>5 DEF Crash
  <2>2. 1..Len(todo') = {}
    BY <2>1
  <2> QED BY <2>1, <2>2, BudgetShrinks DEF AccessInv
<1>6. ASSUME NEW e \in Endpoints, MoveAPIServer(e) PROVE AccessInv'
  BY <1>6, SpendType DEF MoveAPIServer, AccessInv, TypeOK
<1>7. CASE UNCHANGED vars
  BY <1>1, <1>7 DEF vars, startup
<1>8. CASE \/ \E g \in Gates : Start(g)
           \/ Abandon
           \/ \E p \in Pods0 : \/ Create(p) \/ Delete(p) \/ RunContainers(p) \/ Reconcile(p)
                               \/ \E n \in Nodes : Schedule(p, n)
           \/ \E n \in Nodes : Relabel(n)
           \/ annotatePodWithAvailabilityZone
  <2>1. UNCHANGED <<own, missed, todo, endpoint>>
    BY <1>8 DEF Start, Abandon, Create, Delete, RunContainers, Reconcile, Schedule, Relabel, PodChange,
                annotatePodWithAvailabilityZone, startup
  <2> QED BY <1>1, <2>1
<1> QED BY <1>2, <1>3, <1>4, <1>5, <1>6, <1>7, <1>8 DEF Next

\* The operator cuts itself off from an API server that stays in place, by the
\* policies it creates for its own pod (operator_controller.go), in two cases
\* only: the policy for the API server could not be written, or discovery
\* fell back to a port the API server does not listen on. Every request may
\* fail, and every start-up may be interrupted.
THEOREM AccessSafe == Spec => []AccessKept
<1>1. Init => TypeOK /\ AccessInv
  BY InitType, AccessInit
<1>2. TypeOK /\ AccessInv /\ [Next]_vars => (TypeOK /\ AccessInv)'
  BY NextType, AccessStep
<1> QED BY <1>1, <1>2, AccessReaches, PTL DEF Spec

----------------------------------------------------------------------------
(* The monitoring objects.                                                 *)

\* The process is down at first.
LEMMA MonitoringInit == Init => MonitoringInv
BY DEF Init, MonitoringInv, MonitoringFollows

\* Every step keeps the invariant.
LEMMA MonitoringStep ==
  ASSUME TypeOK, MonitoringInv, [Next]_vars
  PROVE  MonitoringInv'
<1>1. ASSUME UNCHANGED <<pc, gates, failed, own, todo>> PROVE MonitoringInv'
  BY <1>1 DEF MonitoringInv, MonitoringFollows, Wanted
<1>2. ASSUME NEW g \in Gates, Start(g) PROVE MonitoringInv'
  BY <1>2 DEF Start, MonitoringInv, MonitoringFollows
<1>3. CASE Build
  <2>1. gates \in Gates /\ endpoint \in Endpoints
    BY <1>3 DEF Build, TypeOK
  <2>2. PICK listed \in BOOLEAN : todo' = BuildAll(DiscoverKubernetesAPIServer(listed, endpoint))
    BY <1>3 DEF Build
  <2>3. DiscoverKubernetesAPIServer(listed, endpoint) \in Infos
    BY <2>1, DiscoveryType
  <2>4. \A n \in Wanted : \E i \in 1..Len(todo') : todo'[i][1] = n
    BY <2>1, <2>2, <2>3, BuildList
  <2> QED BY <1>3, <2>4 DEF Build, MonitoringInv, MonitoringFollows, Wanted
<1>4. CASE Abandon
  BY <1>4 DEF Abandon, MonitoringInv, MonitoringFollows
<1>5. CASE Write
  <2>1. /\ 1 \in 1..Len(todo) /\ todo[1][1] \in Names /\ todo[1][2] \in Objects(todo[1][1])
        /\ Len(todo') = Len(todo) - 1 /\ Len(todo) \in Nat
        /\ \A i \in 1..Len(todo') : todo'[i] = todo[i + 1]
    BY <1>5, HeadType DEF Write, TypeOK
  <2>2. pc = "writing" /\ pc' = "writing" /\ gates' = gates
    BY <1>5 DEF Write
  <2>3. CASE failed'
    BY <2>2, <2>3 DEF MonitoringInv, MonitoringFollows
  <2>4. CASE ~failed'
    <3>1. ~failed /\ own' = [own EXCEPT ![todo[1][1]] = todo[1][2]]
      <4>1. \/ own' = [own EXCEPT ![Head(todo)[1]] = Head(todo)[2]] /\ failed' = failed
            \/ failed' = TRUE
        BY <1>5 DEF Write
      <4>2. Head(todo) = todo[1]
        BY <1>5, HeadType DEF Write
      <4> QED BY <2>4, <4>1, <4>2
    <3> SUFFICES ASSUME NEW n \in Wanted
                 PROVE  own'[n] # NoObj \/ \E i \in 1..Len(todo') : todo'[i][1] = n
      BY <2>2 DEF MonitoringInv, MonitoringFollows, Wanted
    <3>2. n \in {"monitor", "rule"}
      BY DEF Wanted
    <3>3. CASE todo[1][1] = n
      <4>1. todo[1][2] = n
        BY <2>1, <3>2, <3>3 DEF Objects
      <4>2. own'[n] = n
        BY <2>1, <3>1, <3>3, <4>1 DEF TypeOK
      <4> QED BY <3>2, <4>2, ProcessAbsence
    <3>4. CASE todo[1][1] # n /\ own[n] # NoObj
      BY <3>1, <3>2, <3>4 DEF TypeOK, Names
    <3>5. CASE todo[1][1] # n /\ own[n] = NoObj
      <4>1. PICK i \in 1..Len(todo) : todo[i][1] = n
        BY <2>2, <3>1, <3>5 DEF MonitoringInv
      <4>2. i - 1 \in 1..Len(todo') /\ todo'[i - 1] = todo[i]
        BY <2>1, <3>5, <4>1
      <4> QED BY <4>1, <4>2
    <3> QED BY <3>3, <3>4, <3>5
  <2> QED BY <2>3, <2>4
<1>6. CASE Prune
  <2>1. pc' = "running" /\ gates' = gates /\ pc = "writing" /\ todo = <<>>
    BY <1>6 DEF Prune
  <2> SUFFICES ASSUME ~failed', gates.prometheus
               PROVE  (own'["monitor"] # NoObj <=> gates.monitors) /\ (own'["rule"] # NoObj <=> gates.rules)
    BY <2>1 DEF MonitoringInv, MonitoringFollows
  <2>2. ~failed /\ own' = [n \in Names |-> IF Pruned(n) THEN NoObj ELSE own[n]]
    BY <1>6 DEF Prune, PruneFails
  <2>3. \A n \in Wanted : own[n] # NoObj
    BY <2>1, <2>2 DEF MonitoringInv
  <2>4. gates.monitors \in BOOLEAN /\ gates.rules \in BOOLEAN
    BY <2>1, GatesAssumption DEF TypeOK
  <2>5. own'["monitor"] # NoObj <=> gates.monitors
    BY <2>2, <2>3, <2>4 DEF Pruned, Wanted, Names
  <2>6. own'["rule"] # NoObj <=> gates.rules
    BY <2>2, <2>3, <2>4 DEF Pruned, Wanted, Names
  <2> QED BY <2>5, <2>6
<1>7. CASE Crash
  BY <1>7 DEF Crash, MonitoringInv, MonitoringFollows
<1>8. CASE UNCHANGED vars
  BY <1>1, <1>8 DEF vars, startup
<1>9. CASE \/ \E e \in Endpoints : MoveAPIServer(e)
           \/ \E p \in Pods0 : \/ Create(p) \/ Delete(p) \/ RunContainers(p) \/ Reconcile(p)
                               \/ \E n \in Nodes : Schedule(p, n)
           \/ \E n \in Nodes : Relabel(n)
           \/ annotatePodWithAvailabilityZone
  <2>1. UNCHANGED <<pc, gates, failed, own, todo>>
    BY <1>9 DEF MoveAPIServer, Create, Delete, RunContainers, Reconcile, Schedule, Relabel, PodChange,
                annotatePodWithAvailabilityZone, startup
  <2> QED BY <1>1, <2>1
<1> QED BY <1>2, <1>3, <1>4, <1>5, <1>6, <1>7, <1>8, <1>9 DEF Next

\* A start-up without errors leaves the ServiceMonitor and the PrometheusRule
\* its gates ask for, and no other, whatever earlier starts left.
THEOREM MonitoringSafe == Spec => []MonitoringFollows
<1>1. Init => TypeOK /\ MonitoringInv
  BY InitType, MonitoringInit
<1>2. TypeOK /\ MonitoringInv /\ [Next]_vars => (TypeOK /\ MonitoringInv)'
  BY NextType, MonitoringStep
<1>3. MonitoringInv => MonitoringFollows
  BY DEF MonitoringInv
<1> QED BY <1>1, <1>2, <1>3, PTL DEF Spec

----------------------------------------------------------------------------
(* Zones.                                                                  *)

\* There are no pods at first.
LEMMA ZoneInit == Init => ZoneInv
BY DEF Init, ZoneInv, Existing

\* A change of one pod that leaves its zone fitting keeps the invariant.
LEMMA ZonePod ==
  ASSUME TypeOK, ZoneInv,
         NEW p \in Pods0, NEW new \in Pod,
         pods' = [pods EXCEPT ![p] = new], UNCHANGED <<labels, relabelled, budget>>,
         work' = work \/ work' = <<>>,
         p \notin Reused => /\ new.az # NoZone => ZoneFits(new.node, new.az)
                            /\ new.up => ZoneFits(new.node, new.zone)
                            /\ work' # <<>> /\ work[1] = p => ZoneFits(new.node, work[2])
  PROVE  ZoneInv'
<1>1. Existing' = Existing \cup {p} /\ pods'[p] = new /\ \A q \in Pods0 \ {p} : pods'[q] = pods[q]
  BY ProcessAbsence DEF Existing, TypeOK
<1>2. ASSUME NEW q \in Existing' \ Reused
      PROVE  /\ pods'[q].az # NoZone => ZoneFits(pods'[q].node, pods'[q].az)
             /\ pods'[q].up => ZoneFits(pods'[q].node, pods'[q].zone)
  <2>1. CASE q = p
    BY <1>1, <2>1
  <2>2. CASE q # p
    <3>1. q \in Existing \ Reused /\ pods'[q] = pods[q]
      BY <1>1, <2>2 DEF Existing
    <3> QED BY <3>1 DEF ZoneInv
  <2> QED BY <2>1, <2>2
<1>3. ASSUME work' # <<>>, work[1] \notin Reused
      PROVE  IF work[1] \in Existing' THEN ZoneFits(pods'[work[1]].node, work[2])
                                       ELSE budget.delete # MaxDeletions
  <2>1. work # <<>> /\ work[1] \in Pods0
    BY <1>3 DEF TypeOK
  <2>2. CASE work[1] = p
    BY <1>1, <1>3, <2>2
  <2>3. CASE work[1] # p
    <3>1. pods'[work[1]] = pods[work[1]] /\ (work[1] \in Existing' <=> work[1] \in Existing)
      BY <1>1, <2>1, <2>3
    <3> QED BY <1>3, <2>1, <3>1 DEF ZoneInv
  <2> QED BY <2>2, <2>3
<1>4. \A n, z : ZoneFits(n, z)' <=> ZoneFits(n, z)
  BY DEF ZoneFits
<1>5. work' # <<>> => work' = work
  OBVIOUS
<1> QED BY <1>2, <1>3, <1>4, <1>5 DEF ZoneInv

\* Nothing a pod or the controller does separates a zone from its node.
LEMMA ZoneStep ==
  ASSUME TypeOK, ZoneInv, [Next]_vars
  PROVE  ZoneInv'
<1>1. ASSUME UNCHANGED <<pods, labels, relabelled>>, UNCHANGED work \/ work' = <<>> PROVE ZoneInv'
  BY <1>1, BudgetShrinks DEF ZoneInv, ZoneFits, Existing, TypeOK
<1>2. ASSUME NEW p \in Pods0, Create(p) PROVE ZoneInv'
  <2> DEFINE new == [node |-> "", az |-> NoZone, up |-> FALSE, zone |-> NoZone]
  <2>1. new \in Pod /\ new.az = NoZone /\ new.up = FALSE
    BY DEF Pod
  <2>2. p \notin Reused => ~(work # <<>> /\ work[1] = p)
    BY <1>2 DEF Create, ZoneInv, Existing
  <2>3. pods' = [pods EXCEPT ![p] = new] /\ UNCHANGED <<labels, relabelled, budget, work>>
    BY <1>2 DEF Create, PodChange
  <2> HIDE DEF new
  <2> QED BY <2>1, <2>2, <2>3, ZonePod
<1>3. ASSUME NEW p \in Pods0, NEW n \in Nodes, Schedule(p, n) PROVE ZoneInv'
  <2> DEFINE new == [pods[p] EXCEPT !.node = n]
  <2>0. pods[p] \in Pod /\ p \in Existing /\ pods[p].node = ""
    BY <1>3 DEF Schedule, Existing, TypeOK
  <2>1. new \in Pod /\ new.az = pods[p].az /\ new.up = pods[p].up
    BY <2>0 DEF Pod
  <2>2. p \notin Reused => new.az = NoZone /\ ~new.up /\ ~(work # <<>> /\ work[1] = p)
    BY <2>0, <2>1 DEF ZoneInv, ZoneFits
  <2>3. pods' = [pods EXCEPT ![p] = new] /\ UNCHANGED <<labels, relabelled, budget, work>>
    BY <1>3 DEF Schedule, PodChange
  <2> HIDE DEF new
  <2> QED BY <2>1, <2>2, <2>3, ZonePod
<1>4. ASSUME NEW p \in Pods0, RunContainers(p) PROVE ZoneInv'
  <2> DEFINE new == [pods[p] EXCEPT !.zone = pods[p].az, !.up = TRUE]
  <2>0. pods[p] \in Pod /\ p \in Existing /\ pods[p].az # NoZone
    BY <1>4 DEF RunContainers, AnnotationChecked, Existing, TypeOK
  <2>1. new \in Pod /\ new.az = pods[p].az /\ new.zone = pods[p].az /\ new.node = pods[p].node
    BY <2>0 DEF Pod
  <2>2. p \notin Reused => /\ ZoneFits(new.node, new.az) /\ ZoneFits(new.node, new.zone)
                           /\ work # <<>> /\ work[1] = p => ZoneFits(new.node, work[2])
    BY <2>0, <2>1 DEF ZoneInv
  <2>3. pods' = [pods EXCEPT ![p] = new] /\ UNCHANGED <<labels, relabelled, budget, work>>
    BY <1>4 DEF RunContainers, PodChange
  <2> HIDE DEF new
  <2> QED BY <2>1, <2>2, <2>3, ZonePod
<1>5. ASSUME NEW p \in Pods0, Delete(p) PROVE ZoneInv'
  <2>1. budget'.delete # MaxDeletions
    BY <1>5, SpendType DEF Delete, TypeOK
  <2>2. Existing' = Existing \ {p} /\ \A q \in Pods0 \ {p} : pods'[q] = pods[q]
    BY <1>5 DEF Delete, Existing, TypeOK
  <2>3. UNCHANGED <<labels, relabelled, work>>
    BY <1>5 DEF Delete
  <2>4. \A q \in Existing' \ Reused : /\ pods'[q].az # NoZone => ZoneFits(pods'[q].node, pods'[q].az)
                                      /\ pods'[q].up => ZoneFits(pods'[q].node, pods'[q].zone)
    BY <2>2 DEF ZoneInv, Existing
  <2>5. work # <<>> /\ work[1] \in Existing' \ Reused => ZoneFits(pods'[work[1]].node, work[2])
    BY <2>2 DEF ZoneInv, Existing
  <2>6. \A n, z : ZoneFits(n, z)' <=> ZoneFits(n, z)
    BY <2>3 DEF ZoneFits
  <2> QED BY <2>1, <2>3, <2>4, <2>5, <2>6 DEF ZoneInv
<1>6. ASSUME NEW p \in Pods0, Reconcile(p) PROVE ZoneInv'
  <2>1. UNCHANGED <<pods, labels, relabelled, budget>>
    BY <1>6 DEF Reconcile
  <2>2. CASE work' = <<>>
    BY <1>1, <2>1, <2>2
  <2>3. CASE work' # <<>>
    <3>1. /\ work' = <<p, getAvailabilityZone(pods[p].node)>>
          /\ p \in Existing /\ pods[p].node # "" /\ getAvailabilityZone(pods[p].node) # NoZone
      BY <1>6, <2>3 DEF Reconcile
    <3>2. getAvailabilityZone(pods[p].node) = labels[pods[p].node]
      BY <3>1 DEF getAvailabilityZone
    <3>3. work'[1] = p /\ ZoneFits(pods[p].node, work'[2])
      BY <3>1, <3>2 DEF ZoneFits
    <3> QED BY <2>1, <3>1, <3>3 DEF ZoneInv, ZoneFits, Existing
  <2> QED BY <2>2, <2>3
<1>7. ASSUME NEW n \in Nodes, Relabel(n) PROVE ZoneInv'
  <2>1. ASSUME NEW m, NEW z, m \in Nodes \cup {""}, ZoneFits(m, z) PROVE ZoneFits(m, z)'
    BY <1>7, <2>1 DEF Relabel, ZoneFits, TypeOK
  <2>2. UNCHANGED <<pods, work>> /\ budget'.delete = budget.delete
    BY <1>7, SpendType DEF Relabel
  <2>3. \A q \in Existing : pods[q].node \in Nodes \cup {""}
    BY DEF Existing, TypeOK, Pod
  <2> QED BY <2>1, <2>2, <2>3 DEF ZoneInv, Existing
<1>8. CASE annotatePodWithAvailabilityZone
  <2>1. work # <<>> /\ work' = <<>> /\ UNCHANGED <<labels, relabelled>>
    BY <1>8 DEF annotatePodWithAvailabilityZone
  <2>2. CASE UNCHANGED pods
    BY <1>1, <2>1, <2>2
  <2>3. CASE /\ work[1] \in Existing /\ pods' = [pods EXCEPT ![work[1]].az = work[2]]
             /\ UNCHANGED budget
    <3> DEFINE p == work[1]
               new == [pods[p] EXCEPT !.az = work[2]]
    <3>0. p \in Pods0 /\ work[2] \in Zones /\ pods[p] \in Pod
      BY <2>1, <2>3 DEF TypeOK, Existing
    <3>1. new \in Pod /\ new.az = work[2] /\ new.node = pods[p].node /\ new.zone = pods[p].zone /\ new.up = pods[p].up
      BY <3>0 DEF Pod
    <3>2. p \notin Reused => /\ ZoneFits(new.node, new.az)
                             /\ new.up => ZoneFits(new.node, new.zone)
      BY <2>1, <2>3, <3>1 DEF ZoneInv
    <3>3. pods' = [pods EXCEPT ![p] = new]
      BY <2>3
    <3> HIDE DEF new, p
    <3> QED BY <2>1, <2>3, <3>0, <3>1, <3>2, <3>3, ZonePod
  <2> QED BY <1>8, <2>2, <2>3 DEF annotatePodWithAvailabilityZone
<1>9. CASE UNCHANGED vars
  BY <1>1, <1>9 DEF vars, zoning
<1>10. CASE \/ \E g \in Gates : Start(g)
            \/ Build \/ Abandon \/ Write \/ Prune \/ Crash
            \/ \E e \in Endpoints : MoveAPIServer(e)
  <2>1. UNCHANGED <<pods, labels, relabelled>> /\ (UNCHANGED work \/ work' = <<>>)
    BY <1>10 DEF Start, Build, Abandon, Write, Prune, Crash, MoveAPIServer, zoning
  <2> QED BY <1>1, <2>1
<1> QED BY <1>2, <1>3, <1>4, <1>5, <1>6, <1>7, <1>8, <1>9, <1>10 DEF Next

\* A pod whose name is not used again runs with the zone of its node, unless
\* the node was relabelled: the annotation the init container waits for is the
\* one of the node the pod is on, although the patch names only the pod.
THEOREM ZoneSafe == Spec => []ZoneOfNode
<1>1. Init => TypeOK /\ ZoneInv
  BY InitType, ZoneInit
<1>2. TypeOK /\ ZoneInv /\ [Next]_vars => (TypeOK /\ ZoneInv)'
  BY NextType, ZoneStep
<1>3. ZoneInv => ZoneOfNode
  BY DEF ZoneInv, ZoneOfNode, ZoneFits
<1> QED BY <1>1, <1>2, <1>3, PTL DEF Spec
=============================================================================
