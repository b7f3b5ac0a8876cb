-------------------------- MODULE NetworkPolicies --------------------------
(***************************************************************************)
(* internal/manifests/networkpolicies: which connections the NetworkPolicy *)
(* objects of a TempoStack allow.                                          *)
(*                                                                         *)
(* An endpoint is a component (its pods), "client" and "monitoring" (pods  *)
(* of other namespaces, the second in one labelled for cluster monitoring),*)
(* "dns", "apiserver" or "external" (an address outside the cluster).  A   *)
(* peer is a component or the name of a selector; see Selects.  A rule is  *)
(* <<peer, port>>, with port 0 for a rule without ports, and a policy      *)
(* [pods, types, ingress, egress].  Protocols are left out: no port is     *)
(* used with two of them.                                                  *)
(*                                                                         *)
(* p is manifestutils.Params; the fields read here are spec (see           *)
(* TempoStackWebhook), storage (see StorageParams), openshift, and         *)
(* apiserver, the ports and addresses DiscoverKubernetesAPIServer found.   *)
(***************************************************************************)
EXTENDS Naturals, Ports

PortServer == {PortGRPC, PortHTTP}

AnyPort == 0

Pods(p) == {"distributor", "ingester", "querier", "query-frontend", "compactor"}
             \cup (IF p.spec.gateway.enabled THEN {"gateway"} ELSE {})
             \cup (IF p.spec.generator.enabled THEN {"metrics-generator"} ELSE {})

(***************************************************************************)
(* DiscoverKubernetesAPIServer: the slices of the "kubernetes" service, or *)
(* the fallback when there is no usable one.  slice = [ports, ips].        *)
(***************************************************************************)
fallbackKubeAPIServerInfo == [ports |-> {6443}, ips |-> {}]

DiscoverKubernetesAPIServer(listed, slice) ==
  IF ~listed \/ slice.ports = {} \/ slice.ips = {} THEN fallbackKubeAPIServerInfo ELSE slice

(***************************************************************************)
(* componentRelations: the triples <<from, to, port>>.                     *)
(***************************************************************************)
Rel(from, to, ports) == from \X to \X ports

extractStoragePorts(st) ==
  CASE st.backend = "s3"              -> {IF st.insecure THEN 80 ELSE 443}
    [] st.backend \in {"azure", "gcs"} -> {443}
    [] OTHER                          -> {}

\* Mutant: the gateway reaches OTLP over gRPC only.
grpcOnlyGateway(p) ==
  Rel({"cluster"}, {"gateway"}, PortsGateway) \cup Rel({"gateway"}, {"distributor"}, {PortOtlpGrpc})
    \cup Rel({"gateway"}, {"query-frontend"}, PortServer \cup {PortJaegerUI, PortJaegerMetrics})
    \cup Rel({"gateway"}, {"kube-apiserver"}, p.apiserver.ports) \cup Rel({"gateway"}, {"oauth-server"}, {443})

gatewayRelations(p) ==
  Rel({"cluster"}, {"gateway"}, PortsGateway)
    \cup Rel({"gateway"}, {"distributor"}, PortOtlp)
    \cup Rel({"gateway"}, {"query-frontend"},
             PortServer \cup (IF p.spec.jaeger.enabled THEN {PortJaegerUI, PortJaegerMetrics} ELSE {}))
    \cup Rel({"gateway"}, {"kube-apiserver"}, p.apiserver.ports)
    \cup Rel({"gateway"}, {"oauth-server"}, {443})

directRelations ==
  Rel({"cluster"}, {"distributor"}, PortOtlp \cup PortsJaegerReceivers \cup {PortHTTP})
    \cup Rel({"cluster"}, {"query-frontend"}, PortServer)

jaegerRelations(p) ==
  Rel({"cluster"}, {"query-frontend"},
      PortsJaegerQuery \cup (IF p.spec.jaeger.auth = "on" THEN {PortOAuthProxy} ELSE {}))

\* The map of the metrics-generator is replaced, its tracing targets with it.
generatorRelations(p) ==
  Rel({"distributor", "querier"}, {"metrics-generator"}, PortServer)
    \cup Rel({"metrics-generator"}, {"s3"}, extractStoragePorts(p.storage))
    \cup Rel({"metrics-generator"}, {"prometheus"}, {9090})

componentRelations(p) ==
  Rel({"ingester", "querier", "query-frontend", "compactor"}, {"s3"}, extractStoragePorts(p.storage))
    \cup Rel({"distributor", "querier"}, {"ingester"}, PortServer)
    \cup Rel({"querier"}, {"query-frontend"}, PortServer)
    \cup Rel({"query-frontend"}, {"querier"}, PortServer)
    \cup (IF p.spec.obs.otlp # "unset" THEN Rel(Pods(p) \ {"metrics-generator"}, {"otel"}, PortOtlp) ELSE {})
    \cup (IF p.spec.gateway.enabled THEN gatewayRelations(p) ELSE directRelations)
    \cup (IF p.spec.jaeger.enabled THEN jaegerRelations(p) ELSE {})
    \cup (IF p.spec.generator.enabled THEN generatorRelations(p) ELSE {})

(***************************************************************************)
(* policyPeersFor                                                          *)
(***************************************************************************)
policyPeersFor(name, p) ==
  CASE name = "otel"           -> {"anyIP"}
    [] name \in {"s3", "oauth-server", "prometheus"} -> {"anyIP", "namespaces"}
    [] name = "cluster"        -> {"namespaces"}
    [] name = "kube-apiserver" -> IF p.apiserver.ips = {} THEN {"anyIP"} ELSE p.apiserver.ips
    [] OTHER                   -> {name}

Policy(pods, types, ingress, egress) ==
  [pods |-> pods, types |-> types, ingress |-> ingress, egress |-> egress]

\* Storage targets are allowed on every port.  reverseRelations is the
\* second component of a relation read as the first.
generatePolicyFor(p, c) ==
  LET rels    == componentRelations(p)
      PeersOf(r, i) == policyPeersFor(r[i], p)
      egress  == UNION {PeersOf(r, 2) \X {IF r[2] = "s3" THEN AnyPort ELSE r[3]} : r \in {q \in rels : q[1] = c}}
      ingress == UNION {PeersOf(r, 1) \X {r[3]} : r \in {q \in rels : q[2] = c}}
  IN  Policy({c}, (IF egress = {} THEN {} ELSE {"Egress"}) \cup (IF ingress = {} THEN {} ELSE {"Ingress"}),
             ingress, egress)

(***************************************************************************)
(* policyTempoGossip, policyIngressToOperandMetrics, policyEgressAllowDNS. *)
(***************************************************************************)
policyTempoGossip(p) ==
  LET rules == {"stack"} \X {PortGossip, PortHTTP, PortInternal}
  IN  Policy(Pods(p), {"Ingress", "Egress"}, rules, rules)

\* Mutant: the namespace of the scraper is not selected.
metricsFromAnywhere(p) == Policy(Pods(p), {"Ingress"}, {<<"namespaces", PortHTTP>>}, {})

policyIngressToOperandMetrics(p) ==
  Policy(Pods(p), {"Ingress"}, {<<"monitoring", PortHTTP>>}, {})

PortDNS(p) == IF p.openshift THEN 5353 ELSE 53

policyEgressAllowDNS(p) ==
  Policy(Pods(p), {"Egress"}, {}, {<<"dns", PortDNS(p)>>})

GenerateOperandPolicies(p) ==
  IF p.spec.netpol = "off" THEN {}
  ELSE {policyTempoGossip(p), policyIngressToOperandMetrics(p), policyEgressAllowDNS(p)}
         \cup {generatePolicyFor(p, c) : c \in Pods(p)}

(***************************************************************************)
(* What Kubernetes makes of a set of policies: a pod that some policy      *)
(* selects for a direction may use only what one of them allows.           *)
(***************************************************************************)
Selects(peer, e, p) ==
  CASE peer = "anyIP"      -> e \in {"external", "apiserver"}
    [] peer = "namespaces" -> e \in Pods(p) \cup {"client", "monitoring", "dns"}
    [] peer = "stack"      -> e \in Pods(p)
    [] OTHER               -> e = peer

Permits(rules, e, port, p) == \E r \in rules : Selects(r[1], e, p) /\ r[2] \in {AnyPort, port}

MayConnect(policies, p, from, to, port) ==
  LET out == {q \in policies : from \in q.pods /\ "Egress" \in q.types}
      in  == {q \in policies : to \in q.pods /\ "Ingress" \in q.types}
  IN  /\ out = {} \/ \E q \in out : Permits(q.egress, to, port, p)
      /\ in = {} \/ \E q \in in : Permits(q.ingress, from, port, p)

(***************************************************************************)
(* GenerateOperatorPolicies: the policies of the operator's own pod, in    *)
(* the order they are created in.  info is what discovery found; a rule    *)
(* without peers, "any", is open to every address.                         *)
(* The policy for the webhooks is there unless ENABLE_WEBHOOKS is "false",  *)
(* which it is not.                                                        *)
(***************************************************************************)
policyAPIServer(info) ==
  Policy({"operator"}, {"Egress"}, {}, (IF info.ips = {} THEN {"any"} ELSE info.ips) \X info.ports)
policyDenyAll          == Policy({"operator"}, {"Ingress", "Egress"}, {}, {})
policyIngressToMetrics == Policy({"operator"}, {"Ingress"}, {<<"namespaces", 8443>>}, {})
policyWebhook          == Policy({"operator"}, {"Ingress"}, {<<"any", 9443>>}, {})

\* Mutant: everything is denied first.
denyFirst(info) == <<<<"deny-all", policyDenyAll>>, <<"apiserver", policyAPIServer(info)>>,
                     <<"metrics", policyIngressToMetrics>>, <<"webhook", policyWebhook>>>>

GenerateOperatorPolicies(info) ==
  <<<<"apiserver", policyAPIServer(info)>>, <<"deny-all", policyDenyAll>>,
    <<"metrics", policyIngressToMetrics>>, <<"webhook", policyWebhook>>>>
=============================================================================
