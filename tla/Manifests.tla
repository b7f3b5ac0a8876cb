----------------------------- MODULE Manifests -----------------------------
(***************************************************************************)
(* internal/manifests: the objects BuildAll makes of a TempoStack.         *)
(*                                                                         *)
(* Objects are those of ManifestUtils.  p is manifestutils.Params: spec,    *)
(* gates, storage, apiserver, openshift (the distribution) and tls, the    *)
(* minimal version of the TLS profile.                                     *)
(*                                                                         *)
(* Left out: images, labels, node placement, resources, probes' timings.   *)
(***************************************************************************)
EXTENDS TempoStackWebhook, NetworkPolicies, ManifestUtils

SpecSA(p) == IF p.spec.sa = "default" THEN "default" ELSE "custom"

ConfigureStorage(p) ==
  CASE p.spec.storage.type = "azure" -> ConfigureAzureStorage(p)
    [] p.spec.storage.type = "gcs"   -> ConfigureGCS(p)
    [] p.spec.storage.type = "s3"    -> ConfigureS3Storage(p)

\* PatchTracingEnvConfiguration and patchTracing fail unless this holds.
TracingBuilds(p) == p.spec.obs.sampling = "unset" \/ p.spec.obs.otlp = "ok"

TempoPod(p, c, config) ==
  {ConfigRef(config), RunsAs(SpecSA(p))} \cup ConfigureServiceCA(p) \cup ConfigureServicePKI(p, c)

(***************************************************************************)
(* config: the files of the ConfigMap, and the files Tempo opens because   *)
(* its configuration names them.                                           *)
(***************************************************************************)
BuildConfigMap(p) ==
  [Object("ConfigMap", "config") EXCEPT !.items =
     {"tempo.yaml", "tempo-query-frontend.yaml", "overrides.yaml"}
       \cup If(p.spec.jaeger.enabled, {"tempo-query.yaml"})]

buildTempoServerTLSConfig(p, c) == ConfigureServiceCA(p) \cup ConfigureServicePKI(p, c)

buildS3StorageTLSConfig(p) ==
  If(p.storage.backend = "s3" /\ p.spec.storage.tls,
     If(p.spec.storage.ca # "unset", StorageCA(p)) \cup If(p.spec.storage.cert, StorageCert))

ServingReceiver(p) == p.gates.servingCerts /\ ~p.spec.receiverTLS.ca /\ ~p.spec.receiverTLS.cert
receiverCert(p) == {<<"Secret", CASE ServingReceiver(p)          -> "serving-cert"
                                  [] p.spec.receiverTLS.cert     -> "receiver-cert"
                                  [] OTHER                       -> "unset", "tls.crt">>}
receiverCA(p) == If(p.spec.receiverTLS.ca, {<<"ConfigMap", "receiver-ca", "service-ca.crt">>})

buildReceiverTLSConfig(p) == If(p.spec.receiverTLS.enabled, receiverCert(p) \cup receiverCA(p))

\* A distributor opens no storage; the query-frontend drops the HTTP
\* settings without a gateway, which only shrinks the set of files.
FilesOpened(p, c) ==
  CASE c = "gateway"     -> If(p.gates.http, buildTempoServerTLSConfig(p, c))
    [] c = "distributor" -> buildTempoServerTLSConfig(p, c) \cup buildReceiverTLSConfig(p)
    [] OTHER             -> buildTempoServerTLSConfig(p, c) \cup buildS3StorageTLSConfig(p)

(***************************************************************************)
(* The builders.                                                           *)
(***************************************************************************)
JaegerReceiverPorts == {"thrift-http", "thrift-compact", "thrift-binary", "jaeger-grpc", "http-zipkin"}
distributorPorts(p) ==
  {"otlp-http", "otlp-grpc", "http"} \cup If(~p.spec.gateway.enabled, JaegerReceiverPorts)

\* Mutant: only the certificate is mounted.
certificateOnly(p) == receiverCert(p)

configureReceiversTLS(p) ==
  receiverCert(p) \cup (IF ServingReceiver(p) THEN {<<"ConfigMap", "serving-cabundle", "service-ca.crt">>}
                                              ELSE receiverCA(p))

BuildDistributor(p) ==
  LET tls == p.spec.receiverTLS.enabled
  IN  {Workload("distributor", distributorPorts(p) \cup {"http-memberlist"},
                TempoPod(p, "distributor", "tempo.yaml") \cup If(tls, configureReceiversTLS(p))),
       ServingService("distributor", "distributor", distributorPorts(p),
                      IF tls /\ ServingReceiver(p) THEN "serving-cert" ELSE "unset"),
       NewPodDisruptionBudget("distributor")}
        \cup If(tls /\ ServingReceiver(p), {NewConfigMapCABundle("serving-cabundle")})

StoragePod(p, c) == TempoPod(p, c, "tempo.yaml") \cup ConfigureStorage(p)

BuildIngester(p) ==
  {Workload("ingester", {"http-memberlist", "http", "grpc"}, StoragePod(p, "ingester")),
   Service("ingester", "ingester", {"http", "grpc"}),
   NewPodDisruptionBudget("ingester")}

\* The Service names a target port "grpc" that the container does not declare.
BuildQuerier(p) ==
  {Workload("querier", {"http", "http-memberlist"}, StoragePod(p, "querier")),
   Service("querier", "querier", {"http-memberlist", "http", "grpc"}),
   NewPodDisruptionBudget("querier")}

BuildCompactor(p) ==
  {Workload("compactor", {"http", "http-memberlist"}, StoragePod(p, "compactor")),
   Service("compactor", "compactor", {"http-memberlist", "http"})}

BuildMetricsGenerator(p) ==
  {Workload("metrics-generator", {"http", "grpc", "http-memberlist"}, StoragePod(p, "metrics-generator")),
   Service("metrics-generator", "metrics-generator", {"http-memberlist", "http", "grpc"}),
   NewPodDisruptionBudget("metrics-generator")}

BuildGossip == Service("gossip-ring", "distributor", {"http-memberlist"})

(***************************************************************************)
(* The query-frontend, Jaeger Query and the OAuth proxy in front of it.    *)
(***************************************************************************)
OAuth(p) == /\ ~p.spec.gateway.enabled
            /\ p.spec.jaeger.ingress = "route"
            /\ p.spec.jaeger.auth = "on"
JaegerPorts(p) == If(p.spec.jaeger.enabled, {"jaeger-grpc", "jaeger-ui", "jaeger-metrics"})
FrontendSA(p) == IF OAuth(p) THEN "query-frontend" ELSE SpecSA(p)

frontendDeployment(p) ==
  Workload("query-frontend",
           {"http", "grpc"} \cup JaegerPorts(p) \cup If(p.spec.jaeger.enabled, {"proxy-grpc"})
             \cup If(OAuth(p), {"oauth-proxy"}),
           (TempoPod(p, "query-frontend", "tempo-query-frontend.yaml") \ {RunsAs(SpecSA(p))})
             \cup {RunsAs(FrontendSA(p))} \cup ConfigureStorage(p)
             \cup If(p.spec.jaeger.enabled, {ConfigRef("tempo-query.yaml")})
             \cup If(OAuth(p), {<<"Secret", "ui-oauth-proxy-tls", "tls.crt">>}))

frontendServices(p) ==
  {ServingService("query-frontend", "query-frontend",
                  {"http", "grpc"} \cup JaegerPorts(p) \cup If(OAuth(p), {"oauth-proxy"}),
                  IF OAuth(p) THEN "ui-oauth-proxy-tls" ELSE "unset"),
   Service("query-frontend-discovery", "query-frontend", {"http", "grpc", "grpclb"} \cup JaegerPorts(p))}

frontendIngress(p) ==
  CASE p.spec.gateway.enabled        -> {}
    [] p.spec.jaeger.ingress = "ingress" /\ ~p.spec.gateway.enabled
         -> {Exposed("Ingress", "query-frontend", "jaeger-ui")}
    [] p.spec.jaeger.ingress = "route" /\ ~p.spec.gateway.enabled
         -> {Exposed("Route", "query-frontend", IF OAuth(p) THEN "oauth-proxy" ELSE "jaeger-ui")}
              \cup If(OAuth(p), {Object("ServiceAccount", "query-frontend")})
    [] OTHER -> {}

openShiftMonitoringRBAC(p) ==
  {Object("Role", "metrics-reader"),
   [Object("RoleBinding", "metrics-reader") EXCEPT
      !.refs = {<<"Role", "metrics-reader", "unset">>, RunsAs(FrontendSA(p))}]}

BuildQueryFrontend(p) ==
  frontendServices(p) \cup frontendIngress(p)
    \cup {frontendDeployment(p), NewPodDisruptionBudget("query-frontend")}
    \cup If(p.spec.jaeger.enabled /\ p.spec.jaeger.monitor = "thanos", openShiftMonitoringRBAC(p))

(***************************************************************************)
(* The gateway.                                                            *)
(***************************************************************************)
OpenShiftTenants(p) == p.spec.tenants.mode = "openshift"
ServingGateway(p)   == OpenShiftTenants(p) /\ p.gates.servingCerts

patchOCPServingCerts == {<<"Secret", "gateway-tls", "tls.crt">>,
                         <<"ConfigMap", "gateway-cabundle", "service-ca.crt">>}

gatewayDeployment(p) ==
  Workload("gateway", {"grpc-public", "internal", "public"} \cup If(OpenShiftTenants(p), {"opa-http", "opa-metrics"}),
           {<<"ConfigMap", "gateway", "rbac.yaml">>, <<"Secret", "gateway", "tenants.yaml">>,
            RunsAs(IF OpenShiftTenants(p) THEN "gateway" ELSE SpecSA(p))}
             \cup ConfigureServiceCA(p) \cup ConfigureServicePKI(p, "gateway")
             \cup If(ServingGateway(p), patchOCPServingCerts))

AccessReviewRBAC ==
  {Object("ClusterRole", "gateway"), Object("ServiceAccount", "gateway"),
   [Object("ClusterRoleBinding", "gateway") EXCEPT
      !.refs = {<<"ClusterRole", "gateway", "unset">>, RunsAs("gateway")}]}

BuildGateway(p) ==
  {[Object("ConfigMap", "gateway") EXCEPT !.items = {"rbac.yaml"}],
   [Object("Secret", "gateway") EXCEPT !.items = {"tenants.yaml"}],
   ServingService("gateway", "gateway", {"grpc-public", "internal", "public"},
                  IF p.gates.servingCerts THEN "gateway-tls" ELSE "unset"),
   gatewayDeployment(p), NewPodDisruptionBudget("gateway")}
    \cup If(OpenShiftTenants(p), AccessReviewRBAC)
    \cup If(ServingGateway(p), {NewConfigMapCABundle("gateway-cabundle")})
    \cup If(p.spec.gateway.ingress = "ingress", {Exposed("Ingress", "gateway", "public")})
    \cup If(p.spec.gateway.ingress = "route", {Exposed("Route", "gateway", "public")})

(***************************************************************************)
(* ServiceMonitors, Prometheus rules, Grafana datasource, ServiceAccount.  *)
(***************************************************************************)
Monitored(p) == {"compactor", "distributor", "ingester", "querier", "query-frontend"}
                  \cup If(p.spec.gateway.enabled, {"gateway"})
ScrapesTLS(p, c) == IF c = "query-frontend" THEN p.gates.http /\ p.spec.gateway.enabled ELSE p.gates.http
ScrapedPort(c)   == IF c = "gateway" THEN "internal" ELSE "http"

newServiceMonitor(p, c) ==
  [Exposed("ServiceMonitor", c, ScrapedPort(c)) EXCEPT
     !.refs = If(ScrapesTLS(p, c), {<<"ConfigMap", "ca-bundle", "service-ca.crt">>, <<"Secret", "mtls", c>>})]
BuildServiceMonitors(p) == {newServiceMonitor(p, c) : c \in Monitored(p)}

BuildPrometheusRule == {Object("PrometheusRule", "prometheus-rule")}

BuildGrafanaDatasource == {Exposed("GrafanaDatasource", "query-frontend", "http")}

BuildDefaultServiceAccount == {Object("ServiceAccount", "default")}

(***************************************************************************)
(* BuildAll.  A build ends in an error, or dereferences a nil pointer.     *)
(***************************************************************************)
BuildFails(p) ==
  \/ ~TracingBuilds(p)
  \/ /\ ~p.spec.gateway.enabled /\ p.spec.jaeger.ingress = "route" /\ p.spec.jaeger.termination = "unset"
  \/ /\ p.spec.gateway.enabled /\ p.spec.gateway.ingress = "route" /\ p.spec.gateway.termination = "unset"

\* buildS3StorageTLSConfig reads the CA file name of the S3 parameters
\* whatever the storage is, tempoQueryResources copies the resources of
\* Jaeger Query when only those of tempo-query are set, and BuildGateway
\* copies the tenants.
BuildPanics(p) ==
  \/ p.spec.storage.ca # "unset" /\ p.storage.backend # "s3"
  \/ p.spec.jaeger.enabled /\ p.spec.uiResources = {"tempo-query"}
  \/ p.spec.gateway.enabled /\ p.spec.tenants.mode = "none"

BuildAll(p) ==
  {BuildConfigMap(p), BuildGossip}
    \cup If(p.spec.sa = "default", BuildDefaultServiceAccount)
    \cup BuildDistributor(p) \cup BuildIngester(p) \cup BuildQueryFrontend(p)
    \cup BuildQuerier(p) \cup BuildCompactor(p)
    \cup If(p.spec.generator.enabled, BuildMetricsGenerator(p))
    \cup If(p.spec.gateway.enabled, BuildGateway(p))
    \cup If(p.spec.obs.monitors, BuildServiceMonitors(p))
    \cup If(p.spec.obs.rules, BuildPrometheusRule)
    \cup If(p.spec.obs.datasource, BuildGrafanaDatasource)

(***************************************************************************)
(* Who listens where, and with TLS or not: the server sections of the      *)
(* rendered configurations and the arguments of the containers.            *)
(***************************************************************************)
TempoPods(p) == Pods(p) \ {"gateway"}
\* buildQueryFrontEndConfig
HTTPS(p, c)  == p.gates.http /\ (c = "query-frontend" => p.spec.gateway.enabled)

tempoServers(p, c) ==
  {<<c, PortHTTP, HTTPS(p, c)>>, <<c, PortGRPC, p.gates.grpc>>, <<c, PortGossip, FALSE>>}
    \cup If(HTTPS(p, c), {<<c, PortInternal, TRUE>>})

receiverServers(p) ==
  LET tls == (p.gates.grpc /\ p.spec.gateway.enabled) \/ p.spec.receiverTLS.enabled
  IN  {"distributor"} \X PortOtlp \X {tls}
        \cup If(~p.spec.gateway.enabled, {"distributor"} \X PortsJaegerReceivers \X {p.spec.receiverTLS.enabled})

jaegerServers(p) ==
  {<<"query-frontend", PortJaegerGRPC, p.gates.grpc /\ p.spec.gateway.enabled>>,
   <<"query-frontend", PortJaegerUI, p.gates.http /\ p.spec.gateway.enabled>>,
   <<"query-frontend", PortJaegerMetrics, FALSE>>, <<"query-frontend", PortTempoQuery, FALSE>>}
    \cup If(OAuth(p), {<<"query-frontend", PortOAuthProxy, TRUE>>})

gatewayServers(p) ==
  {<<"gateway", GatewayPort, ServingGateway(p)>>, <<"gateway", GatewayPortGRPC, ServingGateway(p)>>,
   <<"gateway", GatewayPortInternal, p.gates.http>>}

Servers(p) ==
  (UNION {tempoServers(p, c) : c \in TempoPods(p)}) \cup receiverServers(p)
    \cup If(p.spec.jaeger.enabled, jaegerServers(p))
    \cup If(p.spec.gateway.enabled, gatewayServers(p))

(***************************************************************************)
(* Who connects to what, <<from, to, port, tls>>: the client sections of   *)
(* the configurations, the upstreams of the gateway, the ServiceMonitors,  *)
(* and pods of other namespaces using what is exposed to them.             *)
(***************************************************************************)
tempoCalls(p) ==
  ({"distributor", "querier"} \X ({"ingester"} \cup If(p.spec.generator.enabled, {"metrics-generator"}))
     \X {PortGRPC} \X {p.gates.grpc})
    \cup {<<"querier", "query-frontend", PortGRPC, p.gates.grpc>>}
    \cup (TempoPods(p) \X TempoPods(p) \X {PortGossip} \X {FALSE})

\* The TLS arguments of the gateway depend on the HTTP gate alone.
gatewayCalls(p) ==
  ({"gateway"} \X {"distributor"} \X PortOtlp \X {p.gates.http})
    \cup {<<"gateway", "query-frontend", PortHTTP, p.gates.http>>}
    \cup If(p.spec.jaeger.enabled, {<<"gateway", "query-frontend", PortJaegerUI, p.gates.http>>})

monitoringCalls(p) ==
  {<<"monitoring", c, IF c = "gateway" THEN GatewayPortInternal ELSE PortHTTP, ScrapesTLS(p, c)>> :
     c \in Monitored(p)}

clientCalls(p) ==
  IF p.spec.gateway.enabled
  THEN {<<"client", "gateway", port, ServingGateway(p)>> : port \in {GatewayPort, GatewayPortGRPC}}
  ELSE {<<"client", "query-frontend", PortHTTP, FALSE>>}
         \cup ({"client"} \X {"distributor"} \X (PortOtlp \cup PortsJaegerReceivers) \X {p.spec.receiverTLS.enabled})
         \cup If(p.spec.jaeger.enabled, {<<"client", "query-frontend", PortJaegerUI, FALSE>>})
         \cup If(OAuth(p) /\ p.spec.jaeger.enabled, {<<"client", "query-frontend", PortOAuthProxy, TRUE>>})

\* Connections that leave the stack: object storage, DNS and the API server.
StorageUsers(p) == TempoPods(p) \ {"distributor"}
outsideCalls(p) ==
  (StorageUsers(p) \X {"external"} \X extractStoragePorts(p.storage))
    \cup (Pods(p) \X {"dns"} \X {PortDNS(p)})
    \cup If(p.spec.gateway.enabled /\ OpenShiftTenants(p), {"gateway"} \X {"apiserver"} \X p.apiserver.ports)

Calls(p) == tempoCalls(p) \cup clientCalls(p)
              \cup If(p.spec.gateway.enabled, gatewayCalls(p))
              \cup If(p.spec.obs.monitors, monitoringCalls(p))

(***************************************************************************)
(* Connections policies do not see: the readiness probes of the kubelet,   *)
(* and those between the containers of a pod.                              *)
(***************************************************************************)
TempoReadinessProbe(p, c, tls) == <<c, IF tls THEN PortInternal ELSE PortHTTP, tls>>

LocalCalls(p) ==
  {TempoReadinessProbe(p, c, p.gates.http) : c \in TempoPods(p) \ {"query-frontend"}}
    \cup {TempoReadinessProbe(p, "query-frontend", p.gates.http /\ p.spec.gateway.enabled)}
    \cup If(p.spec.gateway.enabled, {<<"gateway", GatewayPortInternal, p.gates.http>>})
    \cup If(p.spec.jaeger.enabled, {<<"query-frontend", PortHTTP, p.gates.http /\ p.spec.gateway.enabled>>,
                                    <<"query-frontend", PortTempoQuery, FALSE>>})
    \cup If(OAuth(p) /\ p.spec.jaeger.enabled, {<<"query-frontend", PortJaegerUI, FALSE>>})
=============================================================================
