------------------------ MODULE MonolithicManifests ------------------------
(***************************************************************************)
(* internal/manifests/monolithic: the objects BuildAll makes of a          *)
(* TempoMonolithic, who listens where in its pod and who connects to whom. *)
(* p is monolithic.Options: spec (with its defaults), gates, storage and   *)
(* tls.  All containers share one pod; "tempo" stands for it.              *)
(***************************************************************************)
EXTENDS TempoMonolithicWebhook, ManifestUtils, Ports

Gateway(p) == IsGatewayEnabled(p.spec)
Jaeger(p)  == p.spec.jaeger.enabled
OAuth(p)   == Jaeger(p) /\ p.spec.jaeger.route /\ p.spec.jaeger.auth = "on" /\ ~Gateway(p)

(***************************************************************************)
(* util.go and BuildAll: receivers with TLS and neither certificate nor CA *)
(* get the certificate service-ca issues, if there is service-ca.          *)
(***************************************************************************)
tlsSecretAndBundleEmpty(r) == ~r.cert /\ ~r.ca
ServesCert(p, r) == p.gates.servingCerts /\ r.tls /\ tlsSecretAndBundleEmpty(r)
useServiceCertsOnReceiver(p) == ServesCert(p, p.spec.grpc) \/ ServesCert(p, p.spec.http)
ingestionServingCertName(p) == IF Gateway(p) THEN "gateway-serving-cert" ELSE "serving-cert"

CertOf(p, r) == CASE ServesCert(p, r) -> {<<"Secret", ingestionServingCertName(p), "tls.crt">>}
                  [] ~ServesCert(p, r) /\ r.cert -> {<<"Secret", "receiver-cert", "tls.crt">>}
                  [] OTHER -> {}
CAOf(r) == If(r.ca, {<<"ConfigMap", "receiver-ca", "service-ca.crt">>})

(***************************************************************************)
(* configmap.go: with a gateway and HTTP encryption both receivers take    *)
(* the internal certificate, enabled or not.                               *)
(***************************************************************************)
BuildConfigMap(p) ==
  [Object("ConfigMap", "config") EXCEPT !.items = {"tempo.yaml"} \cup If(Jaeger(p), {"tempo-query.yaml"})]

InternalTLS(p) == Gateway(p) /\ p.gates.http
internalFiles(p) == ConfigureServiceCA(p) \cup ConfigureServicePKI(p, "tempo")

configureReceiverTLS(p, r) == If(r.tls, CertOf(p, r) \cup CAOf(r))

storageFiles(p) ==
  If(p.spec.storage.backend = "s3" /\ p.storage.mode = "static" /\ p.spec.storage.tls,
     If(p.spec.storage.ca # "unset", StorageCA(p)) \cup If(p.spec.storage.cert, StorageCert))

\* buildTempoConfig and buildTempoQueryConfig: the files Tempo opens.
FilesOpened(p) ==
  storageFiles(p)
    \cup (IF InternalTLS(p) THEN internalFiles(p)
          ELSE UNION {configureReceiverTLS(p, r) : r \in {q \in {p.spec.grpc, p.spec.http} : q.enabled}})

(***************************************************************************)
(* statefulset.go                                                          *)
(***************************************************************************)
serviceAccountName(p) == IF p.spec.sa = "unset" THEN "default" ELSE "custom"

buildTempoContainerPorts(p) ==
  {"http", "tempo-internal"} \cup If(p.spec.grpc.enabled, {"otlp-grpc"})
    \cup If(p.spec.http.enabled, {"otlp-http"})

configureStorage(p) ==
  CASE p.spec.storage.backend = "s3"    -> ConfigureS3Storage(p)
    [] p.spec.storage.backend = "azure" -> ConfigureAzureStorage(p)
    [] p.spec.storage.backend = "gcs"   -> ConfigureGCS(p)
    [] OTHER -> {}

mountReceivers(p) ==
  UNION {CertOf(p, r) \cup CAOf(r) : r \in {q \in {p.spec.grpc, p.spec.http} : q.enabled /\ q.tls}}

jaegerPorts == {"jaeger-grpc", "jaeger-ui", "jaeger-metrics"}
configureJaegerUI(p) == If(Jaeger(p), jaegerPorts \cup {"proxy-grpc"} \cup If(OAuth(p), {"oauth-proxy"}))

gatewayPorts(p) ==
  {"public", "internal"} \cup If(p.spec.grpc.enabled, {"grpc-public"})
    \cup If(OpenShiftGateway(p.spec), {"opa-http", "opa-metrics"})

configureGateway(p) ==
  {<<"ConfigMap", "gateway", "rbac.yaml">>, <<"Secret", "gateway", "tenants.yaml">>}
    \cup internalFiles(p)
    \cup If(p.gates.servingCerts, {<<"ConfigMap", "serving-cabundle", "service-ca.crt">>,
                                   <<"Secret", "gateway-serving-cert", "tls.crt">>})

BuildTempoStatefulset(p) ==
  Workload("tempo",
           buildTempoContainerPorts(p) \cup configureJaegerUI(p) \cup If(Gateway(p), gatewayPorts(p)),
           {ConfigRef("tempo.yaml"), RunsAs(serviceAccountName(p))}
             \cup If(Jaeger(p), {ConfigRef("tempo-query.yaml")})
             \cup configureStorage(p) \cup mountReceivers(p)
             \cup If(Gateway(p), configureGateway(p))
             \cup If(OAuth(p), {<<"Secret", "ui-oauth-proxy-tls", "tls.crt">>}))

(***************************************************************************)
(* services.go: the gateway replaces the other Services.                   *)
(***************************************************************************)
buildTempoService(p) ==
  ServingService("tempo", "tempo", buildTempoContainerPorts(p) \ {"tempo-internal"},
                 IF useServiceCertsOnReceiver(p) THEN "serving-cert" ELSE "unset")

buildJaegerUIService(p) ==
  ServingService("jaegerui", "tempo", jaegerPorts \cup If(OAuth(p), {"oauth-proxy"}),
                 IF OAuth(p) THEN "ui-oauth-proxy-tls" ELSE "unset")

buildGatewayService(p) ==
  ServingService("gateway", "tempo", {"public", "internal", "http"} \cup If(p.spec.grpc.enabled, {"grpc-public"}),
                 IF p.gates.servingCerts THEN "gateway-serving-cert" ELSE "unset")

BuildServices(p) == IF Gateway(p) THEN {buildGatewayService(p)}
                    ELSE {buildTempoService(p)} \cup If(Jaeger(p), {buildJaegerUIService(p)})

(***************************************************************************)
(* The other builders.                                                     *)
(***************************************************************************)
jaegerUIServiceAndPort(p) == IF Gateway(p) THEN <<"gateway", "public">> ELSE <<"jaegerui", "jaeger-ui">>

BuildJaegerUIIngress(p) ==
  LET to == jaegerUIServiceAndPort(p) IN {Exposed("Ingress", to[1], to[2])}
BuildJaegerUIRoute(p) ==
  LET to == jaegerUIServiceAndPort(p) IN {Exposed("Route", to[1], IF OAuth(p) THEN "oauth-proxy" ELSE to[2])}

BuildServiceAccount == {Object("ServiceAccount", "default")}

BuildGatewayObjects(p) ==
  {[Object("ConfigMap", "gateway") EXCEPT !.items = {"rbac.yaml"}],
   [Object("Secret", "gateway") EXCEPT !.items = {"tenants.yaml"}]}
    \cup If(OpenShiftGateway(p.spec),
            {Object("ClusterRole", "gateway"),
             [Object("ClusterRoleBinding", "gateway") EXCEPT
                !.refs = {<<"ClusterRole", "gateway", "unset">>, RunsAs("default")}]})

ScrapedPorts(p) == IF Gateway(p) THEN {"internal", "http"} ELSE {"http"}
BuildServiceMonitor(p) ==
  {[Object("ServiceMonitor", "tempo") EXCEPT
      !.ports = ScrapedPorts(p), !.selects = IF Gateway(p) THEN "gateway" ELSE "tempo",
      !.refs = If(InternalTLS(p), internalFiles(p))]}

BuildPrometheusRules   == {Object("PrometheusRule", "prometheus-rule")}
BuildGrafanaDatasource == {Exposed("GrafanaDatasource", "tempo", "http")}

\* No input the webhook accepts makes the build fail.
BuildFails(p) == Jaeger(p) /\ p.spec.jaeger.route /\ p.spec.jaeger.termination = "unset"

BuildAll(p) ==
  {BuildConfigMap(p), BuildTempoStatefulset(p)} \cup BuildServices(p)
    \cup If(p.gates.servingCerts, {NewConfigMapCABundle("serving-cabundle")})
    \cup If(p.spec.sa = "unset", BuildServiceAccount)
    \cup If(Gateway(p), BuildGatewayObjects(p))
    \cup If(Jaeger(p) /\ p.spec.jaeger.ingress, BuildJaegerUIIngress(p))
    \cup If(Jaeger(p) /\ p.spec.jaeger.route, BuildJaegerUIRoute(p))
    \cup If(p.spec.obs.monitors, BuildServiceMonitor(p))
    \cup If(p.spec.obs.rules, BuildPrometheusRules)
    \cup If(p.spec.obs.datasource, BuildGrafanaDatasource)

(***************************************************************************)
(* Servers, <<port, tls, address>>.  Behind a gateway that encrypts, the   *)
(* address of the gRPC receiver is not configured: it is Tempo's default.  *)
(***************************************************************************)
ReceiverPort(r) == IF r = "grpc" THEN PortOtlpGrpc ELSE PortOtlpHttp
BehindGateway(p) == IF Gateway(p) THEN "localhost" ELSE "0.0.0.0"
ReceiverAddress(p, r) == IF InternalTLS(p) /\ r = "grpc" THEN "default" ELSE BehindGateway(p)

receiverServers(p) ==
  {<<ReceiverPort(r), IF InternalTLS(p) THEN TRUE ELSE p.spec[r].tls, ReceiverAddress(p, r)>> :
     r \in {q \in {"grpc", "http"} : InternalTLS(p) \/ p.spec[q].enabled}}

Servers(p) ==
  {<<PortHTTP, InternalTLS(p), "0.0.0.0">>, <<PortInternal, FALSE, "0.0.0.0">>} \cup receiverServers(p)
    \cup If(Jaeger(p), {<<PortJaegerGRPC, FALSE, BehindGateway(p)>>, <<PortJaegerUI, FALSE, BehindGateway(p)>>,
                        <<PortJaegerMetrics, FALSE, BehindGateway(p)>>, <<PortTempoQuery, FALSE, "0.0.0.0">>})
    \cup If(OAuth(p), {<<PortOAuthProxy, TRUE, "0.0.0.0">>})
    \cup If(Gateway(p), {<<GatewayPort, p.gates.servingCerts, "0.0.0.0">>,
                         <<GatewayPortInternal, p.gates.http, "0.0.0.0">>}
                          \cup If(p.spec.grpc.enabled, {<<GatewayPortGRPC, p.gates.servingCerts, "0.0.0.0">>}))

(***************************************************************************)
(* Connections within the pod, <<port, tls>>: the arguments of the gateway *)
(* and of Jaeger Query, and the configuration of tempo-query.              *)
(***************************************************************************)
otlpHTTPScheme(p) == p.gates.http \/ p.spec.http.tls
gatewayCalls(p) ==
  {<<PortHTTP, p.gates.http>>}
    \cup If(p.spec.grpc.enabled, {<<PortOtlpGrpc, p.gates.http>>, <<PortOtlpHttp, otlpHTTPScheme(p)>>})
    \cup If(Jaeger(p), {<<PortJaegerUI, FALSE>>})

LocalCalls(p) ==
  If(Gateway(p), gatewayCalls(p))
    \cup If(Jaeger(p), {<<PortTempoQuery, FALSE>>, <<PortHTTP, InternalTLS(p)>>})
    \cup If(OAuth(p), {<<PortJaegerUI, FALSE>>})

(***************************************************************************)
(* Connections from elsewhere: probes, Prometheus, Services, Routes.       *)
(***************************************************************************)
PodCalls(p) ==
  {<<PortInternal, FALSE>>}
    \cup If(p.spec.obs.monitors, {<<PortHTTP, InternalTLS(p)>>} \cup If(Gateway(p), {<<GatewayPortInternal, p.gates.http>>}))
    \cup If(Gateway(p), {<<GatewayPortInternal, p.gates.http>>, <<GatewayPort, p.gates.servingCerts>>}
                          \cup If(p.spec.grpc.enabled, {<<GatewayPortGRPC, p.gates.servingCerts>>}))
    \cup If(~Gateway(p), {<<PortHTTP, FALSE>>}
                           \cup {<<ReceiverPort(r), p.spec[r].tls>> : r \in {q \in {"grpc", "http"} : p.spec[q].enabled}}
                           \cup If(Jaeger(p), {<<PortJaegerUI, FALSE>>}))
    \cup If(OAuth(p), {<<PortOAuthProxy, TRUE>>})
=============================================================================
