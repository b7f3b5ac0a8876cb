--------------------------- MODULE MCDeployment ---------------------------
EXTENDS Deployment

MCStack ==
  [sa |-> "unset", filled |-> {}, size |-> "unset", rf |-> 0, replicas |-> [c \in T!Components |-> 0], psc |-> {},
   storage |-> [type |-> "s3", credentialMode |-> "unset", tls |-> FALSE, ca |-> "unset", cert |-> FALSE],
   gateway |-> [enabled |-> FALSE, ingress |-> "unset", termination |-> "unset", rbac |-> FALSE],
   tenants |-> [mode |-> "none", authn |-> "nil", authz |-> "nil"],
   jaeger |-> [enabled |-> FALSE, ingress |-> "unset", termination |-> "unset", auth |-> "nil", sar |-> FALSE, monitor |-> "unset"],
   uiResources |-> {}, receiverTLS |-> [enabled |-> FALSE, cert |-> FALSE, ca |-> FALSE],
   generator |-> [enabled |-> FALSE, processors |-> FALSE, urls |-> FALSE],
   obs |-> [monitors |-> FALSE, rules |-> FALSE, datasource |-> FALSE, sampling |-> "unset", agent |-> "unset", otlp |-> "unset"],
   zones |-> <<>>, netpol |-> "unset", total |-> FALSE, extra |-> FALSE, env |-> FALSE, deprecated |-> FALSE]

Gateway(ingress, rbac) == [enabled |-> TRUE, ingress |-> ingress, termination |-> "unset", rbac |-> rbac]
Static(authn, authz)   == [mode |-> "static", authn |-> authn, authz |-> authz]
OpenShift              == [mode |-> "openshift", authn |-> "nooidc", authz |-> "nil"]
Jaeger(ingress, auth, monitor) ==
  [enabled |-> TRUE, ingress |-> ingress, termination |-> "unset", auth |-> auth, sar |-> FALSE, monitor |-> monitor]
Storage(type, mode, tls, ca) == [type |-> type, credentialMode |-> mode, tls |-> tls, ca |-> ca, cert |-> tls]

\* Each edit is about one feature, with the fields that go together.
MCStackEdits ==
  {[size |-> "1x.small"], [size |-> "bogus"], [rf |-> 3], [zones |-> <<"zone", "zone">>],
   [sa |-> "custom"], [deprecated |-> TRUE], [netpol |-> "off"],
   [storage |-> Storage("s3", "unset", TRUE, "ca")], [storage |-> Storage("s3", "token-cco", FALSE, "unset")],
   [storage |-> Storage("azure", "unset", FALSE, "ca")], [storage |-> Storage("gcs", "static", FALSE, "unset")],
   [gateway |-> Gateway("ingress", FALSE), tenants |-> Static("oidc", "full")],
   [gateway |-> Gateway("unset", TRUE), tenants |-> OpenShift],
   [tenants |-> Static("nosecret", "nil")], [gateway |-> MCStack.gateway],
   [jaeger |-> Jaeger("ingress", "nil", "thanos"), uiResources |-> {"tempo-query"}],
   [jaeger |-> Jaeger("route", "nil", "unset")],
   [receiverTLS |-> [enabled |-> TRUE, cert |-> FALSE, ca |-> FALSE]],
   [receiverTLS |-> [enabled |-> TRUE, cert |-> TRUE, ca |-> TRUE]],
   [receiverTLS |-> [enabled |-> TRUE, cert |-> FALSE, ca |-> TRUE]],
   [generator |-> [enabled |-> TRUE, processors |-> FALSE, urls |-> TRUE]],
   [obs |-> [MCStack.obs EXCEPT !.monitors = TRUE, !.rules = TRUE]],
   [obs |-> [MCStack.obs EXCEPT !.datasource = TRUE]],
   [obs |-> [MCStack.obs EXCEPT !.sampling = "ok", !.otlp = "bad"]]}

Receiver(tls, cert) == [present |-> TRUE, enabled |-> TRUE, tls |-> tls, cert |-> cert, ca |-> FALSE]
NoReceiver == [present |-> FALSE, enabled |-> FALSE, tls |-> FALSE, cert |-> FALSE, ca |-> FALSE]
MonoJaeger(ingress, route) ==
  [enabled |-> TRUE, ingress |-> ingress, route |-> route, termination |-> "unset", auth |-> "nil"]
Tenancy(mode, authn, authz) == [enabled |-> TRUE, mode |-> mode, authn |-> authn, authz |-> authz]
MonoStorage(backend, mode, tls) ==
  [backend |-> backend, section |-> TRUE, credentialMode |-> mode, tls |-> tls, ca |-> IF tls THEN "ca" ELSE "unset",
   cert |-> tls]

MCMono ==
  [management |-> "unset", sa |-> "unset",
   storage |-> [backend |-> "unset", section |-> FALSE, credentialMode |-> "unset", tls |-> FALSE, ca |-> "unset", cert |-> FALSE],
   grpc |-> NoReceiver, http |-> NoReceiver,
   jaeger |-> [enabled |-> FALSE, ingress |-> FALSE, route |-> FALSE, termination |-> "unset", auth |-> "nil"],
   tenancy |-> [enabled |-> FALSE, mode |-> "static", authn |-> "nil", authz |-> "nil"],
   rbac |-> FALSE, psc |-> FALSE, obs |-> [monitors |-> FALSE, rules |-> FALSE, datasource |-> FALSE]]

MCMonoEdits ==
  {[management |-> "Unmanaged"], [sa |-> "custom"],
   [storage |-> MonoStorage("s3", "unset", TRUE)], [storage |-> MonoStorage("s3", "token-cco", FALSE)],
   [storage |-> MonoStorage("azure", "unset", FALSE)], [storage |-> MonoStorage("gcs", "unset", FALSE)],
   [grpc |-> Receiver(TRUE, TRUE)], [http |-> Receiver(TRUE, FALSE)],
   [http |-> [NoReceiver EXCEPT !.present = TRUE]],
   [jaeger |-> MonoJaeger(TRUE, FALSE)], [jaeger |-> MonoJaeger(FALSE, TRUE)],
   [tenancy |-> Tenancy("static", "oidc", "full")], [tenancy |-> Tenancy("openshift", "nooidc", "nil")],
   [tenancy |-> Tenancy("static", "nosecret", "full")], [rbac |-> TRUE],
   [obs |-> [monitors |-> TRUE, rules |-> TRUE, datasource |-> FALSE]],
   [obs |-> [monitors |-> FALSE, rules |-> FALSE, datasource |-> TRUE]]}

MCOpenShift == [T!DefaultProjectConfig EXCEPT
  !.servingCerts = TRUE, !.route = TRUE, !.oauthDefault = TRUE, !.tlsCluster = TRUE, !.openshift = TRUE,
  !.prometheus = TRUE, !.grafana = TRUE, !.defaultPSC = FALSE]
MCPlain == [T!DefaultProjectConfig EXCEPT
  !.http = FALSE, !.grpc = FALSE, !.certs = FALSE, !.prometheus = TRUE, !.route = TRUE]
MCProfiles == {T!DefaultProjectConfig, MCOpenShift, MCPlain}

\* One kind of encryption without the other.
MCMixed == {[T!DefaultProjectConfig EXCEPT !.http = FALSE], [T!DefaultProjectConfig EXCEPT !.grpc = FALSE]}

S3Static == [found |-> TRUE, data |-> [k \in {"bucket", "endpoint", "access_key_id", "access_key_secret"} |->
                                         IF k = "endpoint" THEN "https" ELSE "set"]]
S3Token  == [found |-> TRUE, data |-> [k \in {"bucket", "region", "role_arn"} |-> "set"]]
Azure    == [found |-> TRUE, data |-> [k \in {"container", "account_name", "client_id", "tenant_id"} |-> "set"]]
GCS      == [found |-> TRUE, data |-> [k \in {"bucketname", "key.json"} |-> IF k = "key.json" THEN "external" ELSE "set"]]
Missing  == [found |-> FALSE, data |-> <<>>]
CABundle == [found |-> TRUE, data |-> [k \in {"service-ca.crt", "ca.crt"} |-> IF k = "ca.crt" THEN "set" ELSE "unset"]]

MCEnvironment == [secret |-> S3Static, ca |-> CABundle, sa |-> TRUE, permitted |-> TRUE,
                  cco |-> TRUE, oidc |-> "ok", domain |-> TRUE, profile |-> "Intermediate",
                  readback |-> TRUE]
MCDisturbances ==
  {[secret |-> S3Token], [secret |-> Azure], [secret |-> GCS], [secret |-> Missing], [ca |-> Missing],
   [sa |-> FALSE], [permitted |-> FALSE], [cco |-> FALSE], [oidc |-> "bad"], [domain |-> FALSE],
   [readback |-> FALSE], [profile |-> "unreadable"], [profile |-> "broken"]}
=============================================================================
