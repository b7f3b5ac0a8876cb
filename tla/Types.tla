------------------------------- MODULE Types -------------------------------
(***************************************************************************)
(* api/tempo/v1alpha1 and api/config/v1alpha1: the values of the custom    *)
(* resources and of the operator's configuration that the other modules    *)
(* tell apart, after the API server has checked them against the CRDs.     *)
(* "nil" is a nil pointer, "unset" or 0 the zero value.  Text, quantities  *)
(* and durations are reduced to whether they are set, or "ok" and "bad".   *)
(***************************************************************************)
EXTENDS Naturals, Sequences

ManagementStateType == {"unset", "Managed", "Unmanaged"}
TLSProfileType      == {"Old", "Intermediate", "Modern"}
TLSRouteType        == {"unset", "edge", "insecure", "passthrough", "reencrypt"}
IngressType         == {"unset", "none", "ingress", "route"}
IsEnabled(type)     == type \in {"ingress", "route"}
Optional            == {"nil", "on", "off"}     \* *bool
Text                == {"unset", "ok", "bad"}

(***************************************************************************)
(* Shared by both kinds: storage, tenants, TLS.                            *)
(***************************************************************************)
ObjectStorageSecretType == {"s3", "azure", "gcs"}
CredentialMode          == {"unset", "static", "token", "token-cco"}

\* authn: no tenants; OIDC nil; OIDC without a secret; complete.
Authentications == {"nil", "nooidc", "nosecret", "oidc"}
Authorizations  == {"nil", "full", "noroles", "nobindings"}
TenantsSpec     == [mode : {"none", "static", "openshift"}, authn : Authentications, authz : Authorizations]

ReceiversTLSSpec == [enabled : BOOLEAN, cert : BOOLEAN, ca : BOOLEAN]

(***************************************************************************)
(* TempoStack                                                              *)
(***************************************************************************)
ObjectStorageSpec == [type : ObjectStorageSecretType, credentialMode : CredentialMode,
                      tls : BOOLEAN, ca : {"unset", "ca"}, cert : BOOLEAN]

TempoGatewaySpec == [enabled : BOOLEAN, ingress : IngressType, termination : TLSRouteType, rbac : BOOLEAN]

JaegerQuerySpec == [enabled : BOOLEAN, ingress : IngressType, termination : TLSRouteType,
                    auth : Optional, sar : BOOLEAN, monitor : {"unset", "empty", "thanos", "other"}]

TempoMetricsGeneratorSpec == [enabled : BOOLEAN, processors : BOOLEAN, urls : BOOLEAN]

ObservabilitySpec == [monitors : BOOLEAN, rules : BOOLEAN, datasource : BOOLEAN,
                      sampling : Text, agent : Text, otlp : Text]

Components == {"distributor", "compactor", "querier", "query-frontend", "gateway", "ingester", "metrics-generator"}
Scalars    == {"retention", "storageSize", "resultLimit", "servicesDuration", "timeout", "labels"}

\* TempoTemplateSpec: the components with a pod security context, and the
\* replicas of each, 0 for nil.
TempoStackSpec ==
  [sa : {"unset", "default", "custom"}, filled : SUBSET Scalars, size : STRING, rf : Nat,
   replicas : [Components -> Nat], psc : SUBSET Components,
   storage : ObjectStorageSpec, gateway : TempoGatewaySpec, tenants : TenantsSpec,
   jaeger : JaegerQuerySpec, uiResources : SUBSET {"jaeger-query", "tempo-query"},
   receiverTLS : ReceiversTLSSpec, generator : TempoMetricsGeneratorSpec, obs : ObservabilitySpec,
   zones : Seq(STRING), netpol : {"unset", "on", "off"},
   total : BOOLEAN, extra : BOOLEAN, env : BOOLEAN, deprecated : BOOLEAN]

(***************************************************************************)
(* TempoMonolithic, stored as the user writes it.                          *)
(***************************************************************************)
MonolithicTracesStorageSpec ==
  [backend : {"unset", "memory", "pv"} \cup ObjectStorageSecretType, section : BOOLEAN,
   credentialMode : CredentialMode, tls : BOOLEAN, ca : {"unset", "ca"}, cert : BOOLEAN]

MonolithicIngestionOTLPProtocolSpec ==
  [present : BOOLEAN, enabled : BOOLEAN, tls : BOOLEAN, cert : BOOLEAN, ca : BOOLEAN]

MonolithicJaegerUISpec ==
  [enabled : BOOLEAN, ingress : BOOLEAN, route : BOOLEAN, termination : TLSRouteType, auth : Optional]

MonolithicMultitenancySpec == [enabled : BOOLEAN, mode : {"static", "openshift"},
                               authn : Authentications, authz : Authorizations]

MonolithicObservabilitySpec == [monitors : BOOLEAN, rules : BOOLEAN, datasource : BOOLEAN]

TempoMonolithicSpec ==
  [management : ManagementStateType, sa : {"unset", "custom"}, storage : MonolithicTracesStorageSpec,
   grpc : MonolithicIngestionOTLPProtocolSpec, http : MonolithicIngestionOTLPProtocolSpec,
   jaeger : MonolithicJaegerUISpec, tenancy : MonolithicMultitenancySpec,
   rbac : BOOLEAN, psc : BOOLEAN, obs : MonolithicObservabilitySpec]

(***************************************************************************)
(* ProjectConfig                                                           *)
(***************************************************************************)
OpenShiftGates == {"servingCerts", "route", "oauthDefault", "tlsCluster", "openshift"}
FeatureGates   == {"http", "grpc", "certs", "defaultPSC", "prometheus", "grafana"} \cup OpenShiftGates
IsProjectConfig(c) ==
  /\ DOMAIN c = FeatureGates \cup {"tlsProfile"}
  /\ c.tlsProfile \in TLSProfileType
  /\ \A g \in FeatureGates : c[g] \in BOOLEAN

DefaultProjectConfig ==
  [g \in FeatureGates \cup {"tlsProfile"} |->
     IF g = "tlsProfile" THEN "Modern" ELSE g \in {"http", "grpc", "certs", "defaultPSC"}]
=============================================================================
