------------------------- MODULE TempoStackWebhook -------------------------
(***************************************************************************)
(* internal/webhooks: the defaulting and the validating admission webhook  *)
(* of TempoStack.                                                          *)
(*                                                                         *)
(* A spec is a record with one field per part of TempoStackSpec that the   *)
(* webhooks or the manifests tell apart:                                   *)
(*   sa            "unset" | "default" | "custom"      spec.serviceAccount *)
(*   filled        the scalar fields that are set (Scalars)                *)
(*   size, rf      "unset" and 0 are unset                                 *)
(*   replicas      [Components -> Nat], 0 is nil                           *)
(*   psc           the components with a pod security context              *)
(*   storage       [type, credentialMode, tls, ca]                         *)
(*   gateway       [enabled, ingress, termination, rbac]                   *)
(*   tenants       [mode, authn, authz], mode "none" is nil                *)
(*   jaeger        [enabled, ingress, termination, auth, sar, monitor]     *)
(*   uiResources   the Jaeger Query containers with explicit resources     *)
(*   receiverTLS   [enabled, cert, ca]                                     *)
(*   generator     [enabled, processors, urls]                             *)
(*   obs           [monitors, rules, datasource, sampling, agent, otlp]    *)
(*   zones         the topology keys of spec.replicationZones              *)
(*   netpol        "unset" (nil) | "on" | "off"                            *)
(*   total, extra, env, deprecated   whether the field is set              *)
(* gates is the ProjectConfig of the operator, env what the API server     *)
(* answers: [secret, ca, sa, monolithic, permitted, ...].                  *)
(***************************************************************************)
EXTENDS StorageParams, Types

(***************************************************************************)
(* internal/manifests/manifestutils/size.go: 0 is "no value for the size". *)
(***************************************************************************)
ValidSizes == {"1x.demo", "1x.pico", "1x.extra-small", "1x.small", "1x.medium"}

ReplicationFactorForSize(size) ==
  CASE size = "1x.demo" -> 1 [] size \in ValidSizes \ {"1x.demo"} -> 2 [] OTHER -> 0

ReplicasForComponent(size, c) ==
  LET Scaled(small, medium) ==
        CASE size \in {"1x.pico", "1x.extra-small"} -> 2
          [] size = "1x.small"  -> small
          [] size = "1x.medium" -> medium
          [] OTHER              -> 0
  IN  CASE c = "distributor"       -> Scaled(3, 4)
        [] c = "querier"           -> Scaled(3, 5)
        [] c = "compactor"         -> Scaled(2, 3)
        [] c = "metrics-generator" -> Scaled(3, 3)
        [] c \in {"query-frontend", "gateway"} -> Scaled(2, 2)
        [] OTHER                   -> 0

(***************************************************************************)
(* Default                                                                 *)
(***************************************************************************)
Or(a, b) == IF a = 0 THEN b ELSE a
Quorum(rf) == rf \div 2 + 1

effectiveRF(s) ==
  IF s.rf # 0 THEN s.rf
  ELSE IF s.size # "unset" THEN Or(ReplicationFactorForSize(s.size), 1) ELSE 1

\* Mutant: components whose size says nothing get no replicas.
replicasForSize(s) ==
  [c \in Components |-> IF c = "ingester" THEN Or(s.replicas[c], Quorum(effectiveRF(s)))
                        ELSE Or(s.replicas[c], ReplicasForComponent(s.size, c))]

defaultReplicas(s) ==
  [c \in Components |->
     CASE c = "ingester"          -> Or(s.replicas[c], IF s.size # "unset" THEN Quorum(effectiveRF(s)) ELSE 1)
       [] c = "metrics-generator" -> Or(s.replicas[c], ReplicasForComponent(s.size, c))
       [] OTHER                   -> Or(s.replicas[c], Or(ReplicasForComponent(s.size, c), 1))]

defaultGateway(s) ==
  LET type == IF s.tenants.mode = "openshift" /\ s.gateway.ingress = "unset" THEN "route" ELSE s.gateway.ingress
  IN  [s.gateway EXCEPT !.ingress = type,
                        !.termination = IF type = "route" /\ @ = "unset" THEN "reencrypt" ELSE @]

\* Mutant: the default of the access review is taken before that of the proxy.
sarBeforeAuth(s, gates) ==
  [s.jaeger EXCEPT !.termination = IF s.jaeger.ingress = "route" /\ @ = "unset" THEN "edge" ELSE @,
                   !.auth = IF gates.oauthDefault /\ @ = "nil" /\ s.jaeger.ingress = "route" THEN "on" ELSE @,
                   !.sar  = (@ \/ s.jaeger.auth = "on")]

defaultJaeger(s, gates) ==
  LET auth == IF gates.oauthDefault /\ s.jaeger.auth = "nil" /\ s.jaeger.ingress = "route"
              THEN "on" ELSE s.jaeger.auth
  IN  [s.jaeger EXCEPT !.termination = IF s.jaeger.ingress = "route" /\ @ = "unset" THEN "edge" ELSE @,
                       !.auth = auth,
                       !.sar  = (@ \/ auth = "on")]

\* applyDefaultPodSecurityContext is not called for the metrics-generator.
DefaultedPSC(s, gates) ==
  IF gates.defaultPSC THEN s.psc \cup (Components \ {"metrics-generator"}) ELSE s.psc

defaultServiceAccount(s) == IF s.sa = "unset" THEN "default" ELSE s.sa

defaultGenerator(s) == [s.generator EXCEPT !.processors = (@ \/ s.generator.enabled)]

Default(s, gates) ==
  [s EXCEPT !.sa        = defaultServiceAccount(s),
            !.filled    = Scalars,
            !.replicas  = defaultReplicas(s),
            !.rf        = effectiveRF(s),
            !.gateway   = defaultGateway(s),
            !.jaeger    = defaultJaeger(s, gates),
            !.generator = defaultGenerator(s),
            !.psc       = DefaultedPSC(s, gates)]

(***************************************************************************)
(* ValidateTenantConfigs, also called by the controllers.                  *)
(***************************************************************************)
ValidateTenantConfigs(tenants, gatewayEnabled) ==
  CASE tenants.mode = "none"      -> TRUE
    [] tenants.mode = "static"    -> gatewayEnabled => /\ tenants.authn \notin {"nil", "nooidc"}
                                                       /\ tenants.authz = "full"
    [] tenants.mode = "openshift" -> /\ gatewayEnabled
                                     /\ tenants.authz = "nil"
                                     /\ tenants.authn \in {"nil", "nooidc"}

(***************************************************************************)
(* The validations, one operator per function of the validator: the error  *)
(* each returns, or {} when there is none.  Only one of them may turn an   *)
(* error into a warning: an object storage Secret or CA ConfigMap that     *)
(* cannot be fetched.                                                      *)
(***************************************************************************)
Unless(ok, error) == IF ok THEN {} ELSE {error}

validateServiceAccount(s, env) == Unless(s.sa = "default" \/ env.sa, "serviceAccount")

StorageOf(s, env) == GetStorageParamsForTempoStack(s.storage, env.secret, env.ca)
validateStorage(s, env) == Unless(StorageOf(s, env).err \in {"ok", "fetch"}, "storage")

validateReplicationFactor(s) == Unless(s.replicas["ingester"] >= Quorum(s.rf), "replicationFactor")

validateReplicationZones(s) ==
  Unless(\A i, j \in 1..Len(s.zones) : i # j => s.zones[i] # s.zones[j], "replicationZones")

validateQueryFrontend(s, gates) ==
  Unless(/\ IsEnabled(s.jaeger.ingress) => s.jaeger.enabled
         /\ s.jaeger.ingress = "route" => gates.route
         /\ s.jaeger.monitor # "empty", "queryFrontend")

validateGateway(s, gates, env) ==
  Unless(s.gateway.enabled =>
           /\ ~IsEnabled(s.jaeger.ingress)
           /\ ~(s.gateway.rbac /\ s.jaeger.enabled)
           /\ s.tenants.mode # "none"
           /\ s.gateway.ingress = "route" => gates.route
           /\ ~s.receiverTLS.enabled
           /\ s.tenants.mode = "openshift" => env.permitted, "gateway")

validateObservability(s, gates) ==
  Unless(/\ s.obs.monitors => gates.prometheus
         /\ s.obs.rules => gates.prometheus /\ s.obs.monitors
         /\ s.obs.sampling # "bad"
         /\ s.obs.agent # "bad"
         /\ s.obs.datasource => gates.grafana /\ ~s.gateway.enabled, "observability")

\* Mutant: the webhook leaves the tenants to the controller.
tenantsUnchecked(s) == {}

validateTenantConfigs(s) == Unless(ValidateTenantConfigs(s.tenants, s.gateway.enabled), "tenants")

validateDeprecatedFields(s) == Unless(~s.deprecated, "deprecated")

validateReceiverTLS(s, gates) ==
  Unless(s.receiverTLS.enabled /\ ~gates.servingCerts => s.receiverTLS.cert, "receiverTLS")

validateSize(s) == Unless(s.size \in ValidSizes \cup {"unset"}, "size")

validateMetricsGenerator(s) == Unless(s.generator.enabled => s.generator.urls, "metricsGenerator")

validateConflictWithMonolithic(env) == Unless(~env.monolithic, "name")

validate(s, gates, env) ==
  validateServiceAccount(s, env) \cup validateStorage(s, env) \cup validateSize(s)
    \cup validateReplicationFactor(s) \cup validateReplicationZones(s)
    \cup validateQueryFrontend(s, gates) \cup validateGateway(s, gates, env)
    \cup validateTenantConfigs(s) \cup validateObservability(s, gates)
    \cup validateDeprecatedFields(s) \cup validateReceiverTLS(s, gates)
    \cup validateMetricsGenerator(s) \cup validateConflictWithMonolithic(env)

(***************************************************************************)
(* ValidateUpdate: removing the finalizer of a CR that is being deleted is *)
(* the one update that is not validated.                                   *)
(***************************************************************************)
\* Mutant: every update is validated.
alwaysValidated(old, new) == FALSE

FinalizerRemoved(old, new) == new.deleting /\ old.finalizer /\ ~new.finalizer

ValidateUpdate(old, new, gates, env) ==
  FinalizerRemoved(old, new) \/ validate(new.spec, gates, env) = {}
=============================================================================
