---------------------- MODULE TempoMonolithicWebhook ----------------------
(***************************************************************************)
(* api/tempo/v1alpha1/tempomonolithic_defaults.go and the validating       *)
(* webhook of TempoMonolithic.  There is no defaulting webhook: the        *)
(* defaults are applied to a copy, by the webhook and by the controller.   *)
(*                                                                         *)
(* A spec is a record:                                                     *)
(*   management   "unset" | "Managed" | "Unmanaged"                        *)
(*   sa           "unset" | "custom"                                       *)
(*   storage      [backend, section, credentialMode, tls, ca]              *)
(*   grpc, http   [present, enabled, tls, cert, ca]: the OTLP receivers    *)
(*   jaeger       [enabled, ingress, route, termination, auth], auth "nil" *)
(*                "on" or "off"                                            *)
(*   tenancy      [enabled, mode, authn, authz], authn "nil" is no tenant  *)
(*   rbac, psc    whether query RBAC, a pod security context is set        *)
(*   obs          [monitors, rules, datasource]                            *)
(***************************************************************************)
EXTENDS StorageParams
Stack == INSTANCE TempoStackWebhook

IsGatewayEnabled(s) == s.tenancy.enabled /\ s.tenancy.authn # "nil"
OpenShiftGateway(s) == IsGatewayEnabled(s) /\ s.tenancy.mode = "openshift"

(***************************************************************************)
(* Default                                                                 *)
(***************************************************************************)
DefaultReceiver(r) == IF r.present THEN r ELSE [r EXCEPT !.present = TRUE, !.enabled = TRUE]

DefaultRoute(s, gates) ==
  [s.jaeger EXCEPT
     !.termination = CASE @ # "unset" -> @
                       [] @ = "unset" /\ IsGatewayEnabled(s) /\ gates.servingCerts -> "reencrypt"
                       [] OTHER -> "edge",
     !.auth = IF @ = "nil" THEN IF gates.oauthDefault THEN "on" ELSE "off" ELSE @]

DefaultManagement(s) == IF s.management = "unset" THEN "Managed" ELSE s.management
DefaultStorage(s) == [s.storage EXCEPT !.backend = IF @ = "unset" THEN "memory" ELSE @]
DefaultJaeger(s, gates) ==
  IF s.jaeger.enabled /\ s.jaeger.route THEN DefaultRoute(s, gates) ELSE s.jaeger

Default(s, gates) ==
  [s EXCEPT !.management = DefaultManagement(s),
            !.storage    = DefaultStorage(s),
            !.grpc       = DefaultReceiver(s.grpc),
            !.http       = DefaultReceiver(s.http),
            !.jaeger     = DefaultJaeger(s, gates),
            !.psc        = (s.psc \/ gates.defaultPSC)]

(***************************************************************************)
(* The validations.                                                        *)
(***************************************************************************)
StorageOf(s, env) == GetStorageParamsForTempoMonolithic(s.storage, env.secret, env.ca)
validateStorage(s, env) == Stack!Unless(StorageOf(s, env).err \in {"ok", "fetch"}, "storage")

validateJaegerUI(s, gates) ==
  Stack!Unless(/\ s.jaeger.ingress \/ s.jaeger.route => s.jaeger.enabled
               /\ s.jaeger.route => gates.route
               /\ ~(s.rbac /\ s.jaeger.enabled), "jaegerui")

\* Without a gateway, noAuthWarning makes this a warning.
validateMultitenancy(s, env) ==
  Stack!Unless(/\ s.rbac => s.tenancy.enabled
               /\ IsGatewayEnabled(s) =>
                    /\ s.tenancy.mode = "openshift" => env.permitted
                    /\ Stack!ValidateTenantConfigs(s.tenancy, TRUE), "multitenancy")

validateObservability(s, gates) ==
  Stack!Unless(/\ s.obs.monitors => gates.prometheus
               /\ s.obs.rules => gates.prometheus /\ s.obs.monitors
               /\ s.obs.datasource => gates.grafana /\ ~IsGatewayEnabled(s), "observability")

validateServiceAccount(s, env) ==
  Stack!Unless(s.sa # "unset" => ~OpenShiftGateway(s) /\ env.sa, "serviceAccount")

validateConflictWithTempoStack(env) == Stack!Unless(~env.stack, "name")

validateTempoMonolithic(raw, gates, env) ==
  LET s == Default(raw, gates)
  IN  validateStorage(s, env) \cup validateJaegerUI(s, gates) \cup validateMultitenancy(s, env)
        \cup validateObservability(s, gates) \cup validateServiceAccount(s, env)
        \cup validateConflictWithTempoStack(env)

ValidateUpdate(old, new, gates, env) ==
  Stack!FinalizerRemoved(old, new) \/ validateTempoMonolithic(new.spec, gates, env) = {}
=============================================================================
