---------------------------- MODULE Deployment ----------------------------
(***************************************************************************)
(* From a custom resource to what runs: admission, the parameters of a     *)
(* pass of the reconcilers, and the manifests, for a TempoStack and a      *)
(* TempoMonolithic of the same name.                                       *)
(*                                                                         *)
(*   internal/webhooks                                                     *)
(*   internal/controller/tempo: Reconcile and createOrUpdate of both       *)
(*   internal/handlers/gateway, internal/tlsprofile                        *)
(*   internal/manifests/cloudcredentials                                   *)
(*                                                                         *)
(* The user edits the CRs, the objects the CRs name come and go, and the   *)
(* operator is restarted with other feature gates; a stored CR stays as it *)
(* was admitted.  A pass is one step: caches, failing requests and the     *)
(* writes it consists of are the subject of TempoStackController.          *)
(*                                                                         *)
(* gates  [http, grpc, certs, servingCerts, route, oauthDefault,           *)
(*         defaultPSC, prometheus, grafana, tlsProfile, tlsCluster,        *)
(*         openshift]: the ProjectConfig                                   *)
(* env    [secret, ca, sa, permitted, cco, oidc, domain, profile,          *)
(*        readback]: the storage Secret and CA ConfigMap (see              *)
(*        StorageParams), whether the custom ServiceAccount exists,        *)
(*        whoever writes may create access reviews (the requester is asked *)
(*        about; one answer for users and operator), ROLEARN is set; the   *)
(*        OIDC Secret ("absent", "bad", "ok"); whether a base domain can   *)
(*        be read; the TLS profile of the cluster ("unreadable", "broken", *)
(*        "unset" or a profile); whether the operator's Get of its gateway *)
(*        Secret yields what the last pass wrote                           *)
(***************************************************************************)
EXTENDS Naturals
Stack == INSTANCE Manifests
Mono  == INSTANCE MonolithicManifests
T     == INSTANCE Types

CONSTANTS
  StackSpec, MonoSpec,     \* the specs CRs are created with
  StackEdits, MonoEdits,   \* edits: functions from fields to new values
  Profiles,                \* the feature gates an operator may run with
  Environment,             \* the initial environment
  Disturbances,            \* changes of it, functions like the edits
  Cookies,                 \* values of a random cookie secret, not 0
  MaxEdits,                \* bound: edits, creations and deletions
  MaxDisturbances          \* bound: changes of env and restarts

Kinds == {"TempoStack", "TempoMonolithic"}
Other(k) == IF k = "TempoStack" THEN "TempoMonolithic" ELSE "TempoStack"

VARIABLES
  gates, env,
  crs,      \* the CR of each kind: [exists, spec, finalizer, deleting, fresh]
  done,     \* the last pass: [outcome, p], p what the objects were built from
  creq,     \* whether a CredentialsRequest exists
  cookie,   \* the cookie secret in the gateway's tenants.yaml, 0 if none
  domain,   \* whether the reconciler has cached the base domain
  edits, disturbances

vars == <<gates, env, crs, done, creq, cookie, domain, edits, disturbances>>

NoParams == [spec |-> <<>>]
NoCR == [exists |-> FALSE, spec |-> <<>>, finalizer |-> FALSE, deleting |-> FALSE, fresh |-> FALSE]
Edited(r, e) == [f \in DOMAIN r |-> IF f \in DOMAIN e THEN e[f] ELSE r[f]]

\* What users write is accepted by the CRDs, and a ProjectConfig is read.
ASSUME SpecsAssumption ==
  /\ StackSpec \in T!TempoStackSpec /\ \A e \in StackEdits : Edited(StackSpec, e) \in T!TempoStackSpec
  /\ MonoSpec \in T!TempoMonolithicSpec /\ \A e \in MonoEdits : Edited(MonoSpec, e) \in T!TempoMonolithicSpec
ASSUME ProfilesAssumption == \A g \in Profiles : T!IsProjectConfig(g)
ASSUME CookiesAssumption  == 0 \notin Cookies

Init ==
  /\ gates \in Profiles /\ env = Environment
  /\ crs = [k \in Kinds |-> NoCR]
  /\ done = [k \in Kinds |-> [outcome |-> "none", p |-> NoParams]]
  /\ creq = [k \in Kinds |-> FALSE]
  /\ cookie = [k \in Kinds |-> 0]
  /\ domain = [k \in Kinds |-> FALSE]
  /\ edits = 0 /\ disturbances = 0

----------------------------------------------------------------------------
(* Admission.  The defaulting webhook of TempoStack rewrites the spec; a   *)
(* TempoMonolithic is stored as it is.                                     *)

Seen == [secret |-> env.secret, ca |-> env.ca, sa |-> env.sa, permitted |-> env.permitted,
         stack |-> crs["TempoStack"].exists, monolithic |-> crs["TempoMonolithic"].exists]

Defaulted(k, c) ==
  IF k = "TempoStack" THEN [c EXCEPT !.spec = Stack!Default(@, gates)] ELSE c

Valid(k, old, new) ==
  IF k = "TempoStack" THEN Stack!ValidateUpdate(old, new, gates, Seen)
                      ELSE Mono!ValidateUpdate(old, new, gates, Seen)

\* The warning of an object storage Secret or ConfigMap that is not there.
Warned(k, spec) ==
  IF k = "TempoStack" THEN Stack!StorageOf(spec, Seen).err # "ok"
                      ELSE Mono!StorageOf(Mono!Default(spec, gates), Seen).err # "ok"

\* A write of the CR by a user or by the operator.
Admits(k, new) == Valid(k, crs[k], Defaulted(k, new))
Stored(k, new) == LET c == Defaulted(k, new) IN [c EXCEPT !.fresh = ~Warned(k, c.spec)]

----------------------------------------------------------------------------
(* Users and the environment.                                              *)

Edit == edits < MaxEdits /\ edits' = edits + 1
Disturb == disturbances < MaxDisturbances /\ disturbances' = disturbances + 1
Stale == [k \in Kinds |-> [crs[k] EXCEPT !.fresh = FALSE]]

UserCreate(k) ==
  LET new == [NoCR EXCEPT !.exists = TRUE, !.spec = IF k = "TempoStack" THEN StackSpec ELSE MonoSpec]
  IN  /\ ~crs[k].exists /\ Edit
      /\ Admits(k, new)
      /\ crs' = [crs EXCEPT ![k] = Stored(k, new)]
      /\ UNCHANGED <<gates, env, done, creq, cookie, domain, disturbances>>

UserEdit(k, e) ==
  LET new == [crs[k] EXCEPT !.spec = Edited(@, e)]
  IN  /\ crs[k].exists /\ ~crs[k].deleting /\ Edit
      /\ Admits(k, new) /\ Defaulted(k, new).spec # crs[k].spec
      /\ crs' = [crs EXCEPT ![k] = Stored(k, new)]
      /\ UNCHANGED <<gates, env, done, creq, cookie, domain, disturbances>>

\* What a CR owns goes with it.
Removed(k) ==
  /\ crs'    = [crs EXCEPT ![k] = NoCR]
  /\ done'   = [done EXCEPT ![k] = [outcome |-> "none", p |-> NoParams]]
  /\ creq'   = [creq EXCEPT ![k] = FALSE]
  /\ cookie' = [cookie EXCEPT ![k] = 0]

UserDelete(k) ==
  /\ crs[k].exists /\ ~crs[k].deleting /\ Edit
  /\ IF crs[k].finalizer
     THEN crs' = [crs EXCEPT ![k].deleting = TRUE] /\ UNCHANGED <<done, creq, cookie>>
     ELSE Removed(k)
  /\ UNCHANGED <<gates, env, domain, disturbances>>

\* Objects the CRs name are created, changed or deleted.
EnvChange(d) ==
  /\ Disturb /\ Edited(env, d) # env
  /\ env' = Edited(env, d) /\ crs' = Stale
  /\ UNCHANGED <<gates, done, creq, cookie, domain, edits>>

\* The operator restarts with other feature gates.
OperatorReconfigure(g) ==
  /\ Disturb /\ g # gates
  /\ gates' = g /\ crs' = Stale
  /\ domain' = [k \in Kinds |-> FALSE]
  /\ UNCHANGED <<env, done, creq, cookie, edits>>

----------------------------------------------------------------------------
(* What a pass finds out before it builds.  A result is "ok" or the kind   *)
(* of error: "config" (a ConfigurationError), "error" or "panic".          *)

\* internal/manifests/cloudcredentials and the CCO blocks of the reconcilers
WantsCCO(k, spec) ==
  /\ spec.storage.credentialMode = "token-cco"
  /\ k = "TempoMonolithic" => spec.storage.backend = "s3"

ccoResult(k, spec) ==
  IF WantsCCO(k, spec) /\ ~env.cco THEN IF k = "TempoStack" THEN "config" ELSE "error" ELSE "ok"

\* getTenantParams
GetOIDCTenantSecrets(tenants) ==
  CASE tenants.authn \in {"nooidc", "nosecret"} -> "panic"
    [] tenants.authn = "oidc" /\ env.oidc # "ok" -> "config"
    [] OTHER -> "ok"

GetOpenShiftBaseDomain(k) == IF domain[k] \/ env.domain THEN "ok" ELSE "config"

tenantResult(k, tenants, gateway) ==
  IF ~Stack!ValidateTenantConfigs(tenants, gateway) THEN "config"
  ELSE CASE tenants.mode = "static"    -> GetOIDCTenantSecrets(tenants)
         [] tenants.mode = "openshift" -> GetOpenShiftBaseDomain(k)
         [] OTHER -> "ok"

\* internal/tlsprofile: the minimal version of a profile
GetTLSSettings(profile) ==
  CASE profile = "Old"                       -> "VersionTLS10"
    [] profile \in {"Intermediate", "unset"} -> "VersionTLS12"
    [] profile = "Modern"                    -> "VersionTLS13"
    [] OTHER                                 -> "unset"

getTLSProfile ==
  CASE ~gates.tlsCluster             -> [err |-> "ok", version |-> GetTLSSettings(gates.tlsProfile)]
    [] gates.tlsCluster /\ env.profile = "unreadable" -> [err |-> "cluster", version |-> "unset"]
    [] gates.tlsCluster /\ env.profile = "broken"     -> [err |-> "other", version |-> "unset"]
    [] OTHER                         -> [err |-> "ok", version |-> GetTLSSettings(env.profile)]

\* createOrUpdate of TempoStack has an empty case for the cluster error, and
\* goes on with an empty profile; that of TempoMonolithic does not.
tlsResult(k) ==
  CASE getTLSProfile.err = "ok"      -> "ok"
    [] getTLSProfile.err = "cluster" -> IF k = "TempoStack" THEN "ok" ELSE "config"
    [] getTLSProfile.err = "other"   -> "error"

----------------------------------------------------------------------------
(* createOrUpdate: the parameters of a build and its result.               *)

APIServer == [ports |-> {6443}, ips |-> {"apiserver"}]

Params(k, spec) ==
  [spec |-> spec, gates |-> gates, tls |-> getTLSProfile.version, openshift |-> gates.openshift,
   storage |-> IF k = "TempoStack" THEN Stack!StorageOf(spec, Seen) ELSE Mono!StorageOf(spec, Seen),
   apiserver |-> Stack!DiscoverKubernetesAPIServer(TRUE, APIServer),
   secret |-> env.secret, ca |-> env.ca]

buildResult(k, p) ==
  IF k = "TempoStack"
  THEN IF Stack!BuildPanics(p) THEN "panic" ELSE IF Stack!BuildFails(p) THEN "error" ELSE "ok"
  ELSE IF Mono!BuildFails(p) THEN "error" ELSE "ok"

\* The tenants a pass looks at: all of a TempoStack's, those of a
\* TempoMonolithic only with a gateway.
Tenants(k, spec) == IF k = "TempoStack" THEN spec.tenants ELSE spec.tenancy
GatewayOn(k, spec) == IF k = "TempoStack" THEN spec.gateway.enabled ELSE Mono!IsGatewayEnabled(spec)
LooksAtTenants(k, spec) == IF k = "TempoStack" THEN spec.tenants.mode # "none" ELSE GatewayOn(k, spec)

First(results) ==
  IF \A i \in DOMAIN results : results[i] = "ok" THEN "ready"
  ELSE results[CHOOSE i \in DOMAIN results : results[i] # "ok" /\ \A j \in 1..(i - 1) : results[j] = "ok"]

PassResult(k, spec) ==
  LET p == Params(k, spec)
  IN  IF p.storage.err # "ok" THEN First(<<ccoResult(k, spec), "config">>)
      ELSE First(<<ccoResult(k, spec),
                   IF LooksAtTenants(k, spec) THEN tenantResult(k, Tenants(k, spec), GatewayOn(k, spec)) ELSE "ok",
                   tlsResult(k),
                   buildResult(k, p)>>)

\* The domain is kept in the configuration of the reconciler.
ReadsDomain(k, spec) ==
  /\ LooksAtTenants(k, spec) /\ Tenants(k, spec).mode = "openshift"
  /\ ccoResult(k, spec) = "ok" /\ Params(k, spec).storage.err = "ok"
  /\ Stack!ValidateTenantConfigs(Tenants(k, spec), GatewayOn(k, spec))
  /\ env.domain

\* GetGatewayTenantsData: an error of the Get is logged and ignored, and so is
\* a Secret that the cache does not have.
readCookie(k) == IF env.readback THEN cookie[k] ELSE 0

\* NewConfigOptions: the cookie secret of an OpenShift tenant is kept if one
\* was read, and random otherwise.
newCookies(k, spec) ==
  CASE ~GatewayOn(k, spec)                   -> {cookie[k]}
    [] GatewayOn(k, spec) /\ Tenants(k, spec).mode # "openshift" -> {0}
    [] OTHER                                 -> IF readCookie(k) = 0 THEN Cookies ELSE {readCookie(k)}

\* The spec a pass works with: TempoMonolithic gets its defaults in memory.
Effective(k) == IF k = "TempoStack" THEN crs[k].spec ELSE Mono!Default(crs[k].spec, gates)
Managed(k)   == k = "TempoMonolithic" => crs[k].spec.management # "Unmanaged"

----------------------------------------------------------------------------
(* Reconcile                                                               *)

\* Adding the finalizer is a write of the whole CR, which admission may
\* reject; the error is returned and the request retried.
WithFinalizer(k) == [crs[k] EXCEPT !.finalizer = TRUE]
Finalizes(k)     == crs[k].finalizer \/ Admits(k, WithFinalizer(k))

Deploy(k) ==
  LET spec   == Effective(k)
      result == PassResult(k, spec)
  IN  /\ done' = [done EXCEPT ![k] = [outcome |-> result,
                                      p |-> IF result = "ready" THEN Params(k, spec) ELSE @.p]]
      /\ creq' = [creq EXCEPT ![k] = @ \/ (WantsCCO(k, spec) /\ env.cco)]
      /\ domain' = [domain EXCEPT ![k] = @ \/ ReadsDomain(k, spec)]
      /\ IF result = "ready" THEN \E c \in newCookies(k, spec) : cookie' = [cookie EXCEPT ![k] = c]
                             ELSE UNCHANGED cookie

Reconcile(k) ==
  /\ crs[k].exists /\ ~crs[k].deleting
  /\ IF ~Finalizes(k)
     THEN UNCHANGED <<crs, done, creq, cookie, domain>>
     ELSE /\ crs' = [crs EXCEPT ![k] = IF crs[k].finalizer THEN @
                                       ELSE Defaulted(k, WithFinalizer(k))]
          /\ IF Managed(k) THEN Deploy(k) ELSE UNCHANGED <<done, creq, cookie, domain>>
  /\ UNCHANGED <<gates, env, edits, disturbances>>

ReconcileDeletion(k) ==
  LET new == [crs[k] EXCEPT !.finalizer = FALSE]
  IN  /\ crs[k].exists /\ crs[k].deleting
      /\ Valid(k, crs[k], Defaulted(k, new))
      /\ Removed(k)
      /\ UNCHANGED <<gates, env, domain, edits, disturbances>>

Next ==
  \/ \E k \in Kinds : UserCreate(k) \/ UserDelete(k) \/ Reconcile(k) \/ ReconcileDeletion(k)
  \/ \E e \in StackEdits : UserEdit("TempoStack", e)
  \/ \E e \in MonoEdits : UserEdit("TempoMonolithic", e)
  \/ \E d \in Disturbances : EnvChange(d)
  \/ \E g \in Profiles : OperatorReconfigure(g)

Fairness == \A k \in Kinds : WF_vars(ReconcileDeletion(k))
Spec == Init /\ [][Next]_vars /\ Fairness

----------------------------------------------------------------------------
(* Properties.                                                             *)

HasDefaults(s) ==
  /\ s.sa # "unset" /\ s.filled = T!Scalars /\ s.rf # 0
  /\ \A c \in T!Components \ {"metrics-generator"} : s.replicas[c] # 0
  /\ \A r \in {s.jaeger, s.gateway} : r.ingress = "route" => r.termination # "unset"

\* Every variable has its type, and a stored TempoStack has what its
\* defaulting webhook promises: only the metrics-generator may be without
\* replicas, the replication factor is set and every Route terminates TLS.
TypeOK ==
  /\ T!IsProjectConfig(gates)
  /\ LET cr == crs["TempoStack"] IN cr.exists => cr.spec \in T!TempoStackSpec /\ HasDefaults(cr.spec)
  /\ crs["TempoMonolithic"].exists => crs["TempoMonolithic"].spec \in T!TempoMonolithicSpec
  /\ \A k \in Kinds : /\ done[k].outcome \in {"none", "ready", "config", "error", "panic"}
                       /\ creq[k] \in BOOLEAN /\ domain[k] \in BOOLEAN
                       /\ cookie[k] \in Cookies \cup {0}

Deployed(k) == done[k].p # NoParams
Built(k)    == IF k = "TempoStack" THEN Stack!BuildAll(done[k].p) ELSE Mono!BuildAll(done[k].p)

\* The objects a build does not make: the Secret and ConfigMaps of the user,
\* the certificates of the rotation, those of service-ca, the credentials
\* that CCO writes for a CredentialsRequest.  Gates for service-ca and Routes
\* are for clusters that have them.
FromUser(p) ==
  {<<"Secret", "storage", i>> : i \in DOMAIN p.secret.data}
    \cup {<<"ConfigMap", "storage-ca", i>> : i \in DOMAIN p.ca.data}
    \cup {<<"Secret", "storage-cert", "tls.crt">>, <<"Secret", "receiver-cert", "tls.crt">>,
          <<"ConfigMap", "receiver-ca", "service-ca.crt">>, <<"ServiceAccount", "custom", "unset">>}
ComponentCertSecretNames(k) == IF k = "TempoStack" THEN T!Components ELSE {"tempo"}
FromRotation(k, p) ==
  IF p.gates.certs THEN {<<"Secret", "mtls", c>> : c \in ComponentCertSecretNames(k)}
                          \cup {<<"ConfigMap", "ca-bundle", "service-ca.crt">>}
                   ELSE {}
FromServiceCA(built) == {<<"Secret", o.cert, "tls.crt">> : o \in {s \in built : s.kind = "Service" /\ s.cert # "unset"}}
FromCCO(k) == IF creq[k] THEN {<<"Secret", "managed-credentials", "credentials">>} ELSE {}

Available(k, built) ==
  (UNION {{<<o.kind, o.name, i>> : i \in o.items \cup {"unset"}} : o \in built})
    \cup FromUser(done[k].p) \cup FromRotation(k, done[k].p) \cup FromServiceCA(built) \cup FromCCO(k)

\* Known defects.  Receiver TLS with a CA and no certificate, with
\* service-ca, mounts a Secret without a name; static GCS credentials are
\* not validated; with short-lived S3 credentials the CA and the client
\* certificate of the storage are configured and not mounted; two Services
\* name ports no container has.
KnownUnresolved(p) ==
  {<<"Secret", "unset", "tls.crt">>} \cup (IF p.storage.backend = "gcs" THEN {<<"Secret", "storage", "key.json">>} ELSE {})
KnownUnmounted(p) == IF p.storage.mode = "token" THEN Stack!StorageCA(p) \cup Stack!StorageCert ELSE {}
KnownDangling == {<<"querier", "grpc">>, <<"query-frontend-discovery", "grpclb">>}

Opened(k, w) == IF k = "TempoStack" THEN Stack!FilesOpened(done[k].p, w) ELSE Mono!FilesOpened(done[k].p)

\* Whatever a deployed CR was built from, its pods can start and its traffic
\* can arrive: every Secret, ConfigMap, Role and ServiceAccount an object
\* refers to is there with the keys that are read, every file that Tempo's
\* configuration names is mounted in the pod that opens it, every target
\* port of a Service is a port of the containers it selects, and every
\* Ingress, Route and ServiceMonitor points at a port of its Service.
ReferencesResolve ==
  \A k \in Kinds : Deployed(k) =>
    LET p         == done[k].p
        built     == Built(k)
        available == Available(k, built) \cup KnownUnresolved(p)
        workloads == {o \in built : o.kind = "Workload"}
        services  == {o \in built : o.kind = "Service"}
        PointsAt(o, targets) == \A port \in o.ports : \/ <<o.name, port>> \in KnownDangling
                                                     \/ \E t \in targets : t.name = o.selects /\ port \in t.ports
    IN  /\ \A o \in built : o.refs \subseteq available
        /\ \A w \in workloads : Opened(k, w.name) \subseteq w.refs \cup KnownUnmounted(p)
        /\ \A o \in services : PointsAt(o, workloads)
        /\ \A o \in built \ (workloads \cup services) : PointsAt(o, services)

\* Known defects: the gateway of a TempoMonolithic speaks plain gRPC to a
\* receiver the user gave TLS, and has an upstream for OTLP/HTTP also when
\* that receiver is disabled.
KnownBroken(p) ==
  (IF ~p.gates.http /\ p.spec.grpc.tls THEN {Mono!PortOtlpGrpc} ELSE {})
    \cup (IF p.spec.http.enabled THEN {} ELSE {Mono!PortOtlpHttp})

StackConnected(p) ==
  LET policies == Stack!GenerateOperandPolicies(p) IN
  /\ \A c \in Stack!Calls(p) :
       /\ Stack!MayConnect(policies, p, c[1], c[2], c[3])
       /\ <<c[2], c[3], c[4]>> \in Stack!Servers(p)
  /\ \A c \in Stack!outsideCalls(p) : Stack!MayConnect(policies, p, c[1], c[2], c[3])
  /\ Stack!LocalCalls(p) \subseteq Stack!Servers(p)

MonoConnected(p) ==
  /\ \A c \in Mono!LocalCalls(p) : \/ \E s \in Mono!Servers(p) : s[1] = c[1] /\ s[2] = c[2]
                                   \/ Mono!Gateway(p) /\ c[1] \in KnownBroken(p)
  /\ \A c \in Mono!PodCalls(p) : <<c[1], c[2], "0.0.0.0">> \in Mono!Servers(p)

\* Whoever has to talk to a component finds a server on that port that
\* agrees on TLS, and no NetworkPolicy is in the way: distributor, querier,
\* ingester, query-frontend and metrics-generator among each other, the
\* gateway and its upstreams, Prometheus, probes, clients, and the pods on
\* their way to object storage, DNS and the API server.
Connected ==
  /\ Deployed("TempoStack") => StackConnected(done["TempoStack"].p)
  /\ Deployed("TempoMonolithic") => MonoConnected(done["TempoMonolithic"].p)

Inner == {"ingester", "querier", "compactor", "metrics-generator"}

\* Known to be open behind a gateway: the NetworkPolicies let every namespace
\* to Jaeger Query; the pod of a TempoMonolithic serves its API, for
\* Prometheus, its probes and tempo-query on all addresses.
KnownOpen == {"query-frontend"} \X Stack!PortsJaegerQuery
MonoOpen  == {Mono!PortHTTP, Mono!PortInternal, Mono!PortTempoQuery}

EntryPoint(p, s) ==
  /\ s[1] \notin Inner
  /\ p.spec.gateway.enabled => s[1] = "gateway" \/ <<s[1], s[2]>> \in KnownOpen

\* A port of the gateway, a known one, or the gRPC receiver with its address
\* left to Tempo, which then speaks TLS.
MonoEntryPoint(p, s) ==
  \/ s[3] = "localhost"
  \/ s[1] \in Mono!PortsGateway \cup MonoOpen
  \/ s[1] = Mono!PortOtlpGrpc /\ s[2] /\ p.gates.http

\* With NetworkPolicies, pods of other namespaces reach the inner components
\* on no port, and behind a gateway nothing but the gateway and the ports of
\* Jaeger Query; behind the gateway of a TempoMonolithic the receivers and the
\* Jaeger UI listen on localhost only, but for a gRPC receiver that encrypts.
OnlyEntryPoints ==
  /\ LET p        == done["TempoStack"].p
         policies == Stack!GenerateOperandPolicies(p)
     IN  Deployed("TempoStack") /\ p.spec.netpol # "off" =>
           \A s \in Stack!Servers(p) :
             Stack!MayConnect(policies, p, "client", s[1], s[2]) => EntryPoint(p, s)
  /\ LET p == done["TempoMonolithic"].p IN Deployed("TempoMonolithic") /\ Mono!Gateway(p) =>
       \A s \in Mono!Servers(p) : MonoEntryPoint(p, s)

\* Known defects: a pass panics on the CA of a storage without TLS settings,
\* on resources for tempo-query alone and on static tenants without a
\* complete OIDC section, and fails on tracing without an OTLP endpoint.
KnownToFail(k, spec) ==
  \/ Tenants(k, spec).mode = "static" /\ Tenants(k, spec).authn \in {"nooidc", "nosecret"}
  \/ k = "TempoStack" /\ \/ spec.storage.ca # "unset" /\ spec.storage.type # "s3"
                         \/ spec.uiResources = {"tempo-query"}
                         \/ spec.obs.sampling # "unset" /\ spec.obs.otlp # "ok"

EnvironmentComplete ==
  env.oidc = "ok" /\ env.cco /\ env.domain /\ (gates.tlsCluster => env.profile \notin {"unreadable", "broken"})

\* What admission accepted can be deployed: as long as the gates and the
\* named objects are those of the admission, and the objects that admission
\* does not look at are there, a pass ends without an error.
AcceptedDeploys ==
  \A k \in Kinds : crs[k].exists /\ crs[k].fresh /\ EnvironmentComplete /\ ~KnownToFail(k, Effective(k))
                     => PassResult(k, Effective(k)) = "ready"

\* The operator can always write a CR that was admitted under the present
\* gates and objects, and its write leaves the spec alone: the defaults are
\* a fixed point of themselves, and pass the validation that follows them.
OwnWritesAdmitted ==
  \A k \in Kinds : crs[k].exists /\ ~crs[k].deleting /\ crs[k].fresh =>
    Admits(k, WithFinalizer(k)) /\ Defaulted(k, WithFinalizer(k)).spec = crs[k].spec

\* A change of the gates, of the named objects or of the rules of admission
\* never keeps a deleted CR from going away: its finalizer can be removed.
DeletionNotBlocked == \A k \in Kinds : crs[k].deleting ~> ~crs[k].exists

----------------------------------------------------------------------------
(* Expectations that the code does not meet; see the README.               *)

\* Users of an OpenShift gateway stay logged in: once tenants.yaml has a
\* cookie secret it stays, also while the gateway is disabled, until the
\* tenants are no longer OpenShift's or the CR is deleted.
CookieKept ==
  [][\A k \in Kinds : cookie[k] # 0 /\ cookie'[k] # cookie[k] =>
       \/ ~crs'[k].exists
       \/ Tenants(k, crs[k].spec).mode # "openshift"]_vars

\* What is deployed has a minimal TLS version.
TLSProfileSet == \A k \in Kinds : Deployed(k) => done[k].p.tls # "unset"

\* A CR that has left the CCO credential mode has no CredentialsRequest.
CredentialsPruned ==
  \A k \in Kinds : done[k].outcome = "ready" /\ creq[k] => WantsCCO(k, done[k].p.spec)
=============================================================================
