-------------------------- MODULE References_proofs --------------------------
(***************************************************************************)
(* The references between the objects of a build (ReferencesResolve of     *)
(* Deployment): the fields of the objects, what each builder refers to and *)
(* where that comes from, for TempoStack and for TempoMonolithic, what is  *)
(* validated of the storage, and the inductive invariant that carries the  *)
(* admission of a spec to what was deployed from it.                       *)
(***************************************************************************)
EXTENDS Deployment_proofs

\* What the objects of a build may refer to: Available, as a function of what
\* was built, of the parameters and of whether there is a CredentialsRequest,
\* with the known defects.
Credentials(c) == IF c THEN {<<"Secret", "managed-credentials", "credentials">>} ELSE {}
Offer(k, p, built, c) ==
  (UNION {{<<o.kind, o.name, i>> : i \in o.items \cup {"unset"}} : o \in built})
    \cup FromUser(p) \cup FromRotation(k, p) \cup FromServiceCA(built) \cup Credentials(c) \cup KnownUnresolved(p)

LEMMA Offered == ASSUME NEW k, NEW p, NEW built, NEW c, NEW o \in built, NEW i \in o.items \cup {"unset"}
  PROVE  <<o.kind, o.name, i>> \in Offer(k, p, built, c)
<1> DEFINE own(q) == {<<q.kind, q.name, j>> : j \in q.items \cup {"unset"}}
<1>1. <<o.kind, o.name, i>> \in own(o)
  OBVIOUS
<1>2. own(o) \subseteq UNION {own(q) : q \in built}
  <2> HIDE DEF own
  <2> QED BY Zenon
<1>3. UNION {own(q) : q \in built} \subseteq Offer(k, p, built, c)
  BY Zenon DEF Offer
<1> HIDE DEF own
<1> QED BY <1>1, <1>2, <1>3, Zenon

LEMMA Certified == ASSUME NEW k, NEW p, NEW built, NEW c, NEW o \in built, o.kind = "Service", o.cert # "unset"
  PROVE  <<"Secret", o.cert, "tls.crt">> \in Offer(k, p, built, c)
  BY Zenon DEF Offer, FromServiceCA

LEMMA Provided == ASSUME NEW k, NEW p, NEW built, NEW c
  PROVE  /\ FromUser(p) \cup Credentials(c) \cup KnownUnresolved(p) \subseteq Offer(k, p, built, c)
         /\ p.gates.certs => /\ <<"ConfigMap", "ca-bundle", "service-ca.crt">> \in Offer(k, p, built, c)
                             /\ \A d \in ComponentCertSecretNames(k) : <<"Secret", "mtls", d>> \in Offer(k, p, built, c)
         /\ <<"Secret", "receiver-cert", "tls.crt">> \in Offer(k, p, built, c)
         /\ <<"ConfigMap", "receiver-ca", "service-ca.crt">> \in Offer(k, p, built, c)
         /\ <<"ServiceAccount", "custom", "unset">> \in Offer(k, p, built, c)
         /\ <<"Secret", "unset", "tls.crt">> \in Offer(k, p, built, c)
<1>1. FromUser(p) \cup Credentials(c) \cup KnownUnresolved(p) \subseteq Offer(k, p, built, c)
  BY Zenon DEF Offer
<1>2. FromRotation(k, p) \subseteq Offer(k, p, built, c)
  BY Zenon DEF Offer
<1>3. p.gates.certs => /\ <<"ConfigMap", "ca-bundle", "service-ca.crt">> \in FromRotation(k, p)
                       /\ \A d \in ComponentCertSecretNames(k) : <<"Secret", "mtls", d>> \in FromRotation(k, p)
  BY Zenon DEF FromRotation
<1>4. <<"Secret", "receiver-cert", "tls.crt">> \in FromUser(p) /\ <<"ConfigMap", "receiver-ca", "service-ca.crt">> \in FromUser(p)
      /\ <<"ServiceAccount", "custom", "unset">> \in FromUser(p)
  BY Zenon DEF FromUser
<1>5. <<"Secret", "unset", "tls.crt">> \in KnownUnresolved(p)
  BY Zenon DEF KnownUnresolved
<1> QED BY <1>1, <1>2, <1>3, <1>4, <1>5, Zenon

----------------------------------------------------------------------------
(* The fields of the objects.                                              *)

LEMMA StackObject == ASSUME NEW kind, NEW name
  PROVE  LET o == Stack!Object(kind, name) IN
         /\ o.kind = kind /\ o.name = name /\ o.items = {} /\ o.refs = {} /\ o.ports = {}
         /\ o.selects = "unset" /\ o.cert = "unset"
  BY DEF Stack!Object

LEMMA StackService == ASSUME NEW name, NEW selects, NEW ports
  PROVE  LET o == Stack!Service(name, selects, ports) IN
         /\ o.kind = "Service" /\ o.name = name /\ o.refs = {} /\ o.ports = ports /\ o.selects = selects
  BY DEF Stack!Service, Stack!Object

LEMMA StackServing == ASSUME NEW name, NEW selects, NEW ports, NEW cert
  PROVE  LET o == Stack!ServingService(name, selects, ports, cert) IN
         /\ o.kind = "Service" /\ o.name = name /\ o.refs = {} /\ o.ports = ports /\ o.selects = selects
         /\ o.cert = cert
  BY DEF Stack!ServingService, Stack!Service, Stack!Object

LEMMA StackExposed == ASSUME NEW kind, NEW service, NEW port
  PROVE  LET o == Stack!Exposed(kind, service, port) IN
         /\ o.kind = kind /\ o.name = service /\ o.refs = {} /\ o.ports = {port} /\ o.selects = service
  BY DEF Stack!Exposed, Stack!Object

LEMMA StackWorkload == ASSUME NEW name, NEW ports, NEW refs
  PROVE  LET o == Stack!Workload(name, ports, refs) IN
         /\ o.kind = "Workload" /\ o.name = name /\ o.ports = ports /\ o.refs = refs
  BY DEF Stack!Workload, Stack!Object

LEMMA StackHolder == ASSUME NEW kind, NEW name, NEW items
  PROVE  LET o == [Stack!Object(kind, name) EXCEPT !.items = items] IN
         o.kind = kind /\ o.name = name /\ o.items = items /\ o.refs = {} /\ o.ports = {}
  BY DEF Stack!Object

LEMMA StackReferrer == ASSUME NEW kind, NEW name, NEW refs
  PROVE  LET o == [Stack!Object(kind, name) EXCEPT !.refs = refs] IN
         o.kind = kind /\ o.name = name /\ o.refs = refs /\ o.ports = {}
  BY DEF Stack!Object

LEMMA StackOthers == ASSUME NEW name
  PROVE  LET b == Stack!NewPodDisruptionBudget(name)
             m == Stack!NewConfigMapCABundle(name) IN
         /\ b.kind = "PodDisruptionBudget" /\ b.refs = {} /\ b.ports = {}
         /\ m.kind = "ConfigMap" /\ m.name = name /\ m.items = {"service-ca.crt"} /\ m.refs = {} /\ m.ports = {}
  BY DEF Stack!NewPodDisruptionBudget, Stack!NewConfigMapCABundle, Stack!Object

----------------------------------------------------------------------------
(* TempoStack.                                                             *)

\* What the references of a stack depend on: certificates come with
\* encryption, a UI that is exposed is there, and the keys of the storage are.
SoundStack(p, c) ==
  /\ Stack!Encrypted(p) => p.gates.certs
  /\ p.spec.jaeger.ingress \in {"ingress", "route"} => p.spec.jaeger.enabled
  /\ p.storage.backend = "s3" => p.spec.storage.type = "s3"
  /\ Stack!ConfigureStorage(p) \subseteq FromUser(p) \cup Credentials(c) \cup KnownUnresolved(p)

\* Every object of a builder that runs is an object of the build.
LEMMA StackParts == ASSUME NEW p
  PROVE  LET all == Stack!BuildAll(p) IN
         /\ Stack!BuildConfigMap(p) \in all /\ Stack!BuildGossip \in all
         /\ p.spec.sa = "default" => Stack!BuildDefaultServiceAccount \subseteq all
         /\ Stack!BuildDistributor(p) \cup Stack!BuildIngester(p) \cup Stack!BuildQueryFrontend(p) \subseteq all
         /\ Stack!BuildQuerier(p) \cup Stack!BuildCompactor(p) \subseteq all
         /\ p.spec.generator.enabled => Stack!BuildMetricsGenerator(p) \subseteq all
         /\ p.spec.gateway.enabled => Stack!BuildGateway(p) \subseteq all
  BY Zenon DEF Stack!BuildAll, Stack!If

LEMMA StackBuilders == ASSUME NEW p, NEW o \in Stack!BuildAll(p)
  PROVE  \/ o = Stack!BuildConfigMap(p) \/ o = Stack!BuildGossip
         \/ p.spec.sa = "default" /\ o \in Stack!BuildDefaultServiceAccount
         \/ o \in Stack!BuildDistributor(p) \/ o \in Stack!BuildIngester(p) \/ o \in Stack!BuildQueryFrontend(p)
         \/ o \in Stack!BuildQuerier(p) \/ o \in Stack!BuildCompactor(p)
         \/ p.spec.generator.enabled /\ o \in Stack!BuildMetricsGenerator(p)
         \/ p.spec.gateway.enabled /\ o \in Stack!BuildGateway(p)
         \/ o \in Stack!BuildServiceMonitors(p)
         \/ o \in Stack!BuildPrometheusRule \/ o \in Stack!BuildGrafanaDatasource
  BY Zenon DEF Stack!BuildAll, Stack!If

\* What the pods of every component refer to.
LEMMA TempoPodRefs ==
  ASSUME NEW p, NEW c, SoundStack(p, c), NEW d \in T!Components,
         NEW file \in {"tempo.yaml", "tempo-query-frontend.yaml", "overrides.yaml"}
  PROVE  LET offer == Offer("TempoStack", p, Stack!BuildAll(p), c) IN
         /\ Stack!ConfigureServiceCA(p) \subseteq offer /\ Stack!ConfigureServicePKI(p, d) \subseteq offer
         /\ Stack!ConfigRef(file) \in offer
         /\ Stack!RunsAs(Stack!SpecSA(p)) \in offer
         /\ p.spec.jaeger.enabled => Stack!ConfigRef("tempo-query.yaml") \in offer
         /\ Stack!ConfigureStorage(p) \subseteq offer
<1> DEFINE all == Stack!BuildAll(p)
           offer == Offer("TempoStack", p, all, c)
           cm == Stack!BuildConfigMap(p)
<1>1. d \in ComponentCertSecretNames("TempoStack")
  BY Zenon DEF ComponentCertSecretNames
<1>2. Stack!Encrypted(p) => /\ <<"ConfigMap", "ca-bundle", "service-ca.crt">> \in offer
                            /\ <<"Secret", "mtls", d>> \in offer
  <2> HIDE DEF all
  <2> QED BY <1>1, Provided, Zenon DEF SoundStack
<1>3. /\ Stack!ConfigureServiceCA(p) \subseteq offer /\ Stack!ConfigureServicePKI(p, d) \subseteq offer
  <2> HIDE DEF offer
  <2> QED BY <1>2 DEF Stack!ConfigureServiceCA, Stack!ConfigureServicePKI, Stack!If
<1>4. /\ cm \in all /\ cm.kind = "ConfigMap" /\ cm.name = "config"
      /\ cm.items = {"tempo.yaml", "tempo-query-frontend.yaml", "overrides.yaml"}
                      \cup Stack!If(p.spec.jaeger.enabled, {"tempo-query.yaml"})
  <2> DEFINE items == {"tempo.yaml", "tempo-query-frontend.yaml", "overrides.yaml"}
                        \cup Stack!If(p.spec.jaeger.enabled, {"tempo-query.yaml"})
  <2>1. cm \in all
    BY StackParts, Zenon
  <2>2. cm = [Stack!Object("ConfigMap", "config") EXCEPT !.items = items]
    BY Zenon DEF Stack!BuildConfigMap
  <2> HIDE DEF items, cm, all
  <2>3. cm.kind = "ConfigMap" /\ cm.name = "config" /\ cm.items = items
    BY <2>2, StackOthers, StackHolder, StackReferrer
  <2> QED BY <2>1, <2>3 DEF items
<1> HIDE DEF cm
<1>5. /\ file \in cm.items \cup {"unset"}
      /\ p.spec.jaeger.enabled => "tempo-query.yaml" \in cm.items \cup {"unset"}
  BY <1>4 DEF Stack!If
<1>6. /\ Stack!ConfigRef(file) \in offer
      /\ p.spec.jaeger.enabled => Stack!ConfigRef("tempo-query.yaml") \in offer
  <2> HIDE DEF all
  <2> QED BY <1>4, <1>5, Offered, Zenon DEF Stack!ConfigRef
<1>7. Stack!RunsAs(Stack!SpecSA(p)) \in offer
  <2>1. CASE p.spec.sa = "default"
    <3> DEFINE sa == Stack!Object("ServiceAccount", "default")
    <3>0. sa \in Stack!BuildDefaultServiceAccount
      BY Zenon DEF Stack!BuildDefaultServiceAccount
    <3>1. sa \in all
      BY <2>1, <3>0, StackParts, Zenon
    <3>2. sa.kind = "ServiceAccount" /\ sa.name = "default"
      BY StackObject
    <3> HIDE DEF sa, all
    <3>3. <<"ServiceAccount", "default", "unset">> \in offer
      BY <3>1, <3>2, Offered
    <3> QED BY <2>1, <3>3, Zenon DEF Stack!RunsAs, Stack!SpecSA
  <2>2. CASE p.spec.sa # "default"
    <3> HIDE DEF all
    <3> QED BY <2>2, Provided, Zenon DEF Stack!RunsAs, Stack!SpecSA
  <2> QED BY <2>1, <2>2
<1>8. Stack!ConfigureStorage(p) \subseteq offer
  <2> HIDE DEF all
  <2> QED BY Provided, Zenon DEF SoundStack
<1> HIDE DEF offer
<1> QED BY <1>3, <1>6, <1>7, <1>8 DEF offer

\* What a build offers for its own use, beside the configuration.
LEMMA StackHolds ==
  ASSUME NEW p, NEW c, NEW kind, NEW name, NEW items, [Stack!Object(kind, name) EXCEPT !.items = items] \in Stack!BuildAll(p)
  PROVE  \A i \in items : <<kind, name, i>> \in Offer("TempoStack", p, Stack!BuildAll(p), c)
<1> DEFINE o == [Stack!Object(kind, name) EXCEPT !.items = items]
           all == Stack!BuildAll(p)
<1>1. o.kind = kind /\ o.name = name /\ o.items = items
  BY StackOthers, StackHolder, StackReferrer
<1>2. o \in all
  OBVIOUS
<1> HIDE DEF o, all
<1>3. \A i \in items : <<kind, name, i>> \in Offer("TempoStack", p, all, c)
  BY <1>1, <1>2, Offered
<1> QED BY <1>3 DEF all

LEMMA StackNames ==
  ASSUME NEW p, NEW c, NEW kind, NEW name, Stack!Object(kind, name) \in Stack!BuildAll(p)
  PROVE  <<kind, name, "unset">> \in Offer("TempoStack", p, Stack!BuildAll(p), c)
<1> DEFINE o == Stack!Object(kind, name)
           all == Stack!BuildAll(p)
<1>1. o.kind = kind /\ o.name = name
  BY StackObject
<1>2. o \in all
  OBVIOUS
<1> HIDE DEF o, all
<1>3. <<kind, name, "unset">> \in Offer("TempoStack", p, all, c)
  BY <1>1, <1>2, Offered
<1> QED BY <1>3 DEF all

LEMMA StackBundles ==
  ASSUME NEW p, NEW c, NEW name, Stack!NewConfigMapCABundle(name) \in Stack!BuildAll(p)
  PROVE  <<"ConfigMap", name, "service-ca.crt">> \in Offer("TempoStack", p, Stack!BuildAll(p), c)
<1> DEFINE o == Stack!NewConfigMapCABundle(name)
           all == Stack!BuildAll(p)
<1>1. o.kind = "ConfigMap" /\ o.name = name /\ o.items = {"service-ca.crt"}
  BY StackOthers, StackHolder, StackReferrer
<1>2. o \in all
  OBVIOUS
<1> HIDE DEF o, all
<1>3. <<"ConfigMap", name, "service-ca.crt">> \in Offer("TempoStack", p, all, c)
  BY <1>1, <1>2, Offered
<1> QED BY <1>3 DEF all

LEMMA StackServes ==
  ASSUME NEW p, NEW c, NEW name, NEW selects, NEW ports, NEW cert, cert # "unset",
         Stack!ServingService(name, selects, ports, cert) \in Stack!BuildAll(p)
  PROVE  <<"Secret", cert, "tls.crt">> \in Offer("TempoStack", p, Stack!BuildAll(p), c)
<1> DEFINE o == Stack!ServingService(name, selects, ports, cert)
           all == Stack!BuildAll(p)
<1>1. o.kind = "Service" /\ o.cert = cert
  BY StackServing
<1>2. o \in all
  OBVIOUS
<1> HIDE DEF o, all
<1>3. <<"Secret", cert, "tls.crt">> \in Offer("TempoStack", p, all, c)
  BY <1>1, <1>2, Certified
<1> QED BY <1>3 DEF all

\* The certificates of the receivers.
LEMMA ReceiverRefs ==
  ASSUME NEW p, NEW c, p.spec.receiverTLS.enabled
  PROVE  Stack!configureReceiversTLS(p) \subseteq Offer("TempoStack", p, Stack!BuildAll(p), c)
<1> DEFINE all == Stack!BuildAll(p)
           offer == Offer("TempoStack", p, all, c)
<1>0. Stack!BuildDistributor(p) \subseteq all
  BY StackParts, Zenon
<1>1. CASE Stack!ServingReceiver(p)
  <2>1. Stack!ServingService("distributor", "distributor", Stack!distributorPorts(p), "serving-cert") \in Stack!BuildDistributor(p)
    BY <1>1, Zenon DEF Stack!BuildDistributor
  <2>2. Stack!NewConfigMapCABundle("serving-cabundle") \in Stack!BuildDistributor(p)
    BY <1>1, Zenon DEF Stack!BuildDistributor, Stack!If
  <2>3. <<"Secret", "serving-cert", "tls.crt">> \in offer
    BY <1>0, <2>1, StackServes
  <2>4. <<"ConfigMap", "serving-cabundle", "service-ca.crt">> \in offer
    BY <1>0, <2>2, StackBundles, Zenon
  <2>5. Stack!configureReceiversTLS(p) = {<<"Secret", "serving-cert", "tls.crt">>} \cup {<<"ConfigMap", "serving-cabundle", "service-ca.crt">>}
    <3>1. Stack!receiverCert(p) = {<<"Secret", "serving-cert", "tls.crt">>}
      BY <1>1 DEF Stack!receiverCert, Stack!ServingReceiver
    <3> QED BY <1>1, <3>1, Zenon DEF Stack!configureReceiversTLS
  <2> HIDE DEF offer
  <2> QED BY <2>3, <2>4, <2>5 DEF offer
<1>2. CASE ~Stack!ServingReceiver(p)
  <2> HIDE DEF all
  <2>1. /\ <<"Secret", "receiver-cert", "tls.crt">> \in offer /\ <<"Secret", "unset", "tls.crt">> \in offer
        /\ <<"ConfigMap", "receiver-ca", "service-ca.crt">> \in offer
    BY Provided, Zenon
  <2> HIDE DEF offer
  <2>2. Stack!receiverCert(p) \subseteq offer
    BY <1>2, <2>1 DEF Stack!receiverCert
  <2>3. Stack!receiverCA(p) \subseteq offer
    BY <2>1 DEF Stack!receiverCA, Stack!If
  <2>4. Stack!configureReceiversTLS(p) \subseteq offer
    BY <1>2, <2>2, <2>3, Zenon DEF Stack!configureReceiversTLS
  <2> QED BY <2>4 DEF offer, all
<1> QED BY <1>1, <1>2

\* Every reference of every component.
LEMMA ComponentRefs ==
  ASSUME NEW p, NEW c, SoundStack(p, c)
  PROVE  LET offer == Offer("TempoStack", p, Stack!BuildAll(p), c) IN
         /\ \A d \in {"distributor", "ingester", "querier", "compactor", "metrics-generator"} :
              /\ Stack!TempoPod(p, d, "tempo.yaml") \subseteq offer
              /\ Stack!StoragePod(p, d) \subseteq offer
         /\ Stack!TempoPod(p, "query-frontend", "tempo-query-frontend.yaml") \cup Stack!ConfigureStorage(p) \subseteq offer
<1> DEFINE offer == Offer("TempoStack", p, Stack!BuildAll(p), c)
<1>0. {"distributor", "ingester", "querier", "compactor", "metrics-generator", "query-frontend"} \subseteq T!Components
  BY DEF T!Components
<1>1. ASSUME NEW d \in T!Components, NEW file \in {"tempo.yaml", "tempo-query-frontend.yaml"}
      PROVE  Stack!TempoPod(p, d, file) \subseteq offer /\ Stack!ConfigureStorage(p) \subseteq offer
  <2>0. file \in {"tempo.yaml", "tempo-query-frontend.yaml", "overrides.yaml"}
    OBVIOUS
  <2>1. /\ Stack!ConfigureServiceCA(p) \subseteq offer /\ Stack!ConfigureServicePKI(p, d) \subseteq offer
        /\ Stack!ConfigRef(file) \in offer /\ Stack!RunsAs(Stack!SpecSA(p)) \in offer
        /\ Stack!ConfigureStorage(p) \subseteq offer
    BY <2>0, TempoPodRefs, Zenon
  <2> HIDE DEF offer
  <2> QED BY <2>1, Zenon DEF Stack!TempoPod
<1> HIDE DEF offer
<1>2. \A d \in T!Components : Stack!TempoPod(p, d, "tempo.yaml") \subseteq offer /\ Stack!StoragePod(p, d) \subseteq offer
  BY <1>1, Zenon DEF Stack!StoragePod
<1>3. Stack!TempoPod(p, "query-frontend", "tempo-query-frontend.yaml") \cup Stack!ConfigureStorage(p) \subseteq offer
  <2>1. "query-frontend" \in T!Components
    BY <1>0
  <2> QED BY <1>1, <2>1, Zenon
<1>4. \A d \in {"distributor", "ingester", "querier", "compactor", "metrics-generator"} : d \in T!Components
  BY <1>0
<1> QED BY <1>2, <1>3, <1>4, Zenon DEF offer

\* The query-frontend: its account and the certificate of the OAuth proxy.
LEMMA FrontendRefs ==
  ASSUME NEW p, NEW c, SoundStack(p, c), NEW o \in Stack!BuildQueryFrontend(p)
  PROVE  o.refs \subseteq Offer("TempoStack", p, Stack!BuildAll(p), c)
<1> DEFINE all == Stack!BuildAll(p)
           offer == Offer("TempoStack", p, all, c)
<1>0. Stack!BuildQueryFrontend(p) \subseteq all
  BY StackParts, Zenon
<1>1. Stack!RunsAs(Stack!SpecSA(p)) \in offer /\ (p.spec.jaeger.enabled => Stack!ConfigRef("tempo-query.yaml") \in offer)
  <2>1. "querier" \in T!Components /\ "tempo.yaml" \in {"tempo.yaml", "tempo-query-frontend.yaml", "overrides.yaml"}
    BY DEF T!Components
  <2> QED BY <2>1, TempoPodRefs, Zenon
<1>2. Stack!OAuth(p) => Stack!RunsAs("query-frontend") \in offer
  <2> SUFFICES ASSUME Stack!OAuth(p) PROVE Stack!RunsAs("query-frontend") \in offer
    OBVIOUS
  <2>1. Stack!Object("ServiceAccount", "query-frontend") \in Stack!frontendIngress(p)
    <3>1. ~p.spec.gateway.enabled /\ p.spec.jaeger.ingress = "route"
      BY DEF Stack!OAuth
    <3> DEFINE route == Stack!Exposed("Route", "query-frontend", IF Stack!OAuth(p) THEN "oauth-proxy" ELSE "jaeger-ui")
               acc == Stack!If(Stack!OAuth(p), {Stack!Object("ServiceAccount", "query-frontend")})
    <3>2. Stack!frontendIngress(p) = {route} \cup acc
      <4> HIDE DEF route, acc
      <4> QED BY <3>1 DEF Stack!frontendIngress, route, acc
    <3>3. acc = {Stack!Object("ServiceAccount", "query-frontend")}
      BY Zenon DEF Stack!If
    <3> HIDE DEF route, acc
    <3> QED BY <3>2, <3>3, Zenon
  <2>2. Stack!Object("ServiceAccount", "query-frontend") \in all
    BY <1>0, <2>1, Zenon DEF Stack!BuildQueryFrontend
  <2> QED BY <2>2, StackNames, Zenon DEF Stack!RunsAs
<1>3. Stack!OAuth(p) => <<"Secret", "ui-oauth-proxy-tls", "tls.crt">> \in offer
  <2> SUFFICES ASSUME Stack!OAuth(p) PROVE <<"Secret", "ui-oauth-proxy-tls", "tls.crt">> \in offer
    OBVIOUS
  <2> DEFINE ports == {"http", "grpc"} \cup Stack!JaegerPorts(p) \cup Stack!If(Stack!OAuth(p), {"oauth-proxy"})
  <2>1. Stack!ServingService("query-frontend", "query-frontend", ports, "ui-oauth-proxy-tls") \in Stack!frontendServices(p)
    BY Zenon DEF Stack!frontendServices
  <2> HIDE DEF ports
  <2>2. Stack!ServingService("query-frontend", "query-frontend", ports, "ui-oauth-proxy-tls") \in all
    BY <1>0, <2>1, Zenon DEF Stack!BuildQueryFrontend
  <2> QED BY <2>2, StackServes
<1>4. Stack!RunsAs(Stack!FrontendSA(p)) \in offer
  <2> HIDE DEF offer
  <2> QED BY <1>1, <1>2, Zenon DEF Stack!FrontendSA
<1>5. CASE o = Stack!frontendDeployment(p)
  <2>1. Stack!TempoPod(p, "query-frontend", "tempo-query-frontend.yaml") \subseteq offer /\ Stack!ConfigureStorage(p) \subseteq offer
    BY ComponentRefs, Zenon
  <2>2. o.refs = (Stack!TempoPod(p, "query-frontend", "tempo-query-frontend.yaml") \ {Stack!RunsAs(Stack!SpecSA(p))})
             \cup {Stack!RunsAs(Stack!FrontendSA(p))} \cup Stack!ConfigureStorage(p)
             \cup Stack!If(p.spec.jaeger.enabled, {Stack!ConfigRef("tempo-query.yaml")})
             \cup Stack!If(Stack!OAuth(p), {<<"Secret", "ui-oauth-proxy-tls", "tls.crt">>})
    <3> DEFINE ports == {"http", "grpc"} \cup Stack!JaegerPorts(p) \cup Stack!If(p.spec.jaeger.enabled, {"proxy-grpc"})
                          \cup Stack!If(Stack!OAuth(p), {"oauth-proxy"})
               refs == (Stack!TempoPod(p, "query-frontend", "tempo-query-frontend.yaml") \ {Stack!RunsAs(Stack!SpecSA(p))})
                         \cup {Stack!RunsAs(Stack!FrontendSA(p))} \cup Stack!ConfigureStorage(p)
                         \cup Stack!If(p.spec.jaeger.enabled, {Stack!ConfigRef("tempo-query.yaml")})
                         \cup Stack!If(Stack!OAuth(p), {<<"Secret", "ui-oauth-proxy-tls", "tls.crt">>})
    <3>1. o = Stack!Workload("query-frontend", ports, refs)
      BY <1>5, Zenon DEF Stack!frontendDeployment
    <3> HIDE DEF ports, refs
    <3>2. o.refs = refs
      BY <3>1, StackWorkload
    <3> QED BY <3>2 DEF refs
  <2> HIDE DEF offer
  <2>3. /\ Stack!If(p.spec.jaeger.enabled, {Stack!ConfigRef("tempo-query.yaml")}) \subseteq offer
        /\ Stack!If(Stack!OAuth(p), {<<"Secret", "ui-oauth-proxy-tls", "tls.crt">>}) \subseteq offer
    BY <1>1, <1>3, Zenon DEF Stack!If
  <2>4. o.refs \subseteq offer
    BY <1>4, <2>1, <2>2, <2>3, Zenon
  <2> QED BY <2>4 DEF offer
<1>6. CASE o \in Stack!openShiftMonitoringRBAC(p) /\ Stack!openShiftMonitoringRBAC(p) \subseteq Stack!BuildQueryFrontend(p)
  <2> DEFINE refs == {<<"Role", "metrics-reader", "unset">>, Stack!RunsAs(Stack!FrontendSA(p))}
  <2>1. Stack!Object("Role", "metrics-reader") \in all
    BY <1>0, <1>6, Zenon DEF Stack!openShiftMonitoringRBAC
  <2>2. <<"Role", "metrics-reader", "unset">> \in offer
    BY <2>1, StackNames
  <2>3. refs \subseteq offer
    <3> HIDE DEF offer
    <3> QED BY <1>4, <2>2, Zenon
  <2>4. o = Stack!Object("Role", "metrics-reader") \/ o = [Stack!Object("RoleBinding", "metrics-reader") EXCEPT !.refs = refs]
    BY <1>6, Zenon DEF Stack!openShiftMonitoringRBAC
  <2> HIDE DEF refs
  <2>5. o.refs = {} \/ o.refs = refs
    <3>1. ASSUME o = Stack!Object("Role", "metrics-reader") PROVE o.refs = {}
      BY <3>1, StackObject, Zenon
    <3>2. ASSUME o = [Stack!Object("RoleBinding", "metrics-reader") EXCEPT !.refs = refs] PROVE o.refs = refs
      BY <3>2, StackOthers, StackHolder, StackReferrer
    <3> QED BY <2>4, <3>1, <3>2
  <2> HIDE DEF offer
  <2>6. o.refs \subseteq offer
    BY <2>3, <2>5
  <2> QED BY <2>6 DEF offer
<1>7. CASE o \in Stack!frontendServices(p) \cup Stack!frontendIngress(p) \cup {Stack!NewPodDisruptionBudget("query-frontend")}
  <2>1. ASSUME o \in Stack!frontendServices(p) PROVE o.refs = {}
    <3>1. PICK ports, cert : \/ o = Stack!ServingService("query-frontend", "query-frontend", ports, cert)
                             \/ o = Stack!Service("query-frontend-discovery", "query-frontend", ports)
      BY <2>1, Zenon DEF Stack!frontendServices
    <3>2. ASSUME o = Stack!ServingService("query-frontend", "query-frontend", ports, cert) PROVE o.refs = {}
      BY <3>2, StackServing
    <3>3. ASSUME o = Stack!Service("query-frontend-discovery", "query-frontend", ports) PROVE o.refs = {}
      BY <3>3, StackService
    <3> QED BY <3>1, <3>2, <3>3
  <2>2. ASSUME o \in Stack!frontendIngress(p) PROVE o.refs = {}
    <3>1. \/ \E kind, port : o = Stack!Exposed(kind, "query-frontend", port)
          \/ o = Stack!Object("ServiceAccount", "query-frontend")
      BY <2>2 DEF Stack!frontendIngress, Stack!If
    <3> QED BY <3>1, StackExposed, StackObject
  <2>3. o.refs = {}
    BY <1>7, <2>1, <2>2, StackOthers, StackHolder, StackReferrer
  <2> QED BY <2>3
<1> QED BY <1>5, <1>6, <1>7, Zenon DEF Stack!BuildQueryFrontend, Stack!If

\* The gateway: its configuration, its account and its certificates.
LEMMA GatewayRefs ==
  ASSUME NEW p, NEW c, SoundStack(p, c), p.spec.gateway.enabled, NEW o \in Stack!BuildGateway(p)
  PROVE  o.refs \subseteq Offer("TempoStack", p, Stack!BuildAll(p), c)
<1> DEFINE all == Stack!BuildAll(p)
           offer == Offer("TempoStack", p, all, c)
           rbac == [Stack!Object("ConfigMap", "gateway") EXCEPT !.items = {"rbac.yaml"}]
           tenants == [Stack!Object("Secret", "gateway") EXCEPT !.items = {"tenants.yaml"}]
           cert == IF p.gates.servingCerts THEN "gateway-tls" ELSE "unset"
           service == Stack!ServingService("gateway", "gateway", {"grpc-public", "internal", "public"}, cert)
<1>0. Stack!BuildGateway(p) \subseteq all
  BY StackParts, Zenon
<1>1. rbac \in all /\ tenants \in all /\ service \in all
  BY <1>0, Zenon DEF Stack!BuildGateway
<1>2. <<"ConfigMap", "gateway", "rbac.yaml">> \in offer /\ <<"Secret", "gateway", "tenants.yaml">> \in offer
  BY <1>1, StackHolds
<1>3. Stack!OpenShiftTenants(p) => Stack!RunsAs("gateway") \in offer /\ <<"ClusterRole", "gateway", "unset">> \in offer
  <2> SUFFICES ASSUME Stack!OpenShiftTenants(p) PROVE Stack!RunsAs("gateway") \in offer /\ <<"ClusterRole", "gateway", "unset">> \in offer
    OBVIOUS
  <2>1. Stack!AccessReviewRBAC \subseteq all
    BY <1>0, Zenon DEF Stack!BuildGateway, Stack!If
  <2>2. Stack!Object("ClusterRole", "gateway") \in all /\ Stack!Object("ServiceAccount", "gateway") \in all
    BY <2>1, Zenon DEF Stack!AccessReviewRBAC
  <2> QED BY <2>2, StackNames, Zenon DEF Stack!RunsAs
<1>4. Stack!ServingGateway(p) => Stack!patchOCPServingCerts \subseteq offer
  <2> SUFFICES ASSUME Stack!ServingGateway(p) PROVE Stack!patchOCPServingCerts \subseteq offer
    OBVIOUS
  <2>1. cert = "gateway-tls" /\ cert # "unset"
    BY DEF Stack!ServingGateway
  <2>2. <<"Secret", cert, "tls.crt">> \in offer
    <3> HIDE DEF cert
    <3> QED BY <1>1, <2>1, StackServes
  <2>3. Stack!NewConfigMapCABundle("gateway-cabundle") \in all
    BY <1>0, Zenon DEF Stack!BuildGateway, Stack!If
  <2>4. <<"ConfigMap", "gateway-cabundle", "service-ca.crt">> \in offer
    BY <2>3, StackBundles, Zenon
  <2> HIDE DEF offer, cert
  <2> QED BY <2>1, <2>2, <2>4 DEF Stack!patchOCPServingCerts
<1>5. CASE o = Stack!gatewayDeployment(p)
  <2> DEFINE ports == {"grpc-public", "internal", "public"} \cup Stack!If(Stack!OpenShiftTenants(p), {"opa-http", "opa-metrics"})
             own == {<<"ConfigMap", "gateway", "rbac.yaml">>, <<"Secret", "gateway", "tenants.yaml">>,
                     Stack!RunsAs(IF Stack!OpenShiftTenants(p) THEN "gateway" ELSE Stack!SpecSA(p))}
             refs == own \cup Stack!ConfigureServiceCA(p) \cup Stack!ConfigureServicePKI(p, "gateway")
                       \cup Stack!If(Stack!ServingGateway(p), Stack!patchOCPServingCerts)
  <2>1. o = Stack!Workload("gateway", ports, refs)
    BY <1>5, Zenon DEF Stack!gatewayDeployment
  <2>2. /\ Stack!ConfigureServiceCA(p) \subseteq offer /\ Stack!ConfigureServicePKI(p, "gateway") \subseteq offer
        /\ Stack!RunsAs(Stack!SpecSA(p)) \in offer
    <3>1. "gateway" \in T!Components /\ "tempo.yaml" \in {"tempo.yaml", "tempo-query-frontend.yaml", "overrides.yaml"}
      BY DEF T!Components
    <3> QED BY <3>1, TempoPodRefs, Zenon
  <2> HIDE DEF offer
  <2>3. own \subseteq offer
    BY <1>2, <1>3, <2>2, Zenon
  <2>4. Stack!If(Stack!ServingGateway(p), Stack!patchOCPServingCerts) \subseteq offer
    BY <1>4, Zenon DEF Stack!If
  <2> HIDE DEF own, ports
  <2>5. refs \subseteq offer
    BY <2>2, <2>3, <2>4, Zenon
  <2> HIDE DEF refs
  <2>6. o.refs = refs
    BY <2>1, StackWorkload
  <2> QED BY <2>5, <2>6, Zenon DEF offer
<1>6. CASE Stack!OpenShiftTenants(p) /\ o \in Stack!AccessReviewRBAC
  <2> DEFINE refs == {<<"ClusterRole", "gateway", "unset">>, Stack!RunsAs("gateway")}
  <2>1. \/ o = Stack!Object("ClusterRole", "gateway") \/ o = Stack!Object("ServiceAccount", "gateway")
        \/ o = [Stack!Object("ClusterRoleBinding", "gateway") EXCEPT !.refs = refs]
    BY <1>6, Zenon DEF Stack!AccessReviewRBAC
  <2> HIDE DEF offer
  <2>2. refs \subseteq offer
    BY <1>3, <1>6, Zenon
  <2> HIDE DEF refs
  <2>3. ASSUME o = [Stack!Object("ClusterRoleBinding", "gateway") EXCEPT !.refs = refs] PROVE o.refs = refs
    BY <2>3, StackOthers, StackHolder, StackReferrer
  <2>4. ASSUME NEW kind, o = Stack!Object(kind, "gateway") PROVE o.refs = {}
    BY <2>4, StackObject
  <2>5. o.refs \subseteq offer
    BY <2>1, <2>2, <2>3, <2>4
  <2> QED BY <2>5 DEF offer
<1>7. ASSUME o.refs = {} PROVE o.refs \subseteq offer
  BY <1>7
<1>8. CASE o = rbac \/ o = tenants \/ o = service \/ o = Stack!NewPodDisruptionBudget("gateway")
           \/ o = Stack!NewConfigMapCABundle("gateway-cabundle")
  <2>1. rbac.refs = {} /\ tenants.refs = {} /\ service.refs = {}
    BY StackOthers, StackHolder, StackReferrer, StackServing
  <2>2. Stack!NewPodDisruptionBudget("gateway").refs = {} /\ Stack!NewConfigMapCABundle("gateway-cabundle").refs = {}
    BY StackOthers, StackHolder, StackReferrer
  <2> HIDE DEF rbac, tenants, service
  <2>3. o.refs = {}
    BY <1>8, <2>1, <2>2
  <2> QED BY <1>7, <2>3
<1>9. CASE o = Stack!Exposed("Ingress", "gateway", "public") \/ o = Stack!Exposed("Route", "gateway", "public")
  <2>1. o.refs = {}
    BY <1>9, StackExposed
  <2> QED BY <1>7, <2>1
<1> HIDE DEF offer, rbac, tenants, service
<1>10. o.refs \subseteq offer
  <2>1. \/ o = rbac \/ o = tenants \/ o = service \/ o = Stack!gatewayDeployment(p)
        \/ o = Stack!NewPodDisruptionBudget("gateway") \/ o = Stack!NewConfigMapCABundle("gateway-cabundle")
        \/ Stack!OpenShiftTenants(p) /\ o \in Stack!AccessReviewRBAC
        \/ o = Stack!Exposed("Ingress", "gateway", "public") \/ o = Stack!Exposed("Route", "gateway", "public")
    BY Zenon DEF Stack!BuildGateway, Stack!If, rbac, tenants, service
  <2> QED BY <1>5, <1>6, <1>8, <1>9, <2>1, Zenon DEF offer
<1> QED BY <1>10 DEF offer

\* Monitors use the certificates of what they scrape.
LEMMA MonitorRefs ==
  ASSUME NEW p, NEW c, SoundStack(p, c), NEW o \in Stack!BuildServiceMonitors(p)
  PROVE  o.refs \subseteq Offer("TempoStack", p, Stack!BuildAll(p), c)
<1> DEFINE offer == Offer("TempoStack", p, Stack!BuildAll(p), c)
<1>1. PICK d \in Stack!Monitored(p) : o = Stack!newServiceMonitor(p, d)
  BY Zenon DEF Stack!BuildServiceMonitors
<1> DEFINE refs == Stack!If(Stack!ScrapesTLS(p, d), {<<"ConfigMap", "ca-bundle", "service-ca.crt">>, <<"Secret", "mtls", d>>})
<1>2. o = [Stack!Exposed("ServiceMonitor", d, Stack!ScrapedPort(d)) EXCEPT !.refs = refs]
  BY <1>1, Zenon DEF Stack!newServiceMonitor
<1>3. d \in T!Components
  BY DEF Stack!Monitored, Stack!If, T!Components
<1>4. p.gates.http => /\ <<"ConfigMap", "ca-bundle", "service-ca.crt">> \in offer /\ <<"Secret", "mtls", d>> \in offer
  <2>1. d \in ComponentCertSecretNames("TempoStack")
    BY <1>3, Zenon DEF ComponentCertSecretNames
  <2>2. p.gates.http => p.gates.certs
    BY Zenon DEF SoundStack, Stack!Encrypted
  <2> QED BY <2>1, <2>2, Provided, Zenon
<1> HIDE DEF offer
<1>5. refs \subseteq offer
  <2>1. Stack!ScrapesTLS(p, d) => p.gates.http
    BY Zenon DEF Stack!ScrapesTLS
  <2> QED BY <1>4, <2>1, Zenon DEF Stack!If
<1> HIDE DEF refs
<1>6. o.refs = refs
  BY <1>2 DEF Stack!Exposed, Stack!Object
<1> QED BY <1>5, <1>6, Zenon DEF offer

\* An object with a workload and things that refer to nothing.
LEMMA PlainRefs ==
  ASSUME NEW name, NEW other, NEW selects, NEW ports, NEW cert
  PROVE  /\ Stack!Service(name, selects, ports).refs = {}
         /\ Stack!ServingService(name, selects, ports, cert).refs = {}
         /\ Stack!NewPodDisruptionBudget(name).refs = {} /\ Stack!NewConfigMapCABundle(name).refs = {}
         /\ Stack!Object(other, name).refs = {} /\ Stack!Exposed(other, name, ports).refs = {}
  BY StackService, StackServing, StackOthers, StackHolder, StackReferrer, StackObject, StackExposed

\* Every Secret, ConfigMap, Role and ServiceAccount an object of a stack
\* refers to is there, with the keys that are read.
LEMMA StackRefs ==
  ASSUME NEW p, NEW c, SoundStack(p, c), NEW o \in Stack!BuildAll(p)
  PROVE  o.refs \subseteq Offer("TempoStack", p, Stack!BuildAll(p), c)
<1> DEFINE offer == Offer("TempoStack", p, Stack!BuildAll(p), c)
<1>0. ASSUME o.refs = {} PROVE o.refs \subseteq offer
  BY <1>0
<1>1. ASSUME NEW name, NEW ports, NEW refs, o = Stack!Workload(name, ports, refs), refs \subseteq offer PROVE o.refs \subseteq offer
  <2>1. o.refs = refs
    BY <1>1, StackWorkload
  <2> QED BY <1>1, <2>1, Zenon
<1>2. \A d \in {"distributor", "ingester", "querier", "compactor", "metrics-generator"} :
        Stack!TempoPod(p, d, "tempo.yaml") \subseteq offer /\ Stack!StoragePod(p, d) \subseteq offer
  BY ComponentRefs, Zenon
<1>3. p.spec.receiverTLS.enabled => Stack!configureReceiversTLS(p) \subseteq offer
  BY ReceiverRefs, Zenon
<1>4. /\ o \in Stack!BuildQueryFrontend(p) => o.refs \subseteq offer
      /\ p.spec.gateway.enabled /\ o \in Stack!BuildGateway(p) => o.refs \subseteq offer
      /\ o \in Stack!BuildServiceMonitors(p) => o.refs \subseteq offer
  BY FrontendRefs, GatewayRefs, MonitorRefs, Zenon
<1> HIDE DEF offer
<1>5. ASSUME o \in Stack!BuildDistributor(p) PROVE o.refs \subseteq offer
  <2> DEFINE ports == Stack!distributorPorts(p) \cup {"http-memberlist"}
             refs == Stack!TempoPod(p, "distributor", "tempo.yaml")
                       \cup Stack!If(p.spec.receiverTLS.enabled, Stack!configureReceiversTLS(p))
             cert == IF p.spec.receiverTLS.enabled /\ Stack!ServingReceiver(p) THEN "serving-cert" ELSE "unset"
  <2>1. \/ o = Stack!Workload("distributor", ports, refs)
        \/ o = Stack!ServingService("distributor", "distributor", Stack!distributorPorts(p), cert)
        \/ o = Stack!NewPodDisruptionBudget("distributor") \/ o = Stack!NewConfigMapCABundle("serving-cabundle")
    BY <1>5, Zenon DEF Stack!BuildDistributor, Stack!If
  <2>2. refs \subseteq offer
    BY <1>2, <1>3, Zenon DEF Stack!If
  <2> HIDE DEF ports, refs, cert
  <2> QED BY <1>0, <1>1, <2>1, <2>2, PlainRefs, Zenon
<1>6. ASSUME NEW d \in {"distributor", "ingester", "querier", "compactor", "metrics-generator"}, NEW wports, NEW sports,
             \/ o = Stack!Workload(d, wports, Stack!StoragePod(p, d))
             \/ o = Stack!Service(d, d, sports) \/ o = Stack!NewPodDisruptionBudget(d)
      PROVE  o.refs \subseteq offer
  BY <1>0, <1>1, <1>2, <1>6, PlainRefs, Zenon
<1>7. ASSUME o \in Stack!BuildIngester(p) PROVE o.refs \subseteq offer
  <2> DEFINE wports == {"http-memberlist", "http", "grpc"}
             sports == {"http", "grpc"}
  <2>1. \/ o = Stack!Workload("ingester", wports, Stack!StoragePod(p, "ingester"))
        \/ o = Stack!Service("ingester", "ingester", sports) \/ o = Stack!NewPodDisruptionBudget("ingester")
    BY <1>7, Zenon DEF Stack!BuildIngester
  <2> HIDE DEF wports, sports
  <2> QED BY <1>6, <2>1, Zenon
<1>8. ASSUME o \in Stack!BuildQuerier(p) PROVE o.refs \subseteq offer
  <2> DEFINE wports == {"http", "http-memberlist"}
             sports == {"http-memberlist", "http", "grpc"}
  <2>1. \/ o = Stack!Workload("querier", wports, Stack!StoragePod(p, "querier"))
        \/ o = Stack!Service("querier", "querier", sports) \/ o = Stack!NewPodDisruptionBudget("querier")
    BY <1>8, Zenon DEF Stack!BuildQuerier
  <2> HIDE DEF wports, sports
  <2> QED BY <1>6, <2>1, Zenon
<1>9. ASSUME o \in Stack!BuildCompactor(p) PROVE o.refs \subseteq offer
  <2> DEFINE wports == {"http", "http-memberlist"}
             sports == {"http-memberlist", "http"}
  <2>1. \/ o = Stack!Workload("compactor", wports, Stack!StoragePod(p, "compactor"))
        \/ o = Stack!Service("compactor", "compactor", sports) \/ o = Stack!NewPodDisruptionBudget("compactor")
    BY <1>9, Zenon DEF Stack!BuildCompactor
  <2> HIDE DEF wports, sports
  <2> QED BY <1>6, <2>1, Zenon
<1>10. ASSUME o \in Stack!BuildMetricsGenerator(p) PROVE o.refs \subseteq offer
  <2> DEFINE wports == {"http", "grpc", "http-memberlist"}
             sports == {"http-memberlist", "http", "grpc"}
  <2>1. \/ o = Stack!Workload("metrics-generator", wports, Stack!StoragePod(p, "metrics-generator"))
        \/ o = Stack!Service("metrics-generator", "metrics-generator", sports) \/ o = Stack!NewPodDisruptionBudget("metrics-generator")
    BY <1>10, Zenon DEF Stack!BuildMetricsGenerator
  <2> HIDE DEF wports, sports
  <2> QED BY <1>6, <2>1, Zenon
<1>11. ASSUME o = Stack!BuildConfigMap(p) PROVE o.refs \subseteq offer
  <2>1. \E items : o = [Stack!Object("ConfigMap", "config") EXCEPT !.items = items]
    BY <1>11, Zenon DEF Stack!BuildConfigMap
  <2>2. o.refs = {}
    BY <2>1, StackOthers, StackHolder, StackReferrer
  <2> QED BY <1>0, <2>2
<1>12. ASSUME \/ o = Stack!BuildGossip \/ o \in Stack!BuildDefaultServiceAccount \/ o \in Stack!BuildPrometheusRule
              \/ o \in Stack!BuildGrafanaDatasource
       PROVE  o.refs \subseteq offer
  <2>1. o.refs = {}
    BY <1>12, PlainRefs DEF Stack!BuildGossip, Stack!BuildDefaultServiceAccount, Stack!BuildPrometheusRule,
       Stack!BuildGrafanaDatasource
  <2> QED BY <1>0, <2>1
<1>13. o.refs \subseteq offer
  BY <1>4, <1>5, <1>7, <1>8, <1>9, <1>10, <1>11, <1>12, StackBuilders, Zenon
<1> QED BY <1>13 DEF offer

----------------------------------------------------------------------------
(* The files that are opened, and the ports that are pointed at.           *)

\* CA and client certificate of the storage are mounted wherever they are
\* configured.
LEMMA StorageMounted == ASSUME NEW p, NEW c, SoundStack(p, c)
  PROVE  Stack!buildS3StorageTLSConfig(p) \subseteq Stack!ConfigureStorage(p) \cup KnownUnmounted(p)
<1> DEFINE files == Stack!If(p.spec.storage.ca # "unset", Stack!StorageCA(p)) \cup Stack!If(p.spec.storage.cert, Stack!StorageCert)
<1> SUFFICES ASSUME p.storage.backend = "s3", p.spec.storage.tls
             PROVE  files \subseteq Stack!ConfigureStorage(p) \cup KnownUnmounted(p)
  BY Zenon DEF Stack!buildS3StorageTLSConfig, Stack!If
<1>1. Stack!ConfigureStorage(p) = Stack!ConfigureS3Storage(p)
  BY DEF SoundStack, Stack!ConfigureStorage
<1>2. CASE p.storage.mode = "token"
  BY <1>2, Zenon DEF KnownUnmounted, Stack!If
<1>3. CASE p.storage.mode # "token"
  <2>1. Stack!MountTLSSpecVolumes(p) = files
    BY Zenon DEF Stack!MountTLSSpecVolumes
  <2>2. Stack!MountTLSSpecVolumes(p) \subseteq Stack!ConfigureS3Storage(p)
    BY <1>3, Zenon DEF Stack!ConfigureS3Storage, Stack!If
  <2> QED BY <1>1, <2>1, <2>2, Zenon
<1> QED BY <1>2, <1>3

LEMMA ServerFiles == ASSUME NEW p, NEW d, NEW file
  PROVE  Stack!buildTempoServerTLSConfig(p, d) \subseteq Stack!TempoPod(p, d, file)
  BY Zenon DEF Stack!buildTempoServerTLSConfig, Stack!TempoPod

LEMMA ReceiverFiles == ASSUME NEW p
  PROVE  Stack!buildReceiverTLSConfig(p) \subseteq Stack!If(p.spec.receiverTLS.enabled, Stack!configureReceiversTLS(p))
<1>1. Stack!receiverCert(p) \cup Stack!receiverCA(p) \subseteq Stack!configureReceiversTLS(p)
  <2>1. Stack!ServingReceiver(p) => Stack!receiverCA(p) = {}
    BY Zenon DEF Stack!ServingReceiver, Stack!receiverCA, Stack!If
  <2> QED BY <2>1, Zenon DEF Stack!configureReceiversTLS
<1> QED BY <1>1, Zenon DEF Stack!buildReceiverTLSConfig, Stack!If

\* A workload mounts what the configuration of its component names.
Mounts(p, w) == Stack!FilesOpened(p, w.name) \subseteq w.refs \cup KnownUnmounted(p)

LEMMA StorageWorkload ==
  ASSUME NEW p, NEW c, SoundStack(p, c), NEW ports,
         NEW d \in {"ingester", "querier", "compactor", "metrics-generator"}
  PROVE  Mounts(p, Stack!Workload(d, ports, Stack!StoragePod(p, d)))
<1> DEFINE w == Stack!Workload(d, ports, Stack!StoragePod(p, d))
<1>1. w.name = d /\ w.refs = Stack!TempoPod(p, d, "tempo.yaml") \cup Stack!ConfigureStorage(p)
  BY StackWorkload DEF Stack!StoragePod
<1>2. Stack!FilesOpened(p, d) = Stack!buildTempoServerTLSConfig(p, d) \cup Stack!buildS3StorageTLSConfig(p)
  BY DEF Stack!FilesOpened
<1> HIDE DEF w
<1>3. Mounts(p, w)
  BY <1>1, <1>2, ServerFiles, StorageMounted, Zenon DEF Mounts
<1> QED BY <1>3 DEF w

LEMMA DistributorMounts ==
  ASSUME NEW p, NEW ports
  PROVE  Mounts(p, Stack!Workload("distributor", ports, Stack!TempoPod(p, "distributor", "tempo.yaml")
                                    \cup Stack!If(p.spec.receiverTLS.enabled, Stack!configureReceiversTLS(p))))
<1> DEFINE refs == Stack!TempoPod(p, "distributor", "tempo.yaml")
                     \cup Stack!If(p.spec.receiverTLS.enabled, Stack!configureReceiversTLS(p))
           w == Stack!Workload("distributor", ports, refs)
<1>1. Stack!FilesOpened(p, "distributor") = Stack!buildTempoServerTLSConfig(p, "distributor") \cup Stack!buildReceiverTLSConfig(p)
  BY DEF Stack!FilesOpened
<1>2. Stack!FilesOpened(p, "distributor") \subseteq refs
  BY <1>1, ServerFiles, ReceiverFiles, Zenon
<1> HIDE DEF refs
<1>3. w.name = "distributor" /\ w.refs = refs
  BY StackWorkload
<1> HIDE DEF w
<1>4. Mounts(p, w)
  BY <1>2, <1>3, Zenon DEF Mounts
<1> QED BY <1>4 DEF w, refs

LEMMA FrontendMounts == ASSUME NEW p, NEW c, SoundStack(p, c)
  PROVE  LET w == Stack!frontendDeployment(p) IN
         /\ Mounts(p, w) /\ w.kind = "Workload" /\ w.name = "query-frontend"
         /\ w.ports = {"http", "grpc"} \cup Stack!JaegerPorts(p) \cup Stack!If(p.spec.jaeger.enabled, {"proxy-grpc"})
                        \cup Stack!If(Stack!OAuth(p), {"oauth-proxy"})
<1> DEFINE ports == {"http", "grpc"} \cup Stack!JaegerPorts(p) \cup Stack!If(p.spec.jaeger.enabled, {"proxy-grpc"})
                      \cup Stack!If(Stack!OAuth(p), {"oauth-proxy"})
           refs == (Stack!TempoPod(p, "query-frontend", "tempo-query-frontend.yaml") \ {Stack!RunsAs(Stack!SpecSA(p))})
                     \cup {Stack!RunsAs(Stack!FrontendSA(p))} \cup Stack!ConfigureStorage(p)
                     \cup Stack!If(p.spec.jaeger.enabled, {Stack!ConfigRef("tempo-query.yaml")})
                     \cup Stack!If(Stack!OAuth(p), {<<"Secret", "ui-oauth-proxy-tls", "tls.crt">>})
           w == Stack!frontendDeployment(p)
<1>1. w = Stack!Workload("query-frontend", ports, refs)
  BY Zenon DEF Stack!frontendDeployment
<1>2. Stack!FilesOpened(p, "query-frontend")
        = Stack!buildTempoServerTLSConfig(p, "query-frontend") \cup Stack!buildS3StorageTLSConfig(p)
  BY DEF Stack!FilesOpened
<1>3. Stack!buildTempoServerTLSConfig(p, "query-frontend") \subseteq refs
  <2>1. \A r \in Stack!buildTempoServerTLSConfig(p, "query-frontend") : r[1] # "ServiceAccount"
    BY DEF Stack!buildTempoServerTLSConfig, Stack!ConfigureServiceCA, Stack!ConfigureServicePKI, Stack!If
  <2>2. Stack!RunsAs(Stack!SpecSA(p))[1] = "ServiceAccount"
    BY DEF Stack!RunsAs
  <2>3. Stack!RunsAs(Stack!SpecSA(p)) \notin Stack!buildTempoServerTLSConfig(p, "query-frontend")
    BY <2>1, <2>2, Zenon
  <2> QED BY <2>3, ServerFiles, Zenon
<1>4. Stack!buildS3StorageTLSConfig(p) \subseteq refs \cup KnownUnmounted(p)
  BY StorageMounted, Zenon
<1> HIDE DEF refs, ports, w
<1>5. w.kind = "Workload" /\ w.name = "query-frontend" /\ w.ports = ports /\ w.refs = refs
  BY <1>1, StackWorkload
<1>6. Mounts(p, w)
  BY <1>2, <1>3, <1>4, <1>5, Zenon DEF Mounts
<1> QED BY <1>5, <1>6, Zenon DEF w, ports

LEMMA GatewayMounts == ASSUME NEW p
  PROVE  LET w == Stack!gatewayDeployment(p) IN
         /\ Mounts(p, w) /\ w.kind = "Workload" /\ w.name = "gateway"
         /\ {"grpc-public", "internal", "public"} \subseteq w.ports
<1> DEFINE ports == {"grpc-public", "internal", "public"} \cup Stack!If(Stack!OpenShiftTenants(p), {"opa-http", "opa-metrics"})
           refs == {<<"ConfigMap", "gateway", "rbac.yaml">>, <<"Secret", "gateway", "tenants.yaml">>,
                    Stack!RunsAs(IF Stack!OpenShiftTenants(p) THEN "gateway" ELSE Stack!SpecSA(p))}
                     \cup Stack!ConfigureServiceCA(p) \cup Stack!ConfigureServicePKI(p, "gateway")
                     \cup Stack!If(Stack!ServingGateway(p), Stack!patchOCPServingCerts)
           w == Stack!gatewayDeployment(p)
<1>1. w = Stack!Workload("gateway", ports, refs)
  BY Zenon DEF Stack!gatewayDeployment
<1>2. Stack!FilesOpened(p, "gateway") \subseteq Stack!buildTempoServerTLSConfig(p, "gateway")
  BY DEF Stack!FilesOpened, Stack!If
<1>3. Stack!buildTempoServerTLSConfig(p, "gateway") \subseteq refs
  BY Zenon DEF Stack!buildTempoServerTLSConfig
<1>4. {"grpc-public", "internal", "public"} \subseteq ports
  BY Zenon
<1> HIDE DEF refs, ports, w
<1>5. w.kind = "Workload" /\ w.name = "gateway" /\ w.ports = ports /\ w.refs = refs
  BY <1>1, StackWorkload
<1>6. Mounts(p, w)
  BY <1>2, <1>3, <1>5, Zenon DEF Mounts
<1> QED BY <1>4, <1>5, <1>6, Zenon DEF w

\* Every target port of a Service is a port of the workload it selects, and
\* what points at a Service points at one of its ports.
Backed(p, o) ==
  /\ o.kind = "Service"
  /\ \A n \in o.ports : \/ <<o.name, n>> \in KnownDangling
                       \/ \E t \in Stack!BuildAll(p) : t.kind = "Workload" /\ t.name = o.selects /\ n \in t.ports
Routed(p, o) ==
  /\ o.kind \notin {"Workload", "Service"}
  /\ \A n \in o.ports : \E t \in Stack!BuildAll(p) : t.kind = "Service" /\ t.name = o.selects /\ n \in t.ports
Fits(p, o) == (o.kind = "Workload" /\ Mounts(p, o)) \/ Backed(p, o) \/ Routed(p, o)

LEMMA BackedBy ==
  ASSUME NEW p, NEW t \in Stack!BuildAll(p), t.kind = "Workload", NEW o, o.kind = "Service", t.name = o.selects,
         \A n \in o.ports : <<o.name, n>> \in KnownDangling \/ n \in t.ports
  PROVE  Fits(p, o)
  BY Zenon DEF Fits, Backed

LEMMA RoutedTo ==
  ASSUME NEW p, NEW t \in Stack!BuildAll(p), t.kind = "Service", NEW o, o.kind \notin {"Workload", "Service"},
         t.name = o.selects, o.ports \subseteq t.ports
  PROVE  Fits(p, o)
  BY Zenon DEF Fits, Routed

LEMMA PointsNowhere == ASSUME NEW p, NEW o, o.kind \notin {"Workload", "Service"}, o.ports = {} PROVE Fits(p, o)
  BY DEF Fits, Routed

LEMMA PlainFits == ASSUME NEW p, NEW kind, kind \notin {"Workload", "Service"}, NEW name, NEW o,
                         \/ \E x : o = [Stack!Object(kind, name) EXCEPT !.items = x]
                         \/ \E x : o = [Stack!Object(kind, name) EXCEPT !.refs = x]
                         \/ o = Stack!Object(kind, name)
  PROVE  Fits(p, o)
<1>1. o.kind = kind /\ o.ports = {}
  <2>1. ASSUME NEW x, o = [Stack!Object(kind, name) EXCEPT !.items = x] PROVE o.kind = kind /\ o.ports = {}
    BY <2>1, StackHolder
  <2>2. ASSUME NEW x, o = [Stack!Object(kind, name) EXCEPT !.refs = x] PROVE o.kind = kind /\ o.ports = {}
    BY <2>2, StackReferrer
  <2>3. ASSUME o = Stack!Object(kind, name) PROVE o.kind = kind /\ o.ports = {}
    BY <2>3, StackObject
  <2> QED BY <2>1, <2>2, <2>3, Zenon
<1> QED BY <1>1, PointsNowhere, Zenon

LEMMA BundleFits == ASSUME NEW p, NEW name PROVE Fits(p, Stack!NewConfigMapCABundle(name))
<1> DEFINE o == Stack!NewConfigMapCABundle(name)
<1>1. o.kind \notin {"Workload", "Service"} /\ o.ports = {}
  BY StackOthers
<1> HIDE DEF o
<1>2. Fits(p, o)
  BY <1>1, PointsNowhere, Zenon
<1> QED BY <1>2 DEF o

LEMMA BudgetFits == ASSUME NEW p, NEW d PROVE Fits(p, Stack!NewPodDisruptionBudget(d))
<1> DEFINE o == Stack!NewPodDisruptionBudget(d)
<1>1. o.kind \notin {"Workload", "Service"} /\ o.ports = {}
  BY StackOthers, StackHolder, StackReferrer
<1> HIDE DEF o
<1>2. Fits(p, o)
  BY <1>1, PointsNowhere, Zenon
<1> QED BY <1>2 DEF o

\* The components whose pods differ in their storage and ports only.
LEMMA ComponentFits ==
  ASSUME NEW p, NEW c, SoundStack(p, c), NEW d \in {"ingester", "querier", "compactor", "metrics-generator"},
         NEW wports, NEW sports, \A n \in sports : <<d, n>> \in KnownDangling \/ n \in wports,
         Stack!Workload(d, wports, Stack!StoragePod(p, d)) \in Stack!BuildAll(p),
         NEW o, \/ o = Stack!Workload(d, wports, Stack!StoragePod(p, d))
                \/ o = Stack!Service(d, d, sports) \/ o = Stack!NewPodDisruptionBudget(d)
  PROVE  Fits(p, o)
<1> DEFINE work == Stack!Workload(d, wports, Stack!StoragePod(p, d))
<1>1. work \in Stack!BuildAll(p) /\ Mounts(p, work)
  BY StorageWorkload
<1>2. work.kind = "Workload" /\ work.name = d /\ work.ports = wports
  BY StackWorkload
<1> HIDE DEF work
<1>3. ASSUME o = work PROVE Fits(p, o)
  BY <1>1, <1>2, <1>3, Zenon DEF Fits
<1>4. ASSUME o = Stack!Service(d, d, sports) PROVE Fits(p, o)
  <2>1. o.kind = "Service" /\ o.name = d /\ o.selects = d /\ o.ports = sports
    BY <1>4, StackService
  <2> QED BY <1>1, <1>2, <2>1, BackedBy, Zenon
<1> QED BY <1>3, <1>4, BudgetFits, Zenon DEF work

LEMMA IngesterFits == ASSUME NEW p, NEW c, SoundStack(p, c), NEW o \in Stack!BuildIngester(p), Stack!BuildIngester(p) \subseteq Stack!BuildAll(p)
  PROVE  Fits(p, o)
<1> DEFINE wports == {"http-memberlist", "http", "grpc"}
           sports == {"http", "grpc"}
           d == "ingester"
           work == Stack!Workload(d, wports, Stack!StoragePod(p, d))
<1>1. /\ o = work \/ o = Stack!Service(d, d, sports) \/ o = Stack!NewPodDisruptionBudget(d)
      /\ work \in Stack!BuildAll(p)
  BY Zenon DEF Stack!BuildIngester
<1>2. \A n \in sports : <<d, n>> \in KnownDangling \/ n \in wports
  BY DEF KnownDangling
<1>3. d \in {"ingester", "querier", "compactor", "metrics-generator"}
  OBVIOUS
<1> HIDE DEF wports, sports, d
<1> QED BY <1>1, <1>2, <1>3, ComponentFits, Zenon

LEMMA QuerierFits == ASSUME NEW p, NEW c, SoundStack(p, c), NEW o \in Stack!BuildQuerier(p), Stack!BuildQuerier(p) \subseteq Stack!BuildAll(p)
  PROVE  Fits(p, o)
<1> DEFINE wports == {"http", "http-memberlist"}
           sports == {"http-memberlist", "http", "grpc"}
           d == "querier"
           work == Stack!Workload(d, wports, Stack!StoragePod(p, d))
<1>1. /\ o = work \/ o = Stack!Service(d, d, sports) \/ o = Stack!NewPodDisruptionBudget(d)
      /\ work \in Stack!BuildAll(p)
  BY Zenon DEF Stack!BuildQuerier
<1>2. \A n \in sports : <<d, n>> \in KnownDangling \/ n \in wports
  BY DEF KnownDangling
<1>3. d \in {"ingester", "querier", "compactor", "metrics-generator"}
  OBVIOUS
<1> HIDE DEF wports, sports, d
<1> QED BY <1>1, <1>2, <1>3, ComponentFits, Zenon

LEMMA CompactorFits == ASSUME NEW p, NEW c, SoundStack(p, c), NEW o \in Stack!BuildCompactor(p), Stack!BuildCompactor(p) \subseteq Stack!BuildAll(p)
  PROVE  Fits(p, o)
<1> DEFINE wports == {"http", "http-memberlist"}
           sports == {"http-memberlist", "http"}
           d == "compactor"
           work == Stack!Workload(d, wports, Stack!StoragePod(p, d))
<1>1. /\ o = work \/ o = Stack!Service(d, d, sports) \/ o = Stack!NewPodDisruptionBudget(d)
      /\ work \in Stack!BuildAll(p)
  BY Zenon DEF Stack!BuildCompactor
<1>2. \A n \in sports : <<d, n>> \in KnownDangling \/ n \in wports
  BY DEF KnownDangling
<1>3. d \in {"ingester", "querier", "compactor", "metrics-generator"}
  OBVIOUS
<1> HIDE DEF wports, sports, d
<1> QED BY <1>1, <1>2, <1>3, ComponentFits, Zenon

LEMMA GeneratorFits == ASSUME NEW p, NEW c, SoundStack(p, c), NEW o \in Stack!BuildMetricsGenerator(p), Stack!BuildMetricsGenerator(p) \subseteq Stack!BuildAll(p)
  PROVE  Fits(p, o)
<1> DEFINE wports == {"http", "grpc", "http-memberlist"}
           sports == {"http-memberlist", "http", "grpc"}
           d == "metrics-generator"
           work == Stack!Workload(d, wports, Stack!StoragePod(p, d))
<1>1. /\ o = work \/ o = Stack!Service(d, d, sports) \/ o = Stack!NewPodDisruptionBudget(d)
      /\ work \in Stack!BuildAll(p)
  BY Zenon DEF Stack!BuildMetricsGenerator
<1>2. \A n \in sports : <<d, n>> \in KnownDangling \/ n \in wports
  BY DEF KnownDangling
<1>3. d \in {"ingester", "querier", "compactor", "metrics-generator"}
  OBVIOUS
<1> HIDE DEF wports, sports, d
<1> QED BY <1>1, <1>2, <1>3, ComponentFits, Zenon

\* The distributor, and the Service of the ring that selects it.
LEMMA DistributorFits ==
  ASSUME NEW p, NEW o, o \in Stack!BuildDistributor(p) \/ o = Stack!BuildGossip
  PROVE  Fits(p, o)
<1> DEFINE all == Stack!BuildAll(p)
           sports == Stack!distributorPorts(p)
           wports == sports \cup {"http-memberlist"}
           refs == Stack!TempoPod(p, "distributor", "tempo.yaml")
                     \cup Stack!If(p.spec.receiverTLS.enabled, Stack!configureReceiversTLS(p))
           work == Stack!Workload("distributor", wports, refs)
           cert == IF p.spec.receiverTLS.enabled /\ Stack!ServingReceiver(p) THEN "serving-cert" ELSE "unset"
<1>1. work \in all
  <2>1. work \in Stack!BuildDistributor(p)
    BY Zenon DEF Stack!BuildDistributor
  <2> QED BY <2>1, StackParts, Zenon
<1>2. Mounts(p, work)
  BY DistributorMounts, Zenon
<1>3. \/ o = work \/ o = Stack!ServingService("distributor", "distributor", sports, cert)
      \/ o = Stack!NewPodDisruptionBudget("distributor") \/ o = Stack!NewConfigMapCABundle("serving-cabundle")
      \/ o = Stack!Service("gossip-ring", "distributor", {"http-memberlist"})
  BY Zenon DEF Stack!BuildDistributor, Stack!If, Stack!BuildGossip
<1>4. sports \subseteq wports /\ {"http-memberlist"} \subseteq wports
  BY Zenon
<1> HIDE DEF refs, wports, sports, cert
<1>5. work.kind = "Workload" /\ work.name = "distributor" /\ work.ports = wports
  BY StackWorkload
<1> HIDE DEF work
<1>6. ASSUME o = Stack!ServingService("distributor", "distributor", sports, cert) PROVE Fits(p, o)
  <2>1. o.kind = "Service" /\ o.selects = "distributor" /\ o.ports = sports
    BY <1>6, StackServing
  <2> QED BY <1>1, <1>4, <1>5, <2>1, BackedBy, Zenon
<1>7. ASSUME o = Stack!Service("gossip-ring", "distributor", {"http-memberlist"}) PROVE Fits(p, o)
  <2>1. o.kind = "Service" /\ o.selects = "distributor" /\ o.ports = {"http-memberlist"}
    BY <1>7, StackService
  <2> QED BY <1>1, <1>4, <1>5, <2>1, BackedBy, Zenon
<1>8. ASSUME o = Stack!NewConfigMapCABundle("serving-cabundle") PROVE Fits(p, o)
  <2>1. o.kind \notin {"Workload", "Service"} /\ o.ports = {}
    BY <1>8, StackOthers, StackHolder, StackReferrer
  <2> QED BY <2>1, PointsNowhere, Zenon
<1> QED BY <1>2, <1>3, <1>5, <1>6, <1>7, <1>8, BudgetFits, Zenon DEF Fits
\* The query-frontend, and what exposes its UI.
LEMMA FrontendFits ==
  ASSUME NEW p, NEW c, SoundStack(p, c), NEW o \in Stack!BuildQueryFrontend(p)
  PROVE  Fits(p, o)
<1> DEFINE all == Stack!BuildAll(p)
           work == Stack!frontendDeployment(p)
           wports == {"http", "grpc"} \cup Stack!JaegerPorts(p) \cup Stack!If(p.spec.jaeger.enabled, {"proxy-grpc"})
                       \cup Stack!If(Stack!OAuth(p), {"oauth-proxy"})
           sports == {"http", "grpc"} \cup Stack!JaegerPorts(p) \cup Stack!If(Stack!OAuth(p), {"oauth-proxy"})
           dports == {"http", "grpc", "grpclb"} \cup Stack!JaegerPorts(p)
           cert == IF Stack!OAuth(p) THEN "ui-oauth-proxy-tls" ELSE "unset"
           service == Stack!ServingService("query-frontend", "query-frontend", sports, cert)
<1>0. Stack!BuildQueryFrontend(p) \subseteq all
  BY StackParts, Zenon
<1>1. work \in all /\ service \in all
  BY <1>0, Zenon DEF Stack!BuildQueryFrontend, Stack!frontendServices
<1>2. \/ o = work \/ o = service \/ o = Stack!Service("query-frontend-discovery", "query-frontend", dports)
      \/ o \in Stack!frontendIngress(p) \/ o = Stack!NewPodDisruptionBudget("query-frontend")
      \/ o \in Stack!openShiftMonitoringRBAC(p)
  BY Zenon DEF Stack!BuildQueryFrontend, Stack!frontendServices, Stack!If
<1>3. Mounts(p, work) /\ work.kind = "Workload" /\ work.name = "query-frontend" /\ work.ports = wports
  BY FrontendMounts, Zenon
<1>4. /\ sports \subseteq wports
      /\ \A n \in dports : <<"query-frontend-discovery", n>> \in KnownDangling \/ n \in wports
      /\ Stack!OAuth(p) => "oauth-proxy" \in sports
      /\ p.spec.jaeger.enabled => "jaeger-ui" \in sports
  <2>1. <<"query-frontend-discovery", "grpclb">> \in KnownDangling
    BY DEF KnownDangling
  <2> QED BY <2>1, Zenon DEF Stack!If, Stack!JaegerPorts
<1> HIDE DEF work, wports, sports, dports, cert
<1>5. service.kind = "Service" /\ service.name = "query-frontend" /\ service.selects = "query-frontend" /\ service.ports = sports
  BY StackServing
<1> HIDE DEF service
<1>6. ASSUME o = service PROVE Fits(p, o)
  BY <1>1, <1>3, <1>4, <1>5, <1>6, BackedBy, Zenon
<1>7. ASSUME o = Stack!Service("query-frontend-discovery", "query-frontend", dports) PROVE Fits(p, o)
  <2>1. o.kind = "Service" /\ o.name = "query-frontend-discovery" /\ o.selects = "query-frontend" /\ o.ports = dports
    BY <1>7, StackService
  <2> QED BY <1>1, <1>3, <1>4, <2>1, BackedBy, Zenon
<1>8. ASSUME NEW kind \in {"Ingress", "Route"}, NEW port \in sports, o = Stack!Exposed(kind, "query-frontend", port) PROVE Fits(p, o)
  <2>1. o.kind \notin {"Workload", "Service"} /\ o.selects = "query-frontend" /\ o.ports = {port}
    BY <1>8, StackExposed
  <2>2. o.ports \subseteq service.ports
    BY <1>5, <2>1, Zenon
  <2> QED BY <1>1, <1>5, <2>1, <2>2, RoutedTo, Zenon
<1>9. ASSUME o \in Stack!frontendIngress(p) PROVE Fits(p, o)
  <2>1. CASE o = Stack!Object("ServiceAccount", "query-frontend")
    <3>1. o.kind \notin {"Workload", "Service"} /\ o.ports = {}
      BY <2>1, StackObject
    <3> QED BY <3>1, PointsNowhere, Zenon
  <2>2. CASE o # Stack!Object("ServiceAccount", "query-frontend")
    <3> DEFINE port == IF Stack!OAuth(p) THEN "oauth-proxy" ELSE "jaeger-ui"
    <3>1. /\ p.spec.jaeger.ingress \in {"ingress", "route"}
          /\ o = Stack!Exposed("Ingress", "query-frontend", "jaeger-ui") \/ o = Stack!Exposed("Route", "query-frontend", port)
      <4> HIDE DEF port
      <4> QED BY <1>9, <2>2 DEF Stack!frontendIngress, Stack!If, port
    <3>2. "jaeger-ui" \in sports /\ port \in sports
      BY <1>4, <3>1, Zenon DEF SoundStack
    <3> HIDE DEF port
    <3> QED BY <1>8, <3>1, <3>2
  <2> QED BY <2>1, <2>2
<1>10. ASSUME o \in Stack!openShiftMonitoringRBAC(p) PROVE Fits(p, o)
  <2>1. \/ o = Stack!Object("Role", "metrics-reader")
        \/ \E refs : o = [Stack!Object("RoleBinding", "metrics-reader") EXCEPT !.refs = refs]
    BY <1>10, Zenon DEF Stack!openShiftMonitoringRBAC
  <2>2. o.kind \notin {"Workload", "Service"} /\ o.ports = {}
    BY <2>1 DEF Stack!Object
  <2> QED BY <2>2, PointsNowhere, Zenon
<1> QED BY <1>2, <1>3, <1>6, <1>7, <1>9, <1>10, BudgetFits, Zenon DEF Fits

\* The gateway.
LEMMA GatewayFits ==
  ASSUME NEW p, p.spec.gateway.enabled, NEW o \in Stack!BuildGateway(p)
  PROVE  Fits(p, o)
<1> DEFINE all == Stack!BuildAll(p)
           work == Stack!gatewayDeployment(p)
           sports == {"grpc-public", "internal", "public"}
           cert == IF p.gates.servingCerts THEN "gateway-tls" ELSE "unset"
           service == Stack!ServingService("gateway", "gateway", sports, cert)
<1>0. Stack!BuildGateway(p) \subseteq all
  BY StackParts, Zenon
<1>1. work \in all /\ service \in all
  BY <1>0, Zenon DEF Stack!BuildGateway
<1>2. Mounts(p, work) /\ work.kind = "Workload" /\ work.name = "gateway" /\ sports \subseteq work.ports
  BY GatewayMounts, Zenon
<1>3. \/ o = work \/ o = service
      \/ o = Stack!Exposed("Ingress", "gateway", "public") \/ o = Stack!Exposed("Route", "gateway", "public")
      \/ o = [Stack!Object("ConfigMap", "gateway") EXCEPT !.items = {"rbac.yaml"}]
      \/ o = [Stack!Object("Secret", "gateway") EXCEPT !.items = {"tenants.yaml"}]
      \/ o = Stack!NewPodDisruptionBudget("gateway") \/ o = Stack!NewConfigMapCABundle("gateway-cabundle")
      \/ o \in Stack!AccessReviewRBAC
  BY Zenon DEF Stack!BuildGateway, Stack!If
<1>4. "public" \in sports
  OBVIOUS
<1> HIDE DEF work, cert, sports
<1>5. service.kind = "Service" /\ service.name = "gateway" /\ service.selects = "gateway" /\ service.ports = sports
  BY StackServing
<1> HIDE DEF service
<1>6. ASSUME o = service PROVE Fits(p, o)
  BY <1>1, <1>2, <1>5, <1>6, BackedBy, Zenon
<1>7. ASSUME NEW kind \in {"Ingress", "Route"}, o = Stack!Exposed(kind, "gateway", "public") PROVE Fits(p, o)
  <2>1. o.kind \notin {"Workload", "Service"} /\ o.selects = "gateway" /\ o.ports = {"public"}
    BY <1>7, StackExposed
  <2>2. o.ports \subseteq service.ports
    BY <1>4, <1>5, <2>1, Zenon
  <2> QED BY <1>1, <1>5, <2>1, <2>2, RoutedTo, Zenon
<1>8. ASSUME \/ o = [Stack!Object("ConfigMap", "gateway") EXCEPT !.items = {"rbac.yaml"}]
             \/ o = [Stack!Object("Secret", "gateway") EXCEPT !.items = {"tenants.yaml"}]
             \/ o = Stack!NewConfigMapCABundle("gateway-cabundle")
             \/ o \in Stack!AccessReviewRBAC
      PROVE  Fits(p, o)
  <2>0. \A kind \in {"ConfigMap", "Secret", "ClusterRole", "ServiceAccount", "ClusterRoleBinding"} : kind \notin {"Workload", "Service"}
    OBVIOUS
  <2>1. ASSUME o \in Stack!AccessReviewRBAC PROVE Fits(p, o)
    <3>1. \/ o = Stack!Object("ClusterRole", "gateway") \/ o = Stack!Object("ServiceAccount", "gateway")
          \/ \E x : o = [Stack!Object("ClusterRoleBinding", "gateway") EXCEPT !.refs = x]
      BY <2>1, Zenon DEF Stack!AccessReviewRBAC
    <3> QED BY <2>0, <3>1, PlainFits, Zenon
  <2>2. ASSUME \/ \E x : o = [Stack!Object("ConfigMap", "gateway") EXCEPT !.items = x]
               \/ \E x : o = [Stack!Object("Secret", "gateway") EXCEPT !.items = x]
        PROVE  Fits(p, o)
    BY <2>0, <2>2, PlainFits, Zenon
  <2>3. o \in Stack!AccessReviewRBAC \/ o = Stack!NewConfigMapCABundle("gateway-cabundle") => Fits(p, o)
    BY <2>1, BundleFits, Zenon
  <2> QED BY <1>8, <2>2, <2>3
<1>9. (o = Stack!Exposed("Ingress", "gateway", "public") \/ o = Stack!Exposed("Route", "gateway", "public")) => Fits(p, o)
  BY <1>7
<1>10. o = Stack!NewPodDisruptionBudget("gateway") => Fits(p, o)
  BY BudgetFits, Zenon
<1>11. o = work => Fits(p, o)
  BY <1>2, Zenon DEF Fits
<1> QED BY <1>3, <1>6, <1>8, <1>9, <1>10, <1>11, Zenon

\* What scrapes and reads the components.
LEMMA ScrapedFits ==
  ASSUME NEW p, NEW o, \/ o \in Stack!BuildServiceMonitors(p) \/ o \in Stack!BuildGrafanaDatasource
  PROVE  Fits(p, o)
<1> DEFINE all == Stack!BuildAll(p)
<1>0. /\ Stack!BuildDistributor(p) \subseteq all /\ Stack!BuildIngester(p) \subseteq all /\ Stack!BuildQueryFrontend(p) \subseteq all
      /\ Stack!BuildQuerier(p) \subseteq all /\ Stack!BuildCompactor(p) \subseteq all
      /\ p.spec.gateway.enabled => Stack!BuildGateway(p) \subseteq all
  BY StackParts, Zenon
<1>1. ASSUME NEW d, NEW ports, NEW n \in ports,
             \/ \E cert : Stack!ServingService(d, d, ports, cert) \in all
             \/ Stack!Service(d, d, ports) \in all,
             o.kind \notin {"Workload", "Service"}, o.selects = d, o.ports = {n}
      PROVE  Fits(p, o)
  <2>1. PICK t \in all : \/ \E cert : t = Stack!ServingService(d, d, ports, cert) \/ t = Stack!Service(d, d, ports)
    BY <1>1, Zenon
  <2>2. t.kind = "Service" /\ t.name = d /\ t.ports = ports
    BY <2>1, StackService, StackServing
  <2>3. o.ports \subseteq t.ports
    BY <1>1, <2>2, Zenon
  <2> QED BY <1>1, <2>1, <2>2, <2>3, RoutedTo, Zenon
<1>2. /\ \E ports, cert : "http" \in ports /\ Stack!ServingService("query-frontend", "query-frontend", ports, cert) \in all
      /\ \E ports, cert : "http" \in ports /\ Stack!ServingService("distributor", "distributor", ports, cert) \in all
      /\ \E ports : "http" \in ports /\ Stack!Service("ingester", "ingester", ports) \in all
      /\ \E ports : "http" \in ports /\ Stack!Service("querier", "querier", ports) \in all
      /\ \E ports : "http" \in ports /\ Stack!Service("compactor", "compactor", ports) \in all
      /\ p.spec.gateway.enabled =>
           \E ports, cert : "internal" \in ports /\ Stack!ServingService("gateway", "gateway", ports, cert) \in all
  <2> DEFINE fports == {"http", "grpc"} \cup Stack!JaegerPorts(p) \cup Stack!If(Stack!OAuth(p), {"oauth-proxy"})
             fcert == IF Stack!OAuth(p) THEN "ui-oauth-proxy-tls" ELSE "unset"
             dports == Stack!distributorPorts(p)
             dcert == IF p.spec.receiverTLS.enabled /\ Stack!ServingReceiver(p) THEN "serving-cert" ELSE "unset"
             gports == {"grpc-public", "internal", "public"}
             gcert == IF p.gates.servingCerts THEN "gateway-tls" ELSE "unset"
             qports == {"http-memberlist", "http", "grpc"}
             cports == {"http-memberlist", "http"}
             iports == {"http", "grpc"}
  <2>1. /\ Stack!ServingService("query-frontend", "query-frontend", fports, fcert) \in all
        /\ Stack!ServingService("distributor", "distributor", dports, dcert) \in all
        /\ Stack!Service("ingester", "ingester", iports) \in all /\ Stack!Service("querier", "querier", qports) \in all
        /\ Stack!Service("compactor", "compactor", cports) \in all
    <3> HIDE DEF all
    <3> QED BY <1>0, Zenon DEF Stack!BuildQueryFrontend, Stack!frontendServices, Stack!BuildDistributor, Stack!BuildIngester,
               Stack!BuildQuerier, Stack!BuildCompactor
  <2>2. p.spec.gateway.enabled => Stack!ServingService("gateway", "gateway", gports, gcert) \in all
    <3> HIDE DEF all
    <3> QED BY <1>0, Zenon DEF Stack!BuildGateway
  <2>3. /\ "http" \in fports /\ "http" \in dports /\ "http" \in iports /\ "http" \in qports /\ "http" \in cports
        /\ "internal" \in gports
    BY Zenon DEF Stack!distributorPorts
  <2> HIDE DEF all, fports, fcert, dports, dcert, gports, gcert, qports, cports, iports
  <2> QED BY <2>1, <2>2, <2>3, Zenon
<1> HIDE DEF all
<1>3. ASSUME o \in Stack!BuildServiceMonitors(p) PROVE Fits(p, o)
  <2>1. PICK d \in Stack!Monitored(p) : o = Stack!newServiceMonitor(p, d)
    BY <1>3, Zenon DEF Stack!BuildServiceMonitors
  <2>2. PICK refs : o = [Stack!Exposed("ServiceMonitor", d, Stack!ScrapedPort(d)) EXCEPT !.refs = refs]
    BY <2>1, Zenon DEF Stack!newServiceMonitor
  <2>3. o.kind \notin {"Workload", "Service"} /\ o.selects = d /\ o.ports = {Stack!ScrapedPort(d)}
    BY <2>2 DEF Stack!Exposed, Stack!Object
  <2>4. \/ d \in {"compactor", "distributor", "ingester", "querier", "query-frontend"} /\ Stack!ScrapedPort(d) = "http"
        \/ d = "gateway" /\ p.spec.gateway.enabled /\ Stack!ScrapedPort(d) = "internal"
    BY DEF Stack!Monitored, Stack!ScrapedPort, Stack!If
  <2>5. d \in {"compactor", "distributor", "ingester", "querier", "query-frontend"} =>
          \/ d = "compactor" \/ d = "distributor" \/ d = "ingester" \/ d = "querier" \/ d = "query-frontend"
    OBVIOUS
  <2> QED BY <1>1, <1>2, <2>3, <2>4, <2>5, Zenon
<1>4. ASSUME o \in Stack!BuildGrafanaDatasource PROVE Fits(p, o)
  <2>1. o = Stack!Exposed("GrafanaDatasource", "query-frontend", "http")
    BY <1>4, Zenon DEF Stack!BuildGrafanaDatasource
  <2>2. o.kind \notin {"Workload", "Service"} /\ o.selects = "query-frontend" /\ o.ports = {"http"}
    BY <2>1, StackExposed
  <2> QED BY <1>1, <1>2, <2>2, Zenon
<1> QED BY <1>3, <1>4

\* Every object of a stack fits.
LEMMA StackFits == ASSUME NEW p, NEW c, SoundStack(p, c), NEW o \in Stack!BuildAll(p) PROVE Fits(p, o)
<1>1. \A kind \in {"ConfigMap", "ServiceAccount", "PrometheusRule"} : kind \notin {"Workload", "Service"}
  OBVIOUS
<1>2. ASSUME o = Stack!BuildConfigMap(p) PROVE Fits(p, o)
  <2>1. \E items : o = [Stack!Object("ConfigMap", "config") EXCEPT !.items = items]
    BY <1>2, Zenon DEF Stack!BuildConfigMap
  <2> QED BY <1>1, <2>1, PlainFits, Zenon
<1>3. ASSUME o \in Stack!BuildDefaultServiceAccount \/ o \in Stack!BuildPrometheusRule PROVE Fits(p, o)
  BY <1>1, <1>3, PlainFits, Zenon DEF Stack!BuildDefaultServiceAccount, Stack!BuildPrometheusRule
<1>4. /\ Stack!BuildIngester(p) \subseteq Stack!BuildAll(p) /\ Stack!BuildQuerier(p) \subseteq Stack!BuildAll(p)
      /\ Stack!BuildCompactor(p) \subseteq Stack!BuildAll(p)
      /\ p.spec.generator.enabled => Stack!BuildMetricsGenerator(p) \subseteq Stack!BuildAll(p)
  BY StackParts, Zenon
<1>5. /\ o \in Stack!BuildIngester(p) \/ o \in Stack!BuildQuerier(p) \/ o \in Stack!BuildCompactor(p) => Fits(p, o)
      /\ p.spec.generator.enabled /\ o \in Stack!BuildMetricsGenerator(p) => Fits(p, o)
  BY <1>4, IngesterFits, QuerierFits, CompactorFits, GeneratorFits, Zenon
<1>6. /\ o \in Stack!BuildDistributor(p) \/ o = Stack!BuildGossip => Fits(p, o)
      /\ o \in Stack!BuildQueryFrontend(p) => Fits(p, o)
      /\ p.spec.gateway.enabled /\ o \in Stack!BuildGateway(p) => Fits(p, o)
      /\ o \in Stack!BuildServiceMonitors(p) \/ o \in Stack!BuildGrafanaDatasource => Fits(p, o)
  BY DistributorFits, FrontendFits, GatewayFits, ScrapedFits, Zenon
<1> QED BY <1>2, <1>3, <1>5, <1>6, StackBuilders, Zenon

----------------------------------------------------------------------------
(* TempoMonolithic.                                                        *)

LEMMA MonoObject == ASSUME NEW kind, NEW name
  PROVE  LET o == Mono!Object(kind, name) IN
         o.kind = kind /\ o.name = name /\ o.items = {} /\ o.refs = {} /\ o.ports = {}
  BY DEF Mono!Object

LEMMA MonoServing == ASSUME NEW name, NEW selects, NEW ports, NEW cert
  PROVE  LET o == Mono!ServingService(name, selects, ports, cert) IN
         /\ o.kind = "Service" /\ o.name = name /\ o.refs = {} /\ o.ports = ports /\ o.selects = selects
         /\ o.cert = cert
  BY DEF Mono!ServingService, Mono!Service, Mono!Object

LEMMA MonoExposed == ASSUME NEW kind, NEW service, NEW port
  PROVE  LET o == Mono!Exposed(kind, service, port) IN
         o.kind = kind /\ o.refs = {} /\ o.ports = {port} /\ o.selects = service
  BY DEF Mono!Exposed, Mono!Object

LEMMA MonoWorkload == ASSUME NEW name, NEW ports, NEW refs
  PROVE  LET o == Mono!Workload(name, ports, refs) IN
         o.kind = "Workload" /\ o.name = name /\ o.ports = ports /\ o.refs = refs
  BY DEF Mono!Workload, Mono!Object

LEMMA MonoHolder == ASSUME NEW kind, NEW name, NEW items
  PROVE  LET o == [Mono!Object(kind, name) EXCEPT !.items = items] IN
         o.kind = kind /\ o.name = name /\ o.items = items /\ o.refs = {} /\ o.ports = {}
  BY DEF Mono!Object

LEMMA MonoReferrer == ASSUME NEW kind, NEW name, NEW refs
  PROVE  LET o == [Mono!Object(kind, name) EXCEPT !.refs = refs] IN
         o.kind = kind /\ o.name = name /\ o.refs = refs /\ o.ports = {}
  BY DEF Mono!Object

LEMMA MonoBundle == ASSUME NEW name
  PROVE  LET o == Mono!NewConfigMapCABundle(name) IN
         o.kind = "ConfigMap" /\ o.name = name /\ o.items = {"service-ca.crt"} /\ o.refs = {} /\ o.ports = {}
  BY DEF Mono!NewConfigMapCABundle, Mono!Object

\* What the references of a TempoMonolithic depend on: certificates come with
\* encryption, a datasource is not behind a gateway, an OpenShift gateway
\* uses the default account, and the keys of the storage are there.
SoundMono(p, c) ==
  /\ Mono!Encrypted(p) => p.gates.certs
  /\ p.spec.obs.datasource => ~Mono!Gateway(p)
  /\ Mono!OpenShiftGateway(p.spec) => p.spec.sa = "unset"
  /\ Mono!configureStorage(p) \subseteq FromUser(p) \cup Credentials(c) \cup KnownUnresolved(p)

LEMMA MonoParts == ASSUME NEW p
  PROVE  LET all == Mono!BuildAll(p) IN
         /\ Mono!BuildConfigMap(p) \in all /\ Mono!BuildTempoStatefulset(p) \in all
         /\ Mono!BuildServices(p) \subseteq all
         /\ p.gates.servingCerts => Mono!NewConfigMapCABundle("serving-cabundle") \in all
         /\ p.spec.sa = "unset" => Mono!BuildServiceAccount \subseteq all
         /\ Mono!Gateway(p) => Mono!BuildGatewayObjects(p) \subseteq all
  BY Zenon DEF Mono!BuildAll, Mono!If

LEMMA MonoBuilders == ASSUME NEW p, NEW o \in Mono!BuildAll(p)
  PROVE  \/ o = Mono!BuildConfigMap(p) \/ o = Mono!BuildTempoStatefulset(p) \/ o \in Mono!BuildServices(p)
         \/ o = Mono!NewConfigMapCABundle("serving-cabundle")
         \/ p.spec.sa = "unset" /\ o \in Mono!BuildServiceAccount
         \/ Mono!Gateway(p) /\ o \in Mono!BuildGatewayObjects(p)
         \/ Mono!Jaeger(p) /\ o \in Mono!BuildJaegerUIIngress(p)
         \/ Mono!Jaeger(p) /\ o \in Mono!BuildJaegerUIRoute(p)
         \/ o \in Mono!BuildServiceMonitor(p) \/ o \in Mono!BuildPrometheusRules
         \/ p.spec.obs.datasource /\ o \in Mono!BuildGrafanaDatasource
  BY Zenon DEF Mono!BuildAll, Mono!If

\* What the build offers to its own objects.
LEMMA MonoOffers == ASSUME NEW p, NEW c, SoundMono(p, c)
  PROVE  LET offer == Offer("TempoMonolithic", p, Mono!BuildAll(p), c) IN
         /\ Mono!ConfigRef("tempo.yaml") \in offer
         /\ Mono!Jaeger(p) => Mono!ConfigRef("tempo-query.yaml") \in offer
         /\ p.spec.sa = "unset" => Mono!RunsAs("default") \in offer
         /\ Mono!RunsAs("custom") \in offer
         /\ p.gates.servingCerts => <<"ConfigMap", "serving-cabundle", "service-ca.crt">> \in offer
         /\ Mono!internalFiles(p) \cup Mono!configureStorage(p) \subseteq offer
         /\ <<"Secret", "receiver-cert", "tls.crt">> \in offer /\ <<"ConfigMap", "receiver-ca", "service-ca.crt">> \in offer
<1> DEFINE all == Mono!BuildAll(p)
           offer == Offer("TempoMonolithic", p, all, c)
           items == {"tempo.yaml"} \cup Mono!If(Mono!Jaeger(p), {"tempo-query.yaml"})
           cm == [Mono!Object("ConfigMap", "config") EXCEPT !.items = items]
           sa == Mono!Object("ServiceAccount", "default")
           ca == Mono!NewConfigMapCABundle("serving-cabundle")
<1>1. cm \in all /\ (p.spec.sa = "unset" => sa \in all) /\ (p.gates.servingCerts => ca \in all)
  BY MonoParts, Zenon DEF Mono!BuildConfigMap, Mono!BuildServiceAccount
<1>2. "tempo.yaml" \in items /\ (Mono!Jaeger(p) => "tempo-query.yaml" \in items)
  BY Zenon DEF Mono!If
<1> HIDE DEF items, all
<1>3. cm.kind = "ConfigMap" /\ cm.name = "config" /\ cm.items = items
  BY MonoHolder
<1>4. sa.kind = "ServiceAccount" /\ sa.name = "default"
  BY MonoObject
<1>5. ca.kind = "ConfigMap" /\ ca.name = "serving-cabundle" /\ ca.items = {"service-ca.crt"}
  BY MonoBundle
<1> HIDE DEF cm, sa, ca
<1>6. <<"ConfigMap", "config", "tempo.yaml">> \in offer /\ (Mono!Jaeger(p) => <<"ConfigMap", "config", "tempo-query.yaml">> \in offer)
  BY <1>1, <1>2, <1>3, Offered
<1>7. p.spec.sa = "unset" => <<"ServiceAccount", "default", "unset">> \in offer
  BY <1>1, <1>4, Offered
<1>8. p.gates.servingCerts => <<"ConfigMap", "serving-cabundle", "service-ca.crt">> \in offer
  BY <1>1, <1>5, Offered
<1>9. /\ <<"Secret", "receiver-cert", "tls.crt">> \in offer /\ <<"ConfigMap", "receiver-ca", "service-ca.crt">> \in offer
      /\ <<"ServiceAccount", "custom", "unset">> \in offer
      /\ Mono!configureStorage(p) \subseteq offer
  BY Provided, Zenon DEF SoundMono
<1>10. Mono!internalFiles(p) \subseteq offer
  <2>1. "tempo" \in ComponentCertSecretNames("TempoMonolithic")
    BY DEF ComponentCertSecretNames
  <2>2. Mono!Encrypted(p) => /\ <<"ConfigMap", "ca-bundle", "service-ca.crt">> \in offer /\ <<"Secret", "mtls", "tempo">> \in offer
    BY <2>1, Provided, Zenon DEF SoundMono
  <2> HIDE DEF offer
  <2> QED BY <2>2, Zenon DEF Mono!internalFiles, Mono!ConfigureServiceCA, Mono!ConfigureServicePKI, Mono!If
<1> HIDE DEF offer
<1> QED BY <1>6, <1>7, <1>8, <1>9, <1>10, Zenon DEF offer, all, Mono!ConfigRef, Mono!RunsAs

\* The certificates that service-ca issues for its Services.
LEMMA MonoSigned ==
  ASSUME NEW p, NEW c, NEW name, NEW ports, NEW cert, cert # "unset",
         Mono!ServingService(name, "tempo", ports, cert) \in Mono!BuildAll(p)
  PROVE  <<"Secret", cert, "tls.crt">> \in Offer("TempoMonolithic", p, Mono!BuildAll(p), c)
<1> DEFINE o == Mono!ServingService(name, "tempo", ports, cert)
           all == Mono!BuildAll(p)
<1>1. o.kind = "Service" /\ o.cert = cert
  BY MonoServing
<1>2. o \in all
  OBVIOUS
<1> HIDE DEF o, all
<1>3. <<"Secret", cert, "tls.crt">> \in Offer("TempoMonolithic", p, all, c)
  BY <1>1, <1>2, Certified
<1> QED BY <1>3 DEF all

LEMMA MonoCertificates == ASSUME NEW p, NEW c
  PROVE  LET offer == Offer("TempoMonolithic", p, Mono!BuildAll(p), c) IN
         /\ Mono!Gateway(p) /\ p.gates.servingCerts => <<"Secret", "gateway-serving-cert", "tls.crt">> \in offer
         /\ ~Mono!Gateway(p) /\ Mono!useServiceCertsOnReceiver(p) => <<"Secret", "serving-cert", "tls.crt">> \in offer
         /\ Mono!OAuth(p) => <<"Secret", "ui-oauth-proxy-tls", "tls.crt">> \in offer
<1> DEFINE all == Mono!BuildAll(p)
           offer == Offer("TempoMonolithic", p, all, c)
<1>0. Mono!BuildServices(p) \subseteq all
  BY MonoParts, Zenon
<1>1. ASSUME Mono!Gateway(p), p.gates.servingCerts PROVE <<"Secret", "gateway-serving-cert", "tls.crt">> \in offer
  <2> DEFINE ports == {"public", "internal", "http"} \cup Mono!If(p.spec.grpc.enabled, {"grpc-public"})
             cert == IF p.gates.servingCerts THEN "gateway-serving-cert" ELSE "unset"
  <2>1. Mono!ServingService("gateway", "tempo", ports, cert) \in all
    BY <1>0, <1>1, Zenon DEF Mono!BuildServices, Mono!buildGatewayService
  <2>2. cert = "gateway-serving-cert" /\ cert # "unset"
    BY <1>1
  <2> HIDE DEF ports, cert
  <2>3. <<"Secret", cert, "tls.crt">> \in offer
    BY <2>1, <2>2, MonoSigned, Zenon
  <2> HIDE DEF offer
  <2> QED BY <2>2, <2>3
<1>2. ASSUME ~Mono!Gateway(p), Mono!useServiceCertsOnReceiver(p) PROVE <<"Secret", "serving-cert", "tls.crt">> \in offer
  <2> DEFINE ports == Mono!buildTempoContainerPorts(p) \ {"tempo-internal"}
             cert == IF Mono!useServiceCertsOnReceiver(p) THEN "serving-cert" ELSE "unset"
  <2>1. Mono!ServingService("tempo", "tempo", ports, cert) \in all
    BY <1>0, <1>2, Zenon DEF Mono!BuildServices, Mono!buildTempoService
  <2>2. cert = "serving-cert" /\ cert # "unset"
    BY <1>2
  <2> HIDE DEF ports, cert
  <2>3. <<"Secret", cert, "tls.crt">> \in offer
    BY <2>1, <2>2, MonoSigned, Zenon
  <2> HIDE DEF offer
  <2> QED BY <2>2, <2>3
<1>3. ASSUME Mono!OAuth(p) PROVE <<"Secret", "ui-oauth-proxy-tls", "tls.crt">> \in offer
  <2> DEFINE ports == Mono!jaegerPorts \cup Mono!If(Mono!OAuth(p), {"oauth-proxy"})
             cert == IF Mono!OAuth(p) THEN "ui-oauth-proxy-tls" ELSE "unset"
  <2>0. Mono!Jaeger(p) /\ ~Mono!Gateway(p)
    BY <1>3, Zenon DEF Mono!OAuth
  <2>1. Mono!ServingService("jaegerui", "tempo", ports, cert) \in all
    BY <1>0, <2>0, Zenon DEF Mono!BuildServices, Mono!buildJaegerUIService, Mono!If
  <2>2. cert = "ui-oauth-proxy-tls" /\ cert # "unset"
    BY <1>3
  <2> HIDE DEF ports, cert
  <2>3. <<"Secret", cert, "tls.crt">> \in offer
    BY <2>1, <2>2, MonoSigned, Zenon
  <2> HIDE DEF offer
  <2> QED BY <2>2, <2>3
<1> HIDE DEF offer
<1> QED BY <1>1, <1>2, <1>3, Zenon DEF offer, all

\* The certificates of the receivers.
LEMMA MonoReceiverRefs == ASSUME NEW p, NEW c, SoundMono(p, c)
  PROVE  Mono!mountReceivers(p) \subseteq Offer("TempoMonolithic", p, Mono!BuildAll(p), c)
<1> DEFINE offer == Offer("TempoMonolithic", p, Mono!BuildAll(p), c)
<1>1. <<"Secret", "receiver-cert", "tls.crt">> \in offer /\ <<"ConfigMap", "receiver-ca", "service-ca.crt">> \in offer
  BY MonoOffers, Zenon
<1>2. Mono!useServiceCertsOnReceiver(p) => <<"Secret", Mono!ingestionServingCertName(p), "tls.crt">> \in offer
  <2>1. Mono!useServiceCertsOnReceiver(p) => p.gates.servingCerts
    BY Zenon DEF Mono!useServiceCertsOnReceiver, Mono!ServesCert
  <2>2. CASE Mono!Gateway(p)
    <3>1. Mono!ingestionServingCertName(p) = "gateway-serving-cert"
      BY <2>2, Zenon DEF Mono!ingestionServingCertName
    <3> QED BY <2>1, <2>2, <3>1, MonoCertificates, Zenon
  <2>3. CASE ~Mono!Gateway(p)
    <3>1. Mono!ingestionServingCertName(p) = "serving-cert"
      BY <2>3, Zenon DEF Mono!ingestionServingCertName
    <3> QED BY <2>3, <3>1, MonoCertificates, Zenon
  <2> QED BY <2>2, <2>3
<1> HIDE DEF offer
<1>3. ASSUME NEW r \in {p.spec.grpc, p.spec.http} PROVE Mono!CertOf(p, r) \cup Mono!CAOf(r) \subseteq offer
  <2>1. Mono!ServesCert(p, r) => Mono!useServiceCertsOnReceiver(p)
    BY <1>3, Zenon DEF Mono!useServiceCertsOnReceiver
  <2>2. Mono!CertOf(p, r) \subseteq offer
    BY <1>1, <1>2, <2>1 DEF Mono!CertOf
  <2>3. Mono!CAOf(r) \subseteq offer
    BY <1>1 DEF Mono!CAOf, Mono!If
  <2> QED BY <2>2, <2>3, Zenon
<1>4. Mono!mountReceivers(p) \subseteq offer
  BY <1>3, Zenon DEF Mono!mountReceivers
<1> QED BY <1>4 DEF offer

\* Every reference of the pod.
LEMMA StatefulsetRefs == ASSUME NEW p, NEW c, SoundMono(p, c)
  PROVE  Mono!BuildTempoStatefulset(p).refs \subseteq Offer("TempoMonolithic", p, Mono!BuildAll(p), c)
<1> DEFINE all == Mono!BuildAll(p)
           offer == Offer("TempoMonolithic", p, all, c)
           ports == Mono!buildTempoContainerPorts(p) \cup Mono!configureJaegerUI(p) \cup Mono!If(Mono!Gateway(p), Mono!gatewayPorts(p))
           refs == {Mono!ConfigRef("tempo.yaml"), Mono!RunsAs(Mono!serviceAccountName(p))}
                     \cup Mono!If(Mono!Jaeger(p), {Mono!ConfigRef("tempo-query.yaml")})
                     \cup Mono!configureStorage(p) \cup Mono!mountReceivers(p)
                     \cup Mono!If(Mono!Gateway(p), Mono!configureGateway(p))
                     \cup Mono!If(Mono!OAuth(p), {<<"Secret", "ui-oauth-proxy-tls", "tls.crt">>})
           o == Mono!BuildTempoStatefulset(p)
<1>1. o = Mono!Workload("tempo", ports, refs)
  BY Zenon DEF Mono!BuildTempoStatefulset
<1>2. /\ Mono!ConfigRef("tempo.yaml") \in offer
      /\ Mono!Jaeger(p) => Mono!ConfigRef("tempo-query.yaml") \in offer
      /\ p.spec.sa = "unset" => Mono!RunsAs("default") \in offer
      /\ Mono!RunsAs("custom") \in offer
      /\ p.gates.servingCerts => <<"ConfigMap", "serving-cabundle", "service-ca.crt">> \in offer
      /\ Mono!internalFiles(p) \subseteq offer /\ Mono!configureStorage(p) \subseteq offer
  BY MonoOffers, Zenon
<1>3. /\ Mono!Gateway(p) /\ p.gates.servingCerts => <<"Secret", "gateway-serving-cert", "tls.crt">> \in offer
      /\ Mono!OAuth(p) => <<"Secret", "ui-oauth-proxy-tls", "tls.crt">> \in offer
  BY MonoCertificates, Zenon
<1>4. Mono!mountReceivers(p) \subseteq offer
  BY MonoReceiverRefs, Zenon
<1>5. ASSUME Mono!Gateway(p) PROVE <<"ConfigMap", "gateway", "rbac.yaml">> \in offer /\ <<"Secret", "gateway", "tenants.yaml">> \in offer
  <2> DEFINE rbac == [Mono!Object("ConfigMap", "gateway") EXCEPT !.items = {"rbac.yaml"}]
             tenants == [Mono!Object("Secret", "gateway") EXCEPT !.items = {"tenants.yaml"}]
  <2>1. rbac \in all /\ tenants \in all
    BY <1>5, MonoParts, Zenon DEF Mono!BuildGatewayObjects
  <2>2. /\ rbac.kind = "ConfigMap" /\ rbac.name = "gateway" /\ rbac.items = {"rbac.yaml"}
        /\ tenants.kind = "Secret" /\ tenants.name = "gateway" /\ tenants.items = {"tenants.yaml"}
    BY MonoHolder
  <2> HIDE DEF rbac, tenants, all
  <2> QED BY <2>1, <2>2, Offered
<1> HIDE DEF offer
<1>6. /\ Mono!RunsAs(Mono!serviceAccountName(p)) \in offer
      /\ Mono!If(Mono!Jaeger(p), {Mono!ConfigRef("tempo-query.yaml")}) \subseteq offer
      /\ Mono!If(Mono!OAuth(p), {<<"Secret", "ui-oauth-proxy-tls", "tls.crt">>}) \subseteq offer
  BY <1>2, <1>3, Zenon DEF Mono!serviceAccountName, Mono!If
<1>7. Mono!If(Mono!Gateway(p), Mono!configureGateway(p)) \subseteq offer
  BY <1>2, <1>3, <1>5, Zenon DEF Mono!configureGateway, Mono!If
<1>8. refs \subseteq offer
  BY <1>2, <1>4, <1>6, <1>7, Zenon
<1> HIDE DEF ports, refs, o
<1>9. o.refs = refs
  BY <1>1, MonoWorkload
<1> QED BY <1>8, <1>9, Zenon DEF o, offer

\* Every reference of a TempoMonolithic.
LEMMA MonoRefs == ASSUME NEW p, NEW c, SoundMono(p, c), NEW o \in Mono!BuildAll(p)
  PROVE  o.refs \subseteq Offer("TempoMonolithic", p, Mono!BuildAll(p), c)
<1> DEFINE all == Mono!BuildAll(p)
           offer == Offer("TempoMonolithic", p, all, c)
<1>0. ASSUME o.refs = {} PROVE o.refs \subseteq offer
  BY <1>0
<1>1. Mono!internalFiles(p) \subseteq offer /\ (p.spec.sa = "unset" => Mono!RunsAs("default") \in offer)
  BY MonoOffers, Zenon
<1>2. o = Mono!BuildTempoStatefulset(p) => o.refs \subseteq offer
  BY StatefulsetRefs, Zenon
<1>3. ASSUME Mono!OpenShiftGateway(p.spec) PROVE <<"ClusterRole", "gateway", "unset">> \in offer
  <2> DEFINE role == Mono!Object("ClusterRole", "gateway")
  <2>1. role \in all
    <3>1. Mono!Gateway(p)
      BY <1>3, Zenon DEF Mono!OpenShiftGateway, Mono!Gateway
    <3> QED BY <1>3, <3>1, MonoParts, Zenon DEF Mono!BuildGatewayObjects, Mono!If
  <2>2. role.kind = "ClusterRole" /\ role.name = "gateway"
    BY MonoObject
  <2> HIDE DEF role, all
  <2> QED BY <2>1, <2>2, Offered
<1> HIDE DEF offer
<1>4. ASSUME NEW kind, NEW name, \/ \E x : o = [Mono!Object(kind, name) EXCEPT !.items = x]
                                 \/ o = Mono!Object(kind, name)
      PROVE  o.refs \subseteq offer
  <2>1. ASSUME NEW x, o = [Mono!Object(kind, name) EXCEPT !.items = x] PROVE o.refs = {}
    BY <2>1, MonoHolder
  <2>2. ASSUME o = Mono!Object(kind, name) PROVE o.refs = {}
    BY <2>2, MonoObject
  <2> QED BY <1>0, <1>4, <2>1, <2>2, Zenon
<1>5. ASSUME o = Mono!BuildConfigMap(p) \/ o \in Mono!BuildServiceAccount \/ o \in Mono!BuildPrometheusRules PROVE o.refs \subseteq offer
  <2>1. \/ \E x : o = [Mono!Object("ConfigMap", "config") EXCEPT !.items = x]
        \/ o = Mono!Object("ServiceAccount", "default") \/ o = Mono!Object("PrometheusRule", "prometheus-rule")
    BY <1>5, Zenon DEF Mono!BuildConfigMap, Mono!BuildServiceAccount, Mono!BuildPrometheusRules
  <2> QED BY <1>4, <2>1, Zenon
<1>6. ASSUME o \in Mono!BuildServices(p) PROVE o.refs \subseteq offer
  <2>1. \E name, ports, cert : o = Mono!ServingService(name, "tempo", ports, cert)
    BY <1>6, Zenon DEF Mono!BuildServices, Mono!If, Mono!buildTempoService, Mono!buildJaegerUIService, Mono!buildGatewayService
  <2>2. o.refs = {}
    BY <2>1, MonoServing
  <2> QED BY <1>0, <2>2
<1>7. ASSUME o \in Mono!BuildJaegerUIIngress(p) \/ o \in Mono!BuildJaegerUIRoute(p) \/ o \in Mono!BuildGrafanaDatasource
      PROVE  o.refs \subseteq offer
  <2>1. \E kind, service, port : o = Mono!Exposed(kind, service, port)
    BY <1>7, Zenon DEF Mono!BuildJaegerUIIngress, Mono!BuildJaegerUIRoute, Mono!BuildGrafanaDatasource
  <2>2. o.refs = {}
    BY <2>1, MonoExposed
  <2> QED BY <1>0, <2>2
<1>8. ASSUME o = Mono!NewConfigMapCABundle("serving-cabundle") PROVE o.refs \subseteq offer
  BY <1>0, <1>8, MonoBundle
<1>9. ASSUME o \in Mono!BuildGatewayObjects(p) PROVE o.refs \subseteq offer
  <2> DEFINE refs == {<<"ClusterRole", "gateway", "unset">>, Mono!RunsAs("default")}
  <2>1. \/ \E x : o = [Mono!Object("ConfigMap", "gateway") EXCEPT !.items = x]
        \/ \E x : o = [Mono!Object("Secret", "gateway") EXCEPT !.items = x]
        \/ o = Mono!Object("ClusterRole", "gateway")
        \/ Mono!OpenShiftGateway(p.spec) /\ o = [Mono!Object("ClusterRoleBinding", "gateway") EXCEPT !.refs = refs]
    BY <1>9, Zenon DEF Mono!BuildGatewayObjects, Mono!If
  <2>2. ASSUME Mono!OpenShiftGateway(p.spec), o = [Mono!Object("ClusterRoleBinding", "gateway") EXCEPT !.refs = refs]
        PROVE  o.refs \subseteq offer
    <3>1. p.spec.sa = "unset"
      BY <2>2, Zenon DEF SoundMono
    <3>2. refs \subseteq offer
      BY <1>1, <1>3, <2>2, <3>1, Zenon
    <3> HIDE DEF refs
    <3>3. o.refs = refs
      BY <2>2, MonoReferrer
    <3> QED BY <3>2, <3>3, Zenon
  <2> HIDE DEF refs
  <2> QED BY <1>4, <2>1, <2>2, Zenon
<1>10. ASSUME o \in Mono!BuildServiceMonitor(p) PROVE o.refs \subseteq offer
  <2> DEFINE refs == Mono!If(Mono!InternalTLS(p), Mono!internalFiles(p))
  <2>1. PICK ports, selects : o = [Mono!Object("ServiceMonitor", "tempo") EXCEPT !.ports = ports, !.selects = selects, !.refs = refs]
    BY <1>10, Zenon DEF Mono!BuildServiceMonitor
  <2>2. refs \subseteq offer
    BY <1>1, Zenon DEF Mono!If
  <2> HIDE DEF refs
  <2>3. o.refs = refs
    BY <2>1 DEF Mono!Object
  <2> QED BY <2>2, <2>3, Zenon
<1>11. o.refs \subseteq offer
  BY <1>2, <1>5, <1>6, <1>7, <1>8, <1>9, <1>10, MonoBuilders, Zenon
<1> QED BY <1>11 DEF offer, all

\* The pod mounts what its configuration names.
LEMMA MonoMounts == ASSUME NEW p
  PROVE  Mono!FilesOpened(p) \subseteq Mono!BuildTempoStatefulset(p).refs
<1> DEFINE ports == Mono!buildTempoContainerPorts(p) \cup Mono!configureJaegerUI(p) \cup Mono!If(Mono!Gateway(p), Mono!gatewayPorts(p))
           refs == {Mono!ConfigRef("tempo.yaml"), Mono!RunsAs(Mono!serviceAccountName(p))}
                     \cup Mono!If(Mono!Jaeger(p), {Mono!ConfigRef("tempo-query.yaml")})
                     \cup Mono!configureStorage(p) \cup Mono!mountReceivers(p)
                     \cup Mono!If(Mono!Gateway(p), Mono!configureGateway(p))
                     \cup Mono!If(Mono!OAuth(p), {<<"Secret", "ui-oauth-proxy-tls", "tls.crt">>})
           o == Mono!BuildTempoStatefulset(p)
<1>1. o = Mono!Workload("tempo", ports, refs)
  BY Zenon DEF Mono!BuildTempoStatefulset
<1>2. Mono!storageFiles(p) \subseteq Mono!configureStorage(p)
  <2> DEFINE files == Mono!If(p.spec.storage.ca # "unset", Mono!StorageCA(p)) \cup Mono!If(p.spec.storage.cert, Mono!StorageCert)
  <2> SUFFICES ASSUME p.spec.storage.backend = "s3", p.storage.mode = "static", p.spec.storage.tls
               PROVE  files \subseteq Mono!configureStorage(p)
    BY Zenon DEF Mono!storageFiles, Mono!If
  <2>1. Mono!configureStorage(p) = Mono!ConfigureS3Storage(p)
    BY DEF Mono!configureStorage
  <2>2. p.storage.mode # "token"
    OBVIOUS
  <2>3. Mono!MountTLSSpecVolumes(p) = files
    BY Zenon DEF Mono!MountTLSSpecVolumes
  <2> QED BY <2>1, <2>2, <2>3, Zenon DEF Mono!ConfigureS3Storage, Mono!If
<1>3. Mono!InternalTLS(p) => Mono!internalFiles(p) \subseteq Mono!If(Mono!Gateway(p), Mono!configureGateway(p))
  BY Zenon DEF Mono!InternalTLS, Mono!configureGateway, Mono!If
<1>4. UNION {Mono!configureReceiverTLS(p, r) : r \in {q \in {p.spec.grpc, p.spec.http} : q.enabled}} \subseteq Mono!mountReceivers(p)
  BY Zenon DEF Mono!configureReceiverTLS, Mono!mountReceivers, Mono!If
<1>5. Mono!FilesOpened(p) \subseteq refs
  BY <1>2, <1>3, <1>4, Zenon DEF Mono!FilesOpened
<1> HIDE DEF ports, refs, o
<1>6. o.refs = refs
  BY <1>1, MonoWorkload
<1> QED BY <1>5, <1>6, Zenon DEF o

\* As Fits, with one workload and no known defects.
MonoBacked(p, o) == o.kind = "Service" /\ o.selects = "tempo" /\ o.ports \subseteq Mono!BuildTempoStatefulset(p).ports
MonoRouted(p, o) ==
  /\ o.kind \notin {"Workload", "Service"}
  /\ \A n \in o.ports : \E t \in Mono!BuildAll(p) : t.kind = "Service" /\ t.name = o.selects /\ n \in t.ports
MonoFits(p, o) == o = Mono!BuildTempoStatefulset(p) \/ MonoBacked(p, o) \/ MonoRouted(p, o)

LEMMA StatefulsetPorts == ASSUME NEW p
  PROVE  LET o == Mono!BuildTempoStatefulset(p) IN
         /\ o.kind = "Workload" /\ o.name = "tempo"
         /\ o.ports = Mono!buildTempoContainerPorts(p) \cup Mono!configureJaegerUI(p) \cup Mono!If(Mono!Gateway(p), Mono!gatewayPorts(p))
<1> DEFINE ports == Mono!buildTempoContainerPorts(p) \cup Mono!configureJaegerUI(p) \cup Mono!If(Mono!Gateway(p), Mono!gatewayPorts(p))
           o == Mono!BuildTempoStatefulset(p)
<1>1. PICK refs : o = Mono!Workload("tempo", ports, refs)
  BY Zenon DEF Mono!BuildTempoStatefulset
<1> HIDE DEF ports, o
<1>2. o.kind = "Workload" /\ o.name = "tempo" /\ o.ports = ports
  BY <1>1, MonoWorkload
<1> QED BY <1>2, Zenon DEF ports, o

LEMMA ServicesFit == ASSUME NEW p, NEW o \in Mono!BuildServices(p) PROVE MonoFits(p, o)
<1> DEFINE work == Mono!BuildTempoStatefulset(p)
           pod == Mono!buildTempoContainerPorts(p) \cup Mono!configureJaegerUI(p) \cup Mono!If(Mono!Gateway(p), Mono!gatewayPorts(p))
           jports == Mono!jaegerPorts \cup Mono!If(Mono!OAuth(p), {"oauth-proxy"})
           gports == {"public", "internal", "http"} \cup Mono!If(p.spec.grpc.enabled, {"grpc-public"})
           tports == Mono!buildTempoContainerPorts(p) \ {"tempo-internal"}
<1>1. work.ports = pod
  BY StatefulsetPorts, Zenon
<1>2. \/ \E cert : o = Mono!ServingService("tempo", "tempo", tports, cert)
      \/ Mono!Jaeger(p) /\ \E cert : o = Mono!ServingService("jaegerui", "tempo", jports, cert)
      \/ Mono!Gateway(p) /\ \E cert : o = Mono!ServingService("gateway", "tempo", gports, cert)
  <2>1. \/ o = Mono!buildGatewayService(p) /\ Mono!Gateway(p)
        \/ o = Mono!buildTempoService(p)
        \/ o = Mono!buildJaegerUIService(p) /\ Mono!Jaeger(p)
    BY Zenon DEF Mono!BuildServices, Mono!If
  <2> QED BY <2>1, Zenon DEF Mono!buildTempoService, Mono!buildJaegerUIService, Mono!buildGatewayService
<1>3. tports \subseteq pod
  BY Zenon
<1>4. Mono!Jaeger(p) => jports \subseteq pod
  BY Zenon DEF Mono!configureJaegerUI, Mono!If
<1>5. Mono!Gateway(p) => gports \subseteq pod
  BY Zenon DEF Mono!gatewayPorts, Mono!buildTempoContainerPorts, Mono!If
<1> HIDE DEF work, pod, jports, gports, tports
<1>6. PICK name, ports, cert : o = Mono!ServingService(name, "tempo", ports, cert) /\ ports \subseteq pod
  BY <1>2, <1>3, <1>4, <1>5, Zenon
<1>7. o.kind = "Service" /\ o.selects = "tempo" /\ o.ports = ports
  BY <1>6, MonoServing
<1> QED BY <1>1, <1>6, <1>7, Zenon DEF work, MonoFits, MonoBacked

\* The Services by name.
LEMMA ServicesOffer == ASSUME NEW p
  PROVE  /\ Mono!Gateway(p) => \E t \in Mono!BuildAll(p) : t.kind = "Service" /\ t.name = "gateway" /\ {"public", "internal", "http"} \subseteq t.ports
         /\ ~Mono!Gateway(p) => \E t \in Mono!BuildAll(p) : t.kind = "Service" /\ t.name = "tempo" /\ "http" \in t.ports
         /\ ~Mono!Gateway(p) /\ Mono!Jaeger(p) =>
              \E t \in Mono!BuildAll(p) : /\ t.kind = "Service" /\ t.name = "jaegerui" /\ "jaeger-ui" \in t.ports
                                          /\ Mono!OAuth(p) => "oauth-proxy" \in t.ports
<1> DEFINE jports == Mono!jaegerPorts \cup Mono!If(Mono!OAuth(p), {"oauth-proxy"})
           gports == {"public", "internal", "http"} \cup Mono!If(p.spec.grpc.enabled, {"grpc-public"})
           tports == Mono!buildTempoContainerPorts(p) \ {"tempo-internal"}
           all == Mono!BuildAll(p)
<1>0. Mono!BuildServices(p) \subseteq all
  BY MonoParts, Zenon
<1>1. /\ {"public", "internal", "http"} \subseteq gports /\ "jaeger-ui" \in jports /\ (Mono!OAuth(p) => "oauth-proxy" \in jports)
  BY Zenon DEF Mono!jaegerPorts, Mono!If
<1>2. "http" \in tports
  BY DEF Mono!buildTempoContainerPorts
<1> HIDE DEF all
<1>3. /\ Mono!Gateway(p) => \E cert : Mono!ServingService("gateway", "tempo", gports, cert) \in all
      /\ ~Mono!Gateway(p) => \E cert : Mono!ServingService("tempo", "tempo", tports, cert) \in all
      /\ ~Mono!Gateway(p) /\ Mono!Jaeger(p) => \E cert : Mono!ServingService("jaegerui", "tempo", jports, cert) \in all
  BY <1>0, Zenon DEF Mono!BuildServices, Mono!If, Mono!buildTempoService, Mono!buildJaegerUIService, Mono!buildGatewayService
<1> HIDE DEF jports, gports, tports
<1>4. ASSUME NEW name, NEW ports, NEW cert, Mono!ServingService(name, "tempo", ports, cert) \in all
      PROVE  \E t \in all : t.kind = "Service" /\ t.name = name /\ t.ports = ports
  <2> DEFINE t == Mono!ServingService(name, "tempo", ports, cert)
  <2>1. t.kind = "Service" /\ t.name = name /\ t.ports = ports
    BY MonoServing
  <2>2. t \in all
    BY <1>4
  <2> HIDE DEF t
  <2> QED BY <2>1, <2>2, Zenon
<1>5. Mono!Gateway(p) => \E t \in all : t.kind = "Service" /\ t.name = "gateway" /\ t.ports = gports
  BY <1>3, <1>4
<1>6. ~Mono!Gateway(p) => \E t \in all : t.kind = "Service" /\ t.name = "tempo" /\ t.ports = tports
  BY <1>3, <1>4
<1>7. ~Mono!Gateway(p) /\ Mono!Jaeger(p) => \E t \in all : t.kind = "Service" /\ t.name = "jaegerui" /\ t.ports = jports
  BY <1>3, <1>4
<1> QED BY <1>1, <1>2, <1>5, <1>6, <1>7, Zenon DEF all

LEMMA ExposedFits ==
  ASSUME NEW p, NEW kind, kind \notin {"Workload", "Service"}, NEW service, NEW port, NEW o, o = Mono!Exposed(kind, service, port),
         \E t \in Mono!BuildAll(p) : t.kind = "Service" /\ t.name = service /\ port \in t.ports
  PROVE  MonoFits(p, o)
<1>1. o.kind = kind /\ o.selects = service /\ o.ports = {port}
  BY MonoExposed
<1> QED BY <1>1, Zenon DEF MonoFits, MonoRouted

\* Every object of a TempoMonolithic fits.
LEMMA MonolithicFits == ASSUME NEW p, NEW c, SoundMono(p, c), NEW o \in Mono!BuildAll(p) PROVE MonoFits(p, o)
<1> DEFINE serves(name, n) == \E t \in Mono!BuildAll(p) : t.kind = "Service" /\ t.name = name /\ n \in t.ports
<1>1. /\ Mono!Gateway(p) => serves("gateway", "public") /\ serves("gateway", "internal") /\ serves("gateway", "http")
      /\ ~Mono!Gateway(p) => serves("tempo", "http")
      /\ ~Mono!Gateway(p) /\ Mono!Jaeger(p) => serves("jaegerui", "jaeger-ui") /\ (Mono!OAuth(p) => serves("jaegerui", "oauth-proxy"))
  <2>1. Mono!Gateway(p) => serves("gateway", "public") /\ serves("gateway", "internal") /\ serves("gateway", "http")
    <3> SUFFICES ASSUME Mono!Gateway(p) PROVE serves("gateway", "public") /\ serves("gateway", "internal") /\ serves("gateway", "http")
      OBVIOUS
    <3>1. PICK t \in Mono!BuildAll(p) : t.kind = "Service" /\ t.name = "gateway" /\ {"public", "internal", "http"} \subseteq t.ports
      BY ServicesOffer, Zenon
    <3>2. "public" \in t.ports /\ "internal" \in t.ports /\ "http" \in t.ports
      BY <3>1, Zenon
    <3> QED BY <3>1, <3>2, Zenon
  <2>2. ~Mono!Gateway(p) => serves("tempo", "http")
    BY ServicesOffer, Zenon
  <2>3. ~Mono!Gateway(p) /\ Mono!Jaeger(p) => serves("jaegerui", "jaeger-ui") /\ (Mono!OAuth(p) => serves("jaegerui", "oauth-proxy"))
    BY ServicesOffer, Zenon
  <2> HIDE DEF serves
  <2> QED BY <2>1, <2>2, <2>3, Zenon
<1>2. ASSUME NEW kind, kind \notin {"Workload", "Service"}, NEW service, NEW port, o = Mono!Exposed(kind, service, port), serves(service, port)
      PROVE  MonoFits(p, o)
  BY <1>2, ExposedFits, Zenon
<1>3. ASSUME o.kind \notin {"Workload", "Service"}, \A n \in o.ports : serves(o.selects, n) PROVE MonoFits(p, o)
  BY <1>3, Zenon DEF MonoFits, MonoRouted
<1> HIDE DEF serves
<1>4. ASSUME NEW kind, kind \notin {"Workload", "Service"}, NEW name,
             \/ \E x : o = [Mono!Object(kind, name) EXCEPT !.items = x]
             \/ \E x : o = [Mono!Object(kind, name) EXCEPT !.refs = x]
             \/ o = Mono!Object(kind, name)
      PROVE  MonoFits(p, o)
  <2>1. ASSUME NEW x, o = [Mono!Object(kind, name) EXCEPT !.items = x] PROVE o.kind = kind /\ o.ports = {}
    BY <2>1, MonoHolder
  <2>2. ASSUME NEW x, o = [Mono!Object(kind, name) EXCEPT !.refs = x] PROVE o.kind = kind /\ o.ports = {}
    BY <2>2, MonoReferrer
  <2>3. ASSUME o = Mono!Object(kind, name) PROVE o.kind = kind /\ o.ports = {}
    BY <2>3, MonoObject
  <2>4. o.kind = kind /\ o.ports = {}
    BY <1>4, <2>1, <2>2, <2>3, Zenon
  <2> QED BY <1>3, <1>4, <2>4
<1>5. \A kind \in {"ConfigMap", "Secret", "ClusterRole", "ServiceAccount", "ClusterRoleBinding", "PrometheusRule", "Ingress", "Route",
                   "GrafanaDatasource", "ServiceMonitor"} : kind \notin {"Workload", "Service"}
  OBVIOUS
<1>6. ASSUME o = Mono!BuildConfigMap(p) \/ o \in Mono!BuildServiceAccount \/ o \in Mono!BuildPrometheusRules PROVE MonoFits(p, o)
  <2>1. \/ \E x : o = [Mono!Object("ConfigMap", "config") EXCEPT !.items = x]
        \/ o = Mono!Object("ServiceAccount", "default") \/ o = Mono!Object("PrometheusRule", "prometheus-rule")
    BY <1>6, Zenon DEF Mono!BuildConfigMap, Mono!BuildServiceAccount, Mono!BuildPrometheusRules
  <2> QED BY <1>4, <1>5, <2>1, Zenon
<1>7. ASSUME o \in Mono!BuildGatewayObjects(p) PROVE MonoFits(p, o)
  <2>1. \/ \E x : o = [Mono!Object("ConfigMap", "gateway") EXCEPT !.items = x]
        \/ \E x : o = [Mono!Object("Secret", "gateway") EXCEPT !.items = x]
        \/ o = Mono!Object("ClusterRole", "gateway")
        \/ \E x : o = [Mono!Object("ClusterRoleBinding", "gateway") EXCEPT !.refs = x]
    BY <1>7, Zenon DEF Mono!BuildGatewayObjects, Mono!If
  <2> QED BY <1>4, <1>5, <2>1, Zenon
<1>8. ASSUME o = Mono!NewConfigMapCABundle("serving-cabundle") PROVE MonoFits(p, o)
  <2>1. o.kind \notin {"Workload", "Service"} /\ o.ports = {}
    BY <1>8, MonoBundle
  <2> QED BY <1>3, <2>1
<1>9. ASSUME Mono!Jaeger(p), o \in Mono!BuildJaegerUIIngress(p) \/ o \in Mono!BuildJaegerUIRoute(p) PROVE MonoFits(p, o)
  <2> DEFINE to == Mono!jaegerUIServiceAndPort(p)
             port == IF Mono!OAuth(p) THEN "oauth-proxy" ELSE to[2]
  <2>1. o = Mono!Exposed("Ingress", to[1], to[2]) \/ o = Mono!Exposed("Route", to[1], port)
    BY <1>9, Zenon DEF Mono!BuildJaegerUIIngress, Mono!BuildJaegerUIRoute
  <2>2. IF Mono!Gateway(p) THEN to[1] = "gateway" /\ to[2] = "public" ELSE to[1] = "jaegerui" /\ to[2] = "jaeger-ui"
    BY DEF Mono!jaegerUIServiceAndPort
  <2>3. Mono!OAuth(p) => ~Mono!Gateway(p)
    BY Zenon DEF Mono!OAuth
  <2> HIDE DEF to
  <2>4. serves(to[1], to[2]) /\ serves(to[1], port)
    BY <1>1, <1>9, <2>2, <2>3, Zenon
  <2> HIDE DEF port
  <2> QED BY <1>2, <1>5, <2>1, <2>4, Zenon
<1>10. ASSUME p.spec.obs.datasource, o \in Mono!BuildGrafanaDatasource PROVE MonoFits(p, o)
  <2>1. o = Mono!Exposed("GrafanaDatasource", "tempo", "http")
    BY <1>10, Zenon DEF Mono!BuildGrafanaDatasource
  <2>2. serves("tempo", "http")
    BY <1>1, <1>10, Zenon DEF SoundMono
  <2> QED BY <1>2, <1>5, <2>1, <2>2, Zenon
<1>11. ASSUME o \in Mono!BuildServiceMonitor(p) PROVE MonoFits(p, o)
  <2> DEFINE ports == Mono!ScrapedPorts(p)
             selects == IF Mono!Gateway(p) THEN "gateway" ELSE "tempo"
  <2>1. PICK refs : o = [Mono!Object("ServiceMonitor", "tempo") EXCEPT !.ports = ports, !.selects = selects, !.refs = refs]
    BY <1>11, Zenon DEF Mono!BuildServiceMonitor
  <2>2. \A n \in ports : serves(selects, n)
    BY <1>1, Zenon DEF Mono!ScrapedPorts
  <2> HIDE DEF ports, selects
  <2>3. o.kind = "ServiceMonitor" /\ o.ports = ports /\ o.selects = selects
    BY <2>1 DEF Mono!Object
  <2>4. o.kind \notin {"Workload", "Service"}
    BY <2>3
  <2> QED BY <1>3, <2>2, <2>3, <2>4, Zenon
<1>12. o = Mono!BuildTempoStatefulset(p) \/ o \in Mono!BuildServices(p) => MonoFits(p, o)
  BY ServicesFit, Zenon DEF MonoFits
<1> QED BY <1>6, <1>7, <1>8, <1>9, <1>10, <1>11, <1>12, MonoBuilders, Zenon

----------------------------------------------------------------------------
(* The storage: what is validated of a Secret is what the pods read of it. *)

LEMMA StackKeyThere == ASSUME NEW s, NEW fields, Stack!ensureNotEmpty(s, fields) PROVE fields \subseteq DOMAIN s.data
  BY DEF Stack!ensureNotEmpty, Stack!Get

LEMMA StackCAThere == ASSUME NEW cm, Stack!getCAConfigMapKey(cm) # "unset" PROVE Stack!getCAConfigMapKey(cm) \in DOMAIN cm.data
<1> DEFINE full == {i \in 1..3 : Stack!Get(cm, Stack!CAKeys[i]) # "unset"}
           first == CHOOSE i \in full : \A j \in full : i <= j
<1>1. full # {} /\ Stack!getCAConfigMapKey(cm) = Stack!CAKeys[first]
  BY Zenon DEF Stack!getCAConfigMapKey
<1>2. \E i \in full : \A j \in full : i <= j
  <2>1. full \subseteq 1..3
    OBVIOUS
  <2> HIDE DEF full
  <2>2. CASE 1 \in full
    <3>1. \A j \in full : 1 <= j
      BY <2>1
    <3> QED BY <2>2, <3>1, Zenon
  <2>3. CASE 1 \notin full /\ 2 \in full
    <3>1. \A j \in full : 2 <= j
      BY <2>1, <2>3
    <3> QED BY <2>3, <3>1, Zenon
  <2>4. CASE 1 \notin full /\ 2 \notin full
    <3>1. \A j \in full : j = 3
      BY <2>1, <2>4
    <3> QED BY <1>1, <3>1
  <2> QED BY <2>2, <2>3, <2>4
<1>3. first \in full
  BY <1>2, Zenon
<1>4. Stack!Get(cm, Stack!CAKeys[first]) # "unset"
  BY <1>3, Zenon
<1> HIDE DEF first
<1> QED BY <1>1, <1>4, Zenon DEF Stack!Get

LEMMA StackErrors == ASSUME NEW e PROVE Stack!StorageError(e).err = e
  BY DEF Stack!StorageError, Stack!NoParams

\* S3 credentials that are accepted: the mode, and the CA if there is one.
LEMMA StackS3Params ==
  ASSUME NEW st, NEW s, NEW cm, Stack!StackS3(st, s, cm).err = "ok"
  PROVE  LET r == Stack!StackS3(st, s, cm) IN
         /\ r.backend = "s3" /\ r.mode = Stack!ModeOf(st, Stack!discoverS3CredentialType(s))
         /\ r.mode # "unset" /\ Stack!validateS3Secret(s, r.mode)
         /\ st.tls /\ st.ca # "unset" => r.caFile \in DOMAIN cm.data
<1> DEFINE mode == Stack!ModeOf(st, Stack!discoverS3CredentialType(s))
           p == [Stack!getS3Params(s, mode) EXCEPT !.insecure = (mode = "static" /\ ~st.tls)]
           key == Stack!getCAConfigMapKey(cm)
           q == [p EXCEPT !.caFile = key]
           r == Stack!StackS3(st, s, cm)
           valid == mode # "unset" /\ Stack!validateS3Secret(s, mode)
<1>1. r = IF ~valid THEN Stack!StorageError("invalid") ELSE IF st.tls THEN Stack!getTLSParams(p, st.ca, cm) ELSE p
  BY Zenon DEF Stack!StackS3
<1> HIDE DEF mode, key
<1>2. p.backend = "s3" /\ p.mode = mode /\ q.backend = "s3" /\ q.mode = mode /\ q.caFile = key
  BY DEF Stack!getS3Params, Stack!NoParams
<1>3. Stack!getTLSParams(p, st.ca, cm) = IF st.ca = "unset" THEN p
                                   ELSE IF ~cm.found THEN Stack!StorageError("fetch")
                                   ELSE IF key = "unset" THEN Stack!StorageError("invalid") ELSE q
  <2> HIDE DEF p
  <2> QED BY DEF Stack!getTLSParams, key
<1>4. key # "unset" => key \in DOMAIN cm.data
  BY StackCAThere, Zenon DEF key
<1>5. Stack!StorageError("invalid").err # "ok" /\ Stack!StorageError("fetch").err # "ok"
  BY StackErrors
<1> HIDE DEF p, q, r, valid
<1>6. r.err = "ok"
  BY DEF r
<1>7. valid /\ ((r = p /\ (st.tls => st.ca = "unset")) \/ (r = q /\ key # "unset"))
  BY <1>1, <1>3, <1>5, <1>6
<1>8. /\ r.backend = "s3" /\ r.mode = mode /\ valid
      /\ st.tls /\ st.ca # "unset" => r.caFile \in DOMAIN cm.data
  BY <1>2, <1>4, <1>7, Zenon
<1> QED BY <1>8, Zenon DEF r, mode, valid

\* The keys that a pod reads are keys of the Secret.
LEMMA StackS3Keys ==
  ASSUME NEW p, NEW c, NEW st, st = p.spec.storage, p.storage = Stack!StackS3(st, p.secret, p.ca), p.storage.err = "ok",
         st.credentialMode \in T!CredentialMode, st.credentialMode = "token-cco" => c
  PROVE  Stack!ConfigureS3Storage(p) \subseteq FromUser(p) \cup Credentials(c)
<1> DEFINE mode == p.storage.mode
           sec == p.secret
<1>1. /\ mode = Stack!ModeOf(st, Stack!discoverS3CredentialType(sec)) /\ mode # "unset" /\ Stack!validateS3Secret(sec, mode)
      /\ st.tls /\ st.ca # "unset" => p.storage.caFile \in DOMAIN p.ca.data
  BY StackS3Params
<1>2. Stack!discoverS3CredentialType(sec) \in {"unset", "static", "token"}
  BY DEF Stack!discoverS3CredentialType, Stack!ByLifetime
<1>3. mode \in {"static", "token", "token-cco"} /\ (mode = "token-cco" => c)
  <2> HIDE DEF mode
  <2> QED BY <1>1, <1>2 DEF Stack!ModeOf, T!CredentialMode
<1>4. Stack!If(p.spec.storage.tls, Stack!MountTLSSpecVolumes(p)) \subseteq FromUser(p)
  <2>1. p.storage.caFile \in DOMAIN p.ca.data => Stack!StorageCA(p) \subseteq FromUser(p)
    BY Zenon DEF FromUser, Stack!StorageCA
  <2>2. Stack!StorageCert \subseteq FromUser(p)
    BY Zenon DEF FromUser, Stack!StorageCert
  <2> QED BY <1>1, <2>1, <2>2, Zenon DEF Stack!MountTLSSpecVolumes, Stack!If
<1>5. mode = "token-cco" => Stack!configureS3StorageWithCOOAuth \subseteq Credentials(c)
  BY <1>3, Zenon DEF Stack!configureS3StorageWithCOOAuth, Credentials
<1>6. mode = "static" => Stack!configureS3StorageStatic \subseteq FromUser(p)
  <2> SUFFICES ASSUME mode = "static" PROVE Stack!configureS3StorageStatic \subseteq FromUser(p)
    OBVIOUS
  <2> HIDE DEF mode
  <2>1. Stack!ensureNotEmpty(sec, Stack!s3LongLivedFields)
    BY <1>1 DEF Stack!validateS3Secret
  <2>2. {"access_key_secret", "access_key_id"} \subseteq DOMAIN sec.data
    <3>1. Stack!s3LongLivedFields \subseteq DOMAIN sec.data
      BY <2>1, StackKeyThere, Zenon
    <3> QED BY <3>1 DEF Stack!s3LongLivedFields
  <2> QED BY <2>2, Zenon DEF Stack!configureS3StorageStatic, Stack!StorageKeys, FromUser
<1>7. CASE mode = "token"
  BY <1>7, Zenon DEF Stack!ConfigureS3Storage, Stack!If
<1>8. CASE mode = "token-cco"
  BY <1>4, <1>5, <1>8, Zenon DEF Stack!ConfigureS3Storage, Stack!If
<1>9. CASE mode = "static"
  <2>1. mode # "token-cco"
    BY <1>9
  <2> QED BY <1>4, <1>6, <1>9, <2>1, Zenon DEF Stack!ConfigureS3Storage, Stack!If
<1> QED BY <1>3, <1>7, <1>8, <1>9

LEMMA StackAzureKeys ==
  ASSUME NEW p, NEW mode \in T!CredentialMode, p.storage.mode = mode, mode # "unset", Stack!validateAzureSecret(p.secret, mode)
  PROVE  Stack!ConfigureAzureStorage(p) \subseteq FromUser(p)
<1> DEFINE keys == {"account_name"} \cup (IF p.storage.mode = "token" THEN {"client_id", "tenant_id"} ELSE {"account_key"})
<1>1. \E fields \in {Stack!azureLongLivedFields, Stack!azureShortLivedFields} : keys \subseteq fields /\ Stack!ensureNotEmpty(p.secret, fields)
  <2>1. CASE mode = "static"
    <3>1. Stack!ensureNotEmpty(p.secret, Stack!azureLongLivedFields)
      BY <2>1 DEF Stack!validateAzureSecret
    <3>2. keys \subseteq Stack!azureLongLivedFields
      BY <2>1 DEF Stack!azureLongLivedFields
    <3> QED BY <3>1, <3>2, Zenon
  <2>2. CASE mode = "token"
    <3>1. Stack!ensureNotEmpty(p.secret, Stack!azureShortLivedFields)
      BY <2>2 DEF Stack!validateAzureSecret
    <3>2. keys \subseteq Stack!azureShortLivedFields
      BY <2>2 DEF Stack!azureShortLivedFields
    <3> QED BY <3>1, <3>2, Zenon
  <2>3. mode # "token-cco"
    BY DEF Stack!validateAzureSecret
  <2> QED BY <2>1, <2>2, <2>3 DEF T!CredentialMode
<1>2. keys \subseteq DOMAIN p.secret.data
  <2> HIDE DEF keys
  <2> QED BY <1>1, StackKeyThere, Zenon
<1>3. Stack!ConfigureAzureStorage(p) = Stack!StorageKeys(keys)
  BY Zenon DEF Stack!ConfigureAzureStorage
<1> HIDE DEF keys
<1> QED BY <1>2, <1>3, Zenon DEF Stack!StorageKeys, FromUser

LEMMA StackGCSKeys == ASSUME NEW p, p.storage.backend = "gcs" PROVE Stack!ConfigureGCS(p) \subseteq KnownUnresolved(p)
<1>1. Stack!StorageKeys({"key.json"}) = {<<"Secret", "storage", "key.json">>}
  BY DEF Stack!StorageKeys
<1> QED BY <1>1, Zenon DEF Stack!ConfigureGCS, KnownUnresolved, Stack!If

LEMMA MonoKeyThere == ASSUME NEW s, NEW fields, Mono!ensureNotEmpty(s, fields) PROVE fields \subseteq DOMAIN s.data
  BY DEF Mono!ensureNotEmpty, Mono!Get

LEMMA MonoCAThere == ASSUME NEW cm, Mono!getCAConfigMapKey(cm) # "unset" PROVE Mono!getCAConfigMapKey(cm) \in DOMAIN cm.data
<1> DEFINE full == {i \in 1..3 : Mono!Get(cm, Mono!CAKeys[i]) # "unset"}
           first == CHOOSE i \in full : \A j \in full : i <= j
<1>1. full # {} /\ Mono!getCAConfigMapKey(cm) = Mono!CAKeys[first]
  BY Zenon DEF Mono!getCAConfigMapKey
<1>2. \E i \in full : \A j \in full : i <= j
  <2>1. full \subseteq 1..3
    OBVIOUS
  <2> HIDE DEF full
  <2>2. CASE 1 \in full
    <3>1. \A j \in full : 1 <= j
      BY <2>1
    <3> QED BY <2>2, <3>1, Zenon
  <2>3. CASE 1 \notin full /\ 2 \in full
    <3>1. \A j \in full : 2 <= j
      BY <2>1, <2>3
    <3> QED BY <2>3, <3>1, Zenon
  <2>4. CASE 1 \notin full /\ 2 \notin full
    <3>1. \A j \in full : j = 3
      BY <2>1, <2>4
    <3> QED BY <1>1, <3>1
  <2> QED BY <2>2, <2>3, <2>4
<1>3. first \in full
  BY <1>2, Zenon
<1>4. Mono!Get(cm, Mono!CAKeys[first]) # "unset"
  BY <1>3, Zenon
<1> HIDE DEF first
<1> QED BY <1>1, <1>4, Zenon DEF Mono!Get

LEMMA MonoErrors == ASSUME NEW e PROVE Mono!StorageError(e).err = e
  BY DEF Mono!StorageError, Mono!NoParams

\* S3 credentials that are accepted: the mode, and the CA if there is one.
LEMMA MonoS3Params ==
  ASSUME NEW st, NEW s, NEW cm, Mono!MonolithicS3(st, s, cm).err = "ok"
  PROVE  LET r == Mono!MonolithicS3(st, s, cm) IN
         /\ r.backend = "s3" /\ r.mode = Mono!ModeOf(st, Mono!discoverS3CredentialType(s))
         /\ r.mode # "unset" /\ Mono!validateS3Secret(s, r.mode)
         /\ st.tls /\ st.ca # "unset" => r.caFile \in DOMAIN cm.data
<1> DEFINE mode == Mono!ModeOf(st, Mono!discoverS3CredentialType(s))
           p == Mono!getS3Params(s, mode)
           key == Mono!getCAConfigMapKey(cm)
           q == [p EXCEPT !.caFile = key]
           r == Mono!MonolithicS3(st, s, cm)
           valid == mode # "unset" /\ Mono!validateS3Secret(s, mode)
<1>1. r = IF ~valid THEN Mono!StorageError("invalid") ELSE IF st.tls THEN Mono!getTLSParams(p, st.ca, cm) ELSE p
  BY Zenon DEF Mono!MonolithicS3
<1> HIDE DEF mode, key
<1>2. p.backend = "s3" /\ p.mode = mode /\ q.backend = "s3" /\ q.mode = mode /\ q.caFile = key
  BY DEF Mono!getS3Params, Mono!NoParams
<1>3. Mono!getTLSParams(p, st.ca, cm) = IF st.ca = "unset" THEN p
                                   ELSE IF ~cm.found THEN Mono!StorageError("fetch")
                                   ELSE IF key = "unset" THEN Mono!StorageError("invalid") ELSE q
  <2> HIDE DEF p
  <2> QED BY DEF Mono!getTLSParams, key
<1>4. key # "unset" => key \in DOMAIN cm.data
  BY MonoCAThere, Zenon DEF key
<1>5. Mono!StorageError("invalid").err # "ok" /\ Mono!StorageError("fetch").err # "ok"
  BY MonoErrors
<1> HIDE DEF p, q, r, valid
<1>6. r.err = "ok"
  BY DEF r
<1>7. valid /\ ((r = p /\ (st.tls => st.ca = "unset")) \/ (r = q /\ key # "unset"))
  BY <1>1, <1>3, <1>5, <1>6
<1>8. /\ r.backend = "s3" /\ r.mode = mode /\ valid
      /\ st.tls /\ st.ca # "unset" => r.caFile \in DOMAIN cm.data
  BY <1>2, <1>4, <1>7, Zenon
<1> QED BY <1>8, Zenon DEF r, mode, valid

\* The keys that a pod reads are keys of the Secret.
LEMMA MonoS3Keys ==
  ASSUME NEW p, NEW c, NEW st, st = p.spec.storage, p.storage = Mono!MonolithicS3(st, p.secret, p.ca), p.storage.err = "ok",
         st.credentialMode \in T!CredentialMode, st.credentialMode = "token-cco" => c
  PROVE  Mono!ConfigureS3Storage(p) \subseteq FromUser(p) \cup Credentials(c)
<1> DEFINE mode == p.storage.mode
           sec == p.secret
<1>1. /\ mode = Mono!ModeOf(st, Mono!discoverS3CredentialType(sec)) /\ mode # "unset" /\ Mono!validateS3Secret(sec, mode)
      /\ st.tls /\ st.ca # "unset" => p.storage.caFile \in DOMAIN p.ca.data
  BY MonoS3Params
<1>2. Mono!discoverS3CredentialType(sec) \in {"unset", "static", "token"}
  BY DEF Mono!discoverS3CredentialType, Mono!ByLifetime
<1>3. mode \in {"static", "token", "token-cco"} /\ (mode = "token-cco" => c)
  <2> HIDE DEF mode
  <2> QED BY <1>1, <1>2 DEF Mono!ModeOf, T!CredentialMode
<1>4. Mono!If(p.spec.storage.tls, Mono!MountTLSSpecVolumes(p)) \subseteq FromUser(p)
  <2>1. p.storage.caFile \in DOMAIN p.ca.data => Mono!StorageCA(p) \subseteq FromUser(p)
    BY Zenon DEF FromUser, Mono!StorageCA
  <2>2. Mono!StorageCert \subseteq FromUser(p)
    BY Zenon DEF FromUser, Mono!StorageCert
  <2> QED BY <1>1, <2>1, <2>2, Zenon DEF Mono!MountTLSSpecVolumes, Mono!If
<1>5. mode = "token-cco" => Mono!configureS3StorageWithCOOAuth \subseteq Credentials(c)
  BY <1>3, Zenon DEF Mono!configureS3StorageWithCOOAuth, Credentials
<1>6. mode = "static" => Mono!configureS3StorageStatic \subseteq FromUser(p)
  <2> SUFFICES ASSUME mode = "static" PROVE Mono!configureS3StorageStatic \subseteq FromUser(p)
    OBVIOUS
  <2> HIDE DEF mode
  <2>1. Mono!ensureNotEmpty(sec, Mono!s3LongLivedFields)
    BY <1>1 DEF Mono!validateS3Secret
  <2>2. {"access_key_secret", "access_key_id"} \subseteq DOMAIN sec.data
    <3>1. Mono!s3LongLivedFields \subseteq DOMAIN sec.data
      BY <2>1, MonoKeyThere, Zenon
    <3> QED BY <3>1 DEF Mono!s3LongLivedFields
  <2> QED BY <2>2, Zenon DEF Mono!configureS3StorageStatic, Mono!StorageKeys, FromUser
<1>7. CASE mode = "token"
  BY <1>7, Zenon DEF Mono!ConfigureS3Storage, Mono!If
<1>8. CASE mode = "token-cco"
  BY <1>4, <1>5, <1>8, Zenon DEF Mono!ConfigureS3Storage, Mono!If
<1>9. CASE mode = "static"
  <2>1. mode # "token-cco"
    BY <1>9
  <2> QED BY <1>4, <1>6, <1>9, <2>1, Zenon DEF Mono!ConfigureS3Storage, Mono!If
<1> QED BY <1>3, <1>7, <1>8, <1>9

LEMMA MonoAzureKeys ==
  ASSUME NEW p, NEW mode \in T!CredentialMode, p.storage.mode = mode, mode # "unset", Mono!validateAzureSecret(p.secret, mode)
  PROVE  Mono!ConfigureAzureStorage(p) \subseteq FromUser(p)
<1> DEFINE keys == {"account_name"} \cup (IF p.storage.mode = "token" THEN {"client_id", "tenant_id"} ELSE {"account_key"})
<1>1. \E fields \in {Mono!azureLongLivedFields, Mono!azureShortLivedFields} : keys \subseteq fields /\ Mono!ensureNotEmpty(p.secret, fields)
  <2>1. CASE mode = "static"
    <3>1. Mono!ensureNotEmpty(p.secret, Mono!azureLongLivedFields)
      BY <2>1 DEF Mono!validateAzureSecret
    <3>2. keys \subseteq Mono!azureLongLivedFields
      BY <2>1 DEF Mono!azureLongLivedFields
    <3> QED BY <3>1, <3>2, Zenon
  <2>2. CASE mode = "token"
    <3>1. Mono!ensureNotEmpty(p.secret, Mono!azureShortLivedFields)
      BY <2>2 DEF Mono!validateAzureSecret
    <3>2. keys \subseteq Mono!azureShortLivedFields
      BY <2>2 DEF Mono!azureShortLivedFields
    <3> QED BY <3>1, <3>2, Zenon
  <2>3. mode # "token-cco"
    BY DEF Mono!validateAzureSecret
  <2> QED BY <2>1, <2>2, <2>3 DEF T!CredentialMode
<1>2. keys \subseteq DOMAIN p.secret.data
  <2> HIDE DEF keys
  <2> QED BY <1>1, MonoKeyThere, Zenon
<1>3. Mono!ConfigureAzureStorage(p) = Mono!StorageKeys(keys)
  BY Zenon DEF Mono!ConfigureAzureStorage
<1> HIDE DEF keys
<1> QED BY <1>2, <1>3, Zenon DEF Mono!StorageKeys, FromUser

LEMMA MonoGCSKeys == ASSUME NEW p, p.storage.backend = "gcs" PROVE Mono!ConfigureGCS(p) \subseteq KnownUnresolved(p)
<1>1. Mono!StorageKeys({"key.json"}) = {<<"Secret", "storage", "key.json">>}
  BY DEF Mono!StorageKeys
<1> QED BY <1>1, Zenon DEF Mono!ConfigureGCS, KnownUnresolved, Mono!If

LEMMA StackStorage ==
  ASSUME NEW p, NEW c, p.spec.storage \in T!ObjectStorageSpec, p.storage.err = "ok",
         p.storage = Stack!GetStorageParamsForTempoStack(p.spec.storage, p.secret, p.ca),
         p.spec.storage.credentialMode = "token-cco" => c
  PROVE  /\ p.storage.backend = "s3" => p.spec.storage.type = "s3"
         /\ Stack!ConfigureStorage(p) \subseteq FromUser(p) \cup Credentials(c) \cup KnownUnresolved(p)
<1> DEFINE st == p.spec.storage
           sec == p.secret
           Goal == /\ p.storage.backend = "s3" => st.type = "s3"
                   /\ Stack!ConfigureStorage(p) \subseteq FromUser(p) \cup Credentials(c) \cup KnownUnresolved(p)
<1>0. st.type \in {"s3", "azure", "gcs"} /\ st.credentialMode \in T!CredentialMode
  BY DEF T!ObjectStorageSpec, T!ObjectStorageSecretType
<1>1. Stack!StorageError("invalid").err # "ok" /\ Stack!StorageError("fetch").err # "ok"
  BY StackErrors
<1>2. /\ st.type = "s3" => p.storage = Stack!StackS3(st, sec, p.ca)
      /\ st.type = "azure" => p.storage = Stack!StackAzure(st, sec)
      /\ st.type = "gcs" => p.storage = Stack!StackGCS(st, sec)
  <2>1. sec.found
    BY <1>1 DEF Stack!GetStorageParamsForTempoStack
  <2> QED BY <2>1 DEF Stack!GetStorageParamsForTempoStack
<1>3. ASSUME st.type = "s3" PROVE Goal
  <2>1. Stack!ConfigureStorage(p) = Stack!ConfigureS3Storage(p)
    BY <1>3 DEF Stack!ConfigureStorage
  <2>2. Stack!ConfigureS3Storage(p) \subseteq FromUser(p) \cup Credentials(c)
    BY <1>0, <1>2, <1>3, StackS3Keys
  <2> QED BY <1>3, <2>1, <2>2, Zenon
<1>4. ASSUME st.type = "azure" PROVE Goal
  <2> DEFINE mode == Stack!ModeOf(st, Stack!discoverAzureCredentialType(sec))
             q == Stack!getAzureParams(sec, mode)
  <2>1. Stack!StackAzure(st, sec) = IF mode = "unset" \/ ~Stack!validateAzureSecret(sec, mode) THEN Stack!StorageError("invalid")
                                    ELSE IF st.tls THEN Stack!StorageError("invalid") ELSE q
    BY Zenon DEF Stack!StackAzure, Stack!NoCustomTLS
  <2>2. mode \in T!CredentialMode
    BY <1>0 DEF Stack!ModeOf, Stack!discoverAzureCredentialType, Stack!ByLifetime, T!CredentialMode
  <2> HIDE DEF mode
  <2>3. q.mode = mode /\ q.backend = "azure"
    BY DEF Stack!getAzureParams, Stack!NoParams
  <2> HIDE DEF q
  <2>4. p.storage = q /\ mode # "unset" /\ Stack!validateAzureSecret(sec, mode)
    BY <1>1, <1>2, <1>4, <2>1
  <2>5. Stack!ConfigureAzureStorage(p) \subseteq FromUser(p)
    BY <2>2, <2>3, <2>4, StackAzureKeys, Zenon
  <2>6. Stack!ConfigureStorage(p) = Stack!ConfigureAzureStorage(p)
    BY <1>4 DEF Stack!ConfigureStorage
  <2>7. p.storage.backend # "s3"
    BY <2>3, <2>4
  <2> QED BY <2>5, <2>6, <2>7, Zenon
<1>5. ASSUME st.type = "gcs" PROVE Goal
  <2> DEFINE mode == Stack!ModeOf(st, Stack!discoverGCSCredentialType(sec))
             q == Stack!getGCSParams(sec, mode)
  <2>1. Stack!StackGCS(st, sec) = IF mode = "unset" \/ ~Stack!validateGCSSecret(sec, mode) THEN Stack!StorageError("invalid")
                                  ELSE IF st.tls THEN Stack!StorageError("invalid") ELSE q
    BY Zenon DEF Stack!StackGCS, Stack!NoCustomTLS
  <2> HIDE DEF mode
  <2>2. q.backend = "gcs"
    BY DEF Stack!getGCSParams, Stack!NoParams
  <2> HIDE DEF q
  <2>3. p.storage.backend = "gcs"
    BY <1>1, <1>2, <1>5, <2>1, <2>2
  <2>4. Stack!ConfigureStorage(p) = Stack!ConfigureGCS(p)
    BY <1>5 DEF Stack!ConfigureStorage
  <2> QED BY <2>3, <2>4, StackGCSKeys
<1> QED BY <1>0, <1>3, <1>4, <1>5

LEMMA MonoStorage ==
  ASSUME NEW p, NEW c, p.spec.storage.credentialMode \in T!CredentialMode, p.storage.err = "ok",
         p.storage = Mono!GetStorageParamsForTempoMonolithic(p.spec.storage, p.secret, p.ca),
         p.spec.storage.credentialMode = "token-cco" /\ p.spec.storage.backend = "s3" => c
  PROVE  Mono!configureStorage(p) \subseteq FromUser(p) \cup Credentials(c) \cup KnownUnresolved(p)
<1> DEFINE st == p.spec.storage
           sec == p.secret
           Goal == Mono!configureStorage(p) \subseteq FromUser(p) \cup Credentials(c) \cup KnownUnresolved(p)
<1>1. Mono!StorageError("invalid").err # "ok" /\ Mono!StorageError("fetch").err # "ok"
  BY MonoErrors
<1>2. /\ st.backend = "s3" => p.storage = Mono!MonolithicS3(st, sec, p.ca)
      /\ st.backend = "azure" => p.storage = Mono!MonolithicAzure(sec)
      /\ st.backend = "gcs" => p.storage = Mono!MonolithicGCS(sec)
  <2>1. st.backend \in {"s3", "azure", "gcs"} => st.section /\ sec.found
    BY <1>1 DEF Mono!GetStorageParamsForTempoMonolithic
  <2> QED BY <2>1 DEF Mono!GetStorageParamsForTempoMonolithic
<1>3. ASSUME st.backend = "s3" PROVE Goal
  <2>1. Mono!configureStorage(p) = Mono!ConfigureS3Storage(p)
    BY <1>3 DEF Mono!configureStorage
  <2>2. Mono!ConfigureS3Storage(p) \subseteq FromUser(p) \cup Credentials(c)
    BY <1>2, <1>3, MonoS3Keys
  <2> QED BY <2>1, <2>2, Zenon
<1>4. ASSUME st.backend = "azure" PROVE Goal
  <2> DEFINE mode == Mono!discoverAzureCredentialType(sec)
             q == Mono!getAzureParams(sec, mode)
  <2>1. Mono!MonolithicAzure(sec) = IF mode = "unset" \/ ~Mono!validateAzureSecret(sec, mode) THEN Mono!StorageError("invalid") ELSE q
    BY Zenon DEF Mono!MonolithicAzure
  <2>2. mode \in T!CredentialMode
    BY DEF Mono!discoverAzureCredentialType, Mono!ByLifetime, T!CredentialMode
  <2> HIDE DEF mode
  <2>3. q.mode = mode
    BY DEF Mono!getAzureParams, Mono!NoParams
  <2> HIDE DEF q
  <2>4. p.storage = q /\ mode # "unset" /\ Mono!validateAzureSecret(sec, mode)
    BY <1>1, <1>2, <1>4, <2>1
  <2>5. Mono!ConfigureAzureStorage(p) \subseteq FromUser(p)
    BY <2>2, <2>3, <2>4, MonoAzureKeys, Zenon
  <2>6. Mono!configureStorage(p) = Mono!ConfigureAzureStorage(p)
    BY <1>4 DEF Mono!configureStorage
  <2> QED BY <2>5, <2>6, Zenon
<1>5. ASSUME st.backend = "gcs" PROVE Goal
  <2> DEFINE mode == Mono!discoverGCSCredentialType(sec)
             q == Mono!getGCSParams(sec, mode)
  <2>1. Mono!MonolithicGCS(sec) = IF mode = "unset" \/ ~Mono!validateGCSSecret(sec, mode) THEN Mono!StorageError("invalid") ELSE q
    BY Zenon DEF Mono!MonolithicGCS
  <2> HIDE DEF mode
  <2>2. q.backend = "gcs"
    BY DEF Mono!getGCSParams, Mono!NoParams
  <2> HIDE DEF q
  <2>3. p.storage.backend = "gcs"
    BY <1>1, <1>2, <1>5, <2>1, <2>2
  <2>4. Mono!configureStorage(p) = Mono!ConfigureGCS(p)
    BY <1>5 DEF Mono!configureStorage
  <2> QED BY <2>3, <2>4, MonoGCSKeys
<1>6. ASSUME st.backend \notin {"s3", "azure", "gcs"} PROVE Goal
  <2>1. Mono!configureStorage(p) = {}
    BY <1>6 DEF Mono!configureStorage
  <2> QED BY <2>1
<1> QED BY <1>3, <1>4, <1>5, <1>6

----------------------------------------------------------------------------
(* What is deployed.                                                       *)

\* What the manifests rely on in an admitted spec.  None of it depends on
\* the gates or on the environment, so it outlives the admission.
Coherent(k, s) ==
  IF k = "TempoStack" THEN s.jaeger.ingress \in {"ingress", "route"} => s.jaeger.enabled
  ELSE /\ s.obs.datasource => ~Mono!IsGatewayEnabled(s)
       /\ Mono!OpenShiftGateway(s) => s.sa = "unset"

\* What a build from p can rely on, c being whether there is a
\* CredentialsRequest.
Sound(k, p, c) == IF k = "TempoStack" THEN SoundStack(p, c) ELSE SoundMono(p, c)

\* The inductive invariant: every admitted spec is coherent, and what is
\* deployed was built from sound parameters.
ResolvedInv ==
  /\ \A k \in Kinds : crs[k].exists => Coherent(k, crs[k].spec)
  /\ \A k \in Kinds : Deployed(k) => Sound(k, done[k].p, creq[k])

LEMMA StackCoherent == ASSUME NEW s, NEW g, NEW e, Stack!validate(s, g, e) = {} PROVE Coherent("TempoStack", s)
<1>1. Stack!validateQueryFrontend(s, g) = {}
  BY Zenon DEF Stack!validate
<1> QED BY <1>1 DEF Stack!validateQueryFrontend, Stack!Unless, Stack!IsEnabled, Coherent

\* The defaults leave alone what makes a spec coherent.
LEMMA MonoDefaulted == ASSUME NEW s \in T!TempoMonolithicSpec, NEW g
  PROVE  LET d == Mono!Default(s, g) IN
         /\ d.tenancy = s.tenancy /\ d.obs = s.obs /\ d.sa = s.sa /\ d.storage = Mono!DefaultStorage(s)
         /\ Coherent("TempoMonolithic", d) <=> Coherent("TempoMonolithic", s)
<1> DEFINE d == Mono!Default(s, g)
<1>1. d.tenancy = s.tenancy /\ d.obs = s.obs /\ d.sa = s.sa /\ d.storage = Mono!DefaultStorage(s)
  BY Zenon DEF Mono!Default, T!TempoMonolithicSpec
<1> HIDE DEF d
<1>2. Coherent("TempoMonolithic", d) <=> Coherent("TempoMonolithic", s)
  BY <1>1 DEF Coherent, Mono!OpenShiftGateway, Mono!IsGatewayEnabled
<1> QED BY <1>1, <1>2 DEF d

LEMMA MonoCoherent ==
  ASSUME NEW s \in T!TempoMonolithicSpec, NEW g, NEW e, Mono!validateTempoMonolithic(s, g, e) = {}
  PROVE  Coherent("TempoMonolithic", s)
<1> DEFINE d == Mono!Default(s, g)
<1>1. Mono!validateObservability(d, g) = {} /\ Mono!validateServiceAccount(d, e) = {}
  BY Zenon DEF Mono!validateTempoMonolithic
<1> HIDE DEF d
<1>2. Coherent("TempoMonolithic", d)
  BY <1>1 DEF Mono!validateObservability, Mono!validateServiceAccount, Mono!Stack!Unless, Coherent
<1> QED BY <1>2, MonoDefaulted DEF d

LEMMA CoherentStep ==
  ASSUME AdmissionInv, AdmissionInv', [Next]_vars, NEW k \in Kinds, crs[k].exists => Coherent(k, crs[k].spec), crs'[k].exists
  PROVE  Coherent(k, crs'[k].spec)
<1>1. SpecWritten(k)
  BY SpecStep, Zenon
<1>2. CASE SpecKept(k)
  BY <1>2, Zenon DEF SpecKept
<1>3. CASE Accepts(k, crs'[k].spec)
  <2>1. crs'[k].spec \in Specs(k)
    BY Zenon DEF AdmissionInv, CRsOK
  <2>2. k = "TempoStack" \/ (k = "TempoMonolithic" /\ k # "TempoStack")
    BY DEF Kinds
  <2>3. CASE k = "TempoStack"
    BY <1>3, <2>3, StackCoherent, Zenon DEF Accepts
  <2>4. CASE k = "TempoMonolithic" /\ k # "TempoStack"
    <3>1. crs'[k].spec \in T!TempoMonolithicSpec /\ Mono!validateTempoMonolithic(crs'[k].spec, gates, Seen) = {}
      BY <1>3, <2>1, <2>4, Zenon DEF Accepts, Specs
    <3> QED BY <2>4, <3>1, MonoCoherent, Zenon
  <2> QED BY <2>2, <2>3, <2>4, Zenon
<1> QED BY <1>1, <1>2, <1>3, Zenon DEF SpecWritten

\* The parameters of a pass that is ready are sound, once it has made its
\* CredentialsRequest.
LEMMA ReadySound ==
  ASSUME AdmissionInv, NEW k \in Kinds, crs[k].exists, Coherent(k, crs[k].spec),
         gates.http \/ gates.grpc => gates.certs,
         PassResult(k, Effective(k)) = "ready", NEW c, WantsCCO(k, Effective(k)) /\ env.cco => c
  PROVE  Sound(k, Params(k, Effective(k)), c)
<1> DEFINE s == Effective(k)
           p == Params(k, s)
<1>1. p.spec = s /\ p.gates = gates /\ p.secret = env.secret /\ p.ca = env.ca
  BY DEF Params
<1>2. p.storage.err = "ok" /\ ccoResult(k, s) = "ok"
  BY ReadyMeans, Zenon
<1>3. WantsCCO(k, s) => c
  BY <1>2 DEF ccoResult
<1>4. crs[k].spec \in Specs(k)
  BY Zenon DEF AdmissionInv, CRsOK
<1>5. CASE k = "TempoStack"
  <2>1. s \in T!TempoStackSpec /\ Coherent("TempoStack", s)
    BY <1>4, <1>5, Zenon DEF Effective, Specs
  <2>2. p.storage = Stack!GetStorageParamsForTempoStack(p.spec.storage, p.secret, p.ca)
    <3>1. p.storage = Stack!StorageOf(s, Seen)
      BY <1>5, ParamsFields, Zenon
    <3> QED BY <1>1, <3>1, SeenFields, Zenon DEF Stack!StorageOf
  <2>3. p.spec.storage.credentialMode = "token-cco" => c
    <3>1. k # "TempoMonolithic"
      BY <1>5
    <3> QED BY <1>1, <1>3, <3>1, Zenon DEF WantsCCO
  <2> HIDE DEF s, p
  <2>4. p.spec.storage \in T!ObjectStorageSpec
    BY <1>1, <2>1 DEF T!TempoStackSpec
  <2>5. /\ p.storage.backend = "s3" => p.spec.storage.type = "s3"
        /\ Stack!ConfigureStorage(p) \subseteq FromUser(p) \cup Credentials(c) \cup KnownUnresolved(p)
    BY <1>2, <2>2, <2>3, <2>4, StackStorage, Zenon
  <2>6. Stack!Encrypted(p) => p.gates.certs
    BY <1>1, Zenon DEF Stack!Encrypted
  <2>7. p.spec.jaeger.ingress \in {"ingress", "route"} => p.spec.jaeger.enabled
    BY <1>1, <2>1 DEF Coherent
  <2>8. SoundStack(p, c)
    BY <2>5, <2>6, <2>7, Zenon DEF SoundStack
  <2> QED BY <1>5, <2>8, Zenon DEF Sound, p, s
<1>6. CASE k # "TempoStack"
  <2> DEFINE raw == crs[k].spec
  <2>0. k = "TempoMonolithic"
    BY <1>6 DEF Kinds
  <2>1. s = Mono!Default(raw, gates) /\ raw \in T!TempoMonolithicSpec /\ Coherent("TempoMonolithic", raw)
    BY <1>4, <1>6, <2>0, Zenon DEF Effective, Specs
  <2>2. p.storage = Mono!GetStorageParamsForTempoMonolithic(p.spec.storage, p.secret, p.ca)
    <3>1. p.storage = Mono!StorageOf(s, Seen)
      BY <1>6, ParamsFields, Zenon
    <3> QED BY <1>1, <3>1, SeenFields, Zenon DEF Mono!StorageOf
  <2>3. p.spec.storage.credentialMode = "token-cco" /\ p.spec.storage.backend = "s3" => c
    BY <1>1, <1>3, <2>0, Zenon DEF WantsCCO
  <2> HIDE DEF s, p, raw
  <2>4. s.storage = Mono!DefaultStorage(raw) /\ Coherent("TempoMonolithic", s)
    BY <2>1, MonoDefaulted, Zenon
  <2>5. p.spec.storage.credentialMode \in T!CredentialMode
    <3>1. raw.storage \in T!MonolithicTracesStorageSpec
      BY <2>1 DEF T!TempoMonolithicSpec
    <3>2. s.storage.credentialMode = raw.storage.credentialMode
      BY <2>4, <3>1 DEF Mono!DefaultStorage, T!MonolithicTracesStorageSpec
    <3> QED BY <1>1, <3>1, <3>2 DEF T!MonolithicTracesStorageSpec
  <2>6. Mono!configureStorage(p) \subseteq FromUser(p) \cup Credentials(c) \cup KnownUnresolved(p)
    BY <1>2, <2>2, <2>3, <2>5, MonoStorage, Zenon
  <2>7. Mono!Encrypted(p) => p.gates.certs
    BY <1>1, Zenon DEF Mono!Encrypted
  <2>8. (p.spec.obs.datasource => ~Mono!Gateway(p)) /\ (Mono!OpenShiftGateway(p.spec) => p.spec.sa = "unset")
    BY <1>1, <2>4 DEF Coherent, Mono!Gateway
  <2>9. SoundMono(p, c)
    BY <2>6, <2>7, <2>8, Zenon DEF SoundMono
  <2> QED BY <1>6, <2>9, Zenon DEF Sound, p, s
<1> QED BY <1>5, <1>6, Zenon

\* Sound parameters stay sound when credentials are added.
LEMMA SoundKept ==
  ASSUME NEW k, NEW p, NEW b, NEW c, Credentials(b) \subseteq Credentials(c), Sound(k, p, b)
  PROVE  Sound(k, p, c)
  BY Zenon DEF Sound, SoundStack, SoundMono

\* A step deploys from sound parameters, leaves what is deployed alone, or
\* removes it; the CredentialsRequest goes only with the CR.
LEMMA SoundStep ==
  ASSUME AdmissionInv, PassTypes, DeployedInv, ResolvedInv, [Next]_vars, \A g \in Profiles : g.http \/ g.grpc => g.certs
  PROVE  \A k \in Kinds : done'[k].p # NoParams => Sound(k, done'[k].p, creq'[k])
<1> DEFINE Goal == \A k \in Kinds : done'[k].p # NoParams => Sound(k, done'[k].p, creq'[k])
<1>0. /\ DOMAIN done = Kinds /\ DOMAIN creq = Kinds
      /\ \A k \in Kinds : done[k].p # NoParams => Sound(k, done[k].p, creq[k])
  BY Zenon DEF PassTypes, ResolvedInv, Deployed
<1>1. ASSUME done' = done, creq' = creq PROVE Goal
  BY <1>0, <1>1, Zenon
<1>2. ASSUME NEW k \in Kinds, Removed(k) PROVE Goal
  <2> DEFINE none == [outcome |-> "none", p |-> NoParams]
  <2>1. done' = [done EXCEPT ![k] = none] /\ none.p = NoParams /\ creq' = [creq EXCEPT ![k] = FALSE]
    BY <1>2, Zenon DEF Removed
  <2> HIDE DEF none
  <2>2. \A j \in Kinds : done'[j] = IF j = k THEN none ELSE done[j]
    BY <1>0, <2>1
  <2>3. \A j \in Kinds : j # k => creq'[j] = creq[j]
    BY <1>0, <2>1
  <2> QED BY <1>0, <2>1, <2>2, <2>3, Zenon
<1>3. ASSUME NEW k \in Kinds, crs[k].exists, Deploy(k) PROVE Goal
  <2> DEFINE result == PassResult(k, Effective(k))
             new == IF result = "ready" THEN Params(k, Effective(k)) ELSE done[k].p
             d == [outcome |-> result, p |-> new]
             c == creq[k] \/ (WantsCCO(k, Effective(k)) /\ env.cco)
  <2>1. done' = [done EXCEPT ![k] = d] /\ creq' = [creq EXCEPT ![k] = c]
    BY <1>3, Zenon DEF Deploy
  <2>2. d.p = new
    BY Zenon
  <2>3. new # NoParams => Sound(k, new, c)
    <3>1. gates.http \/ gates.grpc => gates.certs
      BY Zenon DEF DeployedInv
    <3>2. Coherent(k, crs[k].spec)
      BY <1>3, Zenon DEF ResolvedInv
    <3>3. ASSUME result = "ready" PROVE Sound(k, Params(k, Effective(k)), c)
      BY <1>3, <3>1, <3>2, <3>3, ReadySound, Zenon
    <3>4. ASSUME done[k].p # NoParams PROVE Sound(k, done[k].p, c)
      <4>1. Credentials(creq[k]) \subseteq Credentials(c)
        BY Zenon DEF Credentials
      <4>2. Sound(k, done[k].p, creq[k])
        BY <1>0, <3>4, Zenon
      <4> HIDE DEF c
      <4> QED BY <4>1, <4>2, SoundKept, Zenon
    <3> QED BY <3>3, <3>4, Zenon
  <2> HIDE DEF d, new, c
  <2>4. \A j \in Kinds : /\ done'[j] = IF j = k THEN d ELSE done[j]
                         /\ creq'[j] = IF j = k THEN c ELSE creq[j]
    BY <1>0, <2>1
  <2> QED BY <1>0, <2>2, <2>3, <2>4, Zenon
<1> HIDE DEF Goal
<1>4. ASSUME NEW k \in Kinds, UserCreate(k) PROVE Goal
  BY <1>1, <1>4, Zenon DEF UserCreate
<1>5. ASSUME NEW k \in Kinds, UserDelete(k) PROVE Goal
  BY <1>1, <1>2, <1>5, Zenon DEF UserDelete
<1>6. ASSUME NEW k \in Kinds, Reconcile(k) PROVE Goal
  <2>1. crs[k].exists /\ ((done' = done /\ creq' = creq) \/ Deploy(k))
    BY <1>6, Zenon DEF Reconcile
  <2> QED BY <1>1, <1>3, <2>1, Zenon
<1>7. ASSUME NEW k \in Kinds, ReconcileDeletion(k) PROVE Goal
  BY <1>2, <1>7, Zenon DEF ReconcileDeletion
<1>8. ASSUME NEW k, NEW e, UserEdit(k, e) PROVE Goal
  BY <1>1, <1>8, Zenon DEF UserEdit
<1>9. ASSUME NEW d \in Disturbances, EnvChange(d) PROVE Goal
  BY <1>1, <1>9, Zenon DEF EnvChange
<1>10. ASSUME NEW g \in Profiles, OperatorReconfigure(g) PROVE Goal
  BY <1>1, <1>10, Zenon DEF OperatorReconfigure
<1>11. ASSUME UNCHANGED vars PROVE Goal
  <2>1. done' = done /\ creq' = creq
    BY <1>11 DEF vars
  <2> QED BY <1>1, <2>1
<1>12. Goal
  BY <1>4, <1>5, <1>6, <1>7, <1>8, <1>9, <1>10, <1>11, Zenon DEF Next
<1> QED BY <1>12 DEF Goal

\* Sound parameters give a build whose references resolve.
LEMMA StackResolves ==
  ASSUME NEW p, NEW c, SoundStack(p, c)
  PROVE  LET built     == Stack!BuildAll(p)
             workloads == {o \in built : o.kind = "Workload"}
             services  == {o \in built : o.kind = "Service"}
             PointsAt(o, targets) == \A port \in o.ports : \/ <<o.name, port>> \in KnownDangling
                                                          \/ \E t \in targets : t.name = o.selects /\ port \in t.ports
         IN  /\ \A o \in built : o.refs \subseteq Offer("TempoStack", p, built, c)
             /\ \A w \in workloads : Stack!FilesOpened(p, w.name) \subseteq w.refs \cup KnownUnmounted(p)
             /\ \A o \in services : PointsAt(o, workloads)
             /\ \A o \in built \ (workloads \cup services) : PointsAt(o, services)
<1> DEFINE built     == Stack!BuildAll(p)
           workloads == {o \in built : o.kind = "Workload"}
           services  == {o \in built : o.kind = "Service"}
           PointsAt(o, targets) == \A port \in o.ports : \/ <<o.name, port>> \in KnownDangling
                                                        \/ \E t \in targets : t.name = o.selects /\ port \in t.ports
<1>1. \A o \in built : o.refs \subseteq Offer("TempoStack", p, built, c)
  BY StackRefs, Zenon
<1>0. "Workload" # "Service"
  OBVIOUS
<1>2. ASSUME NEW w \in workloads PROVE Stack!FilesOpened(p, w.name) \subseteq w.refs \cup KnownUnmounted(p)
  <2>1. w \in built /\ w.kind = "Workload" /\ Fits(p, w)
    BY StackFits, Zenon
  <2> QED BY <1>0, <2>1, Zenon DEF Fits, Backed, Routed, Mounts
<1>3. ASSUME NEW o \in services PROVE PointsAt(o, workloads)
  <2>1. o \in built /\ o.kind = "Service" /\ Fits(p, o)
    BY StackFits, Zenon
  <2>2. Backed(p, o)
    BY <1>0, <2>1, Zenon DEF Fits, Routed
  <2> QED BY <2>2, Zenon DEF Backed
<1>4. ASSUME NEW o \in built \ (workloads \cup services) PROVE PointsAt(o, services)
  <2>1. o \in built /\ o.kind # "Service" /\ o.kind # "Workload" /\ Fits(p, o)
    BY StackFits, Zenon
  <2>2. Routed(p, o)
    BY <2>1, Zenon DEF Fits, Backed
  <2> QED BY <2>2, Zenon DEF Routed
<1> HIDE DEF built, workloads, services, PointsAt
<1>5. /\ \A o \in built : o.refs \subseteq Offer("TempoStack", p, built, c)
      /\ \A w \in workloads : Stack!FilesOpened(p, w.name) \subseteq w.refs \cup KnownUnmounted(p)
      /\ \A o \in services : PointsAt(o, workloads)
      /\ \A o \in built \ (workloads \cup services) : PointsAt(o, services)
  BY <1>1, <1>2, <1>3, <1>4, Zenon
<1> QED BY <1>5 DEF built, workloads, services, PointsAt

LEMMA MonoResolves ==
  ASSUME NEW p, NEW c, SoundMono(p, c)
  PROVE  LET built     == Mono!BuildAll(p)
             workloads == {o \in built : o.kind = "Workload"}
             services  == {o \in built : o.kind = "Service"}
             PointsAt(o, targets) == \A port \in o.ports : \/ <<o.name, port>> \in KnownDangling
                                                          \/ \E t \in targets : t.name = o.selects /\ port \in t.ports
         IN  /\ \A o \in built : o.refs \subseteq Offer("TempoMonolithic", p, built, c)
             /\ \A w \in workloads : Mono!FilesOpened(p) \subseteq w.refs \cup KnownUnmounted(p)
             /\ \A o \in services : PointsAt(o, workloads)
             /\ \A o \in built \ (workloads \cup services) : PointsAt(o, services)
<1> DEFINE built     == Mono!BuildAll(p)
           workloads == {o \in built : o.kind = "Workload"}
           services  == {o \in built : o.kind = "Service"}
           PointsAt(o, targets) == \A port \in o.ports : \/ <<o.name, port>> \in KnownDangling
                                                        \/ \E t \in targets : t.name = o.selects /\ port \in t.ports
           pod == Mono!BuildTempoStatefulset(p)
<1>0. "Workload" # "Service"
  OBVIOUS
<1>1. \A o \in built : o.refs \subseteq Offer("TempoMonolithic", p, built, c)
  BY MonoRefs, Zenon
<1>2. pod \in built /\ pod.kind = "Workload" /\ pod.name = "tempo"
  BY MonoParts, StatefulsetPorts, Zenon
<1>3. ASSUME NEW w \in workloads PROVE Mono!FilesOpened(p) \subseteq w.refs \cup KnownUnmounted(p)
  <2>1. w \in built /\ w.kind = "Workload" /\ MonoFits(p, w)
    BY MonolithicFits, Zenon
  <2>2. w = pod
    BY <1>0, <2>1, Zenon DEF MonoFits, MonoBacked, MonoRouted
  <2> QED BY <2>2, MonoMounts, Zenon
<1>4. ASSUME NEW o \in services PROVE PointsAt(o, workloads)
  <2>1. o \in built /\ o.kind = "Service" /\ MonoFits(p, o)
    BY MonolithicFits, Zenon
  <2>2. MonoBacked(p, o)
    BY <1>0, <1>2, <2>1, Zenon DEF MonoFits, MonoRouted
  <2>3. pod \in workloads /\ pod.name = o.selects /\ o.ports \subseteq pod.ports
    BY <1>2, <2>2, Zenon DEF MonoBacked
  <2> HIDE DEF pod, workloads
  <2> QED BY <2>3, Zenon
<1>5. ASSUME NEW o \in built \ (workloads \cup services) PROVE PointsAt(o, services)
  <2>1. o \in built /\ o.kind # "Service" /\ o.kind # "Workload" /\ MonoFits(p, o)
    BY MonolithicFits, Zenon
  <2>2. MonoRouted(p, o)
    BY <1>2, <2>1, Zenon DEF MonoFits, MonoBacked
  <2> QED BY <2>2, Zenon DEF MonoRouted
<1> HIDE DEF built, workloads, services, PointsAt
<1>6. /\ \A o \in built : o.refs \subseteq Offer("TempoMonolithic", p, built, c)
      /\ \A w \in workloads : Mono!FilesOpened(p) \subseteq w.refs \cup KnownUnmounted(p)
      /\ \A o \in services : PointsAt(o, workloads)
      /\ \A o \in built \ (workloads \cup services) : PointsAt(o, services)
  BY <1>1, <1>3, <1>4, <1>5, Zenon
<1> QED BY <1>6 DEF built, workloads, services, PointsAt

LEMMA SoundResolves == ASSUME ResolvedInv PROVE ReferencesResolve
<1> SUFFICES ASSUME NEW k \in Kinds, Deployed(k)
             PROVE  LET p         == done[k].p
                        built     == Built(k)
                        available == Available(k, built) \cup KnownUnresolved(p)
                        workloads == {o \in built : o.kind = "Workload"}
                        services  == {o \in built : o.kind = "Service"}
                        PointsAt(o, targets) == \A port \in o.ports : \/ <<o.name, port>> \in KnownDangling
                                                                     \/ \E t \in targets : t.name = o.selects /\ port \in t.ports
                    IN  /\ \A o \in built : o.refs \subseteq available
                        /\ \A w \in workloads : Opened(k, w.name) \subseteq w.refs \cup KnownUnmounted(p)
                        /\ \A o \in services : PointsAt(o, workloads)
                        /\ \A o \in built \ (workloads \cup services) : PointsAt(o, services)
  BY Zenon DEF ReferencesResolve
<1>1. Sound(k, done[k].p, creq[k])
  BY Zenon DEF ResolvedInv
<1>2. \A b : Available(k, b) \cup KnownUnresolved(done[k].p) = Offer(k, done[k].p, b, creq[k])
  BY Zenon DEF Available, Offer, FromCCO, Credentials
<1>3. CASE k = "TempoStack"
  <2>1. SoundStack(done[k].p, creq[k]) /\ Built(k) = Stack!BuildAll(done[k].p)
    BY <1>1, <1>3, Zenon DEF Sound, Built
  <2>2. \A w : Opened(k, w) = Stack!FilesOpened(done[k].p, w)
    BY <1>3, Zenon DEF Opened
  <2> QED BY <1>2, <1>3, <2>1, <2>2, StackResolves
<1>4. CASE k # "TempoStack"
  <2>0. k = "TempoMonolithic"
    BY <1>4 DEF Kinds
  <2>1. SoundMono(done[k].p, creq[k]) /\ Built(k) = Mono!BuildAll(done[k].p)
    BY <1>1, <1>4, Zenon DEF Sound, Built
  <2>2. \A w : Opened(k, w) = Mono!FilesOpened(done[k].p)
    BY <1>4, Zenon DEF Opened
  <2> QED BY <1>2, <2>0, <2>1, <2>2, MonoResolves
<1> QED BY <1>3, <1>4, Zenon

\* Whatever a deployed CR was built from, its pods can start and its traffic
\* can arrive, for every spec, every edit and every environment, provided
\* that the operator makes certificates when it encrypts: what its objects
\* refer to is there with the keys that are read, the files that Tempo's
\* configuration names are mounted, and every Service, Ingress, Route and
\* ServiceMonitor points at a port that exists, but for the known defects.
THEOREM ReferencesSafe ==
  ASSUME \A g \in Profiles : g.http \/ g.grpc => g.certs
  PROVE  Spec => []ReferencesResolve
<1>1. ASSUME Init PROVE ResolvedInv
  <2>1. \A k \in Kinds : ~crs[k].exists /\ ~Deployed(k)
    BY <1>1, NoCRType DEF Init, Deployed
  <2> QED BY <2>1, Zenon DEF ResolvedInv
<1>2. ASSUME AdmissionInv, AdmissionInv', PassTypes, DeployedInv, ResolvedInv, [Next]_vars PROVE ResolvedInv'
  <2>1. \A k \in Kinds : crs'[k].exists => Coherent(k, crs'[k].spec)
    BY <1>2, CoherentStep, Zenon DEF ResolvedInv
  <2>2. \A k \in Kinds : done'[k].p # NoParams => Sound(k, done'[k].p, creq'[k])
    BY <1>2, SoundStep, Zenon
  <2> QED BY <2>1, <2>2, Zenon DEF ResolvedInv, Deployed
<1>3. ResolvedInv => ReferencesResolve
  BY SoundResolves
<1> QED BY <1>1, <1>2, <1>3, Admission, Passes, DeployedSafe, PTL DEF Spec
=============================================================================
