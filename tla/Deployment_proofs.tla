------------------------- MODULE Deployment_proofs -------------------------
(***************************************************************************)
(* What admission and the deployed objects promise, proved for every spec  *)
(* the CRDs accept, every edit, every ProjectConfig and every environment. *)
(* The theorems are OwnWrites, TypeCorrect, AdmittedDeploys, EntryPoints   *)
(* and ConnectedSafe.  All but EntryPoints rest on                         *)
(* AdmissionInv: at most one of the two kinds exists, and a CR that was    *)
(* written under the present gates and environment is one that the         *)
(* webhooks would accept again, unchanged.                                 *)
(***************************************************************************)
EXTENDS Deployment, TLAPS

\* What the CRD of a kind accepts.
Specs(k) == IF k = "TempoStack" THEN T!TempoStackSpec ELSE T!TempoMonolithicSpec

\* A CR in the API server, of either kind.
CRs == [exists : BOOLEAN, spec : T!TempoStackSpec \cup T!TempoMonolithicSpec \cup {<<>>},
        finalizer : BOOLEAN, deleting : BOOLEAN, fresh : BOOLEAN]

\* Every CR is one its CRD accepts, and a TempoStack went through the
\* defaulter.
CRsOK ==
  /\ crs \in [Kinds -> CRs]
  /\ \A k \in Kinds : crs[k].exists => crs[k].spec \in Specs(k)
  /\ crs["TempoStack"].exists => HasDefaults(crs["TempoStack"].spec)

\* The two webhooks look for each other's kind, so that the objects of a
\* TempoStack and of a TempoMonolithic never share their names.
OneKind == ~(crs["TempoStack"].exists /\ crs["TempoMonolithic"].exists)

\* The validator has nothing against s, and the defaulter nothing to add.
Accepts(k, s) ==
  IF k = "TempoStack" THEN Stack!validate(s, gates, Seen) = {} /\ Stack!Default(s, gates) = s
                      ELSE Mono!validateTempoMonolithic(s, gates, Seen) = {}

\* A CR whose gates and environment have not changed since it was written is
\* one that admission would accept again, without a warning about its storage.
FreshAccepted ==
  \A k \in Kinds : crs[k].exists /\ crs[k].fresh => Accepts(k, crs[k].spec) /\ ~Warned(k, crs[k].spec)

\* The inductive invariant of admission.
AdmissionInv == CRsOK /\ OneKind /\ FreshAccepted

\* What one stage of a pass, and what a whole pass, may end with.
Results == {"ok", "config", "error", "panic"}
Outcomes == {"none", "ready", "config", "error", "panic"}

----------------------------------------------------------------------------
\* The replication factor that the ring is configured with is never 0.
LEMMA RFType == ASSUME NEW s \in T!TempoStackSpec
  PROVE  Stack!effectiveRF(s) \in Nat \ {0}
  BY DEF Stack!effectiveRF, Stack!Or, Stack!ReplicationFactorForSize, T!TempoStackSpec, Stack!ValidSizes

LEMMA QuorumType == ASSUME NEW n \in Nat PROVE Stack!Quorum(n) \in Nat \ {0}
  BY DEF Stack!Quorum

LEMMA ReplicasForType == ASSUME NEW s, NEW c
  PROVE Stack!ReplicasForComponent(s, c) \in Nat
  BY DEF Stack!ReplicasForComponent

\* defaultReplicas fills in every component but the metrics-generator.
LEMMA ReplicasDefault == ASSUME NEW s \in T!TempoStackSpec
  PROVE /\ Stack!defaultReplicas(s) \in [T!Components -> Nat]
        /\ \A c \in T!Components \ {"metrics-generator"} : Stack!defaultReplicas(s)[c] # 0
<1>1. \A c \in T!Components : s.replicas[c] \in Nat
  BY DEF T!TempoStackSpec
<1>2. Stack!Components = T!Components
  BY DEF Stack!Components, T!Components
<1>3. Stack!Quorum(Stack!effectiveRF(s)) \in Nat \ {0}
  BY RFType, QuorumType
<1>4. ASSUME NEW c \in T!Components
      PROVE /\ Stack!defaultReplicas(s)[c] \in Nat
            /\ c # "metrics-generator" => Stack!defaultReplicas(s)[c] # 0
  <2>0. ASSUME NEW n \in Nat, Stack!defaultReplicas(s)[c] = Stack!Or(s.replicas[c], n), n # 0 \/ c = "metrics-generator"
        PROVE  /\ Stack!defaultReplicas(s)[c] \in Nat
               /\ c # "metrics-generator" => Stack!defaultReplicas(s)[c] # 0
    BY <2>0, <1>1 DEF Stack!Or
  <2>1. CASE c = "ingester"
    <3>1. Stack!defaultReplicas(s)[c] = Stack!Or(s.replicas[c], IF s.size # "unset" THEN Stack!Quorum(Stack!effectiveRF(s)) ELSE 1)
      BY <1>2, <2>1 DEF Stack!defaultReplicas
    <3>2. (IF s.size # "unset" THEN Stack!Quorum(Stack!effectiveRF(s)) ELSE 1) \in Nat \ {0}
      BY <1>3
    <3> QED BY <3>1, <3>2, <2>0
  <2>2. CASE c = "metrics-generator"
    <3>1. Stack!defaultReplicas(s)[c] = Stack!Or(s.replicas[c], Stack!ReplicasForComponent(s.size, c))
      BY <1>2, <2>2 DEF Stack!defaultReplicas
    <3>2. Stack!ReplicasForComponent(s.size, c) \in Nat
      BY ReplicasForType
    <3> QED BY <3>1, <3>2, <2>2, <2>0
  <2>3. CASE c # "ingester" /\ c # "metrics-generator"
    <3>1. Stack!defaultReplicas(s)[c] = Stack!Or(s.replicas[c], Stack!Or(Stack!ReplicasForComponent(s.size, c), 1))
      BY <1>2, <2>3 DEF Stack!defaultReplicas
    <3>2. Stack!Or(Stack!ReplicasForComponent(s.size, c), 1) \in Nat \ {0}
      BY ReplicasForType DEF Stack!Or
    <3> QED BY <3>1, <3>2, <2>0
  <2> QED BY <2>1, <2>2, <2>3
<1> QED
  BY <1>2, <1>4 DEF Stack!defaultReplicas

\* The blocks of Default, one by one: what each keeps and what it promises.
LEMMA GatewayDefault == ASSUME NEW s \in T!TempoStackSpec
  PROVE  /\ Stack!defaultGateway(s) \in T!TempoGatewaySpec
         /\ Stack!defaultGateway(s).ingress = "route" => Stack!defaultGateway(s).termination # "unset"
<1>1. s.gateway \in T!TempoGatewaySpec
  BY DEF T!TempoStackSpec
<1> QED
  BY <1>1 DEF Stack!defaultGateway, T!TempoGatewaySpec, T!IngressType, T!TLSRouteType

LEMMA JaegerDefault == ASSUME NEW s \in T!TempoStackSpec, NEW g
  PROVE  /\ Stack!defaultJaeger(s, g) \in T!JaegerQuerySpec
         /\ Stack!defaultJaeger(s, g).ingress = "route" => Stack!defaultJaeger(s, g).termination # "unset"
<1>1. s.jaeger \in T!JaegerQuerySpec
  BY DEF T!TempoStackSpec
<1> QED
  BY <1>1 DEF Stack!defaultJaeger, T!JaegerQuerySpec, T!IngressType, T!TLSRouteType, T!Optional

LEMMA GeneratorDefault == ASSUME NEW s \in T!TempoStackSpec
  PROVE  Stack!defaultGenerator(s) \in T!TempoMetricsGeneratorSpec
<1>1. s.generator \in T!TempoMetricsGeneratorSpec
  BY DEF T!TempoStackSpec
<1> QED
  BY <1>1 DEF Stack!defaultGenerator, T!TempoMetricsGeneratorSpec

LEMMA PSCDefault == ASSUME NEW s \in T!TempoStackSpec, NEW g
  PROVE  Stack!DefaultedPSC(s, g) \in SUBSET T!Components
  BY DEF Stack!DefaultedPSC, T!TempoStackSpec, T!Components, Stack!Components

\* The fields of what Default returns.
LEMMA DefaultFields == ASSUME NEW s \in T!TempoStackSpec, NEW g
  PROVE  LET d == Stack!Default(s, g) IN
         /\ d \in T!TempoStackSpec
         /\ d.sa = Stack!defaultServiceAccount(s)
         /\ d.filled = Stack!Scalars
         /\ d.replicas = Stack!defaultReplicas(s)
         /\ d.rf = Stack!effectiveRF(s)
         /\ d.gateway = Stack!defaultGateway(s)
         /\ d.jaeger = Stack!defaultJaeger(s, g)
         /\ d.generator = Stack!defaultGenerator(s)
         /\ d.psc = Stack!DefaultedPSC(s, g)
         /\ d.size = s.size /\ d.tenants = s.tenants
<1> DEFINE d == Stack!Default(s, g)
<1>1. /\ Stack!defaultReplicas(s) \in [T!Components -> Nat]
      /\ Stack!effectiveRF(s) \in Nat
      /\ Stack!defaultGateway(s) \in T!TempoGatewaySpec
      /\ Stack!defaultJaeger(s, g) \in T!JaegerQuerySpec
      /\ Stack!defaultGenerator(s) \in T!TempoMetricsGeneratorSpec
      /\ Stack!DefaultedPSC(s, g) \in SUBSET T!Components
  BY ReplicasDefault, RFType, GatewayDefault, JaegerDefault, GeneratorDefault, PSCDefault
<1>2. Stack!Scalars = T!Scalars
  BY DEF Stack!Scalars, T!Scalars
<1>3. Stack!defaultServiceAccount(s) \in {"unset", "default", "custom"}
  BY DEF Stack!defaultServiceAccount, T!TempoStackSpec
<1>4. d \in T!TempoStackSpec
  BY <1>1, <1>2, <1>3, Zenon DEF Stack!Default, T!TempoStackSpec
<1>5. /\ d.sa = Stack!defaultServiceAccount(s)
      /\ d.filled = Stack!Scalars
      /\ d.replicas = Stack!defaultReplicas(s)
      /\ d.rf = Stack!effectiveRF(s)
  BY Zenon DEF Stack!Default, T!TempoStackSpec
<1>6. /\ d.gateway = Stack!defaultGateway(s)
      /\ d.jaeger = Stack!defaultJaeger(s, g)
      /\ d.generator = Stack!defaultGenerator(s)
      /\ d.psc = Stack!DefaultedPSC(s, g)
      /\ d.size = s.size /\ d.tenants = s.tenants
  BY Zenon DEF Stack!Default, T!TempoStackSpec
<1> QED BY <1>4, <1>5, <1>6, Zenon

\* Default changes nothing when none of its blocks does ...
LEMMA FixedWhenFieldsAre == ASSUME NEW d \in T!TempoStackSpec, NEW g,
         d.sa = Stack!defaultServiceAccount(d),
         d.filled = Stack!Scalars,
         d.replicas = Stack!defaultReplicas(d),
         d.rf = Stack!effectiveRF(d),
         d.gateway = Stack!defaultGateway(d),
         d.jaeger = Stack!defaultJaeger(d, g),
         d.generator = Stack!defaultGenerator(d),
         d.psc = Stack!DefaultedPSC(d, g)
  PROVE  Stack!Default(d, g) = d
  BY Zenon DEF Stack!Default, T!TempoStackSpec

\* ... which is so for what it returned: Default is idempotent, whatever the
\* gates.  The size, the replication factor and the replicas depend on one
\* another, so this is not a block-by-block argument.
LEMMA DefaultIdempotent == ASSUME NEW s \in T!TempoStackSpec, NEW g
  PROVE  Stack!Default(Stack!Default(s, g), g) = Stack!Default(s, g)
<1> DEFINE d == Stack!Default(s, g)
<1> HIDE DEF d
<1>1. /\ d \in T!TempoStackSpec
      /\ d.sa = Stack!defaultServiceAccount(s)
      /\ d.filled = Stack!Scalars
      /\ d.replicas = Stack!defaultReplicas(s)
      /\ d.rf = Stack!effectiveRF(s)
      /\ d.gateway = Stack!defaultGateway(s)
      /\ d.jaeger = Stack!defaultJaeger(s, g)
      /\ d.generator = Stack!defaultGenerator(s)
      /\ d.psc = Stack!DefaultedPSC(s, g)
      /\ d.size = s.size /\ d.tenants = s.tenants
  BY DefaultFields DEF d
<1>2. d.sa = Stack!defaultServiceAccount(d)
  BY <1>1 DEF Stack!defaultServiceAccount, T!TempoStackSpec
<1>3. d.rf = Stack!effectiveRF(d)
  BY <1>1, RFType DEF Stack!effectiveRF
<1>4. d.replicas = Stack!defaultReplicas(d)
  <2>0. Stack!Components = T!Components
    BY DEF Stack!Components, T!Components
  <2>1. /\ d.replicas \in [T!Components -> Nat]
        /\ Stack!defaultReplicas(d) \in [T!Components -> Nat]
        /\ \A c \in T!Components \ {"metrics-generator"} : d.replicas[c] # 0
    BY <1>1, ReplicasDefault
  <2>2. ASSUME NEW c \in T!Components, c # "metrics-generator"
        PROVE  Stack!defaultReplicas(d)[c] = d.replicas[c]
    <3>1. \A n : Stack!Or(d.replicas[c], n) = d.replicas[c]
      BY <2>1, <2>2 DEF Stack!Or
    <3>2. CASE c = "ingester"
      <4>1. Stack!defaultReplicas(d)[c] = Stack!Or(d.replicas[c], IF d.size # "unset" THEN Stack!Quorum(Stack!effectiveRF(d)) ELSE 1)
        BY <2>0, <3>2 DEF Stack!defaultReplicas
      <4> QED BY <4>1, <3>1
    <3>3. CASE c # "ingester"
      <4>1. Stack!defaultReplicas(d)[c] = Stack!Or(d.replicas[c], Stack!Or(Stack!ReplicasForComponent(d.size, c), 1))
        BY <2>0, <2>2, <3>3 DEF Stack!defaultReplicas
      <4> QED BY <4>1, <3>1
    <3> QED BY <3>2, <3>3
  <2>3. ASSUME NEW c \in T!Components, c = "metrics-generator"
        PROVE  Stack!defaultReplicas(d)[c] = d.replicas[c]
    <3>1. /\ Stack!defaultReplicas(d)[c] = Stack!Or(d.replicas[c], Stack!ReplicasForComponent(d.size, c))
          /\ Stack!defaultReplicas(s)[c] = Stack!Or(s.replicas[c], Stack!ReplicasForComponent(s.size, c))
      BY <2>0, <2>3 DEF Stack!defaultReplicas
    <3> QED BY <3>1, <1>1 DEF Stack!Or
  <2> QED BY <2>1, <2>2, <2>3
<1>5. d.gateway = Stack!defaultGateway(d)
  <2>1. d.gateway \in T!TempoGatewaySpec
    BY <1>1, GatewayDefault
  <2>2. /\ s.gateway \in T!TempoGatewaySpec
        /\ d.tenants = s.tenants
    BY <1>1 DEF T!TempoStackSpec
  <2>3. /\ d.gateway.ingress = IF s.tenants.mode = "openshift" /\ s.gateway.ingress = "unset" THEN "route" ELSE s.gateway.ingress
        /\ d.gateway.ingress = "route" => d.gateway.termination # "unset"
    BY <1>1, <2>2, GatewayDefault DEF Stack!defaultGateway, T!TempoGatewaySpec
  <2> QED BY <2>1, <2>2, <2>3 DEF Stack!defaultGateway, T!TempoGatewaySpec
<1>6. d.jaeger = Stack!defaultJaeger(d, g)
  <2>1. d.jaeger \in T!JaegerQuerySpec
    BY <1>1, JaegerDefault
  <2>2. s.jaeger \in T!JaegerQuerySpec
    BY DEF T!TempoStackSpec
  <2>3. /\ d.jaeger.ingress = s.jaeger.ingress
        /\ d.jaeger.ingress = "route" => d.jaeger.termination # "unset"
        /\ d.jaeger.auth = IF g.oauthDefault /\ s.jaeger.auth = "nil" /\ s.jaeger.ingress = "route"
                           THEN "on" ELSE s.jaeger.auth
    <3>1. d.jaeger.ingress = s.jaeger.ingress
      BY <1>1, <2>2, Zenon DEF Stack!defaultJaeger, T!JaegerQuerySpec
    <3>2. d.jaeger.auth = IF g.oauthDefault /\ s.jaeger.auth = "nil" /\ s.jaeger.ingress = "route"
                          THEN "on" ELSE s.jaeger.auth
      BY <1>1, <2>2, Zenon DEF Stack!defaultJaeger, T!JaegerQuerySpec
    <3>3. d.jaeger.ingress = "route" => d.jaeger.termination # "unset"
      BY <1>1, JaegerDefault, Zenon
    <3> QED BY <3>1, <3>2, <3>3, Zenon
  <2>4. d.jaeger.sar = (s.jaeger.sar \/ d.jaeger.auth = "on")
    BY <1>1, <2>2, Zenon DEF Stack!defaultJaeger, T!JaegerQuerySpec
  <2>5. d.jaeger.auth = "on" => d.jaeger.sar
    BY <2>4, Zenon
  <2> QED BY <2>1, <2>2, <2>3, <2>5 DEF Stack!defaultJaeger, T!JaegerQuerySpec
<1>7. d.generator = Stack!defaultGenerator(d)
  <2>1. s.generator \in T!TempoMetricsGeneratorSpec /\ d.generator \in T!TempoMetricsGeneratorSpec
    BY <1>1 DEF T!TempoStackSpec
  <2>2. d.generator.enabled = s.generator.enabled /\ (d.generator.enabled => d.generator.processors)
    BY <1>1, <2>1 DEF Stack!defaultGenerator, T!TempoMetricsGeneratorSpec
  <2> QED BY <2>1, <2>2 DEF Stack!defaultGenerator, T!TempoMetricsGeneratorSpec
<1>8. d.psc = Stack!DefaultedPSC(d, g)
  BY <1>1 DEF Stack!DefaultedPSC
<1>9. Stack!Default(d, g) = d
  BY <1>1, <1>2, <1>3, <1>4, <1>5, <1>6, <1>7, <1>8, FixedWhenFieldsAre
<1> QED BY <1>9 DEF d

\* What Default returns has the values that the manifests rely on.
LEMMA DefaultPromises == ASSUME NEW s \in T!TempoStackSpec, NEW g
  PROVE  Stack!Default(s, g) \in T!TempoStackSpec /\ HasDefaults(Stack!Default(s, g))
<1> DEFINE d == Stack!Default(s, g)
<1>1. /\ d \in T!TempoStackSpec
      /\ d.sa = Stack!defaultServiceAccount(s)
      /\ d.filled = Stack!Scalars
      /\ d.replicas = Stack!defaultReplicas(s)
      /\ d.rf = Stack!effectiveRF(s)
      /\ d.gateway = Stack!defaultGateway(s)
      /\ d.jaeger = Stack!defaultJaeger(s, g)
  BY DefaultFields, Zenon
<1> HIDE DEF d
<1>2. d.sa # "unset" /\ d.filled = T!Scalars /\ d.rf # 0
  BY <1>1, RFType DEF Stack!defaultServiceAccount, Stack!Scalars, T!Scalars
<1>3. \A c \in T!Components \ {"metrics-generator"} : d.replicas[c] # 0
  BY <1>1, ReplicasDefault, Zenon
<1>4. \A r \in {d.jaeger, d.gateway} : r.ingress = "route" => r.termination # "unset"
  BY <1>1, GatewayDefault, JaegerDefault
<1> QED BY <1>1, <1>2, <1>3, <1>4, Zenon DEF HasDefaults, d

----------------------------------------------------------------------------
\* An edit of one spec of the CRD is an edit of every spec of it.
LEMMA StackEdited == ASSUME NEW s \in T!TempoStackSpec, NEW e \in StackEdits
  PROVE Edited(s, e) \in T!TempoStackSpec
<1>1. Edited(StackSpec, e) \in T!TempoStackSpec /\ StackSpec \in T!TempoStackSpec
  BY SpecsAssumption
<1>2. DOMAIN s = DOMAIN StackSpec
  BY <1>1 DEF T!TempoStackSpec
<1>3. \A f \in DOMAIN s : Edited(s, e)[f] = IF f \in DOMAIN e THEN Edited(StackSpec, e)[f] ELSE s[f]
  BY <1>2, Zenon DEF Edited
<1>4. Edited(s, e) = [f \in DOMAIN s |-> Edited(s, e)[f]]
  BY DEF Edited
<1> QED
  BY <1>1, <1>3, <1>4, ZenonT(60) DEF T!TempoStackSpec

LEMMA MonoEdited == ASSUME NEW s \in T!TempoMonolithicSpec, NEW e \in MonoEdits
  PROVE Edited(s, e) \in T!TempoMonolithicSpec
<1>1. Edited(MonoSpec, e) \in T!TempoMonolithicSpec /\ MonoSpec \in T!TempoMonolithicSpec
  BY SpecsAssumption
<1>2. DOMAIN s = DOMAIN MonoSpec
  BY <1>1 DEF T!TempoMonolithicSpec
<1>3. \A f \in DOMAIN s : Edited(s, e)[f] = IF f \in DOMAIN e THEN Edited(MonoSpec, e)[f] ELSE s[f]
  BY <1>2, Zenon DEF Edited
<1>4. Edited(s, e) = [f \in DOMAIN s |-> Edited(s, e)[f]]
  BY DEF Edited
<1> QED
  BY <1>1, <1>3, <1>4 DEF T!TempoMonolithicSpec

----------------------------------------------------------------------------
\* Neither the defaulter nor the API server changes more of a CR than its spec
\* and, here, the record of whether the admission is still current.
LEMMA DefaultedFields ==
  ASSUME NEW k \in Kinds, NEW c \in CRs, c.spec \in Specs(k)
  PROVE  LET d == Defaulted(k, c) IN
         /\ d \in CRs /\ d.spec \in Specs(k)
         /\ d.exists = c.exists /\ d.finalizer = c.finalizer /\ d.deleting = c.deleting /\ d.fresh = c.fresh
         /\ k = "TempoStack" => d.spec = Stack!Default(c.spec, gates) /\ HasDefaults(d.spec)
         /\ k # "TempoStack" => d.spec = c.spec
<1>1. CASE k = "TempoStack"
  <2> DEFINE n == Stack!Default(c.spec, gates)
  <2>1. n \in T!TempoStackSpec /\ HasDefaults(n)
    BY <1>1, DefaultPromises DEF Specs
  <2> HIDE DEF n
  <2>2. Defaulted(k, c) = [c EXCEPT !.spec = n]
    BY <1>1, Zenon DEF Defaulted, n
  <2>3. /\ [c EXCEPT !.spec = n] \in CRs /\ [c EXCEPT !.spec = n].spec = n
        /\ [c EXCEPT !.spec = n].exists = c.exists /\ [c EXCEPT !.spec = n].finalizer = c.finalizer
        /\ [c EXCEPT !.spec = n].deleting = c.deleting /\ [c EXCEPT !.spec = n].fresh = c.fresh
    BY <2>1, Zenon DEF CRs
  <2> QED BY <1>1, <2>1, <2>2, <2>3, Zenon DEF n, Specs
<1>2. CASE k # "TempoStack"
  BY <1>2 DEF Defaulted
<1> QED BY <1>1, <1>2

LEMMA StoredFields ==
  ASSUME NEW k \in Kinds, NEW c \in CRs, c.spec \in Specs(k)
  PROVE  LET d == Stored(k, c) IN
         /\ d \in CRs /\ d.spec \in Specs(k)
         /\ d.exists = c.exists /\ d.spec = Defaulted(k, c).spec
         /\ d.fresh = ~Warned(k, Defaulted(k, c).spec)
         /\ k = "TempoStack" => HasDefaults(d.spec)
<1> DEFINE d == Defaulted(k, c)
           w == ~Warned(k, d.spec)
<1>1. d \in CRs /\ d.spec \in Specs(k) /\ d.exists = c.exists /\ (k = "TempoStack" => HasDefaults(d.spec))
  BY DefaultedFields, Zenon
<1>2. Stored(k, c) = [d EXCEPT !.fresh = w]
  BY Zenon DEF Stored
<1>3. w \in BOOLEAN
  BY Zenon DEF Warned
<1> HIDE DEF d, w
<1>4. /\ [d EXCEPT !.fresh = w] \in CRs /\ [d EXCEPT !.fresh = w].spec = d.spec
      /\ [d EXCEPT !.fresh = w].exists = d.exists /\ [d EXCEPT !.fresh = w].fresh = w
  BY <1>1, <1>3, Zenon DEF CRs
<1> QED BY <1>1, <1>2, <1>4, Zenon DEF d, w

\* What the validators read of the environment.
LEMMA StackSeen == ASSUME NEW s, NEW g, NEW e, NEW f,
    e.secret = f.secret, e.ca = f.ca, e.sa = f.sa, e.permitted = f.permitted, e.monolithic = f.monolithic
  PROVE  Stack!validate(s, g, e) = Stack!validate(s, g, f)
<1>1. /\ Stack!validateServiceAccount(s, e) = Stack!validateServiceAccount(s, f)
      /\ Stack!validateStorage(s, e) = Stack!validateStorage(s, f)
      /\ Stack!validateGateway(s, g, e) = Stack!validateGateway(s, g, f)
      /\ Stack!validateConflictWithMonolithic(e) = Stack!validateConflictWithMonolithic(f)
  BY Zenon DEF Stack!validateServiceAccount, Stack!validateStorage, Stack!StorageOf, Stack!validateGateway,
               Stack!validateConflictWithMonolithic
<1> QED BY <1>1, Zenon DEF Stack!validate

LEMMA MonoSeen == ASSUME NEW s, NEW g, NEW e, NEW f,
    e.secret = f.secret, e.ca = f.ca, e.sa = f.sa, e.permitted = f.permitted, e.stack = f.stack
  PROVE  Mono!validateTempoMonolithic(s, g, e) = Mono!validateTempoMonolithic(s, g, f)
<1>1. ASSUME NEW d
      PROVE  /\ Mono!validateServiceAccount(d, e) = Mono!validateServiceAccount(d, f)
             /\ Mono!validateStorage(d, e) = Mono!validateStorage(d, f)
             /\ Mono!validateMultitenancy(d, e) = Mono!validateMultitenancy(d, f)
             /\ Mono!validateConflictWithTempoStack(e) = Mono!validateConflictWithTempoStack(f)
  BY Zenon DEF Mono!validateServiceAccount, Mono!validateStorage, Mono!StorageOf, Mono!validateMultitenancy,
               Mono!validateConflictWithTempoStack
<1> QED BY <1>1, Zenon DEF Mono!validateTempoMonolithic

\* A CR is refused when the other kind has one of the same name.
LEMMA StackNameFree == ASSUME NEW s, NEW g, NEW e, Stack!validate(s, g, e) = {} PROVE ~e.monolithic
<1>1. Stack!validateConflictWithMonolithic(e) = {}
  BY Zenon DEF Stack!validate
<1> QED BY <1>1 DEF Stack!validateConflictWithMonolithic, Stack!Unless

LEMMA MonoNameFree == ASSUME NEW s, NEW g, NEW e, Mono!validateTempoMonolithic(s, g, e) = {} PROVE ~e.stack
<1>1. Mono!validateConflictWithTempoStack(e) = {}
  BY Zenon DEF Mono!validateTempoMonolithic
<1> QED BY <1>1 DEF Mono!validateConflictWithTempoStack, Mono!Stack!Unless

LEMMA SeenFields ==
  /\ Seen.secret = env.secret /\ Seen.ca = env.ca /\ Seen.sa = env.sa /\ Seen.permitted = env.permitted
  /\ Seen.stack = crs["TempoStack"].exists /\ Seen.monolithic = crs["TempoMonolithic"].exists
  BY Zenon DEF Seen

\* Warnings depend on the gates and the environment only.
LEMMA WarnedKept ==
  ASSUME UNCHANGED <<gates, env>>
  PROVE  \A k, s : Warned(k, s)' = Warned(k, s)
<1>1. Seen'.secret = Seen.secret /\ Seen'.ca = Seen.ca
  BY Zenon DEF Seen
<1>2. gates' = gates
  OBVIOUS
<1>3. ASSUME NEW s
      PROVE  /\ Stack!StorageOf(s, Seen') = Stack!StorageOf(s, Seen)
             /\ Mono!StorageOf(s, Seen') = Mono!StorageOf(s, Seen)
  BY <1>1, Zenon DEF Stack!StorageOf, Mono!StorageOf
<1>4. ASSUME NEW k, NEW s PROVE Warned(k, s)' = Warned(k, s)
  <2>1. CASE k = "TempoStack"
    BY <1>3, <2>1 DEF Warned
  <2>2. CASE k # "TempoStack"
    BY <1>2, <1>3, <2>2 DEF Warned
  <2> QED BY <2>1, <2>2
<1> QED BY <1>4

\* What is admitted would be accepted again as it is stored.
LEMMA AdmittedAccepted ==
  ASSUME NEW k \in Kinds, NEW c \in CRs, c.spec \in Specs(k), ~c.deleting, Admits(k, c)
  PROVE  /\ Accepts(k, Defaulted(k, c).spec)
         /\ ~crs[Other(k)].exists
<1> DEFINE d == Defaulted(k, c)
<1>0. d.deleting = c.deleting /\ (k = "TempoStack" => d.spec = Stack!Default(c.spec, gates))
  BY DefaultedFields, Zenon
<1>1. ~d.deleting
  BY <1>0
<1>2. CASE k = "TempoStack"
  <2>1. Stack!validate(d.spec, gates, Seen) = {}
    BY <1>1, <1>2, Zenon DEF Admits, Valid, Stack!ValidateUpdate, Stack!FinalizerRemoved
  <2>2. Stack!Default(d.spec, gates) = d.spec
    BY <1>0, <1>2, DefaultIdempotent, Zenon DEF Specs
  <2>3. Other(k) = "TempoMonolithic"
    BY <1>2 DEF Other
  <2>4. ~crs["TempoMonolithic"].exists
    BY <2>1, StackNameFree, SeenFields, Zenon
  <2> QED BY <1>2, <2>1, <2>2, <2>3, <2>4, Zenon DEF Accepts
<1>3. CASE k = "TempoMonolithic"
  <2>1. Mono!validateTempoMonolithic(d.spec, gates, Seen) = {}
    BY <1>1, <1>3 DEF Admits, Valid, Mono!ValidateUpdate, Mono!Stack!FinalizerRemoved
  <2>2. Other(k) = "TempoStack" /\ k # "TempoStack"
    BY <1>3 DEF Other
  <2>3. ~crs["TempoStack"].exists
    BY <2>1, MonoNameFree, SeenFields, Zenon
  <2> QED BY <2>1, <2>2, <2>3, Zenon DEF Accepts
<1> QED BY <1>2, <1>3 DEF Kinds

\* Acceptance survives what touches neither the gates, nor the environment,
\* nor the CR of the other kind.
LEMMA AcceptsKept ==
  ASSUME NEW k \in Kinds, NEW s, UNCHANGED <<gates, env>>,
         crs'[Other(k)].exists = crs[Other(k)].exists
  PROVE  Accepts(k, s)' = Accepts(k, s)
<1>1. /\ Seen'.secret = Seen.secret /\ Seen'.ca = Seen.ca /\ Seen'.sa = Seen.sa
      /\ Seen'.permitted = Seen.permitted
  BY Zenon DEF Seen
<1>2. CASE k = "TempoStack"
  <2>1. Seen'.monolithic = Seen.monolithic
    BY <1>2 DEF Seen, Other
  <2>2. Stack!validate(s, gates, Seen') = Stack!validate(s, gates, Seen)
    BY <1>1, <2>1, StackSeen, Zenon
  <2> QED BY <1>2, <2>2, Zenon DEF Accepts
<1>3. CASE k = "TempoMonolithic"
  <2>0. k # "TempoStack"
    BY <1>3
  <2>1. Seen'.stack = Seen.stack
    BY <1>3 DEF Seen, Other
  <2>2. Mono!validateTempoMonolithic(s, gates, Seen') = Mono!validateTempoMonolithic(s, gates, Seen)
    BY <1>1, <2>1, MonoSeen, Zenon
  <2> QED BY <2>0, <2>2, Zenon DEF Accepts
<1> QED BY <1>2, <1>3 DEF Kinds

\* A write that is admitted keeps the invariant, whoever makes it ...
LEMMA WriteAdmission ==
  ASSUME AdmissionInv, NEW k \in Kinds, NEW c \in CRs, c.spec \in Specs(k), c.exists, ~c.deleting,
         Admits(k, c), crs' = [crs EXCEPT ![k] = Stored(k, c)], UNCHANGED <<gates, env>>
  PROVE  AdmissionInv'
<1> DEFINE o == Other(k)
           d == Stored(k, c)
<1>1. /\ d \in CRs /\ d.spec \in Specs(k) /\ d.exists
      /\ d.spec = Defaulted(k, c).spec /\ d.fresh = ~Warned(k, d.spec)
      /\ k = "TempoStack" => HasDefaults(d.spec)
  BY StoredFields, Zenon
<1>2. Accepts(k, d.spec) /\ ~crs[o].exists
  BY <1>1, AdmittedAccepted, Zenon
<1>3. o \in Kinds /\ o # k /\ Kinds = {k, o}
  BY DEF Kinds, Other
<1>4. crs'[k] = d /\ crs'[o] = crs[o] /\ crs' \in [Kinds -> CRs]
  BY <1>1, <1>3, Zenon DEF AdmissionInv, CRsOK
<1>5. CRsOK'
  <2>1. \A j \in Kinds : crs'[j].exists => j = k
    BY <1>2, <1>3, <1>4, Zenon
  <2>2. "TempoStack" \in Kinds
    BY DEF Kinds
  <2> HIDE DEF d
  <2> QED BY <1>1, <1>4, <2>1, <2>2, Zenon DEF CRsOK
<1>6. OneKind'
  <2>1. \A j \in Kinds : crs'[j].exists => j = k
    BY <1>2, <1>3, <1>4, Zenon
  <2>2. "TempoStack" \in Kinds /\ "TempoMonolithic" \in Kinds /\ "TempoStack" # "TempoMonolithic"
    BY DEF Kinds
  <2> QED BY <2>1, <2>2, Zenon DEF OneKind
<1>7. FreshAccepted'
  <2>1. \A j \in Kinds : crs'[j].exists => j = k
    BY <1>2, <1>3, <1>4, Zenon
  <2>2. \A s : Accepts(k, s)' = Accepts(k, s)
    BY <1>3, <1>4, AcceptsKept, Zenon
  <2>3. \A s : Warned(k, s)' = Warned(k, s)
    BY WarnedKept, Zenon
  <2>4. crs'[k].fresh => Accepts(k, crs'[k].spec) /\ ~Warned(k, crs'[k].spec)
    BY <1>1, <1>2, <1>4, Zenon
  <2> QED BY <2>1, <2>2, <2>3, <2>4, Zenon DEF FreshAccepted
<1> QED BY <1>5, <1>6, <1>7 DEF AdmissionInv

\* ... and so does a change of a CR that leaves its spec alone ...
LEMMA KeptAdmission ==
  ASSUME AdmissionInv, UNCHANGED <<gates, env>>, crs' \in [Kinds -> CRs],
         \A j \in Kinds : /\ crs'[j].exists = crs[j].exists /\ crs'[j].fresh = crs[j].fresh
                          /\ crs[j].exists => crs'[j].spec \in Specs(j)
                          /\ crs[j].exists /\ crs[j].fresh => crs'[j].spec = crs[j].spec,
         crs["TempoStack"].exists => HasDefaults(crs'["TempoStack"].spec)
  PROVE  AdmissionInv'
<1>1. "TempoStack" \in Kinds /\ "TempoMonolithic" \in Kinds
  BY DEF Kinds
<1>2. CRsOK'
  BY <1>1, Zenon DEF CRsOK
<1>3. OneKind'
  BY <1>1, Zenon DEF AdmissionInv, OneKind
<1>4. FreshAccepted'
  <2>1. ASSUME NEW k \in Kinds, crs'[k].exists, crs'[k].fresh
        PROVE  Accepts(k, crs'[k].spec) /\ ~Warned(k, crs'[k].spec)
    BY <2>1, Zenon DEF AdmissionInv, FreshAccepted
  <2>2. \A k \in Kinds : Other(k) \in Kinds
    BY DEF Kinds, Other
  <2>3. \A k \in Kinds : \A s : Accepts(k, s)' = Accepts(k, s)
    BY <2>2, AcceptsKept, Zenon
  <2>4. \A k, s : Warned(k, s)' = Warned(k, s)
    BY WarnedKept, Zenon
  <2> QED BY <2>1, <2>3, <2>4, Zenon DEF FreshAccepted
<1> QED BY <1>2, <1>3, <1>4 DEF AdmissionInv

LEMMA NoCRType == NoCR \in CRs /\ ~NoCR.exists /\ ~NoCR.deleting
  BY DEF NoCR, CRs

LEMMA NoneAdmission ==
  ASSUME crs' \in [Kinds -> CRs], \A j \in Kinds : ~crs'[j].exists
  PROVE  AdmissionInv'
<1>1. "TempoStack" \in Kinds
  BY DEF Kinds
<1> QED BY <1>1, Zenon DEF AdmissionInv, CRsOK, OneKind, FreshAccepted

\* ... the removal of a CR ...
LEMMA RemovedAdmission ==
  ASSUME AdmissionInv, NEW k \in Kinds, crs[k].exists, Removed(k)
  PROVE  AdmissionInv'
<1>1. crs \in [Kinds -> CRs] /\ crs' = [crs EXCEPT ![k] = NoCR]
  BY Zenon DEF AdmissionInv, CRsOK, Removed
<1>2. crs' \in [Kinds -> CRs] /\ crs'[k] = NoCR /\ \A j \in Kinds \ {k} : crs'[j] = crs[j]
  BY <1>1, NoCRType, Zenon
<1>3. \A j \in Kinds \ {k} : ~crs[j].exists
  BY DEF AdmissionInv, OneKind, Kinds
<1> QED BY <1>2, <1>3, NoCRType, NoneAdmission, Zenon

\* ... and a change of the gates or of the environment, after which no CR
\* counts as freshly admitted.
LEMMA StaleAdmission == ASSUME AdmissionInv, crs' = Stale PROVE AdmissionInv'
<1>1. crs \in [Kinds -> CRs]
  BY DEF AdmissionInv, CRsOK
<1>2. ASSUME NEW k \in Kinds
      PROVE  /\ crs'[k] \in CRs /\ crs'[k].exists = crs[k].exists /\ crs'[k].spec = crs[k].spec
             /\ crs'[k].fresh = FALSE
  <2>1. crs'[k] = [crs[k] EXCEPT !.fresh = FALSE]
    BY Zenon DEF Stale
  <2>2. ASSUME NEW c \in CRs
        PROVE  LET d == [c EXCEPT !.fresh = FALSE] IN
               d \in CRs /\ d.exists = c.exists /\ d.spec = c.spec /\ d.fresh = FALSE
    BY Zenon DEF CRs
  <2> QED BY <1>1, <2>1, <2>2, Zenon
<1>3. crs' \in [Kinds -> CRs]
  BY <1>2, Zenon DEF Stale
<1>4. "TempoStack" \in Kinds /\ "TempoMonolithic" \in Kinds
  BY DEF Kinds
<1>5. CRsOK'
  BY <1>2, <1>3, <1>4, Zenon DEF AdmissionInv, CRsOK
<1>6. OneKind'
  BY <1>2, <1>4, Zenon DEF AdmissionInv, OneKind
<1>7. FreshAccepted'
  BY <1>2, Zenon DEF FreshAccepted
<1> QED BY <1>5, <1>6, <1>7 DEF AdmissionInv

\* The actions.
LEMMA CreateAdmission == ASSUME AdmissionInv, NEW k \in Kinds, UserCreate(k) PROVE AdmissionInv'
<1> DEFINE new == [NoCR EXCEPT !.exists = TRUE, !.spec = IF k = "TempoStack" THEN StackSpec ELSE MonoSpec]
<1>1. (IF k = "TempoStack" THEN StackSpec ELSE MonoSpec) \in Specs(k)
  BY SpecsAssumption DEF Specs
<1>2. new \in CRs /\ new.spec \in Specs(k) /\ new.exists /\ ~new.deleting
  BY <1>1 DEF NoCR, CRs, Specs
<1>3. Admits(k, new) /\ crs' = [crs EXCEPT ![k] = Stored(k, new)] /\ UNCHANGED <<gates, env>>
  BY Zenon DEF UserCreate
<1> HIDE DEF new
<1> QED BY <1>2, <1>3, WriteAdmission, Zenon

LEMMA EditAdmission ==
  ASSUME AdmissionInv, NEW k \in Kinds, NEW e, \A s \in Specs(k) : Edited(s, e) \in Specs(k), UserEdit(k, e)
  PROVE  AdmissionInv'
<1> DEFINE c == crs[k]
           n == Edited(c.spec, e)
           new == [c EXCEPT !.spec = n]
<1>1. c \in CRs /\ c.exists /\ ~c.deleting /\ c.spec \in Specs(k)
  BY Zenon DEF UserEdit, AdmissionInv, CRsOK
<1>2. n \in Specs(k)
  BY <1>1, Zenon
<1>3. Admits(k, new) /\ crs' = [crs EXCEPT ![k] = Stored(k, new)] /\ UNCHANGED <<gates, env>>
  BY Zenon DEF UserEdit
<1> HIDE DEF n, c
<1>4. n \in T!TempoStackSpec \cup T!TempoMonolithicSpec \cup {<<>>}
  BY <1>2 DEF Specs
<1>5. new \in CRs /\ new.spec = n /\ new.exists = c.exists /\ new.deleting = c.deleting
  BY <1>1, <1>4, Zenon DEF CRs
<1> HIDE DEF new
<1> QED BY <1>1, <1>2, <1>3, <1>5, WriteAdmission, Zenon

LEMMA DeleteAdmission == ASSUME AdmissionInv, NEW k \in Kinds, UserDelete(k) PROVE AdmissionInv'
<1>1. CASE crs[k].finalizer
  <2> DEFINE d == [crs[k] EXCEPT !.deleting = TRUE]
  <2>1. crs' = [crs EXCEPT ![k] = d] /\ UNCHANGED <<gates, env>>
    BY <1>1, Zenon DEF UserDelete
  <2>2. crs \in [Kinds -> CRs] /\ crs[k] \in CRs
    BY DEF AdmissionInv, CRsOK
  <2>3. d \in CRs /\ d.exists = crs[k].exists /\ d.spec = crs[k].spec /\ d.fresh = crs[k].fresh
    BY <2>2, Zenon DEF CRs
  <2> HIDE DEF d
  <2>4. crs' \in [Kinds -> CRs] /\ crs'[k] = d /\ \A j \in Kinds \ {k} : crs'[j] = crs[j]
    BY <2>1, <2>2, <2>3, Zenon
  <2>5. \A j \in Kinds : crs'[j].exists = crs[j].exists /\ crs'[j].spec = crs[j].spec /\ crs'[j].fresh = crs[j].fresh
    BY <2>3, <2>4, Zenon
  <2>6. /\ \A j \in Kinds : crs[j].exists => crs[j].spec \in Specs(j)
        /\ crs["TempoStack"].exists => HasDefaults(crs["TempoStack"].spec)
        /\ "TempoStack" \in Kinds
    BY DEF AdmissionInv, CRsOK, Kinds
  <2> QED BY <2>1, <2>4, <2>5, <2>6, KeptAdmission, Zenon
<1>2. CASE ~crs[k].finalizer
  BY <1>2, RemovedAdmission, Zenon DEF UserDelete
<1> QED BY <1>1, <1>2

LEMMA ReconcileAdmission == ASSUME AdmissionInv, NEW k \in Kinds, Reconcile(k) PROVE AdmissionInv'
<1>1. /\ crs \in [Kinds -> CRs] /\ crs[k] \in CRs /\ crs[k].spec \in Specs(k) /\ UNCHANGED <<gates, env>>
      /\ \A j \in Kinds : crs[j].exists => crs[j].spec \in Specs(j)
      /\ crs["TempoStack"].exists => HasDefaults(crs["TempoStack"].spec)
      /\ "TempoStack" \in Kinds
  BY DEF AdmissionInv, CRsOK, Reconcile, Kinds
<1>2. CASE crs' = crs
  BY <1>1, <1>2, KeptAdmission, Zenon
<1>3. CASE crs' = [crs EXCEPT ![k] = Defaulted(k, WithFinalizer(k))]
  <2> DEFINE c == WithFinalizer(k)
             d == Defaulted(k, c)
  <2>1. /\ c \in CRs /\ c.spec = crs[k].spec /\ c.exists = crs[k].exists /\ c.fresh = crs[k].fresh
        /\ c.spec \in Specs(k)
    BY <1>1, Zenon DEF CRs, WithFinalizer
  <2>2. /\ d \in CRs /\ d.spec \in Specs(k) /\ d.exists = c.exists /\ d.fresh = c.fresh
        /\ k = "TempoStack" => d.spec = Stack!Default(c.spec, gates) /\ HasDefaults(d.spec)
        /\ k # "TempoStack" => d.spec = c.spec
    BY <2>1, DefaultedFields, Zenon
  <2> HIDE DEF c, d
  <2>3. crs[k].exists /\ crs[k].fresh => d.spec = crs[k].spec
    BY <2>1, <2>2, Zenon DEF AdmissionInv, FreshAccepted, Accepts
  <2>4. crs' \in [Kinds -> CRs] /\ crs'[k] = d /\ \A j \in Kinds \ {k} : crs'[j] = crs[j]
    BY <1>1, <1>3, <2>2, Zenon DEF d, c
  <2>5. \A j \in Kinds : /\ crs'[j].exists = crs[j].exists /\ crs'[j].fresh = crs[j].fresh
                         /\ crs[j].exists => crs'[j].spec \in Specs(j)
                         /\ crs[j].exists /\ crs[j].fresh => crs'[j].spec = crs[j].spec
    BY <1>1, <2>1, <2>2, <2>3, <2>4, Zenon
  <2>6. crs["TempoStack"].exists => HasDefaults(crs'["TempoStack"].spec)
    BY <1>1, <2>2, <2>4, Zenon
  <2> QED BY <1>1, <2>4, <2>5, <2>6, KeptAdmission, Zenon
<1>4. crs' = crs \/ crs' = [crs EXCEPT ![k] = Defaulted(k, WithFinalizer(k))]
  <2>1. CASE ~Finalizes(k)
    BY <2>1, Zenon DEF Reconcile
  <2>2. CASE Finalizes(k)
    <3>1. crs' = [crs EXCEPT ![k] = IF crs[k].finalizer THEN @ ELSE Defaulted(k, WithFinalizer(k))]
      BY <2>2, Zenon DEF Reconcile
    <3> QED BY <3>1, <1>1
  <2> QED BY <2>1, <2>2
<1> QED BY <1>2, <1>3, <1>4

LEMMA AdmissionStep == ASSUME AdmissionInv, [Next]_vars PROVE AdmissionInv'
<1>1. ASSUME NEW k \in Kinds, UserCreate(k) PROVE AdmissionInv'
  BY <1>1, CreateAdmission
<1>2. ASSUME NEW k \in Kinds, UserDelete(k) PROVE AdmissionInv'
  BY <1>2, DeleteAdmission
<1>3. ASSUME NEW k \in Kinds, Reconcile(k) PROVE AdmissionInv'
  BY <1>3, ReconcileAdmission
<1>4. ASSUME NEW k \in Kinds, ReconcileDeletion(k) PROVE AdmissionInv'
  BY <1>4, RemovedAdmission, Zenon DEF ReconcileDeletion
<1>5. ASSUME NEW e \in StackEdits, UserEdit("TempoStack", e) PROVE AdmissionInv'
  <2>1. "TempoStack" \in Kinds /\ \A s \in Specs("TempoStack") : Edited(s, e) \in Specs("TempoStack")
    BY StackEdited DEF Kinds, Specs
  <2> QED BY <1>5, <2>1, EditAdmission, Zenon
<1>6. ASSUME NEW e \in MonoEdits, UserEdit("TempoMonolithic", e) PROVE AdmissionInv'
  <2>1. "TempoMonolithic" \in Kinds /\ \A s \in Specs("TempoMonolithic") : Edited(s, e) \in Specs("TempoMonolithic")
    BY MonoEdited DEF Kinds, Specs
  <2> QED BY <1>6, <2>1, EditAdmission, Zenon
<1>7. ASSUME NEW d \in Disturbances, EnvChange(d) PROVE AdmissionInv'
  BY <1>7, StaleAdmission, Zenon DEF EnvChange
<1>8. ASSUME NEW g \in Profiles, OperatorReconfigure(g) PROVE AdmissionInv'
  BY <1>8, StaleAdmission, Zenon DEF OperatorReconfigure
<1>9. CASE UNCHANGED vars
  <2>1. gates' = gates /\ env' = env /\ crs' = crs
    BY <1>9 DEF vars
  <2> QED BY <2>1, KeptAdmission, Zenon DEF AdmissionInv, CRsOK
<1> QED BY <1>1, <1>2, <1>3, <1>4, <1>5, <1>6, <1>7, <1>8, <1>9, Zenon DEF Next

LEMMA InitAdmission == ASSUME Init PROVE AdmissionInv
<1>1. \A k \in Kinds : crs[k] = NoCR
  BY DEF Init
<1>2. crs \in [Kinds -> CRs] /\ "TempoStack" \in Kinds
  BY NoCRType DEF Init, Kinds
<1> QED BY <1>1, <1>2, NoCRType, Zenon DEF AdmissionInv, CRsOK, OneKind, FreshAccepted

LEMMA Admission == Spec => []AdmissionInv
<1> QED BY InitAdmission, AdmissionStep, PTL DEF Spec

\* The operator writes back the finalizer, or nothing: as the spec is the one
\* the validator accepted and the defaulter left alone, it is accepted again.
LEMMA AcceptedWrites == ASSUME AdmissionInv PROVE OwnWritesAdmitted
<1> SUFFICES ASSUME NEW k \in Kinds, crs[k].exists, ~crs[k].deleting, crs[k].fresh
             PROVE  Admits(k, WithFinalizer(k)) /\ Defaulted(k, WithFinalizer(k)).spec = crs[k].spec
  BY Zenon DEF OwnWritesAdmitted
<1> DEFINE c == WithFinalizer(k)
           d == Defaulted(k, c)
<1>1. /\ crs[k] \in CRs /\ crs[k].spec \in Specs(k) /\ Accepts(k, crs[k].spec)
  BY DEF AdmissionInv, CRsOK, FreshAccepted
<1>2. c \in CRs /\ c.spec = crs[k].spec /\ c.spec \in Specs(k)
  BY <1>1, Zenon DEF CRs, WithFinalizer
<1>3. /\ k = "TempoStack" => d.spec = Stack!Default(c.spec, gates)
      /\ k # "TempoStack" => d.spec = c.spec
  BY <1>2, DefaultedFields, Zenon
<1>4. d.spec = crs[k].spec
  BY <1>1, <1>2, <1>3, Zenon DEF Accepts
<1>5. Admits(k, c)
  <2>1. CASE k = "TempoStack"
    BY <1>1, <1>4, <2>1, Zenon DEF Accepts, Admits, Valid, Stack!ValidateUpdate
  <2>2. CASE k # "TempoStack"
    BY <1>1, <1>4, <2>2, Zenon DEF Accepts, Admits, Valid, Mono!ValidateUpdate
  <2> QED BY <2>1, <2>2
<1> QED BY <1>4, <1>5

\* The operator's own update of a CR (the finalizer that Reconcile adds) is
\* admitted and changes nothing of the spec, as long as the gates and the named
\* objects are those of the user's write: webhooks cannot lock the operator out
\* of a CR they let in.
THEOREM OwnWrites == Spec => []OwnWritesAdmitted
  BY Admission, AcceptedWrites, PTL

----------------------------------------------------------------------------
\* The stages of a pass run in order and the first that fails ends it.
LEMMA FirstOfTwo == ASSUME NEW a \in Results, NEW b \in Results
  PROVE  First(<<a, b>>) \in Outcomes \ {"none"} /\ (First(<<a, b>>) = "ready" => a = "ok" /\ b = "ok")
<1> DEFINE r == <<a, b>>
<1>1. CASE a = "ok" /\ b = "ok"
  BY <1>1 DEF First, Outcomes
<1>2. CASE ~(a = "ok" /\ b = "ok")
  <2>1. \E i \in DOMAIN r : r[i] # "ok" /\ \A j \in 1..(i - 1) : r[j] = "ok"
    <3>1. CASE a # "ok"
      <4>1. 1 \in DOMAIN r /\ r[1] # "ok" /\ \A j \in 1..(1 - 1) : r[j] = "ok"
        BY <3>1
      <4> QED BY <4>1
    <3>2. CASE a = "ok"
      <4>1. 2 \in DOMAIN r /\ r[2] # "ok" /\ \A j \in 1..(2 - 1) : r[j] = "ok"
        BY <1>2, <3>2
      <4> QED BY <4>1
    <3> QED BY <3>1, <3>2
  <2> DEFINE i == CHOOSE i \in DOMAIN r : r[i] # "ok" /\ \A j \in 1..(i - 1) : r[j] = "ok"
  <2>2. i \in DOMAIN r /\ r[i] # "ok"
    BY <2>1, Zenon
  <2>3. First(r) = r[i]
    BY <2>2, Zenon DEF First
  <2> HIDE DEF i
  <2> QED BY <2>2, <2>3 DEF Results, Outcomes
<1> QED BY <1>1, <1>2

LEMMA FirstOfFour == ASSUME NEW a \in Results, NEW b \in Results, NEW c \in Results, NEW d \in Results
  PROVE  /\ First(<<a, b, c, d>>) \in Outcomes \ {"none"}
         /\ a = "ok" /\ b = "ok" /\ c = "ok" /\ d = "ok" => First(<<a, b, c, d>>) = "ready"
         /\ First(<<a, b, c, d>>) = "ready" => a = "ok" /\ b = "ok" /\ c = "ok" /\ d = "ok"
<1> DEFINE r == <<a, b, c, d>>
<1>1. CASE a = "ok" /\ b = "ok" /\ c = "ok" /\ d = "ok"
  BY <1>1 DEF First, Outcomes
<1>2. CASE ~(a = "ok" /\ b = "ok" /\ c = "ok" /\ d = "ok")
  <2>1. \E i \in DOMAIN r : r[i] # "ok" /\ \A j \in 1..(i - 1) : r[j] = "ok"
    <3>0. DOMAIN r = 1..4 /\ r[1] = a /\ r[2] = b /\ r[3] = c /\ r[4] = d
      OBVIOUS
    <3> HIDE DEF r
    <3>1. CASE a # "ok"
      <4>1. 1 \in DOMAIN r /\ r[1] # "ok" /\ \A j \in 1..(1 - 1) : r[j] = "ok"
        BY <3>0, <3>1
      <4> QED BY <4>1
    <3>2. CASE a = "ok" /\ b # "ok"
      <4>1. 2 \in DOMAIN r /\ r[2] # "ok" /\ \A j \in 1..(2 - 1) : r[j] = "ok"
        BY <3>0, <3>2
      <4> QED BY <4>1
    <3>3. CASE a = "ok" /\ b = "ok" /\ c # "ok"
      <4>1. 3 \in DOMAIN r /\ r[3] # "ok" /\ \A j \in 1..(3 - 1) : r[j] = "ok"
        BY <3>0, <3>3
      <4> QED BY <4>1
    <3>4. CASE a = "ok" /\ b = "ok" /\ c = "ok"
      <4>1. 4 \in DOMAIN r /\ r[4] # "ok" /\ \A j \in 1..(4 - 1) : r[j] = "ok"
        BY <1>2, <3>0, <3>4
      <4> QED BY <4>1
    <3> QED BY <3>1, <3>2, <3>3, <3>4
  <2> DEFINE i == CHOOSE i \in DOMAIN r : r[i] # "ok" /\ \A j \in 1..(i - 1) : r[j] = "ok"
  <2>2. i \in DOMAIN r /\ r[i] # "ok"
    BY <2>1, Zenon
  <2>3. First(r) = r[i]
    BY <2>2, Zenon DEF First
  <2> HIDE DEF i
  <2> QED BY <1>2, <2>2, <2>3 DEF Results, Outcomes
<1> QED BY <1>1, <1>2

LEMMA ProfileResult == getTLSProfile.err \in {"ok", "cluster", "other"}
  BY DEF getTLSProfile

\* What each stage may end with.
LEMMA PassResults == ASSUME NEW k, NEW s
  PROVE  /\ ccoResult(k, s) \in Results
         /\ \A t, g : tenantResult(k, t, g) \in Results
         /\ tlsResult(k) \in Results
         /\ \A p : buildResult(k, p) \in Results
<1>1. ccoResult(k, s) \in Results
  BY DEF ccoResult, Results
<1>2. \A t, g : tenantResult(k, t, g) \in Results
  BY DEF tenantResult, GetOIDCTenantSecrets, GetOpenShiftBaseDomain, Results
<1>3. tlsResult(k) \in Results
  BY ProfileResult DEF tlsResult, Results
<1>4. \A p : buildResult(k, p) \in Results
  BY DEF buildResult, Results
<1> QED BY <1>1, <1>2, <1>3, <1>4

LEMMA OutcomeType == ASSUME NEW k, NEW s PROVE PassResult(k, s) \in Outcomes \ {"none"}
<1> DEFINE p == Params(k, s)
           tenants == IF LooksAtTenants(k, s) THEN tenantResult(k, Tenants(k, s), GatewayOn(k, s)) ELSE "ok"
<1>1. "config" \in Results /\ tenants \in Results
  BY PassResults DEF Results
<1>2. CASE p.storage.err # "ok"
  BY <1>1, <1>2, PassResults, FirstOfTwo, Zenon DEF PassResult
<1>3. CASE p.storage.err = "ok"
  BY <1>1, <1>3, PassResults, FirstOfFour, Zenon DEF PassResult
<1> QED BY <1>2, <1>3

\* The types of what a pass leaves behind.
PassTypes ==
  /\ T!IsProjectConfig(gates)
  /\ DOMAIN done = Kinds /\ \A k \in Kinds : done[k].outcome \in Outcomes
  /\ creq \in [Kinds -> BOOLEAN] /\ domain \in [Kinds -> BOOLEAN]
  /\ cookie \in [Kinds -> Cookies \cup {0}]

LEMMA InitPass == ASSUME Init PROVE PassTypes
<1>1. T!IsProjectConfig(gates)
  BY ProfilesAssumption DEF Init
<1>2. DOMAIN done = Kinds /\ \A k \in Kinds : done[k].outcome \in Outcomes
  BY DEF Init, Outcomes
<1>3. creq \in [Kinds -> BOOLEAN] /\ domain \in [Kinds -> BOOLEAN] /\ cookie \in [Kinds -> Cookies \cup {0}]
  BY DEF Init
<1> QED BY <1>1, <1>2, <1>3 DEF PassTypes

LEMMA RemovedPass ==
  ASSUME PassTypes, NEW k \in Kinds, Removed(k), UNCHANGED <<gates, domain>> PROVE PassTypes'
<1>1. T!IsProjectConfig(gates)' /\ (domain \in [Kinds -> BOOLEAN])'
  BY DEF PassTypes
<1>2. (creq \in [Kinds -> BOOLEAN])' /\ (cookie \in [Kinds -> Cookies \cup {0}])'
  BY DEF PassTypes, Removed
<1>3. DOMAIN done' = Kinds /\ \A j \in Kinds : done'[j].outcome \in Outcomes
  BY DEF PassTypes, Removed, Outcomes
<1> QED BY <1>1, <1>2, <1>3 DEF PassTypes

LEMMA CookieType == ASSUME NEW k \in Kinds, NEW s, cookie[k] \in Cookies \cup {0}
  PROVE newCookies(k, s) \subseteq Cookies \cup {0}
  BY DEF newCookies, readCookie

LEMMA DeployPass ==
  ASSUME PassTypes, NEW k \in Kinds, Deploy(k), UNCHANGED gates PROVE PassTypes'
<1> DEFINE spec == Effective(k)
           result == PassResult(k, spec)
           p == IF result = "ready" THEN Params(k, spec) ELSE done[k].p
<1>1. T!IsProjectConfig(gates)'
  BY DEF PassTypes
<1>2. result \in Outcomes
  BY OutcomeType
<1>3. done' = [done EXCEPT ![k] = [outcome |-> result, p |-> p]]
  BY Zenon DEF Deploy
<1>4. DOMAIN done' = Kinds /\ \A j \in Kinds : done'[j].outcome \in Outcomes
  <2> HIDE DEF result, p
  <2> QED BY <1>2, <1>3 DEF PassTypes
<1>5. (creq \in [Kinds -> BOOLEAN])'
  <2>1. creq' = [creq EXCEPT ![k] = creq[k] \/ (WantsCCO(k, spec) /\ env.cco)]
    BY Zenon DEF Deploy
  <2>2. (creq[k] \/ (WantsCCO(k, spec) /\ env.cco)) \in BOOLEAN
    BY Zenon
  <2> QED BY <2>1, <2>2, Zenon DEF PassTypes
<1>6. (domain \in [Kinds -> BOOLEAN])'
  <2>1. domain' = [domain EXCEPT ![k] = domain[k] \/ ReadsDomain(k, spec)]
    BY Zenon DEF Deploy
  <2>2. (domain[k] \/ ReadsDomain(k, spec)) \in BOOLEAN
    BY Zenon
  <2> QED BY <2>1, <2>2, Zenon DEF PassTypes
<1>7. (cookie \in [Kinds -> Cookies \cup {0}])'
  <2>1. CASE result = "ready"
    <3>1. PICK c \in newCookies(k, spec) : cookie' = [cookie EXCEPT ![k] = c]
      BY <2>1, Zenon DEF Deploy
    <3>2. c \in Cookies \cup {0}
      BY <3>1, CookieType DEF PassTypes
    <3> QED BY <3>1, <3>2, Zenon DEF PassTypes
  <2>2. CASE result # "ready"
    BY <2>2, Zenon DEF Deploy, PassTypes
  <2> QED BY <2>1, <2>2
<1> QED BY <1>1, <1>4, <1>5, <1>6, <1>7 DEF PassTypes

LEMMA PassStep == ASSUME PassTypes, [Next]_vars PROVE PassTypes'
<1>0. ASSUME UNCHANGED <<gates, done, creq, cookie, domain>> PROVE PassTypes'
  BY <1>0 DEF PassTypes
<1>1. ASSUME NEW k \in Kinds, UserCreate(k) PROVE PassTypes'
  BY <1>0, <1>1 DEF UserCreate
<1>2. ASSUME NEW k \in Kinds, UserDelete(k) PROVE PassTypes'
  <2>1. UNCHANGED <<gates, domain>> /\ (UNCHANGED <<done, creq, cookie>> \/ Removed(k))
    BY <1>2, Zenon DEF UserDelete
  <2> QED BY <1>0, <2>1, RemovedPass
<1>3. ASSUME NEW k \in Kinds, Reconcile(k) PROVE PassTypes'
  <2>1. gates' = gates /\ (UNCHANGED <<done, creq, cookie, domain>> \/ Deploy(k))
    BY <1>3 DEF Reconcile
  <2> QED BY <1>0, <2>1, DeployPass
<1>4. ASSUME NEW k \in Kinds, ReconcileDeletion(k) PROVE PassTypes'
  BY <1>4, RemovedPass DEF ReconcileDeletion
<1>5. ASSUME NEW k, NEW e, UserEdit(k, e) PROVE PassTypes'
  BY <1>0, <1>5 DEF UserEdit
<1>7. ASSUME NEW d \in Disturbances, EnvChange(d) PROVE PassTypes'
  BY <1>0, <1>7 DEF EnvChange
<1>8. ASSUME NEW g \in Profiles, OperatorReconfigure(g) PROVE PassTypes'
  BY <1>8, ProfilesAssumption DEF OperatorReconfigure, PassTypes
<1>9. CASE UNCHANGED vars
  BY <1>0, <1>9 DEF vars
<1> QED BY <1>1, <1>2, <1>3, <1>4, <1>5, <1>7, <1>8, <1>9, Zenon DEF Next

LEMMA Passes == Spec => []PassTypes
  BY InitPass, PassStep, PTL DEF Spec

\* Every reachable state has the types that TypeOK states: the stored CRs are
\* in their CRDs' specs, TempoStacks have their defaults, and the outcomes,
\* CredentialsRequests, cookies and domains of the passes are in range.
THEOREM TypeCorrect == Spec => []TypeOK
<1>1. ASSUME AdmissionInv, PassTypes PROVE TypeOK
  <2>1. crs["TempoStack"].exists => crs["TempoStack"].spec \in T!TempoStackSpec /\ HasDefaults(crs["TempoStack"].spec)
    BY <1>1 DEF AdmissionInv, CRsOK, Kinds, Specs
  <2>2. crs["TempoMonolithic"].exists => crs["TempoMonolithic"].spec \in T!TempoMonolithicSpec
    BY <1>1 DEF AdmissionInv, CRsOK, Kinds, Specs
  <2>3. \A k \in Kinds : /\ done[k].outcome \in {"none", "ready", "config", "error", "panic"}
                         /\ creq[k] \in BOOLEAN /\ domain[k] \in BOOLEAN /\ cookie[k] \in Cookies \cup {0}
    BY <1>1 DEF PassTypes, Outcomes
  <2> QED BY <1>1, <2>1, <2>2, <2>3, Zenon DEF TypeOK, PassTypes, HasDefaults
<1> QED BY <1>1, Admission, Passes, PTL

LEMMA MonoFields == ASSUME NEW s \in T!TempoMonolithicSpec, NEW g
  PROVE  LET d == Mono!Default(s, g) IN
         d.tenancy = s.tenancy /\ d.jaeger = Mono!DefaultJaeger(s, g)
  BY Zenon DEF Mono!Default, T!TempoMonolithicSpec

\* Storage of type s3 that could be read is used as s3.
LEMMA S3Backend ==
  ASSUME NEW st, NEW s, NEW cm, st.type = "s3", Stack!GetStorageParamsForTempoStack(st, s, cm).err = "ok"
  PROVE  Stack!GetStorageParamsForTempoStack(st, s, cm).backend = "s3"
<1>1. Stack!GetStorageParamsForTempoStack(st, s, cm) \in {Stack!StorageError("fetch"), Stack!StackS3(st, s, cm)}
  BY DEF Stack!GetStorageParamsForTempoStack
<1>2. \A e : Stack!StorageError(e).err = e
  BY DEF Stack!StorageError, Stack!NoParams
<1>3. Stack!GetStorageParamsForTempoStack(st, s, cm) = Stack!StackS3(st, s, cm)
  BY <1>1, <1>2
<1> DEFINE mode == Stack!ModeOf(st, Stack!discoverS3CredentialType(s))
           p == [Stack!getS3Params(s, mode) EXCEPT !.insecure = (mode = "static" /\ ~st.tls)]
           r == Stack!StackS3(st, s, cm)
<1>4. p.backend = "s3" /\ \A f : [p EXCEPT !.caFile = f].backend = "s3"
  BY DEF Stack!getS3Params, Stack!NoParams
<1>5. r \in {Stack!StorageError("invalid"), p, Stack!getTLSParams(p, st.ca, cm)}
  BY Zenon DEF Stack!StackS3
<1> HIDE DEF p
<1>6. Stack!getTLSParams(p, st.ca, cm) \in {p, Stack!StorageError("fetch"), Stack!StorageError("invalid"),
                                           [p EXCEPT !.caFile = Stack!getCAConfigMapKey(cm)]}
  BY DEF Stack!getTLSParams
<1> DEFINE q == [p EXCEPT !.caFile = Stack!getCAConfigMapKey(cm)]
<1>7. q.backend = "s3"
  BY <1>4, Zenon
<1> HIDE DEF q, r
<1>8. r.err # "invalid" /\ r.err # "fetch" /\ r = Stack!GetStorageParamsForTempoStack(st, s, cm)
  BY <1>3 DEF r
<1>9. r # Stack!StorageError("invalid") /\ r # Stack!StorageError("fetch")
  BY <1>2, <1>8, Zenon
<1>10. r = p \/ r = q
  BY <1>5, <1>6, <1>9, Zenon DEF q
<1> QED BY <1>4, <1>7, <1>8, <1>10

\* What the validators say of the tenants.
LEMMA AllowedParts == ASSUME NEW s, NEW g, NEW e, Stack!validate(s, g, e) = {}
  PROVE  /\ Stack!ValidateTenantConfigs(s.tenants, s.gateway.enabled)
         /\ s.gateway.enabled => s.tenants.mode # "none"
<1>1. Stack!validateTenantConfigs(s) = {} /\ Stack!validateGateway(s, g, e) = {}
  BY Zenon DEF Stack!validate
<1> QED BY <1>1 DEF Stack!validateTenantConfigs, Stack!validateGateway, Stack!Unless

LEMMA MonoAllowedParts == ASSUME NEW s, NEW g, NEW e, Mono!validateTempoMonolithic(s, g, e) = {}
  PROVE  LET d == Mono!Default(s, g) IN
         Mono!IsGatewayEnabled(d) => Mono!Stack!ValidateTenantConfigs(d.tenancy, TRUE)
<1>1. Mono!validateMultitenancy(Mono!Default(s, g), e) = {}
  BY Zenon DEF Mono!validateTempoMonolithic
<1> QED BY <1>1 DEF Mono!validateMultitenancy, Mono!Stack!Unless

\* The tenants stage succeeds for tenants that were validated.
LEMMA TenantsAccepted ==
  ASSUME NEW k, NEW t, NEW g, Stack!ValidateTenantConfigs(t, g), env.oidc = "ok", env.domain,
         ~(t.mode = "static" /\ t.authn \in {"nooidc", "nosecret"})
  PROVE  tenantResult(k, t, g) = "ok"
  BY DEF tenantResult, GetOIDCTenantSecrets, GetOpenShiftBaseDomain

LEMMA CompleteProfile == ASSUME EnvironmentComplete, NEW k PROVE tlsResult(k) = "ok"
<1>1. getTLSProfile.err = "ok"
  BY DEF EnvironmentComplete, getTLSProfile
<1> QED BY <1>1 DEF tlsResult

\* A pass is ready when each of its stages succeeds.
LEMMA ReadyWhen ==
  ASSUME NEW k, NEW s, Params(k, s).storage.err = "ok",
         ccoResult(k, s) = "ok", tlsResult(k) = "ok", buildResult(k, Params(k, s)) = "ok",
         LooksAtTenants(k, s) => tenantResult(k, Tenants(k, s), GatewayOn(k, s)) = "ok"
  PROVE  PassResult(k, s) = "ready"
<1> DEFINE tenants == IF LooksAtTenants(k, s) THEN tenantResult(k, Tenants(k, s), GatewayOn(k, s)) ELSE "ok"
<1>1. tenants = "ok" /\ "ok" \in Results
  BY DEF Results
<1>2. PassResult(k, s) = First(<<ccoResult(k, s), tenants, tlsResult(k), buildResult(k, Params(k, s))>>)
  BY Zenon DEF PassResult
<1> HIDE DEF tenants
<1> DEFINE ok == "ok"
<1>3. PassResult(k, s) = First(<<ok, ok, ok, ok>>) /\ ok \in Results /\ ok = "ok"
  BY <1>1, <1>2
<1> HIDE DEF ok
<1>4. First(<<ok, ok, ok, ok>>) = "ready"
  BY <1>3, FirstOfFour, SMTT(30)
<1> QED BY <1>3, <1>4

\* A pass that is ready had its storage and its credentials.
LEMMA ReadyMeans ==
  ASSUME NEW k, NEW s, PassResult(k, s) = "ready"
  PROVE  Params(k, s).storage.err = "ok" /\ ccoResult(k, s) = "ok"
<1> DEFINE tenants == IF LooksAtTenants(k, s) THEN tenantResult(k, Tenants(k, s), GatewayOn(k, s)) ELSE "ok"
<1>1. tenants \in Results /\ "config" \in Results
  BY PassResults DEF Results
<1>2. Params(k, s).storage.err = "ok"
  <2> SUFFICES ASSUME Params(k, s).storage.err # "ok" PROVE FALSE
    OBVIOUS
  <2>1. PassResult(k, s) = First(<<ccoResult(k, s), "config">>)
    BY Zenon DEF PassResult
  <2> DEFINE b == "config"
  <2>2. b \in Results /\ b # "ok" /\ PassResult(k, s) = First(<<ccoResult(k, s), b>>)
    BY <1>1, <2>1
  <2> HIDE DEF b
  <2> QED BY <2>2, PassResults, FirstOfTwo, ZenonT(60)
<1>3. PassResult(k, s) = First(<<ccoResult(k, s), tenants, tlsResult(k), buildResult(k, Params(k, s))>>)
  BY <1>2, Zenon DEF PassResult
<1> DEFINE cco == ccoResult(k, s)
           tls == tlsResult(k)
           build == buildResult(k, Params(k, s))
<1>4. cco \in Results /\ tls \in Results /\ build \in Results /\ First(<<cco, tenants, tls, build>>) = "ready"
  BY <1>3, PassResults, Zenon
<1> HIDE DEF tenants, cco, tls, build
<1>5. cco = "ok"
  BY <1>1, <1>4, FirstOfFour, SMTT(30)
<1> QED BY <1>2, <1>5, Zenon DEF cco

LEMMA ParamsFields == ASSUME NEW k, NEW s
  PROVE  /\ Params(k, s).spec = s
         /\ k = "TempoStack" => Params(k, s).storage = Stack!StorageOf(s, Seen)
         /\ k # "TempoStack" => Params(k, s).storage = Mono!StorageOf(s, Seen)
  BY DEF Params

\* Each stage succeeds for a freshly accepted CR.
LEMMA StackDeploys ==
  ASSUME AdmissionInv, NEW k, k = "TempoStack", crs[k].exists, crs[k].fresh, EnvironmentComplete,
         ~KnownToFail(k, Effective(k))
  PROVE  PassResult(k, Effective(k)) = "ready"
<1> DEFINE s == crs[k].spec
           p == Params(k, s)
<1>0. Effective(k) = s
  BY Zenon DEF Effective
<1>1. Stack!validate(s, gates, Seen) = {} /\ HasDefaults(s) /\ ~Warned(k, s)
  BY DEF AdmissionInv, CRsOK, FreshAccepted, Accepts, Kinds
<1>2. p.spec = s /\ p.storage = Stack!StorageOf(s, Seen) /\ p.storage.err = "ok"
  <2>1. Stack!StorageOf(s, Seen).err = "ok"
    BY <1>1 DEF Warned
  <2>2. p.spec = s /\ p.storage = Stack!StorageOf(s, Seen)
    BY ParamsFields
  <2> QED BY <2>1, <2>2, Zenon
<1>3. /\ ~(s.tenants.mode = "static" /\ s.tenants.authn \in {"nooidc", "nosecret"})
      /\ s.storage.ca = "unset" \/ s.storage.type = "s3"
      /\ s.uiResources # {"tempo-query"}
      /\ s.obs.sampling = "unset" \/ s.obs.otlp = "ok"
  BY <1>0 DEF KnownToFail, Tenants
<1>4. Stack!ValidateTenantConfigs(s.tenants, s.gateway.enabled) /\ (s.gateway.enabled => s.tenants.mode # "none")
  BY <1>1, AllowedParts, Zenon
<1>5. ccoResult(k, s) = "ok"
  BY DEF EnvironmentComplete, ccoResult
<1>6. LooksAtTenants(k, s) => tenantResult(k, Tenants(k, s), GatewayOn(k, s)) = "ok"
  <2>1. Tenants(k, s) = s.tenants /\ GatewayOn(k, s) = s.gateway.enabled
    BY Zenon DEF Tenants, GatewayOn
  <2>2. tenantResult(k, s.tenants, s.gateway.enabled) = "ok"
    BY <1>3, <1>4, TenantsAccepted, Zenon DEF EnvironmentComplete
  <2> QED BY <2>1, <2>2, Zenon
<1>7. buildResult(k, p) = "ok"
  <2>1. s.storage.ca # "unset" => p.storage.backend = "s3"
    <3>1. p.storage = Stack!GetStorageParamsForTempoStack(s.storage, Seen.secret, Seen.ca)
      BY <1>2, Zenon DEF Stack!StorageOf
    <3>2. Stack!GetStorageParamsForTempoStack(s.storage, Seen.secret, Seen.ca).err = "ok"
      BY <1>2, <3>1, Zenon
    <3> HIDE DEF s, p
    <3>3. ASSUME s.storage.type = "s3"
          PROVE  Stack!GetStorageParamsForTempoStack(s.storage, Seen.secret, Seen.ca).backend = "s3"
      BY <3>2, <3>3, S3Backend
    <3> QED BY <1>3, <3>1, <3>3
  <2> HIDE DEF p, s
  <2>2. ~Stack!BuildPanics(p)
    BY <1>2, <1>3, <1>4, <2>1 DEF Stack!BuildPanics
  <2>3. ~Stack!BuildFails(p)
    BY <1>1, <1>2, <1>3 DEF Stack!BuildFails, Stack!TracingBuilds, HasDefaults
  <2> QED BY <2>2, <2>3, Zenon DEF buildResult
<1> QED BY <1>0, <1>2, <1>5, <1>6, <1>7, CompleteProfile, ReadyWhen, ZenonT(60)

LEMMA MonolithicDeploys ==
  ASSUME AdmissionInv, NEW k \in Kinds, k # "TempoStack", crs[k].exists, crs[k].fresh, EnvironmentComplete,
         ~KnownToFail(k, Effective(k))
  PROVE  PassResult(k, Effective(k)) = "ready"
<1> DEFINE raw == crs[k].spec
           s == Mono!Default(raw, gates)
           p == Params(k, s)
<1>0. Effective(k) = s
  BY Zenon DEF Effective
<1>1. raw \in T!TempoMonolithicSpec /\ Mono!validateTempoMonolithic(raw, gates, Seen) = {} /\ ~Warned(k, raw)
  BY DEF AdmissionInv, CRsOK, FreshAccepted, Accepts, Specs
<1>2. p.spec = s /\ p.storage.err = "ok"
  BY <1>1, ParamsFields, Zenon DEF Warned
<1>3. ~(s.tenancy.mode = "static" /\ s.tenancy.authn \in {"nooidc", "nosecret"})
  BY <1>0 DEF KnownToFail, Tenants
<1>4. Mono!IsGatewayEnabled(s) => Mono!Stack!ValidateTenantConfigs(s.tenancy, TRUE)
  BY <1>1, MonoAllowedParts, Zenon
<1>5. s.tenancy = raw.tenancy /\ s.jaeger = Mono!DefaultJaeger(raw, gates)
  BY <1>1, MonoFields, Zenon
<1>6. ccoResult(k, s) = "ok"
  BY DEF EnvironmentComplete, ccoResult
<1>7. LooksAtTenants(k, s) => tenantResult(k, Tenants(k, s), GatewayOn(k, s)) = "ok"
  <2>1. Tenants(k, s) = s.tenancy /\ GatewayOn(k, s) = Mono!IsGatewayEnabled(s)
        /\ LooksAtTenants(k, s) = Mono!IsGatewayEnabled(s)
    BY Zenon DEF Tenants, GatewayOn, LooksAtTenants
  <2> SUFFICES ASSUME Mono!IsGatewayEnabled(s) PROVE tenantResult(k, Tenants(k, s), GatewayOn(k, s)) = "ok"
    BY <2>1, Zenon
  <2> HIDE DEF s
  <2>2. Stack!ValidateTenantConfigs(s.tenancy, GatewayOn(k, s))
    BY <1>4, <2>1 DEF Mono!Stack!ValidateTenantConfigs, Stack!ValidateTenantConfigs
  <2> QED BY <1>3, <2>1, <2>2, TenantsAccepted, Zenon DEF EnvironmentComplete
<1>8. buildResult(k, p) = "ok"
  <2>1. raw.jaeger \in T!MonolithicJaegerUISpec
    BY <1>1 DEF T!TempoMonolithicSpec
  <2> HIDE DEF s, p, raw
  <2>2. s.jaeger.enabled /\ s.jaeger.route => s.jaeger.termination # "unset"
    BY <1>5, <2>1 DEF Mono!DefaultJaeger, Mono!DefaultRoute, T!MonolithicJaegerUISpec
  <2>3. ~Mono!BuildFails(p)
    BY <1>2, <2>2 DEF Mono!BuildFails, Mono!Jaeger
  <2> QED BY <2>3, Zenon DEF buildResult
<1> QED BY <1>0, <1>2, <1>6, <1>7, <1>8, CompleteProfile, ReadyWhen, Zenon

\* What admission accepted can be deployed: with unchanged gates and named
\* objects, and with the objects that admission does not look at in place, a
\* pass over any accepted CR ends ready, except in the cases that KnownToFail
\* lists.
THEOREM AdmittedDeploys == Spec => []AcceptedDeploys
<1>1. ASSUME AdmissionInv PROVE AcceptedDeploys
  BY <1>1, StackDeploys, MonolithicDeploys, Zenon DEF AcceptedDeploys
<1> QED BY <1>1, Admission, PTL

\* The components that a TempoStack may have.
StackPods == {"distributor", "ingester", "querier", "query-frontend", "compactor", "gateway", "metrics-generator"}

\* Members of the relation between components.
LEMMA RelParts == ASSUME NEW A, NEW B, NEW C, NEW r, r \in Stack!Rel(A, B, C)
  PROVE  r[1] \in A /\ r[2] \in B /\ r[3] \in C
  BY DEF Stack!Rel

LEMMA Triple == ASSUME NEW a, NEW b, NEW c, NEW s, s = <<a, b, c>>
  PROVE  s[1] = a /\ s[2] = b /\ s[3] = c
  OBVIOUS

LEMMA PodsNamed == ASSUME NEW p PROVE Stack!Pods(p) \subseteq StackPods
  BY DEF Stack!Pods, StackPods

\* No port is 0, the value that stands for a rule without ports.
LEMMA PortNumbers ==
  /\ Stack!PortOtlp \cup Stack!PortsJaegerReceivers \cup {Stack!PortHTTP} \cup Stack!PortServer \subseteq Nat \ {0}
  /\ Stack!PortsJaegerQuery \cup {Stack!PortOAuthProxy, Stack!PortTempoQuery} \subseteq Nat \ {0}
  /\ Stack!PortsGateway \subseteq Nat \ {0}
  /\ {Stack!PortHTTP, Stack!PortGRPC, Stack!PortGossip, Stack!PortInternal} \subseteq Nat \ {0}
  BY DEF Stack!PortOtlp, Stack!PortsJaegerReceivers, Stack!PortHTTP, Stack!PortServer, Stack!PortGRPC,
         Stack!PortsJaegerQuery, Stack!PortOAuthProxy, Stack!PortTempoQuery, Stack!PortsGateway, Stack!PortGossip,
         Stack!PortInternal, Stack!PortOtlpGrpc, Stack!PortOtlpHttp, Stack!PortJaegerGRPC, Stack!PortJaegerUI,
         Stack!PortJaegerMetrics, Stack!GatewayPort, Stack!GatewayPortInternal, Stack!GatewayPortGRPC

\* Neither the gateway nor Jaeger Query listens on the port of the query API.
LEMMA NotTheProxy ==
  Stack!PortOAuthProxy \notin {Stack!PortHTTP, Stack!PortGRPC, Stack!PortGossip, Stack!PortInternal, Stack!PortTempoQuery}
                                \cup Stack!PortsJaegerQuery \cup Stack!PortsGateway
                                \cup Stack!PortOtlp \cup Stack!PortsJaegerReceivers
  BY DEF Stack!PortHTTP, Stack!PortsJaegerQuery, Stack!PortOAuthProxy, Stack!PortsGateway, Stack!PortJaegerGRPC,
         Stack!PortJaegerUI, Stack!PortJaegerMetrics, Stack!GatewayPort, Stack!GatewayPortInternal, Stack!GatewayPortGRPC,
         Stack!PortGRPC, Stack!PortGossip, Stack!PortInternal, Stack!PortTempoQuery, Stack!PortOtlp, Stack!PortOtlpGrpc,
         Stack!PortOtlpHttp, Stack!PortsJaegerReceivers

\* A relation that starts outside of the stack, at "cluster", leads to the
\* gateway if there is one, else to the distributor and the query-frontend;
\* that of the Jaeger UI leads to the query-frontend in both cases.
LEMMA RelationCases == ASSUME NEW p, NEW r, r \in Stack!componentRelations(p)
  PROVE  \/ r[1] \in StackPods
         \/ /\ r[1] = "cluster" /\ r[3] \in Nat \ {0}
            /\ \/ p.spec.gateway.enabled /\ r[2] = "gateway" /\ r[3] \in Stack!PortsGateway
               \/ ~p.spec.gateway.enabled /\ r[2] \in {"distributor", "query-frontend"}
               \/ r[2] = "query-frontend" /\ r[3] \in Stack!PortsJaegerQuery \cup {Stack!PortOAuthProxy}
<1> USE DEF StackPods
<1>1. CASE r \in Stack!Rel({"ingester", "querier", "query-frontend", "compactor"}, {"s3"}, Stack!extractStoragePorts(p.storage))
  BY <1>1, RelParts
<1>2. CASE r \in Stack!Rel({"distributor", "querier"}, {"ingester"}, Stack!PortServer)
  BY <1>2, RelParts
<1>3. CASE r \in Stack!Rel({"querier"}, {"query-frontend"}, Stack!PortServer)
  BY <1>3, RelParts
<1>4. CASE r \in Stack!Rel({"query-frontend"}, {"querier"}, Stack!PortServer)
  BY <1>4, RelParts
<1>5. CASE r \in Stack!Rel(Stack!Pods(p) \ {"metrics-generator"}, {"otel"}, Stack!PortOtlp)
  BY <1>5, RelParts, PodsNamed
<1>6. CASE p.spec.gateway.enabled /\ r \in Stack!gatewayRelations(p)
  <2>1. \/ r[1] = "cluster" /\ r[2] = "gateway" /\ r[3] \in Stack!PortsGateway
        \/ r[1] = "gateway"
    BY <1>6 DEF Stack!gatewayRelations, Stack!Rel
  <2> QED BY <1>6, <2>1, PortNumbers
<1>7. CASE ~p.spec.gateway.enabled /\ r \in Stack!directRelations
  <2>1. r[1] \in {"cluster"} /\ r[2] \in {"distributor", "query-frontend"}
        /\ r[3] \in Stack!PortOtlp \cup Stack!PortsJaegerReceivers \cup {Stack!PortHTTP} \cup Stack!PortServer
    <3>1. CASE r \in Stack!Rel({"cluster"}, {"distributor"}, Stack!PortOtlp \cup Stack!PortsJaegerReceivers \cup {Stack!PortHTTP})
      BY <3>1, RelParts
    <3>2. CASE r \in Stack!Rel({"cluster"}, {"query-frontend"}, Stack!PortServer)
      BY <3>2, RelParts
    <3> QED BY <1>7, <3>1, <3>2 DEF Stack!directRelations
  <2> QED BY <1>7, <2>1, PortNumbers
<1>8. CASE r \in Stack!jaegerRelations(p)
  <2>1. /\ r[1] \in {"cluster"} /\ r[2] \in {"query-frontend"}
        /\ r[3] \in Stack!PortsJaegerQuery \cup (IF p.spec.jaeger.auth = "on" THEN {Stack!PortOAuthProxy} ELSE {})
    <3> DEFINE ports == Stack!PortsJaegerQuery \cup (IF p.spec.jaeger.auth = "on" THEN {Stack!PortOAuthProxy} ELSE {})
    <3>1. r \in Stack!Rel({"cluster"}, {"query-frontend"}, ports)
      BY <1>8, Zenon DEF Stack!jaegerRelations
    <3> HIDE DEF ports
    <3>2. r[1] \in {"cluster"} /\ r[2] \in {"query-frontend"} /\ r[3] \in ports
      BY <3>1, RelParts, Zenon
    <3> QED BY <3>2 DEF ports
  <2> QED BY <2>1, PortNumbers
<1>9. CASE r \in Stack!generatorRelations(p)
  <2>1. r[1] \in {"distributor", "querier"} \/ r[1] \in {"metrics-generator"}
    BY <1>9 DEF Stack!generatorRelations, Stack!Rel
  <2> QED BY <2>1
<1> QED
  BY <1>1, <1>2, <1>3, <1>4, <1>5, <1>6, <1>7, <1>8, <1>9 DEF Stack!componentRelations

\* Only such a relation gives a policy with a rule that selects a client.
LEMMA IngressRule ==
  ASSUME NEW p, NEW c, NEW port, NEW q, q \in Stack!GenerateOperandPolicies(p), p.spec.netpol # "off",
         c \in q.pods, Stack!Permits(q.ingress, "client", port, p)
  PROVE  \E r \in Stack!componentRelations(p) : r[1] = "cluster" /\ r[2] = c /\ r[3] \in {0, port}
<1>0. "client" \notin Stack!Pods(p)
  BY PodsNamed DEF StackPods
<1>1. PICK rule \in q.ingress : Stack!Selects(rule[1], "client", p) /\ rule[2] \in {0, port}
  BY Zenon DEF Stack!Permits, Stack!AnyPort
<1>2. CASE q = Stack!policyTempoGossip(p)
  <2>1. q.ingress = {"stack"} \X {Stack!PortGossip, Stack!PortHTTP, Stack!PortInternal}
    BY <1>2 DEF Stack!policyTempoGossip, Stack!Policy
  <2>2. rule[1] = "stack"
    BY <1>1, <2>1
  <2> QED BY <1>0, <1>1, <2>2 DEF Stack!Selects
<1>3. CASE q = Stack!policyIngressToOperandMetrics(p)
  <2>1. q.ingress = {<<"monitoring", Stack!PortHTTP>>}
    BY <1>3 DEF Stack!policyIngressToOperandMetrics, Stack!Policy
  <2>2. rule[1] = "monitoring"
    BY <1>1, <2>1
  <2> QED BY <1>1, <2>2 DEF Stack!Selects
<1>4. CASE q = Stack!policyEgressAllowDNS(p)
  <2>1. q.ingress = {}
    BY <1>4 DEF Stack!policyEgressAllowDNS, Stack!Policy
  <2> QED BY <1>1, <2>1
<1>5. ASSUME NEW d \in Stack!Pods(p), q = Stack!generatePolicyFor(p, d)
      PROVE  \E r \in Stack!componentRelations(p) : r[1] = "cluster" /\ r[2] = c /\ r[3] \in {0, port}
  <2>1. q.pods = {d} /\ q.ingress = UNION {Stack!policyPeersFor(r[1], p) \X {r[3]} : r \in {x \in Stack!componentRelations(p) : x[2] = d}}
    BY <1>5, Zenon DEF Stack!generatePolicyFor, Stack!Policy
  <2>2. PICK r \in Stack!componentRelations(p) : r[2] = d /\ rule \in Stack!policyPeersFor(r[1], p) \X {r[3]}
    BY <1>1, <2>1, Zenon
  <2>3. rule[1] \in Stack!policyPeersFor(r[1], p) /\ rule[2] = r[3]
    BY <2>2
  <2>4. r[1] = "cluster"
    <3>1. SUFFICES ASSUME r[1] \in StackPods PROVE FALSE
      BY RelationCases
    <3>2. rule[1] = r[1]
      BY <2>3, <3>1 DEF Stack!policyPeersFor, StackPods
    <3> QED BY <1>1, <3>1, <3>2 DEF Stack!Selects, StackPods
  <2> QED BY <1>1, <2>1, <2>2, <2>3, <2>4
<1> QED
  BY <1>2, <1>3, <1>4, <1>5 DEF Stack!GenerateOperandPolicies

\* The gossip policy selects every pod for ingress, so that what no relation
\* allows is denied.
LEMMA ClientEnters ==
  ASSUME NEW p, NEW c, NEW port, p.spec.netpol # "off", c \in Stack!Pods(p), port \in Nat \ {0},
         Stack!MayConnect(Stack!GenerateOperandPolicies(p), p, "client", c, port)
  PROVE  /\ c \notin Inner
         /\ p.spec.gateway.enabled =>
              \/ c = "gateway"
              \/ c = "query-frontend" /\ port \in Stack!PortsJaegerQuery \cup {Stack!PortOAuthProxy}
<1>1. Stack!policyTempoGossip(p) \in Stack!GenerateOperandPolicies(p)
  BY DEF Stack!GenerateOperandPolicies
<1>2. c \in Stack!policyTempoGossip(p).pods /\ "Ingress" \in Stack!policyTempoGossip(p).types
  BY DEF Stack!policyTempoGossip, Stack!Policy
<1>3. PICK q \in Stack!GenerateOperandPolicies(p) : c \in q.pods /\ Stack!Permits(q.ingress, "client", port, p)
  BY <1>1, <1>2, Zenon DEF Stack!MayConnect
<1>4. PICK r \in Stack!componentRelations(p) : r[1] = "cluster" /\ r[2] = c /\ r[3] \in {0, port}
  BY <1>3, IngressRule
<1>5. r[1] \notin StackPods
  BY <1>4 DEF StackPods
<1>6. /\ r[3] \in Nat \ {0}
      /\ \/ p.spec.gateway.enabled /\ r[2] = "gateway" /\ r[3] \in Stack!PortsGateway
         \/ ~p.spec.gateway.enabled /\ r[2] \in {"distributor", "query-frontend"}
         \/ r[2] = "query-frontend" /\ r[3] \in Stack!PortsJaegerQuery \cup {Stack!PortOAuthProxy}
  BY <1>4, <1>5, RelationCases
<1>7. \/ p.spec.gateway.enabled /\ c = "gateway" /\ port \in Stack!PortsGateway
      \/ ~p.spec.gateway.enabled /\ c \in {"distributor", "query-frontend"}
      \/ c = "query-frontend" /\ port \in Stack!PortsJaegerQuery \cup {Stack!PortOAuthProxy}
  BY <1>4, <1>6
<1> QED
  BY <1>7 DEF Inner

\* Servers run in the pods of the stack, on real ports; the OAuth proxy does not run
\* behind a gateway.
LEMMA ServersArePods == ASSUME NEW p, NEW s, s \in Stack!Servers(p)
  PROVE  /\ s[1] \in Stack!Pods(p) /\ s[2] \in Nat \ {0}
         /\ p.spec.gateway.enabled => s[2] # Stack!PortOAuthProxy
<1>1. ASSUME NEW c \in Stack!TempoPods(p), s \in Stack!tempoServers(p, c)
      PROVE  s[1] \in Stack!Pods(p) /\ s[2] \in Nat \ {0} /\ s[2] # Stack!PortOAuthProxy
  <2>0. c \in Stack!Pods(p)
    BY DEF Stack!TempoPods
  <2>1. \E h : \/ s = <<c, Stack!PortHTTP, h>> \/ s = <<c, Stack!PortGRPC, h>>
               \/ s = <<c, Stack!PortGossip, h>> \/ s = <<c, Stack!PortInternal, h>>
    BY <1>1, Zenon DEF Stack!tempoServers, Stack!If
  <2>2. s[1] = c /\ s[2] \in {Stack!PortHTTP, Stack!PortGRPC, Stack!PortGossip, Stack!PortInternal}
    BY <2>1
  <2> QED BY <2>0, <2>2, PortNumbers, NotTheProxy
<1>2. CASE s \in Stack!receiverServers(p)
  <2>1. "distributor" \in Stack!Pods(p)
    BY DEF Stack!Pods
  <2>2. s[1] = "distributor" /\ s[2] \in Stack!PortOtlp \cup Stack!PortsJaegerReceivers
    BY <1>2 DEF Stack!receiverServers, Stack!If
  <2> QED BY <2>1, <2>2, PortNumbers, NotTheProxy
<1>3. CASE s \in Stack!jaegerServers(p)
  <2>1. "query-frontend" \in Stack!Pods(p)
    BY DEF Stack!Pods
  <2>2. \E h : \/ s = <<"query-frontend", Stack!PortJaegerGRPC, h>> \/ s = <<"query-frontend", Stack!PortJaegerUI, h>>
               \/ s = <<"query-frontend", Stack!PortJaegerMetrics, h>>
               \/ s = <<"query-frontend", Stack!PortTempoQuery, h>> \/ s = <<"query-frontend", Stack!PortOAuthProxy, h>>
    BY <1>3, Zenon DEF Stack!jaegerServers, Stack!If
  <2>3. s[1] = "query-frontend" /\ s[2] \in Stack!PortsJaegerQuery \cup {Stack!PortOAuthProxy, Stack!PortTempoQuery}
    BY <2>2 DEF Stack!PortsJaegerQuery
  <2>4. ASSUME p.spec.gateway.enabled PROVE s[2] # Stack!PortOAuthProxy
    <3>1. ~Stack!OAuth(p)
      BY <2>4 DEF Stack!OAuth
    <3>2. \E h : \/ s = <<"query-frontend", Stack!PortJaegerGRPC, h>> \/ s = <<"query-frontend", Stack!PortJaegerUI, h>>
                 \/ s = <<"query-frontend", Stack!PortJaegerMetrics, h>>
                 \/ s = <<"query-frontend", Stack!PortTempoQuery, h>>
      BY <1>3, <3>1, Zenon DEF Stack!jaegerServers, Stack!If
    <3>3. s[2] \in Stack!PortsJaegerQuery \cup {Stack!PortTempoQuery}
      BY <3>2 DEF Stack!PortsJaegerQuery
    <3> QED BY <3>3, NotTheProxy
  <2> QED BY <2>1, <2>3, <2>4, PortNumbers
<1>4. CASE p.spec.gateway.enabled /\ s \in Stack!gatewayServers(p)
  <2>1. "gateway" \in Stack!Pods(p)
    BY <1>4 DEF Stack!Pods
  <2>2. s[1] = "gateway" /\ s[2] \in Stack!PortsGateway
    BY <1>4 DEF Stack!gatewayServers, Stack!PortsGateway
  <2> QED BY <2>1, <2>2, PortNumbers, NotTheProxy
<1>5. \/ \E c \in Stack!TempoPods(p) : s \in Stack!tempoServers(p, c)
      \/ s \in Stack!receiverServers(p)
      \/ s \in Stack!jaegerServers(p)
      \/ p.spec.gateway.enabled /\ s \in Stack!gatewayServers(p)
  <2>1. \/ s \in UNION {Stack!tempoServers(p, c) : c \in Stack!TempoPods(p)}
        \/ s \in Stack!receiverServers(p)
        \/ s \in Stack!If(p.spec.jaeger.enabled, Stack!jaegerServers(p))
        \/ s \in Stack!If(p.spec.gateway.enabled, Stack!gatewayServers(p))
    BY Zenon DEF Stack!Servers
  <2>2. ASSUME s \in UNION {Stack!tempoServers(p, c) : c \in Stack!TempoPods(p)}
        PROVE  \E c \in Stack!TempoPods(p) : s \in Stack!tempoServers(p, c)
    BY <2>2
  <2>3. s \in Stack!If(p.spec.jaeger.enabled, Stack!jaegerServers(p)) => s \in Stack!jaegerServers(p)
    BY DEF Stack!If
  <2>4. ASSUME s \in Stack!If(p.spec.gateway.enabled, Stack!gatewayServers(p))
        PROVE  p.spec.gateway.enabled /\ s \in Stack!gatewayServers(p)
    BY <2>4 DEF Stack!If
  <2> QED BY <2>1, <2>2, <2>3, <2>4, Zenon
<1> QED BY <1>1, <1>2, <1>3, <1>4, <1>5

\* Behind the gateway of a TempoMonolithic, what serves traces and queries
\* listens on localhost, or asks for TLS.
LEMMA BehindTheGateway == ASSUME NEW p, NEW s, s \in Mono!Servers(p), Mono!Gateway(p)
  PROVE  MonoEntryPoint(p, s)
<1> DEFINE Wide == Mono!PortsGateway \cup MonoOpen
<1>1. Mono!BehindGateway(p) = "localhost" /\ ~Mono!OAuth(p)
  BY DEF Mono!BehindGateway, Mono!OAuth
<1>2. CASE \E n, h : s = <<n, h, "localhost">>
  BY <1>2, Triple DEF MonoEntryPoint
<1>3. CASE \E n \in Wide : \E h : s = <<n, h, "0.0.0.0">>
  <2>1. s[1] \in Wide
    <3>1. PICK n \in Wide : \E h : s = <<n, h, "0.0.0.0">>
      BY <1>3
    <3> HIDE DEF Wide
    <3> QED BY <3>1, Triple
  <2> QED BY <2>1 DEF MonoEntryPoint
<1>4. CASE s \in Mono!receiverServers(p)
  <2>1. PICK r \in {"grpc", "http"} :
          s = <<Mono!ReceiverPort(r), IF Mono!InternalTLS(p) THEN TRUE ELSE p.spec[r].tls, Mono!ReceiverAddress(p, r)>>
    BY <1>4, Zenon DEF Mono!receiverServers
  <2>2. CASE Mono!ReceiverAddress(p, r) = "localhost"
    BY <1>2, <2>1, <2>2, Zenon
  <2>3. CASE Mono!ReceiverAddress(p, r) # "localhost"
    <3>1. Mono!InternalTLS(p) /\ r = "grpc"
      BY <1>1, <2>3 DEF Mono!ReceiverAddress
    <3>2. s = <<Mono!PortOtlpGrpc, TRUE, "default">>
      BY <2>1, <3>1, Zenon DEF Mono!ReceiverPort, Mono!ReceiverAddress
    <3>3. s[1] = Mono!PortOtlpGrpc /\ s[2] = TRUE
      BY <3>2, Triple, Zenon
    <3>4. s[2]
      BY <3>3, Zenon
    <3>5. p.gates.http
      BY <3>1, Zenon DEF Mono!InternalTLS
    <3> QED BY <3>3, <3>4, <3>5, Zenon DEF MonoEntryPoint
  <2> QED BY <2>2, <2>3
<1>5. \/ s \in Mono!receiverServers(p)
      \/ \E n, h : s = <<n, h, "localhost">>
      \/ \E n \in Wide : \E h : s = <<n, h, "0.0.0.0">>
  <2>0. {Mono!PortHTTP, Mono!PortInternal, Mono!PortTempoQuery, Mono!GatewayPort, Mono!GatewayPortInternal,
         Mono!GatewayPortGRPC} \subseteq Wide
    BY Zenon DEF Mono!PortsGateway, MonoOpen
  <2>1. \/ s \in Mono!receiverServers(p)
        \/ s \in {<<Mono!PortHTTP, Mono!InternalTLS(p), "0.0.0.0">>, <<Mono!PortInternal, FALSE, "0.0.0.0">>}
        \/ s \in {<<Mono!PortJaegerGRPC, FALSE, Mono!BehindGateway(p)>>, <<Mono!PortJaegerUI, FALSE, Mono!BehindGateway(p)>>,
                   <<Mono!PortJaegerMetrics, FALSE, Mono!BehindGateway(p)>>, <<Mono!PortTempoQuery, FALSE, "0.0.0.0">>}
        \/ s \in {<<Mono!GatewayPort, p.gates.servingCerts, "0.0.0.0">>, <<Mono!GatewayPortInternal, p.gates.http, "0.0.0.0">>,
                   <<Mono!GatewayPortGRPC, p.gates.servingCerts, "0.0.0.0">>}
    BY <1>1, Zenon DEF Mono!Servers, Mono!If
  <2>2. CASE s \in {<<Mono!PortHTTP, Mono!InternalTLS(p), "0.0.0.0">>, <<Mono!PortInternal, FALSE, "0.0.0.0">>}
    BY <2>0, <2>2, Zenon
  <2>3. CASE s \in {<<Mono!PortJaegerGRPC, FALSE, Mono!BehindGateway(p)>>, <<Mono!PortJaegerUI, FALSE, Mono!BehindGateway(p)>>,
                    <<Mono!PortJaegerMetrics, FALSE, Mono!BehindGateway(p)>>, <<Mono!PortTempoQuery, FALSE, "0.0.0.0">>}
    BY <1>1, <2>0, <2>3, Zenon
  <2>4. CASE s \in {<<Mono!GatewayPort, p.gates.servingCerts, "0.0.0.0">>, <<Mono!GatewayPortInternal, p.gates.http, "0.0.0.0">>,
                    <<Mono!GatewayPortGRPC, p.gates.servingCerts, "0.0.0.0">>}
    BY <2>0, <2>4, Zenon
  <2> HIDE DEF Wide
  <2> QED BY <2>1, <2>2, <2>3, <2>4, Zenon
<1> HIDE DEF Wide
<1> QED BY <1>2, <1>3, <1>4, <1>5, Zenon

\* With NetworkPolicies, a pod of another namespace reaches no server of the
\* ingesters, queriers, compactors and metrics-generators, and behind a gateway
\* only the gateway and Jaeger Query; behind the gateway of a TempoMonolithic
\* the receivers and the Jaeger UI listen on localhost only, but for a gRPC
\* receiver that encrypts.  It holds of every spec, also of one that admission
\* would refuse.
THEOREM EntryPoints == Spec => []OnlyEntryPoints
<1>1. OnlyEntryPoints
  <2>1. ASSUME NEW p, p.spec.netpol # "off", NEW s \in Stack!Servers(p),
               Stack!MayConnect(Stack!GenerateOperandPolicies(p), p, "client", s[1], s[2])
        PROVE  EntryPoint(p, s)
    <3>1. /\ s[1] \in Stack!Pods(p) /\ s[2] \in Nat \ {0}
          /\ p.spec.gateway.enabled => s[2] # Stack!PortOAuthProxy
      BY ServersArePods
    <3>2. /\ s[1] \notin Inner
          /\ p.spec.gateway.enabled =>
               \/ s[1] = "gateway"
               \/ s[1] = "query-frontend" /\ s[2] \in Stack!PortsJaegerQuery \cup {Stack!PortOAuthProxy}
      BY <2>1, <3>1, ClientEnters
    <3>3. s[2] \in Stack!PortsJaegerQuery => <<"query-frontend", s[2]>> \in KnownOpen
      BY DEF KnownOpen
    <3> QED BY <3>1, <3>2, <3>3, Zenon DEF EntryPoint
  <2>2. ASSUME NEW p, Mono!Gateway(p), NEW s \in Mono!Servers(p) PROVE MonoEntryPoint(p, s)
    BY <2>2, BehindTheGateway
  <2> QED BY <2>1, <2>2, Zenon DEF OnlyEntryPoints
<1> QED BY <1>1, PTL

----------------------------------------------------------------------------
\* The NetworkPolicies let a talk to b on port n ...
Reaches(p, a, b, n) == Stack!MayConnect(Stack!GenerateOperandPolicies(p), p, a, b, n)

\* ... for which one of them allows it at the sender, and one at the receiver.
Sends(p, a, e, n) == \E q \in Stack!GenerateOperandPolicies(p) :
  a \in q.pods /\ "Egress" \in q.types /\ Stack!Permits(q.egress, e, n, p)
Receives(p, b, e, n) == \E q \in Stack!GenerateOperandPolicies(p) :
  b \in q.pods /\ "Ingress" \in q.types /\ Stack!Permits(q.ingress, e, n, p)

\* Without policies everything is allowed, and policies select the stack's own
\* pods only: neither clients nor object storage are selected by any.
LEMMA NoPolicies == ASSUME NEW p, p.spec.netpol = "off", NEW a, NEW b, NEW n PROVE Reaches(p, a, b, n)
  BY DEF Reaches, Stack!MayConnect, Stack!GenerateOperandPolicies

LEMMA PolicyPods == ASSUME NEW p, NEW q \in Stack!GenerateOperandPolicies(p) PROVE q.pods \subseteq Stack!Pods(p)
<1>1. CASE q \in {Stack!policyTempoGossip(p), Stack!policyIngressToOperandMetrics(p), Stack!policyEgressAllowDNS(p)}
  BY <1>1 DEF Stack!policyTempoGossip, Stack!policyIngressToOperandMetrics, Stack!policyEgressAllowDNS, Stack!Policy
<1>2. ASSUME NEW c \in Stack!Pods(p), q = Stack!generatePolicyFor(p, c) PROVE q.pods \subseteq Stack!Pods(p)
  <2>1. q.pods = {c}
    BY <1>2, Zenon DEF Stack!generatePolicyFor, Stack!Policy
  <2> QED BY <2>1
<1> QED BY <1>1, <1>2 DEF Stack!GenerateOperandPolicies

LEMMA Connects ==
  ASSUME NEW p, NEW a, NEW b, NEW n,
         a \notin StackPods \/ Sends(p, a, b, n), b \notin StackPods \/ Receives(p, b, a, n)
  PROVE  Reaches(p, a, b, n)
<1> DEFINE policies == Stack!GenerateOperandPolicies(p)
           out == {q \in policies : a \in q.pods /\ "Egress" \in q.types}
           in  == {q \in policies : b \in q.pods /\ "Ingress" \in q.types}
<1>1. \A x : x \notin StackPods => \A q \in policies : x \notin q.pods
  BY PolicyPods, PodsNamed
<1>2. out = {} \/ \E q \in out : Stack!Permits(q.egress, b, n, p)
  BY <1>1 DEF Sends
<1>3. in = {} \/ \E q \in in : Stack!Permits(q.ingress, a, n, p)
  BY <1>1 DEF Receives
<1> QED BY <1>2, <1>3, Zenon DEF Reaches, Stack!MayConnect

\* A relation between components becomes a rule for the peers of the other
\* end, on both sides.
LEMMA Outgoing ==
  ASSUME NEW p, p.spec.netpol # "off", NEW a \in Stack!Pods(p), NEW b, NEW n, <<a, b, n>> \in Stack!componentRelations(p),
         NEW peer \in Stack!policyPeersFor(b, p), NEW e, Stack!Selects(peer, e, p)
  PROVE  Sends(p, a, e, n)
<1> DEFINE q == Stack!generatePolicyFor(p, a)
           r == <<a, b, n>>
           port == IF b = "s3" THEN Stack!AnyPort ELSE n
           E == UNION {Stack!policyPeersFor(x[2], p) \X {IF x[2] = "s3" THEN Stack!AnyPort ELSE x[3]} :
                         x \in {y \in Stack!componentRelations(p) : y[1] = a}}
<1>1. q.pods = {a} /\ q.egress = E /\ (E # {} => "Egress" \in q.types)
  BY Zenon DEF Stack!generatePolicyFor, Stack!Policy
<1>2. <<peer, port>> \in E
  <2>1. r \in {y \in Stack!componentRelations(p) : y[1] = a} /\ r[2] = b /\ r[3] = n
    OBVIOUS
  <2>2. <<peer, port>> \in Stack!policyPeersFor(r[2], p) \X {IF r[2] = "s3" THEN Stack!AnyPort ELSE r[3]}
    BY <2>1
  <2> HIDE DEF r
  <2> QED BY <2>1, <2>2
<1>3. port \in {Stack!AnyPort, n}
  OBVIOUS
<1> HIDE DEF E, port
<1>4. "Egress" \in q.types /\ a \in q.pods /\ Stack!Permits(q.egress, e, n, p)
  <2>1. E # {}
    BY <1>2
  <2>2. \E x \in E : Stack!Selects(x[1], e, p) /\ x[2] \in {Stack!AnyPort, n}
    BY <1>2, <1>3
  <2> HIDE DEF q
  <2> QED BY <1>1, <2>1, <2>2, Zenon DEF Stack!Permits
<1>5. q \in Stack!GenerateOperandPolicies(p)
  BY DEF Stack!GenerateOperandPolicies
<1> QED BY <1>4, <1>5, Zenon DEF Sends

LEMMA Incoming ==
  ASSUME NEW p, p.spec.netpol # "off", NEW b \in Stack!Pods(p), NEW a, NEW n, <<a, b, n>> \in Stack!componentRelations(p),
         NEW peer \in Stack!policyPeersFor(a, p), NEW e, Stack!Selects(peer, e, p)
  PROVE  Receives(p, b, e, n)
<1> DEFINE q == Stack!generatePolicyFor(p, b)
           r == <<a, b, n>>
           I == UNION {Stack!policyPeersFor(x[1], p) \X {x[3]} :
                         x \in {y \in Stack!componentRelations(p) : y[2] = b}}
<1>1. q.pods = {b} /\ q.ingress = I /\ (I # {} => "Ingress" \in q.types)
  BY Zenon DEF Stack!generatePolicyFor, Stack!Policy
<1>2. <<peer, n>> \in I
  <2>1. r \in {y \in Stack!componentRelations(p) : y[2] = b} /\ r[1] = a /\ r[3] = n
    OBVIOUS
  <2>2. <<peer, n>> \in Stack!policyPeersFor(r[1], p) \X {r[3]}
    BY <2>1
  <2> HIDE DEF r
  <2> QED BY <2>1, <2>2
<1> HIDE DEF I
<1>4. "Ingress" \in q.types /\ b \in q.pods /\ Stack!Permits(q.ingress, e, n, p)
  <2>1. I # {}
    BY <1>2
  <2>2. \E x \in I : Stack!Selects(x[1], e, p) /\ x[2] \in {Stack!AnyPort, n}
    BY <1>2
  <2> HIDE DEF q
  <2> QED BY <1>1, <2>1, <2>2, Zenon DEF Stack!Permits
<1>5. q \in Stack!GenerateOperandPolicies(p)
  BY DEF Stack!GenerateOperandPolicies
<1> QED BY <1>4, <1>5, Zenon DEF Receives

\* Hence components that are related reach one another, ...
LEMMA PodPeer == ASSUME NEW p, NEW c \in StackPods
  PROVE  c \in Stack!policyPeersFor(c, p) /\ Stack!Selects(c, c, p)
  BY DEF StackPods, Stack!policyPeersFor, Stack!Selects

LEMMA Within == ASSUME NEW p, NEW a \in Stack!Pods(p), NEW b \in Stack!Pods(p), NEW n, <<a, b, n>> \in Stack!componentRelations(p)
  PROVE  Reaches(p, a, b, n)
<1>1. a \in StackPods /\ b \in StackPods
  BY PodsNamed
<1>2. CASE p.spec.netpol # "off"
  <2>1. Sends(p, a, b, n)
    BY <1>1, <1>2, PodPeer, Outgoing
  <2>2. Receives(p, b, a, n)
    BY <1>1, <1>2, PodPeer, Incoming
  <2> QED BY <2>1, <2>2, Connects
<1> QED BY <1>2, NoPolicies

\* ... whoever is in the cluster reaches the entry points, ...
LEMMA FromCluster ==
  ASSUME NEW p, NEW b \in Stack!Pods(p), NEW n, <<"cluster", b, n>> \in Stack!componentRelations(p),
         NEW e \in {"client", "monitoring"}
  PROVE  Reaches(p, e, b, n)
<1>1. "namespaces" \in Stack!policyPeersFor("cluster", p) /\ Stack!Selects("namespaces", e, p) /\ e \notin StackPods
  BY DEF Stack!policyPeersFor, Stack!Selects, StackPods
<1>2. CASE p.spec.netpol # "off"
  BY <1>1, <1>2, Incoming, Connects
<1> QED BY <1>2, NoPolicies

\* ... the pods gossip, the monitoring scrapes, names are resolved, ...
LEMMA Gossips ==
  ASSUME NEW p, NEW a \in Stack!Pods(p), NEW b \in Stack!Pods(p),
         NEW n \in {Stack!PortGossip, Stack!PortHTTP, Stack!PortInternal}
  PROVE  Reaches(p, a, b, n)
<1> DEFINE q == Stack!policyTempoGossip(p)
<1>1. CASE p.spec.netpol # "off"
  <2>1. q \in Stack!GenerateOperandPolicies(p)
    BY <1>1 DEF Stack!GenerateOperandPolicies
  <2>2. /\ q.pods = Stack!Pods(p) /\ q.types = {"Ingress", "Egress"}
        /\ q.ingress = {"stack"} \X {Stack!PortGossip, Stack!PortHTTP, Stack!PortInternal}
        /\ q.egress = {"stack"} \X {Stack!PortGossip, Stack!PortHTTP, Stack!PortInternal}
    BY Zenon DEF Stack!policyTempoGossip, Stack!Policy
  <2> HIDE DEF q
  <2>3. Stack!Selects("stack", a, p) /\ Stack!Selects("stack", b, p)
    BY DEF Stack!Selects
  <2>4. <<"stack", n>> \in q.ingress /\ <<"stack", n>> \in q.egress
    BY <2>2
  <2>5. Stack!Permits(q.egress, b, n, p) /\ Stack!Permits(q.ingress, a, n, p)
    BY <2>3, <2>4 DEF Stack!Permits
  <2>6. Sends(p, a, b, n) /\ Receives(p, b, a, n)
    BY <2>1, <2>2, <2>5 DEF Sends, Receives
  <2> QED BY <2>6, Connects
<1> QED BY <1>1, NoPolicies

LEMMA Scraped == ASSUME NEW p, NEW b \in Stack!Pods(p) PROVE Reaches(p, "monitoring", b, Stack!PortHTTP)
<1> DEFINE q == Stack!policyIngressToOperandMetrics(p)
<1>1. CASE p.spec.netpol # "off"
  <2>1. q \in Stack!GenerateOperandPolicies(p)
    BY <1>1 DEF Stack!GenerateOperandPolicies
  <2>2. q.pods = Stack!Pods(p) /\ q.types = {"Ingress"} /\ q.ingress = {<<"monitoring", Stack!PortHTTP>>}
    BY Zenon DEF Stack!policyIngressToOperandMetrics, Stack!Policy
  <2> HIDE DEF q
  <2>3. Stack!Selects("monitoring", "monitoring", p) /\ "monitoring" \notin StackPods
    BY DEF Stack!Selects, StackPods
  <2>4. Stack!Permits(q.ingress, "monitoring", Stack!PortHTTP, p)
    BY <2>2, <2>3 DEF Stack!Permits
  <2>5. Receives(p, b, "monitoring", Stack!PortHTTP)
    BY <2>1, <2>2, <2>4 DEF Receives
  <2> QED BY <2>3, <2>5, Connects
<1> QED BY <1>1, NoPolicies

LEMMA Resolves == ASSUME NEW p, NEW a \in Stack!Pods(p) PROVE Reaches(p, a, "dns", Stack!PortDNS(p))
<1> DEFINE q == Stack!policyEgressAllowDNS(p)
<1>1. CASE p.spec.netpol # "off"
  <2>1. q \in Stack!GenerateOperandPolicies(p)
    BY <1>1 DEF Stack!GenerateOperandPolicies
  <2>2. q.pods = Stack!Pods(p) /\ q.types = {"Egress"} /\ q.egress = {<<"dns", Stack!PortDNS(p)>>}
    BY Zenon DEF Stack!policyEgressAllowDNS, Stack!Policy
  <2> HIDE DEF q
  <2>3. Stack!Selects("dns", "dns", p) /\ "dns" \notin StackPods
    BY DEF Stack!Selects, StackPods
  <2>4. Stack!Permits(q.egress, "dns", Stack!PortDNS(p), p)
    BY <2>2, <2>3 DEF Stack!Permits
  <2>5. Sends(p, a, "dns", Stack!PortDNS(p))
    BY <2>1, <2>2, <2>4 DEF Sends
  <2> QED BY <2>3, <2>5, Connects
<1> QED BY <1>1, NoPolicies

\* ... and object storage and the API server are reached.
LEMMA ToOutside ==
  ASSUME NEW p, NEW a \in Stack!Pods(p), NEW b, NEW n, <<a, b, n>> \in Stack!componentRelations(p),
         NEW peer \in Stack!policyPeersFor(b, p), NEW e, Stack!Selects(peer, e, p), e \notin StackPods
  PROVE  Reaches(p, a, e, n)
<1>1. CASE p.spec.netpol # "off"
  BY <1>1, Outgoing, Connects
<1> QED BY <1>1, NoPolicies

LEMMA OutsideCalls ==
  ASSUME NEW p, p.apiserver = [ports |-> {6443}, ips |-> {"apiserver"}], NEW c \in Stack!outsideCalls(p)
  PROVE  Reaches(p, c[1], c[2], c[3])
<1>1. CASE c \in Stack!StorageUsers(p) \X {"external"} \X Stack!extractStoragePorts(p.storage)
  <2>1. c[1] \in Stack!Pods(p) /\ c[2] = "external" /\ c[3] \in Stack!extractStoragePorts(p.storage)
    BY <1>1 DEF Stack!StorageUsers, Stack!TempoPods
  <2>2. \/ c[1] \in {"ingester", "querier", "query-frontend", "compactor"}
        \/ c[1] = "metrics-generator" /\ p.spec.generator.enabled
    BY <1>1 DEF Stack!StorageUsers, Stack!TempoPods, Stack!Pods
  <2>3. <<c[1], "s3", c[3]>> \in Stack!componentRelations(p)
    <3>1. CASE c[1] \in {"ingester", "querier", "query-frontend", "compactor"}
      BY <2>1, <3>1 DEF Stack!componentRelations, Stack!Rel
    <3>2. CASE c[1] = "metrics-generator" /\ p.spec.generator.enabled
      <4>1. <<c[1], "s3", c[3]>> \in Stack!generatorRelations(p)
        BY <2>1, <3>2 DEF Stack!generatorRelations, Stack!Rel
      <4> QED BY <3>2, <4>1 DEF Stack!componentRelations
    <3> QED BY <2>2, <3>1, <3>2
  <2>4. /\ "anyIP" \in Stack!policyPeersFor("s3", p) /\ Stack!Selects("anyIP", "external", p)
        /\ "external" \notin StackPods
    BY DEF Stack!policyPeersFor, Stack!Selects, StackPods
  <2> QED BY <2>1, <2>3, <2>4, ToOutside
<1>2. CASE c \in Stack!Pods(p) \X {"dns"} \X {Stack!PortDNS(p)}
  BY <1>2, Resolves
<1>3. CASE p.spec.gateway.enabled /\ c \in {"gateway"} \X {"apiserver"} \X p.apiserver.ports
  <2>1. c[1] = "gateway" /\ c[2] = "apiserver" /\ c[3] \in p.apiserver.ports /\ "gateway" \in Stack!Pods(p)
    BY <1>3 DEF Stack!Pods
  <2>2. <<"gateway", "kube-apiserver", c[3]>> \in Stack!gatewayRelations(p)
    BY <2>1 DEF Stack!gatewayRelations, Stack!Rel
  <2>3. <<"gateway", "kube-apiserver", c[3]>> \in Stack!componentRelations(p)
    BY <1>3, <2>2 DEF Stack!componentRelations
  <2>4. /\ "apiserver" \in Stack!policyPeersFor("kube-apiserver", p) /\ Stack!Selects("apiserver", "apiserver", p)
        /\ "apiserver" \notin StackPods
    BY DEF Stack!policyPeersFor, Stack!Selects, StackPods
  <2> QED BY <2>1, <2>3, <2>4, ToOutside
<1> QED BY <1>1, <1>2, <1>3 DEF Stack!outsideCalls, Stack!If

\* Who listens on which port, with or without TLS.
LEMMA TempoServes == ASSUME NEW p, NEW c \in Stack!TempoPods(p)
  PROVE  /\ <<c, Stack!PortHTTP, Stack!HTTPS(p, c)>> \in Stack!Servers(p)
         /\ <<c, Stack!PortGRPC, p.gates.grpc>> \in Stack!Servers(p)
         /\ <<c, Stack!PortGossip, FALSE>> \in Stack!Servers(p)
         /\ Stack!HTTPS(p, c) => <<c, Stack!PortInternal, TRUE>> \in Stack!Servers(p)
<1>1. \A s \in Stack!tempoServers(p, c) : s \in Stack!Servers(p)
  BY Zenon DEF Stack!Servers
<1> QED BY <1>1, Zenon DEF Stack!tempoServers, Stack!If

LEMMA ReceiverServes == ASSUME NEW p
  PROVE  /\ \A n \in Stack!PortOtlp :
              <<"distributor", n, (p.gates.grpc /\ p.spec.gateway.enabled) \/ p.spec.receiverTLS.enabled>> \in Stack!Servers(p)
         /\ ~p.spec.gateway.enabled => \A n \in Stack!PortsJaegerReceivers :
              <<"distributor", n, p.spec.receiverTLS.enabled>> \in Stack!Servers(p)
<1>1. \A s \in Stack!receiverServers(p) : s \in Stack!Servers(p)
  BY Zenon DEF Stack!Servers
<1> DEFINE tls == (p.gates.grpc /\ p.spec.gateway.enabled) \/ p.spec.receiverTLS.enabled
           jaeger == {"distributor"} \X Stack!PortsJaegerReceivers \X {p.spec.receiverTLS.enabled}
<1>2. Stack!receiverServers(p) = ({"distributor"} \X Stack!PortOtlp \X {tls}) \cup Stack!If(~p.spec.gateway.enabled, jaeger)
  BY Zenon DEF Stack!receiverServers
<1>3. ~p.spec.gateway.enabled => Stack!If(~p.spec.gateway.enabled, jaeger) = jaeger
  BY Zenon DEF Stack!If
<1> HIDE DEF tls
<1>4. \A n \in Stack!PortOtlp : <<"distributor", n, tls>> \in Stack!Servers(p)
  <2>1. \A n \in Stack!PortOtlp : <<"distributor", n, tls>> \in {"distributor"} \X Stack!PortOtlp \X {tls}
    OBVIOUS
  <2> QED BY <1>1, <1>2, <2>1, Zenon
<1>5. \A n \in Stack!PortsJaegerReceivers : <<"distributor", n, p.spec.receiverTLS.enabled>> \in jaeger
  OBVIOUS
<1> HIDE DEF jaeger
<1> QED BY <1>1, <1>2, <1>3, <1>4, <1>5, Zenon DEF tls

LEMMA JaegerServes == ASSUME NEW p, p.spec.jaeger.enabled
  PROVE  /\ <<"query-frontend", Stack!PortJaegerUI, p.gates.http /\ p.spec.gateway.enabled>> \in Stack!Servers(p)
         /\ <<"query-frontend", Stack!PortTempoQuery, FALSE>> \in Stack!Servers(p)
         /\ Stack!OAuth(p) => <<"query-frontend", Stack!PortOAuthProxy, TRUE>> \in Stack!Servers(p)
<1>1. \A s \in Stack!jaegerServers(p) : s \in Stack!Servers(p)
  BY Zenon DEF Stack!Servers, Stack!If
<1> QED BY <1>1, Zenon DEF Stack!jaegerServers, Stack!If

LEMMA GatewayServes == ASSUME NEW p, p.spec.gateway.enabled
  PROVE  /\ <<"gateway", Stack!GatewayPort, Stack!ServingGateway(p)>> \in Stack!Servers(p)
         /\ <<"gateway", Stack!GatewayPortGRPC, Stack!ServingGateway(p)>> \in Stack!Servers(p)
         /\ <<"gateway", Stack!GatewayPortInternal, p.gates.http>> \in Stack!Servers(p)
<1>1. \A s \in Stack!gatewayServers(p) : s \in Stack!Servers(p)
  BY Zenon DEF Stack!Servers, Stack!If
<1> QED BY <1>1, Zenon DEF Stack!gatewayServers

\* What the connections of a TempoStack need: both encryption gates or none,
\* receivers with TLS of their own only without a gateway.
Encryption(p) ==
  /\ p.gates.http \in BOOLEAN /\ p.gates.grpc = p.gates.http
  /\ p.spec.gateway.enabled \in BOOLEAN /\ p.spec.receiverTLS.enabled \in BOOLEAN
  /\ p.spec.gateway.enabled => ~p.spec.receiverTLS.enabled
  /\ p.apiserver = [ports |-> {6443}, ips |-> {"apiserver"}]

\* With it the two ends of a connection decide alike on TLS.
LEMMA HTTPSValue == ASSUME NEW p, Encryption(p), NEW c
  PROVE  /\ c # "query-frontend" \/ p.spec.gateway.enabled => Stack!HTTPS(p, c) = p.gates.http
         /\ c = "query-frontend" => Stack!HTTPS(p, c) = (p.gates.http /\ p.spec.gateway.enabled)
         /\ ~p.spec.gateway.enabled => Stack!HTTPS(p, "query-frontend") = FALSE
  BY DEF Encryption, Stack!HTTPS

LEMMA ReceiverTLS == ASSUME NEW p, Encryption(p)
  PROVE  /\ p.spec.gateway.enabled =>
              ((p.gates.grpc /\ p.spec.gateway.enabled) \/ p.spec.receiverTLS.enabled) = p.gates.http
         /\ ~p.spec.gateway.enabled =>
              ((p.gates.grpc /\ p.spec.gateway.enabled) \/ p.spec.receiverTLS.enabled) = p.spec.receiverTLS.enabled
         /\ p.spec.gateway.enabled => (p.gates.http /\ p.spec.gateway.enabled) = p.gates.http
         /\ ~p.spec.gateway.enabled => (p.gates.http /\ p.spec.gateway.enabled) = FALSE
  BY DEF Encryption

\* The policies allow the call c, and somebody answers it.
Served(p, c) == Reaches(p, c[1], c[2], c[3]) /\ <<c[2], c[3], c[4]>> \in Stack!Servers(p)

LEMMA CallServed ==
  ASSUME NEW p, NEW a, NEW b, NEW n, NEW t, NEW c, c = <<a, b, n, t>>, Reaches(p, a, b, n), <<b, n, t>> \in Stack!Servers(p)
  PROVE  Served(p, c)
<1>1. c[1] = a /\ c[2] = b /\ c[3] = n /\ c[4] = t
  OBVIOUS
<1> QED BY <1>1, Zenon DEF Served

\* The calls, caller by caller.
LEMMA BasePods == ASSUME NEW p
  PROVE  /\ {"distributor", "ingester", "querier", "query-frontend", "compactor"} \subseteq Stack!TempoPods(p)
         /\ p.spec.gateway.enabled => "gateway" \in Stack!Pods(p)
         /\ p.spec.generator.enabled => "metrics-generator" \in Stack!TempoPods(p)
         /\ Stack!TempoPods(p) \subseteq Stack!Pods(p)
  BY DEF Stack!TempoPods, Stack!Pods

LEMMA InProduct == ASSUME NEW A, NEW B, NEW C, NEW D, NEW c \in A \X B \X C \X D
  PROVE  \E a \in A, b \in B : \E x \in C, y \in D : c = <<a, b, x, y>>
  BY SMTT(30)

LEMMA TempoCalls == ASSUME NEW p, NEW c \in Stack!tempoCalls(p) PROVE Served(p, c)
<1>1. CASE c \in {"distributor", "querier"} \X ({"ingester"} \cup Stack!If(p.spec.generator.enabled, {"metrics-generator"}))
                   \X {Stack!PortGRPC} \X {p.gates.grpc}
  <2>1. PICK a \in {"distributor", "querier"}, b \in {"ingester"} \cup Stack!If(p.spec.generator.enabled, {"metrics-generator"}) :
          c = <<a, b, Stack!PortGRPC, p.gates.grpc>>
    <3> DEFINE A == {"distributor", "querier"}
               B == {"ingester"} \cup Stack!If(p.spec.generator.enabled, {"metrics-generator"})
    <3>1. c \in A \X B \X {Stack!PortGRPC} \X {p.gates.grpc}
      BY <1>1
    <3> HIDE DEF A, B
    <3>2. \E a \in A, b \in B : \E x \in {Stack!PortGRPC}, y \in {p.gates.grpc} : c = <<a, b, x, y>>
      BY <3>1, InProduct, SMTT(30)
    <3>3. \E a \in A, b \in B : c = <<a, b, Stack!PortGRPC, p.gates.grpc>>
      BY <3>2, Zenon
    <3> QED BY <3>3, Zenon DEF A, B
  <2>2. a \in Stack!Pods(p) /\ b \in Stack!TempoPods(p) /\ b \in Stack!Pods(p)
    BY BasePods DEF Stack!If
  <2>3. <<a, b, Stack!PortGRPC>> \in Stack!componentRelations(p)
    <3>1. Stack!PortGRPC \in Stack!PortServer
      BY DEF Stack!PortServer
    <3>2. CASE b = "ingester"
      BY <3>1, <3>2 DEF Stack!componentRelations, Stack!Rel
    <3>3. CASE b = "metrics-generator" /\ p.spec.generator.enabled
      <4>1. <<a, b, Stack!PortGRPC>> \in Stack!generatorRelations(p)
        BY <3>1, <3>3 DEF Stack!generatorRelations, Stack!Rel
      <4> QED BY <3>3, <4>1 DEF Stack!componentRelations
    <3> QED BY <3>2, <3>3 DEF Stack!If
  <2>4. <<b, Stack!PortGRPC, p.gates.grpc>> \in Stack!Servers(p)
    BY <2>2, TempoServes
  <2>5. Reaches(p, a, b, Stack!PortGRPC)
    BY <2>2, <2>3, Within
  <2> QED BY <2>1, <2>4, <2>5, CallServed, Zenon
<1>2. CASE c = <<"querier", "query-frontend", Stack!PortGRPC, p.gates.grpc>>
  <2>1. <<"querier", "query-frontend", Stack!PortGRPC>> \in Stack!componentRelations(p)
    BY DEF Stack!componentRelations, Stack!Rel, Stack!PortServer
  <2>2. "querier" \in Stack!Pods(p) /\ "query-frontend" \in Stack!Pods(p) /\ "query-frontend" \in Stack!TempoPods(p)
    BY BasePods
  <2>3. Reaches(p, "querier", "query-frontend", Stack!PortGRPC)
    BY <2>1, <2>2, Within
  <2> QED BY <1>2, <2>2, <2>3, TempoServes, CallServed, Zenon
<1>3. CASE c \in Stack!TempoPods(p) \X Stack!TempoPods(p) \X {Stack!PortGossip} \X {FALSE}
  <2>1. PICK a \in Stack!TempoPods(p), b \in Stack!TempoPods(p) : c = <<a, b, Stack!PortGossip, FALSE>>
    <3> DEFINE plain == FALSE
    <3>1. c \in Stack!TempoPods(p) \X Stack!TempoPods(p) \X {Stack!PortGossip} \X {plain}
      BY <1>3
    <3> HIDE DEF plain
    <3>2. \E a \in Stack!TempoPods(p), b \in Stack!TempoPods(p) : c = <<a, b, Stack!PortGossip, plain>>
      BY <3>1
    <3> QED BY <3>2, Zenon DEF plain
  <2>2. Reaches(p, a, b, Stack!PortGossip)
    BY BasePods, Gossips
  <2>3. <<b, Stack!PortGossip, FALSE>> \in Stack!Servers(p)
    BY TempoServes, Zenon
  <2> QED BY <2>1, <2>2, <2>3, CallServed, Zenon
<1> QED BY <1>1, <1>2, <1>3 DEF Stack!tempoCalls

LEMMA GatewayCalls == ASSUME NEW p, Encryption(p), p.spec.gateway.enabled, NEW c \in Stack!gatewayCalls(p) PROVE Served(p, c)
<1> DEFINE tls == p.gates.http
<1>0. {"gateway", "distributor", "query-frontend"} \subseteq Stack!Pods(p) /\ "query-frontend" \in Stack!TempoPods(p)
  BY BasePods
<1>1. \A r \in Stack!gatewayRelations(p) : r \in Stack!componentRelations(p)
  BY DEF Stack!componentRelations
<1>2. CASE c \in {"gateway"} \X {"distributor"} \X Stack!PortOtlp \X {tls}
  <2>1. PICK n \in Stack!PortOtlp : c = <<"gateway", "distributor", n, tls>>
    BY <1>2
  <2>2. <<"gateway", "distributor", n>> \in Stack!gatewayRelations(p)
    BY DEF Stack!gatewayRelations, Stack!Rel
  <2>3. Reaches(p, "gateway", "distributor", n)
    BY <1>0, <1>1, <2>2, Within
  <2>4. <<"distributor", n, tls>> \in Stack!Servers(p)
    BY ReceiverServes, ReceiverTLS, Zenon
  <2> QED BY <2>1, <2>3, <2>4, CallServed, Zenon
<1>3. CASE c = <<"gateway", "query-frontend", Stack!PortHTTP, tls>>
  <2>1. <<"gateway", "query-frontend", Stack!PortHTTP>> \in Stack!gatewayRelations(p)
    BY DEF Stack!gatewayRelations, Stack!Rel, Stack!PortServer
  <2>2. Reaches(p, "gateway", "query-frontend", Stack!PortHTTP)
    BY <1>0, <1>1, <2>1, Within
  <2>3. <<"query-frontend", Stack!PortHTTP, tls>> \in Stack!Servers(p)
    BY <1>0, TempoServes, HTTPSValue, Zenon
  <2> QED BY <1>3, <2>2, <2>3, CallServed, Zenon
<1>4. CASE p.spec.jaeger.enabled /\ c = <<"gateway", "query-frontend", Stack!PortJaegerUI, tls>>
  <2>1. <<"gateway", "query-frontend", Stack!PortJaegerUI>> \in Stack!gatewayRelations(p)
    BY <1>4 DEF Stack!gatewayRelations, Stack!Rel
  <2>2. Reaches(p, "gateway", "query-frontend", Stack!PortJaegerUI)
    BY <1>0, <1>1, <2>1, Within
  <2>3. <<"query-frontend", Stack!PortJaegerUI, tls>> \in Stack!Servers(p)
    BY <1>4, JaegerServes, ReceiverTLS, Zenon
  <2> QED BY <1>4, <2>2, <2>3, CallServed, Zenon
<1> QED BY <1>2, <1>3, <1>4 DEF Stack!gatewayCalls, Stack!If

LEMMA MonitoringCalls == ASSUME NEW p, Encryption(p), NEW c \in Stack!monitoringCalls(p) PROVE Served(p, c)
<1>1. PICK m \in Stack!Monitored(p) :
        c = <<"monitoring", m, IF m = "gateway" THEN Stack!GatewayPortInternal ELSE Stack!PortHTTP, Stack!ScrapesTLS(p, m)>>
  BY Zenon DEF Stack!monitoringCalls
<1>2. m \in {"distributor", "ingester", "querier", "query-frontend", "compactor"} \/ (m = "gateway" /\ p.spec.gateway.enabled)
  <2>1. m \in {"distributor", "ingester", "querier", "query-frontend", "compactor"} \/ m \in Stack!If(p.spec.gateway.enabled, {"gateway"})
    BY DEF Stack!Monitored
  <2>2. CASE p.spec.gateway.enabled
    BY <2>1, <2>2, Zenon DEF Stack!If
  <2>3. CASE ~p.spec.gateway.enabled
    <3>1. Stack!If(p.spec.gateway.enabled, {"gateway"}) = {}
      BY <2>3, Zenon DEF Stack!If
    <3>2. m \notin Stack!If(p.spec.gateway.enabled, {"gateway"})
      BY <3>1, Zenon
    <3> QED BY <2>1, <3>2, Zenon
  <2> QED BY <2>2, <2>3
<1>3. CASE m # "gateway"
  <2>1. m \in Stack!TempoPods(p) /\ m \in Stack!Pods(p)
    BY <1>2, <1>3, BasePods
  <2>2. Stack!ScrapesTLS(p, m) = Stack!HTTPS(p, m)
    BY HTTPSValue DEF Stack!ScrapesTLS
  <2>3. <<m, Stack!PortHTTP, Stack!ScrapesTLS(p, m)>> \in Stack!Servers(p)
    BY <2>1, <2>2, TempoServes, Zenon
  <2> QED BY <1>1, <1>3, <2>1, <2>3, Scraped, CallServed, Zenon
<1>4. CASE m = "gateway" /\ p.spec.gateway.enabled
  <2>1. "gateway" \in Stack!Pods(p)
    BY <1>4, BasePods
  <2>2. <<"cluster", "gateway", Stack!GatewayPortInternal>> \in Stack!gatewayRelations(p)
    BY DEF Stack!gatewayRelations, Stack!Rel, Stack!PortsGateway
  <2>3. <<"cluster", "gateway", Stack!GatewayPortInternal>> \in Stack!componentRelations(p)
    BY <1>4, <2>2 DEF Stack!componentRelations
  <2>4. Reaches(p, "monitoring", "gateway", Stack!GatewayPortInternal)
    BY <2>1, <2>3, FromCluster
  <2>5. Stack!ScrapesTLS(p, "gateway") = p.gates.http
    BY DEF Stack!ScrapesTLS
  <2> QED BY <1>1, <1>4, <2>4, <2>5, GatewayServes, CallServed, Zenon
<1> QED BY <1>2, <1>3, <1>4

LEMMA ClientCalls == ASSUME NEW p, Encryption(p), NEW c \in Stack!clientCalls(p) PROVE Served(p, c)
<1>0. {"distributor", "query-frontend"} \subseteq Stack!Pods(p) /\ "query-frontend" \in Stack!TempoPods(p)
  BY BasePods
<1>1. CASE p.spec.gateway.enabled
  <2>1. PICK n \in {Stack!GatewayPort, Stack!GatewayPortGRPC} : c = <<"client", "gateway", n, Stack!ServingGateway(p)>>
    BY <1>1, Zenon DEF Stack!clientCalls
  <2>2. <<"cluster", "gateway", n>> \in Stack!gatewayRelations(p)
    BY DEF Stack!gatewayRelations, Stack!Rel, Stack!PortsGateway
  <2>3. <<"cluster", "gateway", n>> \in Stack!componentRelations(p) /\ "gateway" \in Stack!Pods(p)
    BY <1>1, <2>2, BasePods DEF Stack!componentRelations
  <2>4. Reaches(p, "client", "gateway", n)
    BY <2>3, FromCluster
  <2>5. <<"gateway", n, Stack!ServingGateway(p)>> \in Stack!Servers(p)
    BY <1>1, GatewayServes, Zenon
  <2> QED BY <2>1, <2>4, <2>5, CallServed, Zenon
<1>2. CASE ~p.spec.gateway.enabled
  <2>1. \A r \in Stack!directRelations : r \in Stack!componentRelations(p)
    BY <1>2 DEF Stack!componentRelations
  <2>2. p.spec.jaeger.enabled => \A r \in Stack!jaegerRelations(p) : r \in Stack!componentRelations(p)
    BY DEF Stack!componentRelations
  <2>3. CASE c = <<"client", "query-frontend", Stack!PortHTTP, FALSE>>
    <3>1. <<"cluster", "query-frontend", Stack!PortHTTP>> \in Stack!directRelations
      BY DEF Stack!directRelations, Stack!Rel, Stack!PortServer
    <3>2. Reaches(p, "client", "query-frontend", Stack!PortHTTP)
      BY <1>0, <2>1, <3>1, FromCluster
    <3>3. <<"query-frontend", Stack!PortHTTP, FALSE>> \in Stack!Servers(p)
      BY <1>0, <1>2, TempoServes, HTTPSValue, Zenon
    <3> QED BY <2>3, <3>2, <3>3, CallServed, Zenon
  <2>4. CASE c \in {"client"} \X {"distributor"} \X (Stack!PortOtlp \cup Stack!PortsJaegerReceivers) \X {p.spec.receiverTLS.enabled}
    <3>1. PICK n \in Stack!PortOtlp \cup Stack!PortsJaegerReceivers : c = <<"client", "distributor", n, p.spec.receiverTLS.enabled>>
      BY <2>4
    <3>2. <<"cluster", "distributor", n>> \in Stack!directRelations
      BY DEF Stack!directRelations, Stack!Rel
    <3>3. Reaches(p, "client", "distributor", n)
      BY <1>0, <2>1, <3>2, FromCluster
    <3>4. <<"distributor", n, p.spec.receiverTLS.enabled>> \in Stack!Servers(p)
      BY <1>2, ReceiverServes, ReceiverTLS, Zenon
    <3> QED BY <3>1, <3>3, <3>4, CallServed, Zenon
  <2>5. CASE p.spec.jaeger.enabled /\ c = <<"client", "query-frontend", Stack!PortJaegerUI, FALSE>>
    <3>1. <<"cluster", "query-frontend", Stack!PortJaegerUI>> \in Stack!jaegerRelations(p)
      BY DEF Stack!jaegerRelations, Stack!Rel, Stack!PortsJaegerQuery
    <3>2. Reaches(p, "client", "query-frontend", Stack!PortJaegerUI)
      BY <1>0, <2>2, <2>5, <3>1, FromCluster
    <3>3. <<"query-frontend", Stack!PortJaegerUI, FALSE>> \in Stack!Servers(p)
      BY <1>2, <2>5, JaegerServes, ReceiverTLS, Zenon
    <3> QED BY <2>5, <3>2, <3>3, CallServed, Zenon
  <2>6. CASE Stack!OAuth(p) /\ p.spec.jaeger.enabled /\ c = <<"client", "query-frontend", Stack!PortOAuthProxy, TRUE>>
    <3>1. <<"cluster", "query-frontend", Stack!PortOAuthProxy>> \in Stack!jaegerRelations(p)
      BY <2>6 DEF Stack!jaegerRelations, Stack!Rel, Stack!OAuth
    <3>2. Reaches(p, "client", "query-frontend", Stack!PortOAuthProxy)
      BY <1>0, <2>2, <2>6, <3>1, FromCluster
    <3> QED BY <2>6, <3>2, JaegerServes, CallServed, Zenon
  <2> QED BY <1>2, <2>3, <2>4, <2>5, <2>6, Zenon DEF Stack!clientCalls, Stack!If
<1> QED BY <1>1, <1>2

LEMMA Probes == ASSUME NEW p, Encryption(p), NEW c \in Stack!LocalCalls(p) PROVE c \in Stack!Servers(p)
<1>0. "query-frontend" \in Stack!TempoPods(p)
  BY BasePods
<1>1. ASSUME NEW d \in Stack!TempoPods(p) PROVE Stack!TempoReadinessProbe(p, d, Stack!HTTPS(p, d)) \in Stack!Servers(p)
  <2>1. CASE Stack!HTTPS(p, d) = TRUE
    BY <2>1, TempoServes, Zenon DEF Stack!TempoReadinessProbe
  <2>2. CASE Stack!HTTPS(p, d) = FALSE
    BY <2>2, TempoServes, Zenon DEF Stack!TempoReadinessProbe
  <2>3. Stack!HTTPS(p, d) \in BOOLEAN
    BY DEF Stack!HTTPS
  <2> QED BY <2>1, <2>2, <2>3
<1>2. ASSUME NEW d \in Stack!TempoPods(p) \ {"query-frontend"}, c = Stack!TempoReadinessProbe(p, d, p.gates.http)
      PROVE  c \in Stack!Servers(p)
  <2>1. Stack!HTTPS(p, d) = p.gates.http
    BY HTTPSValue
  <2> QED BY <1>1, <1>2, <2>1, Zenon
<1>3. CASE c = Stack!TempoReadinessProbe(p, "query-frontend", p.gates.http /\ p.spec.gateway.enabled)
  <2>1. Stack!HTTPS(p, "query-frontend") = (p.gates.http /\ p.spec.gateway.enabled)
    BY HTTPSValue, Zenon
  <2> QED BY <1>0, <1>1, <1>3, <2>1, Zenon
<1>4. CASE p.spec.gateway.enabled /\ c = <<"gateway", Stack!GatewayPortInternal, p.gates.http>>
  BY <1>4, GatewayServes, Zenon
<1>5. CASE c = <<"query-frontend", Stack!PortHTTP, p.gates.http /\ p.spec.gateway.enabled>>
  <2>1. Stack!HTTPS(p, "query-frontend") = (p.gates.http /\ p.spec.gateway.enabled)
    BY HTTPSValue, Zenon
  <2> QED BY <1>0, <1>5, <2>1, TempoServes, Zenon
<1>6. CASE p.spec.jaeger.enabled /\ c = <<"query-frontend", Stack!PortTempoQuery, FALSE>>
  BY <1>6, JaegerServes, Zenon
<1>7. CASE Stack!OAuth(p) /\ p.spec.jaeger.enabled /\ c = <<"query-frontend", Stack!PortJaegerUI, FALSE>>
  <2>1. ~p.spec.gateway.enabled
    BY <1>7, Zenon DEF Stack!OAuth
  <2> QED BY <1>7, <2>1, JaegerServes, ReceiverTLS, Zenon
<1> QED BY <1>2, <1>3, <1>4, <1>5, <1>6, <1>7, Zenon DEF Stack!LocalCalls, Stack!If

LEMMA StackConnects == ASSUME NEW p, Encryption(p) PROVE StackConnected(p)
<1>1. ASSUME NEW c \in Stack!Calls(p) PROVE Served(p, c)
  <2>1. \/ c \in Stack!tempoCalls(p) \/ c \in Stack!clientCalls(p)
        \/ p.spec.gateway.enabled /\ c \in Stack!gatewayCalls(p)
        \/ c \in Stack!monitoringCalls(p)
    BY <1>1, Zenon DEF Stack!Calls, Stack!If
  <2> QED BY <2>1, TempoCalls, ClientCalls, GatewayCalls, MonitoringCalls, Zenon
<1>2. ASSUME NEW c \in Stack!outsideCalls(p) PROVE Reaches(p, c[1], c[2], c[3])
  BY OutsideCalls DEF Encryption
<1>3. Stack!LocalCalls(p) \subseteq Stack!Servers(p)
  BY Probes, Zenon
<1> QED BY <1>1, <1>2, <1>3, Zenon DEF StackConnected, Served, Reaches

\* Who listens in the pod of a TempoMonolithic.
LEMMA MonoServes == ASSUME NEW p
  PROVE  /\ <<Mono!PortHTTP, Mono!InternalTLS(p), "0.0.0.0">> \in Mono!Servers(p)
         /\ <<Mono!PortInternal, FALSE, "0.0.0.0">> \in Mono!Servers(p)
         /\ Mono!receiverServers(p) \subseteq Mono!Servers(p)
  BY Zenon DEF Mono!Servers

LEMMA MonoJaegerServes == ASSUME NEW p, Mono!Jaeger(p)
  PROVE  /\ <<Mono!PortJaegerUI, FALSE, Mono!BehindGateway(p)>> \in Mono!Servers(p)
         /\ <<Mono!PortTempoQuery, FALSE, "0.0.0.0">> \in Mono!Servers(p)
         /\ Mono!OAuth(p) => <<Mono!PortOAuthProxy, TRUE, "0.0.0.0">> \in Mono!Servers(p)
  BY Zenon DEF Mono!Servers, Mono!If

LEMMA MonoGatewayServes == ASSUME NEW p, Mono!Gateway(p)
  PROVE  /\ <<Mono!GatewayPort, p.gates.servingCerts, "0.0.0.0">> \in Mono!Servers(p)
         /\ <<Mono!GatewayPortInternal, p.gates.http, "0.0.0.0">> \in Mono!Servers(p)
         /\ p.spec.grpc.enabled => <<Mono!GatewayPortGRPC, p.gates.servingCerts, "0.0.0.0">> \in Mono!Servers(p)
  BY Zenon DEF Mono!Servers, Mono!If

\* A receiver listens when it is enabled, or behind an encrypting gateway.
LEMMA MonoReceivers == ASSUME NEW p, NEW r \in {"grpc", "http"}, Mono!InternalTLS(p) \/ p.spec[r].enabled
  PROVE  <<Mono!ReceiverPort(r), IF Mono!InternalTLS(p) THEN TRUE ELSE p.spec[r].tls, Mono!ReceiverAddress(p, r)>> \in Mono!Servers(p)
<1>1. <<Mono!ReceiverPort(r), IF Mono!InternalTLS(p) THEN TRUE ELSE p.spec[r].tls, Mono!ReceiverAddress(p, r)>> \in Mono!receiverServers(p)
  BY Zenon DEF Mono!receiverServers
<1> QED BY <1>1, MonoServes, Zenon

LEMMA ReceiverPorts ==
  /\ Mono!ReceiverPort("grpc") = Mono!PortOtlpGrpc
  /\ Mono!ReceiverPort("http") = Mono!PortOtlpHttp
  BY DEF Mono!ReceiverPort

\* A connection within the pod needs a server of either kind, local or not ...
LEMMA Answered == ASSUME NEW p, NEW a, NEW b, NEW e, <<a, b, e>> \in Mono!Servers(p), NEW c, c = <<a, b>>
  PROVE  \E s \in Mono!Servers(p) : s[1] = c[1] /\ s[2] = c[2]
<1> DEFINE s == <<a, b, e>>
<1>1. s[1] = a /\ s[2] = b /\ c[1] = a /\ c[2] = b
  OBVIOUS
<1>2. s \in Mono!Servers(p)
  OBVIOUS
<1> HIDE DEF s
<1> QED BY <1>1, <1>2

\* The switches of TLS are Booleans.
Switches(p) == {p.gates.http, p.spec.grpc.tls, p.spec.http.tls} \subseteq BOOLEAN

\* The gateway's upstreams.
LEMMA MonoUpstreams ==
  ASSUME NEW p, Switches(p), Mono!Gateway(p), NEW c \in Mono!gatewayCalls(p)
  PROVE  \/ \E s \in Mono!Servers(p) : s[1] = c[1] /\ s[2] = c[2]
         \/ c[1] \in KnownBroken(p)
<1>0. p.gates.http \in BOOLEAN /\ p.spec.grpc.tls \in BOOLEAN /\ p.spec.http.tls \in BOOLEAN
  BY DEF Switches
<1>1. Mono!InternalTLS(p) = p.gates.http
  BY <1>0 DEF Mono!InternalTLS
<1>2. CASE c = <<Mono!PortHTTP, p.gates.http>>
  BY <1>1, <1>2, MonoServes, Answered, Zenon
<1>3. CASE p.spec.grpc.enabled /\ c = <<Mono!PortOtlpGrpc, p.gates.http>>
  <2>1. <<Mono!PortOtlpGrpc, IF Mono!InternalTLS(p) THEN TRUE ELSE p.spec.grpc.tls, Mono!ReceiverAddress(p, "grpc")>> \in Mono!Servers(p)
    BY <1>3, MonoReceivers, ReceiverPorts, Zenon
  <2>2. CASE ~p.gates.http /\ p.spec.grpc.tls
    <3>1. c[1] = Mono!PortOtlpGrpc
      BY <1>3
    <3> QED BY <2>2, <3>1, Zenon DEF KnownBroken
  <2>3. CASE p.gates.http \/ ~p.spec.grpc.tls
    <3>1. (IF Mono!InternalTLS(p) THEN TRUE ELSE p.spec.grpc.tls) = p.gates.http
      BY <1>0, <1>1, <2>3
    <3> QED BY <1>3, <2>1, <3>1, Answered, Zenon
  <2> QED BY <2>2, <2>3
<1>4. CASE c = <<Mono!PortOtlpHttp, Mono!otlpHTTPScheme(p)>>
  <2>1. CASE ~p.spec.http.enabled
    <3>1. c[1] = Mono!PortOtlpHttp
      BY <1>4
    <3> QED BY <2>1, <3>1, Zenon DEF KnownBroken
  <2>2. CASE p.spec.http.enabled
    <3>1. <<Mono!PortOtlpHttp, IF Mono!InternalTLS(p) THEN TRUE ELSE p.spec.http.tls, Mono!ReceiverAddress(p, "http")>> \in Mono!Servers(p)
      BY <2>2, MonoReceivers, ReceiverPorts, Zenon
    <3>2. (IF Mono!InternalTLS(p) THEN TRUE ELSE p.spec.http.tls) = Mono!otlpHTTPScheme(p)
      BY <1>0, <1>1 DEF Mono!otlpHTTPScheme
    <3> QED BY <1>4, <3>1, <3>2, Answered, Zenon
  <2> QED BY <2>1, <2>2
<1>5. CASE Mono!Jaeger(p) /\ c = <<Mono!PortJaegerUI, FALSE>>
  BY <1>5, MonoJaegerServes, Answered, Zenon
<1> QED BY <1>2, <1>3, <1>4, <1>5, Zenon DEF Mono!gatewayCalls, Mono!If

LEMMA MonoLocal ==
  ASSUME NEW p, Switches(p), NEW c \in Mono!LocalCalls(p)
  PROVE  \/ \E s \in Mono!Servers(p) : s[1] = c[1] /\ s[2] = c[2]
         \/ Mono!Gateway(p) /\ c[1] \in KnownBroken(p)
<1>1. CASE Mono!Gateway(p) /\ c \in Mono!gatewayCalls(p)
  BY <1>1, MonoUpstreams, Zenon
<1>2. CASE Mono!Jaeger(p) /\ c = <<Mono!PortTempoQuery, FALSE>>
  BY <1>2, MonoJaegerServes, Answered, Zenon
<1>3. CASE c = <<Mono!PortHTTP, Mono!InternalTLS(p)>>
  BY <1>3, MonoServes, Answered, Zenon
<1>4. CASE Mono!OAuth(p) /\ c = <<Mono!PortJaegerUI, FALSE>>
  BY <1>4, MonoJaegerServes, Answered, Zenon DEF Mono!OAuth
<1> QED BY <1>1, <1>2, <1>3, <1>4, Zenon DEF Mono!LocalCalls, Mono!If

\* ... and one from elsewhere a server that does not listen on localhost only.
LEMMA Pair == ASSUME NEW a, NEW b, NEW c, c = <<a, b>> PROVE c[1] = a /\ c[2] = b
  OBVIOUS

LEMMA MonoOutside ==
  ASSUME NEW p, Switches(p), NEW c \in Mono!PodCalls(p)
  PROVE  <<c[1], c[2], "0.0.0.0">> \in Mono!Servers(p)
<1>1. CASE c = <<Mono!PortInternal, FALSE>>
  BY <1>1, Pair, MonoServes, Zenon
<1>2. CASE c = <<Mono!PortHTTP, Mono!InternalTLS(p)>>
  BY <1>2, Pair, MonoServes, Zenon
<1>3. CASE Mono!Gateway(p) /\ c = <<Mono!GatewayPortInternal, p.gates.http>>
  BY <1>3, Pair, MonoGatewayServes, Zenon
<1>4. CASE Mono!Gateway(p) /\ c = <<Mono!GatewayPort, p.gates.servingCerts>>
  BY <1>4, Pair, MonoGatewayServes, Zenon
<1>5. CASE Mono!Gateway(p) /\ p.spec.grpc.enabled /\ c = <<Mono!GatewayPortGRPC, p.gates.servingCerts>>
  BY <1>5, Pair, MonoGatewayServes, Zenon
<1>6. CASE ~Mono!Gateway(p) /\ c = <<Mono!PortHTTP, FALSE>>
  <2>1. Mono!InternalTLS(p) = FALSE
    BY <1>6, Zenon DEF Mono!InternalTLS
  <2> QED BY <1>6, <2>1, Pair, MonoServes, Zenon
<1>7. CASE ~Mono!Gateway(p) /\ c \in {<<Mono!ReceiverPort(r), p.spec[r].tls>> : r \in {q \in {"grpc", "http"} : p.spec[q].enabled}}
  <2>1. PICK r \in {"grpc", "http"} : p.spec[r].enabled /\ c = <<Mono!ReceiverPort(r), p.spec[r].tls>>
    BY <1>7, Zenon
  <2>2. <<Mono!ReceiverPort(r), IF Mono!InternalTLS(p) THEN TRUE ELSE p.spec[r].tls, Mono!ReceiverAddress(p, r)>> \in Mono!Servers(p)
    BY <2>1, MonoReceivers, Zenon
  <2>3. (IF Mono!InternalTLS(p) THEN TRUE ELSE p.spec[r].tls) = p.spec[r].tls /\ Mono!ReceiverAddress(p, r) = "0.0.0.0"
    BY <1>7, Zenon DEF Mono!InternalTLS, Mono!ReceiverAddress, Mono!BehindGateway
  <2> QED BY <2>1, <2>2, <2>3, Pair, Zenon
<1>8. CASE ~Mono!Gateway(p) /\ Mono!Jaeger(p) /\ c = <<Mono!PortJaegerUI, FALSE>>
  <2>1. Mono!BehindGateway(p) = "0.0.0.0"
    BY <1>8, Zenon DEF Mono!BehindGateway
  <2> QED BY <1>8, <2>1, Pair, MonoJaegerServes, Zenon
<1>9. CASE Mono!OAuth(p) /\ c = <<Mono!PortOAuthProxy, TRUE>>
  BY <1>9, Pair, MonoJaegerServes, Zenon DEF Mono!OAuth
<1> QED BY <1>1, <1>2, <1>3, <1>4, <1>5, <1>6, <1>7, <1>8, <1>9, Zenon DEF Mono!PodCalls, Mono!If

LEMMA MonoConnects == ASSUME NEW p, Switches(p) PROVE MonoConnected(p)
  BY MonoLocal, MonoOutside, Zenon DEF MonoConnected

\* validateGateway does not depend on the gates: receivers with TLS of their
\* own are not behind a gateway.
Apart(s) == s.gateway.enabled => ~s.receiverTLS.enabled

\* What the connections depend on in the parameters of a pass.
BuiltFrom(k, p) ==
  /\ p.gates \in Profiles /\ p.apiserver = APIServer
  /\ k = "TempoStack" => p.spec \in T!TempoStackSpec /\ Apart(p.spec)
  /\ k # "TempoStack" => {p.spec.grpc.tls, p.spec.http.tls} \subseteq BOOLEAN

\* The inductive invariant of what is deployed.
DeployedInv ==
  /\ gates \in Profiles
  /\ crs["TempoStack"].exists => Apart(crs["TempoStack"].spec)
  /\ \A k \in Kinds : Deployed(k) => BuiltFrom(k, done[k].p)

LEMMA GatewayApart == ASSUME NEW s, NEW g, NEW e, Stack!validate(s, g, e) = {} PROVE Apart(s)
<1>1. Stack!validateGateway(s, g, e) = {}
  BY Zenon DEF Stack!validate
<1> QED BY <1>1 DEF Stack!validateGateway, Stack!Unless, Apart

\* A step leaves the spec of a CR alone, or writes one that admission accepts.
SpecKept(k)    == crs[k].exists /\ crs'[k].spec = crs[k].spec
SpecWritten(k) == crs'[k].exists => SpecKept(k) \/ Accepts(k, crs'[k].spec)

LEMMA WriteAccepted ==
  ASSUME AdmissionInv, NEW k \in Kinds, NEW c \in CRs, c.spec \in Specs(k), ~c.deleting, Admits(k, c),
         NEW d, d.spec = Defaulted(k, c).spec, crs' = [crs EXCEPT ![k] = d], NEW j \in Kinds
  PROVE  SpecWritten(j)
<1>1. crs \in [Kinds -> CRs]
  BY DEF AdmissionInv, CRsOK
<1>2. CASE j = k
  <2>1. Accepts(k, d.spec)
    BY AdmittedAccepted, Zenon
  <2>2. crs'[j] = d
    BY <1>1, <1>2, Zenon
  <2> QED BY <1>2, <2>1, <2>2, Zenon DEF SpecWritten
<1>3. CASE j # k
  <2>1. crs'[j] = crs[j]
    BY <1>1, <1>3, Zenon
  <2> QED BY <2>1, Zenon DEF SpecWritten, SpecKept
<1> QED BY <1>2, <1>3

LEMMA SpecStep ==
  ASSUME AdmissionInv, [Next]_vars, NEW j \in Kinds
  PROVE  SpecWritten(j)
<1> DEFINE Goal == SpecWritten(j)
<1>0. crs \in [Kinds -> CRs] /\ "TempoStack" \in Kinds /\ (\A k \in Kinds : crs[k] \in CRs)
  BY DEF AdmissionInv, CRsOK, Kinds
<1>01. crs'[j] = crs[j] => Goal
  BY Zenon DEF SpecWritten, SpecKept
<1>1. ASSUME NEW k \in Kinds, UserCreate(k) PROVE Goal
  <2> DEFINE new == [NoCR EXCEPT !.exists = TRUE, !.spec = IF k = "TempoStack" THEN StackSpec ELSE MonoSpec]
  <2>1. (IF k = "TempoStack" THEN StackSpec ELSE MonoSpec) \in Specs(k)
    BY SpecsAssumption DEF Specs
  <2>2. new \in CRs /\ new.spec \in Specs(k) /\ ~new.deleting
    BY <2>1 DEF NoCR, CRs, Specs
  <2>3. Admits(k, new) /\ crs' = [crs EXCEPT ![k] = Stored(k, new)]
    BY <1>1, Zenon DEF UserCreate
  <2> HIDE DEF new
  <2>4. Stored(k, new).spec = Defaulted(k, new).spec
    BY <2>2, StoredFields, Zenon
  <2> QED BY <2>2, <2>3, <2>4, WriteAccepted, Zenon
<1>2. ASSUME NEW k \in Kinds, NEW e, \A s \in Specs(k) : Edited(s, e) \in Specs(k), UserEdit(k, e) PROVE Goal
  <2> DEFINE c == crs[k]
             n == Edited(c.spec, e)
             new == [c EXCEPT !.spec = n]
  <2>1. c \in CRs /\ ~c.deleting /\ c.spec \in Specs(k)
    BY <1>2, Zenon DEF UserEdit, AdmissionInv, CRsOK
  <2>2. n \in Specs(k)
    BY <1>2, <2>1, Zenon
  <2>3. Admits(k, new) /\ crs' = [crs EXCEPT ![k] = Stored(k, new)]
    BY <1>2, Zenon DEF UserEdit
  <2> HIDE DEF n, c
  <2>4. n \in T!TempoStackSpec \cup T!TempoMonolithicSpec \cup {<<>>}
    BY <2>2 DEF Specs
  <2>5. new \in CRs /\ new.spec = n /\ new.deleting = c.deleting
    BY <2>1, <2>4, Zenon DEF CRs
  <2> HIDE DEF new
  <2>6. Stored(k, new).spec = Defaulted(k, new).spec
    BY <2>2, <2>5, StoredFields, Zenon
  <2> QED BY <2>1, <2>2, <2>3, <2>5, <2>6, WriteAccepted, Zenon
<1>3. ASSUME NEW k \in Kinds, Reconcile(k) PROVE Goal
  <2>1. CASE crs' = crs
    BY <1>01, <2>1, Zenon
  <2>2. CASE Admits(k, WithFinalizer(k)) /\ crs' = [crs EXCEPT ![k] = Defaulted(k, WithFinalizer(k))]
    <3> DEFINE c == WithFinalizer(k)
    <3>1. crs[k].spec \in Specs(k) /\ ~crs[k].deleting
      BY <1>3, Zenon DEF Reconcile, AdmissionInv, CRsOK
    <3>2. c \in CRs /\ c.spec = crs[k].spec /\ c.deleting = crs[k].deleting
      BY <1>0, Zenon DEF CRs, WithFinalizer
    <3> HIDE DEF c
    <3> QED BY <2>2, <3>1, <3>2, WriteAccepted, Zenon DEF c
  <2>3. crs' = crs \/ (Admits(k, WithFinalizer(k)) /\ crs' = [crs EXCEPT ![k] = Defaulted(k, WithFinalizer(k))])
    <3>1. CASE ~Finalizes(k)
      BY <1>3, <3>1, Zenon DEF Reconcile
    <3>2. CASE Finalizes(k)
      <4>1. crs' = [crs EXCEPT ![k] = IF crs[k].finalizer THEN @ ELSE Defaulted(k, WithFinalizer(k))]
        BY <1>3, <3>2, Zenon DEF Reconcile
      <4> QED BY <3>2, <4>1, <1>0 DEF Finalizes
    <3> QED BY <3>1, <3>2
  <2> QED BY <2>1, <2>2, <2>3
<1>4. ASSUME NEW k \in Kinds, Removed(k) PROVE Goal
  <2>1. crs'[j] = IF j = k THEN NoCR ELSE crs[j]
    BY <1>0, <1>4 DEF Removed
  <2> QED BY <1>01, <2>1, NoCRType, Zenon DEF SpecWritten
<1>5. ASSUME NEW k \in Kinds, UserDelete(k) PROVE Goal
  <2>1. CASE crs[k].finalizer
    <3> DEFINE d == [crs[k] EXCEPT !.deleting = TRUE]
    <3>1. crs' = [crs EXCEPT ![k] = d]
      BY <1>5, <2>1, Zenon DEF UserDelete
    <3>2. d.exists = crs[k].exists /\ d.spec = crs[k].spec
      BY <1>0, Zenon DEF CRs
    <3> HIDE DEF d
    <3>3. crs'[j] = IF j = k THEN d ELSE crs[j]
      BY <1>0, <3>1
    <3> QED BY <1>01, <3>2, <3>3, Zenon DEF SpecWritten, SpecKept
  <2>2. CASE ~crs[k].finalizer
    BY <1>4, <1>5, <2>2, Zenon DEF UserDelete
  <2> QED BY <2>1, <2>2
<1>6. ASSUME crs' = Stale PROVE Goal
  <2>1. crs'[j] = [crs[j] EXCEPT !.fresh = FALSE]
    BY <1>6, Zenon DEF Stale
  <2>2. [crs[j] EXCEPT !.fresh = FALSE].exists = crs[j].exists /\ [crs[j] EXCEPT !.fresh = FALSE].spec = crs[j].spec
    BY <1>0, Zenon DEF CRs
  <2> QED BY <2>1, <2>2, Zenon DEF SpecWritten, SpecKept
<1>7. ASSUME NEW e \in StackEdits, UserEdit("TempoStack", e) PROVE Goal
  <2>1. \A s \in Specs("TempoStack") : Edited(s, e) \in Specs("TempoStack")
    BY StackEdited DEF Specs
  <2> QED BY <1>0, <1>2, <1>7, <2>1, Zenon
<1>8. ASSUME NEW e \in MonoEdits, UserEdit("TempoMonolithic", e) PROVE Goal
  <2>1. "TempoMonolithic" \in Kinds /\ \A s \in Specs("TempoMonolithic") : Edited(s, e) \in Specs("TempoMonolithic")
    BY MonoEdited DEF Kinds, Specs
  <2> QED BY <1>2, <1>8, <2>1, Zenon
<1>9. ASSUME UNCHANGED vars PROVE Goal
  <2>1. crs' = crs
    BY <1>9 DEF vars
  <2> QED BY <1>01, <2>1, Zenon
<1> HIDE DEF Goal
<1>10. ASSUME NEW k \in Kinds, ReconcileDeletion(k) PROVE Goal
  BY <1>4, <1>10, Zenon DEF ReconcileDeletion
<1>11. ASSUME NEW d \in Disturbances, EnvChange(d) PROVE Goal
  BY <1>6, <1>11, Zenon DEF EnvChange
<1>12. ASSUME NEW g \in Profiles, OperatorReconfigure(g) PROVE Goal
  BY <1>6, <1>12, Zenon DEF OperatorReconfigure
<1>13. Goal
  BY <1>1, <1>3, <1>5, <1>7, <1>8, <1>9, <1>10, <1>11, <1>12, Zenon DEF Next
<1> QED BY <1>13 DEF Goal

LEMMA ApartStep ==
  ASSUME AdmissionInv, [Next]_vars, crs["TempoStack"].exists => Apart(crs["TempoStack"].spec)
  PROVE  crs'["TempoStack"].exists => Apart(crs'["TempoStack"].spec)
<1>1. SpecWritten("TempoStack")
  BY SpecStep, Zenon DEF Kinds
<1>2. ASSUME Accepts("TempoStack", crs'["TempoStack"].spec) PROVE Apart(crs'["TempoStack"].spec)
  BY <1>2, GatewayApart, Zenon DEF Accepts
<1> QED BY <1>1, <1>2, Zenon DEF SpecWritten, SpecKept

\* A pass builds from the gates it runs with and from the stored spec.
LEMMA ParamsBuilt ==
  ASSUME AdmissionInv, DeployedInv, NEW k \in Kinds, crs[k].exists
  PROVE  BuiltFrom(k, Params(k, Effective(k)))
<1> DEFINE s == Effective(k)
           p == Params(k, s)
<1>1. p.spec = s /\ p.gates = gates /\ p.apiserver = Stack!DiscoverKubernetesAPIServer(TRUE, APIServer)
  BY DEF Params
<1>2. Stack!DiscoverKubernetesAPIServer(TRUE, APIServer) = APIServer
  BY DEF Stack!DiscoverKubernetesAPIServer, APIServer
<1>3. crs[k].spec \in Specs(k)
  BY DEF AdmissionInv, CRsOK
<1>4. k = "TempoStack" => s \in T!TempoStackSpec /\ Apart(s)
  BY <1>3, Zenon DEF Effective, Specs, DeployedInv
<1>5. k # "TempoStack" => {s.grpc.tls, s.http.tls} \subseteq BOOLEAN
  <2> SUFFICES ASSUME k # "TempoStack" PROVE {s.grpc.tls, s.http.tls} \subseteq BOOLEAN
    OBVIOUS
  <2> DEFINE raw == crs[k].spec
  <2>1. s = Mono!Default(raw, gates) /\ raw \in T!TempoMonolithicSpec
    BY <1>3, Zenon DEF Effective, Specs
  <2> HIDE DEF s, raw
  <2>2. s.grpc = Mono!DefaultReceiver(raw.grpc) /\ s.http = Mono!DefaultReceiver(raw.http)
    BY <2>1, Zenon DEF Mono!Default, T!TempoMonolithicSpec
  <2>3. raw.grpc \in T!MonolithicIngestionOTLPProtocolSpec /\ raw.http \in T!MonolithicIngestionOTLPProtocolSpec
    BY <2>1 DEF T!TempoMonolithicSpec
  <2>4. \A r \in T!MonolithicIngestionOTLPProtocolSpec : Mono!DefaultReceiver(r).tls \in BOOLEAN
    BY DEF Mono!DefaultReceiver, T!MonolithicIngestionOTLPProtocolSpec
  <2> QED BY <2>2, <2>3, <2>4, Zenon
<1> HIDE DEF s, p
<1> QED BY <1>1, <1>2, <1>4, <1>5, Zenon DEF BuiltFrom, DeployedInv, p, s

\* Every other step leaves what is deployed alone, or removes it.
LEMMA BuiltStep ==
  ASSUME AdmissionInv, PassTypes, DeployedInv, [Next]_vars
  PROVE  \A k \in Kinds : done'[k].p # NoParams => BuiltFrom(k, done'[k].p)
<1> DEFINE Built2 == \A k \in Kinds : done'[k].p # NoParams => BuiltFrom(k, done'[k].p)
<1>0. DOMAIN done = Kinds /\ \A k \in Kinds : done[k].p # NoParams => BuiltFrom(k, done[k].p)
  BY Zenon DEF PassTypes, DeployedInv, Deployed
<1>1. ASSUME done' = done PROVE Built2
  BY <1>0, <1>1, Zenon
<1>2. ASSUME NEW k \in Kinds, Removed(k) PROVE Built2
  <2> DEFINE none == [outcome |-> "none", p |-> NoParams]
  <2>1. done' = [done EXCEPT ![k] = none] /\ none.p = NoParams
    BY <1>2, Zenon DEF Removed
  <2> HIDE DEF none
  <2>2. \A j \in Kinds : done'[j] = IF j = k THEN none ELSE done[j]
    BY <1>0, <2>1
  <2> QED BY <1>0, <2>1, <2>2, Zenon
<1>3. ASSUME NEW k \in Kinds, crs[k].exists, Deploy(k) PROVE Built2
  <2> DEFINE result == PassResult(k, Effective(k))
             new == IF result = "ready" THEN Params(k, Effective(k)) ELSE done[k].p
             d == [outcome |-> result, p |-> new]
  <2>1. done' = [done EXCEPT ![k] = d]
    BY <1>3, Zenon DEF Deploy
  <2>2. d.p = new
    BY Zenon
  <2>3. new # NoParams => BuiltFrom(k, new)
    BY <1>0, <1>3, ParamsBuilt, Zenon
  <2> HIDE DEF d, new
  <2>4. \A j \in Kinds : done'[j] = IF j = k THEN d ELSE done[j]
    BY <1>0, <2>1
  <2> QED BY <1>0, <2>2, <2>3, <2>4, Zenon
<1> HIDE DEF Built2
<1>4. ASSUME NEW k \in Kinds, UserCreate(k) PROVE Built2
  BY <1>1, <1>4, Zenon DEF UserCreate
<1>5. ASSUME NEW k \in Kinds, UserDelete(k) PROVE Built2
  BY <1>1, <1>2, <1>5, Zenon DEF UserDelete
<1>6. ASSUME NEW k \in Kinds, Reconcile(k) PROVE Built2
  <2>1. crs[k].exists /\ (done' = done \/ Deploy(k))
    BY <1>6 DEF Reconcile
  <2> QED BY <1>1, <1>3, <2>1, Zenon
<1>7. ASSUME NEW k \in Kinds, ReconcileDeletion(k) PROVE Built2
  BY <1>2, <1>7, Zenon DEF ReconcileDeletion
<1>8. ASSUME NEW k, NEW e, UserEdit(k, e) PROVE Built2
  BY <1>1, <1>8, Zenon DEF UserEdit
<1>9. ASSUME NEW d \in Disturbances, EnvChange(d) PROVE Built2
  BY <1>1, <1>9, Zenon DEF EnvChange
<1>10. ASSUME NEW g \in Profiles, OperatorReconfigure(g) PROVE Built2
  BY <1>1, <1>10, Zenon DEF OperatorReconfigure
<1>11. ASSUME UNCHANGED vars PROVE Built2
  <2>1. done' = done
    BY <1>11 DEF vars
  <2> QED BY <1>1, <2>1
<1>12. Built2
  BY <1>4, <1>5, <1>6, <1>7, <1>8, <1>9, <1>10, <1>11, Zenon DEF Next
<1> QED BY <1>12 DEF Built2

LEMMA GatesStep == ASSUME gates \in Profiles, [Next]_vars PROVE gates' \in Profiles
<1>1. ASSUME NEW k, Reconcile(k) \/ ReconcileDeletion(k) \/ UserCreate(k) \/ UserDelete(k) PROVE gates' = gates
  BY <1>1, Zenon DEF Reconcile, ReconcileDeletion, UserCreate, UserDelete
<1>2. ASSUME NEW k, NEW e, UserEdit(k, e) PROVE gates' = gates
  BY <1>2, Zenon DEF UserEdit
<1>3. ASSUME NEW d, EnvChange(d) PROVE gates' = gates
  BY <1>3, Zenon DEF EnvChange
<1>4. ASSUME NEW g \in Profiles, OperatorReconfigure(g) PROVE gates' \in Profiles
  BY <1>4, Zenon DEF OperatorReconfigure
<1>5. ASSUME UNCHANGED vars PROVE gates' = gates
  BY <1>5 DEF vars
<1> QED BY <1>1, <1>2, <1>3, <1>4, <1>5, Zenon DEF Next

LEMMA DeployedSafe == Spec => []DeployedInv
<1>1. ASSUME Init PROVE DeployedInv
  <2>1. ~crs["TempoStack"].exists
    BY <1>1, NoCRType DEF Init, Kinds
  <2>2. \A k \in Kinds : ~Deployed(k)
    BY <1>1 DEF Init, Deployed
  <2> QED BY <1>1, <2>1, <2>2, Zenon DEF DeployedInv, Init
<1>2. ASSUME AdmissionInv, PassTypes, DeployedInv, [Next]_vars PROVE DeployedInv'
  <2>1. gates' \in Profiles
    BY <1>2, GatesStep, Zenon DEF DeployedInv
  <2>2. crs'["TempoStack"].exists => Apart(crs'["TempoStack"].spec)
    BY <1>2, ApartStep, Zenon DEF DeployedInv
  <2>3. \A k \in Kinds : done'[k].p # NoParams => BuiltFrom(k, done'[k].p)
    BY <1>2, BuiltStep, Zenon
  <2> QED BY <2>1, <2>2, <2>3, Zenon DEF DeployedInv, Deployed
<1> QED BY <1>1, <1>2, Admission, Passes, PTL DEF Spec

\* Whoever has to talk to a component of a deployed TempoStack, or to a
\* container of a deployed TempoMonolithic, finds a server on that port that
\* agrees on TLS, and no NetworkPolicy is in the way, for every spec, every
\* edit and every environment, provided that the operator runs with both
\* encryption gates or with neither.  (With httpEncryption alone it does not
\* hold: see the README.)
THEOREM ConnectedSafe ==
  ASSUME \A g \in Profiles : g.http = g.grpc
  PROVE  Spec => []Connected
<1>1. ASSUME DeployedInv PROVE Connected
  <2>0. "TempoStack" \in Kinds /\ "TempoMonolithic" \in Kinds /\ "TempoMonolithic" # "TempoStack"
    BY DEF Kinds
  <2>1. ASSUME NEW g \in Profiles PROVE g.http \in BOOLEAN /\ g.grpc = g.http
    <3>1. g.http \in BOOLEAN
      BY ProfilesAssumption DEF T!IsProjectConfig, T!FeatureGates
    <3> QED BY <3>1
  <2>2. ASSUME Deployed("TempoStack") PROVE StackConnected(done["TempoStack"].p)
    <3> DEFINE p == done["TempoStack"].p
    <3>1. BuiltFrom("TempoStack", p)
      BY <1>1, <2>0, <2>2, Zenon DEF DeployedInv
    <3> HIDE DEF p
    <3>2. p.gates.http \in BOOLEAN /\ p.gates.grpc = p.gates.http /\ p.apiserver = [ports |-> {6443}, ips |-> {"apiserver"}]
      BY <2>1, <3>1 DEF BuiltFrom, APIServer
    <3>3. p.spec \in T!TempoStackSpec /\ Apart(p.spec)
      BY <3>1 DEF BuiltFrom
    <3>4. p.spec.gateway.enabled \in BOOLEAN /\ p.spec.receiverTLS.enabled \in BOOLEAN
      BY <3>3 DEF T!TempoStackSpec, T!TempoGatewaySpec, T!ReceiversTLSSpec
    <3>5. Encryption(p)
      BY <3>2, <3>3, <3>4 DEF Encryption, Apart
    <3> QED BY <3>5, StackConnects DEF p
  <2>3. ASSUME Deployed("TempoMonolithic") PROVE MonoConnected(done["TempoMonolithic"].p)
    <3> DEFINE p == done["TempoMonolithic"].p
    <3>1. BuiltFrom("TempoMonolithic", p)
      BY <1>1, <2>0, <2>3, Zenon DEF DeployedInv
    <3> HIDE DEF p
    <3>2. Switches(p)
      BY <2>0, <2>1, <3>1 DEF BuiltFrom, Switches
    <3> QED BY <3>2, MonoConnects DEF p
  <2> QED BY <2>2, <2>3, Zenon DEF Connected
<1> QED BY <1>1, DeployedSafe, PTL
=============================================================================
