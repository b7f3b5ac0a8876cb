--------------------------- MODULE ManifestUtils ---------------------------
(***************************************************************************)
(* internal/manifests/manifestutils: what the builders of both kinds of    *)
(* Tempo share.                                                            *)
(*                                                                         *)
(* An object keeps what other objects depend on:                           *)
(*   items    what it holds: the keys of a ConfigMap or Secret             *)
(*   refs     the <<kind, name, item>> its pods mount, read as environment *)
(*            variables, run as, or its rules point at                     *)
(*   ports    the names of the container ports of a workload, the target   *)
(*            ports of a Service, the Service port of an Ingress or Route  *)
(*   selects  the workload a Service selects, the Service of an Ingress    *)
(*   cert     the Secret that service-ca fills for a Service, or "inject"  *)
(*            for a ConfigMap it fills                                     *)
(* Names leave out the prefix tempo-<name> of naming.Name.  p is what a    *)
(* build is given: spec, gates, storage (see StorageParams) and more.      *)
(***************************************************************************)

Object(kind, name) ==
  [kind |-> kind, name |-> name, items |-> {}, refs |-> {}, ports |-> {}, selects |-> "unset", cert |-> "unset"]

Service(name, selects, ports) ==
  [Object("Service", name) EXCEPT !.ports = ports, !.selects = selects]
ServingService(name, selects, ports, secret) ==
  [Service(name, selects, ports) EXCEPT !.cert = secret]
Exposed(kind, service, port) ==
  [Object(kind, service) EXCEPT !.ports = {port}, !.selects = service]
Workload(name, ports, refs) ==
  [Object("Workload", name) EXCEPT !.ports = ports, !.refs = refs]
NewPodDisruptionBudget(c) == Object("PodDisruptionBudget", c)
NewConfigMapCABundle(name) ==
  [Object("ConfigMap", name) EXCEPT !.items = {"service-ca.crt"}, !.cert = "inject"]

If(cond, set) == IF cond THEN set ELSE {}
Encrypted(p)  == p.gates.http \/ p.gates.grpc

(***************************************************************************)
(* What the builders add to a pod.                                         *)
(***************************************************************************)
ConfigRef(file) == <<"ConfigMap", "config", file>>
RunsAs(sa)      == <<"ServiceAccount", sa, "unset">>

ConfigureServiceCA(p)     == If(Encrypted(p), {<<"ConfigMap", "ca-bundle", "service-ca.crt">>})
ConfigureServicePKI(p, c) == If(Encrypted(p), {<<"Secret", "mtls", c>>})

(***************************************************************************)
(* Storage: the keys of the Secret that become environment variables or    *)
(* files, the CA and the client certificate.                               *)
(***************************************************************************)
StorageKeys(keys) == {<<"Secret", "storage", k>> : k \in keys}
StorageCA(p)      == {<<"ConfigMap", "storage-ca", p.storage.caFile>>}
StorageCert       == {<<"Secret", "storage-cert", "tls.crt">>}
MountTLSSpecVolumes(p) ==
  If(p.spec.storage.ca # "unset", StorageCA(p)) \cup If(p.spec.storage.cert, StorageCert)

ConfigureAzureStorage(p) ==
  StorageKeys({"account_name"} \cup (IF p.storage.mode = "token" THEN {"client_id", "tenant_id"}
                                                                 ELSE {"account_key"}))
ConfigureGCS(p) == If(p.storage.mode \in {"static", "token"}, StorageKeys({"key.json"}))

configureS3StorageWithCOOAuth == {<<"Secret", "managed-credentials", "credentials">>}
configureS3StorageStatic == StorageKeys({"access_key_secret", "access_key_id"})
ConfigureS3Storage(p) ==
  If(p.storage.mode # "token",
     If(p.spec.storage.tls, MountTLSSpecVolumes(p))
       \cup (IF p.storage.mode = "token-cco" THEN configureS3StorageWithCOOAuth ELSE configureS3StorageStatic))
=============================================================================
