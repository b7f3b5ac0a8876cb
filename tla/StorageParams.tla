--------------------------- MODULE StorageParams ---------------------------
(***************************************************************************)
(* internal/handlers/storage: how the object storage Secret and the CA     *)
(* ConfigMap a CR names are validated and turned into the parameters the   *)
(* manifests are built from.  The webhooks and both controllers call it.   *)
(*                                                                         *)
(* A Secret or ConfigMap is what client.Get returns: [found, data], where  *)
(* the domain of data is the set of keys present and "unset" is empty.     *)
(* A value is "set", except for the two that are parsed: endpoint, one of  *)
(* "path" (a URI without scheme), "http", "https", and key.json, one of    *)
(* "garbage", "account", "external" (credential source = the mounted token *)
(* file) and "foreign" (an external account with another source).  The CCO *)
(* branch reads the same Secret a second time; both reads are one value.   *)
(***************************************************************************)
EXTENDS Naturals

Get(s, k) == IF k \in DOMAIN s.data THEN s.data[k] ELSE "unset"

ensureNotEmpty(s, fields) == \A k \in fields : Get(s, k) # "unset"

hashSecretData(s) == {<<k, s.data[k]>> : k \in DOMAIN s.data}

(***************************************************************************)
(* The fields of each kind of credentials.                                 *)
(***************************************************************************)
s3ShortLivedFields    == {"bucket", "region", "role_arn"}
s3CCOShortLivedFields == {"bucket", "region"}
s3LongLivedFields     == {"bucket", "endpoint", "access_key_id", "access_key_secret"}
azureLongLivedFields  == {"container", "account_name", "account_key"}
azureShortLivedFields == {"container", "account_name", "client_id", "tenant_id"}

(***************************************************************************)
(* Discovery: the credential mode a Secret stands for, "unset" when the    *)
(* Secret is rejected.                                                     *)
(***************************************************************************)
ByLifetime(short, long) == IF short THEN IF long THEN "unset" ELSE "token" ELSE "static"

discoverS3CredentialType(s) ==
  ByLifetime((s3ShortLivedFields \ {"bucket"}) \cap DOMAIN s.data # {},
             (s3LongLivedFields \ {"bucket"}) \cap DOMAIN s.data # {})

discoverAzureCredentialType(s) ==
  ByLifetime("tenant_id" \in DOMAIN s.data, "account_key" \in DOMAIN s.data)

\* extractGoogleCredentialSource: parsed, account type, credential source.
KeyParsed(s)   == Get(s, "key.json") \notin {"unset", "garbage"}
KeyExternal(s) == Get(s, "key.json") \in {"external", "foreign"}
KeySourceOK(s) == Get(s, "key.json") = "external"

discoverGCSCredentialType(s) ==
  IF ~KeyParsed(s) THEN "unset" ELSE IF KeyExternal(s) THEN "token" ELSE "static"

(***************************************************************************)
(* Validation of a Secret for a credential mode.  Nothing is required of   *)
(* static GCS credentials.                                                 *)
(***************************************************************************)
validateS3Secret(s, mode) ==
  CASE mode = "static"    -> /\ ensureNotEmpty(s, s3LongLivedFields)
                             /\ Get(s, "endpoint") \in {"http", "https"}
    [] mode = "token"     -> ensureNotEmpty(s, s3ShortLivedFields)
    [] mode = "token-cco" -> ensureNotEmpty(s, s3CCOShortLivedFields)

validateAzureSecret(s, mode) ==
  CASE mode = "static"    -> ensureNotEmpty(s, azureLongLivedFields)
    [] mode = "token"     -> ensureNotEmpty(s, azureShortLivedFields)
    [] mode = "token-cco" -> FALSE

validateGCSSecret(s, mode) ==
  CASE mode = "static"    -> TRUE
    [] mode = "token"     -> /\ ensureNotEmpty(s, {"bucketname", "key.json"})
                             /\ KeyParsed(s) /\ KeySourceOK(s)
    [] mode = "token-cco" -> FALSE

(***************************************************************************)
(* The parameters: backend says which of S3, AzureStorage and GCS is not   *)
(* nil; err is "ok" or the reason there are none: "fetch" (the errors the  *)
(* webhook turns into warnings) or "invalid".                              *)
(***************************************************************************)
NoParams == [err |-> "ok", mode |-> "unset", backend |-> "unset", insecure |-> FALSE,
             caFile |-> "unset", hash |-> {}, bucket |-> "unset", audience |-> "unset"]
StorageError(e) == [NoParams EXCEPT !.err = e]

getS3Params(s, mode) ==
  [NoParams EXCEPT !.backend = "s3", !.mode = mode, !.bucket = Get(s, "bucket"),
                   !.insecure = (mode = "static" /\ Get(s, "endpoint") # "https"),
                   !.hash = IF mode = "token-cco" THEN hashSecretData(s) ELSE {}]

Audience(s) == IF "audience" \in DOMAIN s.data THEN s.data["audience"] ELSE "default"

getAzureParams(s, mode) ==
  [NoParams EXCEPT !.backend = "azure", !.mode = mode, !.bucket = Get(s, "container"),
                   !.audience = IF mode = "token" THEN Audience(s) ELSE "unset"]

getGCSParams(s, mode) ==
  [NoParams EXCEPT !.backend = "gcs", !.mode = mode, !.bucket = Get(s, "bucketname"),
                   !.audience = IF mode = "token" THEN Audience(s) ELSE "unset"]

(***************************************************************************)
(* The CA ConfigMap: the first of three keys with a value.                 *)
(***************************************************************************)
CAKeys == <<"service-ca.crt", "ca.crt", "ca-bundle.crt">>

getCAConfigMapKey(cm) ==
  LET full == {i \in 1..3 : Get(cm, CAKeys[i]) # "unset"}
  IN  IF full = {} THEN "unset" ELSE CAKeys[CHOOSE i \in full : \A j \in full : i <= j]

getTLSParams(p, caName, cm) ==
  CASE caName = "unset"              -> p
    [] caName # "unset" /\ ~cm.found -> StorageError("fetch")
    [] OTHER -> IF getCAConfigMapKey(cm) = "unset" THEN StorageError("invalid")
                ELSE [p EXCEPT !.caFile = getCAConfigMapKey(cm)]

(***************************************************************************)
(* GetStorageParamsForTempoStack.  st = [type, credentialMode, tls, ca,    *)
(* cert] is spec.storage, s the Secret it names, cm the ConfigMap it       *)
(* names.  The Secret with the client certificate is not looked at.        *)
(* Static S3 credentials take Insecure from the TLS switch of the CR, not  *)
(* from the scheme of the endpoint.                                        *)
(***************************************************************************)
ModeOf(st, discovered) == IF st.credentialMode = "unset" THEN discovered ELSE st.credentialMode

NoCustomTLS(st, p) == IF st.tls THEN StorageError("invalid") ELSE p

StackS3(st, s, cm) ==
  LET mode == ModeOf(st, discoverS3CredentialType(s))
      p    == [getS3Params(s, mode) EXCEPT !.insecure = (mode = "static" /\ ~st.tls)]
  IN  IF mode = "unset" \/ ~validateS3Secret(s, mode) THEN StorageError("invalid")
      ELSE IF st.tls THEN getTLSParams(p, st.ca, cm) ELSE p

StackAzure(st, s) ==
  LET mode == ModeOf(st, discoverAzureCredentialType(s))
  IN  IF mode = "unset" \/ ~validateAzureSecret(s, mode) THEN StorageError("invalid")
      ELSE NoCustomTLS(st, getAzureParams(s, mode))

StackGCS(st, s) ==
  LET mode == ModeOf(st, discoverGCSCredentialType(s))
  IN  IF mode = "unset" \/ ~validateGCSSecret(s, mode) THEN StorageError("invalid")
      ELSE NoCustomTLS(st, getGCSParams(s, mode))

GetStorageParamsForTempoStack(st, s, cm) ==
  CASE ~s.found                         -> StorageError("fetch")
    [] s.found /\ st.type = "s3"        -> StackS3(st, s, cm)
    [] s.found /\ st.type = "azure"     -> StackAzure(st, s)
    [] s.found /\ st.type = "gcs"       -> StackGCS(st, s)
    [] OTHER                            -> StorageError("invalid")

(***************************************************************************)
(* GetStorageParamsForTempoMonolithic.  st = [backend, section,            *)
(* credentialMode, tls, ca, cert]; section says whether the section of the *)
(* backend is present.  Only S3 has a credential mode and TLS settings,    *)
(* and its Insecure is the scheme of the endpoint.                         *)
(***************************************************************************)
MonolithicS3(st, s, cm) ==
  LET mode == ModeOf(st, discoverS3CredentialType(s))
      p    == getS3Params(s, mode)
  IN  IF mode = "unset" \/ ~validateS3Secret(s, mode) THEN StorageError("invalid")
      ELSE IF st.tls THEN getTLSParams(p, st.ca, cm) ELSE p

MonolithicAzure(s) ==
  LET mode == discoverAzureCredentialType(s)
  IN  IF mode = "unset" \/ ~validateAzureSecret(s, mode) THEN StorageError("invalid")
      ELSE getAzureParams(s, mode)

MonolithicGCS(s) ==
  LET mode == discoverGCSCredentialType(s)
  IN  IF mode = "unset" \/ ~validateGCSSecret(s, mode) THEN StorageError("invalid")
      ELSE getGCSParams(s, mode)

GetStorageParamsForTempoMonolithic(st, s, cm) ==
  CASE st.backend \in {"memory", "pv"} -> NoParams
    [] st.backend \in {"s3", "azure", "gcs"} /\ ~st.section -> StorageError("invalid")
    [] st.backend \in {"s3", "azure", "gcs"} /\ st.section /\ ~s.found -> StorageError("fetch")
    [] st.backend = "s3"    /\ st.section /\ s.found -> MonolithicS3(st, s, cm)
    [] st.backend = "azure" /\ st.section /\ s.found -> MonolithicAzure(s)
    [] st.backend = "gcs"   /\ st.section /\ s.found -> MonolithicGCS(s)
=============================================================================
