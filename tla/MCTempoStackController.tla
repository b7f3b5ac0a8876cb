----------------------- MODULE MCTempoStackController -----------------------
(***************************************************************************)
(* TempoStackController on objects that stand for the kinds the code       *)
(* treats differently: a Deployment, the ingester StatefulSet, and the     *)
(* gateway's Ingress, ConfigMap and ClusterRole.                           *)
(***************************************************************************)
EXTENDS TempoStackController

CONSTANTS deployment, statefulset, ingress, configmap, clusterrole,
          off, on, large,             \* specs: gateway off, on, on with larger volumes
          v0, v1, v2,
          missing, valid

MCFixedPart == [v \in {v0, v1, v2} |-> IF v = v2 THEN "large" ELSE "small"]

\* The gateway adds Ingress, ConfigMap and ClusterRole and changes the
\* Deployment; another volume size changes the StatefulSet's templates.
MCBuilt(s) ==
  [o \in Objects |->
    CASE o = deployment  -> IF s = off THEN v0 ELSE v1
      [] o = statefulset -> IF s = large THEN v2 ELSE v0
      [] o = ingress     -> IF s = off THEN NoVal ELSE v0
      [] o = configmap   -> IF s = off THEN NoVal ELSE v1
      [] o = clusterrole -> IF s = off THEN NoVal ELSE v0]

MCWant == [x \in Specs \X Secrets |-> MCBuilt(x[1])]

MCBuildOrder ==
  SelectSeq(<<configmap, statefulset, deployment, ingress, clusterrole>>,
            LAMBDA o : o \in Objects)
============================================================================
