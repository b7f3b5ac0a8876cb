------------------------------- MODULE Ports -------------------------------
(***************************************************************************)
(* internal/manifests/manifestutils/constants.go: the ports of the         *)
(* components.  They are named once here so that the configurations, the   *)
(* services, the probes and the NetworkPolicies speak of the same ones.    *)
(***************************************************************************)
EXTENDS Naturals

PortHTTP            == 3200
PortInternal        == 3101
PortGRPC            == 9095
PortGossip          == 7946
PortJaegerUI        == 16686
PortJaegerGRPC      == 16685
PortJaegerMetrics   == 16687
PortTempoQuery      == 7777
PortOAuthProxy      == 8443
GatewayPort         == 8080
GatewayPortInternal == 8081
GatewayPortGRPC     == 8090
PortOtlpGrpc        == 4317
PortOtlpHttp        == 4318
PortsJaegerReceivers == {14268, 6831, 6832, 14250, 9411}

PortOtlp         == {PortOtlpGrpc, PortOtlpHttp}
PortsJaegerQuery == {PortJaegerGRPC, PortJaegerUI, PortJaegerMetrics}
PortsGateway     == {GatewayPort, GatewayPortInternal, GatewayPortGRPC}
=============================================================================
