------------------------- MODULE MCOperatorProcess -------------------------
EXTENDS OperatorProcess

Gate(prometheus, monitors, rules, netpol) ==
  [prometheus |-> prometheus, monitors |-> monitors, rules |-> rules, netpol |-> netpol]

\* All of the monitoring and none of it, policies enabled.
MCGates == {Gate(TRUE, FALSE, FALSE, TRUE), Gate(TRUE, TRUE, TRUE, TRUE)}

\* Policies may be switched off between two starts.
MCPolicyGates == {Gate(FALSE, FALSE, FALSE, TRUE), Gate(FALSE, FALSE, FALSE, FALSE)}

\* On the port of the fallback, and on another one.
MCEndpoints == {[ports |-> {6443}, ips |-> {"ip1"}], [ports |-> {443}, ips |-> {"ip2"}]}

Zone(value)     == [k \in LabelKeys |-> value]
MCInitialLabels == [n1 |-> Zone("z1"), n2 |-> Zone("absent")]
MCNewLabels     == [n1 |-> Zone("z1"), n2 |-> Zone("z2")]
MCEmptyLabels   == [n1 |-> Zone("z1"), n2 |-> Zone("")]
=============================================================================
