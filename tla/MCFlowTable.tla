------------------------------ MODULE MCFlowTable ------------------------------
(* Small instances of FlowTable for TLC: three addresses, one or two ports, so *)
(* that a host serves several flows and a flow is met in both directions.      *)
EXTENDS FlowTable, TLC

EndPoint(a, p) == [addr |-> a, port |-> p]

\* Two conversations of host 1 with host 2, one of them seen in both directions,
\* and one with itself.
TwoFlows == {<<EndPoint(1, 0), EndPoint(2, 0)>>, <<EndPoint(2, 0), EndPoint(1, 0)>>,
             <<EndPoint(1, 1), EndPoint(2, 0)>>, <<EndPoint(1, 0), EndPoint(1, 1)>>}

\* Three conversations that three hosts share.
ThreeHosts == {<<EndPoint(1, 0), EndPoint(2, 0)>>, <<EndPoint(2, 0), EndPoint(3, 0)>>,
               <<EndPoint(3, 0), EndPoint(1, 0)>>}

Objects == Permutations(HostObj) \cup Permutations(FlowObj)
===============================================================================
