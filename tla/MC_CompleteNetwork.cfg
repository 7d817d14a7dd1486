\* complete-network-example.cc with one end device, two gateways and one
\* server; two confirmed uplinks; four simulated seconds (0..3).
SPECIFICATION Spec
\* Simulator::Stop (appStopTime + Hours (1)): the run ends.
CHECK_DEADLOCK FALSE
INVARIANT GatewayViewsAgree
