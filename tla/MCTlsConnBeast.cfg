\* Spec P5 checked against every client.
CONSTANT Clients <- MCClients
SPECIFICATION Spec
CHECK_DEADLOCK FALSE
INVARIANT BeastMatchesSplitting
