\* Clients that send a warning alert before their request.
CONSTANT Clients <- MCClientsWithAlerts
SPECIFICATION Spec
CHECK_DEADLOCK FALSE
INVARIANT ProbeReflectsFirstRecord
