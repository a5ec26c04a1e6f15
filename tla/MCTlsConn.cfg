\* One connection from each possible client, all records application data.
CONSTANT Clients <- MCClients
SPECIFICATION Spec
\* A connection ends once it is reported on or has failed.
CHECK_DEADLOCK FALSE
INVARIANT TypeOK
INVARIANT ArmedOnlyOnPinnedSuite
INVARIANT ArmedReportIsObserved
INVARIANT ArmedWheneverPinnable
