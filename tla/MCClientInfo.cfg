CONSTANT Snapshots <- MCSnapshots
SPECIFICATION Spec
\* The classifier returns after its last step.
CHECK_DEADLOCK FALSE
INVARIANT TypeOK
PROPERTY ImplementsClientInfoSpec
