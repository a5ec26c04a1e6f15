CONSTANT Snapshots <- MCSnapshots
SPECIFICATION Spec
CHECK_DEADLOCK FALSE
INVARIANT RatingBadBelowTLS12
