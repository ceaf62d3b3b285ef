CONSTANT Ids = {a, b, c}
SPECIFICATION Spec
INVARIANTS TypeOK NoSurvivorRefersToDeleted
PROPERTIES SweepLeavesNoDangling CollectionTerminates ImplementsStore
