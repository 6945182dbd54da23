SPECIFICATION Spec
CONSTANT Event <- MCEvent
INVARIANTS InvocationTypeOK MappedBySender DeliveryPathIsIrrelevant FailedRecordsAreListed NothingIsLost
CHECK_DEADLOCK FALSE
