SPECIFICATION Spec
CONSTANT Event <- MCPoison
INVARIANT RecordsAreSentSeparately
CHECK_DEADLOCK FALSE
