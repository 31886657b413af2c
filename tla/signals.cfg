SPECIFICATION Spec
INVARIANT Unkillable
CHECK_DEADLOCK FALSE
