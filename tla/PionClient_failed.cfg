CONSTANT MaxChanges = 2
SPECIFICATION ClientSpec
CHECK_DEADLOCK FALSE
INVARIANT SuccessMeansConnected
