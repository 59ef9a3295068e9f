SPECIFICATION Spec
CONSTANT LineMax = 10
CONSTANT Settings <- MCSettings
INVARIANT ArgumentsInOrder
INVARIANT AllExecuted
INVARIANT FullBatches
INVARIANT StatusTells
