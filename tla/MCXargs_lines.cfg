SPECIFICATION Spec
CONSTANT LineMax = 10
CONSTANT Settings <- Empty
INVARIANT EmptyLinesIgnored
