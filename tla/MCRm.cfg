SPECIFICATION Spec
CONSTANT Name = {"a", "b", "c"}
CONSTANT Proc <- MCProc
CONSTANT Settings <- MCSettings
INVARIANT SuccessMeansGone
INVARIANT RecursiveRemovesAll
INVARIANT LoneRmIsExact
PROPERTY OnlyOperands
PROPERTY Termination
