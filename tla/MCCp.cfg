SPECIFICATION Spec
CONSTANT Name = {"a", "b", "c", "d", "e", "l"}
CONSTANT Proc <- MCProc
CONSTANT Settings <- MCSettings
INVARIANT SuccessMeansCopied
INVARIANT NothingLost
INVARIANT NeverOntoItself
INVARIANT MetaKept
PROPERTY InteractiveAsks
