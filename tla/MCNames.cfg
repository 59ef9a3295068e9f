SPECIFICATION Spec
CONSTANT Name = {"a", "b", "c", "d", "e"}
CONSTANT Proc <- MCProc
CONSTANT Settings <- MCSettings
INVARIANT Honest
INVARIANT OneWinner
INVARIANT ParentsMeet
INVARIANT NothingVanishes
PROPERTY OnlyAsked
