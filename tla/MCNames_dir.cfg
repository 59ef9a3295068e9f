SPECIFICATION Spec
CONSTANT Name = {"a", "b", "c", "d", "e"}
CONSTANT Proc <- MCProc
CONSTANT Settings <- Replaced
PROPERTY NoDirReplaced
