SPECIFICATION Spec
CONSTANT Name = {"a", "b", "c", "d", "e", "l"}
CONSTANT Proc <- MCProc
CONSTANT Settings <- Broken
PROPERTY UnlinkOnlyCopied
