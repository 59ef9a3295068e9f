SPECIFICATION Spec
CONSTANT FileName = {"f", "g", "h", "-", "none"}
CONSTANT PipeSize = 2
CONSTANT Col = 2
CONSTANT SizeLimit = 65536
CONSTANT BufSize = 2
CONSTANT StdioSize = 3
CONSTANT Longest = 3
CONSTANT Settings <- Uneven
INVARIANT CountIsKept
