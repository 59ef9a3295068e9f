SPECIFICATION BothSpec
CONSTANT Word <- MCWord
CONSTANT Letters <- MCLetters
CONSTANT LongName <- MCLong
CONSTANT Attached <- MCAttached
CONSTANT Base <- MCBase
CONSTANT Numeral <- MCNumeral
CONSTANT Octal <- MCOctal
CONSTANT IntBits = 4
CONSTANT LongBits = 6
CONSTANT Flag = {"format", "printf", "terse", "lines", "seek"}
CONSTANT Slot = {"fmt", "lines", "mode", "seek"}
CONSTANT Commands <- MCCommands
CONSTANT Lines <- MCLines
CONSTANT FileName = {"f", "g", "h", "-", "none"}
CONSTANT PipeSize = 2
CONSTANT Col = 2
CONSTANT SizeLimit = 65536
CONSTANT BufSize = 2
CONSTANT StdioSize = 3
CONSTANT Longest = 3
CONSTANT Settings <- MCSettings
INVARIANT ReadsAsMeant
INVARIANT Conserved
INVARIANT TeeReachesAll
INVARIANT DdIsExact
INVARIANT StatusTells
PROPERTY OutputIsMeant
