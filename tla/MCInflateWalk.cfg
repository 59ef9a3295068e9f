SPECIFICATION BothSpec
CONSTANT WINDOW_SIZE = 8
CONSTANT WordSize = 32
CONSTANT FileNames = {"f", "g", "h", "i", "none"}
CONSTANT Jobs <- MCJobs
CONSTANT Name = {"a", "bb", "c", "ccc", "d", ".h"}
CONSTANT Users <- MCUsers
CONSTANT Spelling <- MCSpelling
CONSTANT Leads <- MCLeads
CONSTANT Letter <- MCLetter
CONSTANT Numeral <- MCNumeral
CONSTANT Me <- MCMe
CONSTANT Settings <- MCSettings
INVARIANT WindowIsTail
INVARIANT StatusTells
INVARIANT OnlyReached
INVARIANT LoneIsExact
INVARIANT ListsWhatStays
 
