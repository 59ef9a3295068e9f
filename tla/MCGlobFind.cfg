SPECIFICATION BothSpec
CONSTANT Char <- MCChar
CONSTANT Patterns <- MCPatterns
CONSTANT Strings <- MCStrings
CONSTANT Name = {"a", "b", "x"}
CONSTANT Word <- MCWord
CONSTANT Spell <- MCSpell
CONSTANT Numeral <- MCNumeral
CONSTANT Leads <- MCLeads
CONSTANT Uid <- MCUid
CONSTANT Users <- MCUsers
CONSTANT Settings <- MCSettings
INVARIANT Correct
INVARIANT TypeOK
INVARIANT ReadsAsWritten
INVARIANT HeapIsHeld
INVARIANT NoUnpossibleError
INVARIANT FindsWhatStays
INVARIANT FindsNothingElse
PROPERTY Termination
