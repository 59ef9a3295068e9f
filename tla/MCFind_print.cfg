SPECIFICATION Spec
CONSTANT Name = {"a", "b", "x"}
CONSTANT Word <- MCWord
CONSTANT Char <- MCChar
CONSTANT Spell <- MCSpell
CONSTANT Numeral <- MCNumeral
CONSTANT Leads <- MCLeads
CONSTANT Uid <- MCUid
CONSTANT Users <- MCUsers
CONSTANT Settings <- Printing
INVARIANT WritesOnce
