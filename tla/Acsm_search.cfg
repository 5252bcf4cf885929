CONSTANTS
    Alphabet = {47, 65, 200, 201}
    High = {200, 201}
    MaxAscii = 3
    MaxHigh = 2
    MaxList = 2
    MaxText = 4
    Lists <- MC_Lists
    Texts <- MC_Texts
SPECIFICATION Spec
INVARIANTS MatcherExact FoundOccurs
