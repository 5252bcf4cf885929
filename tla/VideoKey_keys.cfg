CONSTANTS
    Urls <- MC_Urls
    xlatcase <- MC_xlatcase
    Keyword <- MC_Keyword
    Exclusion <- MC_Exclusion
    MaxEntries = 3
    Null = Null
SPECIFICATION Spec
INVARIANTS AnsweredWithItsFile 
