CONSTANTS
    NONE = NONE
    Profiles <- MCProfiles
    Identifiers <- MCIdentifiers
    TrailingParts <- MCTrailingParts
    Beginnings <- MCBeginnings
    CHARACTER_DATA = 1
SPECIFICATION Spec
INVARIANTS TreeIntact TypesAligned FunctionsMatchTables
CHECK_DEADLOCK FALSE
