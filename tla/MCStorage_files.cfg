SPECIFICATION Spec
CONSTANTS
    NULL = NULL
    MAX_PERSISTENT_ACTOR_ID = 3
    MAX_ACTOR_ID = 8
    INVALID_ACTOR_ID = 0
    StartLocation = 1
    Numeral <- MCNumeral
    Capital <- MCCapital
    TypedNames <- MCNames
    MAX_CHARACTERS = 2
    Disks <- MCDisks
INVARIANTS
    TypeOK
    RoomsAsMeant
    IdsUnique
    LoadsCleanly
    CharacterListExact
    ListedCharacterPlays
