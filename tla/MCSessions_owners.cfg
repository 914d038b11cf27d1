SPECIFICATION Spec
CONSTANTS
    p1 = p1
    p2 = p2
    p3 = p3
    a1 = a1
    a2 = a2
    a3 = a3
    Hall = Hall
    Yard = Yard
    ann = ann
    eve = eve
    bob = bob
    Bob = Bob
    Free = Free
    Detached = Detached
    NULL = NULL
    Unused = Unused
    NoFile = NoFile
    TornFile = TornFile
    MAX_CONNECTIONS = 2
    TestMode = FALSE
    Players = {p1, p2}
    Usernames = {ann, eve}
    UsernameLength <- MCLength
    ACCOUNT_USERNAME_SIZE = 32
    Names = {bob}
    Lower <- MCLower
    Locations = {Hall}
    StartLocation = Hall
    Actors = {a1, a2, a3}
    Rooms = {Hall}
    Exits <- MCLoop
SYMMETRY MCSymmetry
INVARIANTS
    PlayerActorLinked
    AssertionsHold
    OneSessionPerAccount
    OwnedCharacterHasFile
    NameOwnedOnce
PROPERTIES
    ImplementsAccountSessions
    DetachedSessionWaits
