SPECIFICATION Spec
CONSTANTS
    a1 = a1
    a2 = a2
    a3 = a3
    a4 = a4
    Hall = Hall
    Yard = Yard
    Actors <- MCActors4
    Rooms = {Hall, Yard}
    Exits <- MCExits
    Names = {"bob"}
    Players = {"p"}
    NULL = NULL
    Unused = Unused
SYMMETRY MCSymmetry
INVARIANTS
    TypeOK
PROPERTIES
    ContentsBreakExactlyOnReuse
