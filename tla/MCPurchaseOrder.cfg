SPECIFICATION Spec
CONSTANTS
    c1 = c1
    c2 = c2
    screws = screws
    nuts = nuts
    Clerk <- MCClerk
    Line <- MCLine
    Ordered <- MCOrdered
    InStock <- MCInStock
    MaxUsed = 1
    MaxUndo = 2
SYMMETRY Requests
INVARIANTS
    TypeOK
    StatusMatchesLines
    LessonIffComplete
    OnlyLateWritesDrift
    OnlyLateMarksContradict
