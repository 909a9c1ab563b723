SPECIFICATION TextSpec
CONSTANTS
    Clients = {p1}
    Ctrls = {c1}
    Words = {"a"}
    NameOf <- MCNameOf
    Texts <- MCTexts
    NoName = NoName
    Empty = Empty
    NoList = NoList
    NoId = NoId
    GROUP_COUNT = 2
    ALLOCSIZE = 18
    ReadLen = 20
    LibReadLen = 46
    FdDigits = {10}
    PidDigits = {9, 10}
    IdDigits = {10}
    MaxEvents = 1
INVARIANTS
    WritesInOrder
    OneList
    ListFits
    ClientServesItsGroup
    AnswersArrive
