SPECIFICATION StackSpec
CONSTANTS
    Procs = {p1}
    Names = {n1, n2}
    Files = {f1, f2}
    UDentries = {u1, u2}
    URoot = URoot
    LDentries = {d1, d2}
    LRoot = LRoot
    LInodes = {a1, a2}
    ARoot = ARoot
    None = None
    Kinds = {"file", "dir", "link"}
    Modes = {m1, m2}
    Fails = {}
    StatfsOn = {URoot}
    Races = FALSE
    Before36 = TRUE
    MaxLeaks = 1
SYMMETRY Symmetry
INVARIANTS
    HeldWhileUsed
    SameFile
    NamesAgree
    AttrsAgree
PROPERTIES
    OnlyKnownLeaks
