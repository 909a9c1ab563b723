SPECIFICATION IgnSpec
CONSTANTS
    Procs = {p1, p2, p3, p4}
    Files = {f1, f2, f3, f4}
    Slots = {s1, s2, s3, s4}
    OpenTwice = FALSE
    NoProc = NoProc
    NoSlot = NoSlot
INVARIANT
    HiddenIffOpen
