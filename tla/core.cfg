SPECIFICATION Spec
CONSTANTS
    Accessors = {a1, a2}
    Readers = {r1, r2}
    Pollers = {}
    Ctrls = {c1}
    Ignored = {}
    Names = {n1, n2}
    Commands = {"add"}
    TrackFlags = {FALSE}
    Env = {"dup", "nofd", "efault", "eopen", "signal", "readahead"}
    GROUP_COUNT = 2
    MaxGroups = 2
    MaxEvents = 2
SYMMETRY Symmetry
CHECK_DEADLOCK FALSE
INVARIANTS
    TypeOK
    EventAccounting
    EventsAlive
    VerdictSound
    NoRecursion
    HeldOnce
PROPERTIES
    ImplementsAccessControl
