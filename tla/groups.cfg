SPECIFICATION Spec
CONSTANTS
    Accessors = {a1, a2}
    Readers = {r1}
    Pollers = {}
    Ctrls = {c1, c2}
    Ignored = {a2}
    Names = {n1, n2, n3}
    Commands = {"add", "del"}
    TrackFlags = {FALSE}
    Env = {"enomem", "preopen", "efault", "quit"}
    GROUP_COUNT = 2
    MaxGroups = 3
    MaxEvents = 1
SYMMETRY Symmetry
CHECK_DEADLOCK FALSE
INVARIANTS
    GroupCountExact
    EnoughContainers
    GroupsDistinct
    UseCountExact
    GroupsProtected
