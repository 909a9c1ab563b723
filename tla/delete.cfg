SPECIFICATION Spec
CONSTANTS
    Accessors = {a1, a2}
    Readers = {r1, r2}
    Pollers = {r2}
    Ctrls = {c1}
    Ignored = {}
    Names = {n1}
    Commands = {"add", "del"}
    TrackFlags = {FALSE}
    Env = {"signal"}
    GROUP_COUNT = 1
    MaxGroups = 2
    MaxEvents = 2
SYMMETRY Symmetry
CHECK_DEADLOCK FALSE
INVARIANTS
    EventAccounting
    RemovedGroupsEmpty
    NoLostWakeup
PROPERTIES
    PollersTold
