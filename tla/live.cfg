SPECIFICATION FairSpec
CONSTANTS
    Accessors = {a1}
    Readers = {r1, r2}
    Pollers = {}
    Ctrls = {c1}
    Ignored = {}
    Names = {n1}
    Commands = {"add", "del"}
    TrackFlags = {FALSE}
    Env = {"signal", "dup", "guess"}
    GROUP_COUNT = 1
    MaxGroups = 2
    MaxEvents = 1
CHECK_DEADLOCK FALSE
PROPERTIES
    EveryAccessReturns
    RemovedGroupsLeft
