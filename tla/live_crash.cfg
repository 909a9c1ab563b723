SPECIFICATION FairSpec
CONSTANTS
    Accessors = {a1, a2}
    Readers = {r1}
    Pollers = {}
    Ctrls = {c1}
    Ignored = {}
    Names = {n1}
    Commands = {"add"}
    TrackFlags = {TRUE}
    Env = {"quit"}
    GROUP_COUNT = 1
    MaxGroups = 3
    MaxEvents = 2
CHECK_DEADLOCK FALSE
PROPERTIES
    EveryAccessReturns
