SPECIFICATION LoadSpec
CONSTANTS
    Procs = {p1, p2}
    FailsInUse = FALSE
    GROUP_COUNT = 10
SYMMETRY LoadSymmetry
INVARIANTS
    ReleasesExact
    Nested
    NodesLeadHome
    UsersServed
