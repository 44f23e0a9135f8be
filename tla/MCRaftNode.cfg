CONSTANTS
    Nodes = {n1, n2, n3}
    Commands = {"c1"}
    kMaxEntriesPerRpc = 1
    MaxElections = 2
    MaxRounds = 2
    MaxProposals = 1
    MaxFailures = 1
    MaxOrphans = 1
SPECIFICATION Spec
SYMMETRY Symmetry
CHECK_DEADLOCK FALSE
INVARIANT RaftSafety
PROPERTY CommittedStays
