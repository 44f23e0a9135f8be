CONSTANTS
    Nodes = {n1, n2, n3}
    Commands = {"c1"}
    kMaxEntriesPerRpc = 1
    MaxElections = 2
    MaxRounds = 5
    MaxProposals = 1
    MaxFailures = 0
    MaxOrphans = 0
SPECIFICATION Spec
SYMMETRY Symmetry
CHECK_DEADLOCK FALSE
INVARIANT OkMeansCommitted
