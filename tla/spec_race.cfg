SPECIFICATION Spec
CONSTANTS
    p1 = p1  p2 = p2  n1 = n1  n2 = n2  None = None
    Procs <- Procs2
    Names <- Names1
    Columns <- Columns1
    Proposals <- AllProposals
    MaxTables = 1
    MaxSpecs = 3
    MaxSchemas = 2
SYMMETRY Symmetry
INVARIANTS FieldIDStable
