SPECIFICATION Spec
CONSTANTS
    p1 = p1  p2 = p2  n1 = n1  n2 = n2  None = None
    Procs <- Procs2
    Names <- Names2
    Columns <- Columns1
    Proposals <- FewProposals
    MaxTables = 2
    MaxSpecs = 2
    MaxSchemas = 2
SYMMETRY Symmetry
INVARIANTS TypeOK HistoryComplete ManifestSpecKnown SpecResendable
PROPERTIES EvolutionKeepsFields VersionsStable
