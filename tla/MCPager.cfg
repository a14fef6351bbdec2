CONSTANTS
    p1 = p1
    p2 = p2
    Processes <- MCProcesses
    DataPages <- MCDataPages
    MaxTxn = 3
SYMMETRY MCSymmetry
SPECIFICATION Spec
INVARIANT TypeOK
INVARIANT ReadersSeeCommitted
INVARIANT FailedLeavesNothing
PROPERTY ImplementsAtomicFile
