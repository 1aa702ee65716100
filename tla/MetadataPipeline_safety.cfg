CONSTANTS
    Events = {e1, e2, e3}
    Clients = {c1, c2}
    Main = main
    Capacity = 2
    BatchMax = 2
    MaxBytes = 2
    MaxFaults = 2
SPECIFICATION Spec
SYMMETRY Symmetry
INVARIANTS
    DurableBarrierSound
    ProjectedBarrierSound
    CommittedSequencePresent
    ProjectionInOrder
    RestartNeverRefused
