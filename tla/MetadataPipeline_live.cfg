CONSTANTS
    Events = {e1, e2}
    Clients = {c1, c2}
    Main = main
    Capacity = 2
    BatchMax = 2
    MaxBytes = 2
    MaxFaults = 1
SPECIFICATION Spec
PROPERTIES
    DurableBarrierAnswered
    ShutdownEnds
    ProjectedBarrierAnswered
    AcceptedIsProjected
