CONSTANTS
    MaxSource = 2
    MaxPerCycle = 1
    None = None
SPECIFICATION FairSpec
INVARIANTS NoLostWake CleanStop
PROPERTIES ImplementsTable QueuedServed ShutdownEnds
