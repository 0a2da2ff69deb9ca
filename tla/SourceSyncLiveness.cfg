CONSTANTS
    MaxSource = 1
    GitHub = {gh}
    Directory = {}
    File = {f1}
    Package = {p1}
    Content = {c1}
    None = None
SPECIFICATION FairSpec
PROPERTIES QueuedServed RunningEnds
