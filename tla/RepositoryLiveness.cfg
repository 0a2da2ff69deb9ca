CONSTANTS
    Package = {p1}
    Content = {c1}
    Component = {m1}
    Carried = {{p1}, {}}
    Setting <- Settings
    Worker = {w1}
    Scheduler = sched
    Boot = boot
    None = None
    Skipped = Skipped
    MaxId = 1
    MaxItems = 1
    MaxLost = 1
SPECIFICATION FairSpec
PROPERTIES DirtyCleared RequestsEnd
