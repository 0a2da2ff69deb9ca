CONSTANTS
    Package = {p1, p2}
    Content = {c1}
    Component = {m1}
    Carried = {{p1, p2}}
    Setting <- Settings
    Worker = {w1}
    Scheduler = sched
    Boot = boot
    None = None
    Skipped = Skipped
    MaxId = 2
    MaxItems = 1
    MaxLost = 1
SPECIFICATION Spec
SYMMETRY Symmetry
INVARIANT NeverDangling
