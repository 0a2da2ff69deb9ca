CONSTANTS
    Package = {p1}
    Content = {c1, c2}
    Component = {m1, m2}
    Carried = {{p1}, {}}
    Setting <- Settings
    Worker = {w1, w2}
    Scheduler = sched
    Boot = boot
    None = None
    Skipped = Skipped
    MaxId = 1
    MaxItems = 2
    MaxLost = 1
SPECIFICATION Spec
SYMMETRY Symmetry
INVARIANTS TypeOK IndexServable ActiveStored ReadyMeansPublished NoOrphanFile
PROPERTIES RowDeletedLast ImplementsCatalogue
