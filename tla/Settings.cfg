CONSTANTS
    Suite = {s1, s2}
    Metadata = {m1}
    Worker = {w1, w2}
    Scheduler = sched
    Boot = boot
    None = None
SPECIFICATION FairSpec
INVARIANTS TypeOK QuietMeansDescribed OnlySavedPublished
PROPERTIES ImplementsRegister Converges PendingCleared RequestsEnd
