CONSTANTS
    Suite = {s1}
    Metadata = {m1, m2}
    Worker = {w1, w2}
    Scheduler = sched
    Boot = boot
    None = None
SPECIFICATION Spec
SYMMETRY Symmetry
INVARIANT DescribedWhenReady
