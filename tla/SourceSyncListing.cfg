CONSTANTS
    MaxSource = 1
    GitHub = {gh}
    Directory = {dir}
    File = {}
    Package = {p1}
    Content = {c1, c2}
    None = None
SPECIFICATION Spec
SYMMETRY Symmetry
INVARIANTS TypeOK RunningHasRunner NoStrayArtifact
PROPERTIES ImplementsTable ListingComplete LedgerSettled ManualListingRetries
