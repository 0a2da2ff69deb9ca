CONSTANTS
    Package = {p1}
    Key = {k1, k2}
    Secret = {s1, s2}
    Inode = {l1, l2}
    Empty = empty
    None = None
SPECIFICATION FairSpec
INVARIANTS ServesWhole BackupWhole FirstPasswordKnown
PROPERTIES OfflineExchange KeyKept ServiceReturns BackupEnds
