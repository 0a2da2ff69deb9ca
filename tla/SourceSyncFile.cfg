CONSTANTS
    MaxSource = 1
    GitHub = {}
    Directory = {}
    File = {f1, f2}
    Package = {p1}
    Content = {c1, c2}
    None = None
SPECIFICATION Spec
SYMMETRY Symmetry
PROPERTY FileFetched
