\* The buyer's direct scan of the registry.
SPECIFICATION MCSpec
CONSTANTS
    None = None
    a = a
    b = b
    c = c
    d = d
    h1 = h1
    h2 = h2
    s1 = s1
    s2 = s2
    Records = {a, b, c, d}
    Scanners = {s1, s2}
    MaxCandidates = 3
    Scenes <- AllScenes
INVARIANTS
    ServedWereActive
    CheckpointIsTrue
    DocumentIsAccepted
    ReadsAreSound
PROPERTIES
    ScanCatchesUp
