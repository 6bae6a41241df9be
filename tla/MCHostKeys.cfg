SPECIFICATION Spec
CONSTANTS
    h1 = h1
    h2 = h2
    k1 = k1
    k2 = k2
    star = star
    Handlers = {a, b}
    Hosts = {h1, h2}
    Keys = {k1, k2}
    Patterns <- MCPatterns
    Covers <- MCCovers
    Edits <- MCEdits
    Files <- MCFiles
SYMMETRY Symmetry
INVARIANTS
    RevocationDurable
    FirstKeyPinned
    TrustJustified
    ObservationAgrees
