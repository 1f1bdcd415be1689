SPECIFICATION Spec
CONSTANTS
    Procs = {p, q, r}
    Forked = {q, r}
    Readers = {p}
    Files = {f, g, h}
    NSlots = 2
    Hash <- MCHash
    NoFile = none
    MaxCalls = 3
SYMMETRY MCSymmetry
INVARIANTS
    OneEntryPerFile
    QuietStatIsLatest
    StatIsOfThatFile
    NoLostWakeup
CHECK_DEADLOCK FALSE
