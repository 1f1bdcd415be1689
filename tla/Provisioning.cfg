SPECIFICATION Spec
CONSTANTS
    Versions = {"v1", "x"}
    Releases = {"v1"}
    Escaping = {"x"}
    MaxCommands = 3
    NoDir = NoDir
    NoFile = NoFile
INVARIANTS
    InstalledIsUsable
    CleanInstallIsOneArchive
    StagingEndsWithItsAttempt
    NodeIsWhole
PROPERTIES
    CommandEnds
CHECK_DEADLOCK FALSE
