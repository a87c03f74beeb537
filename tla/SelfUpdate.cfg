CONSTANTS
    Builds = {b1, b2, b3}
    Broken = {x1}
    Installed = b1
    NoFile = NoFile
    MaxAdminOps = 5
    MaxCrashes = 2
SPECIFICATION FairSpec
INVARIANTS
    TypeOK
    UnixStaysStartable
    WindowsStaysRunnable
PROPERTIES
    InstallsWhatWasAnnounced
    CommandsAreHeard
CHECK_DEADLOCK FALSE
