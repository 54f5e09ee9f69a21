\* Two rollback timers at once, Asterisk or the machine going away twice.
SPECIFICATION FairSpec
CONSTANTS
    MaxTimers = 2
    MaxCrashes = 2
INVARIANTS
    TypeOK
    CutIsLive
    HardCutIsInTheFirewall
PROPERTIES
    RollbackHappens
    CutComesBack
