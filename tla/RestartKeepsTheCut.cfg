\* Asterisk or the machine goes away once.
SPECIFICATION Spec
CONSTANTS
    MaxTimers = 1
    MaxCrashes = 1
INVARIANT RestartKeepsTheCut
