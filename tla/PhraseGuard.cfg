\* Two calls on two ports, so that a port is used again and is not; a capture
\* that holds back two packets; one session at a time; one restart of Asterisk
\* or of the daemon.
SPECIFICATION Spec
CONSTANTS
    Calls = {a, b}
    Ports = {p1, p2}
    WireCap = 2
    None = None
    MaxStreams = 1
    CountedCap = 0
    MaxRestarts = 1
SYMMETRY MCSymmetry
INVARIANTS
    LiveCallIsFindable
    CountedOnce
PROPERTY KillsTheSpeaker
\* Each call is made once, and the system may come to rest.
CHECK_DEADLOCK FALSE
