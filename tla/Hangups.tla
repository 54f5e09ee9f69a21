------------------------------ MODULE Hangups ------------------------------
(***************************************************************************)
(* What phraseguard/actuator.py promises the daemon: of the live calls, a  *)
(* request ends the one it names or none, whatever Asterisk and its        *)
(* command line do in the meantime.                                        *)
(*                                                                         *)
(* The promise has one hole.  Asterisk numbers its channels from 1 at each *)
(* start, and a request for a call that ended with the old Asterisk may    *)
(* end the call that has its channel name now.                             *)
(***************************************************************************)
CONSTANTS
    Calls,  \* SIP calls of the customer, by Call-ID
    None

VARIABLES
    live,   \* the calls Asterisk has a channel for
    twice,  \* those whose channel name was given out before a restart
    asked   \* the call that is to be hung up

vars == <<live, twice, asked>>

Init == live = {} /\ twice = {} /\ asked = None

\* A call gets a channel, whose name may be an old one.
Arrive(c) ==
    /\ c \notin live
    /\ live' = live \cup {c}
    /\ twice' \in {twice, twice \cup {c}}
    /\ UNCHANGED asked

Leave(c) ==
    /\ c \in live
    /\ live' = live \ {c} /\ twice' = twice \ {c}
    /\ UNCHANGED asked

\* Asterisk restarts.
Restart ==
    /\ live' = {} /\ twice' = {}
    /\ UNCHANGED asked

Ask(c) ==
    /\ asked = None
    /\ asked' = c
    /\ UNCHANGED <<live, twice>>

\* The request is over and nobody was hung up: shadow mode, no channel found,
\* a command that failed, a call that had ended.
ServeNobody ==
    /\ asked # None
    /\ asked' = None
    /\ UNCHANGED <<live, twice>>

\* The calls a request may end.
MayEnd == live \cap IF asked \in live THEN {asked} ELSE twice

Serve(victim) ==
    /\ asked # None /\ victim \in MayEnd
    /\ asked' = None
    /\ live' = live \ {victim} /\ twice' = twice \ {victim}

Next ==
    \/ \E c \in Calls : Arrive(c) \/ Leave(c) \/ Ask(c) \/ Serve(c)
    \/ Restart \/ ServeNobody

Spec == Init /\ [][Next]_vars
=============================================================================
