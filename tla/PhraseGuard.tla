---------------------------- MODULE PhraseGuard ----------------------------
(***************************************************************************)
(* phraseguard/phraseguardd.py: the daemon that listens to the customers'  *)
(* calls and hangs up the one on which a Tier A phrase was said.           *)
(*                                                                         *)
(* One thread reads the capture (Tap), recognises speech, and has the call *)
(* of a phrase hung up; the actuator is taken at its word (Hangups, which  *)
(* Actuator implements).  Asterisk, the customers and the capture go on    *)
(* meanwhile.  What is recognised is a choice of this model; Tier A-near   *)
(* and Tier B matches only write records and are left out.                 *)
(***************************************************************************)
EXTENDS Tap, FiniteSets

CONSTANTS
    MaxStreams,  \* PHRASEGUARD_MAX_STREAMS
    CountedCap,  \* counted_calls is trimmed above this size (10000)
    MaxRestarts  \* bound of this model: restarts of Asterisk and of the daemon

ASSUME BoundsNat == {MaxStreams, CountedCap, MaxRestarts, WireCap} \subseteq Nat

VARIABLES
    live,      \* the calls Asterisk has a channel for
    twice,     \* those on a channel name that an earlier Asterisk gave out
    asked,     \* the call the actuator is to hang up
    sessions,  \* sessions, by stream
    counted,   \* counted_calls
    restarts,  \* restarts of Asterisk and of the daemon
    tallied,   \* history: calls counted since the tracker took them up
    speaker    \* history: whose stream the phrase under way came from

actuatorVars == <<live, twice, asked>>
daemonVars == <<sessions, counted>>
ghosts == <<tallied, speaker>>
vars == <<port, wire, tapVars, actuatorVars, daemonVars, restarts, ghosts>>

Actuator == INSTANCE Hangups

Init ==
    /\ TapInit /\ Actuator!Init
    /\ sessions = {} /\ counted = {}
    /\ restarts = 0
    /\ tallied = {} /\ speaker = None

-----------------------------------------------------------------------------
(* Asterisk, the customers and the capture.                                *)

Outside == UNCHANGED <<tapVars, daemonVars, ghosts>>

\* An INVITE, and the SBC port of the call, one that no live call has.
Invite(c, p) ==
    /\ port[c] = None
    /\ \A d \in live : port[d] # p
    /\ port' = [port EXCEPT ![c] = p]
    /\ Actuator!Arrive(c)
    /\ restarts = 0 => UNCHANGED twice
    /\ Send(Packet("INVITE", c))
    /\ Outside /\ UNCHANGED restarts

\* Our answer or its repetition, an INVITE within the call, or a refusal of
\* some request within it.
Signal(c, t) ==
    /\ c \in live /\ t \in {"OK", "INVITE", "END"}
    /\ Capture(Packet(t, c))
    /\ Outside /\ UNCHANGED <<port, actuatorVars, restarts>>

\* A customer may still be sending when its call is over.
Speak(c) ==
    /\ port[c] # None
    /\ Capture(Packet("RTP", c))
    /\ Outside /\ UNCHANGED <<port, actuatorVars, restarts>>

Bye(c) ==
    /\ Actuator!Leave(c)
    /\ Send(Packet("END", c))
    /\ Outside /\ UNCHANGED <<port, restarts>>

\* Calls end without a BYE.
Reboot ==
    /\ restarts < MaxRestarts
    /\ restarts' = restarts + 1
    /\ Actuator!Restart
    /\ Outside /\ UNCHANGED <<port, wire>>

-----------------------------------------------------------------------------
(* The daemon.                                                             *)

ReadSip ==
    /\ asked = None
    /\ Read({"INVITE", "OK", "END"})
    /\ \E G \in SUBSET Ended :
        /\ Feed(Head(wire), G)
        /\ tallied' = tallied \ G
    /\ UNCHANGED <<port, actuatorVars, daemonVars, restarts, speaker>>

\* The start of on_audio: a session for the stream, and its call counted,
\* unless there are too many sessions.
HasSession(c) == c \in sessions \/ Cardinality(sessions) < MaxStreams

OpenSession(c, call) ==
    LET new == c \notin sessions /\ HasSession(c)
        first == IF new /\ call # None THEN {call} \ counted ELSE {} IN
    /\ sessions' = IF new THEN sessions \cup {c} ELSE sessions
    /\ counted' = counted \cup first
    /\ tallied' = tallied \cup first

\* Audio below the gate.
Quiet == UNCHANGED <<daemonVars, ghosts, actuatorVars>>

\* Audio for the recogniser.  A new Tier A match asks for the call to be hung
\* up, if the stream has one.
Speech(c) ==
    LET call == CallOf(stream'[c]) IN
    /\ OpenSession(c, call)
    /\ \/ UNCHANGED <<actuatorVars, speaker>>
       \/ HasSession(c) /\ call # None /\ Actuator!Ask(call) /\ speaker' = c

ReadRtp ==
    /\ asked = None
    /\ Read({"RTP"})
    /\ \E D \in SUBSET {k \in Calls : stream[k] # "no"} : FeedRtp(Head(wire).call, D)
    /\ Quiet \/ Speech(Head(wire).call)
    /\ UNCHANGED <<port, restarts>>

\* The actuator is done.  A call that was hung up says BYE.
HungUp(victim) ==
    /\ Actuator!Serve(victim)
    /\ Send(Packet("END", victim))
    /\ speaker' = None
    /\ UNCHANGED <<port, tapVars, daemonVars, restarts, tallied>>

NotHungUp ==
    /\ Actuator!ServeNobody
    /\ speaker' = None
    /\ UNCHANGED <<port, wire, tapVars, daemonVars, restarts, tallied>>

\* Mutant: the trim starts the set afresh.
TrimAll == IF Cardinality(counted) > CountedCap THEN {} ELSE counted

Trim ==
    IF Cardinality(counted) > CountedCap THEN {c \in counted : Known(c)} ELSE counted

\* Every 15 seconds, between packets: sessions of closed streams go.
Housekeeping ==
    /\ asked = None
    /\ sessions' = {c \in sessions : stream[c] # "no"}
    /\ counted' = Trim
    /\ UNCHANGED <<port, wire, tapVars, actuatorVars, restarts, ghosts>>

\* The daemon dies and is started again: it knows no call and no channel.
Crash ==
    /\ restarts < MaxRestarts
    /\ restarts' = restarts + 1
    /\ wire' = <<>> /\ tracked' = NotTracked /\ byMedia' = NoMedia
    /\ stream' = NoStreams /\ heard' = {}
    /\ sessions' = {} /\ counted' = {} /\ tallied' = {}
    /\ asked' = None /\ speaker' = None
    /\ UNCHANGED <<port, live, twice>>

Next ==
    \/ \E c \in Calls :
        \/ \E p \in Ports : Invite(c, p)
        \/ \E t \in {"OK", "INVITE", "END"} : Signal(c, t)
        \/ Speak(c) \/ Bye(c) \/ HungUp(c)
    \/ Reboot \/ ReadSip \/ ReadRtp \/ NotHungUp \/ Housekeeping \/ Crash

Spec == Init /\ [][Next]_vars

-----------------------------------------------------------------------------
(* Properties.                                                             *)

\* A call is hung up for what was said on it.  There are two ways around that
\* and no third: the speaker is the customer of another call that had the same
\* SBC port, or Asterisk was restarted and gave the channel name out again
\* (actuator.py:75-78, tap.py:565-573).
KillsTheSpeaker ==
    [][\A victim \in Calls : HungUp(victim) =>
        \/ victim = speaker \/ port[victim] = port[speaker]
        \/ victim \in twice]_vars

\* A live call whose SDP answer was read since the tracker took it up can be
\* found by its port, whatever calls had the port before and whenever they
\* expire (tap.py:385-396, 415-422).
LiveCallIsFindable == \A c \in live \cap heard : byMedia[port[c]] = c

\* A call the tracker still knows is counted once: while it is known it stays
\* in counted_calls (phraseguardd.py:209-211, 301-308).
CountedOnce == tallied \subseteq counted
=============================================================================
