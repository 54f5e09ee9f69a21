------------------------- MODULE PhraseGuardProofs -------------------------
(***************************************************************************)
(* Proofs about the daemon of PhraseGuard, its capture and its actuator,   *)
(* for any number of calls, ports, sessions, restarts and packets.         *)
(***************************************************************************)
EXTENDS PhraseGuard, FiniteSetTheorems, TLAPS

Types ==
    /\ port \in [Calls -> Ports \cup {None}]
    /\ wire \in Seq(Packets)
    /\ tracked \in [Calls -> {"no", "yes", "ended"}]
    /\ byMedia \in [Sockets -> Calls \cup {None}]
    /\ stream \in [Calls -> Calls \cup {"no", None}]
    /\ {heard, live, sessions, counted, tallied} \subseteq SUBSET Calls
    /\ asked \in Calls \cup {None}

\* A call has its port from its first packet on; live calls have different ports.
PortsGiven ==
    /\ \A c \in live \cup heard : port[c] \in Ports
    /\ \A c, d \in live : port[c] = port[d] => c = d
    /\ \A i \in 1 .. Len(wire) : port[wire[i].call] \in Ports

\* The wire and the tracker's memory of SDP answers are in the order of the
\* calls: an answer of a call that is over comes before any of the live call
\* that has its port now.
AnswersInOrder ==
    \A i \in 1 .. Len(wire), d \in live :
        wire[i].type = "OK" /\ wire[i].call # d /\ port[wire[i].call] = port[d] =>
            /\ d \notin heard
            /\ \A j \in 1 .. Len(wire) : wire[j].type = "OK" /\ wire[j].call = d => i < j

\* A socket maps to a call it was given to, a stream is attributed to a call
\* of its port, and a request names a call of the speaker's port.
SamePort(c, d) == port[c] \in Ports /\ port[d] = port[c]
Attributed ==
    /\ \A s \in Sockets : byMedia[s] # None =>
          /\ port[byMedia[s]] \in Ports
          /\ byMedia[s] = s \/ port[byMedia[s]] = s
    /\ \A c \in Calls : stream[c] \in Calls => SamePort(c, stream[c])
    /\ asked # None => speaker \in Calls /\ SamePort(asked, speaker)

CountedKnown == \A c \in tallied : Known(c) /\ c \in counted

Inv == Types /\ PortsGiven /\ AnswersInOrder /\ Attributed /\ CountedKnown /\ LiveCallIsFindable

LEMMA InvInit == Init => Inv
  BY SocketsDistinct DEF Init, TapInit, Actuator!Init, NotTracked, NoMedia, NoStreams, Inv, Types,
     PortsGiven, AnswersInOrder, Attributed, CountedKnown, LiveCallIsFindable, Packets

-----------------------------------------------------------------------------
(***************************************************************************)
(* What each operation does to the wire and to the tracker.                *)
(***************************************************************************)

LEMMA WireGrows ==
    ASSUME Types, NEW p \in Packets, wire' = wire \/ Capture(p)
    PROVE  /\ wire' \in Seq(Packets)
           /\ \A i \in 1 .. Len(wire) : i \in 1 .. Len(wire') /\ wire'[i] = wire[i]
           /\ \A i \in 1 .. Len(wire') :
                  \/ i \in 1 .. Len(wire) /\ wire'[i] = wire[i]
                  \/ i = Len(wire) + 1 /\ wire'[i] = p
<1>1. CASE wire' = wire
  BY <1>1 DEF Types
<1>2. CASE wire' = Append(wire, p)
  BY <1>2 DEF Types
<1> QED
  BY <1>1, <1>2 DEF Capture

LEMMA WireRead ==
    ASSUME Types, NEW T, Read(T)
    PROVE  /\ wire' \in Seq(Packets) /\ Head(wire) \in Packets /\ Head(wire).type \in T
           /\ 1 \in 1 .. Len(wire) /\ wire[1] = Head(wire)
           /\ \A i \in 1 .. Len(wire') : i + 1 \in 1 .. Len(wire) /\ wire'[i] = wire[i + 1]
  BY DEF Types, Read

\* SipTracker.feed: sockets are mapped to the packet's call only, a call that is
\* dropped takes its own mappings, and nobody else's call is forgotten.
LEMMA Fed ==
    ASSUME Types, NEW p \in Packets, NEW G \in SUBSET Ended, Feed(p, G)
    PROVE  /\ tracked' \in [Calls -> {"no", "yes", "ended"}]
           /\ byMedia' \in [Sockets -> Calls \cup {None}]
           /\ stream' = stream
           /\ \A c \in Calls \ G : Known(c) => tracked'[c] # "no"
           /\ \A s \in Sockets : byMedia'[s] # None =>
                 byMedia'[s] = byMedia[s] \/ (byMedia'[s] = p.call /\ s \in {p.call, port[p.call]})
           /\ \A s \in Ports, c \in Calls \ G : byMedia[s] = c =>
                 byMedia'[s] = c \/ (p.type = "OK" /\ s = port[p.call] /\ c # p.call)
           /\ \/ heard' = heard \ G
              \/ /\ p.type = "OK" /\ heard' = (heard \cup {p.call}) \ G
                 /\ p.call \notin G /\ port[p.call] \in Ports => byMedia'[port[p.call]] = p.call
<1> USE SocketsDistinct DEF Types, Packets, Sockets, Known, Ended
<1>1. CASE FeedInvite(p.call, G)
  BY <1>1 DEF Feed, FeedInvite, Expire, DropMedia
<1>2. CASE p.type = "OK" /\ FeedOk(p.call, G)
  BY <1>2 DEF Feed, FeedOk, Expire, DropMedia
<1>3. CASE FeedEnd(p.call, G)
  BY <1>3 DEF Feed, FeedEnd, Expire, DropMedia
<1> QED
  BY <1>1, <1>2, <1>3 DEF Feed

-----------------------------------------------------------------------------
(***************************************************************************)
(* The steps of Asterisk, the customers and the capture.                   *)
(***************************************************************************)

LEMMA InviteStep == ASSUME Inv, NEW c \in Calls, NEW p \in Ports, Invite(c, p) PROVE Inv'
<1> USE SocketsDistinct DEF Inv
<1>1. /\ port[c] = None /\ c \notin live /\ (\A d \in live : port[d] # p)
      /\ port' = [port EXCEPT ![c] = p] /\ live' = live \cup {c}
      /\ UNCHANGED <<asked, tracked, byMedia, stream, heard, sessions, counted, tallied, speaker>>
  BY DEF Invite, Actuator!Arrive, Outside, tapVars, daemonVars, ghosts
<1>2. \A d \in Calls : port[d] \in Ports => d # c /\ port'[d] = port[d]
  BY <1>1 DEF Types
<1>3. /\ wire' \in Seq(Packets)
      /\ \A i \in 1 .. Len(wire') :
             \/ i \in 1 .. Len(wire) /\ wire'[i] = wire[i]
             \/ i = Len(wire) + 1 /\ wire'[i] = Packet("INVITE", c)
  <2>1. Packet("INVITE", c) \in Packets
    BY DEF Packet, Packets
  <2> QED
    BY <2>1, WireGrows DEF Invite, Send
<1>4. Types'
  BY <1>1, <1>3 DEF Types
<1>5. \A i \in 1 .. Len(wire) : wire[i].call \in Calls
  <2>1. \A i \in 1 .. Len(wire) : wire[i] \in Packets
    BY DEF Types
  <2> QED
    BY <2>1 DEF Packets
<1>6. port'[c] = p
  BY <1>1 DEF Types
<1>7. PortsGiven'
  <2>1. \A d \in live' \cup heard' : port'[d] \in Ports
    BY <1>1, <1>2, <1>6 DEF PortsGiven, Types
  <2>2. \A d, e \in live' : port'[d] = port'[e] => d = e
    BY <1>1, <1>2, <1>6 DEF PortsGiven, Types
  <2>3. \A i \in 1 .. Len(wire') : port'[wire'[i].call] \in Ports
    BY <1>2, <1>3, <1>5, <1>6 DEF PortsGiven, Packet
  <2> QED
    BY <2>1, <2>2, <2>3 DEF PortsGiven
<1>8. AnswersInOrder'
  <2> SUFFICES ASSUME NEW i \in 1 .. Len(wire'), NEW d \in live', wire'[i].type = "OK",
                      wire'[i].call # d, port'[wire'[i].call] = port'[d]
               PROVE  /\ d \notin heard'
                      /\ \A j \in 1 .. Len(wire') : wire'[j].type = "OK" /\ wire'[j].call = d => i < j
    BY DEF AnswersInOrder
  <2>1. i \in 1 .. Len(wire) /\ wire'[i] = wire[i] /\ port[wire[i].call] \in Ports
    BY <1>3 DEF Packet, PortsGiven
  <2>2. \A j \in 1 .. Len(wire') : wire'[j].type = "OK" => j \in 1 .. Len(wire) /\ wire'[j] = wire[j]
    BY <1>3 DEF Packet
  <2>3. CASE d = c
    BY <1>1, <1>2, <1>5, <2>2, <2>3 DEF PortsGiven
  <2>4. CASE d # c
    <3>1. d \in live /\ port'[d] = port[d] /\ port'[wire[i].call] = port[wire[i].call]
      BY <1>1, <1>2, <1>5, <2>1, <2>4 DEF PortsGiven, Types
    <3> QED
      BY <1>1, <2>1, <2>2, <3>1 DEF AnswersInOrder
  <2> QED
    BY <2>3, <2>4
<1>9. Attributed'
  <2>1. \A s \in Sockets : byMedia[s] # None => byMedia[s] \in Calls
    BY DEF Types
  <2> QED
    BY <1>1, <1>2, <2>1 DEF Attributed, SamePort, Types
<1>10. CountedKnown' /\ LiveCallIsFindable'
  BY <1>1, <1>2 DEF CountedKnown, LiveCallIsFindable, Known, PortsGiven, Types
<1> QED
  BY <1>4, <1>7, <1>8, <1>9, <1>10

\* A packet of a call that has its port, and calls that end.
LEMMA TrafficStep ==
    ASSUME Inv, UNCHANGED <<port, tapVars, daemonVars, tallied>>, live' \subseteq live,
           asked' = None \/ UNCHANGED <<asked, speaker>>,
           NEW c \in Calls, port[c] \in Ports, NEW t \in {"INVITE", "OK", "END", "RTP"},
           t = "OK" => c \in live,
           wire' = wire \/ Capture(Packet(t, c))
    PROVE  Inv'
<1> USE SocketsDistinct DEF Inv, tapVars, daemonVars
<1>1. /\ wire' \in Seq(Packets)
      /\ \A i \in 1 .. Len(wire') :
             \/ i \in 1 .. Len(wire) /\ wire'[i] = wire[i]
             \/ i = Len(wire) + 1 /\ wire'[i] = Packet(t, c)
  <2>1. Packet(t, c) \in Packets
    BY DEF Packet, Packets
  <2> QED
    BY <2>1, WireGrows
<1>2. Packet(t, c).type = t /\ Packet(t, c).call = c
  BY DEF Packet
<1>3. Types'
  BY <1>1 DEF Types
<1>4. PortsGiven'
  BY <1>1, <1>2 DEF PortsGiven
<1>5. AnswersInOrder'
  <2> SUFFICES ASSUME NEW i \in 1 .. Len(wire'), NEW d \in live', wire'[i].type = "OK",
                      wire'[i].call # d, port[wire'[i].call] = port[d]
               PROVE  /\ d \notin heard
                      /\ \A j \in 1 .. Len(wire') : wire'[j].type = "OK" /\ wire'[j].call = d => i < j
    BY DEF AnswersInOrder
  <2>1. i \in 1 .. Len(wire) /\ wire'[i] = wire[i]
    BY <1>1, <1>2 DEF PortsGiven
  <2>2. d \in live /\ Len(wire) \in Nat
    BY DEF Types
  <2>3. d \notin heard
    BY <2>1, <2>2 DEF AnswersInOrder
  <2>4. ASSUME NEW j \in 1 .. Len(wire'), wire'[j].type = "OK" /\ wire'[j].call = d PROVE i < j
    BY <1>1, <2>1, <2>2, <2>4 DEF AnswersInOrder
  <2> QED
    BY <2>3, <2>4
<1>6. Attributed' /\ CountedKnown' /\ LiveCallIsFindable'
  BY DEF Attributed, SamePort, CountedKnown, LiveCallIsFindable, Known
<1> QED
  BY <1>3, <1>4, <1>5, <1>6

-----------------------------------------------------------------------------
(***************************************************************************)
(* The steps of the daemon.                                                *)
(***************************************************************************)

LEMMA ReadSipStep == ASSUME Inv, ReadSip PROVE Inv'
<1> USE SocketsDistinct DEF Inv
<1> DEFINE p == Head(wire)
           c == p.call
<1>1. /\ wire' \in Seq(Packets) /\ p \in Packets
      /\ 1 \in 1 .. Len(wire) /\ wire[1] = p
      /\ \A i \in 1 .. Len(wire') : i + 1 \in 1 .. Len(wire) /\ wire'[i] = wire[i + 1]
  BY WireRead DEF ReadSip
<1>2. PICK G \in SUBSET Ended : Feed(p, G) /\ tallied' = tallied \ G
  BY DEF ReadSip
<1>3. UNCHANGED <<port, live, asked, sessions, counted, speaker>> /\ asked = None
  BY DEF ReadSip, actuatorVars, daemonVars
<1>4. c \in Calls /\ port[c] \in Ports
  BY <1>1 DEF PortsGiven, Packets
<1> HIDE DEF p, c
<1>5. /\ tracked' \in [Calls -> {"no", "yes", "ended"}]
      /\ byMedia' \in [Sockets -> Calls \cup {None}]
      /\ stream' = stream
      /\ \A d \in Calls \ G : Known(d) => tracked'[d] # "no"
      /\ \A s \in Sockets : byMedia'[s] # None =>
            byMedia'[s] = byMedia[s] \/ (byMedia'[s] = c /\ s \in {c, port[c]})
      /\ \A s \in Ports, d \in Calls \ G : byMedia[s] = d =>
            byMedia'[s] = d \/ (p.type = "OK" /\ s = port[c] /\ d # c)
      /\ \/ heard' = heard \ G
         \/ /\ p.type = "OK" /\ heard' = (heard \cup {c}) \ G
            /\ c \notin G => byMedia'[port[c]] = c
  BY <1>1, <1>2, <1>4, Fed DEF c
<1>6. Types'
  BY <1>1, <1>2, <1>3, <1>4, <1>5 DEF Types
<1>7. PortsGiven'
  <2>1. \A d \in live \cup heard' : port[d] \in Ports
    BY <1>4, <1>5 DEF PortsGiven
  <2>2. \A i \in 1 .. Len(wire') : port[wire'[i].call] \in Ports
    BY <1>1 DEF PortsGiven
  <2> QED
    BY <1>3, <2>1, <2>2 DEF PortsGiven
<1>8. ASSUME NEW i \in 1 .. Len(wire'), NEW d \in live, wire'[i].type = "OK",
             wire'[i].call # d, port[wire'[i].call] = port[d]
      PROVE  /\ d \notin heard'
             /\ \A j \in 1 .. Len(wire') : wire'[j].type = "OK" /\ wire'[j].call = d => i < j
  <2>1. i + 1 \in 1 .. Len(wire) /\ wire'[i] = wire[i + 1]
    BY <1>1
  <2>2. /\ d \notin heard
        /\ \A j \in 1 .. Len(wire) : wire[j].type = "OK" /\ wire[j].call = d => i + 1 < j
    BY <1>8, <2>1 DEF AnswersInOrder
  <2>3. ~(p.type = "OK" /\ c = d)
    BY <1>1, <2>2 DEF c
  <2>4. d \notin heard'
    BY <1>5, <2>2, <2>3
  <2>5. ASSUME NEW j \in 1 .. Len(wire'), wire'[j].type = "OK" /\ wire'[j].call = d PROVE i < j
    <3>1. j + 1 \in 1 .. Len(wire) /\ wire'[j] = wire[j + 1]
      BY <1>1
    <3>2. i + 1 < j + 1
      BY <2>2, <2>5, <3>1
    <3> QED
      BY <3>2
  <2> QED
    BY <2>4, <2>5
<1>9. Attributed'
  <2>1. \A s \in Sockets : byMedia[s] \in Calls \cup {None}
    BY DEF Types
  <2> QED
    BY <1>3, <1>4, <1>5, <2>1 DEF Attributed, SamePort
<1>10. CountedKnown'
  BY <1>2, <1>3, <1>5 DEF CountedKnown, Known, Types
<1>11. ASSUME NEW d \in live, d \in heard' PROVE byMedia'[port[d]] = d
  <2>1. CASE d \in heard \ G
    <3>1. byMedia[port[d]] = d /\ port[d] \in Ports /\ d \in Calls
      BY <1>11, <2>1 DEF LiveCallIsFindable, PortsGiven, Types
    <3>2. ~(p.type = "OK" /\ port[d] = port[c] /\ d # c)
      BY <1>1, <2>1 DEF AnswersInOrder, c
    <3> QED
      BY <1>5, <2>1, <3>1, <3>2
  <2>2. CASE d \notin heard \ G
    BY <1>5, <1>11, <2>2
  <2> QED
    BY <2>1, <2>2
<1> QED
  BY <1>3, <1>6, <1>7, <1>8, <1>9, <1>10, <1>11 DEF AnswersInOrder, LiveCallIsFindable

\* An attributed stream is that of a call of its port.
LEMMA AttributionSamePort ==
    ASSUME Types, Attributed, NEW c \in Calls, port[c] \in Ports, Attribution(c) \in Calls
    PROVE  SamePort(c, Attribution(c))
<1>1. port[c] \in Sockets /\ c \in Sockets /\ c \notin Ports
  BY SocketsDistinct DEF Sockets
<1>2. ASSUME NEW s \in {c, port[c]}, CallForMedia(s) # None
      PROVE  CallForMedia(s) = byMedia[s] /\ byMedia[s] # None
  BY <1>2 DEF CallForMedia
<1>3. CASE CallForMedia(port[c]) # None
  <2>1. Attribution(c) = byMedia[port[c]] /\ byMedia[port[c]] # None
    BY <1>2, <1>3 DEF Attribution
  <2> QED
    BY <1>1, <2>1, SocketsDistinct DEF Attributed, SamePort
<1>4. CASE CallForMedia(port[c]) = None
  <2>1. Attribution(c) = byMedia[c] /\ byMedia[c] # None
    BY <1>2, <1>4, SocketsDistinct DEF Attribution
  <2> QED
    BY <1>1, <2>1, SocketsDistinct DEF Attributed, SamePort
<1> QED
  BY <1>3, <1>4

LEMMA ReadRtpStep == ASSUME Inv, ReadRtp PROVE Inv'
<1> USE SocketsDistinct DEF Inv
<1> DEFINE c == Head(wire).call
<1>1. /\ wire' \in Seq(Packets) /\ Head(wire) \in Packets
      /\ 1 \in 1 .. Len(wire) /\ wire[1] = Head(wire)
      /\ \A i \in 1 .. Len(wire') : i + 1 \in 1 .. Len(wire) /\ wire'[i] = wire[i + 1]
  BY WireRead DEF ReadRtp
<1>2. c \in Calls /\ port[c] \in Ports
  BY <1>1 DEF PortsGiven, Packets
<1>3. /\ UNCHANGED <<port, live, tracked, byMedia, heard>> /\ asked = None
      /\ \E D \in SUBSET Calls : FeedRtp(c, D)
      /\ Quiet \/ Speech(c)
  BY DEF ReadRtp, FeedRtp, Quiet, Speech, actuatorVars, Actuator!Ask
<1> HIDE DEF c
<1>4. stream' \in [Calls -> Calls \cup {"no", None}]
  <2>1. Attribution(c) \in Calls \cup {None}
    BY <1>2 DEF Attribution, CallForMedia, Types, Sockets
  <2> QED
    BY <1>2, <1>3, <2>1 DEF FeedRtp, Types
<1>5. \A k \in Calls : stream'[k] \in Calls => SamePort(k, stream'[k])
  <2>1. \A k \in Calls : stream'[k] \in {"no", stream[k]} \/ (k = c /\ stream'[k] = Attribution(c))
    BY <1>2, <1>3 DEF FeedRtp
  <2> QED
    BY <1>2, <2>1, AttributionSamePort DEF Attributed
<1>6. /\ {sessions', counted', tallied'} \subseteq SUBSET Calls
      /\ CountedKnown'
      /\ asked' # None => asked' \in Calls /\ speaker' \in Calls /\ SamePort(asked', speaker')
  <2>1. CASE Quiet
    BY <1>3, <2>1 DEF Quiet, daemonVars, ghosts, actuatorVars, CountedKnown, Known, Types
  <2>2. CASE Speech(c)
    <3> DEFINE call == CallOf(stream'[c])
    <3>1. call # None => call \in Calls /\ Known(call) /\ call = stream'[c]
      BY DEF CallOf
    <3> HIDE DEF call
    <3>2. OpenSession(c, call) /\ (asked' = None \/ (call # None /\ asked' = call /\ speaker' = c))
      BY <1>3, <2>2 DEF Speech, call, actuatorVars, Actuator!Ask
    <3>3. {sessions', counted', tallied'} \subseteq SUBSET Calls /\ CountedKnown'
      BY <1>2, <1>3, <3>1, <3>2 DEF OpenSession, CountedKnown, Known, Types
    <3>4. asked' # None => asked' \in Calls /\ speaker' = c /\ SamePort(c, asked')
      BY <1>2, <1>5, <3>1, <3>2
    <3> QED
      BY <1>2, <3>3, <3>4 DEF SamePort
  <2> QED
    BY <1>3, <2>1, <2>2
<1>7. Types'
  BY <1>1, <1>3, <1>4, <1>6 DEF Types
<1>8. PortsGiven'
  BY <1>1, <1>3 DEF PortsGiven
<1>9. AnswersInOrder'
  <2> SUFFICES ASSUME NEW i \in 1 .. Len(wire'), NEW d \in live, wire'[i].type = "OK",
                      wire'[i].call # d, port[wire'[i].call] = port[d]
               PROVE  /\ d \notin heard
                      /\ \A j \in 1 .. Len(wire') : wire'[j].type = "OK" /\ wire'[j].call = d => i < j
    BY <1>3 DEF AnswersInOrder
  <2>1. i + 1 \in 1 .. Len(wire) /\ wire'[i] = wire[i + 1]
    BY <1>1
  <2>2. /\ d \notin heard
        /\ \A j \in 1 .. Len(wire) : wire[j].type = "OK" /\ wire[j].call = d => i + 1 < j
    BY <2>1 DEF AnswersInOrder
  <2>3. ASSUME NEW j \in 1 .. Len(wire'), wire'[j].type = "OK" /\ wire'[j].call = d PROVE i < j
    <3>1. j + 1 \in 1 .. Len(wire) /\ wire'[j] = wire[j + 1]
      BY <1>1
    <3>2. i + 1 < j + 1
      BY <2>2, <2>3, <3>1
    <3> QED
      BY <3>2
  <2> QED
    BY <2>2, <2>3
<1>10. Attributed'
  BY <1>3, <1>5, <1>6 DEF Attributed, SamePort
<1>11. LiveCallIsFindable'
  BY <1>3 DEF LiveCallIsFindable
<1> QED
  BY <1>6, <1>7, <1>8, <1>9, <1>10, <1>11

LEMMA HousekeepingStep == ASSUME Inv, Housekeeping PROVE Inv'
<1>1. /\ UNCHANGED <<port, wire, live, asked, speaker, tracked, byMedia, stream, heard, tallied>>
      /\ sessions' \subseteq sessions /\ counted' = Trim
  BY DEF Housekeeping, tapVars, actuatorVars, ghosts
<1>2. counted' \subseteq counted /\ \A c \in counted : Known(c) => c \in counted'
  BY <1>1 DEF Trim
<1> QED
  BY <1>1, <1>2 DEF Inv, Types, PortsGiven, AnswersInOrder, Attributed, SamePort, CountedKnown,
     Known, LiveCallIsFindable

LEMMA CrashStep == ASSUME Inv, Crash PROVE Inv'
<1>1. /\ wire' = <<>> /\ tracked' = NotTracked /\ byMedia' = NoMedia /\ stream' = NoStreams
      /\ heard' = {} /\ sessions' = {} /\ counted' = {} /\ tallied' = {}
      /\ asked' = None /\ UNCHANGED <<port, live>>
  BY DEF Crash
<1>2. Types'
  BY <1>1 DEF Inv, Types, NotTracked, NoMedia, NoStreams
<1>3. PortsGiven' /\ AnswersInOrder' /\ CountedKnown' /\ LiveCallIsFindable'
  BY <1>1 DEF Inv, PortsGiven, AnswersInOrder, CountedKnown, LiveCallIsFindable
<1>4. Attributed'
  BY <1>1, SocketsDistinct DEF Attributed, NoMedia, NoStreams
<1> QED
  BY <1>2, <1>3, <1>4 DEF Inv

LEMMA InvStep == Inv /\ [Next]_vars => Inv'
<1> SUFFICES ASSUME Inv, [Next]_vars PROVE Inv'
  OBVIOUS
<1> USE DEF Outside, daemonVars, ghosts, actuatorVars
<1>1. ASSUME NEW c \in Calls, NEW t \in {"OK", "INVITE", "END"}, Signal(c, t) PROVE Inv'
  <2>1. c \in live /\ port[c] \in Ports
    BY <1>1 DEF Signal, Inv, PortsGiven
  <2> QED
    BY <1>1, <2>1, TrafficStep DEF Signal
<1>2. ASSUME NEW c \in Calls, Speak(c) PROVE Inv'
  <2>1. port[c] \in Ports
    BY <1>2 DEF Speak, Inv, Types
  <2> QED
    BY <1>2, <2>1, TrafficStep DEF Speak
<1>3. ASSUME NEW c \in Calls, Bye(c) PROVE Inv'
  <2>1. c \in live /\ port[c] \in Ports /\ live' \subseteq live /\ asked' = asked
    BY <1>3 DEF Bye, Actuator!Leave, Inv, PortsGiven
  <2> QED
    BY <1>3, <2>1, TrafficStep DEF Bye, Send
<1>4. ASSUME NEW c \in Calls, HungUp(c) PROVE Inv'
  <2>1. c \in live /\ port[c] \in Ports /\ live' \subseteq live /\ asked' = None
    BY <1>4 DEF HungUp, Actuator!Serve, Actuator!MayEnd, Inv, PortsGiven
  <2> QED
    BY <1>4, <2>1, TrafficStep DEF HungUp, Send
<1>5. CASE Reboot \/ NotHungUp \/ UNCHANGED vars
  <2>1. /\ UNCHANGED <<port, wire, tracked, byMedia, stream, heard, sessions, counted, tallied>>
        /\ live' \subseteq live /\ (asked' = None \/ UNCHANGED <<asked, speaker>>)
    BY <1>5 DEF Reboot, Actuator!Restart, NotHungUp, Actuator!ServeNobody, vars, tapVars
  <2> QED
    BY <2>1 DEF Inv, Types, PortsGiven, AnswersInOrder, Attributed, SamePort, CountedKnown, Known,
       LiveCallIsFindable
<1> QED
  BY <1>1, <1>2, <1>3, <1>4, <1>5, InviteStep, ReadSipStep, ReadRtpStep, HousekeepingStep, CrashStep
     DEF Next

LEMMA InvHolds == Spec => []Inv
  BY InvInit, InvStep, PTL DEF Spec

-----------------------------------------------------------------------------
\* A live call whose answer the tracker has read is the one its port maps to,
\* although calls share ports one after another, packets are read late and
\* expired calls are dropped at any packet (tap.py:385-396, 415-422).
THEOREM LiveCallIsFindableHolds == Spec => []LiveCallIsFindable
<1>1. Inv => LiveCallIsFindable
  BY DEF Inv
<1> QED
  BY InvHolds, <1>1, PTL

\* Trimming counted_calls never forgets a call that the tracker still knows
\* (phraseguardd.py:209-211, 301-308).
THEOREM CountedOnceHolds == Spec => []CountedOnce
<1>1. Inv => CountedOnce
  BY DEF Inv, CountedKnown, CountedOnce
<1> QED
  BY InvHolds, <1>1, PTL

\* A call is hung up for what was said on its own port, unless Asterisk has
\* given its channel name out again (actuator.py:75-78, tap.py:565-573).
THEOREM KillsTheSpeakerHolds == Spec => KillsTheSpeaker
<1>1. ASSUME Inv, NEW victim \in Calls, HungUp(victim)
      PROVE  \/ victim = speaker \/ port[victim] = port[speaker]
             \/ victim \in twice
  BY <1>1 DEF HungUp, Actuator!Serve, Actuator!MayEnd, Inv, Attributed, SamePort
<1>2. Inv =>
        [\A victim \in Calls : HungUp(victim) =>
            \/ victim = speaker \/ port[victim] = port[speaker]
            \/ victim \in twice]_vars
  BY <1>1
<1> QED
  BY InvHolds, <1>2, PTL DEF KillsTheSpeaker

\* The daemon uses the actuator as the actuator's promise allows: one request
\* at a time, each for a call, and none outstanding after a restart
\* (phraseguardd.py:253-285).
THEOREM UsesTheActuator == Spec => Actuator!Spec
<1>1. Init => Actuator!Init
  BY DEF Init
<1>2. Inv /\ Inv' /\ [Next]_vars => [Actuator!Next]_(Actuator!vars)
  <2> SUFFICES ASSUME Inv, Inv', [Next]_vars PROVE [Actuator!Next]_(Actuator!vars)
    OBVIOUS
  <2> USE DEF Actuator!Next, Actuator!vars, Outside, actuatorVars
  <2>1. ASSUME NEW c \in Calls, NEW p \in Ports, Invite(c, p) PROVE Actuator!Next
    BY <2>1 DEF Invite
  <2>2. ASSUME NEW c \in Calls, Bye(c) \/ HungUp(c) PROVE Actuator!Next
    BY <2>2 DEF Bye, HungUp
  <2>3. CASE ReadRtp
    <3>1. CASE UNCHANGED actuatorVars
      BY <3>1
    <3>2. CASE ~UNCHANGED actuatorVars
      <4>1. PICK c : Actuator!Ask(c)
        BY <2>3, <3>2 DEF ReadRtp, Quiet, Speech
      <4>2. c \in Calls
        <5>1. asked' = c /\ c # None
          BY <3>2, <4>1 DEF Actuator!Ask
        <5> QED
          BY <5>1 DEF Inv, Types
      <4> QED
        BY <4>1, <4>2
    <3> QED
      BY <3>1, <3>2
  <2>4. CASE Crash
    BY <2>4 DEF Crash, Actuator!ServeNobody
  <2>5. CASE Reboot \/ NotHungUp
    BY <2>5 DEF Reboot, NotHungUp
  <2>6. ASSUME \/ \E c \in Calls : Speak(c) \/ \E t \in {"OK", "INVITE", "END"} : Signal(c, t)
               \/ ReadSip \/ Housekeeping \/ UNCHANGED vars
        PROVE  UNCHANGED actuatorVars
    BY <2>6 DEF Speak, Signal, ReadSip, Housekeeping, vars
  <2> QED
    BY <2>1, <2>2, <2>3, <2>4, <2>5, <2>6 DEF Next
<1> QED
  BY InvHolds, <1>1, <1>2, PTL DEF Spec, Actuator!Spec
=============================================================================
