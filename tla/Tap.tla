-------------------------------- MODULE Tap --------------------------------
(***************************************************************************)
(* phraseguard/tap.py: what the daemon makes of the packets it sees.       *)
(* SipTracker keeps the calls and maps media sockets to them, RtpDemux     *)
(* keeps the streams and attributes each to a call.                        *)
(*                                                                         *)
(* Time is abstract: an expiry that time allows may come at any packet.    *)
(* A call sends its RTP from one socket and one SSRC of its own to the SBC *)
(* port it was given, so its Call-ID also stands for its customer socket   *)
(* and for its stream's key.                                               *)
(***************************************************************************)
EXTENDS Integers, Sequences

CONSTANTS
    Calls,    \* SIP calls of the customer, by Call-ID
    Ports,    \* the SBC's RTP ports
    WireCap,  \* bound of this model: packets the capture holds back
    None

ASSUME SocketsDistinct ==
    Calls \cap Ports = {} /\ {None, "no"} \cap (Calls \cup Ports) = {} /\ None # "no"

VARIABLES
    port,      \* the SBC port each call was given
    wire,      \* packets captured and not read yet; the others were dropped
    tracked,   \* SipTracker.calls: "no", "yes", or "ended" (ended is set)
    byMedia,   \* SipTracker.by_media, by SBC port and by customer socket
    stream,    \* RtpDemux.streams: "no", None (unattributed) or its call
    heard      \* history: tracked calls whose SDP answer was read

tapVars == <<tracked, byMedia, stream, heard>>

Sockets == Ports \cup Calls
Packets == [type : {"INVITE", "OK", "END", "RTP"}, call : Calls]
Packet(t, c) == [type |-> t, call |-> c]
NotTracked == [c \in Calls |-> "no"]
NoMedia == [s \in Sockets |-> None]
NoStreams == [c \in Calls |-> "no"]

TapInit ==
    /\ port = [c \in Calls |-> None] /\ wire = <<>>
    /\ tracked = NotTracked /\ byMedia = NoMedia /\ stream = NoStreams
    /\ heard = {}

\* A packet on the wire reaches the capture or is dropped before it.
Capture(p) == Len(wire) < WireCap /\ wire' = Append(wire, p)
Send(p) == UNCHANGED wire \/ Capture(p)

\* The next packet, when it is one of these.
Read(types) ==
    /\ wire # <<>> /\ Head(wire).type \in types
    /\ wire' = Tail(wire)

Known(c) == tracked[c] # "no"

-----------------------------------------------------------------------------
(* SipTracker.feed.                                                        *)

\* Mutant: an expired call takes its sockets with it, whoever has them now.
DropMediaOfCall(media, G) ==
    [s \in Sockets |-> IF s \in G \cup {port[g] : g \in G} THEN None ELSE media[s]]

\* A call that is dropped takes the sockets that still map to it.
DropMedia(media, G) == [s \in Sockets |-> IF media[s] \in G THEN None ELSE media[s]]

\* _gc, at the end of feed.
Expire(calls, media, G) ==
    /\ tracked' = [c \in Calls |-> IF c \in G THEN "no" ELSE calls[c]]
    /\ byMedia' = DropMedia(media, G)

\* Calls it may drop: those that ended before this packet, two minutes ago.
\* No call lasts expiry_s, two hours, here.
Ended == {c \in Calls : tracked[c] = "ended"}

\* An INVITE, the first or one within the call, carries the customer's SDP.
FeedInvite(c, G) ==
    /\ Expire(IF Known(c) THEN tracked ELSE [tracked EXCEPT ![c] = "yes"],
              [byMedia EXCEPT ![c] = c], G)
    /\ heard' = heard \ G

\* Our answer carries the SBC port.  Without an INVITE it is an orphan.
FeedOk(c, G) ==
    IF Known(c)
    THEN /\ Expire(tracked, [byMedia EXCEPT ![port[c]] = c], G)
         /\ heard' = (heard \cup {c}) \ G
    ELSE G = {} /\ UNCHANGED <<tracked, byMedia, heard>>

\* A BYE, or a 4xx to 6xx answer to any request of the call.
FeedEnd(c, G) ==
    IF Known(c)
    THEN /\ Expire([tracked EXCEPT ![c] = "ended"], byMedia, G)
         /\ heard' = heard \ G
    ELSE G = {} /\ UNCHANGED <<tracked, byMedia, heard>>

Feed(p, G) ==
    /\ \/ p.type = "INVITE" /\ FeedInvite(p.call, G)
       \/ p.type = "OK" /\ FeedOk(p.call, G)
       \/ p.type = "END" /\ FeedEnd(p.call, G)
    /\ UNCHANGED stream

-----------------------------------------------------------------------------
(* RtpDemux.feed.                                                          *)

CallForMedia(s) ==
    IF byMedia[s] # None /\ Known(byMedia[s]) THEN byMedia[s] ELSE None

\* Mutant: by the customer's address alone, which its calls share.
AttributionByAddress(c) ==
    IF \E d \in Calls : Known(d) THEN CHOOSE d \in Calls : Known(d) ELSE None

\* Our port first, the customer's socket second.
Attribution(c) ==
    IF CallForMedia(port[c]) # None THEN CallForMedia(port[c]) ELSE CallForMedia(c)

\* Streams D have been idle and are closed first; then the packet's own
\* stream is started if need be, and attributed if it is not.
FeedRtp(c, D) ==
    /\ stream' = [k \in Calls |->
           IF k # c THEN IF k \in D THEN "no" ELSE stream[k]
           ELSE IF k \notin D /\ stream[c] \in Calls THEN stream[c]
           ELSE Attribution(c)]
    /\ UNCHANGED <<tracked, byMedia, heard>>

\* The call Tap.run hands to on_audio with a stream: None for a stream without
\* one, and for one whose call has expired.
CallOf(s) == IF s \in Calls /\ Known(s) THEN s ELSE None

=============================================================================
