---------------------------- MODULE CustomerCall ----------------------------
(***************************************************************************)
(* A customer's call from admission to its last INVITE: Admission composed *)
(* with the choice of caller ID and with the gateway loop of               *)
(* [sbc-customer] (extensions.conf.tpl, from the label xfer_no to finish). *)
(* The choice of a DID is one step here; DidPool is the detail of it.      *)
(* FracTEL's proxies are the environment: each Dial() returns with any     *)
(* outcome app_dial can report.                                            *)
(***************************************************************************)
EXTENDS Admission, Sequences

CONSTANTS
    GwCount,      \* SBC_GW_COUNT
    MaxCpsGw,     \* SBC_MAX_CPS_GW
    MaxAttempts,  \* SBC_MAX_ATTEMPTS
    FastReject    \* SBC_FAST_REJECT_MS > 0

ASSUME GatewaysPositive == GwCount \in Nat /\ GwCount > 0
ASSUME AttemptsClamped == MaxAttempts \in 1 .. GwCount  \* render.sh clamps it
ASSUME GrantNat == MaxCpsGw \in Nat
ASSUME FastRejectBool == FastReject \in BOOLEAN

Gateways == 1 .. GwCount

\* What one Dial() tells the dialplan.  Every status that is neither
\* CONGESTION nor CHANUNAVAIL (ANSWER, BUSY, NOANSWER, CANCEL) is treated
\* alike; `slow` is SBC_DIAL_MS >= SBC_FAST_REJECT_MS, told apart only where
\* the dialplan looks at it.
Outcomes ==
    {o \in [status : {"FINAL", "CONGESTION", "CHANUNAVAIL"}, rang : BOOLEAN, slow : BOOLEAN] :
        /\ o.slow => o.status = "CHANUNAVAIL" /\ ~o.rang
        /\ o.status = "FINAL" => o.rang}
NoOutcome == [status |-> "NONE", rang |-> FALSE, slow |-> FALSE]

VARIABLES
    gwRotor,  \* GLOBAL(SBC_GW_ROT)
    leg,      \* where the outbound leg is
    gwrot,    \* SBC_GWROT
    idx,      \* SBC_GWIDX
    skip,     \* SBC_GWSKIP
    try,      \* SBC_TRY
    gwGroup,  \* GROUP(gwcps), <<gateway, second>>
    ring,     \* RINGTIME_MS is set and positive
    reason,   \* CDR(reject_reason)
    drew,     \* history: live calls that consumed a DID's daily allowance
    sent,     \* history: the gateways INVITEs went to, in order
    last      \* history: what the last Dial() really met

dialVars == <<gwRotor, leg, gwrot, idx, skip, try, gwGroup, ring, reason, drew, sent, last>>
vars == <<admissionVars, dialVars>>

Legs == {"none", "dial", "set_rotor", "gwloop", "in_gwcps", "dialling",
         "finished", "declined", "rejected", "gone"}

Goto(c, from, to) == leg[c] = from /\ leg' = [leg EXCEPT ![c] = to]
Reject(c, from, why) == Goto(c, from, "rejected") /\ reason' = [reason EXCEPT ![c] = why]

InGwCps(g, s) == {c \in Calls : gwGroup[c] = <<g, s>>}
NextGateway(g) == (g % GwCount) + 1

Init ==
    /\ AdmissionInit
    /\ gwRotor = 0
    /\ leg = [c \in Calls |-> "none"]
    /\ gwrot = [c \in Calls |-> 0]
    /\ idx = [c \in Calls |-> 1]
    /\ skip = [c \in Calls |-> 0]
    /\ try = [c \in Calls |-> 0]
    /\ gwGroup = [c \in Calls |-> NoGroup]
    /\ ring = [c \in Calls |-> FALSE]
    /\ reason = [c \in Calls |-> "none"]
    /\ drew = {}
    /\ sent = [c \in Calls |-> <<>>]
    /\ last = [c \in Calls |-> NoOutcome]

-----------------------------------------------------------------------------
\* An admitted call is a transfer leg, which keeps its caller ID, or finds no
\* DID, or takes one, which then proves fit to assert or not.
Draw(c) ==
    /\ step[c] = "admitted"
    /\ \/ Goto(c, "none", "dial") /\ UNCHANGED <<drew, reason>>
       \/ Goto(c, "none", "dial") /\ drew' = drew \cup {c} /\ UNCHANGED reason
       \/ Reject(c, "none", "NO_DID_AVAILABLE") /\ UNCHANGED drew
       \/ Reject(c, "none", "BAD_SELECTED_DID") /\ drew' = drew \cup {c}
    /\ UNCHANGED <<admissionVars, gwRotor, gwrot, idx, skip, try, gwGroup, ring, sent, last>>

\* The gateway rotor: one priority reads the global, the next writes it.
ReadGwRotor(c) ==
    /\ Goto(c, "dial", "set_rotor")
    /\ try' = [try EXCEPT ![c] = 0]
    /\ gwrot' = [gwrot EXCEPT ![c] = gwRotor + 1]
    /\ UNCHANGED <<admissionVars, gwRotor, idx, skip, gwGroup, ring, reason, drew, sent, last>>

SetGwRotor(c) ==
    /\ Goto(c, "set_rotor", "gwloop")
    /\ gwRotor' = gwrot[c]
    /\ idx' = [idx EXCEPT ![c] = (gwrot[c] % GwCount) + 1]
    /\ skip' = [skip EXCEPT ![c] = 0]
    /\ UNCHANGED <<admissionVars, gwrot, try, gwGroup, ring, reason, drew, sent, last>>

\* Joining a gateway's group leaves the previous one: a channel is in one
\* group of the category.  The second is the one read at admission.
SetGwGroup(c) ==
    /\ Goto(c, "gwloop", "in_gwcps")
    /\ gwGroup' = [gwGroup EXCEPT ![c] = <<idx[c], sec[c]>>]
    /\ UNCHANGED <<admissionVars, gwRotor, gwrot, idx, skip, try, ring, reason, drew, sent, last>>

\* Mutant: RINGTIME_MS is not cleared before the next Dial().
GatewayOkStaleRing(c) ==
    /\ Goto(c, "in_gwcps", "dialling")
    /\ Cardinality(InGwCps(idx[c], sec[c])) <= MaxCpsGw
    /\ sent' = [sent EXCEPT ![c] = Append(@, idx[c])]
    /\ UNCHANGED <<admissionVars, gwRotor, gwrot, idx, skip, try, gwGroup, ring, reason, drew, last>>

\* Mutant: the count is compared with the global limit, not the gateway's.
GatewayOkGlobalLimit(c) ==
    /\ Goto(c, "in_gwcps", "dialling")
    /\ Cardinality(InGwCps(idx[c], sec[c])) <= MaxCps
    /\ ring' = [ring EXCEPT ![c] = FALSE]
    /\ sent' = [sent EXCEPT ![c] = Append(@, idx[c])]
    /\ UNCHANGED <<admissionVars, gwRotor, gwrot, idx, skip, try, gwGroup, reason, drew, last>>

\* The gateway is within its grant: the ring time of an earlier attempt is
\* cleared and the INVITE goes out.
GatewayOk(c) ==
    /\ Goto(c, "in_gwcps", "dialling")
    /\ Cardinality(InGwCps(idx[c], sec[c])) <= MaxCpsGw
    /\ ring' = [ring EXCEPT ![c] = FALSE]
    /\ sent' = [sent EXCEPT ![c] = Append(@, idx[c])]
    /\ UNCHANGED <<admissionVars, gwRotor, gwrot, idx, skip, try, gwGroup, reason, drew, last>>

\* Mutant: one more skip than there are gateways.
GatewayBusyOneMore(c) ==
    /\ leg[c] = "in_gwcps"
    /\ Cardinality(InGwCps(idx[c], sec[c])) > MaxCpsGw
    /\ skip' = [skip EXCEPT ![c] = @ + 1]
    /\ IF skip'[c] > GwCount
       THEN Reject(c, "in_gwcps", "CPS_LIMIT") /\ UNCHANGED idx
       ELSE /\ Goto(c, "in_gwcps", "gwloop")
            /\ idx' = [idx EXCEPT ![c] = NextGateway(@)]
            /\ UNCHANGED reason
    /\ UNCHANGED <<admissionVars, gwRotor, gwrot, try, gwGroup, ring, drew, sent, last>>

\* Mutant: skipped gateways are not counted.
GatewayBusyUncounted(c) ==
    /\ Goto(c, "in_gwcps", "gwloop")
    /\ Cardinality(InGwCps(idx[c], sec[c])) > MaxCpsGw
    /\ idx' = [idx EXCEPT ![c] = NextGateway(@)]
    /\ UNCHANGED <<admissionVars, gwRotor, gwrot, skip, try, gwGroup, ring, reason, drew, sent, last>>

\* A gateway at its limit is skipped, the whole ring at its limit refuses.
GatewayBusy(c) ==
    /\ leg[c] = "in_gwcps"
    /\ Cardinality(InGwCps(idx[c], sec[c])) > MaxCpsGw
    /\ skip' = [skip EXCEPT ![c] = @ + 1]
    /\ IF skip'[c] >= GwCount
       THEN Reject(c, "in_gwcps", "CPS_LIMIT") /\ UNCHANGED idx
       ELSE /\ Goto(c, "in_gwcps", "gwloop")
            /\ idx' = [idx EXCEPT ![c] = NextGateway(@)]
            /\ UNCHANGED reason
    /\ UNCHANGED <<admissionVars, gwRotor, gwrot, try, gwGroup, ring, drew, sent, last>>

\* Mutant: the attempts are not counted.
TryNextUncounted(c) ==
    /\ Goto(c, "dialling", "gwloop")
    /\ idx' = [idx EXCEPT ![c] = NextGateway(@)]
    /\ UNCHANGED <<try, reason>>

\* Label gwnext: SBC_TRY counts the INVITEs sent.
TryNext(c) ==
    /\ try' = [try EXCEPT ![c] = @ + 1]
    /\ IF try'[c] >= MaxAttempts
       THEN Reject(c, "dialling", "ALL_GATEWAYS_FAILED") /\ UNCHANGED idx
       ELSE /\ Goto(c, "dialling", "gwloop")
            /\ idx' = [idx EXCEPT ![c] = NextGateway(@)]
            /\ UNCHANGED reason

\* Mutant: every CHANUNAVAIL fails over.
DialReturnsAlwaysNext(c, o) ==
    LET rang == ring[c] \/ o.rang IN
    /\ leg[c] = "dialling"
    /\ ring' = [ring EXCEPT ![c] = rang]
    /\ last' = [last EXCEPT ![c] = o]
    /\ IF o.status = "FINAL" THEN Goto(c, "dialling", "finished") /\ UNCHANGED <<try, idx, reason>>
                             ELSE TryNext(c)
    /\ UNCHANGED <<admissionVars, gwRotor, gwrot, skip, gwGroup, drew, sent>>

\* Dial() sets RINGTIME_MS if the far end rang and otherwise leaves what was
\* there; then the failover classification.
DialReturns(c, o) ==
    LET rang == ring[c] \/ o.rang IN
    /\ leg[c] = "dialling"
    /\ ring' = [ring EXCEPT ![c] = rang]
    /\ last' = [last EXCEPT ![c] = o]
    /\ CASE o.status = "CONGESTION" -> TryNext(c)
         [] o.status = "FINAL" ->
              Goto(c, "dialling", "finished") /\ UNCHANGED <<try, idx, reason>>
         [] o.status = "CHANUNAVAIL" /\ (rang \/ (FastReject /\ o.slow)) ->
              Goto(c, "dialling", "declined") /\ UNCHANGED <<try, idx, reason>>
         [] OTHER -> TryNext(c)
    /\ UNCHANGED <<admissionVars, gwRotor, gwrot, skip, gwGroup, drew, sent>>

\* The channel and its variables are destroyed, after the dialplan's Hangup()
\* or a cancel; the histories are kept while the channel lives.
EndCall(c) ==
    /\ End(c)
    /\ leg' = [leg EXCEPT ![c] = "gone"]
    /\ gwGroup' = [gwGroup EXCEPT ![c] = NoGroup]
    /\ gwrot' = [gwrot EXCEPT ![c] = 0]
    /\ idx' = [idx EXCEPT ![c] = 1]
    /\ skip' = [skip EXCEPT ![c] = 0]
    /\ try' = [try EXCEPT ![c] = 0]
    /\ ring' = [ring EXCEPT ![c] = FALSE]
    /\ reason' = [reason EXCEPT ![c] = "none"]
    /\ drew' = drew \ {c}
    /\ sent' = [sent EXCEPT ![c] = <<>>]
    /\ last' = [last EXCEPT ![c] = NoOutcome]
    /\ UNCHANGED gwRotor

DialStep(c) ==
    \/ Draw(c) \/ ReadGwRotor(c) \/ SetGwRotor(c) \/ SetGwGroup(c)
    \/ GatewayOk(c) \/ GatewayBusy(c) \/ \E o \in Outcomes : DialReturns(c, o)

Next ==
    \/ \E c \in Calls : \/ Admit(c) /\ UNCHANGED dialVars
                        \/ DialStep(c) \/ EndCall(c)
    \/ Tick /\ UNCHANGED dialVars

Spec == Init /\ [][Next]_vars

\* The dialplan thread runs on, and Dial() returns within SBC_DIAL_TIMEOUT or
\* when the answered call ends.
FairSpec == Spec /\ \A c \in Calls : WF_vars(DialStep(c))

-----------------------------------------------------------------------------
(* Properties.                                                             *)

TypeOK ==
    /\ AdmissionTypeOK
    /\ gwRotor \in Nat
    /\ leg \in [Calls -> Legs]
    /\ gwrot \in [Calls -> Nat]
    /\ idx \in [Calls -> Gateways]
    /\ skip \in [Calls -> 0 .. GwCount]
    /\ try \in [Calls -> 0 .. MaxAttempts]
    /\ gwGroup \in [Calls -> (Gateways \X Nat) \cup {NoGroup}]
    /\ ring \in [Calls -> BOOLEAN]
    /\ reason \in [Calls -> {"none", "NO_DID_AVAILABLE", "BAD_SELECTED_DID", "CPS_LIMIT",
                            "ALL_GATEWAYS_FAILED"}]
    /\ drew \in SUBSET Calls
    /\ sent \in [Calls -> Seq(Gateways)]
    /\ last \in [Calls -> Outcomes \cup {NoOutcome}]

Dialling(g, s) == {c \in InGwCps(g, s) : leg[c] = "dialling"}

\* At most MaxCpsGw INVITEs charged to one gateway and one second are in
\* progress, although channels join, count and leave its group at any moment
\* and move to the next gateway on failover (extensions.conf.tpl:478-505).
GatewayGrant ==
    \A g \in Gateways, s \in 0 .. clock : Cardinality(Dialling(g, s)) <= MaxCpsGw

\* A call sends at most SBC_MAX_ATTEMPTS INVITEs, skipped gateways not
\* counted, and is refused as ALL_GATEWAYS_FAILED only after sending all of
\* them (extensions.conf.tpl:613-622).
InvitesCounted ==
    \A c \in Calls :
        /\ Len(sent[c]) <= MaxAttempts
        /\ reason[c] = "ALL_GATEWAYS_FAILED" => Len(sent[c]) = MaxAttempts

\* A call is given up as declined only if the attempt just made rang, or was
\* slow with the fast-reject test on: an earlier attempt's ring never counts
\* (extensions.conf.tpl:511-517, 579-608).
DeclineIsThisAttempts ==
    \A c \in Calls : leg[c] = "declined" =>
        last[c].rang \/ (FastReject /\ last[c].slow)

\* A call is redialled only after what the dialplan takes for a failure of the
\* trunk: a CHANUNAVAIL that neither rang nor was slow, or any CONGESTION; never
\* after an answer, a busy or a no-answer (extensions.conf.tpl:555-608).  The
\* CONGESTION may be that of a call that rang, which is dialled again, though
\* extensions.conf.tpl:23-24 says that failover is "refused after ringing".
RedialledOnTrunkFailure ==
    [][\A c \in Calls :
        Len(sent'[c]) > Len(sent[c]) /\ sent[c] # <<>> =>
            \/ last[c].status = "CONGESTION"
            \/ /\ last[c].status = "CHANUNAVAIL" /\ ~last[c].rang
               /\ ~(FastReject /\ last[c].slow)]_vars

\* Skipping and failing over end: the loop over the gateways comes to an
\* INVITE's final answer or to a refusal (extensions.conf.tpl:493-497).
DialEnds ==
    \A c \in Calls :
        leg[c] = "gwloop" ~> leg[c] \in {"finished", "declined", "rejected", "gone"}

-----------------------------------------------------------------------------
(* What the comments say, and the code does not do.                        *)

\* extensions.conf.tpl:28-29 "a throttled call never burns a number's daily
\* allowance": a call refused for CPS has consumed no DID.
ThrottledCallKeepsAllowance ==
    \A c \in Calls : reason[c] = "CPS_LIMIT" => c \notin drew
=============================================================================
