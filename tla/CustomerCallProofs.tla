------------------------- MODULE CustomerCallProofs -------------------------
(***************************************************************************)
(* Proofs about Admission and CustomerCall for every number of calls and   *)
(* gateways, every set of endpoints and every limit: first the throttles   *)
(* alone, then the calls that go through them.                             *)
(***************************************************************************)
EXTENDS CustomerCall, FiniteSetTheorems, TLAPS

\* The second of a call in the CPS group is its SBC_SEC, and its endpoint's
\* group is its own.
GroupShape ==
    \A c \in Calls :
        /\ sec[c] <= clock
        /\ step[c] \in {"in_cps", "cps_ok", "in_cust", "admitted"} => cpsGroup[c] = sec[c]
        /\ step[c] \in {"in_cust", "admitted"} => custGroup[c] = ep[c]
        /\ cpsGroup[c] # NoGroup => step[c] # "idle"

Shape == AdmissionTypeOK /\ GroupShape

LEMMA ShapeInit == AdmissionInit => Shape
  BY NoGroupFresh DEF AdmissionInit, Shape, AdmissionTypeOK, GroupShape, Steps

LEMMA ShapeStep == Shape /\ [AdmissionNext]_admissionVars => Shape'
<1> SUFFICES ASSUME Shape, [AdmissionNext]_admissionVars PROVE Shape'
  OBVIOUS
<1> USE NoGroupFresh, ClockNat DEF Shape, AdmissionTypeOK, GroupShape, Steps, Advance
<1>1. ASSUME NEW c \in Calls, Arrive(c) PROVE Shape'
  BY <1>1 DEF Arrive
<1>2. ASSUME NEW c \in Calls, ReadClock(c) PROVE Shape'
  BY <1>2 DEF ReadClock
<1>3. ASSUME NEW c \in Calls, SetCps(c) PROVE Shape'
  BY <1>3 DEF SetCps
<1>4. ASSUME NEW c \in Calls, CountCps(c) PROVE Shape'
  BY <1>4 DEF CountCps
<1>5. ASSUME NEW c \in Calls, SetCust(c) PROVE Shape'
  BY <1>5 DEF SetCust
<1>6. ASSUME NEW c \in Calls, CountCust(c) PROVE Shape'
  BY <1>6 DEF CountCust
<1>7. ASSUME NEW c \in Calls, End(c) PROVE Shape'
  BY <1>7 DEF End
<1>8. CASE Tick
  BY <1>8 DEF Tick
<1>9. CASE UNCHANGED admissionVars
  BY <1>9 DEF admissionVars
<1> QED
  BY <1>1, <1>2, <1>3, <1>4, <1>5, <1>6, <1>7, <1>8, <1>9 DEF AdmissionNext, Admit

\* A call that passes a check joins a subset of the group it counted.
LEMMA PassersWithin ==
    ASSUME NEW S, NEW T \in SUBSET Calls, S \subseteq T, NEW n \in Nat,
           ~(Cardinality(T) > n)
    PROVE  Cardinality(S) <= n
<1>1. IsFiniteSet(T)
  BY CallsFinite, FS_Subset
<1> QED
  BY <1>1, FS_Subset, FS_CardinalityType

\* The set of those past a check only shrinks in any other step.
LEMMA FewerPassers ==
    ASSUME NEW T \in SUBSET Calls, NEW S, S \subseteq T, NEW n \in Nat, Cardinality(T) <= n
    PROVE  Cardinality(S) <= n
  BY CallsFinite, FS_Subset, FS_CardinalityType

LEMMA CpsStep == Shape /\ Shape' /\ CpsCap /\ [AdmissionNext]_admissionVars => CpsCap'
<1> SUFFICES ASSUME Shape, Shape', CpsCap, [AdmissionNext]_admissionVars, NEW s \in 0 .. clock'
             PROVE  Cardinality(PassedCps(s)') <= MaxCps
  BY DEF CpsCap, PassedCps, InCps
<1> DEFINE same == PassedCps(s)' \subseteq PassedCps(s)
<1>1. PassedCps(s) \in SUBSET Calls /\ PassedCps(s)' \in SUBSET Calls /\ MaxCps \in Nat
  BY LimitsNat DEF PassedCps, InCps
<1>2. CASE s <= clock /\ same
  BY <1>1, <1>2, FewerPassers DEF CpsCap, Shape, AdmissionTypeOK
<1>3. ASSUME NEW c \in Calls, CountCps(c), s <= clock PROVE same \/ Cardinality(PassedCps(s)') <= MaxCps
  <2>1. CASE sec[c] = s /\ ~(Cardinality(InCps(s)) > MaxCps)
    <3>1. PassedCps(s)' \subseteq InCps(s) /\ InCps(s) \in SUBSET Calls
      BY <1>3 DEF CountCps, PassedCps, InCps
    <3> QED
      BY <1>1, <2>1, <3>1, PassersWithin
  <2>2. CASE sec[c] # s \/ Cardinality(InCps(s)) > MaxCps
    BY <1>3, <2>2 DEF CountCps, Advance, PassedCps, InCps, Shape, AdmissionTypeOK, GroupShape
  <2> QED
    BY <2>1, <2>2
<1>4. ASSUME NEW c \in Calls,
             Arrive(c) \/ ReadClock(c) \/ SetCps(c) \/ SetCust(c) \/ CountCust(c) \/ End(c)
      PROVE  same
  BY <1>4, NoGroupFresh DEF Arrive, ReadClock, SetCps, SetCust, CountCust, End, Advance,
     PassedCps, InCps, Shape, AdmissionTypeOK, GroupShape
<1>5. ASSUME Tick PROVE same
  BY <1>5 DEF Tick, PassedCps, InCps
<1>6. ASSUME UNCHANGED admissionVars PROVE same
  BY <1>6 DEF admissionVars, PassedCps, InCps
<1>7. CASE s <= clock
  BY <1>2, <1>3, <1>4, <1>5, <1>6, <1>7 DEF AdmissionNext, Admit
<1>8. CASE ~(s <= clock)
  <2>1. PassedCps(s)' = {}
    <3>1. Tick
      BY <1>8 DEF AdmissionNext, Admit, Arrive, ReadClock, SetCps, CountCps, SetCust, CountCust,
         End, admissionVars, Shape, AdmissionTypeOK
    <3>2. \A c \in Calls : step[c] \in {"cps_ok", "in_cust", "admitted"} => cpsGroup[c] # s
      BY <1>8 DEF Shape, GroupShape, AdmissionTypeOK
    <3> QED
      BY <3>1, <3>2 DEF Tick, PassedCps, InCps
  <2> QED
    BY <1>1, <2>1, FS_EmptySet
<1> QED
  BY <1>7, <1>8

LEMMA CustStep == Shape /\ ConcurrencyCap /\ [AdmissionNext]_admissionVars => ConcurrencyCap'
<1> SUFFICES ASSUME Shape, ConcurrencyCap, [AdmissionNext]_admissionVars, NEW e \in Endpoints
             PROVE  Cardinality(Admitted(e)') <= MaxConcurrent
  BY DEF ConcurrencyCap, Admitted, InCust
<1> DEFINE same == Admitted(e)' \subseteq Admitted(e)
<1>1. Admitted(e) \in SUBSET Calls /\ Admitted(e)' \in SUBSET Calls /\ MaxConcurrent \in Nat
  BY LimitsNat DEF Admitted, InCust
<1>2. CASE same
  BY <1>1, <1>2, FewerPassers DEF ConcurrencyCap
<1>3. ASSUME NEW c \in Calls, CountCust(c) PROVE same \/ Cardinality(Admitted(e)') <= MaxConcurrent
  <2>1. CASE ep[c] = e /\ ~(Cardinality(InCust(e)) > MaxConcurrent)
    <3>1. Admitted(e)' \subseteq InCust(e) /\ InCust(e) \in SUBSET Calls
      BY <1>3 DEF CountCust, Admitted, InCust
    <3> QED
      BY <1>1, <2>1, <3>1, PassersWithin
  <2>2. CASE ep[c] # e \/ Cardinality(InCust(e)) > MaxConcurrent
    BY <1>3, <2>2 DEF CountCust, Advance, Admitted, InCust, Shape, AdmissionTypeOK, GroupShape
  <2> QED
    BY <2>1, <2>2
<1>4. ASSUME NEW c \in Calls,
             Arrive(c) \/ ReadClock(c) \/ SetCps(c) \/ CountCps(c) \/ SetCust(c) \/ End(c)
      PROVE  same
  BY <1>4 DEF Arrive, ReadClock, SetCps, CountCps, SetCust, End, Advance,
     Admitted, InCust, Shape, AdmissionTypeOK
<1>5. ASSUME Tick \/ UNCHANGED admissionVars PROVE same
  BY <1>5 DEF Tick, admissionVars, Admitted, InCust
<1> QED
  BY <1>2, <1>3, <1>4, <1>5 DEF AdmissionNext, Admit

\* The throttles keep their types.
THEOREM AdmissionTypeCorrect == AdmissionSpec => []AdmissionTypeOK
<1>1. Shape => AdmissionTypeOK
  BY DEF Shape
<1> QED
  BY ShapeInit, ShapeStep, <1>1, PTL DEF AdmissionSpec

\* Whatever the number of calls and the order of their group operations,
\* at most MaxCps calls of one second that are still up passed the check.
THEOREM CpsCapHolds == AdmissionSpec => []CpsCap
<1>1. AdmissionInit => CpsCap
  <2>1. AdmissionInit => \A s \in 0 .. clock : PassedCps(s) = {}
    BY NoGroupFresh DEF AdmissionInit, PassedCps, InCps
  <2> QED
    BY <2>1, FS_EmptySet, LimitsNat DEF CpsCap
<1> QED
  BY ShapeInit, ShapeStep, CpsStep, <1>1, PTL DEF AdmissionSpec

\* And no endpoint has more than MaxConcurrent admitted calls up.
THEOREM ConcurrencyCapHolds == AdmissionSpec => []ConcurrencyCap
<1>1. AdmissionInit => ConcurrencyCap
  <2>1. AdmissionInit => \A e \in Endpoints : Admitted(e) = {}
    BY NoGroupFresh DEF AdmissionInit, Admitted, InCust
  <2> QED
    BY <2>1, FS_EmptySet, LimitsNat DEF ConcurrencyCap
<1> QED
  BY ShapeInit, ShapeStep, CustStep, <1>1, PTL DEF AdmissionSpec
-----------------------------------------------------------------------------
(* The calls.                                                              *)

\* Every step of a call is a step of the throttles or leaves them alone.
LEMMA AdmissionSimulated == [Next]_vars => [AdmissionNext]_admissionVars
<1> SUFFICES ASSUME [Next]_vars PROVE [AdmissionNext]_admissionVars
  OBVIOUS
<1>1. ASSUME NEW c \in Calls, DialStep(c) PROVE UNCHANGED admissionVars
  BY <1>1 DEF DialStep, Draw, ReadGwRotor, SetGwRotor, SetGwGroup, GatewayOk, GatewayBusy,
     DialReturns
<1>2. ASSUME NEW c \in Calls, EndCall(c) PROVE End(c)
  BY <1>2 DEF EndCall
<1> QED
  BY <1>1, <1>2 DEF Next, AdmissionNext, vars

\* The composition keeps both throttles' promises: the specification of a call
\* implements that of admission (extensions.conf.tpl:304-335).
THEOREM CallImplementsAdmission == Spec => AdmissionSpec
<1>1. Init => AdmissionInit
  BY DEF Init
<1> QED
  BY <1>1, AdmissionSimulated, PTL DEF Spec, AdmissionSpec

\* However many calls are up and whatever the gateways do, an endpoint has at
\* most MaxConcurrent admitted calls (extensions.conf.tpl:327-332).
THEOREM CallKeepsConcurrencyCap == Spec => []ConcurrencyCap
  BY CallImplementsAdmission, ConcurrencyCapHolds, PTL

-----------------------------------------------------------------------------
(***************************************************************************)
(* One call's way through the gateway loop.                                *)
(***************************************************************************)

\* What the dialplan takes for a refusal of the trunk, the only outcome after
\* which a call is redialled.
TrunkFailed(o) ==
    \/ o.status = "CONGESTION"
    \/ o.status = "CHANUNAVAIL" /\ ~o.rang /\ ~(FastReject /\ o.slow)

\* A call has a leg only once it is admitted.  SBC_TRY is the number of INVITEs
\* whose outcome is known.  In the group count and in Dial() the call is in the
\* group of its gateway and second; during Dial() no ring is left over; and the
\* call is in the loop for a second time only after the trunk failed.
LegInv ==
    \A c \in Calls :
        /\ leg[c] # "none" => step[c] \in {"admitted", "gone"}
        /\ leg[c] \in {"none", "dial", "set_rotor"} => sent[c] = <<>> /\ try[c] = 0
        /\ leg[c] \in {"gwloop", "in_gwcps"} =>
              /\ Len(sent[c]) = try[c] /\ try[c] < MaxAttempts /\ skip[c] < GwCount
              /\ sent[c] # <<>> => TrunkFailed(last[c])
        /\ leg[c] = "dialling" =>
              /\ Len(sent[c]) = try[c] + 1 /\ try[c] < MaxAttempts /\ skip[c] < GwCount
              /\ ~ring[c]
        /\ leg[c] \in {"finished", "declined"} => Len(sent[c]) = try[c] + 1 /\ try[c] < MaxAttempts
        /\ leg[c] \in {"rejected", "gone"} => Len(sent[c]) = try[c]
        /\ leg[c] \in {"in_gwcps", "dialling"} => gwGroup[c] = <<idx[c], sec[c]>>
        /\ reason[c] # "none" => leg[c] = "rejected"
        /\ reason[c] = "ALL_GATEWAYS_FAILED" => try[c] = MaxAttempts
        /\ leg[c] = "declined" => last[c].rang \/ (FastReject /\ last[c].slow)

CallInv == TypeOK /\ GroupShape /\ LegInv

LEMMA NextGatewayInRing ==
    ASSUME NEW g \in Gateways PROVE NextGateway(g) \in Gateways
<1>1. g % GwCount \in 0 .. GwCount - 1
  BY GatewaysPositive DEF Gateways
<1> QED
  BY <1>1, GatewaysPositive DEF NextGateway, Gateways

LEMMA CallInvInit == Init => CallInv
<1> SUFFICES ASSUME Init PROVE CallInv
  OBVIOUS
<1>1. AdmissionTypeOK /\ GroupShape
  BY ShapeInit DEF Init, Shape
<1>2. 1 \in Gateways /\ 0 \in 0 .. GwCount /\ 0 \in 0 .. MaxAttempts
  BY GatewaysPositive, AttemptsClamped DEF Gateways
<1>3. TypeOK
  BY <1>1, <1>2 DEF Init, TypeOK, Legs
<1>4. LegInv
  BY DEF Init, LegInv
<1> QED
  BY <1>1, <1>3, <1>4 DEF CallInv

\* Admission and the clock leave the legs alone, and an admitted call's second.
LEMMA AdmissionKeepsLegs ==
    ASSUME CallInv, UNCHANGED dialVars,
           Tick \/ (\E c \in Calls : Admit(c)) \/ UNCHANGED admissionVars
    PROVE  LegInv'
<1> USE DEF CallInv, TypeOK, LegInv, dialVars, AdmissionTypeOK, Advance
<1>1. CASE Tick \/ UNCHANGED admissionVars
  BY <1>1 DEF Tick, admissionVars
<1>2. ASSUME NEW c \in Calls, Admit(c) PROVE LegInv'
  <2>1. leg[c] = "none" /\ step' = [step EXCEPT ![c] = step'[c]]
        /\ \A d \in Calls \ {c} : sec'[d] = sec[d]
    BY <1>2 DEF Admit, Arrive, ReadClock, SetCps, CountCps, SetCust, CountCust
  <2> QED
    BY <2>1
<1> QED
  BY <1>1, <1>2

LEMMA AdmissionKeepsTypes ==
    ASSUME CallInv, [Next]_vars PROVE AdmissionTypeOK' /\ GroupShape'
  BY ShapeStep, AdmissionSimulated DEF CallInv, TypeOK, Shape

LEMMA DialKeeps ==
    ASSUME CallInv, AdmissionTypeOK', NEW c \in Calls, DialStep(c) \/ EndCall(c)
    PROVE  TypeOK' /\ LegInv'
<1> USE GatewaysPositive, AttemptsClamped, NextGatewayInRing
    DEF CallInv, TypeOK, LegInv, Legs, Goto, Reject
<1>1. CASE Draw(c)
  <2>1. /\ leg[c] = "none" /\ step[c] = "admitted"
        /\ UNCHANGED <<admissionVars, gwRotor, gwrot, idx, skip, try, gwGroup, ring, sent, last>>
        /\ drew' \in SUBSET Calls
    BY <1>1 DEF Draw
  <2>2. CASE leg' = [leg EXCEPT ![c] = "dial"] /\ reason' = reason
    BY <2>1, <2>2 DEF admissionVars
  <2>3. ASSUME NEW why \in {"NO_DID_AVAILABLE", "BAD_SELECTED_DID"},
               leg' = [leg EXCEPT ![c] = "rejected"], reason' = [reason EXCEPT ![c] = why]
        PROVE  TypeOK' /\ LegInv'
    BY <2>1, <2>3 DEF admissionVars
  <2> QED
    BY <1>1, <2>2, <2>3 DEF Draw
<1>2. CASE ReadGwRotor(c)
  BY <1>2 DEF ReadGwRotor, admissionVars
<1>3. CASE SetGwRotor(c)
  <2>1. (gwrot[c] % GwCount) + 1 \in Gateways
    BY DEF Gateways
  <2> QED
    BY <1>3, <2>1 DEF SetGwRotor, admissionVars
<1>4. CASE SetGwGroup(c)
  BY <1>4 DEF SetGwGroup, admissionVars, AdmissionTypeOK
<1>5. CASE GatewayOk(c)
  BY <1>5 DEF GatewayOk, admissionVars
<1>6. CASE GatewayBusy(c)
  <2>1. /\ leg[c] = "in_gwcps" /\ skip' = [skip EXCEPT ![c] = @ + 1] /\ skip[c] + 1 \in 0 .. GwCount
        /\ UNCHANGED <<admissionVars, gwRotor, gwrot, try, gwGroup, ring, drew, sent, last>>
    BY <1>6 DEF GatewayBusy
  <2>2. CASE skip[c] + 1 >= GwCount
    <3>1. /\ leg' = [leg EXCEPT ![c] = "rejected"] /\ idx' = idx
          /\ reason' = [reason EXCEPT ![c] = "CPS_LIMIT"]
      BY <1>6, <2>1, <2>2 DEF GatewayBusy
    <3> QED
      BY <2>1, <3>1 DEF admissionVars
  <2>3. CASE ~(skip[c] + 1 >= GwCount)
    <3>1. /\ leg' = [leg EXCEPT ![c] = "gwloop"] /\ reason' = reason
          /\ idx' = [idx EXCEPT ![c] = NextGateway(@)]
      BY <1>6, <2>1, <2>3 DEF GatewayBusy
    <3> QED
      BY <2>1, <2>3, <3>1 DEF admissionVars
  <2> QED
    BY <2>2, <2>3
<1>7. ASSUME NEW o \in Outcomes, DialReturns(c, o) PROVE TypeOK' /\ LegInv'
  <2>1. /\ leg[c] = "dialling" /\ last' = [last EXCEPT ![c] = o] /\ ~ring[c]
        /\ ring' = [ring EXCEPT ![c] = o.rang] /\ o.rang \in BOOLEAN
        /\ UNCHANGED <<admissionVars, gwRotor, gwrot, skip, gwGroup, drew, sent>>
    BY <1>7 DEF DialReturns, Outcomes
  <2>2. CASE o.status = "FINAL"
    <3>1. leg' = [leg EXCEPT ![c] = "finished"] /\ UNCHANGED <<try, idx, reason>>
      BY <1>7, <2>2 DEF DialReturns
    <3> QED
      BY <2>1, <3>1 DEF admissionVars
  <2>3. CASE o.status = "CHANUNAVAIL" /\ (o.rang \/ (FastReject /\ o.slow))
    <3>1. leg' = [leg EXCEPT ![c] = "declined"] /\ UNCHANGED <<try, idx, reason>>
      BY <1>7, <2>1, <2>3 DEF DialReturns
    <3> QED
      BY <2>1, <2>3, <3>1 DEF admissionVars
  <2>4. CASE TryNext(c) /\ TrunkFailed(o)
    <3>1. try' = [try EXCEPT ![c] = @ + 1] /\ try[c] + 1 \in 0 .. MaxAttempts
      BY <2>1, <2>4 DEF TryNext
    <3>2. CASE try[c] + 1 >= MaxAttempts
      <4>1. /\ leg' = [leg EXCEPT ![c] = "rejected"] /\ idx' = idx
            /\ reason' = [reason EXCEPT ![c] = "ALL_GATEWAYS_FAILED"]
        BY <2>4, <3>1, <3>2 DEF TryNext
      <4> QED
        BY <2>1, <3>1, <3>2, <4>1 DEF admissionVars
    <3>3. CASE ~(try[c] + 1 >= MaxAttempts)
      <4>1. /\ leg' = [leg EXCEPT ![c] = "gwloop"] /\ reason' = reason
            /\ idx' = [idx EXCEPT ![c] = NextGateway(@)]
        BY <2>4, <3>1, <3>3 DEF TryNext
      <4> QED
        BY <2>1, <2>4, <3>1, <3>3, <4>1 DEF admissionVars
    <3> QED
      BY <3>2, <3>3
  <2>5. o.status \in {"FINAL", "CONGESTION", "CHANUNAVAIL"}
    BY DEF Outcomes
  <2> QED
    BY <1>7, <2>1, <2>2, <2>3, <2>4, <2>5 DEF DialReturns, TrunkFailed
<1>8. CASE EndCall(c)
  <2>1. /\ step' = [step EXCEPT ![c] = "gone"] /\ leg' = [leg EXCEPT ![c] = "gone"]
        /\ sec' = [sec EXCEPT ![c] = 0] /\ gwGroup' = [gwGroup EXCEPT ![c] = NoGroup]
        /\ gwrot' = [gwrot EXCEPT ![c] = 0] /\ idx' = [idx EXCEPT ![c] = 1]
        /\ skip' = [skip EXCEPT ![c] = 0] /\ try' = [try EXCEPT ![c] = 0]
        /\ ring' = [ring EXCEPT ![c] = FALSE] /\ reason' = [reason EXCEPT ![c] = "none"]
        /\ drew' = drew \ {c} /\ sent' = [sent EXCEPT ![c] = <<>>]
        /\ last' = [last EXCEPT ![c] = NoOutcome] /\ gwRotor' = gwRotor
    BY <1>8 DEF EndCall, End
  <2>2. 1 \in Gateways /\ 0 \in 0 .. GwCount /\ 0 \in 0 .. MaxAttempts /\ <<>> \in Seq(Gateways)
    BY DEF Gateways
  <2>3. TypeOK'
    BY <2>1, <2>2
  <2>4. LegInv'
    BY <2>1 DEF AdmissionTypeOK
  <2> QED
    BY <2>3, <2>4
<1> QED
  BY <1>1, <1>2, <1>3, <1>4, <1>5, <1>6, <1>7, <1>8 DEF DialStep

LEMMA CallInvStep == CallInv /\ [Next]_vars => CallInv'
<1> SUFFICES ASSUME CallInv, [Next]_vars PROVE CallInv'
  OBVIOUS
<1>1. AdmissionTypeOK' /\ GroupShape'
  BY AdmissionKeepsTypes
<1>2. ASSUME NEW c \in Calls, DialStep(c) \/ EndCall(c) PROVE CallInv'
  BY <1>1, <1>2, DialKeeps DEF CallInv
<1>3. CASE UNCHANGED dialVars /\ (Tick \/ (\E c \in Calls : Admit(c)) \/ UNCHANGED admissionVars)
  <2>1. LegInv'
    BY <1>3, AdmissionKeepsLegs
  <2>2. TypeOK'
    BY <1>1, <1>3 DEF CallInv, TypeOK, dialVars
  <2> QED
    BY <1>1, <2>1, <2>2 DEF CallInv
<1> QED
  BY <1>2, <1>3 DEF Next, vars

LEMMA CallInvHolds == Spec => []CallInv
  BY CallInvInit, CallInvStep, PTL DEF Spec

\* A call and the gateway rotor keep their types: SBC_GWIDX is always one of
\* the SBC_GW_COUNT gateways, and SBC_GWSKIP and SBC_TRY never pass their
\* limits (extensions.conf.tpl:466-497, 613-622).
THEOREM CallTypeCorrect == Spec => []TypeOK
<1>1. CallInv => TypeOK
  BY DEF CallInv
<1> QED
  BY CallInvHolds, <1>1, PTL

\* SBC_TRY bounds the INVITEs of a call, however many gateways are skipped in
\* between, and all of them precede ALL_GATEWAYS_FAILED
\* (extensions.conf.tpl:613-622).
THEOREM InvitesCountedHolds == Spec => []InvitesCounted
<1>1. CallInv => InvitesCounted
  <2> SUFFICES ASSUME CallInv, NEW c \in Calls
               PROVE  /\ Len(sent[c]) <= MaxAttempts
                      /\ reason[c] = "ALL_GATEWAYS_FAILED" => Len(sent[c]) = MaxAttempts
    BY DEF InvitesCounted
  <2>1. try[c] \in 0 .. MaxAttempts /\ leg[c] \in Legs /\ MaxAttempts \in Nat
    BY AttemptsClamped, GatewaysPositive DEF CallInv, TypeOK
  <2> QED
    BY <2>1 DEF CallInv, LegInv, Legs
<1> QED
  BY CallInvHolds, <1>1, PTL

\* RINGTIME_MS is cleared before each Dial(), so a call is given up as declined
\* for what its last attempt met and for no earlier one
\* (extensions.conf.tpl:511-517, 579-608).
THEOREM DeclineHolds == Spec => []DeclineIsThisAttempts
<1>1. CallInv => DeclineIsThisAttempts
  BY DEF CallInv, LegInv, DeclineIsThisAttempts
<1> QED
  BY CallInvHolds, <1>1, PTL

\* The way back to the gateway loop is open to CONGESTION and to a fast
\* CHANUNAVAIL without a ring: nobody is called a second time who answered, was
\* busy or did not answer, or whose phone rang before a CHANUNAVAIL
\* (extensions.conf.tpl:555-608).
THEOREM RedialsHold == Spec => RedialledOnTrunkFailure
<1>1. ASSUME CallInv, [Next]_vars, NEW c \in Calls, Len(sent'[c]) > Len(sent[c]), sent[c] # <<>>
      PROVE  TrunkFailed(last[c])
  <2>1. GatewayOk(c)
    <3>1. sent[c] \in Seq(Gateways) /\ DOMAIN sent = Calls
      BY <1>1 DEF CallInv, TypeOK
    <3>2. sent' # sent /\ sent'[c] # sent[c] /\ sent'[c] # <<>>
      BY <1>1, <3>1
    <3>3. ASSUME NEW d \in Calls, EndCall(d) PROVE FALSE
      BY <3>1, <3>2, <3>3 DEF EndCall
    <3>4. ASSUME NEW d \in Calls, DialStep(d) PROVE GatewayOk(d)
      BY <3>2, <3>4 DEF DialStep, Draw, ReadGwRotor, SetGwRotor, SetGwGroup, GatewayBusy,
         DialReturns
    <3>5. ASSUME NEW d \in Calls, GatewayOk(d), d # c PROVE FALSE
      BY <3>1, <3>2, <3>5 DEF GatewayOk
    <3>6. ~UNCHANGED dialVars
      BY <3>2 DEF dialVars
    <3> QED
      BY <1>1, <3>3, <3>4, <3>5, <3>6 DEF Next, vars
  <2> QED
    BY <1>1, <2>1 DEF GatewayOk, Goto, CallInv, LegInv
<1>2. CallInv /\ [Next]_vars =>
        [\A c \in Calls :
            Len(sent'[c]) > Len(sent[c]) /\ sent[c] # <<>> =>
                \/ last[c].status = "CONGESTION"
                \/ /\ last[c].status = "CHANUNAVAIL" /\ ~last[c].rang
                   /\ ~(FastReject /\ last[c].slow)]_vars
  BY <1>1 DEF TrunkFailed
<1> QED
  BY CallInvHolds, <1>2, PTL DEF Spec, RedialledOnTrunkFailure

-----------------------------------------------------------------------------
(***************************************************************************)
(* The grant of a gateway.                                                 *)
(***************************************************************************)

LEMMA GrantStep == CallInv /\ CallInv' /\ GatewayGrant /\ [Next]_vars => GatewayGrant'
<1> SUFFICES ASSUME CallInv, CallInv', GatewayGrant, [Next]_vars,
                    NEW g \in Gateways, NEW s \in 0 .. clock'
             PROVE  Cardinality(Dialling(g, s)') <= MaxCpsGw
  BY DEF GatewayGrant, Dialling, InGwCps
<1> DEFINE same == Dialling(g, s)' \subseteq Dialling(g, s)
<1>1. Dialling(g, s) \in SUBSET Calls /\ Dialling(g, s)' \in SUBSET Calls /\ MaxCpsGw \in Nat
  BY GrantNat DEF Dialling, InGwCps
<1>2. CASE s <= clock /\ same
  <2>1. Cardinality(Dialling(g, s)) <= MaxCpsGw
    BY <1>2 DEF GatewayGrant, CallInv, TypeOK, AdmissionTypeOK
  <2> QED
    BY <1>1, <1>2, <2>1, FewerPassers
<1>3. ASSUME NEW c \in Calls, GatewayOk(c) PROVE same \/ Cardinality(Dialling(g, s)') <= MaxCpsGw
  <2>1. CASE <<idx[c], sec[c]>> = <<g, s>>
    <3>1. ~(Cardinality(InGwCps(g, s)) > MaxCpsGw)
      <4>1. g = idx[c] /\ s = sec[c]
        BY <2>1
      <4>2. Cardinality(InGwCps(idx[c], sec[c])) <= MaxCpsGw
        BY <1>3 DEF GatewayOk
      <4>3. Cardinality(InGwCps(g, s)) \in Nat
        <5>1. InGwCps(g, s) \subseteq Calls
          BY DEF InGwCps
        <5> QED
          BY <5>1, CallsFinite, FS_Subset, FS_CardinalityType
      <4> QED
        BY <1>1, <4>1, <4>2, <4>3
    <3>2. Dialling(g, s)' \subseteq InGwCps(g, s) /\ InGwCps(g, s) \in SUBSET Calls
      BY <1>3 DEF GatewayOk, Dialling, InGwCps
    <3> QED
      BY <1>1, <3>1, <3>2, PassersWithin
  <2>2. CASE <<idx[c], sec[c]>> # <<g, s>>
    <3>1. gwGroup[c] = <<idx[c], sec[c]>> /\ gwGroup' = gwGroup
          /\ leg' = [leg EXCEPT ![c] = "dialling"]
      BY <1>3 DEF GatewayOk, Goto, CallInv, LegInv
    <3> QED
      BY <2>2, <3>1 DEF CallInv, TypeOK, Dialling, InGwCps
  <2> QED
    BY <2>1, <2>2
<1>4. ASSUME NEW c \in Calls, SetGwGroup(c) PROVE same
  BY <1>4 DEF SetGwGroup, Goto, CallInv, TypeOK, Dialling, InGwCps
<1>5. ASSUME NEW c \in Calls, EndCall(c) PROVE same
  BY <1>5 DEF EndCall, CallInv, TypeOK, Dialling, InGwCps
<1>6. ASSUME NEW c \in Calls,
             Draw(c) \/ ReadGwRotor(c) \/ SetGwRotor(c) \/ GatewayBusy(c)
                 \/ (\E o \in Outcomes : DialReturns(c, o))
      PROVE  same
  <2>1. gwGroup' = gwGroup
    BY <1>6 DEF Draw, ReadGwRotor, SetGwRotor, GatewayBusy, DialReturns
  <2>2. PICK l \in Legs \ {"dialling"} : leg' = [leg EXCEPT ![c] = l]
    BY <1>6 DEF Draw, ReadGwRotor, SetGwRotor, GatewayBusy, DialReturns, TryNext, Goto, Reject, Legs
  <2> QED
    BY <2>1, <2>2 DEF CallInv, TypeOK, Dialling, InGwCps
<1>7. ASSUME UNCHANGED dialVars PROVE same
  BY <1>7 DEF dialVars, Dialling, InGwCps
<1>8. CASE s <= clock
  BY <1>2, <1>3, <1>4, <1>5, <1>6, <1>7, <1>8 DEF Next, DialStep, vars
<1>9. CASE ~(s <= clock)
  <2>1. Dialling(g, s)' = {}
    <3>1. UNCHANGED sec /\ UNCHANGED dialVars
      <4>1. clock' # clock
        BY <1>9 DEF CallInv, TypeOK, AdmissionTypeOK
      <4>2. ASSUME NEW c \in Calls PROVE ~DialStep(c) /\ ~EndCall(c) /\ ~Admit(c)
        BY <4>1 DEF DialStep, EndCall, End, Admit, Arrive, ReadClock, SetCps, CountCps, SetCust,
           CountCust, Draw, ReadGwRotor, SetGwRotor, SetGwGroup, GatewayOk, GatewayBusy,
           DialReturns, admissionVars
      <4>3. Tick /\ UNCHANGED dialVars
        BY <4>1, <4>2 DEF Next, vars, admissionVars
      <4> QED
        BY <4>3 DEF Tick
    <3>2. \A c \in Calls : leg[c] = "dialling" => gwGroup[c] # <<g, s>>
      BY <1>9 DEF CallInv, TypeOK, AdmissionTypeOK, LegInv, GroupShape
    <3> QED
      BY <3>1, <3>2 DEF dialVars, Dialling, InGwCps
  <2> QED
    BY <1>1, <2>1, FS_EmptySet
<1> QED
  BY <1>8, <1>9

\* However the channels join, count and leave a gateway's group, skip to the
\* next gateway and fail over, at most MaxCpsGw INVITEs charged to a gateway
\* and a second are in progress (extensions.conf.tpl:478-505).
THEOREM GatewayGrantHolds == Spec => []GatewayGrant
<1>1. Init => GatewayGrant
  <2>1. Init => \A g \in Gateways, s \in 0 .. clock : Dialling(g, s) = {}
    BY DEF Init, Dialling, InGwCps
  <2> QED
    BY <2>1, FS_EmptySet, GrantNat DEF GatewayGrant
<1> QED
  BY CallInvHolds, GrantStep, <1>1, PTL DEF Spec
=============================================================================
