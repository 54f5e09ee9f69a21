--------------------------- MODULE ActuatorProofs ---------------------------
(* What TLAPS proves of Actuator, for any number of calls and of restarts. *)
EXTENDS Actuator, FiniteSetTheorems, TLAPS

\* Names are given out from 1 on, a live call has one, and no Call-ID comes
\* back.
NamesFollow ==
    /\ lastName <= Cardinality(used)
    /\ \A n \in Names : chan[n] # None => n <= lastName /\ chan[n] \in used
    /\ \A m, n \in Names : chan[m] # None /\ chan[m] = chan[n] => m = n

\* What the table says of a channel was so when the channel was probed: its
\* call has that name if it lives, and another call has the name only if the
\* name was given out again.
EntriesWereTrue ==
    \A n \in Names : table[n] # None =>
        /\ n <= lastName \/ n \in reused
        /\ table[n].cid \in Calls =>
            /\ table[n].cid \in used
            /\ \A m \in Names : chan[m] = table[n].cid => m = n
            /\ chan[n] \in {table[n].cid, None} \/ n \in reused

\* A request is for a call, ends with a name for it, and is settled by the
\* heuristic only where that is allowed.
RequestOK ==
    /\ ~Refused(config)
    /\ at = "idle" <=> call = None
    /\ at = "found" => byCallId[call] # NoName
    /\ at = "guessed" => config.heuristic
    /\ at = "probe" => todo \subseteq Unprobed(table)

\* The inductive invariant.
IInv == TypeOK /\ CacheCoherent /\ NamesFollow /\ EntriesWereTrue /\ RequestOK

(***************************************************************************)
(* Types.                                                                  *)
(***************************************************************************)
LEMMA TypeInit == Init => TypeOK
<1> USE CallsFinite, MissesNat DEF Names, NoName
<1> SUFFICES ASSUME Init PROVE TypeOK
    OBVIOUS
<1>1. Cardinality(Calls) \in Nat
  BY FS_CardinalityType
<1> QED
  BY <1>1 DEF Init, TypeOK

\* There is a name for each Call-ID: a new call finds one.
LEMMA NameLeft ==
    ASSUME TypeOK, NamesFollow, NEW c \in Calls, c \notin used
    PROVE  lastName + 1 \in Names
<1>1. IsFiniteSet(used) /\ Cardinality(used) <= Cardinality(Calls)
      /\ (Cardinality(used) = Cardinality(Calls) => used = Calls)
  BY CallsFinite, FS_Subset DEF TypeOK
<1>2. Cardinality(used) \in Nat /\ Cardinality(Calls) \in Nat
  BY <1>1, CallsFinite, FS_CardinalityType
<1>3. Cardinality(used) < Cardinality(Calls)
  BY <1>1, <1>2
<1> QED
  BY <1>2, <1>3 DEF TypeOK, NamesFollow, Names

LEMMA ListedType ==
    ASSUME TypeOK, NEW seen \in SUBSET Names
    PROVE  Listed(seen) \in [Names -> Entries \cup {None}]
<1>1. NewEntry \in Entries
  BY MissesNat DEF NewEntry, Entries
<1> QED
  BY <1>1 DEF Listed, TypeOK

(***************************************************************************)
(* What each kind of step does to the cache and to Asterisk.               *)
(***************************************************************************)
CacheInv ==
    /\ table \in [Names -> Entries \cup {None}]
    /\ byCallId \in [Calls -> {NoName} \cup Names]
    /\ CacheCoherent /\ EntriesWereTrue

LEMMA ListingStep ==
    ASSUME TypeOK, CacheInv, NamesFollow, UNCHANGED asteriskVars,
           NEW seen \in {LiveNames, {}}, TakeListing(seen)
    PROVE  CacheInv'
<1>1. seen \in SUBSET Names /\ \A n \in seen : chan[n] # None
  BY DEF LiveNames
<1>2. table' = Listed(seen) /\ table' \in [Names -> Entries \cup {None}]
  BY <1>1, ListedType DEF TakeListing
<1>3. byCallId' \in [Calls -> {NoName} \cup Names]
  BY DEF TakeListing, CacheInv
<1>4. CacheCoherent'
  <2> SUFFICES ASSUME NEW c \in Calls, byCallId'[c] # NoName
               PROVE  table'[byCallId'[c]] # None /\ table'[byCallId'[c]].cid = c
    BY DEF CacheCoherent
  <2>1. byCallId'[c] = byCallId[c] /\ byCallId[c] \in Names
    BY DEF TakeListing, CacheInv
  <2>2. table[byCallId[c]] # None /\ table[byCallId[c]].cid = c
    BY <2>1 DEF CacheInv, CacheCoherent
  <2>3. byCallId[c] \in seen
    BY <2>1, <2>2 DEF TakeListing
  <2> QED
    BY <1>2, <2>1, <2>2, <2>3 DEF Listed
<1>5. EntriesWereTrue'
  <2> SUFFICES ASSUME NEW n \in Names, table'[n] # None
               PROVE  EntriesWereTrue!(n)'
    BY DEF EntriesWereTrue
  <2>1. n \in seen
    BY <1>2 DEF Listed
  <2>2. CASE table[n] = None
    <3>1. table'[n].cid = None /\ n <= lastName
      BY <1>1, <1>2, <2>1, <2>2 DEF Listed, NewEntry, NamesFollow
    <3> QED
      BY <3>1, CallsFinite DEF asteriskVars
  <2>3. CASE table[n] # None
    BY <1>2, <2>1, <2>3 DEF Listed, CacheInv, EntriesWereTrue, asteriskVars
  <2> QED
    BY <2>2, <2>3
<1> QED
  BY <1>2, <1>3, <1>4, <1>5 DEF CacheInv

LEMMA RefreshStep ==
    ASSUME TypeOK, CacheInv, NamesFollow, UNCHANGED asteriskVars, Refresh
    PROVE  CacheInv'
<1>1. CASE UNCHANGED cacheVars
  BY <1>1 DEF CacheInv, CacheCoherent, EntriesWereTrue, cacheVars, asteriskVars
<1>2. CASE \E seen \in {LiveNames, {}} : TakeListing(seen)
  BY <1>2, ListingStep
<1> QED
  BY <1>1, <1>2 DEF Refresh

LEMMA ProbeStep ==
    ASSUME TypeOK, CacheInv, NamesFollow, UNCHANGED asteriskVars,
           NEW n \in Unprobed(table), Probe(n)
    PROVE  CacheInv' /\ \A m \in Names \ {n} : table'[m] = table[m]
<1>0. n \in Names /\ table[n] \in Entries /\ table[n].cid = None
      /\ table[n].misses < MaxProbeMisses
  BY MissesNat DEF Unprobed, Probed, CacheInv, Entries
<1>1. CASE UNCHANGED cacheVars
  BY <1>1 DEF CacheInv, CacheCoherent, EntriesWereTrue, cacheVars, asteriskVars
<1>2. CASE /\ chan[n] \in readable
           /\ table' = [table EXCEPT ![n].cid = chan[n]]
           /\ byCallId' = [byCallId EXCEPT ![chan[n]] = n]
  <2>1. chan[n] \in Calls /\ chan[n] # None
    BY <1>2, CallsFinite DEF TypeOK
  <2>2. [table[n] EXCEPT !.cid = chan[n]] \in Entries
    BY <1>0, <2>1 DEF Entries
  <2>3. table' \in [Names -> Entries \cup {None}] /\ table'[n] \in Entries
        /\ table'[n].cid = chan[n]
    BY <1>0, <1>2, <2>1, <2>2 DEF CacheInv, Entries
  <2>4. byCallId' \in [Calls -> {NoName} \cup Names]
    BY <1>0, <1>2 DEF CacheInv
  <2>5. CacheCoherent'
    BY <1>0, <1>2, <2>1, <2>3, NoneIsNoEntry, CallsFinite DEF CacheInv, CacheCoherent, NoName
  <2>6. EntriesWereTrue'
    <3> SUFFICES ASSUME NEW k \in Names, table'[k] # None
                 PROVE  EntriesWereTrue!(k)'
      BY DEF EntriesWereTrue
    <3>1. CASE k # n
      BY <3>1, <1>0, <1>2 DEF CacheInv, EntriesWereTrue, asteriskVars
    <3>2. CASE k = n
      BY <3>2, <1>0, <1>2, <2>1, <2>3 DEF CacheInv, NamesFollow, asteriskVars
    <3> QED
      BY <3>1, <3>2
  <2> QED
    BY <1>0, <1>2, <2>3, <2>4, <2>5, <2>6 DEF CacheInv
<1>3. CASE /\ table' = [table EXCEPT ![n].misses = @ + 1]
           /\ UNCHANGED byCallId
  <2>1. [table[n] EXCEPT !.misses = @ + 1] \in Entries
    BY <1>0, MissesNat DEF Entries
  <2>2. table' \in [Names -> Entries \cup {None}] /\ table'[n] \in Entries
        /\ table'[n].cid = None /\ \A m \in Names \ {n} : table'[m] = table[m]
    BY <1>0, <1>3, <2>1 DEF CacheInv, Entries
  <2>3. CacheCoherent'
    BY <1>0, <1>3, <2>2, CallsFinite DEF CacheInv, CacheCoherent, NoName
  <2>4. EntriesWereTrue'
    <3> SUFFICES ASSUME NEW k \in Names, table'[k] # None
                 PROVE  EntriesWereTrue!(k)'
      BY DEF EntriesWereTrue
    <3>1. CASE k # n
      BY <3>1, <2>2 DEF CacheInv, EntriesWereTrue, asteriskVars
    <3>2. CASE k = n
      <4>1. n <= lastName \/ n \in reused
        BY <1>0, NoneIsNoEntry DEF CacheInv, EntriesWereTrue
      <4> QED
        BY <3>2, <4>1, <2>2, CallsFinite DEF asteriskVars
    <3> QED
      BY <3>1, <3>2
  <2> QED
    BY <1>3, <2>2, <2>3, <2>4 DEF CacheInv
<1> QED
  BY <1>1, <1>2, <1>3 DEF Probe

\* The end of a call frees its name and gives none out.
LEMMA DestroyedStep ==
    ASSUME TypeOK, CacheInv, NamesFollow, UNCHANGED cacheVars,
           NEW c \in Calls, Destroyed(c)
    PROVE  /\ chan' \in [Names -> Calls \cup {None}] /\ readable' \subseteq Calls
           /\ CacheInv' /\ NamesFollow'
<1>1. chan' \in [Names -> Calls \cup {None}] /\ readable' \subseteq Calls
      /\ \A n \in Names : chan'[n] \in {chan[n], None}
  BY DEF TypeOK, Destroyed
<1>2. NamesFollow'
  BY <1>1 DEF Destroyed, NamesFollow
<1>3. EntriesWereTrue'
  <2> SUFFICES ASSUME NEW n \in Names, table'[n] # None
               PROVE  EntriesWereTrue!(n)'
    BY DEF EntriesWereTrue
  <2>1. table'[n].cid \in Calls => \A m \in Names : chan'[m] = table'[n].cid => m = n
    BY <1>1, CallsFinite DEF CacheInv, EntriesWereTrue, cacheVars
  <2> QED
    BY <1>1, <2>1 DEF Destroyed, CacheInv, EntriesWereTrue, cacheVars
<1> QED
  BY <1>1, <1>2, <1>3 DEF CacheInv, CacheCoherent, cacheVars

\* A new call takes the next name.
LEMMA CreateStep ==
    ASSUME TypeOK, CacheInv, NamesFollow, NEW c \in Calls, CreateChannel(c)
    PROVE  TypeOK' /\ CacheInv' /\ NamesFollow' /\ lastName + 1 \in Names
           /\ chan[lastName + 1] = None
<1>1. lastName + 1 \in Names /\ lastName \in Nat
  BY NameLeft DEF CreateChannel, TypeOK
<1>2. chan[lastName + 1] = None
  BY <1>1 DEF NamesFollow
<1>3. chan' \in [Names -> Calls \cup {None}]
      /\ chan'[lastName + 1] = c /\ c # None
      /\ \A n \in Names \ {lastName + 1} : chan'[n] = chan[n]
  BY <1>1, CallsFinite DEF CreateChannel, TypeOK
<1>4. Cardinality(used') = Cardinality(used) + 1 /\ Cardinality(used) \in Nat
  <2>1. IsFiniteSet(used)
    BY CallsFinite, FS_Subset DEF TypeOK
  <2> QED
    BY <2>1, FS_AddElement, FS_CardinalityType DEF CreateChannel
<1>5. TypeOK'
  <2>1. Cardinality(Calls) \in Nat
    BY CallsFinite, FS_CardinalityType
  <2> QED
    BY <1>1, <1>3, <2>1 DEF CreateChannel, TypeOK, Asterisk, cacheVars, jobVars, Names
<1>6. NamesFollow'
  <2>1. \A n \in Names : chan[n] # c
    BY <1>3 DEF CreateChannel, NamesFollow
  <2>2. lastName' <= Cardinality(used')
    BY <1>1, <1>4 DEF CreateChannel, NamesFollow
  <2>3. \A n \in Names : chan'[n] # None => n <= lastName' /\ chan'[n] \in used'
    BY <1>1, <1>3 DEF CreateChannel, NamesFollow, Names
  <2>4. \A m, n \in Names : chan'[m] # None /\ chan'[m] = chan'[n] => m = n
    BY <1>3, <2>1 DEF NamesFollow
  <2> QED
    BY <2>2, <2>3, <2>4 DEF NamesFollow
<1>7. EntriesWereTrue'
  <2> SUFFICES ASSUME NEW n \in Names, table'[n] # None
               PROVE  EntriesWereTrue!(n)'
    BY DEF EntriesWereTrue
  <2>1. table' = table /\ used' = used \cup {c} /\ c \notin used
        /\ reused' = reused /\ lastName' = lastName + 1
    BY DEF CreateChannel, Asterisk, cacheVars
  <2>2. n <= lastName \/ n \in reused
    BY <2>1 DEF CacheInv, EntriesWereTrue
  <2>3. n <= lastName' \/ n \in reused'
    BY <1>1, <2>1, <2>2 DEF Names
  <2>4. ASSUME table[n].cid \in Calls
        PROVE  \A m \in Names : chan'[m] = table[n].cid => m = n
    BY <1>3, <2>1, <2>4 DEF CacheInv, EntriesWereTrue
  <2>5. ASSUME table[n].cid \in Calls
        PROVE  chan'[n] \in {table[n].cid, None} \/ n \in reused
    <3>1. CASE n = lastName + 1
      BY <1>1, <2>2, <3>1
    <3>2. CASE n # lastName + 1
      BY <1>3, <2>1, <2>5, <3>2 DEF CacheInv, EntriesWereTrue
    <3> QED
      BY <3>1, <3>2
  <2> QED
    BY <2>1, <2>3, <2>4, <2>5 DEF CacheInv, EntriesWereTrue
<1> QED
  BY <1>1, <1>2, <1>5, <1>6, <1>7 DEF CacheInv, CacheCoherent, CreateChannel, Asterisk, cacheVars, TypeOK

\* A restart leaves no call and makes every name so far a reused one.
LEMMA RebootStep ==
    ASSUME TypeOK, CacheInv, NamesFollow, Reboot
    PROVE  TypeOK' /\ CacheInv' /\ NamesFollow'
<1>1. TypeOK'
  <2>1. Cardinality(Calls) \in Nat
    BY CallsFinite, FS_CardinalityType
  <2>2. 1..lastName \subseteq Names
    BY <2>1 DEF TypeOK, Names
  <2> QED
    BY <2>1, <2>2, MissesNat DEF Reboot, TypeOK, Asterisk, cacheVars, jobVars
<1>2. NamesFollow'
  <2>1. Cardinality(used) \in Nat
    BY CallsFinite, FS_Subset, FS_CardinalityType DEF TypeOK
  <2> QED
    BY <2>1 DEF Reboot, NamesFollow
<1>3. EntriesWereTrue'
  <2> SUFFICES ASSUME NEW n \in Names, table'[n] # None
               PROVE  EntriesWereTrue!(n)'
    BY DEF EntriesWereTrue
  <2>1. table' = table /\ used' = used /\ chan' = [m \in Names |-> None]
        /\ reused' = reused \cup 1..lastName
    BY DEF Reboot, Asterisk, cacheVars
  <2>2. n \in reused'
    BY <2>1 DEF CacheInv, EntriesWereTrue, Names, TypeOK
  <2> QED
    BY <2>1, <2>2, CallsFinite DEF CacheInv, EntriesWereTrue
<1> QED
  BY <1>1, <1>2, <1>3 DEF CacheInv, CacheCoherent, Reboot, Asterisk, cacheVars, TypeOK

(***************************************************************************)
(* The inductive invariant.                                                *)
(***************************************************************************)
LEMMA IInvInit == Init => IInv
<1> SUFFICES ASSUME Init PROVE IInv
    OBVIOUS
<1>1. Cardinality(used) = 0
  BY FS_EmptySet DEF Init
<1> QED
  BY <1>1, TypeInit DEF Init, IInv, CacheCoherent, NamesFollow, EntriesWereTrue, RequestOK, NoName

\* The three ways a resolution ends.
LEMMA ResolvedStep ==
    ASSUME Resolved, call \in Calls, UNCHANGED config, ~Refused(config)
    PROVE  /\ RequestOK'
           /\ at' \in {"found", "guessed", "idle"}
           /\ call' \in Calls \cup {None} /\ todo' \subseteq Names
<1>1. CASE Found
  <2>1. at' = "found" /\ call' = call /\ todo' = {} /\ byCallId'[call] # NoName
    BY <1>1 DEF Resolved, Continue, Found
  <2> QED
    BY <2>1, CallsFinite DEF RequestOK
<1>2. CASE ~Found
  <2>1. \/ at' = "guessed" /\ call' = call /\ todo' \subseteq Names /\ config.heuristic
        \/ at' = "idle" /\ call' = None /\ todo' = {}
    BY <1>2 DEF Resolved, Fallback, Continue, Done
  <2> QED
    BY <2>1, CallsFinite DEF RequestOK
<1> QED
  BY <1>1, <1>2

LEMMA IInvStep == IInv /\ [Next]_vars => IInv'
<1> SUFFICES ASSUME IInv, [Next]_vars PROVE IInv'
    OBVIOUS
<1> USE DEF IInv
<1>0. CacheInv
  BY DEF CacheInv, TypeOK
<1>1. ASSUME NEW c \in Calls, CreateChannel(c) PROVE IInv'
  <2>1. RequestOK'
    BY <1>1 DEF CreateChannel, Asterisk, RequestOK, cacheVars, jobVars, Unprobed
  <2> QED
    BY <1>0, <1>1, <2>1, CreateStep DEF CacheInv
<1>2. ASSUME NEW c \in Calls, SetCallId(c) PROVE IInv'
  BY <1>2 DEF SetCallId, Asterisk, cacheVars, jobVars, TypeOK, CacheCoherent, NamesFollow,
              EntriesWereTrue, RequestOK, Unprobed
<1>3. ASSUME NEW c \in Calls, DestroyChannel(c) PROVE IInv'
  <2>1. UNCHANGED <<config, cacheVars, jobVars>> /\ Destroyed(c)
    BY <1>3 DEF DestroyChannel, Asterisk
  <2>2. CacheInv' /\ NamesFollow' /\ chan' \in [Names -> Calls \cup {None}]
        /\ readable' \subseteq Calls
    BY <1>0, <2>1, DestroyedStep
  <2>3. TypeOK'
    BY <2>1, <2>2 DEF Destroyed, TypeOK, cacheVars, jobVars
  <2>4. RequestOK'
    BY <2>1 DEF RequestOK, cacheVars, jobVars, Unprobed
  <2> QED
    BY <2>2, <2>3, <2>4 DEF CacheInv
<1>4. CASE Reboot
  <2>1. RequestOK'
    BY <1>4 DEF Reboot, Asterisk, RequestOK, cacheVars, jobVars, Unprobed
  <2> QED
    BY <1>0, <1>4, <2>1, RebootStep DEF CacheInv
<1>5. ASSUME NEW c \in Calls, Match(c) PROVE IInv'
  <2>1. TypeOK' /\ RequestOK'
    BY <1>5, CallsFinite DEF Match, TypeOK, RequestOK, asteriskVars, cacheVars
  <2> QED
    BY <1>5, <2>1 DEF Match, CacheCoherent, NamesFollow, EntriesWereTrue, asteriskVars, cacheVars
\* Steps that read from Asterisk: what is left is the cache and the request.
<1>6. ASSUME UNCHANGED <<asteriskVars, config>>, CacheInv', RequestOK',
             at' \in {"idle", "refresh", "list", "probe", "found", "guessed"},
             call' \in Calls \cup {None}, todo' \subseteq Names
      PROVE  IInv'
  BY <1>6 DEF TypeOK, NamesFollow, CacheInv, asteriskVars
<1>7. CASE FirstLook
  <2>1. CacheInv' /\ at = "refresh" /\ call \in Calls /\ UNCHANGED <<asteriskVars, config>>
    BY <1>0, <1>7, RefreshStep DEF FirstLook, TypeOK, RequestOK
  <2>2. /\ call' = call /\ todo' = {}
        /\ (at' = "list" \/ (at' = "found" /\ byCallId'[call] # NoName))
    BY <1>7 DEF FirstLook, Continue, Found
  <2>3. RequestOK'
    BY <2>1, <2>2, CallsFinite DEF RequestOK
  <2> QED
    BY <1>6, <2>1, <2>2, <2>3
<1>8. CASE ProbeList
  <2>1. CacheInv' /\ at = "list" /\ call \in Calls /\ UNCHANGED <<asteriskVars, config>>
    BY <1>0, <1>8, RefreshStep DEF ProbeList, TypeOK, RequestOK
  <2>2. CASE at' = "probe" /\ call' = call /\ todo' = Unprobed(table')
    <3>1. RequestOK'
      BY <2>1, <2>2, CallsFinite DEF RequestOK, Unprobed
    <3> QED
      BY <1>6, <2>1, <2>2, <3>1 DEF Unprobed
  <2>3. CASE Resolved
    <3>1. ~Refused(config)
      BY DEF RequestOK
    <3> QED
      BY <1>6, <2>1, <2>3, <3>1, ResolvedStep
  <2> QED
    BY <1>8, <2>2, <2>3 DEF ProbeList, Continue
<1>9. ASSUME NEW n \in Names, ProbeNext(n) PROVE IInv'
  <2>1. n \in Unprobed(table) /\ n \in todo /\ at = "probe" /\ call \in Calls
        /\ Probe(n) /\ UNCHANGED <<asteriskVars, config>>
    BY <1>9 DEF ProbeNext, RequestOK, TypeOK
  <2>2. CacheInv' /\ \A m \in Names \ {n} : table'[m] = table[m]
    BY <1>0, <2>1, ProbeStep
  <2>3. CASE at' = "probe" /\ call' = call /\ todo' = todo \ {n}
    <3>1. RequestOK'
      BY <2>1, <2>2, <2>3, CallsFinite DEF RequestOK, Unprobed
    <3> QED
      BY <1>6, <2>1, <2>2, <2>3, <3>1 DEF TypeOK
  <2>4. CASE Resolved
    <3>1. ~Refused(config)
      BY DEF RequestOK
    <3> QED
      BY <1>6, <2>1, <2>2, <2>4, <3>1, ResolvedStep
  <2> QED
    BY <1>9, <2>3, <2>4 DEF ProbeNext, Continue
<1>10. ASSUME NEW n \in Names, HangUp(n) PROVE IInv'
  <2>1. UNCHANGED <<config, cacheVars>> /\ chan[n] \in Calls /\ Destroyed(chan[n])
        /\ at' = "idle" /\ call' = None /\ todo' = {}
    BY <1>10 DEF HangUp, Done, TypeOK
  <2>2. CacheInv' /\ NamesFollow' /\ chan' \in [Names -> Calls \cup {None}]
        /\ readable' \subseteq Calls
    BY <1>0, <2>1, DestroyedStep
  <2>3. TypeOK' /\ RequestOK'
    BY <2>1, <2>2 DEF Destroyed, TypeOK, RequestOK, cacheVars
  <2> QED
    BY <2>2, <2>3 DEF CacheInv
<1>11. CASE HangUpNobody
  <2>1. TypeOK' /\ RequestOK'
    BY <1>11 DEF HangUpNobody, Done, TypeOK, RequestOK, asteriskVars, cacheVars
  <2> QED
    BY <1>11, <2>1 DEF HangUpNobody, CacheCoherent, NamesFollow, EntriesWereTrue,
                       asteriskVars, cacheVars
<1>12. CASE UNCHANGED vars
  BY <1>12 DEF vars, asteriskVars, cacheVars, jobVars, TypeOK, CacheCoherent, NamesFollow,
               EntriesWereTrue, RequestOK, Unprobed
<1> QED
  BY <1>1, <1>2, <1>3, <1>4, <1>5, <1>7, <1>8, <1>9, <1>10, <1>11, <1>12 DEF Next

LEMMA Invariance == Spec => []IInv
<1>1. Init => IInv
  BY IInvInit
<1>2. IInv /\ [Next]_vars => IInv'
  BY IInvStep
<1> QED
  BY <1>1, <1>2, PTL DEF Spec

\* Every variable keeps its type.
THEOREM TypeCorrect == Spec => []TypeOK
<1>1. IInv => TypeOK
  BY DEF IInv
<1> QED
  BY <1>1, Invariance, PTL

\* The Call-ID index never outlives or contradicts the channel table
\* (actuator.py:305-308, 345-347).
THEOREM IndexFollowsTable == Spec => []CacheCoherent
<1>1. IInv => CacheCoherent
  BY DEF IInv
<1> QED
  BY <1>1, Invariance, PTL

(***************************************************************************)
(* The actuator keeps its promise.                                         *)
(***************************************************************************)
LEMMA PromiseInit == Init => Promise!Init
BY CallsFinite DEF Init, Promise!Init, OnChannels, Live

\* The end of call c, seen through the promise.
LEMMA DestroyedSeen ==
    ASSUME TypeOK, NEW c \in Calls, Destroyed(c), NEW S \in SUBSET Names
    PROVE  OnChannels(S)' = OnChannels(S) \ {c}
BY CallsFinite DEF TypeOK, Destroyed, OnChannels

\* A hangup that goes by the index reaches the call asked for, or a call on a
\* reused name when that one is over.
LEMMA FoundIsAsked ==
    ASSUME IInv, NEW n \in Names, at = "found", n = byCallId[call], chan[n] # None
    PROVE  chan[n] \in Promise!MayEnd
<1> USE DEF IInv
<1>1. call \in Calls /\ chan[n] \in Calls /\ n # NoName
  BY DEF TypeOK, RequestOK
<1>2. table[n] # None /\ table[n].cid = call
  BY <1>1 DEF CacheCoherent
<1>3. /\ \A m \in Names : chan[m] = call => m = n
      /\ chan[n] = call \/ n \in reused
  BY <1>1, <1>2 DEF EntriesWereTrue
<1> QED
  BY <1>1, <1>3 DEF Promise!MayEnd, OnChannels, Live, TypeOK

LEMMA PromiseStep == IInv /\ [Next]_vars => [Promise!Next]_(Promise!vars)
<1> SUFFICES ASSUME IInv, [Next]_vars PROVE [Promise!Next]_(Promise!vars)
    OBVIOUS
<1> USE DEF IInv
<1>0. CacheInv
  BY DEF CacheInv, TypeOK
<1>1. ASSUME NEW c \in Calls, CreateChannel(c) PROVE Promise!Arrive(c)
  <2>1. /\ lastName + 1 \in Names /\ chan[lastName + 1] = None /\ c # None
        /\ \A n \in Names : chan'[n] = IF n = lastName + 1 THEN c ELSE chan[n]
        /\ UNCHANGED <<reused, call>>
        /\ \A n \in Names : chan[n] # c
    BY <1>0, <1>1, CreateStep, CallsFinite
       DEF CreateChannel, Asterisk, jobVars, NamesFollow, TypeOK
  <2>2. Live' = Live \cup {c} /\ c \notin Live
    <3>1. ASSUME NEW d \in Live' PROVE d \in Live \cup {c}
      BY <2>1, <3>1 DEF Live, OnChannels
    <3>2. ASSUME NEW d \in Live PROVE d \in Live'
      <4>1. PICK n \in Names : chan[n] = d
        BY <3>2 DEF Live, OnChannels
      <4>2. chan'[n] = d
        BY <2>1, <4>1, CallsFinite DEF Live, OnChannels
      <4> QED
        BY <4>2 DEF Live, OnChannels
    <3>3. c \in Live' /\ c \notin Live
      BY <2>1 DEF Live, OnChannels
    <3> QED
      BY <3>1, <3>2, <3>3
  <2>3. OnChannels(reused)' \in {OnChannels(reused), OnChannels(reused) \cup {c}}
    <3>1. CASE lastName + 1 \in reused
      <4>1. ASSUME NEW d \in OnChannels(reused)' PROVE d \in OnChannels(reused) \cup {c}
        BY <2>1, <4>1 DEF OnChannels, TypeOK
      <4>2. ASSUME NEW d \in OnChannels(reused) PROVE d \in OnChannels(reused)'
        <5>1. PICK n \in reused : chan[n] = d
          BY <4>2 DEF OnChannels
        <5>2. chan'[n] = d
          BY <2>1, <5>1, CallsFinite DEF OnChannels, TypeOK
        <5> QED
          BY <2>1, <5>2 DEF OnChannels
      <4>3. c \in OnChannels(reused)'
        BY <2>1, <3>1 DEF OnChannels
      <4> QED
        BY <4>1, <4>2, <4>3
    <3>2. CASE lastName + 1 \notin reused
      BY <2>1, <3>2 DEF OnChannels, TypeOK
    <3> QED
      BY <3>1, <3>2
  <2> QED
    BY <2>1, <2>2, <2>3 DEF Promise!Arrive
<1>2. ASSUME NEW c \in Calls, SetCallId(c) PROVE UNCHANGED Promise!vars
  BY <1>2 DEF SetCallId, Asterisk, jobVars, Promise!vars, Live, OnChannels
<1>3. ASSUME NEW c \in Calls, DestroyChannel(c) PROVE Promise!Leave(c)
  <2>1. c \in Live /\ Destroyed(c) /\ UNCHANGED <<reused, call>>
    BY <1>3 DEF DestroyChannel, Asterisk, jobVars, Destroyed
  <2>2. Live' = Live \ {c} /\ OnChannels(reused)' = OnChannels(reused) \ {c}
    BY <2>1, DestroyedSeen DEF Live, TypeOK
  <2> QED
    BY <2>1, <2>2 DEF Promise!Leave
<1>4. ASSUME Reboot PROVE Promise!Restart
  <2>1. reused' \subseteq Names
    BY <1>0, <1>4, RebootStep DEF TypeOK
  <2>2. \A n \in Names : chan'[n] \notin Calls
    BY <1>4, CallsFinite DEF Reboot
  <2>3. Live' = {} /\ OnChannels(reused)' = {} /\ UNCHANGED call
    BY <1>4, <2>1, <2>2 DEF Reboot, Asterisk, jobVars, Live, OnChannels
  <2> QED
    BY <2>3 DEF Promise!Restart
<1>5. ASSUME NEW c \in Calls, Match(c) PROVE Promise!Ask(c)
  BY <1>5 DEF Match, Promise!Ask, RequestOK, asteriskVars, Live, OnChannels
<1>6. ASSUME UNCHANGED asteriskVars, call' = call PROVE UNCHANGED Promise!vars
  BY <1>6 DEF asteriskVars, Promise!vars, Live, OnChannels
<1>7. ASSUME UNCHANGED asteriskVars, call' = None, at # "idle" PROVE Promise!ServeNobody
  BY <1>7 DEF asteriskVars, Promise!ServeNobody, Live, OnChannels, RequestOK
<1>8. ASSUME FirstLook PROVE UNCHANGED Promise!vars
  BY <1>6, <1>8 DEF FirstLook, Continue
<1>9. ASSUME Resolved PROVE call' \in {call, None}
  BY <1>9 DEF Resolved, Fallback, Continue, Done
<1>10. ASSUME ProbeList PROVE UNCHANGED Promise!vars \/ Promise!ServeNobody
  BY <1>6, <1>7, <1>9, <1>10 DEF ProbeList, Continue
<1>11. ASSUME NEW n \in Names, ProbeNext(n)
       PROVE  UNCHANGED Promise!vars \/ Promise!ServeNobody
  BY <1>6, <1>7, <1>9, <1>11 DEF ProbeNext, Continue
<1>12. ASSUME NEW n \in Names, HangUp(n) PROVE chan[n] \in Calls /\ Promise!Serve(chan[n])
  <2>1. /\ at = "found" /\ n = byCallId[call] /\ chan[n] # None /\ chan[n] \in Calls
        /\ Destroyed(chan[n]) /\ call' = None /\ call # None
    BY <1>12 DEF HangUp, Target, Done, RequestOK, Refused, TypeOK
  <2>2. chan[n] \in Promise!MayEnd
    BY <2>1, FoundIsAsked
  <2>3. Live' = Live \ {chan[n]} /\ OnChannels(reused)' = OnChannels(reused) \ {chan[n]}
    BY <2>1, DestroyedSeen DEF Live, Destroyed, TypeOK
  <2> QED
    BY <2>1, <2>2, <2>3 DEF Promise!Serve
<1>13. ASSUME HangUpNobody PROVE Promise!ServeNobody
  BY <1>7, <1>13 DEF HangUpNobody, Done
<1>14. ASSUME UNCHANGED vars PROVE UNCHANGED Promise!vars
  BY <1>6, <1>14 DEF vars, jobVars
<1> QED
  BY <1>1, <1>2, <1>3, <1>4, <1>5, <1>8, <1>10, <1>11, <1>12, <1>13, <1>14 DEF Next, Promise!Next

\* Whatever Asterisk and its command line do, a request ends the call it names
\* or none, or, when that call ended with an earlier Asterisk, one on a reused
\* channel name: Actuator implements Hangups (actuator.py:75-78).
THEOREM ActuatorKeepsItsPromise == Spec => KillsTheCallOrNobody
<1>1. Init => Promise!Init
  BY PromiseInit
<1>2. IInv /\ [Next]_vars => [Promise!Next]_(Promise!vars)
  BY PromiseStep
<1> QED
  BY <1>1, <1>2, Invariance, PTL DEF Spec, KillsTheCallOrNobody, Promise!Spec
=============================================================================
