-------------------------- MODULE KillswitchProofs --------------------------
(* What TLAPS proves of Killswitch, for any number of timers and restarts. *)
EXTENDS Killswitch, TLAPS

\* Each command ends by writing the state of its own name.
LEMMA WriteSteps ==
    /\ WriteStep["on"] = "write_on"
    /\ WriteStep["hard"] = "write_hard"
    /\ WriteStep["off"] = "write_off"
BY DEF WriteStep

Commands == {"on", "hard", "off"}

(***************************************************************************)
(* Types.                                                                  *)
(***************************************************************************)
LEMMA TypeInit == Init => TypeOK
BY BoundsNat DEF Init, TypeOK

LEMMA TypeStep == TypeOK /\ [Next]_vars => TypeOK'
<1> SUFFICES ASSUME TypeOK, [Next]_vars PROVE TypeOK'
    OBVIOUS
<1> USE BoundsNat DEF TypeOK, hist, cut, boot, fwVars, YesIf
<1>1. CASE Command
  <2>1. ASSUME NEW cmd \in Commands, Begin(cmd) PROVE TypeOK'
    BY <2>1 DEF Begin, Commands, Restoring
  <2>2. ASSUME NEW cmd \in Commands, WriteState(cmd) PROVE TypeOK'
    BY <2>2 DEF WriteState, Commands
  <2>3. CASE OnGlobal
    BY <2>3 DEF OnGlobal, SetGlobal
  <2>4. CASE HardGlobal
    BY <2>4 DEF HardGlobal, SetGlobal
  <2>5. CASE OffGlobal
    BY <2>5 DEF OffGlobal, SetGlobal
  <2>6. CASE HardBlock
    BY <2>6 DEF HardBlock, Block
  <2>7. CASE OffUnblock
    BY <2>7 DEF OffUnblock, Unblock
  <2> QED
    BY <1>1, <2>1, <2>2, <2>3, <2>4, <2>5, <2>6, <2>7 DEF Command, Commands
<1>2. CASE Restore
  <2>1. CASE RestoreRead
    BY <2>1 DEF RestoreRead
  <2>2. CASE RestoreGlobal
    BY <2>2 DEF RestoreGlobal
  <2>3. CASE RestoreBlock
    BY <2>3 DEF RestoreBlock, Block
  <2> QED
    BY <1>2, <2>1, <2>2, <2>3 DEF Restore
<1>3. CASE Firewall
  <2>1. CASE ApplyRead
    BY <2>1 DEF ApplyRead, Restoring
  <2>2. CASE ApplyInstall
    BY <2>2 DEF ApplyInstall
  <2>3. CASE ApplyArm
    BY <2>3 DEF ApplyArm
  <2>4. CASE ApplyLoad
    BY <2>4 DEF ApplyLoad
  <2>5. CASE Confirm
    BY <2>5 DEF Confirm
  <2>6. CASE Clear
    BY <2>6 DEF Clear
  <2> QED
    BY <1>3, <2>1, <2>2, <2>3, <2>4, <2>5, <2>6 DEF Firewall
<1>4. CASE TimerFires
  BY <1>4 DEF TimerFires
<1>5. CASE Machine
  <2>1. CASE AsteriskRestart
    BY <2>1 DEF AsteriskRestart, AsteriskGoes
  <2>2. CASE AsteriskStop
    BY <2>2 DEF AsteriskStop, AsteriskGoes
  <2>3. CASE AsteriskStart
    BY <2>3 DEF AsteriskStart
  <2>4. CASE AsteriskAnswers
    BY <2>4 DEF AsteriskAnswers
  <2>5. CASE Reboot
    BY <2>5 DEF Reboot
  <2> QED
    BY <1>5, <2>1, <2>2, <2>3, <2>4, <2>5 DEF Machine
<1>6. CASE UNCHANGED vars
  BY <1>6 DEF vars
<1> QED
  BY <1>1, <1>2, <1>3, <1>4, <1>5, <1>6 DEF Next

\* Every variable of the killswitch and the firewall stays in its set, and no
\* more timers and restarts happen than the model allows.
THEOREM KillswitchTypeCorrect == Spec => []TypeOK
  BY TypeInit, TypeStep, PTL DEF Spec


(***************************************************************************)
(* The state file and the running dialplan.                                *)
(*                                                                         *)
(* CutIsLive is not inductive: a command sets the global several steps     *)
(* before it writes the state, and restore acts on a state it read some    *)
(* steps ago.  CutInv says what is true in between.                        *)
(***************************************************************************)

\* A restore that got past its set_global found Asterisk answering.
UnitFoundAsterisk == unit \in {"block", "done"} => ast = "up"

\* Without overlap, what restore is about to act on is what is stored.
RestoreActsOnTheFile == unit = "global" /\ overlap = "no" => op = "idle" /\ seen = state

\* Between commands a stored cut is live; during "on" it is live before it
\* is stored.
CutBeforeFile ==
    unit \in {"block", "done"} /\ overlap = "no" =>
        /\ op = "idle" /\ state # "off" => global = 1
        /\ op \in {"block", "write_on", "write_hard"} => global = 1

CutInv == UnitFoundAsterisk /\ RestoreActsOnTheFile /\ CutBeforeFile

LEMMA CutInit == Init => CutInv
BY DEF Init, CutInv, UnitFoundAsterisk, RestoreActsOnTheFile, CutBeforeFile

LEMMA CutStep == TypeOK /\ CutInv /\ [Next]_vars => CutInv'
<1> SUFFICES ASSUME TypeOK, CutInv, [Next]_vars PROVE CutInv'
    OBVIOUS
<1> USE DEF TypeOK, CutInv, UnitFoundAsterisk, RestoreActsOnTheFile, CutBeforeFile,
            hist, cut, boot, fwVars, YesIf
<1>1. CASE Command
  <2>1. ASSUME NEW cmd \in Commands, Begin(cmd) PROVE CutInv'
    BY <2>1 DEF Begin, Commands, Restoring
  <2>2. ASSUME NEW cmd \in Commands, WriteState(cmd) PROVE CutInv'
    BY <2>2, WriteSteps DEF WriteState, Commands
  <2>3. CASE OnGlobal
    BY <2>3 DEF OnGlobal, SetGlobal
  <2>4. CASE HardGlobal
    BY <2>4 DEF HardGlobal, SetGlobal
  <2>5. CASE OffGlobal
    BY <2>5 DEF OffGlobal, SetGlobal
  <2>6. CASE HardBlock
    BY <2>6 DEF HardBlock
  <2>7. CASE OffUnblock
    BY <2>7 DEF OffUnblock
  <2> QED
    BY <1>1, <2>1, <2>2, <2>3, <2>4, <2>5, <2>6, <2>7 DEF Command, Commands
<1>2. CASE Restore
  <2>1. CASE RestoreRead
    BY <2>1 DEF RestoreRead
  <2>2. CASE RestoreGlobal
    BY <2>2 DEF RestoreGlobal
  <2>3. CASE RestoreBlock
    BY <2>3 DEF RestoreBlock
  <2> QED
    BY <1>2, <2>1, <2>2, <2>3 DEF Restore
<1>3. CASE Firewall
  BY <1>3 DEF Firewall, ApplyRead, ApplyInstall, ApplyArm, ApplyLoad, Confirm, Clear
<1>4. CASE TimerFires
  BY <1>4 DEF TimerFires
<1>5. CASE Machine
  <2>1. CASE AsteriskRestart \/ AsteriskStop
    BY <2>1 DEF AsteriskRestart, AsteriskStop, AsteriskGoes
  <2>2. CASE AsteriskStart \/ AsteriskAnswers
    BY <2>2 DEF AsteriskStart, AsteriskAnswers
  <2>3. CASE Reboot
    BY <2>3 DEF Reboot
  <2> QED
    BY <1>5, <2>1, <2>2, <2>3 DEF Machine
<1>6. CASE UNCHANGED vars
  BY <1>6 DEF vars
<1> QED
  BY <1>1, <1>2, <1>3, <1>4, <1>5, <1>6 DEF Next

\* Whatever the order of commands, restores, crashes, rebuilds and timers:
\* with no command half done and the last restore successful and undisturbed,
\* a stored cut is in force in the running dialplan (killswitch.sh:113-167).
THEOREM StoredCutIsLive == Spec => []CutIsLive
<1>1. TypeOK /\ CutInv => CutIsLive
  BY DEF CutInv, CutBeforeFile, CutIsLive, Settled
<1> QED
  BY <1>1, TypeInit, TypeStep, CutInit, CutStep, PTL DEF Spec

(***************************************************************************)
(* The state file and the ruleset.  An apply reads the state and loads the *)
(* ruleset built from it three steps later; HardInv says what holds on the *)
(* way, as long as no command or restore ran beside it.                    *)
(***************************************************************************)

\* A command beside an apply is always noticed.
OverlapNoticed == fwOverlap = "no" /\ op # "idle" => fw = "idle"

\* A hard cut is in the ruleset an undisturbed apply is carrying.
ApplyCarriesTheCut ==
    fwOverlap = "no" /\ state = "hard" =>
        /\ fw = "install" => blockedEl = "blocked"
        /\ fw \in {"arm", "load", "load_armed"} => nftFile = "blocked"

\* The live ruleset, between commands and before "hard" is written.
RulesetHasTheCut ==
    unit = "done" /\ overlap = "no" /\ fwOverlap = "no" /\ fw = "idle" =>
        /\ op = "idle" /\ state = "hard" => table # "open"
        /\ op = "write_hard" => table # "open"

HardInv == OverlapNoticed /\ ApplyCarriesTheCut /\ RulesetHasTheCut

LEMMA HardInit == Init => HardInv
BY DEF Init, HardInv, OverlapNoticed, ApplyCarriesTheCut, RulesetHasTheCut

LEMMA HardStep == TypeOK /\ CutInv /\ HardInv /\ [Next]_vars => HardInv'
<1> SUFFICES ASSUME TypeOK, CutInv, HardInv, [Next]_vars PROVE HardInv'
    OBVIOUS
<1> USE DEF TypeOK, HardInv, OverlapNoticed, ApplyCarriesTheCut, RulesetHasTheCut,
            hist, cut, boot, fwVars, YesIf
<1>1. CASE Command
  <2>1. ASSUME NEW cmd \in Commands, Begin(cmd) PROVE HardInv'
    BY <2>1 DEF Begin, Commands, Restoring
  <2>2. ASSUME NEW cmd \in Commands, WriteState(cmd) PROVE HardInv'
    BY <2>2, WriteSteps DEF WriteState, Commands
  <2>3. CASE OnGlobal
    BY <2>3 DEF OnGlobal, SetGlobal, CutInv, UnitFoundAsterisk
  <2>4. CASE HardGlobal
    BY <2>4 DEF HardGlobal, SetGlobal, CutInv, UnitFoundAsterisk
  <2>5. CASE OffGlobal
    BY <2>5 DEF OffGlobal, SetGlobal, CutInv, UnitFoundAsterisk
  <2>6. CASE HardBlock
    BY <2>6 DEF HardBlock, Block
  <2>7. CASE OffUnblock
    BY <2>7 DEF OffUnblock
  <2> QED
    BY <1>1, <2>1, <2>2, <2>3, <2>4, <2>5, <2>6, <2>7 DEF Command, Commands
<1>2. CASE Restore
  <2>1. CASE RestoreRead
    BY <2>1 DEF RestoreRead
  <2>2. CASE RestoreGlobal
    BY <2>2 DEF RestoreGlobal, CutInv, RestoreActsOnTheFile
  <2>3. CASE RestoreBlock
    BY <2>3 DEF RestoreBlock, Block
  <2> QED
    BY <1>2, <2>1, <2>2, <2>3 DEF Restore
<1>3. CASE Firewall
  <2>1. CASE ApplyRead
    BY <2>1 DEF ApplyRead
  <2>2. CASE ApplyInstall
    BY <2>2 DEF ApplyInstall
  <2>3. CASE ApplyArm
    BY <2>3 DEF ApplyArm
  <2>4. CASE ApplyLoad
    BY <2>4 DEF ApplyLoad
  <2>5. CASE Confirm \/ Clear
    BY <2>5 DEF Confirm, Clear
  <2> QED
    BY <1>3, <2>1, <2>2, <2>3, <2>4, <2>5 DEF Firewall
<1>4. CASE TimerFires
  BY <1>4 DEF TimerFires
<1>5. CASE Machine
  <2>1. CASE AsteriskRestart \/ AsteriskStop
    BY <2>1 DEF AsteriskRestart, AsteriskStop, AsteriskGoes
  <2>2. CASE AsteriskStart \/ AsteriskAnswers
    BY <2>2 DEF AsteriskStart, AsteriskAnswers
  <2>3. CASE Reboot
    BY <2>3 DEF Reboot
  <2> QED
    BY <1>5, <2>1, <2>2, <2>3 DEF Machine
<1>6. CASE UNCHANGED vars
  BY <1>6 DEF vars
<1> QED
  BY <1>1, <1>2, <1>3, <1>4, <1>5, <1>6 DEF Next

\* A stored hard cut is in the live ruleset whenever there is one, through any
\* sequence of rebuilds, rollbacks and reboots, when no apply, restore and
\* command ran beside each other (killswitch.sh:159-163, firewall.sh:182-186).
THEOREM HardCutStays == Spec => []HardCutIsInTheFirewall
<1>1. HardInv => HardCutIsInTheFirewall
  BY DEF HardInv, RulesetHasTheCut, HardCutIsInTheFirewall, Settled
<1> QED
  BY <1>1, TypeInit, TypeStep, CutInit, CutStep, HardInit, HardStep, PTL DEF Spec
=============================================================================
