----------------------------- MODULE Killswitch -----------------------------
(***************************************************************************)
(* The killswitch and the firewall it shares a table with: killswitch.sh   *)
(* (on, on --hard, off, restore), firewall.sh (apply, confirm, clear and   *)
(* the auto-rollback timer) and the systemd unit that restores the state.  *)
(* Asterisk, systemd and nftables are modelled from how these use them.    *)
(***************************************************************************)
EXTENDS Naturals

CONSTANTS
    MaxTimers,   \* bound of this model: rollback timers alive at once
    MaxCrashes   \* bound of this model: Asterisk stops, crashes and reboots

ASSUME BoundsNat == MaxTimers \in Nat /\ MaxCrashes \in Nat

VARIABLES
    ast,       \* asterisk.service; its CLI answers only when "up"
    global,    \* SBC_KILLSWITCH in the running dialplan
    state,     \* /etc/sbc/killswitch.state
    table,     \* table inet sbc: absent, or the content of pk_blocked
    nftFile,   \* NFT_FILE, the table the next boot loads
    flag,      \* CONFIRM_FLAG exists
    timers,    \* rollback timers still asleep
    op,        \* the operator's killswitch command, and its next step
    fw,        \* the operator's firewall apply, and its next step
    unit,      \* sbc-killswitch.service, and the step of its restore
    seen,      \* S, the state restore read
    blockedEl, \* BLOCKED_EL, what apply read from the state file
    trial,     \* history: a ruleset with a timer was loaded, not yet confirmed;
               \* "booted" when it was a boot that loaded it, without one
    unproven,  \* history: NFT_FILE was applied with a timer, not yet confirmed
    overlap,   \* history: restore and an operator's command ran at once
    fwOverlap, \* history: an apply and a command or a restore ran at once
    crashes    \* how often Asterisk went away

cut == <<global, state, table>>
boot == <<nftFile, flag, timers, trial, unproven>>
fwVars == <<fw, blockedEl>>
hist == <<overlap, fwOverlap>>
vars == <<ast, cut, boot, op, fwVars, unit, seen, hist, crashes>>

Init ==
    /\ ast = "up" /\ global = 0 /\ state = "off" /\ unit = "done"
    /\ table \in {"absent", "open"}
    /\ nftFile = table
    /\ flag = "missing" /\ timers = 0 /\ trial = "no" /\ unproven = "no"
    /\ op = "idle" /\ fw = "idle" /\ blockedEl = "open" /\ seen = "off"
    /\ overlap = "no" /\ fwOverlap = "no" /\ crashes = 0

Block(t) == IF t = "absent" THEN t ELSE "blocked"
Unblock(t) == IF t = "absent" THEN t ELSE "open"

YesIf(b) == IF b THEN "yes" ELSE "no"
Restoring == unit \in {"global", "block"}

-----------------------------------------------------------------------------
(* killswitch.sh, as the operator runs it.                                 *)

\* The last step of each command, and what it writes.
WriteStep == [on |-> "write_on", hard |-> "write_hard", off |-> "write_off"]

Begin(cmd) ==
    /\ op = "idle"
    /\ op' = cmd
    /\ overlap' = YesIf(Restoring)
    /\ fwOverlap' = IF fw = "idle" THEN fwOverlap ELSE "yes"
    /\ UNCHANGED <<ast, cut, boot, fwVars, unit, seen, crashes>>

\* set_global: dies, and the command with it, when the CLI does not answer.
SetGlobal(from, value, to) ==
    /\ op = from
    /\ IF ast = "up" THEN global' = value /\ op' = to
                     ELSE op' = "idle" /\ UNCHANGED global
    /\ UNCHANGED <<ast, state, table, boot, fwVars, unit, seen, hist, crashes>>

OnGlobal == SetGlobal("on", 1, "write_on")
HardGlobal == SetGlobal("hard", 1, "block")
OffGlobal == SetGlobal("off", 0, "unblock")

\* Without the table the hard command dies here, the global already set.
HardBlock ==
    /\ op = "block"
    /\ op' = IF table = "absent" THEN "idle" ELSE "write_hard"
    /\ table' = Block(table)
    /\ UNCHANGED <<ast, global, state, boot, fwVars, unit, seen, hist, crashes>>

OffUnblock ==
    /\ op = "unblock" /\ op' = "write_off"
    /\ table' = Unblock(table)
    /\ UNCHANGED <<ast, global, state, boot, fwVars, unit, seen, hist, crashes>>

\* Mutant: the mode that is printed is also what is stored.
WriteStateMode(s) ==
    /\ op = WriteStep[s] /\ op' = "idle"
    /\ state' = IF s = "on" THEN "soft" ELSE s
    /\ UNCHANGED <<ast, global, table, boot, fwVars, unit, seen, hist, crashes>>

WriteState(s) ==
    /\ op = WriteStep[s] /\ op' = "idle"
    /\ state' = s
    /\ UNCHANGED <<ast, global, table, boot, fwVars, unit, seen, hist, crashes>>

-----------------------------------------------------------------------------
(* sbc-killswitch.service: sleep 10, then killswitch.sh restore.           *)

RestoreRead ==
    /\ unit = "sleeping"
    /\ unit' = "global"
    /\ seen' = state
    /\ overlap' = YesIf(op # "idle")
    /\ UNCHANGED <<ast, cut, boot, op, fwVars, fwOverlap, crashes>>

\* "set_global 1 || true": die is an exit of the script, which "|| true" does
\* not catch, so an Asterisk that does not answer yet fails the whole unit.
RestoreGlobal ==
    /\ unit = "global"
    /\ IF ast = "up" THEN /\ global' = IF seen = "off" THEN 0 ELSE 1
                          /\ unit' = IF seen = "hard" THEN "block" ELSE "done"
                     ELSE unit' = "failed" /\ UNCHANGED global
    /\ UNCHANGED <<ast, state, table, boot, op, fwVars, seen, hist, crashes>>

RestoreBlock ==
    /\ unit = "block" /\ unit' = "done"
    /\ table' = Block(table)
    /\ fwOverlap' = YesIf(fw # "idle")
    /\ UNCHANGED <<ast, global, state, boot, op, fwVars, seen, overlap, crashes>>

-----------------------------------------------------------------------------
(* firewall.sh.                                                            *)

\* Mutant: the ruleset is built without looking at the killswitch.
ApplyReadNothing ==
    /\ fw = "idle" /\ fw' = "install"
    /\ blockedEl' = "open"
    /\ fwOverlap' = YesIf(op # "idle" \/ Restoring)
    /\ UNCHANGED <<ast, cut, boot, op, unit, seen, overlap, crashes>>

ApplyRead ==
    /\ fw = "idle" /\ fw' = "install"
    /\ blockedEl' = IF state = "hard" THEN "blocked" ELSE "open"
    /\ fwOverlap' = YesIf(op # "idle" \/ Restoring)
    /\ UNCHANGED <<ast, cut, boot, op, unit, seen, overlap, crashes>>

ApplyInstall ==
    /\ fw = "install" /\ fw' \in {"arm", "load"}
    /\ nftFile' = blockedEl
    /\ unproven' = YesIf(fw' = "arm")
    /\ UNCHANGED <<ast, cut, flag, timers, trial, op, blockedEl, unit, seen, hist, crashes>>

\* Mutant: an older confirmation is left in place.
ApplyArmKeepsFlag ==
    /\ fw = "arm" /\ fw' = "load_armed"
    /\ timers < MaxTimers
    /\ timers' = timers + 1
    /\ UNCHANGED <<ast, cut, nftFile, flag, trial, unproven, op, blockedEl, unit, seen, hist, crashes>>

\* Skipped by --no-rollback.
ApplyArm ==
    /\ fw = "arm" /\ fw' = "load_armed"
    /\ timers < MaxTimers
    /\ timers' = timers + 1
    /\ flag' = "missing"
    /\ UNCHANGED <<ast, cut, nftFile, trial, unproven, op, blockedEl, unit, seen, hist, crashes>>

ApplyLoad ==
    /\ fw \in {"load", "load_armed"} /\ fw' = "idle"
    /\ table' = nftFile
    /\ trial' = YesIf(fw = "load_armed" \/ trial = "yes")
    /\ UNCHANGED <<ast, global, state, nftFile, flag, timers, unproven, op, blockedEl, unit, seen,
                   hist, crashes>>

Confirm ==
    /\ fw = "idle" /\ table # "absent"
    /\ flag' = "present" /\ trial' = "no" /\ unproven' = "no"
    /\ UNCHANGED <<ast, cut, nftFile, timers, op, fwVars, unit, seen, hist, crashes>>

Clear ==
    /\ fw = "idle"
    /\ table' = "absent"
    /\ flag' = "missing" /\ trial' = "no"
    /\ UNCHANGED <<ast, global, state, nftFile, timers, unproven, op, fwVars, unit, seen, hist, crashes>>

\* A timer tests the one shared flag, whichever apply armed it.  The 90
\* seconds of the one just armed outlast the load that follows.
TimerFires ==
    /\ timers > IF fw = "load_armed" THEN 1 ELSE 0
    /\ timers' = timers - 1
    /\ trial' = IF flag = "present" THEN trial ELSE "no"
    /\ table' = IF flag = "present" THEN table ELSE "absent"
    /\ UNCHANGED <<ast, global, state, nftFile, flag, unproven, op, fwVars, unit, seen, hist, crashes>>

-----------------------------------------------------------------------------
(* Asterisk and the machine.  The unit Requires=asterisk.service, so it is *)
(* stopped with it and restarted with it; a later start of Asterisk alone  *)
(* does not start it again.                                                *)

AsteriskGoes(toAst, toUnit) ==
    /\ ast # "down" /\ crashes < MaxCrashes
    /\ ast' = toAst /\ unit' = toUnit
    /\ global' = 0
    /\ crashes' = crashes + 1
    /\ UNCHANGED <<state, table, boot, op, fwVars, seen, hist>>

\* Mutant: the unit is ordered after Asterisk but does not require it.
AsteriskRestartAlone == AsteriskGoes("starting", unit)

\* systemctl restart, or a crash that systemd answers with one.  Only a unit
\* that is active is restarted along.
AsteriskRestart ==
    AsteriskGoes("starting", IF unit \in {"stopped", "failed"} THEN unit ELSE "sleeping")
AsteriskStop == AsteriskGoes("down", "stopped")

AsteriskStart ==
    /\ ast = "down" /\ ast' = "starting"
    /\ UNCHANGED <<cut, boot, op, fwVars, unit, seen, hist, crashes>>

AsteriskAnswers ==
    /\ ast = "starting" /\ ast' = "up"
    /\ UNCHANGED <<cut, boot, op, fwVars, unit, seen, hist, crashes>>

\* nftables.service loads NFT_FILE, confirmed or not; /run, timers and commands
\* are gone.
Reboot ==
    /\ crashes < MaxCrashes /\ crashes' = crashes + 1
    /\ ast' = "starting" /\ unit' = "sleeping" /\ global' = 0
    /\ table' = nftFile
    /\ flag' = "missing" /\ timers' = 0
    /\ trial' = IF unproven = "yes" THEN "booted" ELSE "no"
    /\ op' = "idle" /\ fw' = "idle"
    /\ overlap' = "no" /\ fwOverlap' = "no"
    /\ UNCHANGED <<state, nftFile, unproven, blockedEl, seen>>

Command ==
    \/ \E cmd \in {"on", "hard", "off"} : Begin(cmd) \/ WriteState(cmd)
    \/ OnGlobal \/ HardGlobal \/ OffGlobal \/ HardBlock \/ OffUnblock
Restore == RestoreRead \/ RestoreGlobal \/ RestoreBlock
Firewall == ApplyRead \/ ApplyInstall \/ ApplyArm \/ ApplyLoad \/ Confirm \/ Clear
Machine == AsteriskRestart \/ AsteriskStop \/ AsteriskStart \/ AsteriskAnswers \/ Reboot

Next == Command \/ Restore \/ Firewall \/ TimerFires \/ Machine

Spec == Init /\ [][Next]_vars

\* systemd runs its units, Asterisk comes up, sleeping timers wake, and an
\* apply that was started goes on.  Nothing makes an operator type.
FairSpec ==
    /\ Spec
    /\ WF_vars(Restore) /\ WF_vars(AsteriskAnswers)
    /\ WF_vars(TimerFires)
    /\ WF_vars(ApplyInstall \/ ApplyArm \/ ApplyLoad)

-----------------------------------------------------------------------------
(* Properties.                                                             *)

TypeOK ==
    /\ ast \in {"up", "starting", "down"}
    /\ global \in {0, 1} /\ state \in {"on", "hard", "off"}
    /\ table \in {"absent", "open", "blocked"}
    /\ nftFile \in {"absent", "open", "blocked"}
    /\ blockedEl \in {"open", "blocked"}
    /\ flag \in {"missing", "present"}
    /\ trial \in {"no", "yes", "booted"} /\ unproven \in {"no", "yes"}
    /\ timers \in 0..MaxTimers
    /\ op \in {"idle", "on", "hard", "off", "block", "unblock",
               "write_on", "write_hard", "write_off"}
    /\ fw \in {"idle", "install", "arm", "load", "load_armed"}
    /\ unit \in {"stopped", "sleeping", "global", "block", "done", "failed"}
    /\ seen \in {"on", "hard", "off"}
    /\ overlap \in {"no", "yes"} /\ fwOverlap \in {"no", "yes"}
    /\ crashes \in 0..MaxCrashes

\* No command is half done, and the last restore ran to its end.
Settled == op = "idle" /\ unit = "done"

\* With no command under way, the last restore successful and no restore
\* having run beside a command, a state file that says the customers are cut
\* off means the running dialplan refuses them (killswitch.sh:113-167).
CutIsLive == Settled /\ overlap = "no" /\ state # "off" => global = 1

\* Under the same conditions, and no apply having run beside a command, a
\* hard cut is in the live ruleset whenever there is one, through rebuilds,
\* rollbacks and reboots (killswitch.sh:159-163, firewall.sh:182-186).
HardCutIsInTheFirewall ==
    Settled /\ overlap = "no" /\ fw = "idle" /\ fwOverlap = "no" /\ state = "hard"
        => table # "open"

\* A ruleset loaded with a timer and never confirmed since goes away, whatever
\* was confirmed before it, unless the machine is booted before its timer fires
\* (firewall.sh:368-378).  The boot takes the timer and loads the ruleset from
\* the file that apply has written (363, 383-388), and it stays, though
\* firewall.sh:22-24 says "If the new rules lock you out, you get your box back
\* automatically."
RollbackHappens == trial = "yes" ~> (table = "absent" \/ trial # "yes")

\* A cut comes back by itself after Asterisk went away, unless its restore
\* failed or was stopped, or the operator is at it (install.sh:433-449).
CutComesBack ==
    (state # "off" /\ op = "idle")
        ~> (global = 1 \/ state = "off" \/ op # "idle" \/ overlap = "yes"
            \/ unit \in {"failed", "stopped"})

-----------------------------------------------------------------------------
(* What the comments say, and the code does not do.                        *)

\* killswitch.sh:38 "State is persisted so that a reboot, an Asterisk restart,
\* or a firewall rebuild cannot silently turn customer traffic back on."
RestartKeepsTheCut ==
    op = "idle" /\ ast = "up" /\ unit \in {"done", "failed", "stopped"}
        /\ state # "off" => global = 1

\* sbc-build-prompt.md:139 "killswitch.sh off restores service."
OffRestoresService ==
    Settled /\ overlap = "no" /\ fw = "idle" /\ fwOverlap = "no" /\ state = "off"
        => table # "blocked"
=============================================================================
