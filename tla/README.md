# Formal models of the wholesale SBC

This directory holds TLA+ models of the SBC in this repository, the TLC
configurations that check them on small instances, and TLAPS proofs of the
results that should hold for every instance.

The SBC is one Asterisk box between wholesale customers and FracTEL's proxies.
A call is a channel: a thread that runs the dialplan of
`asterisk/extensions.conf.tpl` one priority at a time. Everything two calls can
disagree about is shared state outside the channel: channel groups, global
variables, named locks and the AstDB. Shell scripts of an operator, systemd
units and timers work on the same state through `asterisk -rx`, `nft` and
files. PhraseGuard is a separate daemon that listens to the wire and asks
Asterisk to hang calls up.

## 1. Inventory

| part | state it keeps | operations | what is hard |
|---|---|---|---|
| DID pool, `[sbc-did]` and its caller | rotor global per pool, `did_<DID>` locks, `sbc/didcnt/<day>/<DID>` in AstDB | pick; `didctl.sh set`, `reset`, `prune` | check-then-increment between channels, a pick that goes on without its lock, cancels with a lock held, midnight, restarts, a number in several pools |
| Admission throttles, step 4-5 | groups `cps` and `cust` | join, count, leave | SETs and COUNTs of many channels and the clock in any order |
| Gateway loop, step 9 | rotor global, group `gwcps`, `RINGTIME_MS` left on the channel | skip, dial, classify, fail over | two counters and one ring index, stale results of the previous attempt, never dialling a consumer twice |
| Transfer detection and learning, step 7 and `h` | `sbc/xfer/<endpoint>/<destination>`, `xfer_*` locks | read on the call path, read-modify-write at hangup; `didctl.sh transfers`, `prune` | the row is read before the lock and written without needing it; operators and prune take no lock |
| Killswitch | `SBC_KILLSWITCH`, state file, `pk_blocked` set | on, on --hard, off, restore | a runtime global that an Asterisk restart forgets, a restore unit that must bring it back, commands that fail half way |
| Firewall | table `inet sbc`, `NFT_FILE`, confirm flag, rollback timers | apply, confirm, clear | several timers and one flag, rebuilds and reboots during a hard cut |
| Checks of destination, caller ID, blocklist, step 2-4 | none | refuse or go on | boundaries of number formats, longest prefix |
| Portal verdicts | `portal/*` in AstDB, written from outside | read | stale or half-written verdicts |
| `didctl.sh` pools, `sync-globals` | pool globals | set many globals one by one | calls walk a pool while it changes |
| PhraseGuard tap | calls by Call-ID, media address to Call-ID, streams | SIP and RTP packets, expiry | reordering, port reuse, attribution that succeeds late, bounded memory |
| PhraseGuard actuator | channels by name, Call-ID to name | refresh, probe, resolve, hang up | cached names and Call-IDs, CLI failures that look like an empty box |
| PhraseGuard daemon | sessions, counted calls, phrase list, grammar, lock | audio, matches, housekeeping, reload, shutdown | limits, a call counted once, reload beside an editor, two copies, how a process ends and whether it is started again |
| PhraseGuard recorder | evidence log, 24-hour counters and their file, last alert | log, count, save, load, alert | what a crash or a second copy loses, ageing, alerts once per interval |
| PhraseGuard matcher | call window, reported spans, what fired | match, score, evict | one utterance reported once however speech is cut and the window rolls; the banded distance; near misses before the phrase |
| PhraseGuard recogniser | grammar, pending words | hear | words the grammar lacks, words never returned |
| `fractel-order.py` | state file, the carrier's account and trunk | diff, plan, order, assign | death between a sale and its record, lost answers, re-runs that share one stock |
| `analyze-did-capacity.py` | none; reads call records | demand, reallocation, overflow need, purchase | moves that would cost calls, refused calls as demand |
| Renderer, installer | configuration files | render, install | clamps and positional identities others rely on |
| Monitoring, capture tools, tests | none of their own | report | - |

They interact as follows. A call passes admission, then transfer detection (a
read of the learning table), then the DID pool or not, then the gateway loop,
and teaches the learning table when it ends. `didctl.sh` writes the DID
counters and the learning table beside the calls, never under their locks. The
killswitch and the firewall share the table's blocked set and the state file;
`sbc-killswitch.service` connects them to Asterisk's life cycle. PhraseGuard
reads SIP and RTP, resolves a Call-ID to a channel through the CLI and requests
its hangup; what it heard and matched becomes the evidence log, the 24-hour
counters and their alerts. Two offline tools decide what the pools hold:
`fractel-order.py` buys numbers and binds them to the trunk,
`analyze-did-capacity.py` computes from the call records which pool needs how
many.

## 2. Modules

| module | models | checked by |
|---|---|---|
| `DidBudget` | what a DID pick promises the rest of the dialplan, an abstract specification | a theorem of `DidPoolProofs` |
| `DidPool` | DID selection under the daily cap, `didctl.sh` on the counters; implements `DidBudget` | `DidPool_shared` |
| `DidPoolProofs` | its theorems | |
| `Admission` | calls per second, concurrent calls | `CustomerCall`, and `CustomerCallProofs` |
| `CustomerCall` | composes `Admission` with the DID choice (one step) and the gateway loop | `CustomerCall`, `ThrottledCallKeepsAllowance` |
| `CustomerCallProofs` | theorems about both | |
| `TransferLearning` | learned transfer destinations | `TransferLearning`, `SuppressedIsNeverRelearned` |
| `TransferLearningProofs` | its theorems | |
| `Killswitch` | killswitch, firewall, their unit and timers | `Killswitch`, `RestartKeepsTheCut`, `OffRestoresService` |
| `KillswitchProofs` | its theorems | |
| `Hangups` | what the actuator promises the daemon, an abstract specification | as a property of `Actuator` |
| `Actuator` | channel table, resolver and hangup of `phraseguard/actuator.py`; implements `Hangups` | `Actuator` |
| `ActuatorProofs` | its theorems, the refinement among them | |
| `Tap` | SIP tracker and RTP demultiplexer of `phraseguard/tap.py`; operators, no Next | through `PhraseGuard` |
| `PhraseGuard` | composes `Tap` and `Hangups` with the daemon, its sessions and counted calls | `PhraseGuard` |
| `PhraseGuardProofs` | its theorems, that it uses `Hangups` as promised among them | |
| `Matcher` | `matcher.py` up to the list of matches: phrase list, index, distance, spans, tiers, vetoes; operators | through `Daemon` |
| `CallWindow` | the call window and the B scorer; operators on a window record | through `Daemon` |
| `Recency` | rows not older than a limit, of a window and of the counters; one operator | through `Daemon` |
| `Counters` | the 24-hour counters, rates and alerts of one customer; operators | through `Daemon` |
| `Daemon` | composes them with `phraseguardd.py`, its unit, lock, state file and a second copy | `Daemon` |
| `DaemonProofs` | its theorems, and what they need of the other four | |
| `FractelOrder` | `fractel-order.py` beside the carrier's account | `Tools` |
| `Capacity` | `analyze-did-capacity.py` on the records of any days | `Tools` |
| `Tools` | the two tools, one at work in each behaviour | `Tools` |
| `ToolsProofs` | its theorems, of either tool, and about sums | |
| `MC*` | constants and symmetry of TLC's instances | |

Grain of atomicity: one action is one access to shared state. A priority that
reads a global and the next that writes it are two actions; computations on
channel variables ride along with the access before or after them. A shell
script is one action per command that touches shared state. A call may be
cancelled between any two priorities.

Names follow the code: `rot`, `i`, `cand`, `tries`, `used`, `did` of `DidPool`
are `SBC_P_ROT`, `SBC_P_I`, `SBC_P_CAND`, `SBC_P_TRIES`, `SBC_P_USED`,
`SBC_DID`; `gwrot`, `idx`, `skip`, `try`, `ring` of `CustomerCall` are
`SBC_GWROT`, `SBC_GWIDX`, `SBC_GWSKIP`, `SBC_TRY`, `RINGTIME_MS`. Variables
commented `history` are not in the code: they record what the properties ask
about (which calls were charged to a number, what the operator last decided).
An operator whose comment begins with `Mutant:` is a faulty variant of the
definition below it, kept to show that the property it breaks can be broken.

What is taken from outside the repository, from how the code uses it: Asterisk
groups (a channel is in one group of a category and leaves when destroyed),
func_lock (TRYLOCK never blocks here, a destroyed channel releases its locks),
AstDB (one key is read or written atomically, a CLI command is atomic), the
outcomes of `Dial()`, systemd's `Requires=`, `After=`, `Restart=` and start
limit, nftables loading `NFT_FILE` at boot, flock (released when its process
ends), the recogniser (returns words of its grammar at the end of an utterance),
the carrier's API (sells what it still can of an order; has no order id).

### DidPool

`Start` is step 7's `SBC_DAY` and the first Gosub; `ReadRotor` .. `Release` are
`[sbc-did]`; `Return` is the fall-through to overflow and to `rej_nodid`.
`Hangup` and `Teardown` are a cancel: between them the lock is still held.
`Midnight` allows a pick to see one midnight (a pick lasts a second at most).

- `CapOvershoot`: a number whose counter no operator wrote carries at most
  `Cap` calls a day, plus `Cap` for each pick that went on without the lock.
- `CountersExact`: while no pick of a number was unlocked, its counter is the
  number of calls it carried, across cancels, restarts, midnight and prune.
- `OneLockAtATime`: no channel holds one number's lock while looking at another.
- `RejectedOnlyWhenExhausted`: a refusal means every number of both pools is
  spent, although rotors race and numbers are shared between pools.
- `PickEnds`: every pick ends.

`DidBudget` is the pick without its walk: a book of which calls went out on
which number each day. A call is entered once, within the number's budget (the
cap, and as much again per unlocked pick), or refused when the numbers it could
have had are used up; nothing is ever struck out. `KeepsTheBook` says `DidPool`
implements it: `Entered` reads the book off the calls charged, `Written` off the
operator's writes, `Refused` off the program counters. The write of the counter
is the entry, the return from overflow with nothing the refusal. The budget
asked of a locked pick is that of `CapOvershoot` before the entry, so the book
also says which step may overrun it.

The comment at extensions.conf.tpl:801 speaks of "undercounting one call" per
unlocked pick. That is more than the code does: the pick writes back a count
read before others moved on, so one unlocked pick can erase several calls.
`CapOvershoot` is therefore stated with a whole cap per unlocked pick, which is
what the theorem `DailyCap` proves.

### Admission and CustomerCall

`Admission` holds the two throttles with `GROUP` and `GROUP_COUNT` as separate
actions and a clock that ticks at any time. `CustomerCall` extends it: `Draw`
stands for transfer detection and the DID choice, whose detail is in the other
modules; the rest is step 9 action by action. `Dial()` returns with any status,
ring and duration app_dial can report; statuses the dialplan does not tell
apart are one.

- `ConcurrencyCap`: never more admitted calls of an endpoint up than its limit.
- `CpsCap`: at most `MaxCps` calls of one second pass the rate check. It is
  proved for every number of calls; the run has too few to exceed it.
- `GatewayGrant`: the grant per gateway and charged second.
- `InvitesCounted`: never more than `MaxAttempts` INVITEs, and
  `ALL_GATEWAYS_FAILED` only after all of them.
- `DeclineIsThisAttempts`: a call is given up as declined because of the
  attempt just made.
- `RedialledOnTrunkFailure`: a second INVITE only follows a CONGESTION or a fast
  CHANUNAVAIL that did not ring.
- `DialEnds`: the loop ends.

`ThrottledCallKeepsAllowance` (extensions.conf.tpl:28) is violated: the
per-gateway check refuses with `CPS_LIMIT` after the DID was charged.

The dialplan also dials some consumers twice, which no property forbids:
`RedialledOnTrunkFailure` allows it because the code does it. The classification
tests for CONGESTION (559) before it looks at the ring time, so a call whose
phone rang and that then got a 503 goes to the next gateway.
extensions.conf.tpl:23-24 says "failover capped at SBC_MAX_ATTEMPTS INVITEs and
refused after ringing", 556-558 of a CONGESTION "The call did not reach a
consumer", and README.md:513-514 of the repository that the rejection "is decided
on ringing rather than on `DIALSTATUS`".

### TransferLearning

- `RowIsASetOfCalls`: whatever updates are lost, a row is the count and the
  seconds of some set of answered calls.
- `LearnedHasEvidence`: a destination is learned only from enough counted calls.
- `DecisionStands`: an operator's pin or suppression stands, unless a handler
  or a prune had read the row before it.

`SuppressedIsNeverRelearned` (extensions.conf.tpl:732) is violated by exactly
that race. Prune is modelled for the learning rows only; that
`didctl.sh prune` returns early on a box without any DID counter is left out.

### Killswitch

`op` is the operator's command with its next step, `unit` the restore unit,
`fw` a firewall apply; each step of each can interleave with the others and
with Asterisk's or the machine's restart.

- `CutIsLive`: once commands and the restore have run, a stored cut is in the
  running dialplan.
- `HardCutIsInTheFirewall`: likewise a hard cut in the loaded ruleset.
- `RollbackHappens`: an unconfirmed ruleset goes away, whatever was confirmed
  before it, unless the machine is booted before its timer fires.
- `CutComesBack`: the restore brings the cut back unless it failed, was stopped
  or the operator intervened.

`RestartKeepsTheCut` (killswitch.sh:38) is violated: `Requires=` stops the unit
with Asterisk and nothing starts it again with a later start.
`OffRestoresService` (sbc-build-prompt.md:139) is violated: a ruleset file
written during a hard cut brings the block back at the next boot.

The promised rollback has a hole, which is why `RollbackHappens` excepts a boot:
`apply` writes `NFT_FILE` before anything is confirmed (firewall.sh:363), and
nftables.service loads it at every boot (383-388, install.sh:454). A boot in the
90 seconds brings the unconfirmed ruleset back with no timer left, and so does
one after the rollback. firewall.sh:22-24 says "If the new rules lock you out, you
get your box back automatically.", and 399-400 "If you cannot get back in, do
nothing". In the model `unproven` says that the file was never confirmed, and
`trial` is `"booted"` while such a ruleset is at work.

### Actuator and Hangups

One action is one `asterisk -rx` command with the computation up to the next:
`FirstLook` is the refresh and first lookup of `resolve`, `ProbeList` and
`ProbeNext` are `probe_all`, `HangUp` and `HangUpNobody` end the request.
Between two commands `CreateChannel`, `SetCallId`, `DestroyChannel` and
`Reboot` happen in any order. `AsteriskCLI.rx` reports every failure as empty
output, so each command may fail: a listing that failed shows an empty box, a
probe that failed leaves the channel as it was, a hangup that failed ends
nothing. A refresh within `list_ttl` does nothing, and time is left out, so
`Refresh` may always do nothing.

Abstractions: the calls have one endpoint, dialled number and age, which is the
worst case for the heuristic (every channel in the table fits); only the
customer channels are listed, as `endpoints` lets only those be probed; the
bound of 32 probes per request is not reached.

- `CacheCoherent`: the index of Call-IDs names only channels the table holds
  under that Call-ID.
- `KillsTheCallOrNobody`: the actuator implements `Hangups`, under `live` = the
  calls on a channel, `twice` = those on a name given out before a restart,
  `asked` = the call of the request. Of the live calls a request ends the one
  it names or none. The promise has one hole, which the code has too: after an
  Asterisk restart a channel name starts over, the cache still holds the
  Call-ID the name had, and a request for that call ends the call that has the
  name now. Enforcement without the heuristic is needed for the rest;
  `preflight` refuses the combination, and the mutant that allows it breaks the
  property.

### Tap and PhraseGuard

`ReadSip` and `ReadRtp` are one turn of `Tap.run` for a packet, housekeeping
runs between packets, and while a request is with the actuator the daemon reads
nothing (it has one thread): `asked` is set by `Speech` and cleared by `HungUp`
or `NotHungUp`, which are `Hangups!Serve` and `ServeNobody`. A packet may be
dropped before the capture (`Send`), and up to `WireCap` are read late, while
calls come and go. `Crash` is the daemon's end and its restart by systemd.

Abstractions: one customer socket and SSRC per call, so a Call-ID stands for
both; time is abstract, so an expiry (two minutes after the end of a call, an
idle stream) may come at any packet, but no call lasts the two hours after
which the tracker forgets a call that never ended; the energy gate and the
recogniser are a choice (`Quiet`, `Speech` with or without a match); carrier
legs and Tier A-near and B matches, which only write records, are left out.

- `KillsTheSpeaker`: a call is hung up for what was said on it. There are two
  ways around that: the speaker is a customer still sending to the SBC port of
  an earlier call that the victim has now, or the reused channel name above.
- `LiveCallIsFindable`: a live call whose SDP answer was read since the tracker
  took it up is found by its port, whoever had the port before and whenever
  they expire.
- `CountedOnce`: a call stays in `counted_calls` while the tracker knows it.

Behaviour the model shows and no property forbids, because nothing in the
repository promises otherwise: a 4xx to a request within a call marks the live
call ended, and two minutes later it is forgotten (tap.py:396).

### Matcher, CallWindow, Counters and Daemon

`Matcher` follows `match()`: `Woken` finds the phrases whose trigger words occur
from `max_span` words before the new ones, `Readings` scores their spans, `Tier`
ranks the best reading, `Kept` applies the Tier X veto, `Chosen` suppresses
overlaps, `Before` orders the report; a sort by a key is `InOrder`, which puts an
element at the place that as many others precede. Scores are per mille; `Levenshtein` fills
the band of the table row by row in two buffers used in turn, as the code does,
so that what a buffer still holds of two rows before is part of the model. Words
are model values with a spelling and a sound, both constants: the spelling is
what distances are taken of, the sound what metaphone.py would return.

`CallWindow` holds places relative to the window in `tokens` and absolute ones
in `reported`, and evicts by age and number like `_evict`. `Counters` is one
customer's events.

`Daemon` is one thread per process, so `OnAudio` is a whole turn: session, call
count, recogniser, window, matches in order, scorer, counters, log.
`ReloadReads` and `Housekeep` are one housekeeping pass, with the moment between
the read of the phrase list and its stat in between. `Build` is the constructor
(phrase list, counters, grammar, before any lock), `TakeLock` is `main`'s lock
and preflight, `Opens` tcpdump's first packet, `CaptureFails` and `CaptureEnds`
the two ways it ends, `UnitStarts` and `GivesUp` systemd's. `left` is the budget
of a behaviour and part of `Init`: each plan in `Plans` spends its steps on one
question (what is heard; a rolling window; edits; crashes; a second copy;
writes that fail), which
keeps every question's state space small without leaving any action out.

`disk` is what can be written, the day's log and the state file, and
`DiskChanges` changes it between two handlers. `save()`, `load()` and
`Recorder.event()` swallow every error: `Save` then leaves the file as it was,
`Readable` may come out empty, and an event is an entry of `log` that is not
`written`. So `log` has every event handed to the recorder, in the order of the
handler, which counts a match before it logs it (phraseguardd.py:253-254). The
copy syslog may have of a line is not modelled. `base` is what a process last
read from the state file or wrote to it, `LastSave` the save of `shutdown`, which
nothing repeats, and `lost` a history of what is gone: counts of the last day
not saved when a process was killed or when its last save failed, and rows of
the file that a process saved over without having read them.

- `ReportsDoNotOverlap`: two reports of one phrase on one stream are of
  different words, however the window rolled.
- `ConfidentPhraseFires`: however speech is cut into utterances, a Tier A phrase
  heard word for word has been reported at Tier A, on some of these words, when
  its last word is heard. It speaks of phrases whose thresholds a score can meet
  and, for a brand, that are no longer than the spans it is tried on
  (`Fireable`); the known exceptions are four named definitions, below. That
  "some of these words" are enough is how the code deduplicates: of a phrase said
  twice with words in common the second time is not a report of its own.
- `CrossingIsReported`: a window over the threshold on a new category has said
  so, unless a suppressor just grew too old.
- `DistanceIsExact`: the banded distance is the edit distance within its cap,
  against the full table as reference.
- `EvidenceKept`: counters and log tell the same story across restarts, ageing
  and saves. What is counted has its line in the log, but for lines that could
  not be written; and what the live copy reported in the last day is counted,
  line or no line, unless it is `lost`, or the copy is not up to date with the
  file. While only saves fail that a later one repeats, nothing is lost.
- `OverRateIsAlerted`: after each housekeeping of a live copy that is up to date,
  if the log shows a rate over a limit, of at least as many calls as the setting
  asks for, then the log has an alert within the interval. The rate is of what
  the log shows, not of the counters: matches of known streams in the last day,
  over the calls of the record or those the log names if they are more. "Up
  to date" includes that nothing was `lost`, to a failed last save as little as to
  a crash; and the log is of what was reported, written or not. So it
  would not hold if an event or a call were lost on the way from a match to a
  restarted copy's record, or if the time of the last alert were made up.
- `ListIsTheFile`: a running copy has a list that loads, and the file's.
- `DetectionComesBack`: a service started and not stopped listens again.

Known divergences the model has, each an exception named in a property or a
behaviour that no property forbids:

- `MaskedByNearMiss`: the first part of a phrase reported as a near miss masks
  the phrase when the next utterance completes it, since dedup goes by row and
  overlap and ignores the tier (matcher.py:738). A reload that moves rows lets
  another phrase's report do the same.
- `ReadElsewhere`, `SaidByAnother`: one reading of a phrase per step, and one
  phrase per overlap and category; `Excluded`: the veto. The one reading may be
  one of the same place but another width, since a brand is also read from words
  that only sound like it.
- A Tier A phrase whose threshold is above the best score, or a brand longer than
  the spans it is tried on (`Widths`), never fires (`Fireable`).
- A suppressor that ages out of the window brings the score over the threshold
  without a check, which comes with the next match.
- `run()` returns 0 when tcpdump ends after its first packet, and also before it
  if the pipe closes before the process is a zombie; `Restart=on-failure` does
  not start the service again.
- The counters are loaded before the lock is taken, and a `--pcap` replay, which
  takes none, saves to the same file: it overwrites what the service recorded.
- Nothing tells that a save or a line failed. A service stopped while its state
  file cannot be written starts again with less in its record than it had
  counted; one that cannot read the file begins with none (record.py:247-251) and
  saves that later. record.py:229-230 says "State is persisted so that a daemon
  restart does not silently reset a 24-hour record": where the disk fails, it
  does, silently, and in the model `lost` says so. A line that failed may be missing
  for good though its match is counted, which record.py:74-77 allows.
- A list replaced between `load()`'s read and its stat is never loaded
  (matcher.py:325). The grammar is built once, so words of a phrase added later
  are not heard (asr.py:476). A list that does not load at start ends the
  process. A lock file that cannot be opened ends it too (phraseguardd.py:580-590);
  the model has one that can.
- A session that is closed is not asked for its last words: `final()` has no
  caller (phraseguardd.py:300).
- A stream whose first audio comes before its call is known never counts as a
  call (phraseguardd.py:207), and a customer with no counted call has rate 0 and
  no alert.
- `StartLimitIntervalSec` stands in `[Service]`, not in `[Unit]` where it belongs: with
  its default, whether the limit is ever hit depends on how long each start
  takes, so `GivesUp` is a choice.

### FractelOrder, Capacity and Tools

`Diff` and `PlanOrOrder` are the start of a run up to the first search, `Search`
one area code, `Decide` the question to the operator, `Post` and `Record` a
batch and what is written of it, `Assign` and `Verify` a number, `Exit` the
process's end at any line, `Release` and `Reroute` the carrier's portal. What is
for sale changes between searches, so a search returns any numbers not on the
account; the tiers of the overflow search are one.

- `BooksMatchTheAccount`: every number on the account that was not there before
  is in the state file, in the answer under way, or was sold by an order whose
  answer never reached the tool; and a number the file has as assigned is on
  the trunk, unless somebody re-routed it.
- `PoolsKeepTheirSize`: a number stands in one pool, and no pool with a size
  goes beyond it, over any number of runs.

The exceptions are real. fractel-order.py:28-29 says "a crash mid-run costs
nothing"; a crash, or a 5xx, between the sale and the answer costs the numbers
of one batch: they are on the account and in no pool, and `lost` names them.
Each run draws the whole remaining shortfall from the substitutes again
(fractel-order.py:262), so their pools have no size; and `take()` tests its limit
after it adds, so a full substitute code gives one more. `main` returns before
the assignment when there is nothing to buy, so numbers left unassigned by a
crash stay so, and `emit_csv` lists them like the others.

`Capacity` lets calls of two days arrive in any order against any fleet,
records for each what the dialplan did, and evaluates the tool's functions on
the records: `Demand`, `NeedOf`, `DonorRetain`, `OverflowNeed`, `Purchased`. A
list of rows that the code sorts is a set of places, each with the key it is
sorted by; `build_rows` takes the area codes from a Python set, so `Listed`, the
order that set has, is a constant, and ends every tie. `_match` empties donors
in order into receivers in order, so its result is the overlap of two running
totals: `Stretches` gives each place its part of its line's total, `Moved` what
two have in common. `Reallocated` is the two passes: the area codes' surplus
moved on paper, and then with what the overflow has beyond `OverflowNeed`.

- `PlanHolds`: the projection is exact for the fleet the records come from, and
  the planned moves lose no number, leave every donor its need and two to spare
  and never cost a call; with the purchase on top every call is served.

## 3. Runs, bounds and fairness

| run | bounds | why they are enough |
|---|---|---|
| `DidPool_shared` | 2 calls, 2 numbers of which one is in two pools, 3 days, cap 1, 1 retry, an operator's writes | a race and its result, walks, overflow and refusals, a pick across midnight, a prune of a day with counters, a write beside a pick |
| `CustomerCall` | 2 calls, 2 gateways, grant 1, 2 attempts, fast-reject test on | skips, full-ring refusals and failovers all occur |
| `TransferLearning` | 3 calls, 1 row, 2 days, thresholds 2 calls and 1 s | two concurrent handlers and a third call that is classified |
| `Killswitch` | 2 rollback timers, 2 crashes | an old timer with a new apply, a crash during the restore of another |
| `Actuator` | 3 calls, 2 probe misses, 1 restart of Asterisk | a call asked for, one it may be confused with and one that takes a reused name; a channel written off before its Call-ID is set |
| `PhraseGuard` | 2 calls, 2 ports, 2 packets held back, 1 session, trimming at 1 call, 1 restart | both calls on one port or on two; SIP and RTP in either order; a refused stream and a trim that matters |
| `Daemon` | 8 phrases, up to 5 words of 4 in a vocabulary, a window of 4 words and one tick, 3 ticks, 2 edits, 3 crashes, 1 second copy, 2 changes of what can be written, distances of words up to 4 letters | a phrase across two utterances, a near miss before it, a rolled window, an alert interval passed, a day aged out, a reload raced by an edit, the start limit, a match counted whose line failed, a save that fails at a stop or before a later one |
| `Tools` | 5 numbers, a wanted code of size 1, an overflow of 2, batches of 2, 2 runs, 1 lost answer, 1 edit; 3 dialled codes, 2 days, 2 calls a day each | two batches, a crash in each line of the first run and a second run after it; donors, receivers and an overflow that does and does not spill |

Counters the code leaves unbounded are bounded by `MaxDay`, `MaxClock`,
`MaxTimers`, `MaxCrashes`, `MaxReboots`, `MaxRestarts`, `MaxRuns`, `MaxFaults`,
`MaxEdits`, `MaxCalls` and `Plans`, and because each call is made once. Deadlock
is checked in the `DidPool` and `Killswitch` runs, where something can always
happen; in the others the model stops when all calls are over, all budgets are
spent or a service was stopped for good.

Fairness: `DidPool!FairSpec` and `CustomerCall!FairSpec` assume that a channel
whose next priority can run does run it (weak fairness per call): nothing in
the pick blocks, `Wait(0.05)` and `Dial()` time out. `Killswitch!FairSpec`
assumes that systemd runs its unit, that Asterisk comes up, that sleeping
timers wake and that an apply which was started goes on. `Daemon!FairSpec`
assumes that systemd acts on a service that failed, that a process being
started goes on, that tcpdump sees a packet in the end unless it ends, and that
a housekeeping pass ends. Nothing is assumed of operators, customers, carriers
or the calendar.

## 4. Proofs

All proofs are for arbitrary finite sets of calls and any constants that meet
the named assumptions of each module; `PROJECT.json` lists the theorems.

- `DidPoolProofs`: `TypeCorrect`, `DailyCap`, `LedgerExact`, `NoHoldAndWait`,
  `RefusalsAreExhaustion`, `PickKeepsTheBook`. The cap is not inductive: between
  a read and a write the counter and the calls disagree. The invariant
  `LedgerInv` adds what a lock holder knows (the count it read is still stored,
  unless someone wrote unlocked) and bounds the stored count and the count in
  flight by the calls already charged. That a refusal means exhaustion rests on `WalkInv`: a walk
  that started at some rotor and has tried so many numbers has met every index
  of the ring between, whatever other calls did to the rotor, and what it met
  and did not take was spent that day and stays spent. The refinement
  `PickKeepsTheBook` has a lemma per action that the book sees (`WriteIsTake`,
  `ReturnIsRefuse`, `OperatorIsWrite`); `OutOfSight` maps the rest to a stutter.
  What a lock holder knows (`HeldFresh`, of `LedgerInv`) gives the budget, and
  exhaustion the guard of a refusal. TLC finds `KeepsTheBook` true on the
  instance of `DidPool_shared` too, but a run with it takes most of five minutes,
  so it is left to the proof.
- `CustomerCallProofs`: for `Admission` alone `AdmissionTypeCorrect`,
  `CpsCapHolds`, `ConcurrencyCapHolds`. A channel's COUNT sees every channel
  that joined before; the set of those that passed is a subset of the group at
  the moment the last of them counted, and afterwards only shrinks.
  `CallImplementsAdmission` shows that every step of the composed call is a
  step of the throttles or leaves them alone, which carries the limits over
  (`CallKeepsConcurrencyCap`). For the loop `CallInv` joins the types, the shape
  of the gateway group, and `LegInv`, what a call at each point of the loop has
  in its variables of this attempt and of those before; `InvitesCountedHolds`,
  `DeclineHolds` and the action property `RedialsHold` follow from it,
  `GatewayGrantHolds` from the argument of the rate group.
- `TransferLearningProofs`: `LearningTypeCorrect`, `RowsCountWholeCalls`,
  `LearnedHasEvidenceHolds`, `DecisionStandsHolds`. A row is a set of calls
  because a handler adds its own call to what it read, which was such a set, and
  was not in it (`EvidenceInv`). `DecisionInv`: unless somebody held the row when
  the operator spoke, the row has the operator's flag, prune has not listed it,
  and a handler that has it in hand has that flag.
- `KillswitchProofs`: `KillswitchTypeCorrect`, `StoredCutIsLive`,
  `HardCutStays`. `CutInv` relates each intermediate step of a command or
  restore to what it has already done, and what the unit's progress says about
  Asterisk; `HardInv` does so for the apply, the ruleset file and the table.
- `ActuatorProofs`: `TypeCorrect`, `IndexFollowsTable`,
  `ActuatorKeepsItsPromise`. `IInv` strengthens the index invariant with what a
  cached Call-ID was once true of: a Call-ID in the table is that of the call
  on the channel, or of one that has ended, or the name was given out before a
  restart (`EntriesWereTrue`); names are given out in order, so a name above
  the last is free (`NamesFollow`); and what a request under way may hold
  (`RequestOK`). Then each action is one action of `Hangups` or a stutter.
- `PhraseGuardProofs`: `LiveCallIsFindableHolds`, `CountedOnceHolds`,
  `KillsTheSpeakerHolds`, `UsesTheActuator`. The last says that the daemon and
  its tap use the actuator as `Hangups` allows, so with
  `ActuatorKeepsItsPromise` the proof about what is hung up covers the chain
  from a packet to the channel. The invariant: live calls have different
  ports (`PortsGiven`), the SDP answers on the wire stand in the order of the
  calls that had the port (`AnswersInOrder`), a socket, a stream and a request
  name a call that had the speaker's port (`Attributed`), and only tracked calls
  are counted (`CountedKnown`).
- `ToolsProofs`: `StateFileIsTrue`, `PoolsAreKept` of `fractel-order.py`, from
  `ExistingNumbers`, `NumbersFinite`, `SizesNat` and `KeysDiffer` (the area
  codes wanted, the substitutes and the overflow have different keys).
  `OrderInv` adds to the first what the tool has in memory: its copy is the
  state file, the answer under way is part of the plan, the plan has nothing the
  file has, what is to be assigned is in the file. `PoolInv` measures a pool as
  what the file has plus what is planned, since that sum, not the file, is what
  a search bounds and a purchase leaves alone.
  `ProjectionHolds` and `PlanIsSound` of `analyze-did-capacity.py`, from
  `NpasFinite`, `FleetsNat`, `CapPositive`, `DaysNat`, `NeedsNat` and
  `OrderGiven`. A sum is a fold, and induction over data is out of reach here;
  instead a sum is shown to be the number of marks in a set (`SumIsMarks`, by a
  least counterexample in a well-founded order of subsets), and then adding,
  splitting, comparing and grouping sums are facts about finite sets. `DayInv`
  is the order in which the dialplan uses up numbers; from it a day's spill is
  what fell to the overflow or was refused, which is the projection. For the
  move, the stretches of a line follow each other without overlap
  (`StretchesApart`), so what a donor deals out are pieces of its own stretch
  and no more than it (`SumOfPieces`, `GivenWithin`); grouped by giver and by
  taker the deals have one sum (`AfterConserves`); and a donor at the end of the
  line takes nothing from those before it (`AfterMore`), which is why what the
  overflow gives cannot undo what was counted on when its need was measured.

- `DaemonProofs`: `DaemonTypes`, `ListFollowsTheFile`, `LockKeepsOthersOut`,
  `NoWordsTwice`, `ThresholdIsReported`, `EvidenceHolds`, `OverRateHolds`,
  `LevenshteinIsDistance`, `DistanceHolds`, `ConfidentHolds`, from `PhrasesGiven`,
  `WordsSpelled`, `ThresholdsNat`, `WindowNat`, `CountersNat`, `NoneIsNothing`,
  `LexiconWords` and `PlansGiven`. The settings are natural numbers and three are
  not zero: `BrandSpan` and `EditRatio`, which divide, and the interval of alerts,
  which record.py:237 defaults to an hour and no caller sets. `ListInv` is what a process believes of the file: it has seen no
  write that has not happened, and what it is reading is the file unless the file
  was written since. `DaemonInv` adds the types and, for each open session, that
  every match logged of it is noted in its window or stands on words that have
  left it (`Booked`), and that a window over the threshold has said so unless a
  suppressor grew old. A match is logged only if nothing noted of its row
  overlaps it (`LogMatch`), and a window forgets a note only with its words
  (`EvictKeeps`); so no two logged matches of a row and a session meet
  (`Apart`), `NoWordsTwice`. A match that is recorded is scored at once, firing
  leaves nothing unfired (`FireKeeps`), a Tier A match changes no score
  (`RecordKeeps`), and what leaves a window only lowers it unless it is a
  suppressor (`OverShrinks`, `AddKeeps`). What these need of the matcher is that
  it returns a finite list of matches of the list in those words (`MatchType`):
  scores are whole numbers (`LevenshteinType`, over the recursion of the rows),
  and the order of overlap suppression is a strict order (`OutranksOrders`),
  of which every rank is taken once (`RanksAreTaken`). Recursive functions are
  solved by `RecExists`, a fold from the left by `HandledInTurn`, both by the
  least number that fails (`Induct`), since induction over data is out of reach.
  `EvidenceHolds` counts by mark: a time and a kind. First, handling an
  utterance logs and counts the same: after each match every mark has grown by
  as much in the log as in the record, the aged ones only in the log
  (`TalliesEntry`, `HandleMatchKeeps`, `UtteranceKeeps`). Then `EvidenceInv`,
  which TLC checked before it was proved. No mark is held, read or stored more
  often than the recorder was given it; and of a young mark, while nothing is lost, what the
  live copies logged is in the state file if none of them runs, and if one does
  it is at most what is stored plus what that copy has counted since it read or
  wrote the file (`MarkKept`). `EvidenceKept` speaks only of the copy that is up
  to date, and is not inductive: what a stopped copy left is known only from
  the file. A save that fails leaves the file and what its process has counted since
  as they were, so it is a step that changes nothing of this (`TellsUnsaved`,
  `CallsUnsaved`), and a process that ends with counts it could not save sets
  `lost`. A start that could not read the file has read none
  (`TellsBuild`): it is not up to date until it has saved, and that save
  sets `lost` if the file had rows. A step changes one process and the file, so it is enough to compare
  what that process holds before and after (`Tells`, `OneTells`); that no other
  live copy has counts of its own is the lock (`ListInv`), and that a start
  replaces no process with counts, the service manager (`UnitInv`).

  `OverRateHolds` takes that to rates. Housekeeping alerts on what it counts, so
  two things are needed: that what it counts is no less than what the log shows,
  and that what it takes for the last alert was one. The events are those of
  `EvidenceInv`, summed over the marks of a day. The calls are new: `CallsInv`
  says of the call counted at a time that whoever counted it holds it, and that
  one the log names is in the state file or held by the live copy (`CallKept`),
  whose session names only a call it counted (`OfOwnCall`); and that every last
  alert, stored or held, is the time of an alert in the log (`Alerted`). Calls are
  told apart by the time they were counted at, in the property too. With both,
  `HousekeepAlerts` compares the two rates.

  `LevenshteinIsDistance`: the code keeps two rows and a band, and gives up when
  a row is beyond the cap; that every cell in the band is the cell of the full
  table, as far as the cap, is shown row by row with what the buffer still holds
  of two rows before as part of the statement, by the least row and cell that
  fail, since induction over data is out of reach. Outside the band the table is
  beyond the cap, since a distance is at least the difference in length
  (`TableBounds`); and giving up is safe since a band all beyond the cap makes
  the whole row so (`FarBandIsFar`) and those after it (`FarStaysFar`).
  `DistanceHolds` is the property of the run.

  `ConfidentHolds` follows a phrase that was said word for word, the last of them
  new, through `match()`: its trigger is among the words that wake it
  (`SaidIsWoken`); the span is read, with the best score there is and no better
  (`SaidIsRead`, `ScoreBound`), so a best reading elsewhere is one that
  `ReadElsewhere` names; what is read so is ranked first and chosen unless a veto
  or another phrase stands in the way (`SaidIsChosen`); what is chosen is in the
  list the code sorts (`ReportedHasAll`); and what is in the list is reported, or
  overlaps a report of its row (`HandleMatchReports`, `UtteranceReports`), which
  the log still has (`Noted`, kept by `CallsInv`). `SilentInv`, a stream without
  a session has no words, closes the gap of a session that opens with its first
  words; that only `OnAudio` gives a stream other words is `WindowStep`.

Model-checked only: the liveness properties `PickEnds`, `DialEnds`,
`RollbackHappens`, `CutComesBack` and `DetectionComesBack` (TLAPS does not reason
about fairness with ENABLED), and the runs that show a disagreement. Every other
property of a passing run is the subject of a theorem `PROJECT.json` lists.

## 5. Not modelled

- Checks of destination, caller ID and blocklist, and `build-blocklist.py`:
  patterns of number formats and a longest-prefix lookup, without state.
- The portal's verdicts: the dialplan only reads them and their writer is
  outside the repository.
- `didctl.sh` pools, `sync-globals`, status, list, stats: the pools of `DidPool`
  are constants.
- The renderer, the installer (but for the killswitch unit), monitoring and
  verification scripts, static Asterisk configuration: they write or read
  configuration and keep no state of their own. What they establish, the clamp
  of the attempts and endpoint names by position, is assumed.
- Capture and lint tools, and the tests.
- Of the modelled parts: toll-free detection, rates and labels, log lines, CDR
  columns, the packet rules of the firewall, SIP and RTP parsing and codecs, the
  energy measure, how metaphone.py computes a sound, number words and spelling
  variants of the normaliser, the trace and lint reports of the matcher, the
  recogniser's acoustics, the device check of `fractel-order.py`, the report and
  the order of rows of `analyze-did-capacity.py`.

`PROJECT.json` gives the reason per component, and lists each hazard of the code
with the properties that cover it.

## 6. Plan

What is left, in order:

1. Pool changes under way (`sync-globals`) as an extension of `DidPool`; the
   portal's verdicts and the destination checks as operators with reference
   definitions, composed into `CustomerCall`.
2. In `Tap`, the two hours after which a call that never ended is forgotten;
   sessions released and calls heard again, as liveness.
3. An abstract on/off cut that `Killswitch` implements.
