------------------------------ MODULE Daemon ------------------------------
(***************************************************************************)
(* phraseguard/phraseguardd.py from the audio of one stream to the         *)
(* evidence: what is heard, matched, scored, logged, counted and alerted   *)
(* about, while the phrase list is edited, the clock runs, and processes   *)
(* start, crash, stop and start again under systemd.                       *)
(*                                                                         *)
(* A process is one thread, so a handler is one action.  Two things take   *)
(* effect between its steps: an edit of the phrase list while it is being  *)
(* reloaded, and whatever other processes do to the lock and the state     *)
(* file between its constructor and its lock.  Two copies can exist: the   *)
(* service, and one started by hand, live or replaying a capture.          *)
(*                                                                         *)
(* The clock ticks in units of many housekeeping intervals, so the 15 s    *)
(* between two housekeepings does not show.                                *)
(***************************************************************************)
EXTENDS CallWindow, Counters

CONSTANTS
    Lexicon,     \* the words the speech model knows
    StartBurst,  \* StartLimitBurst
    Plans,       \* bounds of this model: the sets of budgets a run may have
    None

Service == "service"
Procs == {Service, "hand"}

Budgets == {"say", "know", "tick", "edit", "hup", "ends", "stop", "start", "crash",
            "eof", "hand", "disk"}

ASSUME NoneIsNothing ==
    /\ None \notin Procs /\ None \notin FileNames
    /\ None \notin [file : FileNames, at : Nat]
ASSUME LexiconWords == Lexicon \subseteq Words
ASSUME PlansGiven ==
    \A plan \in Plans :
        /\ DOMAIN plan = Budgets \cup {"vocabulary", "file", "model", "enforce"}
        /\ \A b \in Budgets : plan[b] \in Nat
        /\ plan.file \in FileNames
        /\ plan.vocabulary \subseteq Words
        /\ \E V \in Vocabularies : plan.vocabulary \subseteq V

VARIABLES
    clock,
    left,    \* what is left of the plan this run follows
    file,    \* the content of phrases.csv ...
    mtime,   \* ... and how often it was written
    disk,    \* what can be written: the day's log, the state file
    store,   \* the counters in the state file
    lock,    \* the process that holds the lock file
    unit,    \* systemd's view of the service
    proc,    \* the processes
    log,     \* the events handed to the recorder, on all days
    sids,    \* history: sessions opened so far
    lost     \* history: rows were overwritten, or not saved at a process's end

env == <<clock, left, file, mtime, disk>>
ghosts == <<sids, lost>>
vars == <<env, store, lock, unit, proc, log, ghosts>>

\* A stream that has no session yet.  counted is history: when the session's
\* call was counted.  So is aged: a suppressor left the window since the last
\* match that was scored.
NoSession == [open |-> FALSE, gone |-> FALSE, pend |-> <<>>, win |-> NewWindow,
              sid |-> 0, counted |-> Never, aged |-> FALSE]

\* No process, or one whose constructor has not run.  raced is history: the
\* file was replaced while it was being reloaded.
NoProc == [st |-> "off", live |-> TRUE, list |-> None, seen |-> 0, grammar |-> {},
           counters |-> NoCounters, base |-> NoCounters, hup |-> FALSE,
           reading |-> None, raced |-> FALSE, known |-> FALSE, calls |-> Never,
           sess |-> NoSession]

\* build_grammar: the words of every phrase, of the suppressors and exclusions
\* too.
GrammarOf(n) == UNION {TokensOf(p) : p \in PhrasesOf[n]}

\* RecognizerFactory.load: the model leaves out the words it does not know;
\* without a model every stream gets a recogniser that hears nothing.
Grammar(n) == IF left.model THEN Lexicon \cap GrammarOf(n) ELSE {}

\* The recogniser: a word its grammar lacks comes out as [unk], which is
\* dropped, and nothing is returned before the end of an utterance.
Heard(r, w) == IF w \in r.grammar THEN Append(r.sess.pend, w) ELSE r.sess.pend

\* preflight: enforcement that cannot hear is refused.
Refused == left.enforce /\ ~left.model

\* A run starts with the service starting and nothing recorded yet.
Init ==
    /\ clock = 0 /\ left \in Plans
    /\ file \in {n \in FileNames : Loads(Files[n])} /\ file = left.file
    /\ mtime = 0 /\ disk = {"log", "state"}
    /\ store = NoCounters /\ lock = None
    /\ unit = [st |-> "active", starts |-> 1, why |-> "none"]
    /\ proc = [p \in Procs |-> IF p = Service THEN [NoProc EXCEPT !.st = "exec"] ELSE NoProc]
    /\ log = <<>>
    /\ sids = 0 /\ lost = FALSE

Goes(p, r) == proc' = [proc EXCEPT ![p] = r]
Spend(what) == left[what] > 0 /\ left' = [left EXCEPT ![what] = @ - 1]
Up(p) == proc[p].st \in {"opening", "running"}
Free(p) == proc[p].reading = None   \* not in the middle of a reload

-----------------------------------------------------------------------------
(* on_audio and handle_match.                                              *)

\* Recorder.event: written tells whether the line is in the day's file.  An
\* error is swallowed, and syslog is not asked whether it kept its copy.
MatchEntry(p, s, m) ==
    [event |-> "match", written |-> "log" \in disk, tier |-> m.tier,
     words |-> m.phrase.tokens, at |-> clock, category |-> m.phrase.category,
     known |-> proc[p].known, live |-> proc[p].live, row |-> m.phrase.row,
     from |-> s.win.dropped + m.from, to |-> s.win.dropped + m.to,
     sid |-> s.sid, list |-> proc[p].list, counted |-> s.counted]
Entry(p, event) ==
    [event |-> event, written |-> "log" \in disk, at |-> clock, known |-> proc[p].known,
     live |-> proc[p].live]

\* A match that is not new is dropped.  Tier A is counted and logged (what the
\* actuator makes of it is PhraseGuard's part); the others are logged, a near
\* miss counted, and then the window is scored.
HandleMatch(p, s, m) ==
    LET win == Record(s.win, m, clock)
        kind == IF m.tier = "A" THEN "kill" ELSE "near"
        counters == IF m.tier \in {"A", "A-near"}
                    THEN Count(s.counters, proc[p].known, kind, clock) ELSE s.counters
        noted == [s EXCEPT !.win = win, !.counters = counters,
                           !.log = Append(@, MatchEntry(p, s, m)),
                           !.aged = @ /\ m.tier = "A"]
    IN CASE ~IsNew(s.win, m) -> s
         [] IsNew(s.win, m) /\ (m.tier = "A" \/ ~Crosses(win)) -> noted
         [] OTHER -> [noted EXCEPT
                        !.win = Fire(win),
                        !.counters = Count(counters, proc[p].known, "b_event", clock),
                        !.log = Append(@, Entry(p, "b_threshold"))]

\* An utterance: its words join the window, and every match they complete is
\* handled in the order it was said.
Utterance(p, s, words) ==
    LET added == Add(s.win, words, clock)
        heard == [s EXCEPT !.win = added.win, !.pend = <<>>,
                           !.aged = @ \/ Suppressing(s.win) # Suppressing(added.win)]
    IN FoldLeft(LAMBDA acc, m : HandleMatch(p, acc, m), heard,
                Match(proc[p].list, added.win.tokens, added.since))

\* The first audio of a stream opens its session and counts its call, if the
\* call is known by then.
Opened(p) ==
    LET r == proc[p]
        counts == r.known /\ r.calls = Never
    IN IF r.sess.open THEN r
       ELSE [r EXCEPT !.sess = [NoSession EXCEPT
                                  !.open = TRUE, !.sid = sids + 1,
                                  !.counted = IF counts THEN clock ELSE r.calls],
                      !.calls = IF counts THEN clock ELSE @,
                      !.counters = IF counts THEN Count(@, TRUE, "calls", clock) ELSE @]

\* on_audio: a word, which may be the last of its utterance.
OnAudio(p, w, final) ==
    /\ proc[p].st = "running" /\ Free(p) /\ ~proc[p].sess.gone
    /\ Spend("say")
    /\ LET r == Opened(p)
           pend == Heard(r, w)
           said == Utterance(p, [win |-> r.sess.win, pend |-> pend, sid |-> r.sess.sid,
                                 counted |-> r.sess.counted, aged |-> r.sess.aged,
                                 counters |-> r.counters, log |-> log], pend)
       IN /\ sids' = Max2(sids, r.sess.sid)
          /\ IF final
             THEN /\ Goes(p, [r EXCEPT !.counters = said.counters,
                                       !.sess = [@ EXCEPT !.win = said.win, !.pend = <<>>,
                                                          !.aged = said.aged]])
                  /\ log' = said.log
             ELSE Goes(p, [r EXCEPT !.sess.pend = pend]) /\ UNCHANGED log
    /\ UNCHANGED <<clock, file, mtime, disk, store, lock, unit, lost>>

-----------------------------------------------------------------------------
(* Housekeeping: reload, sessions, alerts, save.                           *)

\* What p saves replaces the file, whoever wrote it last.  An error is
\* swallowed, and the file is what it was.
Save(p, counters) ==
    IF "state" \in disk
    THEN store' = counters /\ lost' = (lost \/ proc[p].base.events # store.events)
    ELSE UNCHANGED <<store, lost>>

\* p counted, in the last day, what it has not saved.
Unsaved(p) == Recent(proc[p].counters.events, clock) # Recent(proc[p].base.events, clock)

\* The save of a process that ends, which nothing repeats.
LastSave(p) ==
    IF "state" \in disk THEN Save(p, proc[p].counters)
    ELSE lost' = (lost \/ Unsaved(p)) /\ UNCHANGED store

\* reload_if_changed: a new mtime or a SIGHUP has the file read.
ReloadReads(p) ==
    /\ Up(p) /\ Free(p)
    /\ proc[p].hup \/ proc[p].seen # mtime
    /\ Goes(p, [proc[p] EXCEPT !.hup = FALSE, !.reading = [file |-> file, at |-> mtime]])
    /\ UNCHANGED <<env, store, lock, unit, log, ghosts>>

\* Mutant: a refused file takes the list with it.
ReloadedAnyway(r) ==
    IF r.reading = None THEN r
    ELSE [r EXCEPT !.list = r.reading.file, !.seen = mtime, !.reading = None]

\* The phrase list after a reload: load() takes the mtime after it has read
\* the file; a file that does not load leaves the list, and its own mtime.
Reloaded(r) ==
    CASE r.reading = None -> r
      [] r.reading # None /\ Loads(Files[r.reading.file]) ->
           [r EXCEPT !.list = r.reading.file, !.seen = mtime, !.reading = None,
                     !.raced = r.reading.at # mtime]
      [] OTHER -> [r EXCEPT !.seen = r.reading.at, !.reading = None]

\* The rest of the pass: the session of a stream that is gone is closed, what
\* its recogniser had not returned yet is not asked for.
Housekeep(p) ==
    LET r == Reloaded(proc[p])
        counters == CheckAlerts(r.counters, clock)
    IN /\ Up(p)
       /\ proc[p].reading # None \/ ~(proc[p].hup \/ proc[p].seen # mtime)
       /\ Goes(p, [r EXCEPT !.counters = counters,
                            !.base = IF "state" \in disk THEN counters ELSE @,
                            !.sess = IF @.gone THEN NoSession ELSE @])
       /\ log' = IF Alerts(r.counters, clock) THEN Append(log, Entry(p, "alert")) ELSE log
       /\ Save(p, counters)
       /\ UNCHANGED <<env, lock, unit, sids>>

-----------------------------------------------------------------------------
(* Processes start and end.                                                *)

\* A process is gone: the kernel drops its lock, systemd notes how it ended.
Gone(p, rc, why) ==
    /\ Goes(p, NoProc)
    /\ lock' = IF lock = p THEN None ELSE lock
    /\ unit' = IF p # Service THEN unit
               ELSE [unit EXCEPT !.st = IF rc = 0 THEN "ended" ELSE "wait", !.why = why]

\* systemctl start, and the restart after RestartSec.
UnitStarts ==
    /\ \/ unit.st = "wait" /\ UNCHANGED left
       \/ unit.st \in {"stopped", "failed", "ended"} /\ Spend("start")
    /\ unit' = [st |-> "active", starts |-> Min2(unit.starts + 1, StartBurst), why |-> "none"]
    /\ Goes(Service, [NoProc EXCEPT !.st = "exec"])
    /\ UNCHANGED <<clock, file, mtime, disk, store, lock, log, ghosts>>

\* After StartBurst starts systemd may take no more.
GivesUp ==
    /\ unit.st = "wait" /\ unit.starts >= StartBurst
    /\ unit' = [unit EXCEPT !.st = "failed"]
    /\ UNCHANGED <<env, store, lock, proc, log, ghosts>>

\* A second copy, live or with --pcap.
HandStarts ==
    /\ proc["hand"].st = "off" /\ Spend("hand")
    /\ \E live \in BOOLEAN : Goes("hand", [NoProc EXCEPT !.st = "exec", !.live = live])
    /\ UNCHANGED <<clock, file, mtime, disk, store, lock, unit, log, ghosts>>

\* load: a state file that cannot be read is taken for none.
Readable == IF "state" \in disk THEN {store} ELSE {store, NoCounters}

\* PhraseGuard.__init__: the phrase list, the counters and the grammar, before
\* any lock; a phrase list that does not load ends the process.
Build(p) ==
    /\ proc[p].st = "exec"
    /\ IF Loads(Files[file])
       THEN /\ \E base \in Readable :
                 Goes(p, [proc[p] EXCEPT !.st = "built", !.list = file, !.seen = mtime,
                            !.grammar = Grammar(file), !.base = base,
                            !.counters = LoadCounters(base, clock)])
            /\ UNCHANGED <<lock, unit>>
       ELSE Gone(p, 1, "refused")
    /\ UNCHANGED <<env, store, log, ghosts>>

\* Mutant: a lock that cannot be taken is taken for free.
TakeLockAnyway(p) ==
    /\ proc[p].st = "built"
    /\ Goes(p, [proc[p] EXCEPT !.st = IF proc[p].live THEN "opening" ELSE "running"])
    /\ UNCHANGED <<env, store, lock, unit, log, ghosts>>

\* main: the lock, which a replay does not take, then run and its preflight.
TakeLock(p) ==
    /\ proc[p].st = "built"
    /\ \/ /\ ~proc[p].live /\ ~Refused
          /\ Goes(p, [proc[p] EXCEPT !.st = "running"])
          /\ UNCHANGED <<lock, unit>>
       \/ /\ proc[p].live /\ lock = None /\ ~Refused
          /\ Goes(p, [proc[p] EXCEPT !.st = "opening"])
          /\ lock' = p /\ UNCHANGED unit
       \/ /\ Refused \/ (proc[p].live /\ lock # None)
          /\ Gone(p, 1, "refused")
    /\ UNCHANGED <<env, store, log, ghosts>>

\* Tap.run: tcpdump has written its header and a packet.
Opens(p) ==
    /\ proc[p].st = "opening" /\ Free(p)
    /\ Goes(p, [proc[p] EXCEPT !.st = "running"])
    /\ UNCHANGED <<env, store, lock, unit, log, ghosts>>

\* Mutant: the failure is reported as a clean exit.
CaptureFailsCleanly(p) ==
    /\ proc[p].st = "opening" /\ Free(p) /\ Spend("crash")
    /\ LastSave(p)
    /\ Gone(p, 0, "nocapture")
    /\ UNCHANGED <<clock, file, mtime, disk, log, sids>>

\* tcpdump is seen to have ended before it captured anything: CaptureFailed, an
\* error exit.
CaptureFails(p) ==
    /\ proc[p].st = "opening" /\ Free(p) /\ Spend("crash")
    /\ LastSave(p)
    /\ Gone(p, 1, "nocapture")
    /\ UNCHANGED <<clock, file, mtime, disk, log, sids>>

\* tcpdump ended later, or is not seen to have ended because its pipe closes
\* before it is a zombie; or the replayed file did: run returns normally.
CaptureEnds(p) ==
    /\ Up(p) /\ Free(p)
    /\ IF proc[p].live THEN Spend("eof") ELSE UNCHANGED left
    /\ LastSave(p)
    /\ Gone(p, 0, "eof")
    /\ UNCHANGED <<clock, file, mtime, disk, log, sids>>

\* Mutant: shutdown does not save.
StopUnsaved(p) ==
    /\ Up(p) /\ Free(p) /\ Spend("stop")
    /\ Goes(p, NoProc)
    /\ lock' = IF lock = p THEN None ELSE lock
    /\ unit' = IF p = Service THEN [unit EXCEPT !.st = "stopped"] ELSE unit
    /\ UNCHANGED <<clock, file, mtime, disk, store, log, ghosts>>

\* SIGTERM: shutdown saves; systemd does not start what it stopped.
Stop(p) ==
    /\ Up(p) /\ Free(p) /\ Spend("stop")
    /\ LastSave(p)
    /\ Goes(p, NoProc)
    /\ lock' = IF lock = p THEN None ELSE lock
    /\ unit' = IF p = Service THEN [unit EXCEPT !.st = "stopped"] ELSE unit
    /\ UNCHANGED <<clock, file, mtime, disk, log, sids>>

\* Killed: what was not saved is gone.
Crash(p) ==
    /\ proc[p].st # "off" /\ Spend("crash")
    /\ lost' = (lost \/ Unsaved(p))
    /\ Gone(p, 9, "crash")
    /\ UNCHANGED <<clock, file, mtime, disk, store, log, sids>>

-----------------------------------------------------------------------------
(* The rest of the world.                                                  *)

Tick ==
    /\ Spend("tick") /\ clock' = clock + 1
    /\ UNCHANGED <<file, mtime, disk, store, lock, unit, proc, log, ghosts>>

\* An operator replaces phrases.csv.
Edit ==
    /\ Spend("edit")
    /\ \E n \in FileNames \ {file} : file' = n
    /\ mtime' = mtime + 1
    /\ UNCHANGED <<clock, disk, store, lock, unit, proc, log, ghosts>>

\* A file system fills up or a permission is revoked, or it is mended.
DiskChanges ==
    /\ Spend("disk")
    /\ \E d \in SUBSET {"log", "state"} : d # disk /\ disk' = d
    /\ UNCHANGED <<clock, file, mtime, store, lock, unit, proc, log, ghosts>>

\* systemctl reload: a flag for the next housekeeping.
Hup(p) ==
    /\ Up(p) /\ ~proc[p].hup /\ Spend("hup")
    /\ Goes(p, [proc[p] EXCEPT !.hup = TRUE])
    /\ UNCHANGED <<clock, file, mtime, disk, store, lock, unit, log, ghosts>>

\* The tracker learns whose stream it is.
Attributed(p) ==
    /\ proc[p].st = "running" /\ Free(p) /\ ~proc[p].known /\ Spend("know")
    /\ Goes(p, [proc[p] EXCEPT !.known = TRUE])
    /\ UNCHANGED <<clock, file, mtime, disk, store, lock, unit, log, ghosts>>

\* The demultiplexer forgets the stream; its call may have another.
StreamEnds(p) ==
    /\ proc[p].sess.open /\ ~proc[p].sess.gone /\ Spend("ends")
    /\ Goes(p, [proc[p] EXCEPT !.sess.gone = TRUE])
    /\ UNCHANGED <<clock, file, mtime, disk, store, lock, unit, log, ghosts>>

Run(p) ==
    \/ \E w \in left.vocabulary, final \in BOOLEAN : OnAudio(p, w, final)
    \/ ReloadReads(p) \/ Housekeep(p)
    \/ Build(p) \/ TakeLock(p) \/ Opens(p) \/ CaptureEnds(p)

Next ==
    \/ \E p \in Procs : Run(p) \/ CaptureFails(p) \/ Stop(p) \/ Crash(p)
                          \/ Hup(p) \/ Attributed(p) \/ StreamEnds(p)
    \/ UnitStarts \/ GivesUp \/ HandStarts \/ Tick \/ Edit \/ DiskChanges

\* systemd acts on a service that failed, and a process that can go on does.
Fairness ==
    /\ WF_vars(unit.st = "wait" /\ (UnitStarts \/ GivesUp))
    /\ \A p \in Procs : /\ WF_vars(Build(p)) /\ WF_vars(TakeLock(p))
                         /\ WF_vars(Opens(p)) /\ WF_vars(Housekeep(p))

FairSpec == Init /\ [][Next]_vars /\ Fairness

-----------------------------------------------------------------------------
(* What must be true.                                                      *)

EventKinds == {"calls", "kill", "near", "b_event"}
CounterRecords == [events : Seq([at : Nat, kind : EventKinds]), last : Int]

\* Every variable holds a value of its kind; the places and times of a window
\* are as many as its words.
TypeOK ==
    /\ clock \in Nat /\ mtime \in Nat /\ sids \in Nat /\ lost \in BOOLEAN
    /\ file \in FileNames /\ disk \subseteq {"log", "state"}
    /\ store \in CounterRecords
    /\ lock \in Procs \cup {None}
    /\ unit.st \in {"active", "wait", "ended", "failed", "stopped"}
    /\ \A p \in Procs :
         /\ proc[p].st \in {"off", "exec", "built", "opening", "running"}
         /\ proc[p].counters \in CounterRecords
         /\ proc[p].grammar \subseteq Words
         /\ proc[p].sess.win.tokens \in Seq(Words)
         /\ Len(proc[p].sess.win.times) = Len(proc[p].sess.win.tokens)
         /\ proc[p].live /\ Up(p) => lock = p

\* The distance scores are made of is exact: computing a band of the table in
\* two rows used in turn loses nothing within the cap, and says so beyond it.
\* It does not depend on the state, so it is looked at once, when a run starts.
DistanceIsExact == clock = 0 => DistanceErrors = {}

\* Two places in a call's words.
Meet(e, from, to) == e.from < to /\ from < e.to

LogMatches(entries, sid) ==
    {entries[i] : i \in {j \in DOMAIN entries : entries[j].event = "match"
                                             /\ entries[j].sid = sid}}

\* The same words are reported once: two reports of one phrase on one stream,
\* under one phrase list, are of different words, however the window rolled in
\* between.
ReportsDoNotOverlap ==
    \A i, j \in DOMAIN log :
        /\ i < j /\ log[i].event = "match" /\ log[j].event = "match"
        /\ log[i].sid = log[j].sid /\ log[i].row = log[j].row
        /\ log[i].list = log[j].list
        => ~Meet(log[i], log[j].from, log[j].to)

\* Known divergences: why words that are exactly a Tier A phrase x at place
\* from are not reported as such.  Readings are those of the step.
\* Some of them were reported before: as a near miss of x, or as what stood on
\* its row before the list was edited.
MaskedByNearMiss(x, from, sid) ==
    \E e \in LogMatches(log, sid) :
        /\ e.row = x.row /\ Meet(e, from, from + Len(x.tokens))
        /\ e.tier # "A" \/ e.words # x.tokens
\* The same step read x elsewhere, or a brand in words that sound like it, and
\* reports one reading of a phrase.
ReadElsewhere(x, from, readings) ==
    \E r \in readings[x] :
        r.score = Exact /\ ~(r.from = from /\ r.to = from + Len(x.tokens))
\* An exclusion matched words in common.
Excluded(x, from, readings) ==
    \E y \in DOMAIN readings : /\ y.tier = "X"
        /\ \E r \in readings[y] : r.score >= KillFor(y) /\ Meet(r, from, from + Len(x.tokens))
\* Another phrase of the category is exactly there too, and no shorter.
SaidByAnother(x, from, readings) ==
    \E y \in DOMAIN readings \ {x} : /\ y.category = x.category
        /\ \E r \in readings[y] : /\ r.score = Exact
                                 /\ r.to - r.from >= Len(x.tokens)
                                 /\ Meet(r, from, from + Len(x.tokens))

\* The thresholds can be met, and a brand is no longer than what is tried.
Fireable(x) ==
    KillFor(x) <= Exact /\ ReviewFor(x) <= Exact /\ Len(x.tokens) \in Widths(x)

\* However the recogniser cuts speech into utterances, a Tier A phrase heard
\* word for word has been reported at Tier A, on some of these words, when its
\* last word is, save for the divergences above: matching what is new finds
\* what matching the whole window would.
HeardIsReported(p) ==
    LET before == proc[p].sess
        win == proc'[p].sess.win
        base == win.dropped
        news == before.win.dropped + Len(before.win.tokens)
        tokens == win.tokens
        list == PhrasesOf[proc[p].list]
        since == Max2(0, news - base)
        readings == [y \in list |-> {[r EXCEPT !.from = @ + base, !.to = @ + base] :
                                      r \in Readings(y, tokens, since)}]
    IN \A x \in {y \in list : y.tier = "A" /\ Fireable(y)} :
         \A s \in 0 .. Len(tokens) - Len(x.tokens) :
           LET from == base + s IN
           (/\ s + Len(x.tokens) > since
            /\ SubSeq(tokens, s + 1, s + Len(x.tokens)) = x.tokens)
           => \/ \E e \in LogMatches(log', proc'[p].sess.sid) :
                     e.tier = "A" /\ e.words = x.tokens /\ Meet(e, from, from + Len(x.tokens))
              \/ MaskedByNearMiss(x, from, proc'[p].sess.sid)
              \/ ReadElsewhere(x, from, readings)
              \/ Excluded(x, from, readings)
              \/ SaidByAnother(x, from, readings)

ConfidentPhraseFires ==
    [][\A p \in Procs :
         proc'[p].sess.open /\ proc'[p].sess.win # proc[p].sess.win
             => HeardIsReported(p)]_vars

\* A window whose score is over the threshold on a category not yet fired has
\* said so, unless it got there because a suppressor grew too old, which is
\* noticed at the next match only.
CrossingIsReported ==
    \A p \in Procs :
        LET win == proc[p].sess.win IN
        (BScore(win) >= BThreshold /\ \E c \in Contributing(win) : c \notin win.fired)
            => proc[p].sess.aged

KindOf(e) ==
    CASE e.event = "match" /\ e.tier = "A" -> "kill"
      [] e.event = "match" /\ e.tier = "A-near" -> "near"
      [] e.event = "b_threshold" -> "b_event"
      [] OTHER -> "none"
Logged(at, kind) ==
    {i \in DOMAIN log : log[i].known /\ log[i].at = at /\ KindOf(log[i]) = kind}
Counted(p, at, kind) ==
    {i \in DOMAIN proc[p].counters.events :
        proc[p].counters.events[i] = [at |-> at, kind |-> kind]}

\* p has read or written what the state file holds, and nothing was lost on the
\* way there.
Current(p) == ~lost /\ proc[p].base.events = store.events

\* The 24-hour record and the log tell the same story across restarts, ageing,
\* saves and writes that fail: what is counted has its line in the log's files,
\* but for lines that could not be written, and what the live copy reported of a
\* known customer in the last day is counted, line or no line, unless it was
\* lost: to a crash since the last save, to a last save that failed, or to a
\* copy that saved over a file it had not read, because another copy wrote it
\* since or because it could not (record.py:121-145, 247-277,
\* phraseguardd.py:253-254).
EvidenceKept ==
    \A p \in Procs : Up(p) =>
        \A at \in Max2(0, clock - DayS) .. clock, kind \in EventKinds \ {"calls"} :
            LET counted == Cardinality(Counted(p, at, kind))
                logged == Logged(at, kind)
                written == {i \in logged : log[i].written}
            IN /\ counted <= Cardinality(written) + Cardinality(logged \ written)
               /\ proc[p].live /\ Current(p) =>
                    Cardinality({i \in logged : log[i].live}) <= counted

\* What the live copies logged in the last day of the customer, and the calls
\* they heard it on: a stream whose session opened before its call was known is
\* of none.
LoggedToday(kind) ==
    {i \in DOMAIN log : /\ log[i].known /\ log[i].live /\ log[i].at >= clock - DayS
                       /\ KindOf(log[i]) = kind}
CallsNamed ==
    {log[i].counted : i \in {j \in DOMAIN log :
        /\ log[j].event = "match" /\ log[j].known /\ log[j].live
        /\ log[j].counted >= Max2(0, clock - DayS)}}

\* After every housekeeping of a copy that is up to date a customer whose log
\* shows enough calls and a rate over a limit has been alerted about within
\* the interval.  The calls are those of the record, or those the log names if
\* they were more.
OverRateIsAlerted ==
    [][\A p \in Procs :
         (/\ Housekeep(p) /\ proc[p].live /\ Current(p)
          /\ LET calls == Max2(Total(proc'[p].counters.events, "calls"), Cardinality(CallsNamed))
                 Over(kind, limit) == 1000 * Cardinality(LoggedToday(kind)) >= limit * calls
             IN /\ calls >= Max2(1, AlertMinCalls)
                /\ Over("kill", AlertKillRate) \/ Over("b_event", AlertBRate))
         => \E j \in DOMAIN log' : log'[j].event = "alert"
                                  /\ clock - log'[j].at < AlertEveryS]_vars

\* A running copy works with a phrase list that loads, and, when it takes the
\* file to be the one it read, with that one: unless the file was replaced
\* between the reload's read and its stat.
ListIsTheFile ==
    \A p \in Procs : Up(p) =>
        /\ Loads(Files[proc[p].list])
        /\ proc[p].seen = mtime /\ Loads(Files[file]) /\ ~proc[p].raced
             => proc[p].list = file

Detecting == \E p \in Procs : proc[p].live /\ proc[p].st = "running"

\* A service that was started and not stopped listens again, or another copy
\* does, whatever ended it: except that systemd may give up after StartBurst
\* starts, that a tcpdump which is not seen to have died before its first
\* packet ends the service cleanly, and that it does not start on a phrase list
\* that does not load nor enforce without a speech model.
DetectionComesBack ==
    (unit.st \in {"active", "wait"} \/ unit.why = "nocapture")
        ~> \/ Detecting
           \/ unit.st \in {"stopped", "failed"}
           \/ unit.st = "ended" /\ unit.why = "eof"
           \/ ~Loads(Files[file]) \/ Refused
=============================================================================
