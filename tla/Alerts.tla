------------------------------- MODULE Alerts -------------------------------
(***************************************************************************)
(* How one check result becomes, or does not become, an alert.             *)
(*                                                                         *)
(* internal/engine/process.go applies a result to its check's state and    *)
(* decides whether an alert is due; internal/engine/alertbatch.go holds    *)
(* the alert back in a grouping window, or hands it to a delivery; the     *)
(* delivery, when nothing got through, re-arms the check.  Every step      *)
(* below is one critical section of the engine's mutex (Engine.mu), so     *)
(* the interleavings are the ones the goroutines of the engine can make.   *)
(*                                                                         *)
(* A run is one invocation of runAndProcess/process; a mail is one done    *)
(* channel of sendMail or sendGroup with the goroutine that closes it.     *)
(* All the checks stand on one node, or each on a node of its own below    *)
(* its Parent; they share one recipient list.  "up" stands for both up and *)
(* degraded, and what holds an alert back besides the parent and the       *)
(* cooldown (acknowledged, alerts off, maintenance, silenced) is the one   *)
(* flag muted: which of them it was is only ever reported.                 *)
(***************************************************************************)
EXTENDS Naturals, FiniteSets

CONSTANTS
    Checks,         \* the checks of the installation
    Runs,           \* bound: results in the making at the same time
    Mails,          \* bound: deliveries under way at the same time
    Times,          \* bound: alerts about one check that are told apart
    NoTime,         \* a nil LastAlertAt
    Nobody,         \* a nil channel, no parent, no check
    Parent,         \* the check a check's node depends on, or Nobody
    Pushed,         \* checks whose results do not go through a flight
    Threshold,      \* FailureThreshold
    Window,         \* alerts are grouped (GroupWindowSeconds > 0)
    RecoveryMail,   \* recoveries are e-mailed, not only sent to channels
    Cooldown,       \* CooldownMinutes > 0
    Warnings,       \* a passing result may come with a warning to send
    Disableable,    \* the checks the operator may switch off and on
    Mutable,        \* the checks that may be muted and unmuted
    MayStop         \* the service may be stopped

Statuses == {"unknown", "up", "down", "paused"}
Kinds    == {"down", "recovered", "warning"}
CheckState ==
    [status : Statuses, failures : 0..Threshold, alertActive : BOOLEAN,
     lastAlert : Times \cup {NoTime}, cooling : BOOLEAN]
Task == [check : Checks, kind : Kinds, at : Times]
Run ==
    [pc : {"idle", "begin", "held", "probe", "joined", "probed",
           "recovering", "overtaking", "queue"},
     check : Checks \cup {Nobody}, ok : BOOLEAN, depth : 0..3,
     before : CheckState, awaits : Runs \cup Mails \cup {Nobody},
     tasks : SUBSET Task]
Mail == [phase : {"free", "taken", "sending", "told", "failed"},
         tasks : SUBSET Task]
Told == [down : BOOLEAN, last : {"none", "down", "recovered"}]

\* How deep a probe of a parent may nest before it probes no further.
ProbeDepth == 3

ASSUME ChecksAssumption ==
    /\ IsFiniteSet(Checks)
    /\ Threshold \in Nat \ {0}
    /\ NoTime \notin Times
    /\ Nobody \notin Checks \cup Runs \cup Mails
    /\ Runs \cap Mails = {}
    /\ Pushed \subseteq Checks
    /\ Parent \in [Checks -> Checks \cup {Nobody}]
    /\ {Window, RecoveryMail, Cooldown, Warnings, MayStop} \subseteq BOOLEAN

VARIABLES
    live,       \* Engine.states: the committed state of every check
    enabled,    \* the check and its node are enabled (Engine.checks, .nodes)
    muted,      \* something the operator or the clock decides mutes the check
    run,        \* the runs
    mail,       \* the deliveries
    mailDone,   \* Engine.mailDone: the delivery under way about a check
    groups,     \* Engine.alertGroups: the alerts waiting in an open window
    stopping,   \* Engine.stopping, and whether Stop has flushed the groups
    told        \* what the recipients know: the last message about a check,
                \* and whether this outage's alert has reached them

vars == <<live, enabled, muted, run, mail, mailDone, groups, stopping, told>>

FreshState == [status |-> "unknown", failures |-> 0, alertActive |-> FALSE,
               lastAlert |-> NoTime, cooling |-> FALSE]
IdleRun == [pc |-> "idle", check |-> Nobody, ok |-> FALSE, depth |-> 0,
            before |-> FreshState, awaits |-> Nobody, tasks |-> {}]
FreeMail == [phase |-> "free", tasks |-> {}]

Init ==
    /\ live = [c \in Checks |-> FreshState]
    /\ enabled = [c \in Checks |-> TRUE]
    /\ muted = [c \in Checks |-> FALSE]
    /\ run = [r \in Runs |-> IdleRun]
    /\ mail = [d \in Mails |-> FreeMail]
    /\ mailDone = [c \in Checks |-> Nobody]
    /\ groups = [k \in Kinds |-> {}]
    /\ stopping = "no"
    /\ told = [c \in Checks |-> [down |-> FALSE, last |-> "none"]]

-----------------------------------------------------------------------------
(* Judging a result.                                                       *)

\* (A fault to compare with: the count goes one past the threshold.)
JudgedPastThreshold(s, ok) ==
    IF ok
    THEN [s EXCEPT !.status = "up", !.failures = 0,
                   !.alertActive = @ /\ s.status # "down"]
    ELSE LET f == IF s.failures <= Threshold THEN s.failures + 1 ELSE s.failures
         IN  [s EXCEPT !.failures = f,
                       !.status = IF f >= Threshold THEN "down" ELSE @]

\* The check's state after a result, before any alert is decided.
Judged(s, ok) ==
    IF ok
    THEN [s EXCEPT !.status = "up", !.failures = 0,
                   !.alertActive = @ /\ s.status # "down"]
    ELSE LET f == IF s.failures < Threshold THEN s.failures + 1 ELSE Threshold
         IN  [s EXCEPT !.failures = f,
                       !.status = IF f >= Threshold THEN "down" ELSE @]

\* (A fault: an alert that was held back or failed is not asked for again.)
EvaluatesOnce(s, ok) ==
    ~ok /\ Judged(s, ok).status = "down" /\ s.status # "down"

\* A failure asks for an alert when it takes the check down, and again on
\* every later failure as long as no alert of the outage is active.
Evaluates(s, ok) ==
    /\ ~ok
    /\ Judged(s, ok).status = "down"
    /\ s.status = "down" => ~s.alertActive

\* The checks above a check in the dependency chain, nearest or not.
Reach[n \in 0..Cardinality(Checks)] ==
    IF n = 0 THEN [c \in Checks |-> {c}]
    ELSE [c \in Checks |->
            Reach[n-1][c] \cup ({Parent[p] : p \in Reach[n-1][c]} \cap Checks)]
Ancestors(c) == Reach[Cardinality(Checks)][c] \ {c}

\* A parent that is down, or only failing so far, explains the failure.
ParentDown(c) ==
    \E p \in Ancestors(c) :
        enabled[p] /\ (live[p].status = "down" \/ live[p].failures > 0)

NeedsProbe(c, depth) ==
    ~muted[c] /\ Parent[c] # Nobody /\ ~ParentDown(c) /\ depth < ProbeDepth

\* (A fault: the cooldown never ends.)
MaySendOnce(c, s) ==
    ~muted[c] /\ ~ParentDown(c) /\ ~(Cooldown /\ s.lastAlert # NoTime)

MaySend(c, s) ==
    /\ ~muted[c]
    /\ ~ParentDown(c)
    /\ ~(Cooldown /\ s.lastAlert # NoTime /\ s.cooling)

\* The tasks about a check that are somewhere on their way.
TasksOf(c) ==
    {t \in UNION ({run[r].tasks : r \in Runs} \cup {mail[d].tasks : d \in Mails}
                  \cup {groups[k] : k \in Kinds}) : t.check = c}

\* The result's timestamp: different from that of every alert on its way.
FreshTimes(c) == Times \ {t.at : t \in TasksOf(c)}
Now(c) == CHOOSE x \in FreshTimes(c) : TRUE

\* Whoever waits for x waits no longer.
Woken(runs, x) ==
    [r \in Runs |-> IF runs[r].awaits = x THEN [runs[r] EXCEPT !.awaits = Nobody]
                    ELSE runs[r]]

\* A run ends: its flight is closed, so the runs that joined it go on.
EndRun(r) == run' = Woken([run EXCEPT ![r] = IdleRun], r)

IsDown(t, c) == t.check = c /\ t.kind = "down"

\* (A fault: the cooldown is given back, but the alert still counts as active.)
RearmedHalf(S) ==
    [c \in Checks |->
        IF (\E t \in S : IsDown(t, c)) /\ live[c].status = "down"
        THEN [live[c] EXCEPT !.lastAlert = NoTime, !.cooling = FALSE]
        ELSE live[c]]

\* Nothing was sent about S: its down checks are re-armed (failedMail).
Rearmed(S) ==
    [c \in Checks |->
        IF /\ \E t \in S : IsDown(t, c)
           /\ live[c].status = "down"
        THEN [live[c] EXCEPT !.alertActive = FALSE, !.lastAlert = NoTime,
                             !.cooling = FALSE]
        ELSE live[c]]

-----------------------------------------------------------------------------
(* A run, from the result to its last alert.                               *)

InFlight(c) == \E r \in Runs : run[r].check = c

\* (A fault: no flight is shared.)
MayStartAlways(c) == TRUE

\* A check that is not pushed has one run at a time: whoever asks for another
\* shares the one in flight.
MayStart(c) == c \in Pushed \/ ~InFlight(c)

\* The scheduler's turn, a request, or a pushed reading.  After Stop only the
\* last two (and a tick that came with it) can still start one.
Start(r, c) ==
    /\ run[r].pc = "idle"
    /\ MayStart(c)
    /\ \E ok \in BOOLEAN :
        run' = [run EXCEPT ![r] = [IdleRun EXCEPT !.pc = "begin", !.check = c,
                                                  !.ok = ok]]
    /\ UNCHANGED <<live, enabled, muted, mail, mailDone, groups, stopping, told>>

\* process looks once for a delivery about the check, and waits for that one.
AwaitMail(r) ==
    /\ run[r].pc = "begin"
    /\ mailDone[run[r].check] # Nobody
    /\ run' = [run EXCEPT ![r].pc = "held",
                          ![r].awaits = mailDone[run[r].check]]
    /\ UNCHANGED <<live, enabled, muted, mail, mailDone, groups, stopping, told>>

\* The run's context ends while it waits: the result is not recorded.
GiveUp(r) ==
    /\ run[r].pc = "held" /\ run[r].awaits # Nobody
    /\ EndRun(r)
    /\ UNCHANGED <<live, enabled, muted, mail, mailDone, groups, stopping, told>>

\* (A fault: the result is judged while the delivery is under way.)
ReadyAtOnce(r) ==
    \/ run[r].pc = "begin"
    \/ run[r].pc = "held" /\ run[r].awaits = Nobody

\* The run has the mutex and the delivery it saw, if any, is over.
ReadyToJudge(r) ==
    \/ run[r].pc = "begin" /\ mailDone[run[r].check] = Nobody
    \/ run[r].pc = "held" /\ run[r].awaits = Nobody

\* The check was disabled meanwhile, or the transaction fails: nothing is
\* recorded and nothing changes.
Unrecorded(r) ==
    /\ ReadyToJudge(r)
    /\ EndRun(r)
    /\ UNCHANGED <<live, enabled, muted, mail, mailDone, groups, stopping, told>>

\* Before alerting about a child the parent is run at once, without the mutex.
Probe(r) ==
    LET c == run[r].check IN
    /\ ReadyToJudge(r)
    /\ enabled[c]
    /\ Evaluates(live[c], run[r].ok) /\ NeedsProbe(c, run[r].depth)
    /\ run' = [run EXCEPT ![r].pc = "probe", ![r].before = live[c]]
    /\ UNCHANGED <<live, enabled, muted, mail, mailDone, groups, stopping, told>>

\* The result is judged and committed, and its alerts are decided.
Commit(r, warn) ==
    LET c == run[r].check
        was == live[c]
        judged == Judged(was, run[r].ok)
        sends == Evaluates(was, run[r].ok) /\ MaySend(c, judged)
        kinds == (IF sends THEN {"down"} ELSE {})
                 \cup (IF run[r].ok /\ was.status = "down" /\ was.alertActive
                       THEN {"recovered"} ELSE {})
                 \cup (IF run[r].ok /\ warn THEN {"warning"} ELSE {})
        recovers == was.status = "down" /\ judged.status # "down"
    IN
    /\ enabled[c]
    /\ kinds # {} => FreshTimes(c) # {}
    /\ live' = [live EXCEPT ![c] =
                  IF sends THEN [judged EXCEPT !.alertActive = TRUE,
                                   !.lastAlert = Now(c), !.cooling = Cooldown]
                  ELSE judged]
    /\ run' = [run EXCEPT ![r] =
                 [IdleRun EXCEPT !.pc = IF recovers THEN "recovering" ELSE "queue",
                    !.check = c, !.depth = run[r].depth,
                    !.tasks = {[check |-> c, kind |-> k, at |-> Now(c)] : k \in kinds}]]
    /\ told' = IF judged.status = "down" /\ was.status # "down"
               THEN [told EXCEPT ![c].down = FALSE] ELSE told
    /\ UNCHANGED <<enabled, muted, mail, mailDone, groups, stopping>>

Record(r) ==
    LET c == run[r].check IN
    /\ ReadyToJudge(r)
    /\ ~(Evaluates(live[c], run[r].ok) /\ NeedsProbe(c, run[r].depth))
    /\ \E warn \in BOOLEAN : (warn => Warnings) /\ Commit(r, warn)

-----------------------------------------------------------------------------
(* The probe of the parent: a nested run of the parent's check.            *)

Probeable(p) == enabled[p] /\ p \notin Pushed

\* The parent is disabled, or a collector runs it: there is nothing to run.
ProbeNothing(r) ==
    /\ run[r].pc = "probe"
    /\ ~Probeable(Parent[run[r].check])
    /\ run' = [run EXCEPT ![r].pc = "probed"]
    /\ UNCHANGED <<live, enabled, muted, mail, mailDone, groups, stopping, told>>

\* The parent is in flight already: its result is shared.
ProbeJoins(r, q) ==
    LET p == Parent[run[r].check] IN
    /\ run[r].pc = "probe"
    /\ Probeable(p)
    /\ run[q].check = p
    /\ run' = [run EXCEPT ![r].pc = "joined", ![r].awaits = q]
    /\ UNCHANGED <<live, enabled, muted, mail, mailDone, groups, stopping, told>>

\* The parent is run, one level deeper; q is the call's frame.
ProbeRuns(r, q) ==
    LET p == Parent[run[r].check] IN
    /\ run[r].pc = "probe"
    /\ Probeable(p)
    /\ ~InFlight(p)
    /\ run[q].pc = "idle"
    /\ \E ok \in BOOLEAN :
        run' = [run EXCEPT ![r].pc = "probed", ![r].awaits = q,
                           ![q] = [IdleRun EXCEPT !.pc = "begin", !.check = p,
                                     !.ok = ok, !.depth = run[r].depth + 1]]
    /\ UNCHANGED <<live, enabled, muted, mail, mailDone, groups, stopping, told>>

\* Two minutes are up for a run that joined another.
ProbeTimeout(r) ==
    /\ run[r].pc = "joined" /\ run[r].awaits # Nobody
    /\ run' = [run EXCEPT ![r].awaits = Nobody]
    /\ UNCHANGED <<live, enabled, muted, mail, mailDone, groups, stopping, told>>

ProbeOver(r) == run[r].pc \in {"joined", "probed"} /\ run[r].awaits = Nobody

\* Disabled while the parent was probed, or the transaction fails.
ProbeUnrecorded(r) ==
    /\ ProbeOver(r)
    /\ EndRun(r)
    /\ UNCHANGED <<live, enabled, muted, mail, mailDone, groups, stopping, told>>

\* The state staged before the probe is no longer the one it was staged from
\* (that time passes does not change a state).
Changed(r) ==
    LET now == live[run[r].check] IN now # [run[r].before EXCEPT !.cooling = now.cooling]

\* Something else committed to the check meanwhile: the failure is applied
\* again on top of it, from the start, and probes no further.
ProbeAgain(r) ==
    LET c == run[r].check IN
    /\ ProbeOver(r)
    /\ enabled[c]
    /\ Changed(r)
    /\ run' = [run EXCEPT ![r] = [IdleRun EXCEPT !.pc = "begin", !.check = c,
                                    !.depth = ProbeDepth]]
    /\ UNCHANGED <<live, enabled, muted, mail, mailDone, groups, stopping, told>>

\* Nothing did: what was staged before the probe is committed.
ProbeRecord(r) ==
    /\ ProbeOver(r)
    /\ ~Changed(r)
    /\ Commit(r, FALSE)

-----------------------------------------------------------------------------
(* The alerts of a committed result (dispatchAlerts, queueAlert).          *)

\* What a recovery takes out of the open windows: the check's down alert,
\* the oldest when it has two.
Pending(c) == {t \in groups["down"] : t.check = c}
Oldest(c, t) == t.at = live[c].lastAlert => Pending(c) = {t}

\* The recovery finds its down alert still waiting: neither is sent, and the
\* alert that was never sent does not start the cooldown.
DropPendingDown(r) ==
    LET c == run[r].check IN
    /\ run[r].pc = "recovering"
    /\ \E t \in Pending(c) :
        /\ Oldest(c, t)
        /\ groups' = [groups EXCEPT !["down"] = @ \ {t}]
        /\ live' = [live EXCEPT ![c] =
                      IF @.lastAlert = t.at
                      THEN [@ EXCEPT !.lastAlert = NoTime, !.cooling = FALSE]
                      ELSE @]
    /\ run' = [run EXCEPT ![r].pc = "queue",
                          ![r].tasks = {t \in @ : t.kind # "recovered"}]
    /\ UNCHANGED <<enabled, muted, mail, mailDone, stopping, told>>

NothingPending(r) ==
    /\ run[r].pc = "recovering"
    /\ Pending(run[r].check) = {}
    /\ run' = [run EXCEPT ![r].pc = "overtaking"]
    /\ UNCHANGED <<live, enabled, muted, mail, mailDone, groups, stopping, told>>

\* The recovery waits for the delivery under way, if it sees one.
AwaitDown(r) ==
    /\ run[r].pc = "overtaking"
    /\ run' = [run EXCEPT ![r].pc = "queue",
                          ![r].awaits = mailDone[run[r].check]]
    /\ UNCHANGED <<live, enabled, muted, mail, mailDone, groups, stopping, told>>

\* Stop's grace period is over: the work context ends, and with it that wait.
WorkCancelled(r) ==
    /\ stopping = "flushed"
    /\ run[r].pc = "queue" /\ run[r].awaits # Nobody
    /\ run' = [run EXCEPT ![r].awaits = Nobody]
    /\ UNCHANGED <<live, enabled, muted, mail, mailDone, groups, stopping, told>>

\* The alert to queue next: a warning comes last.
Queues(r, t) ==
    /\ run[r].pc = "queue" /\ run[r].awaits = Nobody
    /\ t \in run[r].tasks
    /\ t.kind = "warning" => run[r].tasks = {t}

\* (A fault: a window opens although Stop has flushed them.)
GroupedAlways(t) == Window /\ (t.kind = "recovered" => RecoveryMail)

\* A window takes the alert, unless the service is stopping; a recovery for
\* the incident channels alone is never grouped.
Grouped(t) ==
    Window /\ stopping = "no" /\ (t.kind = "recovered" => RecoveryMail)

JoinGroup(r, t) ==
    /\ Queues(r, t)
    /\ Grouped(t)
    /\ groups' = [groups EXCEPT ![t.kind] = @ \cup {t}]
    /\ run' = [run EXCEPT ![r].tasks = @ \ {t}]
    /\ UNCHANGED <<live, enabled, muted, mail, mailDone, stopping, told>>

\* The delivery starts, and later results of the check wait for it.
SendMail(r, t, d) ==
    /\ Queues(r, t)
    /\ ~Grouped(t)
    /\ mail[d].phase = "free"
    /\ mail' = [mail EXCEPT ![d] = [phase |-> "sending", tasks |-> {t}]]
    /\ mailDone' = [mailDone EXCEPT ![t.check] = d]
    /\ run' = [run EXCEPT ![r].tasks = @ \ {t}]
    /\ UNCHANGED <<live, enabled, muted, groups, stopping, told>>

\* (A fault: the check is not re-armed.)
NoRecipientsIgnored(r, t) ==
    /\ Queues(r, t) /\ ~Grouped(t)
    /\ run' = [run EXCEPT ![r].tasks = @ \ {t}]
    /\ UNCHANGED <<live, enabled, muted, mail, mailDone, groups, stopping, told>>

\* There is nobody to send it to.
NoRecipients(r, t) ==
    /\ Queues(r, t)
    /\ ~Grouped(t)
    /\ live' = Rearmed({t})
    /\ run' = [run EXCEPT ![r].tasks = @ \ {t}]
    /\ UNCHANGED <<enabled, muted, mail, mailDone, groups, stopping, told>>

Finish(r) ==
    /\ run[r].pc = "queue" /\ run[r].awaits = Nobody
    /\ run[r].tasks = {}
    /\ EndRun(r)
    /\ UNCHANGED <<live, enabled, muted, mail, mailDone, groups, stopping, told>>

-----------------------------------------------------------------------------
(* Windows and deliveries.                                                 *)

FreeMails == {d \in Mails : mail[d].phase = "free"}

\* A window closes: its alerts leave the map, and are with nobody until the
\* delivery registers.
CloseGroup(k, d) ==
    /\ groups[k] # {}
    /\ d \in FreeMails
    /\ mail' = [mail EXCEPT ![d] = [phase |-> "taken", tasks |-> groups[k]]]
    /\ groups' = [groups EXCEPT ![k] = {}]
    /\ UNCHANGED <<live, enabled, muted, run, mailDone, stopping, told>>

Register(d) ==
    /\ mail[d].phase = "taken"
    /\ mail' = [mail EXCEPT ![d].phase = "sending"]
    /\ mailDone' = [c \in Checks |-> IF \E t \in mail[d].tasks : t.check = c
                                     THEN d ELSE mailDone[c]]
    /\ UNCHANGED <<live, enabled, muted, run, groups, stopping, told>>

\* The e-mail or a channel got through: for all the alerts S, or, when only
\* the incident channels send (one event each), for some of them; the checks
\* of the others are re-armed.  (The goroutine does so one by one; each check's
\* next result waits until it has done with all of them.)
Deliver(d, S) ==
    /\ mail[d].phase = "sending"
    /\ S \subseteq mail[d].tasks /\ S # {}
    /\ mail' = [mail EXCEPT ![d].phase = "told"]
    /\ live' = Rearmed(mail[d].tasks \ S)
    /\ told' = [c \in Checks |->
                  IF \E t \in S : IsDown(t, c) THEN [down |-> TRUE, last |-> "down"]
                  ELSE IF \E t \in S : t.check = c /\ t.kind = "recovered"
                  THEN [told[c] EXCEPT !.last = "recovered"]
                  ELSE told[c]]
    /\ UNCHANGED <<enabled, muted, run, mailDone, groups, stopping>>

\* Nothing got through, or a closed window found no recipients.
FailedMail(d) ==
    /\ mail[d].phase \in {"sending", "taken"}
    /\ mail' = [mail EXCEPT ![d].phase = "failed"]
    /\ live' = Rearmed(mail[d].tasks)
    /\ UNCHANGED <<enabled, muted, run, mailDone, groups, stopping, told>>

\* (A fault: the channel is forgotten without being closed.)
ReleaseUnclosed(d) ==
    /\ mail[d].phase \in {"told", "failed"}
    /\ mail' = [mail EXCEPT ![d] = FreeMail]
    /\ mailDone' = [c \in Checks |-> IF mailDone[c] = d THEN Nobody ELSE mailDone[c]]
    /\ UNCHANGED <<live, enabled, muted, run, groups, stopping, told>>

\* The done channel is closed, and forgotten unless a newer delivery has
\* taken its place.
ReleaseMail(d) ==
    /\ mail[d].phase \in {"told", "failed"}
    /\ mail' = [mail EXCEPT ![d] = FreeMail]
    /\ mailDone' = [c \in Checks |-> IF mailDone[c] = d THEN Nobody ELSE mailDone[c]]
    /\ run' = Woken(run, d)
    /\ UNCHANGED <<live, enabled, muted, groups, stopping, told>>

-----------------------------------------------------------------------------
(* The operator, the clock, and the end of the service.                    *)

\* ReloadConfig finds the check, or its node, switched off.
Disable(c) ==
    /\ c \in Disableable
    /\ enabled[c]
    /\ enabled' = [enabled EXCEPT ![c] = FALSE]
    /\ live' = [live EXCEPT ![c] = [@ EXCEPT !.status = "paused", !.failures = 0,
                                             !.alertActive = FALSE]]
    /\ UNCHANGED <<muted, run, mail, mailDone, groups, stopping, told>>

Enable(c) ==
    /\ ~enabled[c]
    /\ enabled' = [enabled EXCEPT ![c] = TRUE]
    /\ live' = [live EXCEPT ![c].status = "unknown"]
    /\ UNCHANGED <<muted, run, mail, mailDone, groups, stopping, told>>

\* A silence, a maintenance window, an acknowledgement, the alert switch:
\* each may begin and end at any time.
Mute(c) ==
    /\ c \in Mutable
    /\ muted' = [muted EXCEPT ![c] = ~@]
    /\ UNCHANGED <<live, enabled, run, mail, mailDone, groups, stopping, told>>

CooldownElapses(c) ==
    /\ live[c].cooling
    /\ live' = [live EXCEPT ![c].cooling = FALSE]
    /\ UNCHANGED <<enabled, muted, run, mail, mailDone, groups, stopping, told>>

\* Stop forbids new windows, then sends what the open ones hold.
Stop ==
    /\ MayStop
    /\ stopping = "no"
    /\ stopping' = "stopping"
    /\ UNCHANGED <<live, enabled, muted, run, mail, mailDone, groups, told>>

FlushGroups ==
    /\ stopping = "stopping"
    /\ stopping' = "flushed"
    /\ LET open == {k \in Kinds : groups[k] # {}} IN
       \E f \in [open -> FreeMails] :
        /\ \A j, k \in open : j # k => f[j] # f[k]
        /\ mail' = [d \in Mails |->
                      IF \E k \in open : f[k] = d
                      THEN [phase |-> "taken",
                            tasks |-> UNION {groups[k] : k \in {j \in open : f[j] = d}}]
                      ELSE mail[d]]
    /\ groups' = [k \in Kinds |-> {}]
    /\ UNCHANGED <<live, enabled, muted, run, mailDone, told>>

-----------------------------------------------------------------------------

RunStep(r) ==
    \/ AwaitMail(r) \/ Unrecorded(r) \/ Record(r)
    \/ Probe(r) \/ ProbeNothing(r)
    \/ \E q \in Runs : ProbeJoins(r, q) \/ ProbeRuns(r, q)
    \/ ProbeUnrecorded(r) \/ ProbeAgain(r) \/ ProbeRecord(r)
    \/ DropPendingDown(r) \/ NothingPending(r) \/ AwaitDown(r)
    \/ \E t \in run[r].tasks :
        \/ JoinGroup(r, t) \/ NoRecipients(r, t)
        \/ \E d \in Mails : SendMail(r, t, d)
    \/ Finish(r)

MailStep(d) ==
    \/ Register(d) \/ FailedMail(d) \/ ReleaseMail(d)
    \/ \E S \in SUBSET mail[d].tasks : Deliver(d, S)

Next ==
    \/ \E r \in Runs :
        \/ \E c \in Checks : Start(r, c)
        \/ RunStep(r) \/ GiveUp(r) \/ ProbeTimeout(r) \/ WorkCancelled(r)
    \/ \E d \in Mails :
        \/ MailStep(d)
        \/ \E k \in Kinds : CloseGroup(k, d)
    \/ \E c \in Checks : Disable(c) \/ Enable(c) \/ Mute(c) \/ CooldownElapses(c)
    \/ Stop \/ FlushGroups

Spec == Init /\ [][Next]_vars

Carries(d, c) == \E t \in mail[d].tasks : t.check = c

Serving == stopping = "no"

\* Go runs every goroutine that can go on; a delivery ends, by its timeouts.
\* Until Stop cancels it all, the scheduler brings every check its turn (the
\* longest due first), and neither the database nor the recipients are out of
\* reach for ever.
Fairness ==
    /\ \A c \in Checks : SF_vars(Serving /\ \E r \in Runs : Start(r, c))
    /\ \A r \in Runs : WF_vars(RunStep(r))
    /\ \A d \in Mails : WF_vars(MailStep(d))
    /\ \A k \in Kinds : WF_vars(\E d \in Mails : CloseGroup(k, d))
    /\ \A c \in Checks :
        /\ WF_vars(CooldownElapses(c))
        /\ SF_vars(Serving /\ \E r \in Runs :
                       run[r].check = c /\ (Record(r) \/ ProbeRecord(r)))
        /\ SF_vars(Serving /\ \E r \in Runs, d \in Mails : \E t \in run[r].tasks :
                       t.check = c /\ SendMail(r, t, d))
        /\ SF_vars(Serving /\ \E d \in Mails : Carries(d, c) /\ Register(d))
        /\ SF_vars(Serving /\ \E d \in Mails :
                       Carries(d, c) /\ Deliver(d, mail[d].tasks))

FairSpec == Spec /\ Fairness

-----------------------------------------------------------------------------
(* Properties.                                                             *)

TypeOK ==
    /\ live \in [Checks -> CheckState]
    /\ enabled \in [Checks -> BOOLEAN]
    /\ muted \in [Checks -> BOOLEAN]
    /\ run \in [Runs -> Run]
    /\ mail \in [Mails -> Mail]
    /\ mailDone \in [Checks -> Mails \cup {Nobody}]
    /\ groups \in [Kinds -> SUBSET Task]
    /\ stopping \in {"no", "stopping", "flushed"}
    /\ told \in [Checks -> Told]

\* What a waiting run waits for is still to come: the delivery it saw in
\* mailDone has not closed its channel, the run it joined is in flight, and
\* mailDone itself only names deliveries under way about the check.  No run
\* is left waiting on a channel nobody will close.
NoLostWakeup ==
    /\ \A c \in Checks : mailDone[c] # Nobody =>
        /\ mail[mailDone[c]].phase \in {"sending", "told", "failed"}
        /\ \E t \in mail[mailDone[c]].tasks : t.check = c
    /\ \A r \in Runs :
        /\ run[r].awaits \in Mails =>
            mail[run[r].awaits].phase \in {"sending", "told", "failed"}
        /\ run[r].awaits \in Runs => run[run[r].awaits].pc # "idle"

\* An outage the engine counts as alerted was told to somebody, or its alert
\* is still on its way: an alert is never written off without being sent
\* (AlertActive stops every later failure from asking again).  A pushed check
\* is left out: two of its results may be in process at once, and a recovery
\* may then drop the alert of an outage that began after it.
OnItsWay(c) ==
    \/ \E r \in Runs : \E t \in run[r].tasks : IsDown(t, c)
    \/ \E t \in groups["down"] : IsDown(t, c)
    \/ \E d \in Mails : /\ mail[d].phase \in {"taken", "sending"}
                       /\ \E t \in mail[d].tasks : IsDown(t, c)
AlertAccounted ==
    \A c \in Checks \ Pushed :
        live[c].status = "down" /\ live[c].alertActive => told[c].down \/ OnItsWay(c)

\* Once Stop has flushed the windows nothing waits in one: a shutdown neither
\* waits a window out nor loses its alerts.
FlushedForGood == stopping = "flushed" => \A k \in Kinds : groups[k] = {}

\* "The recovery must not overtake" the alert (alertbatch.go:101): recipients
\* are told of a recovery only after the alert it answers.
RecoveryAfterAlert ==
    [][\A c \in Checks :
        told[c].last # "recovered" /\ told'[c].last = "recovered" => told[c].down]_told

\* An outage that lasts while the service runs and nothing holds its alert back
\* is told, however many deliveries and transactions fail first.  (After Stop
\* nothing is scheduled: an alert whose last delivery fails then is not retried.)
TellsOutage ==
    \A c \in Checks :
        (live[c].status = "down" /\ ~told[c].down)
            ~> \/ told[c].down
               \/ live[c].status # "down" \/ muted[c] \/ ParentDown(c)
               \/ ~Serving

\* Every result taken up is done with: no run waits for ever.
RunsEnd == \A r \in Runs : run[r].pc # "idle" ~> run[r].pc = "idle"

\* The recipients' contract (AlertContract): an outage is told at most once,
\* a recovery at most once and only after its alert.  It is what process
\* waiting for the delivery before it judges the next result is for.
Contract == INSTANCE AlertContract WITH
    open  <- [c \in Checks |-> live[c].status = "down"],
    heard <- [c \in Checks |-> told[c].down],
    last  <- [c \in Checks |-> told[c].last]
KeepsContract == Contract!Spec
=============================================================================
