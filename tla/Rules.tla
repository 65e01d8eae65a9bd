------------------------------- MODULE Rules -------------------------------
(***************************************************************************)
(* Notification rules: internal/engine/rules.go, and everything of the     *)
(* engine that changes what a rule looks at - judged results               *)
(* (process.go), silences, maintenance windows (jobs.go), collectors that  *)
(* go quiet (collectors.go), the reload of the configuration (engine.go)   *)
(* and the requests that save it (api/rules.go).                           *)
(*                                                                         *)
(* A rule is met while enough of the checks it looks at are down and       *)
(* count.  It is evaluated again after each change, by whoever made it and *)
(* after the mutex was let go, so what is evaluated is whatever holds by   *)
(* then; the state is then stored, which is what a restart believes.       *)
(* Left out: what the actions of a rule do and the cooldown that may hold  *)
(* them back, degraded checks (they count as down or as up), conditions on *)
(* a node (the checks of it), and restores.                                *)
(***************************************************************************)
EXTENDS Naturals, FiniteSets

CONSTANTS
    RChecks, RRules,
    Looks,                      \* the checks each rule looks at
    Needed,                     \* how many of them have to be down
    Collected,                  \* the checks a remote collector runs
    Covered, Silenceable,       \* those under the maintenance window; those users silence
    User, Scheduler, Tracker, Loader, \* who evaluates rules, other than the runs of checks
    Nobody, All,                \* no evaluation owed, one of all rules owed
    REdits, RCrashes, RFails    \* bounds: saves, ends of the service, failed statements

Actors == RChecks \cup {User, Scheduler, Tracker, Loader}

ASSUME RulesAssumption ==
    /\ IsFiniteSet(RChecks) /\ Looks \in [RRules -> SUBSET RChecks] /\ Needed \in Nat \ {0}
    /\ Collected \subseteq RChecks /\ Covered \subseteq RChecks /\ Silenceable \subseteq RChecks
    /\ {User, Scheduler, Tracker, Loader, Nobody, All} \cap RChecks = {}
    /\ Nobody # All /\ Cardinality({User, Scheduler, Tracker, Loader}) = 4
    /\ {REdits, RCrashes, RFails} \subseteq Nat

Statuses == {"up", "down", "unknown", "paused"}
States == {"met", "unmet", "none"}
Settings == {"on", "off", "new", "gone"}
Absent == {"new", "gone"}   \* not created yet; deleted (ids are not used again)
Outcomes == {"fired", "cleared", "reset", "none"}

VARIABLES
    up,         \* the service runs
    conf, live, \* the configuration: stored, and in Engine.checks and Engine.rules
    status,     \* CheckState.Status
    quiet,      \* checks that were down when their collector went quiet
    away,       \* the collector is counted as unreachable (collectorWatch.down)
    silence,    \* of each check: "no", "yes", or "over": its time is up, not yet seen
    window,     \* the maintenance window is open
    seen,       \* what trackMaintenance last saw of that (Engine.activeMW)
    held,       \* Engine.ruleStates
    stored,     \* the rule_state rows
    owes,       \* the evaluation an actor has yet to make
    saving,     \* what an evaluation has decided and not stored; not empty while
                \* it holds rulesEvalMu
    load,       \* the ReloadConfig under way
    unloaded,   \* something was saved, and its ReloadConfig has not begun
    edits, crashes, fails,
    fired,      \* history: rules whose last decision was to fire
    unsure,     \* history: rules stored otherwise than they were decided
    missed      \* history: rules a change of which nobody has evaluated

settings == <<conf, live>>
checkVars == <<status, quiet, away, silence, window, seen>>
bounds == <<edits, crashes, fails>>
history == <<fired, unsure, missed>>
ruleVars == <<up, settings, checkVars, held, stored, owes, saving, load, unloaded,
              bounds, history>>

NoLoad == [at |-> "idle", rules |-> [r \in RRules |-> "new"],
           states |-> [r \in RRules |-> "none"], fresh |-> {}]
NothingSaving == [a \in Actors |-> [r \in RRules |-> "none"]]
NothingOwed == [a \in Actors |-> Nobody]

RulesInit ==
    /\ up = TRUE
    /\ \E rules \in [RRules -> Settings \ {"gone"}] :
        conf = [on |-> [c \in RChecks |-> TRUE], rules |-> rules]
    /\ live = conf
    /\ status = [c \in RChecks |-> "unknown"] /\ quiet = {} /\ away = FALSE
    /\ silence = [c \in RChecks |-> "no"] /\ window = FALSE /\ seen = FALSE
    /\ held = [r \in RRules |-> IF conf.rules[r] \in Absent THEN "none" ELSE "unmet"]
    /\ stored = held
    /\ owes = NothingOwed /\ saving = NothingSaving /\ load = NoLoad /\ unloaded = FALSE
    /\ edits = 0 /\ crashes = 0 /\ fails = 0
    /\ fired = {} /\ unsure = {} /\ missed = {}

-----------------------------------------------------------------------------
(* What a rule looks at.                                                   *)

\* conditionHoldsLocked.
Counts(c) ==
    /\ live.on[c] /\ status[c] = "down"
    /\ silence[c] # "yes" /\ ~(window /\ c \in Covered)

\* ruleMetLocked, against Needed.
Met(r) == Cardinality({c \in Looks[r] : Counts(c)}) >= Needed

Looking(c) == {r \in RRules : c \in Looks[r]}

\* The rules an evaluation concerns: all, or those that look at a check.
Concerned(what) == IF what = All THEN RRules ELSE {r \in RRules : what \in Looks[r]}

Owe(a, what) == owes[a] = Nobody /\ owes' = [owes EXCEPT ![a] = what]

\* (A fault: the rules are told only of checks that go down.)
JudgeDownOnly(c, ok) ==
    LET prev == IF c \in quiet THEN "down" ELSE status[c]
    IN  /\ up /\ live.on[c] /\ owes[c] = Nobody /\ (c \in Collected => ~away)
        /\ \E to \in IF ok THEN {"up"} ELSE {prev, "down"} :
            /\ status' = [status EXCEPT ![c] = to]
            /\ owes' = [owes EXCEPT ![c] = IF to = "down" /\ to # prev THEN c ELSE Nobody]
            /\ missed' = IF c \in quiet /\ to = "down" THEN missed \cup Looking(c) ELSE missed
        /\ quiet' = quiet \ {c}
        /\ UNCHANGED <<up, settings, away, silence, window, seen, held, stored, saving, load,
                       unloaded, bounds, fired, unsure>>

\* process commits a result; the rules hear of it if it changed the status.  A
\* check that was down before its collector went quiet is put back to down first
\* (resumeFromCollector): that the rules took it for unknown meanwhile is missed.
Judge(c, ok) ==
    LET prev == IF c \in quiet THEN "down" ELSE status[c]
    IN  /\ up /\ live.on[c] /\ owes[c] = Nobody /\ (c \in Collected => ~away)
        /\ \E to \in IF ok THEN {"up"} ELSE {prev, "down"} :
            /\ status' = [status EXCEPT ![c] = to]
            /\ owes' = [owes EXCEPT ![c] = IF to # prev THEN c ELSE Nobody]
            /\ missed' = IF c \in quiet /\ to = "down" THEN missed \cup Looking(c) ELSE missed
        /\ quiet' = quiet \ {c}
        /\ UNCHANGED <<up, settings, away, silence, window, seen, held, stored, saving, load,
                       unloaded, bounds, fired, unsure>>

\* Silence: a user silences a check, or ends its silence.
Silence(c, to) ==
    /\ up /\ to # silence[c] /\ Owe(User, c)
    /\ silence' = [silence EXCEPT ![c] = to]
    /\ UNCHANGED <<up, settings, status, quiet, away, window, seen, held, stored, saving, load,
                   unloaded, bounds, history>>

\* The time of a silence is up.
SilenceOver(c) ==
    /\ silence[c] = "yes"
    /\ silence' = [silence EXCEPT ![c] = "over"]
    /\ UNCHANGED <<up, settings, status, quiet, away, window, seen, held, stored, owes, saving,
                   load, unloaded, bounds, history>>

\* tick: silences that are over are ended, and a collector not heard of for too
\* long leaves its checks unknown (watchCollectorsLocked).
Tick ==
    /\ up /\ Owe(Scheduler, All)
    /\ \E gone \in BOOLEAN :
        LET lost == IF gone THEN {c \in Collected : live.on[c]} ELSE {}
        IN  /\ gone => ~away /\ lost # {}
            /\ gone \/ \E c \in RChecks : silence[c] = "over"
            /\ away' = (away \/ gone)
            /\ status' = [c \in RChecks |-> IF c \in lost THEN "unknown" ELSE status[c]]
            /\ quiet' = quiet \cup {c \in lost : status[c] = "down"}
    /\ silence' = [c \in RChecks |-> IF silence[c] = "over" THEN "no" ELSE silence[c]]
    /\ UNCHANGED <<up, settings, window, seen, held, stored, saving, load, unloaded, bounds,
                   history>>

\* noteCollectorSeen: the collector is back; its checks wait for their results.
Back ==
    /\ up /\ away /\ away' = FALSE
    /\ UNCHANGED <<up, settings, status, quiet, silence, window, seen, held, stored, owes,
                   saving, load, unloaded, bounds, history>>

\* The window opens or closes, whether the service runs or not; one that is over
\* before it was seen is missed.
WindowTurns ==
    /\ window' = ~window
    /\ missed' = IF up /\ seen = window THEN missed ELSE RRules
    /\ UNCHANGED <<up, settings, status, quiet, away, silence, seen, held, stored, owes, saving,
                   load, unloaded, bounds, fired, unsure>>

\* trackMaintenance sees it.
Track ==
    /\ up /\ seen # window /\ Owe(Tracker, All)
    /\ seen' = window
    /\ UNCHANGED <<up, settings, status, quiet, away, silence, window, held, stored, saving,
                   load, unloaded, bounds, history>>

-----------------------------------------------------------------------------
(* evaluateRules.                                                          *)

\* rulesEvalMu is free.
Free == saving = NothingSaving

\* What an evaluation makes of a rule.
Outcome(r, concerned) ==
    CASE live.rules[r] = "off" /\ held[r] = "met" -> "reset"
      [] live.rules[r] = "on" /\ r \in concerned /\ held[r] = "unmet" /\ Met(r) -> "fired"
      [] live.rules[r] = "on" /\ r \in concerned /\ held[r] = "met" /\ ~Met(r) -> "cleared"
      [] OTHER -> "none"

DecideWith(a, concerned) ==
    LET made == [r \in RRules |-> Outcome(r, concerned)]
    IN  /\ held' = [r \in RRules |-> CASE made[r] = "none" -> held[r]
                                       [] made[r] = "fired" -> "met"
                                       [] OTHER -> "unmet"]
        /\ saving' = [saving EXCEPT ![a] = made]
        /\ owes' = [owes EXCEPT ![a] = Nobody]
        /\ fired' = {r \in RRules : made[r] = "fired" \/ (made[r] = "none" /\ r \in fired)}
        /\ missed' = missed \ concerned
        /\ UNCHANGED <<up, settings, checkVars, stored, load, unloaded, bounds, unsure>>

\* (A fault: evaluations overlap.)
DecideAtOnce(a) ==
    /\ up /\ owes[a] # Nobody /\ saving[a] = NothingSaving[a]
    /\ DecideWith(a, Concerned(owes[a]))

\* One at a time: where each rule stands is decided under the mutex ...
Decide(a) ==
    /\ up /\ owes[a] # Nobody /\ Free
    /\ DecideWith(a, Concerned(owes[a]))

Stored(outcome) == IF outcome = "fired" THEN "met" ELSE "unmet"

\* PutRuleState; the row of a rule that is deleted is refused.
Put(r, state) == IF conf.rules[r] \in Absent THEN stored ELSE [stored EXCEPT ![r] = state]

\* ... and stored once it was let go.
Save(a, r) ==
    /\ up /\ saving[a][r] # "none"
    /\ stored' = Put(r, Stored(saving[a][r]))
    /\ saving' = [saving EXCEPT ![a][r] = "none"]
    /\ unsure' = unsure \ {r}
    /\ UNCHANGED <<up, settings, checkVars, held, owes, load, unloaded, bounds, fired, missed>>

\* That fails: it is logged.
SaveFails(a, r) ==
    /\ up /\ saving[a][r] # "none" /\ fails < RFails
    /\ fails' = fails + 1
    /\ saving' = [saving EXCEPT ![a][r] = "none"]
    /\ unsure' = unsure \cup {r}
    /\ UNCHANGED <<up, settings, checkVars, held, stored, owes, load, unloaded, edits, crashes,
                   fired, missed>>

-----------------------------------------------------------------------------
(* The configuration.                                                      *)

\* A request saves a rule, changed in what is modelled or not, or deletes it
\* (handleSaveRule, handleDeleteRule), or switches a check on or off; a reload follows.
Saved(newConf) ==
    /\ up /\ edits < REdits /\ edits' = edits + 1
    /\ conf' = newConf /\ unloaded' = TRUE
    /\ UNCHANGED <<up, live, checkVars, held, owes, saving, load, crashes, fails, history>>

SaveRule(r, to) ==
    /\ conf.rules[r] # "gone"
    /\ to \in IF conf.rules[r] = "new" THEN {"on", "off"} ELSE {"on", "off", "gone"}
    /\ Saved([conf EXCEPT !.rules[r] = to])
    /\ stored' = IF to = "gone" THEN [stored EXCEPT ![r] = "none"] ELSE stored

SwitchCheck(c) ==
    /\ Saved([conf EXCEPT !.on[c] = ~@])
    /\ UNCHANGED stored

\* What becomes of the checks: one switched off is paused, one switched on unknown.
Applied(on) ==
    /\ live' = [live EXCEPT !.on = on]
    /\ status' = [c \in RChecks |-> IF ~on[c] THEN "paused"
                                    ELSE IF status[c] = "paused" THEN "unknown" ELSE status[c]]
    /\ quiet' = {c \in quiet : on[c]}

\* ReloadConfig, one at a time (reloadMu), applies the checks ...
LoadApplies ==
    /\ up /\ unloaded /\ load.at = "idle"
    /\ owes[Loader] = Nobody /\ saving[Loader] = NothingSaving[Loader]
    /\ unloaded' = FALSE /\ load' = [load EXCEPT !.at = "applied"]
    /\ Applied(conf.on)
    /\ UNCHANGED <<up, conf, away, silence, window, seen, held, stored, owes, saving, bounds,
                   history>>

\* ... and loadRules reads the rules and their states,
LoadReads ==
    /\ up /\ load.at = "applied"
    /\ load' = [load EXCEPT !.at = "read", !.rules = conf.rules, !.states = stored]
    /\ UNCHANGED <<up, settings, checkVars, held, stored, owes, saving, unloaded, bounds,
                   history>>

\* (A fault: the states read replace those that are known.)
LoadRulesStale ==
    LET known == {r \in RRules : load.rules[r] \notin Absent}
        fresh == {r \in known : held[r] = "none" /\ load.states[r] = "none"}
    IN  /\ up /\ load.at = "read"
        /\ live' = [live EXCEPT !.rules = load.rules]
        /\ held' = [r \in RRules |-> IF r \notin known THEN "none"
                                     ELSE IF r \in fresh THEN "unmet"
                                     ELSE IF load.states[r] = "none" THEN held[r] ELSE load.states[r]]
        /\ load' = [load EXCEPT !.at = "saving", !.fresh = fresh]
        /\ fired' = fired \cap known /\ missed' = missed \cap known
        /\ UNCHANGED <<up, conf, checkVars, stored, owes, saving, unloaded, bounds, unsure>>

\* keeps the states of those it knows, takes the stored state of the others and
\* records those that have none,
LoadRules ==
    LET known == {r \in RRules : load.rules[r] \notin Absent}
        fresh == {r \in known : held[r] = "none" /\ load.states[r] = "none"}
    IN  /\ up /\ load.at = "read"
        /\ live' = [live EXCEPT !.rules = load.rules]
        /\ held' = [r \in RRules |-> IF r \notin known THEN "none"
                                     ELSE IF r \in fresh THEN "unmet"
                                     ELSE IF held[r] = "none" THEN load.states[r] ELSE held[r]]
        /\ load' = [load EXCEPT !.at = "saving", !.fresh = fresh]
        /\ fired' = fired \cap known /\ missed' = missed \cap known
        /\ UNCHANGED <<up, conf, checkVars, stored, owes, saving, unloaded, bounds, unsure>>

\* which it stores after letting the mutex go, whatever has been decided about them
\* since; or it fails to.
LoadSaves(r) ==
    /\ up /\ r \in load.fresh
    /\ load' = [load EXCEPT !.fresh = @ \ {r}]
    /\ \/ /\ stored' = Put(r, "unmet")
          /\ unsure' = IF held[r] = "met" THEN unsure \cup {r} ELSE unsure
          /\ UNCHANGED fails
       \/ /\ fails < RFails /\ fails' = fails + 1
          /\ UNCHANGED <<stored, unsure>>
    /\ UNCHANGED <<up, settings, checkVars, held, owes, saving, unloaded, edits, crashes, fired,
                   missed>>

\* Then all are evaluated.
LoadEvaluates ==
    /\ up /\ load.at = "saving" /\ load.fresh = {}
    /\ Owe(Loader, All) /\ load' = NoLoad
    /\ UNCHANGED <<up, settings, checkVars, held, stored, saving, unloaded, bounds, history>>

\* A statement of the reload fails, and it ends there.
LoadFails ==
    /\ up /\ load.at \in {"applied", "read"} /\ fails < RFails
    /\ fails' = fails + 1 /\ load' = NoLoad /\ missed' = RRules
    /\ UNCHANGED <<up, settings, checkVars, held, stored, owes, saving, unloaded, edits,
                   crashes, fired, unsure>>

-----------------------------------------------------------------------------
(* The service.                                                            *)

\* It ends, whatever it is at: evaluations owed are never made, and what is not
\* stored is forgotten.
Crash ==
    /\ up /\ crashes < RCrashes /\ crashes' = crashes + 1
    /\ up' = FALSE
    /\ held' = [r \in RRules |-> "none"]
    /\ owes' = NothingOwed /\ saving' = NothingSaving /\ load' = NoLoad /\ unloaded' = FALSE
    /\ away' = FALSE /\ seen' = FALSE
    /\ unsure' = unsure \cup {r \in RRules : \E a \in Actors : saving[a][r] # "none"}
    /\ missed' = IF /\ owes = NothingOwed /\ Free /\ load.at = "idle" /\ ~unloaded
                    /\ live = conf /\ seen = window
                 THEN missed \cup {r \in RRules : held[r] # stored[r]} ELSE RRules
    /\ UNCHANGED <<settings, status, quiet, silence, window, stored, edits, fails, fired>>

\* It starts: the stored states are trusted, and a rule that has none is recorded
\* at whatever it evaluates to.
Restart ==
    /\ ~up /\ up' = TRUE
    /\ conf' = conf /\ live' = conf
    /\ status' = [c \in RChecks |-> IF ~conf.on[c] THEN "paused"
                                    ELSE IF status[c] = "paused" THEN "unknown" ELSE status[c]]
    /\ quiet' = {c \in quiet : conf.on[c]}
    /\ UNCHANGED <<away, silence, window, seen, owes, saving, load, unloaded, bounds, history>>
    /\ held' = [r \in RRules |->
                    CASE conf.rules[r] \in Absent -> "none"
                      [] conf.rules[r] \notin Absent /\ stored[r] # "none" -> stored[r]
                      [] OTHER -> IF conf.rules[r] = "on" /\ Met(r)' THEN "met" ELSE "unmet"]
    /\ stored' = held'

RulesNext ==
    \/ \E c \in RChecks : SilenceOver(c) \/ SwitchCheck(c) \/ \E ok \in BOOLEAN : Judge(c, ok)
    \/ \E c \in Silenceable, to \in {"yes", "no"} : Silence(c, to)
    \/ Tick \/ Back \/ WindowTurns \/ Track
    \/ \E a \in Actors : Decide(a) \/ \E r \in RRules : Save(a, r) \/ SaveFails(a, r)
    \/ \E r \in RRules : LoadSaves(r) \/ \E to \in Settings : SaveRule(r, to)
    \/ LoadApplies \/ LoadReads \/ LoadRules \/ LoadEvaluates \/ LoadFails
    \/ Crash \/ Restart

RulesSpec == RulesInit /\ [][RulesNext]_ruleVars

-----------------------------------------------------------------------------
(* Properties.                                                             *)

\* Types; an evaluation is under way for one actor at a time.
RulesTypeOK ==
    /\ up \in BOOLEAN /\ away \in BOOLEAN /\ window \in BOOLEAN /\ seen \in BOOLEAN
    /\ unloaded \in BOOLEAN
    /\ {conf, live} \subseteq [on : [RChecks -> BOOLEAN], rules : [RRules -> Settings]]
    /\ status \in [RChecks -> Statuses] /\ quiet \subseteq RChecks
    /\ silence \in [RChecks -> {"no", "yes", "over"}]
    /\ {held, stored} \subseteq [RRules -> States]
    /\ owes \in [Actors -> RChecks \cup {Nobody, All}]
    /\ saving \in [Actors -> [RRules -> Outcomes]]
    /\ load \in [at : {"idle", "applied", "read", "saving"}, rules : [RRules -> Settings],
                 states : [RRules -> States], fresh : SUBSET RRules]
    /\ {edits, crashes, fails} \subseteq Nat
    /\ fired \subseteq RRules /\ unsure \subseteq RRules /\ missed \subseteq RRules
    /\ \A a, b \in Actors : saving[a] # NothingSaving[a] /\ saving[b] # NothingSaving[b] => a = b

\* A rule fires once on the way from not-met to met (docs/API.md:1383), and "the
\* state is stored, so a restart neither fires a rule a second time nor forgets that
\* it is waiting to clear" (rules.go:17-19): a rule that fired fires again only after
\* it has cleared, whatever evaluations, reloads and restarts come between, unless
\* its state could not be stored as it was decided.
Fires(a, r) == saving[a][r] = "none" /\ saving'[a][r] = "fired"
FiresOnce ==
    [][\A a \in Actors, r \in RRules : Fires(a, r) => r \notin fired \/ r \in unsure]_ruleVars

\* "The engine re-evaluates the rules that mention a check whenever that check's
\* status changes, when a check is silenced or unsilenced, when a maintenance window
\* opens or closes, and on every configuration reload" (docs/API.md:1382): with
\* nothing under way that will evaluate it, a rule is met exactly while its
\* conditions hold, unless a change was missed.
Settled(r) ==
    /\ up /\ load.at = "idle" /\ ~unloaded /\ seen = window
    /\ \A a \in Actors : owes[a] = Nobody \/ r \notin Concerned(owes[a])
    /\ \A c \in Looks[r] : silence[c] # "over"
MetAsItStands ==
    \A r \in RRules \ missed :
        live.rules[r] = "on" /\ Settled(r) => (held[r] = "met" <=> Met(r))
=============================================================================
