----------------------------- MODULE Scheduler ------------------------------
(***************************************************************************)
(* Which checks run, and how many at once (internal/engine/engine.go).     *)
(*                                                                         *)
(* Once a second tick starts the checks that are due, each in a goroutine  *)
(* that holds a slot of a semaphore and has been admitted through the gate *)
(* of pause.go.  A user may ask for one check (RunNow) or for all checks   *)
(* of a node (RunNodeChecks, which takes slots too).  All of them end up   *)
(* in runAndProcess, where the runs of one check join a single flight.     *)
(* The configuration, and with it the semaphore, may be replaced at any    *)
(* time; a restore pauses the engine and discards what it holds.           *)
(*                                                                         *)
(* tick, ReloadConfig and the beginning and end of a flight hold the       *)
(* engine's mutex; the gate and the slots have their own.  So the launches *)
(* of one tick are interleaved with pauses and returned slots, and with    *)
(* nothing else.  What happens to a result is in Alerts, probes of a       *)
(* parent included; what a restore does is in Restore.                     *)
(***************************************************************************)
EXTENDS Naturals, FiniteSets

CONSTANTS
    Checks,     \* the checks of one node
    Pushing,    \* those whose machine pushes its readings
    Runs,       \* bound: goroutines that run a check at the same time
    NodeCalls,  \* bound: requests to run the node's checks at the same time
    Nobody,     \* no check, no request
    Sizes,      \* the values of MaxConcurrentChecks
    MaxGens,    \* bound: semaphores made
    MaxCalls,   \* bound: requests to run something
    MaxReloads, \* bound: reloads of the configuration
    MaxPauses   \* bound: restores

ASSUME SchedulerAssumption ==
    /\ IsFiniteSet(Runs) /\ IsFiniteSet(NodeCalls)
    /\ Runs \cap NodeCalls = {}
    /\ Nobody \notin Checks \cup NodeCalls \cup Runs
    /\ Sizes \subseteq Nat \ {0} /\ Sizes # {}
    /\ MaxGens \in Nat \ {0}

Gens == 1..MaxGens
Settings == {"enabled", "disabled", "collected", "gone"}
Stages == {"none", "called", "joined", "flying", "recorded", "returned"}

Run == [by : {"nobody", "tick", "user", "node"},
        call : NodeCalls \cup {Nobody},
        check : Checks \cup {Nobody},
        slot : Gens \cup {0},
        at : Stages]
NoRun == [by |-> "nobody", call |-> Nobody, check |-> Nobody, slot |-> 0,
          at |-> "none"]

VARIABLES
    setting,    \* how each check is configured (Engine.checks, .nodes)
    held,       \* the checks with a state in memory (Engine.states)
    due,        \* those whose NextRunAt has passed
    running,    \* Engine.running: the marks
    inflight,   \* Engine.inflight
    sem,        \* Engine.sem: the semaphore in use
    size, used, \* each semaphore's capacity and the slots taken of it
    tick,       \* what the scheduler's loop is doing
    run,        \* the goroutines
    node,       \* the requests to run the node's checks
    paused, active, \* workGate.paused, .active
    restore,    \* where the restore that paused the engine stands
    calls, reloads, pauses  \* how many there have been

config == <<setting, held, due, sem, size>>
gate == <<paused, active, restore>>
counts == <<calls, reloads, pauses>>
vars == <<config, running, inflight, used, tick, run, node, gate, counts>>

Init ==
    /\ setting = [c \in Checks |-> "enabled"]
    /\ held = Checks
    /\ due = {}
    /\ running = {} /\ inflight = {}
    /\ sem = 1
    /\ size \in [Gens -> Sizes] /\ \A g \in Gens : size[g] = size[1]
    /\ used = [g \in Gens |-> 0]
    /\ tick = [at |-> "idle", todo |-> {}, sem |-> 1]
    /\ run = [r \in Runs |-> NoRun]
    /\ node = [n \in NodeCalls |-> [at |-> "idle", todo |-> {}, sem |-> 1]]
    /\ paused = FALSE /\ active = 0 /\ restore = "none"
    /\ calls = 0 /\ reloads = 0 /\ pauses = 0

\* Engine.mu is free (every other step that takes it is one step here).
Unlocked == tick.at # "launching"

Free == {r \in Runs : run[r].at = "none"}
HasSlot(g) == used[g] < size[g]

-----------------------------------------------------------------------------
(* The scheduler's loop.                                                   *)

\* Time passes: a check's NextRunAt is reached.
BecomesDue(c) ==
    /\ c \in held \ due
    /\ setting[c] \in {"enabled", "collected"}
    /\ due' = due \cup {c}
    /\ UNCHANGED <<setting, held, sem, size, running, inflight, used, tick, run,
                   node, gate, counts>>

\* What this tick should run: not what is running already, nor what a
\* collector runs, nor (fresh) what a machine has pushed a reading of.
Scheduled(fresh) == {c \in due \ (running \cup fresh) : setting[c] = "enabled"}

\* The mutex is taken, the gate entered (or the tick is over), the due checks
\* are listed.  Those with a fresh reading are put off by their interval.
BeginTick ==
    /\ tick.at = "idle"
    /\ ~paused
    /\ active' = active + 1
    /\ \E fresh \in SUBSET (Pushing \cap Scheduled({})) :
        /\ due' = due \ fresh
        /\ tick' = [at |-> "launching", todo |-> Scheduled(fresh), sem |-> sem]
    /\ UNCHANGED <<setting, held, sem, size, running, inflight, used, run, node,
                   paused, restore, counts>>

\* The tick with one check less on its list.
Listed(c) == [tick EXCEPT !.todo = @ \ {c}]

\* A slot, and the gate: the check is marked and its goroutine started.
Launch(c) ==
    /\ tick.at = "launching" /\ c \in tick.todo
    /\ HasSlot(tick.sem)
    /\ ~paused
    /\ \E r \in Free :
        run' = [run EXCEPT ![r] = [by |-> "tick", call |-> Nobody, check |-> c,
                                   slot |-> tick.sem, at |-> "called"]]
    /\ used' = [used EXCEPT ![tick.sem] = @ + 1]
    /\ active' = active + 1
    /\ running' = running \cup {c}
    /\ tick' = Listed(c)
    /\ UNCHANGED <<config, inflight, node, paused, restore, counts>>

\* (A fault: the slot is kept.)
RefusedKeepsSlot(c) ==
    /\ tick.at = "launching" /\ c \in tick.todo
    /\ HasSlot(tick.sem) /\ paused
    /\ used' = [used EXCEPT ![tick.sem] = @ + 1]
    /\ tick' = Listed(c)
    /\ UNCHANGED <<config, running, inflight, run, node, gate, counts>>

\* A slot, but the gate has been shut since the tick began: it is given back.
Refused(c) ==
    /\ tick.at = "launching" /\ c \in tick.todo
    /\ HasSlot(tick.sem) /\ paused
    /\ tick' = Listed(c)
    /\ UNCHANGED <<config, running, inflight, used, run, node, gate, counts>>

\* No slot (or, the bound, no goroutine): the check stays due.
Busy(c) ==
    /\ tick.at = "launching" /\ c \in tick.todo
    /\ ~HasSlot(tick.sem) \/ Free = {}
    /\ tick' = Listed(c)
    /\ UNCHANGED <<config, running, inflight, used, run, node, gate, counts>>

\* The mutex is released; what follows (events, e-mails) needs it no more.
EndTick ==
    /\ tick.at = "launching" /\ tick.todo = {}
    /\ tick' = [tick EXCEPT !.at = "leaving"]
    /\ UNCHANGED <<config, running, inflight, used, run, node, gate, counts>>

LeaveTick ==
    /\ tick.at = "leaving"
    /\ tick' = [tick EXCEPT !.at = "idle", !.sem = 1]
    /\ active' = active - 1
    /\ UNCHANGED <<config, running, inflight, used, run, node, paused, restore,
                   counts>>

-----------------------------------------------------------------------------
(* runAndProcess, and the goroutine around it.                             *)

Owns(r) == run[r].at \in {"flying", "recorded"}

\* (A fault: a check that is not to be run keeps its mark.)
NotRunKeepsMark(r) ==
    /\ run[r].at = "called" /\ Unlocked
    /\ run[r].check \notin inflight
    /\ setting[run[r].check] \in {"gone", "collected"}
    /\ run' = [run EXCEPT ![r].at = "returned"]
    /\ UNCHANGED <<config, running, inflight, used, tick, node, gate, counts>>

\* The check is gone, or handed to a collector since: the mark is cleared.
NotRun(r) ==
    /\ run[r].at = "called" /\ Unlocked
    /\ run[r].check \notin inflight
    /\ setting[run[r].check] \in {"gone", "collected"}
    /\ running' = running \ {run[r].check}
    /\ run' = [run EXCEPT ![r].at = "returned"]
    /\ UNCHANGED <<config, inflight, used, tick, node, gate, counts>>

Fly(r) ==
    /\ run[r].at = "called" /\ Unlocked
    /\ run[r].check \notin inflight
    /\ setting[run[r].check] \in {"enabled", "disabled"}
    /\ inflight' = inflight \cup {run[r].check}
    /\ running' = running \cup {run[r].check}
    /\ run' = [run EXCEPT ![r].at = "flying"]
    /\ UNCHANGED <<config, used, tick, node, gate, counts>>

Join(r) ==
    /\ run[r].at = "called" /\ Unlocked
    /\ run[r].check \in inflight
    /\ run' = [run EXCEPT ![r].at = "joined"]
    /\ UNCHANGED <<config, running, inflight, used, tick, node, gate, counts>>

\* The caller of a joined run goes away.
GiveUp(r) ==
    /\ run[r].at = "joined" /\ run[r].by # "tick"
    /\ run' = [run EXCEPT ![r].at = "returned"]
    /\ UNCHANGED <<config, running, inflight, used, tick, node, gate, counts>>

\* The result is committed, and with it the time of the next run.
Record(r) ==
    /\ run[r].at = "flying" /\ Unlocked
    /\ run[r].check \in held
    /\ setting[run[r].check] \in {"enabled", "collected"}
    /\ due' = due \ {run[r].check}
    /\ run' = [run EXCEPT ![r].at = "recorded"]
    /\ UNCHANGED <<setting, held, sem, size, running, inflight, used, tick, node,
                   gate, counts>>

\* Everyone who joined the flight gets its result.
Landed(c, r) ==
    [q \in Runs |-> IF q = r \/ (run[q].at = "joined" /\ run[q].check = c)
                    THEN [run[q] EXCEPT !.at = "returned"] ELSE run[q]]

\* (A fault: the flight is forgotten, its channel is not closed.)
LandUntold(r) ==
    /\ Owns(r) /\ Unlocked
    /\ inflight' = inflight \ {run[r].check}
    /\ running' = running \ {run[r].check}
    /\ run' = [run EXCEPT ![r].at = "returned"]
    /\ UNCHANGED <<config, used, tick, node, gate, counts>>

\* The flight ends, whether its result was recorded, refused or superseded.
Land(r) ==
    /\ Owns(r) /\ Unlocked
    /\ inflight' = inflight \ {run[r].check}
    /\ running' = running \ {run[r].check}
    /\ run' = Landed(run[r].check, r)
    /\ UNCHANGED <<config, used, tick, node, gate, counts>>

\* (A fault: the slot goes back to the semaphore in use now.)
ReleaseCurrent(r) ==
    /\ run[r].at = "returned" /\ run[r].slot # 0
    /\ used[sem] > 0
    /\ used' = [used EXCEPT ![sem] = @ - 1]
    /\ run' = [run EXCEPT ![r].slot = 0]
    /\ UNCHANGED <<config, running, inflight, tick, node, gate, counts>>

\* The deferred return of the slot, to the semaphore it was taken from.
Release(r) ==
    /\ run[r].at = "returned" /\ run[r].slot # 0
    /\ used' = [used EXCEPT ![run[r].slot] = @ - 1]
    /\ run' = [run EXCEPT ![r].slot = 0]
    /\ UNCHANGED <<config, running, inflight, tick, node, gate, counts>>

\* The goroutine ends.  Runs of a node are inside the gate with their request.
End(r) ==
    /\ run[r].at = "returned" /\ run[r].slot = 0
    /\ run' = [run EXCEPT ![r] = NoRun]
    /\ active' = IF run[r].by = "node" THEN active ELSE active - 1
    /\ UNCHANGED <<config, running, inflight, used, tick, node, paused, restore,
                   counts>>

-----------------------------------------------------------------------------
(* Requests.                                                               *)

\* One check, any: the request is admitted through the gate, takes no slot.
RunNow(c) ==
    /\ ~paused
    /\ calls < MaxCalls /\ calls' = calls + 1
    /\ active' = active + 1
    /\ \E r \in Free :
        run' = [run EXCEPT ![r] = [by |-> "user", call |-> Nobody, check |-> c,
                                   slot |-> 0, at |-> "called"]]
    /\ UNCHANGED <<config, running, inflight, used, tick, node, paused, restore,
                   reloads, pauses>>

\* All checks of a node: the request is admitted through the gate ...
RunNodeChecks(n) ==
    /\ node[n].at = "idle"
    /\ ~paused
    /\ calls < MaxCalls /\ calls' = calls + 1
    /\ active' = active + 1
    /\ node' = [node EXCEPT ![n].at = "admitted"]
    /\ UNCHANGED <<config, running, inflight, used, tick, run, paused, restore,
                   reloads, pauses>>

\* ... and, under the mutex, finds the node, the semaphore in use and the checks
\* that the user may run and this server does.
FindChecks(n) ==
    /\ node[n].at = "admitted" /\ Unlocked
    /\ \E allowed \in SUBSET Checks :
        node' = [node EXCEPT ![n] =
                   [at |-> "admitting", sem |-> sem,
                    todo |-> {c \in allowed : setting[c] = "enabled"}]]
    /\ UNCHANGED <<config, running, inflight, used, tick, run, gate, counts>>

Admit(n, c) ==
    /\ node[n].at = "admitting" /\ c \in node[n].todo
    /\ HasSlot(node[n].sem)
    /\ \E r \in Free :
        run' = [run EXCEPT ![r] = [by |-> "node", call |-> n, check |-> c,
                                   slot |-> node[n].sem, at |-> "called"]]
    /\ used' = [used EXCEPT ![node[n].sem] = @ + 1]
    /\ node' = [node EXCEPT ![n].todo = @ \ {c}]
    /\ UNCHANGED <<config, running, inflight, tick, gate, counts>>

\* (A fault: the request leaves the gate here, and again when it is answered.)
StopAndLeave(n) ==
    /\ node[n].at = "admitting" /\ node[n].todo # {}
    /\ node' = [node EXCEPT ![n].todo = {}]
    /\ active' = active - 1
    /\ UNCHANGED <<config, running, inflight, used, tick, run, paused, restore,
                   counts>>

\* The caller goes away while it waits for a slot.
StopAdmitting(n) ==
    /\ node[n].at = "admitting" /\ node[n].todo # {}
    /\ node' = [node EXCEPT ![n].todo = {}]
    /\ UNCHANGED <<config, running, inflight, used, tick, run, gate, counts>>

\* (A fault: the request does not wait for its runs.)
AnswerEarly(n) ==
    /\ node[n].at = "admitting" /\ node[n].todo = {}
    /\ node' = [node EXCEPT ![n].at = "idle", ![n].sem = 1]
    /\ active' = active - 1
    /\ UNCHANGED <<config, running, inflight, used, tick, run, paused, restore,
                   counts>>

\* All runs have ended: the request is answered and leaves the gate.
Answer(n) ==
    /\ node[n].at = "admitting" /\ node[n].todo = {}
    /\ \A r \in Runs : run[r].call # n
    /\ node' = [node EXCEPT ![n].at = "idle", ![n].sem = 1]
    /\ active' = active - 1
    /\ UNCHANGED <<config, running, inflight, used, tick, run, paused, restore,
                   counts>>

-----------------------------------------------------------------------------
(* The configuration, and restores.                                        *)

Kept(new) == {c \in Checks : new[c] # "gone"}

\* Checks are changed, added and deleted, and the number of concurrent checks
\* set; the marks and states of deleted checks go.  A check whose interval or
\* target was changed is scheduled anew, one switched off not at all.
ReloadConfig ==
    /\ Unlocked
    /\ reloads < MaxReloads /\ reloads' = reloads + 1
    /\ \E new \in [Checks -> Settings], rescheduled \in SUBSET due :
        /\ setting' = new
        /\ held' = Kept(new)
        /\ due' = {c \in due \ rescheduled : new[c] \in {"enabled", "collected"}}
        /\ running' = running \cap Kept(new)
    /\ \/ UNCHANGED <<sem, size>>
       \/ \E s \in Sizes \ {size[sem]} :
            /\ sem < MaxGens /\ sem' = sem + 1
            /\ size' = [size EXCEPT ![sem + 1] = s]
    /\ UNCHANGED <<inflight, used, tick, run, node, gate, calls, pauses>>

\* A restore shuts the gate.
Pause ==
    /\ ~paused
    /\ pauses < MaxPauses /\ pauses' = pauses + 1
    /\ paused' = TRUE
    /\ restore' = IF active = 0 THEN "restoring" ELSE "waiting"
    /\ UNCHANGED <<config, running, inflight, used, tick, run, node, active,
                   calls, reloads>>

PauseDone ==
    /\ restore = "waiting" /\ active = 0
    /\ restore' = "restoring"
    /\ UNCHANGED <<config, running, inflight, used, tick, run, node, paused,
                   active, counts>>

\* In place of what is configured, anything; in memory, nothing until the next
\* reload.
DiscardStates ==
    /\ restore = "restoring" /\ Unlocked
    /\ restore' = "discarded"
    /\ held' = {} /\ due' = {} /\ running' = {}
    /\ UNCHANGED <<setting, sem, size, inflight, used, tick, run, node, paused,
                   active, counts>>

\* After the restore, or because Pause has waited too long.
Resume ==
    /\ paused
    /\ restore' = "none"
    /\ paused' = FALSE
    /\ UNCHANGED <<config, running, inflight, used, tick, run, node, active,
                   counts>>

-----------------------------------------------------------------------------

Tick ==
    \/ BeginTick \/ EndTick \/ LeaveTick
    \/ \E c \in Checks : Launch(c) \/ Refused(c) \/ Busy(c)

Work(r) ==
    \/ NotRun(r) \/ Fly(r) \/ Join(r) \/ GiveUp(r) \/ Record(r) \/ Land(r)
    \/ Release(r) \/ End(r)

Request ==
    \/ \E c \in Checks : RunNow(c)
    \/ \E n \in NodeCalls :
        \/ RunNodeChecks(n) \/ FindChecks(n) \/ StopAdmitting(n) \/ Answer(n)
        \/ \E c \in Checks : Admit(n, c)

Admin == ReloadConfig \/ Pause \/ PauseDone \/ DiscardStates \/ Resume

Next ==
    \/ \E c \in Checks : BecomesDue(c)
    \/ Tick
    \/ \E r \in Runs : Work(r)
    \/ Request
    \/ Admin

Spec == Init /\ [][Next]_vars

\* What a goroutine and a request do unless their caller goes away.
GoesOn(r) == NotRun(r) \/ Fly(r) \/ Join(r) \/ Land(r) \/ Release(r) \/ End(r)
Proceeds(n) == FindChecks(n) \/ Answer(n) \/ \E c \in Checks : Admit(n, c)

\* Time passes and the loop ticks.  Goroutines go on, and get the mutex and
\* the slots they wait for in their turn; check runs have timeouts.  The
\* longest due goes first, so a check that finds a free slot tick after tick
\* is launched.  Pause waits for a limited time, and what follows it ends.
Fairness ==
    /\ \A c \in Checks : WF_vars(BecomesDue(c)) /\ SF_vars(Launch(c))
    /\ WF_vars(Tick)
    /\ \A r \in Runs : SF_vars(GoesOn(r))
    /\ \A n \in NodeCalls : SF_vars(Proceeds(n))
    /\ WF_vars(Resume)

FairSpec == Spec /\ Fairness

-----------------------------------------------------------------------------
(* Properties.                                                             *)

TypeOK ==
    /\ setting \in [Checks -> Settings]
    /\ held \subseteq Checks /\ due \subseteq held
    /\ running \subseteq Checks /\ inflight \subseteq Checks
    /\ sem \in Gens
    /\ size \in [Gens -> Sizes] /\ used \in [Gens -> Nat]
    /\ tick \in [at : {"idle", "launching", "leaving"}, todo : SUBSET Checks,
                 sem : Gens]
    /\ run \in [Runs -> Run]
    /\ node \in [NodeCalls -> [at : {"idle", "admitted", "admitting"},
                               todo : SUBSET Checks, sem : Gens]]
    /\ paused \in BOOLEAN /\ active \in Nat
    /\ restore \in {"none", "waiting", "restoring", "discarded"}
    /\ calls \in Nat /\ reloads \in Nat /\ pauses \in Nat

\* A check marked as running is not scheduled, so whatever reloads, requests
\* and collectors come between, somebody must be about to clear the mark: the
\* run that flies it, or a goroutine of the scheduler on its way there
\* ("without clearing the mark it would never be scheduled again",
\* engine.go:575).
MarkHasRun ==
    \A c \in running : \E r \in Runs :
        run[r].check = c /\ (Owns(r) \/ run[r].at = "called")

\* Slots are neither lost nor given back twice, nor to another semaphore than
\* they were taken from, when the semaphore is replaced under running checks
\* and when a pause begins in the middle of a tick.
Holders(g) == {r \in Runs : run[r].slot = g}
SlotsKept == \A g \in Gens : used[g] = Cardinality(Holders(g)) /\ used[g] <= size[g]

\* Every kind of check run is inside the gate for all of its life: what a
\* restore discards (DiscardStates, "Only call it while paused, when nothing
\* runs", pause.go:130) nobody is using.
QuietWhenPaused ==
    restore \in {"restoring", "discarded"} =>
        /\ \A r \in Runs : run[r].at = "none"
        /\ running = {} /\ inflight = {} /\ tick.at = "idle"
        /\ \A n \in NodeCalls : node[n].at = "idle"

\* A run that joins a flight is told when it lands, and every goroutine ends.
RunsEnd == \A r \in Runs : run[r].at # "none" ~> run[r].at = "none"

\* A check that stays enabled is run again and again, whatever was requested,
\* reloaded or restored before (and slots for all, see README).
Runnable(c) == setting[c] = "enabled" /\ c \in held
ChecksRun ==
    \A c \in Checks \ Pushing : <>[]Runnable(c) => []<>(c \in inflight)
=============================================================================
