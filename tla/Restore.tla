------------------------------ MODULE Restore -------------------------------
(***************************************************************************)
(* Restoring a backup underneath a running engine.                         *)
(*                                                                         *)
(* internal/engine/pause.go is a gate: every unit of the engine's own work *)
(* that writes (a check run, a retention pass, a scheduled backup, ...)    *)
(* enters it and leaves it, and Pause shuts it and waits until it is       *)
(* empty.  Server.restore (internal/api/manage.go) pauses, replaces the    *)
(* stored configuration (backup.RestoreWith: one transaction, then the     *)
(* history in batches), discards the states held in memory, reloads and    *)
(* resumes.                                                                *)
(*                                                                         *)
(* A state is known here by its age only: how many restores had been       *)
(* committed when it came to be.  One check that every archive contains    *)
(* stands for all of them; its stored state is emptied by a restore, and   *)
(* its live state is what the engine acts on and writes back.              *)
(***************************************************************************)
EXTENDS Naturals, FiniteSets

CONSTANTS
    Units,      \* bound: units of work at the same time
    Restores,   \* requests to restore
    Editors,    \* requests that save something and reload the configuration
    Mails,      \* bound: deliveries of a down alert that outlast their unit
    MaySilence,     \* somebody may silence the check, or lift the silence
    MaySwitchOff,   \* the check may be found switched off
    Nobody,     \* no channel, no state, no holder of a lock
    MaxAge      \* bound: restores committed

ASSUME RestoreAssumption ==
    /\ IsFiniteSet(Units)
    /\ Nobody \notin Restores \cup Editors \cup Nat
    /\ Restores \cap Editors = {}
    /\ MaxAge \in Nat
    /\ {MaySilence, MaySwitchOff} \subseteq BOOLEAN

Ages == 0..MaxAge
Places == {"idle", "asked", "waiting", "restoring", "importing", "discarding",
           "reloading", "resuming"}

VARIABLES
    paused, active, \* workGate.paused, .active
    idle,           \* workGate.idle: the Pause that made the channel, or Nobody
    drained,        \* the Pauses whose channel was closed
    inside,         \* the units of work admitted by enterWork
    request,        \* where a restore stands
    reloading,      \* Engine.reloadMu
    read,           \* the stored state a reload has read and not yet applied
    live,           \* Engine.states: the check's state, or Nobody
    stored,         \* the check's state in the database
    age,            \* the restores committed so far
    mail,           \* the deliveries of a down alert under way
    overtaken       \* history: something that does not enter the gate took up or
                    \* stored a state older than the last restore

gate == <<paused, active, idle, drained, inside>>
vars == <<gate, request, reloading, read, live, stored, age, mail, overtaken>>

Init ==
    /\ paused = FALSE /\ active = 0 /\ idle = Nobody /\ drained = {}
    /\ inside = {}
    /\ request = [h \in Restores |-> "idle"]
    /\ reloading = Nobody
    /\ read = Nobody
    /\ live = 0 /\ stored = 0 /\ age = 0
    /\ mail = {} /\ overtaken = FALSE

-----------------------------------------------------------------------------
(* The gate and the work it admits.                                        *)

\* (A fault to compare with: work is admitted while the engine is paused.)
EnterWorkAnyway(u) ==
    /\ u \notin inside
    /\ active' = active + 1
    /\ inside' = inside \cup {u}
    /\ UNCHANGED <<paused, idle, drained, request, reloading, read, live, stored,
                   age, mail, overtaken>>

\* (A fault: the unit is admitted but not counted.)
EnterWorkUncounted(u) ==
    /\ u \notin inside
    /\ ~paused
    /\ inside' = inside \cup {u}
    /\ UNCHANGED <<active, paused, idle, drained, request, reloading, read, live,
                   stored, age, mail, overtaken>>

EnterWork(u) ==
    /\ u \notin inside
    /\ ~paused
    /\ active' = active + 1
    /\ inside' = inside \cup {u}
    /\ UNCHANGED <<paused, idle, drained, request, reloading, read, live, stored,
                   age, mail, overtaken>>

\* A result is recorded with the state it leaves the check in; a check that
\* is gone records nothing.  A down alert about it may be sent on the side.
RecordResult(u) ==
    /\ u \in inside
    /\ live # Nobody
    /\ stored' = live
    /\ \E sent \in SUBSET Mails :
        Cardinality(sent) <= 1 /\ mail' = mail \cup sent
    /\ UNCHANGED <<gate, request, reloading, read, live, age, overtaken>>

\* (A fault: the channel is closed only if Pause found one unit inside.)
LeaveWorkUnseen(u) ==
    /\ u \in inside
    /\ inside' = inside \ {u}
    /\ active' = active - 1
    /\ UNCHANGED <<paused, idle, drained, request, reloading, read, live, stored,
                   age, mail, overtaken>>

\* The last one out tells the Pause that waits.
LeaveWork(u) ==
    /\ u \in inside
    /\ inside' = inside \ {u}
    /\ active' = active - 1
    /\ IF active = 1 /\ idle # Nobody
       THEN drained' = drained \cup {idle} /\ idle' = Nobody
       ELSE UNCHANGED <<drained, idle>>
    /\ UNCHANGED <<paused, request, reloading, read, live, stored, age, mail, overtaken>>

-----------------------------------------------------------------------------
(* A request to restore.                                                   *)

\* The archive is read and checked, no other restore is seen to have paused
\* the engine, and the safety backup is taken (until it is, nothing has happened).
Ask(h) ==
    /\ request[h] = "idle"
    /\ ~paused
    /\ request' = [request EXCEPT ![h] = "asked"]
    /\ UNCHANGED <<gate, reloading, read, live, stored, age, mail, overtaken>>

\* Pause: the gate is shut, and found empty or waited for.
ShutGate(h) ==
    /\ paused' = TRUE
    /\ drained' = drained \ {h}
    /\ IF active = 0
       THEN /\ request' = [request EXCEPT ![h] = "restoring"]
            /\ UNCHANGED idle
       ELSE /\ request' = [request EXCEPT ![h] = "waiting"]
            /\ idle' = h
    /\ UNCHANGED <<active, inside, reloading, read, live, stored, age, mail, overtaken>>

Pause(h) == request[h] = "asked" /\ ~paused /\ ShutGate(h)

\* Refused: the engine is already paused for another restore.
AlreadyPaused(h) ==
    /\ request[h] = "asked"
    /\ paused
    /\ request' = [request EXCEPT ![h] = "idle"]
    /\ UNCHANGED <<gate, reloading, read, live, stored, age, mail, overtaken>>

PauseDone(h) ==
    /\ request[h] = "waiting" /\ h \in drained
    /\ request' = [request EXCEPT ![h] = "restoring"]
    /\ UNCHANGED <<gate, reloading, read, live, stored, age, mail, overtaken>>

\* (A fault: Pause gives up and leaves the gate shut.)
PauseGivesUpShut(h) ==
    /\ request[h] = "waiting"
    /\ request' = [request EXCEPT ![h] = "idle"]
    /\ UNCHANGED <<gate, reloading, read, live, stored, age, mail, overtaken>>

\* The request's time is up before the work inside is done: Pause resumes.
\* (Its channel may have been closed by then; select picks either.)
PauseTimeout(h) ==
    /\ request[h] = "waiting"
    /\ paused' = FALSE /\ idle' = Nobody
    /\ request' = [request EXCEPT ![h] = "idle"]
    /\ UNCHANGED <<active, drained, inside, reloading, read, live, stored, age, mail, overtaken>>

\* The configuration is restored in one transaction, states emptied; the
\* history, if wanted, follows in batches.
CommitConfig(h) ==
    /\ request[h] = "restoring"
    /\ age < MaxAge
    /\ age' = age + 1
    /\ stored' = age + 1
    /\ request' = [request EXCEPT ![h] = "importing"]
    /\ UNCHANGED <<gate, reloading, read, live, mail, overtaken>>

\* Refused, or failed and rolled back: nothing is discarded.
RestoreFails(h) ==
    /\ request[h] = "restoring"
    /\ request' = [request EXCEPT ![h] = "reloading"]
    /\ UNCHANGED <<gate, reloading, read, live, stored, age, mail, overtaken>>

\* The history is in, or stopped part-way: either way the configuration is new.
ImportEnds(h) ==
    /\ request[h] = "importing"
    /\ request' = [request EXCEPT ![h] = "discarding"]
    /\ UNCHANGED <<gate, reloading, read, live, stored, age, mail, overtaken>>

\* (A fault: the engine keeps what it holds.)
DiscardNothing(h) ==
    /\ request[h] = "discarding"
    /\ request' = [request EXCEPT ![h] = "reloading"]
    /\ UNCHANGED <<gate, reloading, read, live, stored, age, mail, overtaken>>

DiscardStates(h) ==
    /\ request[h] = "discarding"
    /\ live' = Nobody
    /\ request' = [request EXCEPT ![h] = "reloading"]
    /\ UNCHANGED <<gate, reloading, read, stored, age, mail, overtaken>>

\* Resume; the handler answers, and its deferred resume has nothing left to do.
Resume(h) ==
    /\ request[h] = "resuming"
    /\ paused' = FALSE /\ idle' = Nobody
    /\ request' = [request EXCEPT ![h] = "idle"]
    /\ UNCHANGED <<active, drained, inside, reloading, read, live, stored, age, mail, overtaken>>

-----------------------------------------------------------------------------
(* ReloadConfig: the stored states are read, then applied, under reloadMu, *)
(* which is not the engine's mutex.                                        *)

MayReload(x) == x \in Restores => request[x] = "reloading"

\* Where its caller stands when a reload has ended, well or not.
Reloaded(x) == IF x \in Restores THEN [request EXCEPT ![x] = "resuming"] ELSE request

ReadStates(x) ==
    /\ MayReload(x)
    /\ reloading = Nobody
    /\ reloading' = x
    /\ read' = stored
    /\ UNCHANGED <<gate, request, live, stored, age, mail, overtaken>>

\* States already in memory are kept; if the check was found switched off, its
\* state is saved, paused, whether the engine is or not.
ApplyStates(x) ==
    /\ reloading = x
    /\ reloading' = Nobody
    /\ read' = Nobody
    /\ live' = IF live = Nobody THEN read ELSE live
    /\ stored' \in IF MaySwitchOff THEN {stored, live'} ELSE {stored}
    /\ overtaken' = (\/ overtaken
                     \/ x \in Editors /\ live = Nobody /\ read # age
                     \/ x \in Editors /\ stored' # age)
    /\ request' = Reloaded(x)
    /\ UNCHANGED <<gate, age, mail>>

\* A read failed, or took 30 seconds: nothing is applied; a restore resumes
\* all the same, and reports it.
ReloadFails(x) ==
    /\ reloading = x
    /\ reloading' = Nobody
    /\ read' = Nobody
    /\ request' = Reloaded(x)
    /\ UNCHANGED <<gate, live, stored, age, mail, overtaken>>

-----------------------------------------------------------------------------
(* What does not enter the gate.                                           *)

\* A down alert could not be delivered: failedMail saves the re-armed state
\* of the check (if it is still down).
FailedMail(m) ==
    /\ m \in mail
    /\ mail' = mail \ {m}
    /\ stored' \in IF live = Nobody THEN {stored} ELSE {stored, live}
    /\ overtaken' = (overtaken \/ stored' # age)
    /\ UNCHANGED <<gate, request, reloading, read, live, age>>

\* Silence saves what the engine holds of the check, with the silence in it.
Silence ==
    /\ MaySilence
    /\ live # Nobody
    /\ stored' = live
    /\ overtaken' = (overtaken \/ stored' # age)
    /\ UNCHANGED <<gate, request, reloading, read, live, age, mail>>

MailDelivered(m) ==
    /\ m \in mail
    /\ mail' = mail \ {m}
    /\ UNCHANGED <<gate, request, reloading, read, live, stored, age, overtaken>>

-----------------------------------------------------------------------------

Request(h) ==
    \/ Pause(h) \/ AlreadyPaused(h) \/ PauseDone(h) \/ PauseTimeout(h)
    \/ CommitConfig(h) \/ RestoreFails(h) \/ ImportEnds(h)
    \/ DiscardStates(h) \/ Resume(h)

ReloadEnds(x) == ApplyStates(x) \/ ReloadFails(x)
Reload(x) == ReadStates(x) \/ ReloadEnds(x)

Next ==
    \/ \E u \in Units : EnterWork(u) \/ RecordResult(u) \/ LeaveWork(u)
    \/ \E h \in Restores : Ask(h) \/ Request(h)
    \/ \E x \in Restores \cup Editors : Reload(x)
    \/ \E m \in Mails : FailedMail(m) \/ MailDelivered(m)
    \/ Silence

Spec == Init /\ [][Next]_vars

\* A restore under way goes on (it has two hours, and the work it waits for
\* its own timeouts); reads and writes of a reload end.
Fairness ==
    /\ \A h \in Restores : WF_vars(Request(h))
    /\ \A h \in Restores : SF_vars(ReadStates(h))
    /\ \A x \in Restores \cup Editors : WF_vars(ReloadEnds(x))

FairSpec == Spec /\ Fairness

-----------------------------------------------------------------------------
(* Properties.                                                             *)

TypeOK ==
    /\ paused \in BOOLEAN
    /\ active \in Nat
    /\ idle \in Restores \cup {Nobody}
    /\ drained \subseteq Restores
    /\ inside \subseteq Units
    /\ request \in [Restores -> Places]
    /\ reloading \in Restores \cup Editors \cup {Nobody}
    /\ read \in Ages \cup {Nobody}
    /\ live \in Ages \cup {Nobody}
    /\ stored \in Ages
    /\ age \in Ages
    /\ mail \subseteq Mails /\ overtaken \in BOOLEAN

\* A Pause has returned nil and its Resume has not run yet.
Holds(h) == request[h] \in {"restoring", "importing", "discarding",
                            "reloading", "resuming"}

\* While a restore holds the engine paused no unit of work is inside the
\* gate, and no other restore holds it: whatever Pause raced with, a check
\* run, another restore or its own timeout (pause.go).
QuietRestore ==
    \A h \in Restores : Holds(h) =>
        /\ paused /\ inside = {}
        /\ \A k \in Restores : request[k] \in {"idle", "asked"} \/ k = h

\* A Pause that waits for work is told when the last of it leaves: either
\* something is still inside, or the channel it waits for is closed.
PauseNotForgotten ==
    \A h \in Restores : request[h] = "waiting" =>
        paused /\ (h \in drained \/ (idle = h /\ inside # {}))

\* After a restore the checks start from their emptied stored states, never
\* from what the engine held for whatever had the same id before ("without
\* this a restored check would inherit the old check's status and active
\* alert", pause.go:129).
RestoredAfresh ==
    (\A h \in Restores : request[h] \in {"idle", "asked", "waiting"})
        => live \in {age, Nobody}

\* What works past the gate is all that can break it: as long as no save of the
\* configuration applied states it had read before a restore, and none, nor a
\* late delivery or a silence, stored what the engine still held from before
\* one, nothing held before a restore outlives it (pause.go:129) -- not the
\* work the gate admits, nor any way through a restore, its reload included.
AfreshUnlessOvertaken == ~overtaken => RestoredAfresh

\* Monitoring always comes back: no way through a restore leaves the engine
\* paused for good.
ServesAgain == paused ~> ~paused
=============================================================================
