----------------------------- MODULE Collection -----------------------------
(***************************************************************************)
(* A remote collector: the checks a machine runs for GWatch, the results   *)
(* it sends (cmd/gwatch-agent/collector.go), and what GWatch makes of them *)
(* (engine/collectors.go): a live result is judged like one taken here, a  *)
(* held one only recorded, and when none arrive the checks go unknown      *)
(* until the next result.                                                  *)
(*                                                                         *)
(* A result is the number of its run, and so is its time: the clocks are   *)
(* believed (collectors.go:224-226 files a result that cannot be of now as *)
(* new).  The agent's queue is AgentQueue's, of which nothing is lost      *)
(* here, and results are not deleted.  Of judging and of alerts only what  *)
(* the quiet spell meets is kept: the threshold, the status, AlertActive,  *)
(* and the delivery, after whose end the next result waits (module Alerts  *)
(* has the rest).                                                          *)
(***************************************************************************)
EXTENDS Integers, FiniteSets, Sequences

CONSTANTS
    CChecks,    \* checks that the collector may be given
    CRuns,      \* bound: runs
    CThreshold, \* bound: the failure threshold
    Spacing,    \* how far apart results are to count as two: 4/5 of the interval
    Posts       \* bound: requests at GWatch or on their way, at one time

ASSUME CollectionAssumption == {CRuns, Spacing} \subseteq Nat /\ CThreshold \in Nat \ {0}

Times == 1..CRuns
NoPost == [at |-> "idle", waiting |-> FALSE, batch |-> {}, live |-> {}, held |-> {},
           refused |-> {}, unheard |-> {}, verdict |-> "none"]
Fresh == [status |-> "unknown", failures |-> 0, alert |-> FALSE, quiet |-> FALSE, last |-> 0]

VARIABLES
    runs,       \* the runs so far: the check and whether it passed
    jobs,       \* collectorRunner.jobs
    queued,     \* results the collector holds
    aged,       \* results up to this one are older than heldAfter
    post,       \* the requests: where GWatch stands with each, whether the agent
                \* still waits, its results, those yet to be judged or added, those
                \* rejected, the answer; and, a history, those that came when their
                \* check had been turned off
    st,         \* the states of the checks: Status, ConsecutiveFailures,
                \* AlertActive, SuppressReason = "collector", LastRunAt
    rec,        \* the results recorded
    mail,       \* the delivery of each check under way, or "none"
    thr,        \* failureThreshold
    given,      \* the checks whose node is checked from this collector
    off,        \* the checks that are disabled, or deleted (and are so for good)
    on,         \* Collector and CollectorAllowed of the agent
    down,       \* collectorWatch.down
    word        \* history: whether people were last told that the check is "down";
                \* or the threshold was "raised" in its outage, or its delivery
                \* "lost" while it was unknown, or it was turned "off" before that

collector == <<runs, jobs, queued, aged>>
config == <<thr, given, off, on>>
alerts == <<mail, word>>
collVars == <<collector, post, st, rec, config, down, alerts>>

CollInit ==
    /\ runs = << >> /\ jobs = {} /\ queued = {} /\ aged = 0
    /\ post = [h \in Posts |-> NoPost]
    /\ st = [c \in CChecks |-> Fresh] /\ rec = {}
    /\ mail = [c \in CChecks |-> "none"] /\ word = [c \in CChecks |-> "none"]
    /\ thr \in 1..CThreshold /\ given = CChecks /\ off = {} /\ on = TRUE
    /\ down = FALSE

-----------------------------------------------------------------------------
(* Judging (process.go).                                                   *)

\* (A fault: the outage begins again.)
ResumedAnew(s) == s.status

\* resumeFromCollector: what was down before the quiet spell is down.
Resumed(s) == IF s.quiet /\ s.failures >= thr THEN "down" ELSE s.status

\* process: a failed result, and whether it is the one that alerts (the count of
\* failures stops at the largest threshold there is); a good one, and whether it ends
\* an outage that was alerted.
Failing(s) == [s EXCEPT !.failures = IF @ < CThreshold THEN @ + 1 ELSE @, !.quiet = FALSE,
                        !.status = IF s.failures + 1 >= thr THEN "down" ELSE Resumed(s)]
Alerts(s) == Failing(s).status = "down" /\ (Resumed(s) # "down" \/ ~s.alert)
Passing(s) == [s EXCEPT !.failures = 0, !.quiet = FALSE, !.status = "up",
                        !.alert = IF Resumed(s) = "down" THEN FALSE ELSE @]
Recovers(s) == Resumed(s) = "down" /\ s.alert

\* A failure that alerts below the threshold does so in an outage of a lower one.
Judge(c, ok, t) ==
    /\ mail[c] = "none"
    /\ LET s == st[c]
       IN  IF ok
           THEN /\ st' = [st EXCEPT ![c] = [Passing(s) EXCEPT !.last = t]]
                /\ mail' = [mail EXCEPT ![c] = IF Recovers(s) THEN "recovered" ELSE "none"]
                /\ UNCHANGED word
           ELSE /\ st' = [st EXCEPT ![c] = [Failing(s) EXCEPT !.last = t,
                                                              !.alert = @ \/ Alerts(s)]]
                /\ mail' = [mail EXCEPT ![c] = IF Alerts(s) THEN "down" ELSE "none"]
                /\ word' = [word EXCEPT ![c] = IF Alerts(s) /\ Failing(s).failures < thr
                                                THEN "raised" ELSE @]
    /\ rec' = rec \cup {t}

\* (A fault: a delivery that fails is one that ends.)
DeliveryConsumed(c) ==
    /\ mail[c] # "none"
    /\ mail' = [mail EXCEPT ![c] = "none"]
    /\ \/ word' = [word EXCEPT ![c] = IF mail[c] = "down" /\ @ # "raised" THEN "down" ELSE "none"]
       \/ word' = [word EXCEPT ![c] = IF mail[c] = "down" THEN @ ELSE "none"]
    /\ UNCHANGED <<collector, post, st, rec, config, down>>

\* The delivery ends.  One that fails re-arms the alert of a check that is down
\* (failedMail).
Delivery(c) ==
    /\ mail[c] # "none"
    /\ mail' = [mail EXCEPT ![c] = "none"]
    /\ \/ /\ mail[c] = "recovered" \/ word[c] = "off"
          /\ word' = [word EXCEPT ![c] = "none"] /\ UNCHANGED st
       \/ /\ mail[c] = "down" /\ word[c] # "off"
          /\ word' = [word EXCEPT ![c] = IF @ = "raised" THEN @ ELSE "down"]
          /\ UNCHANGED st
       \/ /\ mail[c] = "down" /\ st[c].status = "down"
          /\ st' = [st EXCEPT ![c].alert = FALSE]
          /\ word' = [word EXCEPT ![c] = "none"]
       \/ /\ mail[c] = "down" /\ st[c].status # "down" /\ word[c] # "off"
          /\ word' = [word EXCEPT ![c] = IF @ = "raised" THEN @ ELSE "lost"]
          /\ UNCHANGED st
    /\ UNCHANGED <<collector, post, rec, config, down>>

-----------------------------------------------------------------------------
(* The collector.                                                          *)

Taken(c, ok) == Len(runs) < CRuns /\ runs' = Append(runs, [check |-> c, ok |-> ok])

\* The checks the collector is to run (assignedLocked).
Assigned == given \ off

\* runJob: the result goes to the queue.
Run(c, ok) ==
    /\ c \in jobs /\ Taken(c, ok)
    /\ queued' = queued \cup {Len(runs')}
    /\ UNCHANGED <<jobs, aged, post, st, rec, config, down, alerts>>

\* Time passes.
Age ==
    /\ aged # Len(runs) /\ aged' = Len(runs)
    /\ UNCHANGED <<runs, jobs, queued, post, st, rec, config, down, alerts>>

\* assign, after a check-in.
Assign ==
    /\ jobs' = IF on THEN Assigned ELSE {}
    /\ UNCHANGED <<runs, queued, aged, post, st, rec, config, down, alerts>>

\* post: what is queued is sent, marked as held if it is old, or nothing but a sign
\* of life.
Send(h) ==
    /\ post[h] = NoPost /\ \A g \in Posts : ~post[g].waiting
    /\ post' = [post EXCEPT ![h] = [NoPost EXCEPT !.at = "sent", !.waiting = TRUE,
                    !.batch = queued, !.live = {t \in queued : t > aged},
                    !.held = {t \in queued : t <= aged}]]
    /\ UNCHANGED <<collector, st, rec, config, down, alerts>>

\* No answer in time: it is sent again some time.
GiveUp(h) ==
    /\ post[h].waiting
    /\ post' = [post EXCEPT ![h] = IF @.at = "done" THEN NoPost ELSE [@ EXCEPT !.waiting = FALSE]]
    /\ UNCHANGED <<collector, st, rec, config, down, alerts>>

\* And never arrives.
Vanish(h) ==
    /\ post[h].at = "sent" /\ ~post[h].waiting
    /\ post' = [post EXCEPT ![h] = NoPost]
    /\ UNCHANGED <<collector, st, rec, config, down, alerts>>

\* The answer: taken, or refused for good, or to be tried again.
Hear(h) ==
    /\ post[h].at = "done" /\ post[h].waiting
    /\ queued' = IF post[h].verdict = "failed" THEN queued ELSE queued \ post[h].batch
    /\ post' = [post EXCEPT ![h] = NoPost]
    /\ UNCHANGED <<runs, jobs, aged, st, rec, config, down, alerts>>

-----------------------------------------------------------------------------
(* GWatch takes a batch.                                                   *)

\* The request is answered, if anybody waits.
Ended(p, verdict) ==
    IF p.waiting THEN [NoPost EXCEPT !.at = "done", !.verdict = verdict, !.waiting = TRUE,
                                     !.batch = p.batch, !.refused = p.refused,
                                     !.unheard = p.unheard]
    ELSE NoPost
Done(h, verdict) == post' = [post EXCEPT ![h] = Ended(@, verdict)]

\* handleIngestResults: collecting is turned off.
Refuse(h) ==
    /\ post[h].at = "sent" /\ ~on
    /\ Done(h, "refused")
    /\ UNCHANGED <<collector, st, rec, config, down, alerts>>

\* IngestCollectorResults during a restore: the collector is only remembered as alive.
Paused(h) ==
    /\ post[h].at = "sent" /\ on
    /\ Done(h, "failed")
    /\ UNCHANGED <<collector, st, rec, config, down, alerts>>

\* noteCollectorSeen.
Seen(h) ==
    /\ post[h].at = "sent" /\ on
    /\ post' = [post EXCEPT ![h].at = "seen"]
    /\ down' = FALSE
    /\ UNCHANGED <<collector, st, rec, config, alerts>>

\* (A fault: a result that comes after a newer one is news as well.)
DecideBoth(h) ==
    /\ post[h].at = "seen"
    /\ LET mine == {t \in post[h].batch : runs[t].check \in Assigned}
           old == {t \in mine : t < st[runs[t].check].last}
       IN  post' = [post EXCEPT ![h].at = "judging", ![h].live = @ \cap mine,
                               ![h].held = (@ \cap mine) \cup old,
                               ![h].refused = post[h].batch \ mine]
    /\ UNCHANGED <<collector, st, rec, config, down, alerts>>

\* Under one lock: each result must be of a check this collector is to run, and one
\* that is older than what is recorded is history, not news.
Decide(h) ==
    /\ post[h].at = "seen"
    /\ LET mine == {t \in post[h].batch : runs[t].check \in Assigned}
           old == {t \in mine : t < st[runs[t].check].last}
       IN  post' = [post EXCEPT ![h].at = "judging",
                               ![h].live = (@ \cap mine) \ old,
                               ![h].held = (@ \cap mine) \cup old,
                               ![h].refused = post[h].batch \ mine]
    /\ UNCHANGED <<collector, st, rec, config, down, alerts>>

\* The results are taken in their order.
Due(h, t) ==
    /\ t \in post[h].live \cup post[h].held
    /\ \A u \in post[h].live \cup post[h].held : t <= u

\* process; it leaves alone a check that has been turned off since, and reports no
\* error.
JudgeNext(h, t) ==
    LET c == runs[t].check
    IN  /\ post[h].at = "judging" /\ Due(h, t) /\ t \in post[h].live
        /\ \/ c \notin off /\ Judge(c, runs[t].ok, t)
           \/ c \in off /\ mail[c] = "none" /\ UNCHANGED <<st, rec, alerts>>
        /\ post' = [post EXCEPT ![h].live = @ \ {t},
                                ![h].unheard = IF c \in off THEN @ \cup {t} ELSE @]
        /\ UNCHANGED <<collector, config, down>>

\* What is recorded of the check of a result, close to it in time.
Near(t) == {u \in rec : runs[u].check = runs[t].check /\ t <= u + Spacing /\ u <= t + Spacing}

\* A held one must not be too old (CheckHeldTimestamp), and is taken for one that is
\* recorded if any is so close (CountResultsNear).
CountNear(h, t) ==
    /\ post[h].at = "judging" /\ Due(h, t) /\ t \in post[h].held
    /\ \/ /\ Near(t) = {}
          /\ post' = [post EXCEPT ![h].at = "adding"]
       \/ /\ Near(t) # {}
          /\ post' = [post EXCEPT ![h].held = @ \ {t}]
       \/ post' = [post EXCEPT ![h].held = @ \ {t}, ![h].refused = @ \cup {t}]
    /\ UNCHANGED <<collector, st, rec, config, down, alerts>>

AddHeld(h, t) ==
    /\ post[h].at = "adding" /\ Due(h, t) /\ t \in post[h].held
    /\ rec' = rec \cup {t}
    /\ post' = [post EXCEPT ![h].at = "judging", ![h].held = @ \ {t}]
    /\ UNCHANGED <<collector, st, config, down, alerts>>

\* (A fault: it is accepted all the same.)
StoreFailsUnsaid(h) ==
    /\ post[h].at \in {"judging", "adding"} /\ post[h].live \cup post[h].held # {}
    /\ Done(h, "taken")
    /\ UNCHANGED <<collector, st, rec, config, down, alerts>>

\* The store fails: an error, for all of the batch.
StoreFails(h) ==
    /\ post[h].at \in {"judging", "adding"} /\ post[h].live \cup post[h].held # {}
    /\ Done(h, "failed")
    /\ UNCHANGED <<collector, st, rec, config, down, alerts>>

Accept(h) ==
    /\ post[h].at = "judging" /\ post[h].live \cup post[h].held = {}
    /\ Done(h, "taken")
    /\ UNCHANGED <<collector, st, rec, config, down, alerts>>

-----------------------------------------------------------------------------
(* The watch, and what people do.                                         *)

\* watchCollectorsLocked, on the scheduler's tick: nothing has come for longer than
\* collectorGrace.
WatchTick ==
    /\ ~down /\ Assigned # {}
    /\ down' = TRUE
    /\ st' = [c \in CChecks |-> IF c \in Assigned
                                THEN [st[c] EXCEPT !.status = "unknown", !.quiet = TRUE]
                                ELSE st[c]]
    /\ UNCHANGED <<collector, post, rec, config, alerts>>

\* A check that is not given to the collector is run here.
LocalRun(c, ok) ==
    /\ c \notin given \cup off /\ Taken(c, ok)
    /\ Judge(c, ok, Len(runs'))
    /\ UNCHANGED <<jobs, queued, aged, post, config, down>>

\* A node is checked from elsewhere; collecting is turned off or on; the threshold is
\* another one.
Configure ==
    /\ \/ /\ \E c \in CChecks : given' \in {given \cup {c}, given \ {c}}
          /\ UNCHANGED <<on, thr, word>>
       \/ on' = ~on /\ UNCHANGED <<given, thr, word>>
       \/ /\ thr' \in 1..CThreshold
          /\ word' = [c \in CChecks |-> IF st[c].alert /\ thr' > thr THEN "raised" ELSE word[c]]
          /\ UNCHANGED <<given, on>>
    /\ UNCHANGED <<collector, post, st, rec, off, down, mail>>

\* ReloadConfig: a check or its node is disabled, and its outage is over, though its
\* delivery may be under way; or it is enabled again.
TurnOff(c) ==
    /\ c \notin off /\ off' = off \cup {c}
    /\ st' = [st EXCEPT ![c].status = "paused", ![c].failures = 0, ![c].alert = FALSE]
    /\ word' = [word EXCEPT ![c] = IF mail[c] = "down" THEN "off" ELSE "none"]
    /\ UNCHANGED <<collector, post, rec, thr, given, on, down, mail>>
TurnOn(c) ==
    /\ c \in off /\ off' = off \ {c}
    /\ st' = [st EXCEPT ![c].status = "unknown"]
    /\ UNCHANGED <<collector, post, rec, thr, given, on, down, alerts>>

\* GWatch is stopped, which waits for deliveries, and starts.  The states of the
\* checks are in the store; what is known of the collector is not.
Restart ==
    /\ \A c \in CChecks : mail[c] = "none"
    /\ post' = [h \in Posts |-> Ended(post[h], "failed")]
    /\ down' = FALSE
    /\ UNCHANGED <<collector, st, rec, config, alerts>>

-----------------------------------------------------------------------------

Ingest(h) ==
    \/ Refuse(h) \/ Paused(h) \/ Seen(h) \/ Decide(h) \/ StoreFails(h) \/ Accept(h)
    \/ \E t \in Times : JudgeNext(h, t) \/ CountNear(h, t) \/ AddHeld(h, t)
Collect(h) == Send(h) \/ GiveUp(h) \/ Vanish(h) \/ Hear(h)
CollNext ==
    \/ \E c \in CChecks, ok \in BOOLEAN : Run(c, ok) \/ LocalRun(c, ok)
    \/ \E c \in CChecks : Delivery(c) \/ TurnOff(c) \/ TurnOn(c)
    \/ Age \/ Assign
    \/ \E h \in Posts : Collect(h) \/ Ingest(h)
    \/ WatchTick \/ Configure \/ Restart

CollSpec == CollInit /\ [][CollNext]_collVars

-----------------------------------------------------------------------------
(* Properties.                                                             *)

CollTypeOK ==
    /\ \A t \in 1..Len(runs) : runs[t] \in [check : CChecks, ok : BOOLEAN]
    /\ jobs \subseteq CChecks /\ given \cup off \subseteq CChecks
    /\ queued \subseteq 1..Len(runs) /\ aged \in 0..Len(runs)
    /\ \A h \in Posts :
        /\ post[h].live \cup post[h].held \cup post[h].refused \cup post[h].unheard
                \subseteq post[h].batch
        /\ post[h].live \cap post[h].held = {}
        /\ post[h].at = "done" => post[h].verdict \in {"taken", "refused", "failed"}
    /\ \A c \in CChecks :
        /\ st[c].status \in {"unknown", "up", "down", "paused"} /\ st[c].failures \in 0..CThreshold
        /\ mail[c] \in {"none", "down", "recovered"}
        /\ word[c] \in {"none", "down", "raised", "lost", "off"}
    /\ rec \subseteq 1..Len(runs) /\ thr \in 1..CThreshold

\* Of a batch that GWatch says it has taken, and that the agent drops, every result
\* is in the history, itself or by one that is less than 4/5 of the interval away,
\* but for those rejected one by one and those whose check was turned off before
\* they were judged; whatever became of earlier attempts to deliver it.
TakenIsRecorded ==
    \A h \in Posts : post[h].verdict = "taken" =>
        \A t \in post[h].batch \ (post[h].refused \cup post[h].unheard) : Near(t) # {}

\* An outage that people were told of is not told again, also after a quiet spell: "it
\* does not alert a second time for the same outage" (docs/COLLECTORS.md:112-113),
\* unless the threshold was raised in it.  A check that is turned off ends its outage.
ToldOnce == \A c \in CChecks : mail[c] = "down" => word[c] # "down"

\* A check whose alert stands has told people, or is telling them: "a failed down
\* delivery must not consume the outage" (process.go:996), unless it fails while the
\* check is unknown, or the threshold was raised.
AlertIsTold == \A c \in CChecks : st[c].alert => word[c] # "none" \/ mail[c] = "down"
=============================================================================
