---------------------------- MODULE AlertsProofs ----------------------------
(***************************************************************************)
(* Proofs about Alerts, for every value of its constants: types are kept,  *)
(* no run waits for something already over, no alert is written off        *)
(* without being sent, and nothing waits in a window once Stop has flushed *)
(* them.  IInv is the inductive invariant; each of its parts is proved     *)
(* preserved from the parts it needs.  When alerts are sent one by one,    *)
(* ContractInv is added to it, and the module implements AlertContract.    *)
(***************************************************************************)
EXTENDS Alerts, TLAPS

\* What a run has in hand at each place of process: a check as long as it
\* lasts, alerts only once its result is committed, and when it is about to
\* probe, a parent to probe and room to nest.
RunShape ==
    \A r \in Runs :
        /\ run[r].check = Nobody <=> run[r].pc = "idle"
        /\ run[r].pc \notin {"recovering", "overtaking", "queue"} => run[r].tasks = {}
        /\ run[r].pc = "probe" => Parent[run[r].check] # Nobody /\ run[r].depth < ProbeDepth

\* A check that is not pushed has at most one run.
SingleFlight ==
    \A r, q \in Runs :
        run[r].check = run[q].check /\ run[r].check \in Checks \ Pushed => r = q

\* A recovery about to drop a waiting alert still has its check up: with one
\* run at a time nothing can have taken it down again.
RecoveringUp ==
    \A r \in Runs :
        run[r].pc = "recovering" /\ run[r].check \notin Pushed
            => live[run[r].check].status # "down"

\* An alert is active only in an outage, and a check that is switched off is
\* in none.
ActiveIsDown ==
    \A c \in Checks :
        /\ live[c].alertActive => live[c].status = "down"
        /\ ~enabled[c] => live[c].status # "down"

IInv == /\ TypeOK /\ RunShape /\ SingleFlight /\ RecoveringUp /\ ActiveIsDown
        /\ NoLostWakeup /\ AlertAccounted /\ FlushedForGood

-----------------------------------------------------------------------------
(* The values the operators return.                                        *)

\* Judging a result gives a state again.
LEMMA JudgedType ==
    ASSUME NEW s \in CheckState, NEW ok \in BOOLEAN
    PROVE  Judged(s, ok) \in CheckState
<1>1. Threshold \in Nat \ {0} BY ChecksAssumption
<1>2. CASE ok
    <2> DEFINE a == s.alertActive /\ s.status # "down"
    <2>1. a \in BOOLEAN OBVIOUS
    <2>2. Judged(s, ok) = [s EXCEPT !.status = "up", !.failures = 0,
                                    !.alertActive = a]
        BY <1>2 DEF Judged
    <2>3. 0 \in 0..Threshold BY <1>1
    <2> HIDE DEF a
    <2> QED BY <2>1, <2>2, <2>3 DEF CheckState, Statuses
<1>3. CASE ~ok
    <2> DEFINE f == IF s.failures < Threshold THEN s.failures + 1 ELSE Threshold
    <2>1. f \in 0..Threshold BY <1>1 DEF CheckState
    <2>2. Judged(s, ok) = [s EXCEPT !.failures = f,
                              !.status = IF f >= Threshold THEN "down" ELSE @]
        BY <1>3 DEF Judged
    <2> HIDE DEF f
    <2> QED BY <2>1, <2>2 DEF CheckState, Statuses
<1> QED BY <1>2, <1>3

\* The states a run starts and ends with.
LEMMA FreshTypes ==
    /\ FreshState \in CheckState
    /\ IdleRun \in Run
    /\ FreeMail \in Mail
<1>1. Threshold \in Nat \ {0} BY ChecksAssumption
<1>2. FreshState \in CheckState BY <1>1 DEF FreshState, CheckState, Statuses
<1> QED BY <1>2 DEF IdleRun, Run, FreeMail, Mail

\* Waking the waiting changes what they await, and nothing else.
LEMMA WokenType ==
    ASSUME NEW runs \in [Runs -> Run], NEW x
    PROVE  /\ Woken(runs, x) \in [Runs -> Run]
           /\ \A r \in Runs : /\ Woken(runs, x)[r].pc = runs[r].pc
                              /\ Woken(runs, x)[r].check = runs[r].check
                              /\ Woken(runs, x)[r].tasks = runs[r].tasks
                              /\ Woken(runs, x)[r].depth = runs[r].depth
                              /\ Woken(runs, x)[r].awaits # x \/ x = Nobody
                              /\ Woken(runs, x)[r].awaits \in {runs[r].awaits, Nobody}
<1>1. ASSUME NEW r \in Runs
      PROVE  /\ [runs[r] EXCEPT !.awaits = Nobody] \in Run
             /\ [runs[r] EXCEPT !.awaits = Nobody].pc = runs[r].pc
             /\ [runs[r] EXCEPT !.awaits = Nobody].check = runs[r].check
             /\ [runs[r] EXCEPT !.awaits = Nobody].tasks = runs[r].tasks
             /\ [runs[r] EXCEPT !.awaits = Nobody].depth = runs[r].depth
             /\ [runs[r] EXCEPT !.awaits = Nobody].awaits = Nobody
    BY DEF Run
<1> QED BY <1>1 DEF Woken

\* Re-arming gives states again, and changes nothing else than what it re-arms.
LEMMA RearmedType ==
    ASSUME TypeOK, NEW S \in SUBSET Task
    PROVE  /\ Rearmed(S) \in [Checks -> CheckState]
           /\ \A c \in Checks :
                /\ Rearmed(S)[c].status = live[c].status
                /\ Rearmed(S)[c].alertActive => live[c].alertActive
                /\ (\E t \in S : IsDown(t, c)) /\ live[c].status = "down"
                      => ~Rearmed(S)[c].alertActive
<1>1. ASSUME NEW c \in Checks
      PROVE  /\ [live[c] EXCEPT !.alertActive = FALSE, !.lastAlert = NoTime,
                                !.cooling = FALSE] \in CheckState
             /\ [live[c] EXCEPT !.alertActive = FALSE, !.lastAlert = NoTime,
                                !.cooling = FALSE].status = live[c].status
             /\ [live[c] EXCEPT !.alertActive = FALSE, !.lastAlert = NoTime,
                                !.cooling = FALSE].alertActive = FALSE
    BY DEF TypeOK, CheckState
<1>2. \A c \in Checks : live[c] \in CheckState BY DEF TypeOK
<1> QED BY <1>1, <1>2 DEF Rearmed, IsDown

\* The time given to an alert is one of the times.
LEMMA NowType ==
    ASSUME NEW c, FreshTimes(c) # {}
    PROVE  Now(c) \in Times
BY DEF Now, FreshTimes

-----------------------------------------------------------------------------
(* Steps that only move runs.                                              *)

\* What a run-only step has to respect: the shape of the runs, one run at a
\* time, what is awaited, and the alerts in hand.
LEMMA RunOnly ==
    ASSUME IInv,
           UNCHANGED <<live, enabled, muted, mail, mailDone, groups, stopping, told>>,
           run' \in [Runs -> Run],
           RunShape', SingleFlight', RecoveringUp',
           \A r \in Runs :
               /\ run'[r].awaits \in Mails =>
                    mail[run'[r].awaits].phase \in {"sending", "told", "failed"}
               /\ run'[r].awaits \in Runs => run'[run'[r].awaits].pc # "idle",
           \A r \in Runs : run[r].tasks \subseteq run'[r].tasks
    PROVE  IInv'
<1>1. TypeOK' BY DEF IInv, TypeOK
<1>2. ActiveIsDown' BY DEF IInv, ActiveIsDown
<1>3. NoLostWakeup' BY DEF IInv, NoLostWakeup
<1>4. AlertAccounted'
    <2>1. ASSUME NEW c \in Checks, OnItsWay(c) PROVE OnItsWay(c)'
        <3>1. CASE \E r \in Runs : \E t \in run[r].tasks : IsDown(t, c)
            BY <3>1 DEF OnItsWay, IsDown
        <3>2. CASE ~\E r \in Runs : \E t \in run[r].tasks : IsDown(t, c)
            BY <2>1, <3>2 DEF OnItsWay, IsDown
        <3> QED BY <3>1, <3>2
    <2> QED BY <2>1 DEF IInv, AlertAccounted
<1>5. FlushedForGood' BY DEF IInv, FlushedForGood
<1> QED BY <1>1, <1>2, <1>3, <1>4, <1>5 DEF IInv

\* A run goes on with the same check and the same alerts.
LEMMA MoveRun ==
    ASSUME IInv,
           NEW r \in Runs, NEW n \in Run,
           UNCHANGED <<live, enabled, muted, mail, mailDone, groups, stopping, told>>,
           run' = [run EXCEPT ![r] = n],
           run[r].pc # "idle", n.pc # "idle",
           n.check = run[r].check, n.tasks = run[r].tasks,
           n.pc \notin {"recovering", "overtaking", "queue"} => n.tasks = {},
           n.pc = "probe" => Parent[n.check] # Nobody /\ n.depth < ProbeDepth,
           n.pc # "recovering",
           n.awaits \in Mails => mail[n.awaits].phase \in {"sending", "told", "failed"},
           n.awaits \in Runs => run[n.awaits].pc # "idle"
    PROVE  IInv'
<1>1. run \in [Runs -> Run] BY DEF IInv, TypeOK
<1>2. run' \in [Runs -> Run] BY <1>1
<1>3. \A q \in Runs : run'[q] = IF q = r THEN n ELSE run[q] BY <1>1
<1>4. RunShape' BY <1>3 DEF IInv, RunShape
<1>5. SingleFlight' BY <1>3 DEF IInv, SingleFlight
<1>6. RecoveringUp' BY <1>3 DEF IInv, RecoveringUp
<1>7. \A q \in Runs :
        /\ run'[q].awaits \in Mails =>
              mail[run'[q].awaits].phase \in {"sending", "told", "failed"}
        /\ run'[q].awaits \in Runs => run'[run'[q].awaits].pc # "idle"
    BY <1>3 DEF IInv, NoLostWakeup
<1>8. \A q \in Runs : run[q].tasks \subseteq run'[q].tasks BY <1>3
<1> QED BY <1>2, <1>4, <1>5, <1>6, <1>7, <1>8, RunOnly

\* A run without alerts ends.
LEMMA EndKeeps ==
    ASSUME IInv,
           NEW r \in Runs, run[r].tasks = {},
           EndRun(r),
           UNCHANGED <<live, enabled, muted, mail, mailDone, groups, stopping, told>>
    PROVE  IInv'
<1> DEFINE base == [run EXCEPT ![r] = IdleRun]
<1>1. run \in [Runs -> Run] BY DEF IInv, TypeOK
<1>2. base \in [Runs -> Run] BY <1>1, FreshTypes
<1>3. \A q \in Runs : base[q] = IF q = r THEN IdleRun ELSE run[q] BY <1>1
<1>4. /\ IdleRun.pc = "idle" /\ IdleRun.check = Nobody /\ IdleRun.tasks = {}
      /\ IdleRun.awaits = Nobody
    BY DEF IdleRun
<1>5. run' = Woken(base, r) BY DEF EndRun
<1> HIDE DEF base
<1>6. /\ run' \in [Runs -> Run]
      /\ \A q \in Runs : /\ run'[q].pc = base[q].pc
                         /\ run'[q].check = base[q].check
                         /\ run'[q].tasks = base[q].tasks
                         /\ run'[q].depth = base[q].depth
                         /\ run'[q].awaits # r \/ r = Nobody
                         /\ run'[q].awaits \in {base[q].awaits, Nobody}
    BY <1>2, <1>5, WokenType
<1>7. RunShape' BY <1>3, <1>4, <1>6 DEF IInv, RunShape
<1>8. SingleFlight'
    BY <1>3, <1>4, <1>6, ChecksAssumption DEF IInv, SingleFlight
<1>9. RecoveringUp' BY <1>3, <1>4, <1>6 DEF IInv, RecoveringUp
<1>10. ASSUME NEW q \in Runs
       PROVE  /\ run'[q].awaits \in Mails =>
                   mail[run'[q].awaits].phase \in {"sending", "told", "failed"}
              /\ run'[q].awaits \in Runs => run'[run'[q].awaits].pc # "idle"
    <2>1. Nobody \notin Runs \cup Mails BY ChecksAssumption
    <2>2. run'[q].awaits \in {run[q].awaits, Nobody} BY <1>3, <1>4, <1>6
    <2>3. run'[q].awaits # r BY <1>6, <2>1
    <2> QED BY <1>3, <1>6, <2>1, <2>2, <2>3 DEF IInv, NoLostWakeup
<1>11. \A q \in Runs : run[q].tasks \subseteq run'[q].tasks BY <1>3, <1>4, <1>6
<1> QED BY <1>6, <1>7, <1>8, <1>9, <1>10, <1>11, RunOnly

-----------------------------------------------------------------------------
(* Starting, waiting and probing.                                          *)

\* A run under way has a check.
LEMMA Busy ==
    ASSUME IInv, NEW r \in Runs, run[r].pc # "idle"
    PROVE  run[r].check \in Checks
BY DEF IInv, TypeOK, Run, RunShape

\* Starting a run on an idle frame keeps the invariant; so does starting one
\* for a probe.
LEMMA NewRun ==
    ASSUME IInv,
           NEW r \in Runs, run[r].pc = "idle",
           NEW n \in Run, n.pc = "begin", n.tasks = {}, n.awaits = Nobody,
           n.check \in Checks, MayStart(n.check),
           UNCHANGED <<live, enabled, muted, mail, mailDone, groups, stopping, told>>,
           run' = [run EXCEPT ![r] = n]
    PROVE  IInv'
<1>1. run \in [Runs -> Run] BY DEF IInv, TypeOK
<1>2. run' \in [Runs -> Run] BY <1>1
<1>3. \A q \in Runs : run'[q] = IF q = r THEN n ELSE run[q] BY <1>1
<1>4. Nobody \notin Checks \cup Runs \cup Mails BY ChecksAssumption
<1>5. RunShape' BY <1>3, <1>4 DEF IInv, RunShape
<1>6. SingleFlight' BY <1>3 DEF IInv, SingleFlight, MayStart, InFlight
<1>7. RecoveringUp' BY <1>3 DEF IInv, RecoveringUp
<1>8. \A q \in Runs :
        /\ run'[q].awaits \in Mails =>
              mail[run'[q].awaits].phase \in {"sending", "told", "failed"}
        /\ run'[q].awaits \in Runs => run'[run'[q].awaits].pc # "idle"
    BY <1>3, <1>4 DEF IInv, NoLostWakeup
<1>9. \A q \in Runs : run[q].tasks \subseteq run'[q].tasks
    BY <1>3 DEF IInv, RunShape
<1> QED BY <1>2, <1>5, <1>6, <1>7, <1>8, <1>9, RunOnly

\* A result arrives and its judging begins.
LEMMA StartKeeps ==
    ASSUME IInv, NEW r \in Runs, NEW c \in Checks, Start(r, c)
    PROVE  IInv'
<1>1. PICK ok \in BOOLEAN :
        run' = [run EXCEPT ![r] = [IdleRun EXCEPT !.pc = "begin", !.check = c,
                                                  !.ok = ok]]
    BY DEF Start
<1> DEFINE n == [IdleRun EXCEPT !.pc = "begin", !.check = c, !.ok = ok]
<1>2. /\ n \in Run /\ n.pc = "begin" /\ n.tasks = {} /\ n.awaits = Nobody
      /\ n.check = c
    BY FreshTypes DEF IdleRun, Run
<1>3. run' = [run EXCEPT ![r] = n] BY <1>1
<1> HIDE DEF n
<1> QED BY <1>2, <1>3, NewRun DEF Start

\* A run waits for the delivery it finds in mailDone.
LEMMA AwaitMailKeeps ==
    ASSUME IInv, NEW r \in Runs, AwaitMail(r)
    PROVE  IInv'
<1> DEFINE n == [run[r] EXCEPT !.pc = "held", !.awaits = mailDone[run[r].check]]
<1>1. run \in [Runs -> Run] BY DEF IInv, TypeOK
<1>2. run[r].pc = "begin" /\ run[r].check \in Checks BY Busy DEF AwaitMail
<1>3. /\ mailDone[run[r].check] \in Mails
      /\ mail[mailDone[run[r].check]].phase \in {"sending", "told", "failed"}
    BY <1>2 DEF AwaitMail, IInv, TypeOK, NoLostWakeup
<1>4. /\ n \in Run /\ n.pc = "held" /\ n.check = run[r].check
      /\ n.tasks = run[r].tasks /\ n.awaits = mailDone[run[r].check]
    BY <1>1, <1>3 DEF Run
<1>5. run' = [run EXCEPT ![r] = n] BY <1>1 DEF AwaitMail
<1>6. run[r].tasks = {} BY <1>2 DEF IInv, RunShape
<1>7. n.awaits \notin Runs BY <1>3, <1>4, ChecksAssumption
<1> HIDE DEF n
<1> QED BY <1>2, <1>3, <1>4, <1>5, <1>6, <1>7, MoveRun DEF AwaitMail

\* A run sets out to probe the parent.
LEMMA ProbeKeeps ==
    ASSUME IInv, NEW r \in Runs, Probe(r)
    PROVE  IInv'
<1> DEFINE c == run[r].check
           n == [run[r] EXCEPT !.pc = "probe", !.before = live[c]]
<1>1. run \in [Runs -> Run] BY DEF IInv, TypeOK
<1>2. run[r].pc \in {"begin", "held"} BY DEF Probe, ReadyToJudge
<1>3. c \in Checks BY <1>2, Busy
<1>4. live[c] \in CheckState BY <1>3 DEF IInv, TypeOK
<1>5. Parent[c] # Nobody /\ run[r].depth < ProbeDepth BY DEF Probe, NeedsProbe
<1>6. /\ n \in Run /\ n.pc = "probe" /\ n.check = c /\ n.depth = run[r].depth
      /\ n.tasks = run[r].tasks /\ n.awaits = run[r].awaits
    BY <1>1, <1>4 DEF Run
<1>7. run' = [run EXCEPT ![r] = n] BY <1>1 DEF Probe
<1>8. run[r].tasks = {} BY <1>2 DEF IInv, RunShape
<1>9. /\ n.awaits \in Mails => mail[n.awaits].phase \in {"sending", "told", "failed"}
      /\ n.awaits \in Runs => run[n.awaits].pc # "idle"
    BY <1>6 DEF IInv, NoLostWakeup
<1> HIDE DEF n
<1> QED BY <1>2, <1>5, <1>6, <1>7, <1>8, <1>9, MoveRun DEF Probe

\* There is nothing to probe.
LEMMA ProbeNothingKeeps ==
    ASSUME IInv, NEW r \in Runs, ProbeNothing(r)
    PROVE  IInv'
<1> DEFINE n == [run[r] EXCEPT !.pc = "probed"]
<1>1. run \in [Runs -> Run] BY DEF IInv, TypeOK
<1>2. run[r].pc = "probe" BY DEF ProbeNothing
<1>3. /\ n \in Run /\ n.pc = "probed" /\ n.check = run[r].check
      /\ n.tasks = run[r].tasks /\ n.awaits = run[r].awaits
    BY <1>1 DEF Run
<1>4. run' = [run EXCEPT ![r] = n] BY <1>1 DEF ProbeNothing
<1>5. run[r].tasks = {} BY <1>2 DEF IInv, RunShape
<1>6. /\ n.awaits \in Mails => mail[n.awaits].phase \in {"sending", "told", "failed"}
      /\ n.awaits \in Runs => run[n.awaits].pc # "idle"
    BY <1>3 DEF IInv, NoLostWakeup
<1> HIDE DEF n
<1> QED BY <1>2, <1>3, <1>4, <1>5, <1>6, MoveRun DEF ProbeNothing

\* The probe joins a flight of the parent.
LEMMA ProbeJoinsKeeps ==
    ASSUME IInv, NEW r \in Runs, NEW q \in Runs, ProbeJoins(r, q)
    PROVE  IInv'
<1> DEFINE n == [run[r] EXCEPT !.pc = "joined", !.awaits = q]
<1>1. run \in [Runs -> Run] BY DEF IInv, TypeOK
<1>2. run[r].pc = "probe" /\ run[q].check = Parent[run[r].check] BY DEF ProbeJoins
<1>3. run[q].pc # "idle" BY <1>2 DEF IInv, RunShape
<1>4. /\ n \in Run /\ n.pc = "joined" /\ n.check = run[r].check
      /\ n.tasks = run[r].tasks /\ n.awaits = q
    BY <1>1 DEF Run
<1>5. run' = [run EXCEPT ![r] = n] BY <1>1 DEF ProbeJoins
<1>6. run[r].tasks = {} BY <1>2 DEF IInv, RunShape
<1>7. n.awaits \notin Mails BY <1>4, ChecksAssumption
<1> HIDE DEF n
<1> QED BY <1>2, <1>3, <1>4, <1>5, <1>6, <1>7, MoveRun DEF ProbeJoins

\* The probe is a run of its own.
LEMMA ProbeRunsKeeps ==
    ASSUME IInv, NEW r \in Runs, NEW q \in Runs, ProbeRuns(r, q)
    PROVE  IInv'
<1> DEFINE p == Parent[run[r].check]
           m == [run[r] EXCEPT !.pc = "probed", !.awaits = q]
           new(ok) == [IdleRun EXCEPT !.pc = "begin", !.check = p, !.ok = ok,
                                      !.depth = run[r].depth + 1]
<1>1. run \in [Runs -> Run] BY DEF IInv, TypeOK
<1>2. /\ run[r].pc = "probe" /\ run[q].pc = "idle" /\ q # r
      /\ p \notin Pushed /\ ~InFlight(p)
    BY DEF ProbeRuns, Probeable
<1>3. run[r].check \in Checks BY <1>2, Busy
<1>4. p \in Checks
    BY <1>2, <1>3, ChecksAssumption DEF IInv, RunShape
<1>5. run[r].depth + 1 \in 0..3
    BY <1>1, <1>2 DEF IInv, RunShape, Run, ProbeDepth
<1>6. PICK ok \in BOOLEAN :
        run' = [run EXCEPT ![r].pc = "probed", ![r].awaits = q, ![q] = new(ok)]
    BY DEF ProbeRuns
<1> DEFINE n == new(ok)
<1>7. /\ n \in Run /\ n.pc = "begin" /\ n.check = p
      /\ n.tasks = {} /\ n.awaits = Nobody
    BY <1>4, <1>5, FreshTypes DEF IdleRun, Run
<1>8. /\ m \in Run /\ m.pc = "probed" /\ m.check = run[r].check
      /\ m.tasks = run[r].tasks /\ m.awaits = q
    BY <1>1 DEF Run
<1>9. /\ run' = [run EXCEPT ![r] = m, ![q] = n]
    BY <1>1, <1>2, <1>6
<1> HIDE DEF n, m, new
<1>10. \A x \in Runs : run'[x] = IF x = q THEN n ELSE IF x = r THEN m ELSE run[x]
    BY <1>1, <1>2, <1>9
<1>11. run' \in [Runs -> Run] BY <1>1, <1>7, <1>8, <1>9
<1>12. Nobody \notin Checks \cup Runs \cup Mails /\ Runs \cap Mails = {}
    BY ChecksAssumption
<1>13. RunShape'
    BY <1>2, <1>3, <1>4, <1>7, <1>8, <1>10, <1>12 DEF IInv, RunShape
<1>14. SingleFlight'
    BY <1>2, <1>7, <1>8, <1>10 DEF IInv, SingleFlight, InFlight
<1>15. live' = live BY DEF ProbeRuns
<1>16. RecoveringUp' BY <1>7, <1>8, <1>10, <1>15 DEF IInv, RecoveringUp
<1>17. \A x \in Runs :
        /\ run'[x].awaits \in Mails =>
              mail[run'[x].awaits].phase \in {"sending", "told", "failed"}
        /\ run'[x].awaits \in Runs => run'[run'[x].awaits].pc # "idle"
    BY <1>2, <1>7, <1>8, <1>10, <1>12 DEF IInv, NoLostWakeup
<1>18. \A x \in Runs : run[x].tasks \subseteq run'[x].tasks
    BY <1>2, <1>7, <1>8, <1>10 DEF IInv, RunShape
<1> QED
    BY <1>11, <1>13, <1>14, <1>16, <1>17, <1>18, RunOnly DEF ProbeRuns

\* The probe is given up.
LEMMA ProbeTimeoutKeeps ==
    ASSUME IInv, NEW r \in Runs, ProbeTimeout(r)
    PROVE  IInv'
<1> DEFINE n == [run[r] EXCEPT !.awaits = Nobody]
<1>1. run \in [Runs -> Run] BY DEF IInv, TypeOK
<1>2. run[r].pc = "joined" BY DEF ProbeTimeout
<1>3. /\ n \in Run /\ n.pc = "joined" /\ n.check = run[r].check
      /\ n.tasks = run[r].tasks /\ n.awaits = Nobody
    BY <1>1, <1>2 DEF Run
<1>4. run' = [run EXCEPT ![r] = n] BY <1>1 DEF ProbeTimeout
<1>5. run[r].tasks = {} BY <1>2 DEF IInv, RunShape
<1>6. Nobody \notin Mails \cup Runs BY ChecksAssumption
<1> HIDE DEF n
<1> QED BY <1>2, <1>3, <1>4, <1>5, <1>6, MoveRun DEF ProbeTimeout

\* The probe is over, and the judging begins again.
LEMMA ProbeAgainKeeps ==
    ASSUME IInv, NEW r \in Runs, ProbeAgain(r)
    PROVE  IInv'
<1> DEFINE n == [IdleRun EXCEPT !.pc = "begin", !.check = run[r].check,
                                !.depth = ProbeDepth]
<1>1. run[r].pc \in {"joined", "probed"} BY DEF ProbeAgain, ProbeOver
<1>2. run[r].check \in Checks BY <1>1, Busy
<1>3. /\ n \in Run /\ n.pc = "begin" /\ n.check = run[r].check
      /\ n.tasks = {} /\ n.awaits = Nobody
    <2>1. ProbeDepth \in 0..3 BY DEF ProbeDepth
    <2> QED BY <1>2, <2>1, FreshTypes DEF IdleRun, Run
<1>4. run' = [run EXCEPT ![r] = n] BY DEF ProbeAgain
<1>5. run[r].tasks = {} BY <1>1 DEF IInv, RunShape
<1>6. Nobody \notin Mails \cup Runs BY ChecksAssumption
<1> HIDE DEF n
<1> QED BY <1>1, <1>3, <1>4, <1>5, <1>6, MoveRun DEF ProbeAgain

\* The runs that end unrecorded have no alert in hand, and the others have
\* handed theirs over.
LEMMA EndingsKeep ==
    ASSUME IInv, NEW r \in Runs,
           GiveUp(r) \/ Unrecorded(r) \/ ProbeUnrecorded(r) \/ Finish(r)
    PROVE  IInv'
<1>1. CASE GiveUp(r)
    <2>1. run[r].tasks = {} BY <1>1 DEF GiveUp, IInv, RunShape
    <2> QED BY <1>1, <2>1, EndKeeps DEF GiveUp
<1>2. CASE Unrecorded(r)
    <2>1. run[r].tasks = {} BY <1>2 DEF Unrecorded, ReadyToJudge, IInv, RunShape
    <2> QED BY <1>2, <2>1, EndKeeps DEF Unrecorded
<1>3. CASE ProbeUnrecorded(r)
    <2>1. run[r].tasks = {} BY <1>3 DEF ProbeUnrecorded, ProbeOver, IInv, RunShape
    <2> QED BY <1>3, <2>1, EndKeeps DEF ProbeUnrecorded
<1>4. CASE Finish(r)
    <2>1. run[r].tasks = {} BY <1>4 DEF Finish
    <2> QED BY <1>4, <2>1, EndKeeps DEF Finish
<1> QED BY <1>1, <1>2, <1>3, <1>4

\* A recovery finds no alert of its outage in a window.
LEMMA NothingPendingKeeps ==
    ASSUME IInv, NEW r \in Runs, NothingPending(r)
    PROVE  IInv'
<1> DEFINE n == [run[r] EXCEPT !.pc = "overtaking"]
<1>1. run \in [Runs -> Run] BY DEF IInv, TypeOK
<1>2. run[r].pc = "recovering" BY DEF NothingPending
<1>3. /\ n \in Run /\ n.pc = "overtaking" /\ n.check = run[r].check
      /\ n.tasks = run[r].tasks /\ n.awaits = run[r].awaits
    BY <1>1 DEF Run
<1>4. run' = [run EXCEPT ![r] = n] BY <1>1 DEF NothingPending
<1>5. /\ n.awaits \in Mails => mail[n.awaits].phase \in {"sending", "told", "failed"}
      /\ n.awaits \in Runs => run[n.awaits].pc # "idle"
    BY <1>3 DEF IInv, NoLostWakeup
<1> HIDE DEF n
<1> QED BY <1>2, <1>3, <1>4, <1>5, MoveRun DEF NothingPending

\* A recovery waits for the alert of its outage.
LEMMA AwaitDownKeeps ==
    ASSUME IInv, NEW r \in Runs, AwaitDown(r)
    PROVE  IInv'
<1> DEFINE c == run[r].check
           n == [run[r] EXCEPT !.pc = "queue", !.awaits = mailDone[c]]
<1>1. run \in [Runs -> Run] BY DEF IInv, TypeOK
<1>2. run[r].pc = "overtaking" BY DEF AwaitDown
<1>3. c \in Checks BY <1>2, Busy
<1>4. mailDone[c] \in Mails \cup {Nobody} BY <1>3 DEF IInv, TypeOK
<1>5. /\ n \in Run /\ n.pc = "queue" /\ n.check = c
      /\ n.tasks = run[r].tasks /\ n.awaits = mailDone[c]
    BY <1>1, <1>4 DEF Run
<1>6. run' = [run EXCEPT ![r] = n] BY <1>1 DEF AwaitDown
<1>7. mailDone[c] # Nobody =>
        mail[mailDone[c]].phase \in {"sending", "told", "failed"}
    BY <1>3 DEF IInv, NoLostWakeup
<1>8. Nobody \notin Runs \cup Mails /\ Runs \cap Mails = {} BY ChecksAssumption
<1>9. /\ n.awaits \in Mails => mail[n.awaits].phase \in {"sending", "told", "failed"}
      /\ n.awaits \notin Runs
    BY <1>4, <1>5, <1>7, <1>8
<1>10. UNCHANGED <<live, enabled, muted, mail, mailDone, groups, stopping, told>>
    BY DEF AwaitDown
<1> HIDE DEF n, c
<1> QED BY <1>2, <1>5, <1>6, <1>9, <1>10, MoveRun DEF c

\* A recovery waits no longer.
LEMMA WorkCancelledKeeps ==
    ASSUME IInv, NEW r \in Runs, WorkCancelled(r)
    PROVE  IInv'
<1> DEFINE n == [run[r] EXCEPT !.awaits = Nobody]
<1>1. run \in [Runs -> Run] BY DEF IInv, TypeOK
<1>2. run[r].pc = "queue" BY DEF WorkCancelled
<1>3. /\ n \in Run /\ n.pc = "queue" /\ n.check = run[r].check
      /\ n.tasks = run[r].tasks /\ n.awaits = Nobody
    BY <1>1, <1>2 DEF Run
<1>4. run' = [run EXCEPT ![r] = n] BY <1>1 DEF WorkCancelled
<1>5. Nobody \notin Mails \cup Runs BY ChecksAssumption
<1> HIDE DEF n
<1> QED BY <1>2, <1>3, <1>4, <1>5, MoveRun DEF WorkCancelled

-----------------------------------------------------------------------------
(* Committing a result.                                                    *)

\* What Commit leaves of the check's state, and what it puts in hand.
LEMMA CommitEffect ==
    ASSUME IInv, NEW r \in Runs, NEW warn \in BOOLEAN, Commit(r, warn),
           run[r].pc # "idle"
    PROVE  \E n \in Run, s \in CheckState :
             LET c == run[r].check IN
             /\ run' = [run EXCEPT ![r] = n]
             /\ live' = [live EXCEPT ![c] = s]
             /\ n.check = c /\ n.awaits = Nobody
             /\ n.pc \in {"recovering", "queue"}
             /\ n.pc = "recovering" => s.status # "down"
             /\ s.alertActive => s.status = "down"
             /\ s.alertActive => \/ \E t \in n.tasks : IsDown(t, c)
                                 \/ live[c].alertActive /\ live[c].status = "down"
<1> DEFINE c == run[r].check
           was == live[c]
           judged == Judged(was, run[r].ok)
           sends == Evaluates(was, run[r].ok) /\ MaySend(c, judged)
           kinds == (IF sends THEN {"down"} ELSE {})
                    \cup (IF run[r].ok /\ was.status = "down" /\ was.alertActive
                          THEN {"recovered"} ELSE {})
                    \cup (IF run[r].ok /\ warn THEN {"warning"} ELSE {})
           recovers == was.status = "down" /\ judged.status # "down"
           tasks == {[check |-> c, kind |-> k, at |-> Now(c)] : k \in kinds}
           n == [IdleRun EXCEPT !.pc = IF recovers THEN "recovering" ELSE "queue",
                    !.check = c, !.depth = run[r].depth, !.tasks = tasks]
           sent == [judged EXCEPT !.alertActive = TRUE,
                                  !.lastAlert = Now(c), !.cooling = Cooldown]
           s == IF sends THEN sent ELSE judged
<1>1. /\ run' = [run EXCEPT ![r] = n]
      /\ live' = [live EXCEPT ![c] = s]
      /\ kinds # {} => FreshTimes(c) # {}
    BY DEF Commit
<1>2. c \in Checks BY Busy
<1>3. run[r] \in Run /\ was \in CheckState BY <1>2 DEF IInv, TypeOK
<1>4. judged \in CheckState BY <1>3, JudgedType DEF Run
<1>5. kinds \subseteq Kinds BY DEF Kinds
<1>6. kinds # {} => Now(c) \in Times BY <1>1, NowType
<1>7. tasks \subseteq Task BY <1>2, <1>5, <1>6 DEF Task
<1>8. sends => Now(c) \in Times BY <1>6
<1>9. Cooldown \in BOOLEAN BY ChecksAssumption
<1>10. sends => /\ sent \in CheckState /\ sent.alertActive
                /\ sent.status = judged.status
    <2> HIDE DEF judged
    <2> QED BY <1>4, <1>8, <1>9 DEF CheckState
<1>11. s \in CheckState BY <1>4, <1>10
<1>12. sends => judged.status = "down" BY DEF Evaluates
<1>13. judged.status = s.status BY <1>10
<1>14. n \in Run
    <2>1. run[r].depth \in 0..3 BY <1>3 DEF Run
    <2> HIDE DEF tasks, recovers
    <2> QED BY <1>2, <1>7, <2>1, FreshTypes DEF IdleRun, Run
<1>15. /\ n.check = c /\ n.awaits = Nobody /\ n.tasks = tasks
       /\ n.pc = IF recovers THEN "recovering" ELSE "queue"
    <2> HIDE DEF tasks, recovers
    <2> QED BY DEF IdleRun
<1>16. sends => \E t \in tasks : IsDown(t, c)
    <2> SUFFICES ASSUME sends PROVE \E t \in tasks : IsDown(t, c) OBVIOUS
    <2>1. "down" \in kinds OBVIOUS
    <2> WITNESS [check |-> c, kind |-> "down", at |-> Now(c)] \in tasks
    <2> QED BY DEF IsDown
<1>17. judged.alertActive =>
         judged.status = "down" /\ was.alertActive /\ was.status = "down"
    <2>1. was.alertActive => was.status = "down" BY <1>2 DEF IInv, ActiveIsDown
    <2>2. CASE run[r].ok
        <3> DEFINE a == was.alertActive /\ was.status # "down"
        <3>1. a = FALSE BY <2>1
        <3>2. judged = [was EXCEPT !.status = "up", !.failures = 0, !.alertActive = a]
            BY <2>2 DEF Judged
        <3> HIDE DEF a, was, judged
        <3> QED BY <1>3, <3>1, <3>2 DEF CheckState
    <2>3. CASE ~run[r].ok
        <3> DEFINE f == IF was.failures < Threshold THEN was.failures + 1 ELSE Threshold
        <3>1. judged = [was EXCEPT !.failures = f,
                          !.status = IF f >= Threshold THEN "down" ELSE @]
            BY <2>3 DEF Judged
        <3> HIDE DEF f, was, judged
        <3> QED BY <1>3, <2>1, <3>1 DEF CheckState
    <2> QED BY <2>2, <2>3
<1>18. s.alertActive => sends \/ judged.alertActive OBVIOUS
<1> HIDE DEF n, s, sends, judged, tasks, kinds, sent
<1> WITNESS n \in Run, s \in CheckState
<1> QED BY <1>1, <1>12, <1>13, <1>15, <1>16, <1>17, <1>18

\* Committing keeps the invariant: the run had no alert in hand, the outage
\* that begins with it is alerted by it or not at all, and no other run of a
\* check that is not pushed is there to be surprised.
LEMMA CommitKeeps ==
    ASSUME IInv, NEW r \in Runs, NEW warn \in BOOLEAN, Commit(r, warn),
           run[r].pc \in {"begin", "held", "joined", "probed"}
    PROVE  IInv'
<1> DEFINE c == run[r].check
<1>1. PICK n \in Run, s \in CheckState :
        /\ run' = [run EXCEPT ![r] = n]
        /\ live' = [live EXCEPT ![c] = s]
        /\ n.check = c /\ n.awaits = Nobody
        /\ n.pc \in {"recovering", "queue"}
        /\ n.pc = "recovering" => s.status # "down"
        /\ s.alertActive => s.status = "down"
        /\ s.alertActive => \/ \E t \in n.tasks : IsDown(t, c)
                            \/ live[c].alertActive /\ live[c].status = "down"
    BY CommitEffect
<1>2. run \in [Runs -> Run] /\ live \in [Checks -> CheckState] BY DEF IInv, TypeOK
<1>3. c \in Checks /\ run[r].pc # "idle" BY Busy
<1>4. \A q \in Runs : run'[q] = IF q = r THEN n ELSE run[q] BY <1>1, <1>2
<1>5. \A d \in Checks : live'[d] = IF d = c THEN s ELSE live[d] BY <1>1, <1>2
<1>6. run[r].tasks = {} BY DEF IInv, RunShape
<1>7. Nobody \notin Checks \cup Runs \cup Mails BY ChecksAssumption
<1>8. enabled[c] /\ UNCHANGED <<enabled, muted, mail, mailDone, groups, stopping>>
    BY DEF Commit
<1>9. /\ told' \in [Checks -> Told]
      /\ \A d \in Checks : told'[d] = told[d] \/ d = c
      /\ live[c].status = "down" => told' = told
    <2>1. told \in [Checks -> Told] BY DEF IInv, TypeOK
    <2>2. [told EXCEPT ![c].down = FALSE] \in [Checks -> Told] BY <2>1 DEF Told
    <2> DEFINE begins == Judged(live[c], run[r].ok).status = "down"
                         /\ live[c].status # "down"
    <2>3. told' = IF begins THEN [told EXCEPT ![c].down = FALSE] ELSE told
        BY DEF Commit
    <2> QED BY <2>1, <2>2, <2>3
<1>10. TypeOK' BY <1>1, <1>2, <1>3, <1>8, <1>9 DEF IInv, TypeOK
<1>11. RunShape' BY <1>1, <1>3, <1>4, <1>7 DEF IInv, RunShape
<1>12. SingleFlight' BY <1>1, <1>4 DEF IInv, SingleFlight
<1>13. RecoveringUp'
    <2> SUFFICES ASSUME NEW q \in Runs, run'[q].pc = "recovering",
                        run'[q].check \notin Pushed
                 PROVE  live'[run'[q].check].status # "down"
        BY DEF RecoveringUp
    <2>1. CASE q = r BY <1>1, <1>3, <1>4, <1>5, <2>1
    <2>2. CASE q # r
        <3>1. run[q].check \in Checks BY <1>4, <2>2, Busy
        <3>2. run[q].check # c BY <1>4, <2>2, <3>1 DEF IInv, SingleFlight
        <3> QED BY <1>4, <1>5, <2>2, <3>1, <3>2 DEF IInv, RecoveringUp
    <2> QED BY <2>1, <2>2
<1>14. ActiveIsDown' BY <1>1, <1>5, <1>8 DEF IInv, ActiveIsDown
<1>15. NoLostWakeup'
    <2>1. \A q \in Runs :
            /\ run'[q].awaits \in Mails =>
                 mail[run'[q].awaits].phase \in {"sending", "told", "failed"}
            /\ run'[q].awaits \in Runs => run'[run'[q].awaits].pc # "idle"
        BY <1>1, <1>4, <1>7 DEF IInv, NoLostWakeup
    <2> QED BY <1>8, <2>1 DEF IInv, NoLostWakeup
<1>16. AlertAccounted'
    <2>1. ASSUME NEW d \in Checks, OnItsWay(d) PROVE OnItsWay(d)'
        BY <1>4, <1>6, <1>8, <2>1 DEF OnItsWay, IsDown
    <2>2. ASSUME NEW d \in Checks, \E t \in n.tasks : IsDown(t, d)
          PROVE  OnItsWay(d)'
        BY <1>4, <2>2 DEF OnItsWay, IsDown
    <2> SUFFICES ASSUME NEW d \in Checks \ Pushed,
                        live'[d].status = "down", live'[d].alertActive
                 PROVE  told'[d].down \/ OnItsWay(d)'
        BY DEF AlertAccounted
    <2>3. CASE d # c
        BY <1>5, <1>9, <2>1, <2>3 DEF IInv, AlertAccounted
    <2>4. CASE d = c
        <3>1. CASE \E t \in n.tasks : IsDown(t, c) BY <2>2, <2>4, <3>1
        <3>2. CASE live[c].alertActive /\ live[c].status = "down"
            BY <1>9, <2>1, <2>4, <3>2 DEF IInv, AlertAccounted
        <3> QED BY <1>1, <1>5, <2>4, <3>1, <3>2
    <2> QED BY <2>3, <2>4
<1>17. FlushedForGood' BY <1>8 DEF IInv, FlushedForGood
<1> QED BY <1>10, <1>11, <1>12, <1>13, <1>14, <1>15, <1>16, <1>17 DEF IInv

\* A result is committed, by a check's own run or a probe.
LEMMA RecordsKeep ==
    ASSUME IInv, NEW r \in Runs, Record(r) \/ ProbeRecord(r)
    PROVE  IInv'
<1>1. run[r].pc \in {"begin", "held", "joined", "probed"}
    BY DEF Record, ReadyToJudge, ProbeRecord, ProbeOver
<1>2. PICK warn \in BOOLEAN : Commit(r, warn) BY DEF Record, ProbeRecord
<1> QED BY <1>1, <1>2, CommitKeeps

-----------------------------------------------------------------------------
(* The alerts of a committed result.                                       *)

\* A recovery takes its outage's alert out of the window: it is of no newer outage.
LEMMA DropPendingDownKeeps ==
    ASSUME IInv, NEW r \in Runs, DropPendingDown(r)
    PROVE  IInv'
<1>1. run[r].pc = "recovering" /\ run[r].check \in Checks
    BY Busy DEF DropPendingDown
<1>2. PICK c \in Checks : c = run[r].check BY <1>1
<1>3. PICK x \in Pending(c) :
        /\ groups' = [groups EXCEPT !["down"] = @ \ {x}]
        /\ live' = [live EXCEPT ![c] =
                      IF @.lastAlert = x.at
                      THEN [@ EXCEPT !.lastAlert = NoTime, !.cooling = FALSE]
                      ELSE @]
    BY <1>2 DEF DropPendingDown
<1> DEFINE kept == {t \in run[r].tasks : t.kind # "recovered"}
           n == [run[r] EXCEPT !.pc = "queue", !.tasks = kept]
           s == IF live[c].lastAlert = x.at
                THEN [live[c] EXCEPT !.lastAlert = NoTime, !.cooling = FALSE]
                ELSE live[c]
<1>4. /\ run \in [Runs -> Run] /\ live \in [Checks -> CheckState]
      /\ groups \in [Kinds -> SUBSET Task]
    BY DEF IInv, TypeOK
<1>5. run' = [run EXCEPT ![r] = n] BY <1>4 DEF DropPendingDown
<1>6. /\ n \in Run /\ n.pc = "queue" /\ n.check = c /\ n.tasks = kept
      /\ n.awaits = run[r].awaits
    BY <1>2, <1>4 DEF Run
<1>7. /\ s \in CheckState /\ s.status = live[c].status
      /\ s.alertActive = live[c].alertActive
    BY <1>4 DEF CheckState
<1>8. \A q \in Runs : run'[q] = IF q = r THEN n ELSE run[q] BY <1>4, <1>5
<1>9. \A d \in Checks : live'[d] = IF d = c THEN s ELSE live[d]
    BY <1>3, <1>4
<1>10. \A k \in Kinds : groups'[k] = IF k = "down" THEN groups[k] \ {x} ELSE groups[k]
    BY <1>3, <1>4
<1>11. x.check = c BY DEF Pending
<1>12. UNCHANGED <<enabled, muted, mail, mailDone, stopping, told>>
    BY DEF DropPendingDown
<1>13. TypeOK'
    <2>1. run' \in [Runs -> Run] BY <1>4, <1>5, <1>6
    <2>2. live' \in [Checks -> CheckState] BY <1>3, <1>4, <1>7, <1>9
    <2>3. groups' \in [Kinds -> SUBSET Task] BY <1>3, <1>4
    <2> QED BY <1>12, <2>1, <2>2, <2>3 DEF IInv, TypeOK
<1> HIDE DEF n, s, kept
<1>14. RunShape' BY <1>1, <1>2, <1>6, <1>8 DEF IInv, RunShape
<1>15. SingleFlight' BY <1>2, <1>6, <1>8 DEF IInv, SingleFlight
<1>16. RecoveringUp'
    <2>1. \A q \in Runs : run[q].pc = "recovering" => run[q].check \in Checks
        BY Busy
    <2> QED BY <1>6, <1>7, <1>8, <1>9, <2>1 DEF IInv, RecoveringUp
<1>17. ActiveIsDown' BY <1>7, <1>9, <1>12 DEF IInv, ActiveIsDown
<1>18. NoLostWakeup' BY <1>6, <1>8, <1>12 DEF IInv, NoLostWakeup
<1>19. AlertAccounted'
    <2>1. \A t \in run[r].tasks : t.kind = "down" => t \in n.tasks
        BY <1>6 DEF kept
    <2>2. ASSUME NEW d \in Checks, d # c, OnItsWay(d) PROVE OnItsWay(d)'
        <3>1. CASE \E q \in Runs : \E t \in run[q].tasks : IsDown(t, d)
            BY <1>8, <2>1, <3>1 DEF OnItsWay, IsDown
        <3>2. CASE \E t \in groups["down"] : IsDown(t, d)
            <4>1. "down" \in Kinds BY DEF Kinds
            <4> QED BY <1>10, <1>11, <2>2, <3>2, <4>1 DEF OnItsWay, IsDown
        <3>3. CASE \E m \in Mails : /\ mail[m].phase \in {"taken", "sending"}
                                    /\ \E t \in mail[m].tasks : IsDown(t, d)
            BY <1>12, <3>3 DEF OnItsWay, IsDown
        <3> QED BY <2>2, <3>1, <3>2, <3>3 DEF OnItsWay
    <2>3. c \notin Pushed => live'[c].status # "down"
        BY <1>1, <1>2, <1>7, <1>9 DEF IInv, RecoveringUp
    <2> SUFFICES ASSUME NEW d \in Checks \ Pushed,
                        live'[d].status = "down", live'[d].alertActive
                 PROVE  told'[d].down \/ OnItsWay(d)'
        BY DEF AlertAccounted
    <2>4. d # c BY <2>3
    <2> QED BY <1>9, <1>12, <2>2, <2>4 DEF IInv, AlertAccounted
<1>20. FlushedForGood' BY <1>10, <1>12 DEF IInv, FlushedForGood
<1> QED BY <1>13, <1>14, <1>15, <1>16, <1>17, <1>18, <1>19, <1>20 DEF IInv

\* An alert leaves the hands of its run; where it goes is the caller's affair.
LEMMA HandOver ==
    ASSUME IInv, NEW r \in Runs, NEW t, Queues(r, t),
           run' = [run EXCEPT ![r].tasks = @ \ {t}],
           \A c \in Checks : live'[c].status = live[c].status
    PROVE  /\ t \in Task
           /\ run' \in [Runs -> Run]
           /\ RunShape' /\ SingleFlight' /\ RecoveringUp'
           /\ \A q \in Runs : /\ run'[q].awaits = run[q].awaits
                              /\ run'[q].pc = run[q].pc
                              /\ \A x \in run[q].tasks : x = t \/ x \in run'[q].tasks
<1> DEFINE n == [run[r] EXCEPT !.tasks = @ \ {t}]
<1>1. run \in [Runs -> Run] BY DEF IInv, TypeOK
<1>2. run[r].pc = "queue" /\ t \in run[r].tasks BY DEF Queues
<1>3. t \in Task BY <1>1, <1>2 DEF Run
<1>4. /\ n \in Run /\ n.pc = "queue" /\ n.check = run[r].check
      /\ n.awaits = run[r].awaits /\ n.tasks = run[r].tasks \ {t}
    BY <1>1, <1>2 DEF Run
<1>5. run' = [run EXCEPT ![r] = n] BY <1>1
<1> HIDE DEF n
<1>6. \A q \in Runs : run'[q] = IF q = r THEN n ELSE run[q] BY <1>1, <1>5
<1>7. run' \in [Runs -> Run] BY <1>1, <1>4, <1>5
<1>8. RunShape' BY <1>2, <1>4, <1>6 DEF IInv, RunShape
<1>9. SingleFlight' BY <1>4, <1>6 DEF IInv, SingleFlight
<1>10. RecoveringUp'
    <2>1. \A q \in Runs : run[q].pc = "recovering" => run[q].check \in Checks
        BY Busy
    <2> QED BY <1>4, <1>6, <2>1 DEF IInv, RecoveringUp
<1> QED BY <1>2, <1>3, <1>4, <1>6, <1>7, <1>8, <1>9, <1>10

\* An alert joins a window.
LEMMA JoinGroupKeeps ==
    ASSUME IInv, NEW r \in Runs, NEW t, JoinGroup(r, t)
    PROVE  IInv'
<1>1. /\ Queues(r, t) /\ Grouped(t)
      /\ groups' = [groups EXCEPT ![t.kind] = @ \cup {t}]
      /\ run' = [run EXCEPT ![r].tasks = @ \ {t}]
      /\ UNCHANGED <<live, enabled, muted, mail, mailDone, stopping, told>>
    BY DEF JoinGroup
<1>2. /\ t \in Task
      /\ run' \in [Runs -> Run]
      /\ RunShape' /\ SingleFlight' /\ RecoveringUp'
      /\ \A q \in Runs : /\ run'[q].awaits = run[q].awaits
                         /\ run'[q].pc = run[q].pc
                         /\ \A x \in run[q].tasks : x = t \/ x \in run'[q].tasks
    BY <1>1, HandOver
<1>3. groups \in [Kinds -> SUBSET Task] BY DEF IInv, TypeOK
<1>4. t.kind \in Kinds BY <1>2 DEF Task
<1>5. \A k \in Kinds : groups'[k] = IF k = t.kind THEN groups[k] \cup {t} ELSE groups[k]
    BY <1>1, <1>3
<1>6. TypeOK'
    <2>1. groups' \in [Kinds -> SUBSET Task] BY <1>1, <1>2, <1>3, <1>4
    <2> QED BY <1>1, <1>2, <2>1 DEF IInv, TypeOK
<1>7. ActiveIsDown' BY <1>1 DEF IInv, ActiveIsDown
<1>8. NoLostWakeup' BY <1>1, <1>2 DEF IInv, NoLostWakeup
<1>9. AlertAccounted'
    <2>1. "down" \in Kinds BY DEF Kinds
    <2>2. ASSUME NEW c \in Checks, OnItsWay(c) PROVE OnItsWay(c)'
        <3>1. CASE IsDown(t, c)
            <4>1. t \in groups'["down"] BY <1>4, <1>5, <2>1, <3>1 DEF IsDown
            <4> QED BY <3>1, <4>1 DEF OnItsWay, IsDown
        <3>2. CASE ~IsDown(t, c)
            <4>1. groups["down"] \subseteq groups'["down"] BY <1>5, <2>1
            <4> QED BY <1>1, <1>2, <2>2, <3>2, <4>1 DEF OnItsWay, IsDown
        <3> QED BY <3>1, <3>2
    <2> QED BY <1>1, <2>2 DEF IInv, AlertAccounted
<1>10. FlushedForGood' BY <1>1 DEF FlushedForGood, Grouped
<1> QED BY <1>2, <1>6, <1>7, <1>8, <1>9, <1>10 DEF IInv

\* An alert gets a delivery, registered under its check.
LEMMA SendMailKeeps ==
    ASSUME IInv, NEW r \in Runs, NEW t, NEW d \in Mails, SendMail(r, t, d)
    PROVE  IInv'
<1>1. /\ Queues(r, t) /\ mail[d].phase = "free"
      /\ mail' = [mail EXCEPT ![d] = [phase |-> "sending", tasks |-> {t}]]
      /\ mailDone' = [mailDone EXCEPT ![t.check] = d]
      /\ run' = [run EXCEPT ![r].tasks = @ \ {t}]
      /\ UNCHANGED <<live, enabled, muted, groups, stopping, told>>
    BY DEF SendMail
<1>2. /\ t \in Task
      /\ run' \in [Runs -> Run]
      /\ RunShape' /\ SingleFlight' /\ RecoveringUp'
      /\ \A q \in Runs : /\ run'[q].awaits = run[q].awaits
                         /\ run'[q].pc = run[q].pc
                         /\ \A x \in run[q].tasks : x = t \/ x \in run'[q].tasks
    BY <1>1, HandOver
<1>3. mail \in [Mails -> Mail] /\ mailDone \in [Checks -> Mails \cup {Nobody}]
    BY DEF IInv, TypeOK
<1>4. t.check \in Checks BY <1>2 DEF Task
<1>5. \A e \in Mails : mail'[e] = IF e = d THEN [phase |-> "sending", tasks |-> {t}]
                                  ELSE mail[e]
    BY <1>1, <1>3
<1>6. \A c \in Checks : mailDone'[c] = IF c = t.check THEN d ELSE mailDone[c]
    BY <1>1, <1>3
<1>7. TypeOK'
    <2>1. mail' \in [Mails -> Mail] BY <1>1, <1>2, <1>3 DEF Mail
    <2>2. mailDone' \in [Checks -> Mails \cup {Nobody}] BY <1>1, <1>3, <1>4
    <2> QED BY <1>1, <1>2, <2>1, <2>2 DEF IInv, TypeOK
<1>8. ActiveIsDown' BY <1>1 DEF IInv, ActiveIsDown
<1>9. NoLostWakeup'
    <2>1. Nobody \notin Mails BY ChecksAssumption
    <2>2. ASSUME NEW c \in Checks, mailDone'[c] # Nobody
          PROVE  /\ mail'[mailDone'[c]].phase \in {"sending", "told", "failed"}
                 /\ \E x \in mail'[mailDone'[c]].tasks : x.check = c
        <3>1. CASE c = t.check BY <1>5, <1>6, <3>1
        <3>2. CASE c # t.check
            <4>1. mailDone'[c] = mailDone[c] /\ mailDone[c] \in Mails
                BY <1>3, <1>6, <2>2, <3>2
            <4>2. /\ mail[mailDone[c]].phase \in {"sending", "told", "failed"}
                  /\ \E x \in mail[mailDone[c]].tasks : x.check = c
                BY <2>2, <4>1 DEF IInv, NoLostWakeup
            <4> QED BY <1>1, <1>5, <4>1, <4>2
        <3> QED BY <3>1, <3>2
    <2>3. ASSUME NEW q \in Runs
          PROVE  /\ run'[q].awaits \in Mails =>
                      mail'[run'[q].awaits].phase \in {"sending", "told", "failed"}
                 /\ run'[q].awaits \in Runs => run'[run'[q].awaits].pc # "idle"
        BY <1>2, <1>5 DEF IInv, NoLostWakeup
    <2> QED BY <2>2, <2>3 DEF NoLostWakeup
<1>10. AlertAccounted'
    <2>1. ASSUME NEW c \in Checks, OnItsWay(c) PROVE OnItsWay(c)'
        <3>1. CASE IsDown(t, c)
            <4>1. mail'[d].phase = "sending" /\ t \in mail'[d].tasks BY <1>5
            <4> QED BY <3>1, <4>1 DEF OnItsWay, IsDown
        <3>2. CASE ~IsDown(t, c)
            BY <1>1, <1>2, <1>5, <2>1, <3>2 DEF OnItsWay, IsDown
        <3> QED BY <3>1, <3>2
    <2> QED BY <1>1, <2>1 DEF IInv, AlertAccounted
<1>11. FlushedForGood' BY <1>1 DEF IInv, FlushedForGood
<1> QED BY <1>2, <1>7, <1>8, <1>9, <1>10, <1>11 DEF IInv

\* An alert has nobody to go to.
LEMMA NoRecipientsKeeps ==
    ASSUME IInv, NEW r \in Runs, NEW t, NoRecipients(r, t)
    PROVE  IInv'
<1>1. /\ Queues(r, t)
      /\ live' = Rearmed({t})
      /\ run' = [run EXCEPT ![r].tasks = @ \ {t}]
      /\ UNCHANGED <<enabled, muted, mail, mailDone, groups, stopping, told>>
    BY DEF NoRecipients
<1>2. run \in [Runs -> Run] /\ TypeOK BY DEF IInv, TypeOK
<1>3. t \in Task BY <1>1, <1>2 DEF Queues, Run
<1>4. /\ live' \in [Checks -> CheckState]
      /\ \A c \in Checks :
            /\ live'[c].status = live[c].status
            /\ live'[c].alertActive => live[c].alertActive
            /\ (\E x \in {t} : IsDown(x, c)) /\ live[c].status = "down"
                  => ~live'[c].alertActive
    BY <1>1, <1>2, <1>3, RearmedType
<1>5. /\ run' \in [Runs -> Run]
      /\ RunShape' /\ SingleFlight' /\ RecoveringUp'
      /\ \A q \in Runs : /\ run'[q].awaits = run[q].awaits
                         /\ run'[q].pc = run[q].pc
                         /\ \A x \in run[q].tasks : x = t \/ x \in run'[q].tasks
    <2>1. \A c \in Checks : live'[c].status = live[c].status BY <1>4
    <2> QED BY <1>1, <2>1, HandOver
<1>6. TypeOK' BY <1>1, <1>4, <1>5 DEF IInv, TypeOK
<1>7. ActiveIsDown' BY <1>1, <1>4 DEF IInv, ActiveIsDown
<1>8. NoLostWakeup' BY <1>1, <1>5 DEF IInv, NoLostWakeup
<1>9. AlertAccounted'
    <2> SUFFICES ASSUME NEW c \in Checks \ Pushed,
                        live'[c].status = "down", live'[c].alertActive
                 PROVE  told'[c].down \/ OnItsWay(c)'
        BY DEF AlertAccounted
    <2>1. ~IsDown(t, c) BY <1>4
    <2>2. told[c].down \/ OnItsWay(c) BY <1>4 DEF IInv, AlertAccounted
    <2>3. OnItsWay(c) => OnItsWay(c)'
        BY <1>1, <1>5, <2>1 DEF OnItsWay, IsDown
    <2> QED BY <1>1, <2>2, <2>3
<1>10. FlushedForGood' BY <1>1 DEF IInv, FlushedForGood
<1> QED BY <1>5, <1>6, <1>7, <1>8, <1>9, <1>10 DEF IInv

-----------------------------------------------------------------------------
(* Windows and deliveries.                                                 *)

\* What the steps of the deliveries leave alone.
LEMMA RunsUntouched ==
    ASSUME IInv, run' = run,
           \A c \in Checks : live'[c].status = live[c].status
    PROVE  RunShape' /\ SingleFlight' /\ RecoveringUp'
<1>1. RunShape' BY DEF IInv, RunShape
<1>2. SingleFlight' BY DEF IInv, SingleFlight
<1>3. \A q \in Runs : run[q].pc = "recovering" => run[q].check \in Checks BY Busy
<1>4. RecoveringUp' BY <1>3 DEF IInv, RecoveringUp
<1> QED BY <1>1, <1>2, <1>4

\* A window closes: its alerts are in a delivery's hands.
LEMMA CloseGroupKeeps ==
    ASSUME IInv, NEW k \in Kinds, NEW d \in Mails, CloseGroup(k, d)
    PROVE  IInv'
<1>1. /\ mail[d].phase = "free"
      /\ mail' = [mail EXCEPT ![d] = [phase |-> "taken", tasks |-> groups[k]]]
      /\ groups' = [groups EXCEPT ![k] = {}]
      /\ UNCHANGED <<live, enabled, muted, run, mailDone, stopping, told>>
    BY DEF CloseGroup, FreeMails
<1>2. mail \in [Mails -> Mail] /\ groups \in [Kinds -> SUBSET Task]
    BY DEF IInv, TypeOK
<1>3. \A e \in Mails : mail'[e] = IF e = d THEN [phase |-> "taken", tasks |-> groups[k]]
                                  ELSE mail[e]
    BY <1>1, <1>2
<1>4. \A j \in Kinds : groups'[j] = IF j = k THEN {} ELSE groups[j] BY <1>1, <1>2
<1>5. TypeOK'
    <2>1. mail' \in [Mails -> Mail] BY <1>1, <1>2 DEF Mail
    <2>2. groups' \in [Kinds -> SUBSET Task] BY <1>1, <1>2
    <2> QED BY <1>1, <2>1, <2>2 DEF IInv, TypeOK
<1>6. RunShape' /\ SingleFlight' /\ RecoveringUp' BY <1>1, RunsUntouched
<1>7. ActiveIsDown' BY <1>1 DEF IInv, ActiveIsDown
<1>8. NoLostWakeup'
    <2>1. \A e \in Mails : mail[e].phase \in {"sending", "told", "failed"} =>
                             mail'[e] = mail[e]
        BY <1>1, <1>3
    <2>2. \A c \in Checks : mailDone[c] \in Mails \cup {Nobody} BY DEF IInv, TypeOK
    <2> QED BY <1>1, <2>1, <2>2 DEF IInv, NoLostWakeup
<1>9. AlertAccounted'
    <2>1. "down" \in Kinds BY DEF Kinds
    <2>2. ASSUME NEW c \in Checks, OnItsWay(c) PROVE OnItsWay(c)'
        <3>1. CASE \E q \in Runs : \E t \in run[q].tasks : IsDown(t, c)
            BY <1>1, <3>1 DEF OnItsWay, IsDown
        <3>2. CASE \E t \in groups["down"] : IsDown(t, c)
            <4>1. CASE k = "down"
                <5>1. mail'[d].phase = "taken" /\ mail'[d].tasks = groups["down"]
                    BY <1>3, <4>1
                <5> QED BY <3>2, <5>1 DEF OnItsWay, IsDown
            <4>2. CASE k # "down"
                <5>1. groups'["down"] = groups["down"] BY <1>4, <2>1, <4>2
                <5> QED BY <3>2, <5>1 DEF OnItsWay, IsDown
            <4> QED BY <4>1, <4>2
        <3>3. CASE \E m \in Mails : /\ mail[m].phase \in {"taken", "sending"}
                                    /\ \E t \in mail[m].tasks : IsDown(t, c)
            <4>1. PICK m \in Mails : /\ mail[m].phase \in {"taken", "sending"}
                                     /\ \E t \in mail[m].tasks : IsDown(t, c)
                BY <3>3
            <4>2. mail'[m] = mail[m] BY <1>1, <1>3, <4>1
            <4> QED BY <4>1, <4>2 DEF OnItsWay, IsDown
        <3> QED BY <2>2, <3>1, <3>2, <3>3 DEF OnItsWay
    <2> QED BY <1>1, <2>2 DEF IInv, AlertAccounted
<1>10. FlushedForGood' BY <1>1, <1>4 DEF IInv, FlushedForGood
<1> QED BY <1>5, <1>6, <1>7, <1>8, <1>9, <1>10 DEF IInv

\* A delivery is registered under the checks of its alerts.
LEMMA RegisterKeeps ==
    ASSUME IInv, NEW d \in Mails, Register(d)
    PROVE  IInv'
<1>1. /\ mail[d].phase = "taken"
      /\ mail' = [mail EXCEPT ![d].phase = "sending"]
      /\ mailDone' = [c \in Checks |-> IF \E t \in mail[d].tasks : t.check = c
                                       THEN d ELSE mailDone[c]]
      /\ UNCHANGED <<live, enabled, muted, run, groups, stopping, told>>
    BY DEF Register
<1>2. mail \in [Mails -> Mail] /\ mailDone \in [Checks -> Mails \cup {Nobody}]
    BY DEF IInv, TypeOK
<1>3. \A e \in Mails : /\ mail'[e].tasks = mail[e].tasks
                       /\ mail'[e].phase = IF e = d THEN "sending" ELSE mail[e].phase
    BY <1>1, <1>2 DEF Mail
<1>4. TypeOK'
    <2>1. mail' \in [Mails -> Mail] BY <1>1, <1>2 DEF Mail
    <2>2. mailDone' \in [Checks -> Mails \cup {Nobody}] BY <1>1, <1>2
    <2> QED BY <1>1, <2>1, <2>2 DEF IInv, TypeOK
<1>5. RunShape' /\ SingleFlight' /\ RecoveringUp' BY <1>1, RunsUntouched
<1>6. ActiveIsDown' BY <1>1 DEF IInv, ActiveIsDown
<1>7. NoLostWakeup'
    <2>1. Nobody \notin Mails BY ChecksAssumption
    <2>2. ASSUME NEW c \in Checks, mailDone'[c] # Nobody
          PROVE  /\ mail'[mailDone'[c]].phase \in {"sending", "told", "failed"}
                 /\ \E t \in mail'[mailDone'[c]].tasks : t.check = c
        <3>1. CASE \E t \in mail[d].tasks : t.check = c
            BY <1>1, <1>3, <3>1
        <3>2. CASE ~\E t \in mail[d].tasks : t.check = c
            <4>1. mailDone'[c] = mailDone[c] /\ mailDone[c] \in Mails
                BY <1>1, <1>2, <2>2, <3>2
            <4> QED BY <1>3, <2>2, <4>1 DEF IInv, NoLostWakeup
        <3> QED BY <3>1, <3>2
    <2>3. ASSUME NEW q \in Runs
          PROVE  /\ run'[q].awaits \in Mails =>
                      mail'[run'[q].awaits].phase \in {"sending", "told", "failed"}
                 /\ run'[q].awaits \in Runs => run'[run'[q].awaits].pc # "idle"
        BY <1>1, <1>3 DEF IInv, NoLostWakeup
    <2> QED BY <2>2, <2>3 DEF NoLostWakeup
<1>8. AlertAccounted'
    <2>1. ASSUME NEW c \in Checks, OnItsWay(c) PROVE OnItsWay(c)'
        BY <1>1, <1>3, <2>1 DEF OnItsWay, IsDown
    <2> QED BY <1>1, <2>1 DEF IInv, AlertAccounted
<1>9. FlushedForGood' BY <1>1 DEF IInv, FlushedForGood
<1> QED BY <1>4, <1>5, <1>6, <1>7, <1>8, <1>9 DEF IInv

\* What was delivered is told, and what was not is re-armed.
LEMMA DeliverKeeps ==
    ASSUME IInv, NEW d \in Mails, NEW S, Deliver(d, S)
    PROVE  IInv'
<1>1. /\ mail[d].phase = "sending"
      /\ S \subseteq mail[d].tasks
      /\ mail' = [mail EXCEPT ![d].phase = "told"]
      /\ live' = Rearmed(mail[d].tasks \ S)
      /\ told' = [c \in Checks |->
                    IF \E t \in S : IsDown(t, c) THEN [down |-> TRUE, last |-> "down"]
                    ELSE IF \E t \in S : t.check = c /\ t.kind = "recovered"
                    THEN [told[c] EXCEPT !.last = "recovered"]
                    ELSE told[c]]
      /\ UNCHANGED <<enabled, muted, run, mailDone, groups, stopping>>
    BY DEF Deliver
<1>2. mail \in [Mails -> Mail] /\ told \in [Checks -> Told] /\ TypeOK
    BY DEF IInv, TypeOK
<1>3. \A e \in Mails : /\ mail'[e].tasks = mail[e].tasks
                       /\ mail'[e].phase = IF e = d THEN "told" ELSE mail[e].phase
    BY <1>1, <1>2 DEF Mail
<1>4. \A c \in Checks : /\ told'[c] \in Told
                        /\ told[c].down => told'[c].down
                        /\ (\E t \in S : IsDown(t, c)) => told'[c].down
    <2> TAKE c \in Checks
    <2>1. told[c] \in Told BY <1>2
    <2>2. /\ [told[c] EXCEPT !.last = "recovered"] \in Told
          /\ [told[c] EXCEPT !.last = "recovered"].down = told[c].down
          /\ [down |-> TRUE, last |-> "down"] \in Told
        BY <2>1 DEF Told
    <2> QED BY <1>1, <2>1, <2>2
<1>5. mail[d].tasks \ S \in SUBSET Task BY <1>2 DEF Mail
<1>6. /\ live' \in [Checks -> CheckState]
      /\ \A c \in Checks :
            /\ live'[c].status = live[c].status
            /\ live'[c].alertActive => live[c].alertActive
            /\ (\E t \in mail[d].tasks \ S : IsDown(t, c)) /\ live[c].status = "down"
                  => ~live'[c].alertActive
    BY <1>1, <1>2, <1>5, RearmedType
<1>7. TypeOK'
    <2>1. mail' \in [Mails -> Mail] BY <1>1, <1>2 DEF Mail
    <2>2. told' \in [Checks -> Told] BY <1>1, <1>4
    <2> QED BY <1>1, <1>6, <2>1, <2>2 DEF IInv, TypeOK
<1>8. RunShape' /\ SingleFlight' /\ RecoveringUp'
    <2>1. \A c \in Checks : live'[c].status = live[c].status BY <1>6
    <2> QED BY <1>1, <2>1, RunsUntouched
<1>9. ActiveIsDown' BY <1>1, <1>6 DEF IInv, ActiveIsDown
<1>10. NoLostWakeup'
    <2>1. \A c \in Checks : mailDone[c] \in Mails \cup {Nobody} BY DEF IInv, TypeOK
    <2> QED BY <1>1, <1>3, <2>1 DEF IInv, NoLostWakeup
<1>11. AlertAccounted'
    <2> SUFFICES ASSUME NEW c \in Checks \ Pushed,
                        live'[c].status = "down", live'[c].alertActive
                 PROVE  told'[c].down \/ OnItsWay(c)'
        BY DEF AlertAccounted
    <2>1. ~\E t \in mail[d].tasks \ S : IsDown(t, c) BY <1>6
    <2>2. told[c].down \/ OnItsWay(c) BY <1>6 DEF IInv, AlertAccounted
    <2>3. CASE \E t \in S : IsDown(t, c) BY <1>4, <2>3
    <2>4. CASE ~\E t \in S : IsDown(t, c)
        <3>1. ~\E t \in mail[d].tasks : IsDown(t, c) BY <1>1, <2>1, <2>4
        <3>2. OnItsWay(c) => OnItsWay(c)'
            BY <1>1, <1>3, <3>1 DEF OnItsWay, IsDown
        <3> QED BY <1>4, <2>2, <3>2
    <2> QED BY <2>3, <2>4
<1>12. FlushedForGood' BY <1>1 DEF IInv, FlushedForGood
<1> QED BY <1>7, <1>8, <1>9, <1>10, <1>11, <1>12 DEF IInv

\* A delivery that failed re-arms the alerts of those still down.
LEMMA FailedMailKeeps ==
    ASSUME IInv, NEW d \in Mails, FailedMail(d)
    PROVE  IInv'
<1>1. /\ mail[d].phase \in {"sending", "taken"}
      /\ mail' = [mail EXCEPT ![d].phase = "failed"]
      /\ live' = Rearmed(mail[d].tasks)
      /\ UNCHANGED <<enabled, muted, run, mailDone, groups, stopping, told>>
    BY DEF FailedMail
<1>2. mail \in [Mails -> Mail] /\ TypeOK BY DEF IInv, TypeOK
<1>3. mail[d].tasks \in SUBSET Task BY <1>2 DEF Mail
<1>4. /\ live' \in [Checks -> CheckState]
      /\ \A c \in Checks :
            /\ live'[c].status = live[c].status
            /\ live'[c].alertActive => live[c].alertActive
            /\ (\E t \in mail[d].tasks : IsDown(t, c)) /\ live[c].status = "down"
                  => ~live'[c].alertActive
    BY <1>1, <1>2, <1>3, RearmedType
<1>5. \A e \in Mails : /\ mail'[e].tasks = mail[e].tasks
                       /\ mail'[e].phase = IF e = d THEN "failed" ELSE mail[e].phase
    BY <1>1, <1>2 DEF Mail
<1>6. TypeOK'
    <2>1. mail' \in [Mails -> Mail] BY <1>1, <1>2 DEF Mail
    <2> QED BY <1>1, <1>4, <2>1 DEF IInv, TypeOK
<1>7. RunShape' /\ SingleFlight' /\ RecoveringUp'
    <2>1. \A c \in Checks : live'[c].status = live[c].status BY <1>4
    <2> QED BY <1>1, <2>1, RunsUntouched
<1>8. ActiveIsDown' BY <1>1, <1>4 DEF IInv, ActiveIsDown
<1>9. NoLostWakeup'
    <2>1. \A c \in Checks : mailDone[c] \in Mails \cup {Nobody} BY DEF IInv, TypeOK
    <2> QED BY <1>1, <1>5, <2>1 DEF IInv, NoLostWakeup
<1>10. AlertAccounted'
    <2> SUFFICES ASSUME NEW c \in Checks \ Pushed,
                        live'[c].status = "down", live'[c].alertActive
                 PROVE  told'[c].down \/ OnItsWay(c)'
        BY DEF AlertAccounted
    <2>1. ~\E t \in mail[d].tasks : IsDown(t, c) BY <1>4
    <2>2. told[c].down \/ OnItsWay(c) BY <1>4 DEF IInv, AlertAccounted
    <2>3. OnItsWay(c) => OnItsWay(c)'
        BY <1>1, <1>5, <2>1 DEF OnItsWay, IsDown
    <2> QED BY <1>1, <2>2, <2>3
<1>11. FlushedForGood' BY <1>1 DEF IInv, FlushedForGood
<1> QED BY <1>6, <1>7, <1>8, <1>9, <1>10, <1>11 DEF IInv

\* Releasing a delivery wakes whoever waits for it, and forgets it wherever it
\* is still the newest.
LEMMA ReleaseMailKeeps ==
    ASSUME IInv, NEW d \in Mails, ReleaseMail(d)
    PROVE  IInv'
<1>1. /\ mail[d].phase \in {"told", "failed"}
      /\ mail' = [mail EXCEPT ![d] = FreeMail]
      /\ mailDone' = [c \in Checks |-> IF mailDone[c] = d THEN Nobody ELSE mailDone[c]]
      /\ run' = Woken(run, d)
      /\ UNCHANGED <<live, enabled, muted, groups, stopping, told>>
    BY DEF ReleaseMail
<1>2. /\ mail \in [Mails -> Mail] /\ run \in [Runs -> Run]
      /\ mailDone \in [Checks -> Mails \cup {Nobody}]
    BY DEF IInv, TypeOK
<1>3. Nobody \notin Checks \cup Runs \cup Mails BY ChecksAssumption
<1>4. /\ run' \in [Runs -> Run]
      /\ \A q \in Runs : /\ run'[q].pc = run[q].pc
                         /\ run'[q].check = run[q].check
                         /\ run'[q].tasks = run[q].tasks
                         /\ run'[q].depth = run[q].depth
                         /\ run'[q].awaits # d
                         /\ run'[q].awaits \in {run[q].awaits, Nobody}
    <2>1. d # Nobody BY <1>3
    <2> QED BY <1>1, <1>2, <2>1, WokenType
<1>5. \A e \in Mails : mail'[e] = IF e = d THEN FreeMail ELSE mail[e] BY <1>1, <1>2
<1>6. TypeOK'
    <2>1. mail' \in [Mails -> Mail] BY <1>1, <1>2, FreshTypes
    <2>2. mailDone' \in [Checks -> Mails \cup {Nobody}] BY <1>1, <1>2
    <2> QED BY <1>1, <1>4, <2>1, <2>2 DEF IInv, TypeOK
<1>7. RunShape' BY <1>4 DEF IInv, RunShape
<1>8. SingleFlight' BY <1>4 DEF IInv, SingleFlight
<1>9. RecoveringUp' BY <1>1, <1>4 DEF IInv, RecoveringUp
<1>10. ActiveIsDown' BY <1>1 DEF IInv, ActiveIsDown
<1>11. NoLostWakeup'
    <2>1. ASSUME NEW c \in Checks, mailDone'[c] # Nobody
          PROVE  /\ mail'[mailDone'[c]].phase \in {"sending", "told", "failed"}
                 /\ \E t \in mail'[mailDone'[c]].tasks : t.check = c
        <3>1. mailDone'[c] = mailDone[c] /\ mailDone[c] \in Mails /\ mailDone[c] # d
            BY <1>1, <1>2, <2>1
        <3> QED BY <1>5, <2>1, <3>1 DEF IInv, NoLostWakeup
    <2>2. ASSUME NEW q \in Runs
          PROVE  /\ run'[q].awaits \in Mails =>
                      mail'[run'[q].awaits].phase \in {"sending", "told", "failed"}
                 /\ run'[q].awaits \in Runs => run'[run'[q].awaits].pc # "idle"
        BY <1>3, <1>4, <1>5 DEF IInv, NoLostWakeup
    <2> QED BY <2>1, <2>2 DEF NoLostWakeup
<1>12. AlertAccounted'
    <2>1. ASSUME NEW c \in Checks, OnItsWay(c) PROVE OnItsWay(c)'
        BY <1>1, <1>4, <1>5, <2>1 DEF OnItsWay, IsDown
    <2> QED BY <1>1, <2>1 DEF IInv, AlertAccounted
<1>13. FlushedForGood' BY <1>1 DEF IInv, FlushedForGood
<1> QED BY <1>6, <1>7, <1>8, <1>9, <1>10, <1>11, <1>12, <1>13 DEF IInv

\* Flushing hands every open window to a delivery of its own.
LEMMA FlushGroupsKeeps ==
    ASSUME IInv, FlushGroups
    PROVE  IInv'
<1> DEFINE open == {k \in Kinds : groups[k] # {}}
           content(f, d) == UNION {groups[k] : k \in {j \in open : f[j] = d}}
<1>1. /\ stopping' = "flushed"
      /\ groups' = [k \in Kinds |-> {}]
      /\ UNCHANGED <<live, enabled, muted, run, mailDone, told>>
    BY DEF FlushGroups
<1>2. PICK f \in [open -> FreeMails] :
        mail' = [d \in Mails |->
                   IF \E k \in open : f[k] = d
                   THEN [phase |-> "taken", tasks |-> content(f, d)]
                   ELSE mail[d]]
    BY DEF FlushGroups
<1>3. mail \in [Mails -> Mail] /\ groups \in [Kinds -> SUBSET Task]
    BY DEF IInv, TypeOK
<1>4. \A d \in Mails : content(f, d) \subseteq Task BY <1>3
<1>5. \A k \in open : f[k] \in Mails /\ mail[f[k]].phase = "free"
    BY <1>2 DEF FreeMails
<1>6. \A d \in Mails : mail[d].phase # "free" => mail'[d] = mail[d]
    BY <1>2, <1>5
<1>7. \A k \in open : /\ mail'[f[k]].phase = "taken"
                      /\ groups[k] \subseteq mail'[f[k]].tasks
    BY <1>2, <1>5
<1>8. TypeOK'
    <2>1. mail' \in [Mails -> Mail]
        <3> SUFFICES ASSUME NEW d \in Mails PROVE mail'[d] \in Mail BY <1>2
        <3>1. [phase |-> "taken", tasks |-> content(f, d)] \in Mail
            <4> HIDE DEF content
            <4> QED BY <1>4 DEF Mail
        <3> HIDE DEF content
        <3> QED BY <1>2, <1>3, <3>1
    <2>2. groups' \in [Kinds -> SUBSET Task] BY <1>1
    <2> QED BY <1>1, <2>1, <2>2 DEF IInv, TypeOK
<1> HIDE DEF content
<1>9. RunShape' /\ SingleFlight' /\ RecoveringUp' BY <1>1, RunsUntouched
<1>10. ActiveIsDown' BY <1>1 DEF IInv, ActiveIsDown
<1>11. NoLostWakeup'
    <2>1. \A d \in Mails : mail[d].phase \in {"sending", "told", "failed"} =>
                             mail'[d] = mail[d]
        BY <1>6
    <2>2. \A c \in Checks : mailDone[c] \in Mails \cup {Nobody} BY DEF IInv, TypeOK
    <2> QED BY <1>1, <2>1, <2>2 DEF IInv, NoLostWakeup
<1>12. AlertAccounted'
    <2>1. ASSUME NEW c \in Checks, OnItsWay(c) PROVE OnItsWay(c)'
        <3>1. CASE \E q \in Runs : \E t \in run[q].tasks : IsDown(t, c)
            BY <1>1, <3>1 DEF OnItsWay, IsDown
        <3>2. CASE \E t \in groups["down"] : IsDown(t, c)
            <4>1. "down" \in open BY <3>2 DEF Kinds
            <4> HIDE DEF open
            <4>2. PICK t \in groups["down"] : IsDown(t, c) BY <3>2
            <4>3. PICK d \in Mails : mail'[d].phase = "taken" /\ t \in mail'[d].tasks
                BY <1>5, <1>7, <4>1
            <4> QED BY <4>2, <4>3 DEF OnItsWay, IsDown
        <3>3. CASE \E m \in Mails : /\ mail[m].phase \in {"taken", "sending"}
                                    /\ \E t \in mail[m].tasks : IsDown(t, c)
            <4>1. PICK m \in Mails : /\ mail[m].phase \in {"taken", "sending"}
                                     /\ \E t \in mail[m].tasks : IsDown(t, c)
                BY <3>3
            <4>2. mail'[m] = mail[m] BY <1>6, <4>1
            <4> QED BY <4>1, <4>2 DEF OnItsWay, IsDown
        <3> QED BY <2>1, <3>1, <3>2, <3>3 DEF OnItsWay
    <2> QED BY <1>1, <2>1 DEF IInv, AlertAccounted
<1>13. FlushedForGood' BY <1>1 DEF FlushedForGood
<1> QED BY <1>8, <1>9, <1>10, <1>11, <1>12, <1>13 DEF IInv

-----------------------------------------------------------------------------
(* The operator, the clock, and Stop.                                      *)

\* Switching a check off or on, or letting its cooldown run out, takes no
\* check into an outage and activates no alert.
LEMMA StateKeeps ==
    ASSUME IInv, NEW c \in Checks, NEW s \in CheckState,
           live' = [live EXCEPT ![c] = s],
           s.status = "down" => live[c].status = "down",
           s.alertActive => live[c].alertActive /\ s.status = "down",
           enabled' \in [Checks -> BOOLEAN],
           \A d \in Checks : ~enabled'[d] /\ d # c => ~enabled[d],
           ~enabled'[c] => s.status # "down",
           UNCHANGED <<muted, run, mail, mailDone, groups, stopping, told>>
    PROVE  IInv'
<1>1. live \in [Checks -> CheckState] BY DEF IInv, TypeOK
<1>2. \A d \in Checks : live'[d] = IF d = c THEN s ELSE live[d] BY <1>1
<1>3. TypeOK'
    <2>1. live' \in [Checks -> CheckState] BY <1>1
    <2> QED BY <2>1 DEF IInv, TypeOK
<1>4. RunShape' BY DEF IInv, RunShape
<1>5. SingleFlight' BY DEF IInv, SingleFlight
<1>6. RecoveringUp'
    <2>1. \A q \in Runs : run[q].pc = "recovering" => run[q].check \in Checks
        BY Busy
    <2> QED BY <1>2, <2>1 DEF IInv, RecoveringUp
<1>7. ActiveIsDown' BY <1>2 DEF IInv, ActiveIsDown
<1>8. NoLostWakeup' BY DEF IInv, NoLostWakeup
<1>9. AlertAccounted'
    <2>1. ASSUME NEW d \in Checks, OnItsWay(d) PROVE OnItsWay(d)'
        BY <2>1 DEF OnItsWay, IsDown
    <2> QED BY <1>2, <2>1 DEF IInv, AlertAccounted
<1>10. FlushedForGood' BY DEF IInv, FlushedForGood
<1> QED BY <1>3, <1>4, <1>5, <1>6, <1>7, <1>8, <1>9, <1>10 DEF IInv

\* What users and time change about a check.
LEMMA OperatorKeeps ==
    ASSUME IInv, NEW c \in Checks,
           Disable(c) \/ Enable(c) \/ Mute(c) \/ CooldownElapses(c)
    PROVE  IInv'
<1>1. live \in [Checks -> CheckState] /\ enabled \in [Checks -> BOOLEAN]
    BY DEF IInv, TypeOK
<1>2. live[c].alertActive => live[c].status = "down" BY DEF IInv, ActiveIsDown
<1>3. CASE Disable(c)
    <2> DEFINE s == [live[c] EXCEPT !.status = "paused", !.failures = 0,
                                    !.alertActive = FALSE]
    <2>1. 0 \in 0..Threshold BY ChecksAssumption
    <2>2. s \in CheckState /\ s.status = "paused" /\ s.alertActive = FALSE
        BY <1>1, <2>1 DEF CheckState, Statuses
    <2>3. /\ live' = [live EXCEPT ![c] = s]
          /\ enabled' = [enabled EXCEPT ![c] = FALSE]
          /\ UNCHANGED <<muted, run, mail, mailDone, groups, stopping, told>>
        BY <1>3 DEF Disable
    <2> HIDE DEF s
    <2> QED BY <1>1, <2>2, <2>3, StateKeeps
<1>4. CASE Enable(c)
    <2> DEFINE s == [live[c] EXCEPT !.status = "unknown"]
    <2>1. /\ s \in CheckState /\ s.status = "unknown"
          /\ s.alertActive = live[c].alertActive
        BY <1>1 DEF CheckState, Statuses
    <2>2. /\ live' = [live EXCEPT ![c] = s]
          /\ enabled' = [enabled EXCEPT ![c] = TRUE]
          /\ ~enabled[c]
          /\ UNCHANGED <<muted, run, mail, mailDone, groups, stopping, told>>
        BY <1>1, <1>4 DEF Enable
    <2>3. ~live[c].alertActive BY <1>2, <2>2 DEF IInv, ActiveIsDown
    <2> HIDE DEF s
    <2> QED BY <1>1, <2>1, <2>2, <2>3, StateKeeps
<1>5. CASE CooldownElapses(c)
    <2> DEFINE s == [live[c] EXCEPT !.cooling = FALSE]
    <2>1. /\ s \in CheckState /\ s.status = live[c].status
          /\ s.alertActive = live[c].alertActive
        BY <1>1 DEF CheckState
    <2>2. /\ live' = [live EXCEPT ![c] = s]
          /\ UNCHANGED <<enabled, muted, run, mail, mailDone, groups, stopping, told>>
        BY <1>1, <1>5 DEF CooldownElapses
    <2>3. ~enabled[c] => s.status # "down" BY <2>1 DEF IInv, ActiveIsDown
    <2> HIDE DEF s
    <2> QED BY <1>1, <1>2, <2>1, <2>2, <2>3, StateKeeps
<1>6. CASE Mute(c)
    <2>1. UNCHANGED <<live, enabled, run, mail, mailDone, groups, stopping, told>>
        BY <1>6 DEF Mute
    <2>2. muted' \in [Checks -> BOOLEAN]
        <3>1. muted \in [Checks -> BOOLEAN] BY DEF IInv, TypeOK
        <3> DEFINE m == ~muted[c]
        <3>2. m \in BOOLEAN OBVIOUS
        <3>3. muted' = [muted EXCEPT ![c] = m] BY <1>6 DEF Mute
        <3> HIDE DEF m
        <3> QED BY <3>1, <3>2, <3>3
    <2>3. TypeOK' BY <2>1, <2>2 DEF IInv, TypeOK
    <2>4. RunShape' /\ SingleFlight' /\ RecoveringUp' BY <2>1, RunsUntouched
    <2>5. ActiveIsDown' /\ NoLostWakeup' /\ FlushedForGood'
        BY <2>1 DEF IInv, ActiveIsDown, NoLostWakeup, FlushedForGood
    <2>6. AlertAccounted'
        <3>1. ASSUME NEW d \in Checks, OnItsWay(d) PROVE OnItsWay(d)'
            BY <2>1, <3>1 DEF OnItsWay, IsDown
        <3> QED BY <2>1, <3>1 DEF IInv, AlertAccounted
    <2> QED BY <2>3, <2>4, <2>5, <2>6 DEF IInv
<1> QED BY <1>3, <1>4, <1>5, <1>6

\* The service begins to stop.
LEMMA StopKeeps ==
    ASSUME IInv, Stop
    PROVE  IInv'
<1>1. /\ stopping' = "stopping"
      /\ UNCHANGED <<live, enabled, muted, run, mail, mailDone, groups, told>>
    BY DEF Stop
<1>2. TypeOK' BY <1>1 DEF IInv, TypeOK
<1>3. RunShape' /\ SingleFlight' /\ RecoveringUp' BY <1>1, RunsUntouched
<1>4. ActiveIsDown' /\ NoLostWakeup' /\ FlushedForGood'
    BY <1>1 DEF IInv, ActiveIsDown, NoLostWakeup, FlushedForGood
<1>5. AlertAccounted'
    <2>1. ASSUME NEW d \in Checks, OnItsWay(d) PROVE OnItsWay(d)'
        BY <1>1, <2>1 DEF OnItsWay, IsDown
    <2> QED BY <1>1, <2>1 DEF IInv, AlertAccounted
<1> QED BY <1>2, <1>3, <1>4, <1>5 DEF IInv

-----------------------------------------------------------------------------
(* The theorems.                                                           *)

\* The invariant holds at first.
LEMMA InitInv == Init => IInv
<1> SUFFICES ASSUME Init PROVE IInv OBVIOUS
<1>1. TypeOK
    <2>1. \A c \in Checks : [down |-> FALSE, last |-> "none"] \in Told BY DEF Told
    <2> QED BY <2>1, FreshTypes DEF Init, TypeOK
<1>2. RunShape /\ SingleFlight /\ RecoveringUp
    BY ChecksAssumption DEF Init, IdleRun, RunShape, SingleFlight, RecoveringUp
<1>3. ActiveIsDown BY DEF Init, FreshState, ActiveIsDown
<1>4. NoLostWakeup BY ChecksAssumption DEF Init, IdleRun, NoLostWakeup
<1>5. AlertAccounted BY DEF Init, FreshState, AlertAccounted
<1>6. FlushedForGood BY DEF Init, FlushedForGood
<1> QED BY <1>1, <1>2, <1>3, <1>4, <1>5, <1>6 DEF IInv

\* The steps of a run put together.
LEMMA RunStepKeeps ==
    ASSUME IInv, NEW r \in Runs, RunStep(r)
    PROVE  IInv'
<1>1. CASE AwaitMail(r) BY <1>1, AwaitMailKeeps
<1>2. CASE Record(r) \/ ProbeRecord(r) BY <1>2, RecordsKeep
<1>3. CASE Unrecorded(r) \/ ProbeUnrecorded(r) \/ Finish(r) BY <1>3, EndingsKeep
<1>4. CASE Probe(r) BY <1>4, ProbeKeeps
<1>5. CASE ProbeNothing(r) BY <1>5, ProbeNothingKeeps
<1>6. CASE \E q \in Runs : ProbeJoins(r, q) \/ ProbeRuns(r, q)
    BY <1>6, ProbeJoinsKeeps, ProbeRunsKeeps
<1>7. CASE ProbeAgain(r) BY <1>7, ProbeAgainKeeps
<1>8. CASE DropPendingDown(r) BY <1>8, DropPendingDownKeeps
<1>9. CASE NothingPending(r) BY <1>9, NothingPendingKeeps
<1>10. CASE AwaitDown(r) BY <1>10, AwaitDownKeeps
<1>11. CASE \E t \in run[r].tasks :
              \/ JoinGroup(r, t) \/ NoRecipients(r, t)
              \/ \E d \in Mails : SendMail(r, t, d)
    BY <1>11, JoinGroupKeeps, NoRecipientsKeeps, SendMailKeeps
<1> QED
    BY <1>1, <1>2, <1>3, <1>4, <1>5, <1>6, <1>7, <1>8, <1>9, <1>10, <1>11
    DEF RunStep

\* Every step keeps the invariant.
LEMMA NextInv == IInv /\ [Next]_vars => IInv'
<1> SUFFICES ASSUME IInv, [Next]_vars PROVE IInv' OBVIOUS
<1>1. ASSUME NEW r \in Runs, NEW c \in Checks, Start(r, c) PROVE IInv'
    BY <1>1, StartKeeps
<1>2. ASSUME NEW r \in Runs, RunStep(r) PROVE IInv' BY <1>2, RunStepKeeps
<1>3. ASSUME NEW r \in Runs, GiveUp(r) PROVE IInv' BY <1>3, EndingsKeep
<1>4. ASSUME NEW r \in Runs, ProbeTimeout(r) \/ WorkCancelled(r) PROVE IInv'
    BY <1>4, ProbeTimeoutKeeps, WorkCancelledKeeps
<1>5. ASSUME NEW d \in Mails, MailStep(d) PROVE IInv'
    BY <1>5, RegisterKeeps, DeliverKeeps, FailedMailKeeps, ReleaseMailKeeps DEF MailStep
<1>6. ASSUME NEW d \in Mails, NEW k \in Kinds, CloseGroup(k, d) PROVE IInv'
    BY <1>6, CloseGroupKeeps
<1>7. ASSUME NEW c \in Checks, Disable(c) \/ Enable(c) \/ Mute(c) \/ CooldownElapses(c)
      PROVE  IInv'
    BY <1>7, OperatorKeeps
<1>8. CASE Stop BY <1>8, StopKeeps
<1>9. CASE FlushGroups BY <1>9, FlushGroupsKeeps
<1>10. CASE UNCHANGED vars
    <2> USE <1>10 DEF vars
    <2>1. TypeOK' BY DEF IInv, TypeOK
    <2>2. RunShape' /\ SingleFlight' /\ RecoveringUp' BY RunsUntouched
    <2>3. ActiveIsDown' /\ NoLostWakeup' /\ FlushedForGood'
        BY DEF IInv, ActiveIsDown, NoLostWakeup, FlushedForGood
    <2>4. AlertAccounted'
        <3>1. ASSUME NEW d \in Checks, OnItsWay(d) PROVE OnItsWay(d)'
            BY <3>1 DEF OnItsWay, IsDown
        <3> QED BY <3>1 DEF IInv, AlertAccounted
    <2> QED BY <2>1, <2>2, <2>3, <2>4 DEF IInv
<1> QED
    BY <1>1, <1>2, <1>3, <1>4, <1>5, <1>6, <1>7, <1>8, <1>9, <1>10 DEF Next

\* What the runs, the deliveries and the open windows have in hand fits together
\* with the states of the checks, always: the inductive invariant.
THEOREM Inductive == Spec => []IInv
BY InitInv, NextInv, PTL DEF Spec

\* Every variable keeps its type.
THEOREM TypeCorrect == Spec => []TypeOK
<1>1. IInv => TypeOK BY DEF IInv
<1> QED BY <1>1, Inductive, PTL

\* Whatever a run of the engine waits for is still to come: no run waits on a
\* channel that was closed before it looked (process, probeParent).
THEOREM WakeupsNotLost == Spec => []NoLostWakeup
<1>1. IInv => NoLostWakeup BY DEF IInv
<1> QED BY <1>1, Inductive, PTL

\* An outage counted as alerted was told to somebody or its alert is still on
\* its way, whatever fails, is switched off, or is stopped in between.
THEOREM AlertsAccounted == Spec => []AlertAccounted
<1>1. IInv => AlertAccounted BY DEF IInv
<1> QED BY <1>1, Inductive, PTL

\* After Stop has flushed the windows no alert is left waiting in one.
THEOREM GroupsFlushed == Spec => []FlushedForGood
<1>1. IInv => FlushedForGood BY DEF IInv
<1> QED BY <1>1, Inductive, PTL

-----------------------------------------------------------------------------
(* The contract with the recipients.                                       *)

\* The installations that keep the contract: alerts are not grouped, results
\* carry no warnings, and every check runs in a flight of its own.  Without
\* the first a recovery may overtake its alert (run alerts_overtake).
OneByOne == ~Window /\ ~Warnings /\ Pushed = {}

\* Without windows nothing waits in one, and no delivery is yet unregistered.
NoWindow ==
    /\ \A k \in Kinds : groups[k] = {}
    /\ \A d \in Mails : mail[d].phase # "taken"

\* S is one alert about c: of its outage or of its recovery.
OneAlert(S, c) ==
    \E t \in Task : S = {t} /\ t.check = c /\ t.kind \in {"down", "recovered"}

\* A delivery carries one alert, and the check's later results can see it.
OneMail ==
    \A d \in Mails : mail[d].phase # "free" =>
        \E c \in Checks : OneAlert(mail[d].tasks, c) /\ mailDone[c] = d

\* A run that has judged its result, or is past the wait before judging it,
\* has no delivery about its check beside it; one that waits, waits for the
\* check's delivery; and it has at most one alert to send.
PastWait(x) ==
    \/ x.pc \in {"probe", "joined", "probed", "recovering", "overtaking"}
    \/ x.pc = "held" /\ x.awaits = Nobody
    \/ x.tasks # {}
RunWaits(x) ==
    /\ PastWait(x) => mailDone[x.check] = Nobody
    /\ x.pc = "held" /\ x.awaits # Nobody => x.awaits = mailDone[x.check]
    /\ x.tasks # {} => OneAlert(x.tasks, x.check)
WaitsFirst == \A r \in Runs : RunWaits(run[r])

\* An alert of this kind about c is in a run's or a delivery's hands.
Coming(c, k) ==
    \/ \E r \in Runs : \E t \in run[r].tasks : t.check = c /\ t.kind = k
    \/ \E d \in Mails : /\ mail[d].phase = "sending"
                        /\ \E t \in mail[d].tasks : t.check = c /\ t.kind = k

\* What is coming is news: an alert comes to recipients who have not heard of
\* the outage, and a recovery to recipients who last heard of its outage,
\* after the outage is over.  An outage that was told stays active.
News ==
    \A c \in Checks :
        /\ Coming(c, "down") =>
             ~told[c].down /\ (live[c].status = "down" => live[c].alertActive)
        /\ told[c].down /\ live[c].status = "down" =>
             live[c].alertActive /\ told[c].last = "down"
        /\ Coming(c, "recovered") =>
             live[c].status # "down" /\ told[c].down /\ told[c].last = "down"

Serial == NoWindow /\ OneMail /\ WaitsFirst
ContractInv == Serial /\ News

\* While a run is past its wait and has nothing in hand yet, nothing about its
\* check is coming.
LEMMA NothingComing ==
    ASSUME IInv, OneByOne, Serial, NEW r \in Runs, NEW c \in Checks,
           run[r].check = c, run[r].tasks = {}, mailDone[c] = Nobody
    PROVE  ~Coming(c, "down") /\ ~Coming(c, "recovered") /\ ~OnItsWay(c)
<1>1. ASSUME NEW q \in Runs, NEW t \in run[q].tasks, t.check = c PROVE FALSE
    <2>1. OneAlert(run[q].tasks, run[q].check)
        BY <1>1 DEF Serial, WaitsFirst, RunWaits, PastWait
    <2>2. run[q].check = c BY <1>1, <2>1 DEF OneAlert
    <2>3. q = r BY <2>2 DEF IInv, SingleFlight, OneByOne
    <2> QED BY <1>1, <2>3
<1>2. ASSUME NEW d \in Mails, mail[d].phase # "free",
             NEW t \in mail[d].tasks, t.check = c
      PROVE  FALSE
    <2>1. mailDone[c] = d BY <1>2 DEF Serial, OneMail, OneAlert
    <2> QED BY <2>1, ChecksAssumption
<1>3. groups["down"] = {} BY DEF Serial, NoWindow, Kinds
<1> QED BY <1>1, <1>2, <1>3 DEF Coming, OnItsWay, IsDown

\* While a delivery about a check is under way, it alone carries alerts about it.
LEMMA OneComing ==
    ASSUME IInv, Serial, NEW d \in Mails, mail[d].phase # "free"
    PROVE  \E t \in Task :
             /\ mail[d].tasks = {t} /\ t.kind \in {"down", "recovered"}
             /\ t.check \in Checks /\ mailDone[t.check] = d
             /\ \A q \in Runs : \A x \in run[q].tasks : x.check # t.check
             /\ \A e \in Mails \ {d} : mail[e].phase # "free" =>
                  \A x \in mail[e].tasks : x.check # t.check
<1>1. PICK c \in Checks : OneAlert(mail[d].tasks, c) /\ mailDone[c] = d
    BY DEF Serial, OneMail
<1>2. PICK t \in Task : /\ mail[d].tasks = {t} /\ t.check = c
                        /\ t.kind \in {"down", "recovered"}
    BY <1>1 DEF OneAlert
<1>3. ASSUME NEW q \in Runs, NEW x \in run[q].tasks, x.check = c PROVE FALSE
    <2>1. OneAlert(run[q].tasks, run[q].check) /\ mailDone[run[q].check] = Nobody
        BY <1>3 DEF Serial, WaitsFirst, RunWaits, PastWait
    <2>2. run[q].check = c BY <1>3, <2>1 DEF OneAlert
    <2> QED BY <1>1, <2>1, <2>2, ChecksAssumption
<1>4. ASSUME NEW e \in Mails \ {d}, mail[e].phase # "free",
             NEW x \in mail[e].tasks, x.check = c
      PROVE  FALSE
    <2>1. mailDone[c] = e BY <1>4 DEF Serial, OneMail, OneAlert
    <2> QED BY <1>1, <1>4, <2>1
<1> QED BY <1>1, <1>2, <1>3, <1>4

\* News stays news when nothing more is coming and no check changes.
LEMMA NewsStays ==
    ASSUME News, told' = told,
           \A c \in Checks : /\ Coming(c, "down")' => Coming(c, "down")
                             /\ Coming(c, "recovered")' => Coming(c, "recovered")
                             /\ live'[c].status = live[c].status
                             /\ live[c].alertActive => live'[c].alertActive
    PROVE  News'
BY DEF News

\* Steps of runs that take up no alert.
LEMMA MovesKeep ==
    ASSUME ContractInv,
           UNCHANGED <<mail, mailDone, groups, told>>,
           \A c \in Checks : /\ live'[c].status = live[c].status
                             /\ live[c].alertActive => live'[c].alertActive,
           \A q \in Runs : run'[q].tasks \subseteq run[q].tasks /\ RunWaits(run[q])'
    PROVE  ContractInv'
<1>1. NoWindow' BY DEF ContractInv, Serial, NoWindow
<1>2. OneMail' BY DEF ContractInv, Serial, OneMail, OneAlert
<1>3. WaitsFirst' BY DEF WaitsFirst
<1>4. News'
    <2>1. \A c \in Checks : /\ Coming(c, "down")' => Coming(c, "down")
                            /\ Coming(c, "recovered")' => Coming(c, "recovered")
        BY DEF Coming
    <2> QED BY <2>1, NewsStays DEF ContractInv
<1> QED BY <1>1, <1>2, <1>3, <1>4 DEF ContractInv, Serial

\* A run moves on.
LEMMA OneMoves ==
    ASSUME IInv, ContractInv, NEW r \in Runs, NEW n \in Run,
           UNCHANGED <<live, mail, mailDone, groups, told>>,
           run' = [run EXCEPT ![r] = n],
           n.tasks \subseteq run[r].tasks,
           RunWaits(n)
    PROVE  ContractInv'
<1>1. run \in [Runs -> Run] BY DEF IInv, TypeOK
<1>2. \A q \in Runs : run'[q] = IF q = r THEN n ELSE run[q] BY <1>1
<1>3. ASSUME NEW q \in Runs
      PROVE  run'[q].tasks \subseteq run[q].tasks /\ RunWaits(run[q])'
    <2>1. RunWaits(run'[q])
        BY <1>2 DEF ContractInv, Serial, WaitsFirst
    <2>2. RunWaits(run[q])' BY <2>1 DEF RunWaits, PastWait, OneAlert
    <2> QED BY <1>2, <2>2
<1> QED BY <1>3, MovesKeep

\* A run begins, or begins again, without an alert in hand.
LEMMA BeginMoves ==
    ASSUME IInv, ContractInv, NEW r \in Runs, NEW n \in Run,
           n.pc = "begin", n.tasks = {},
           UNCHANGED <<live, mail, mailDone, groups, told>>,
           run' = [run EXCEPT ![r] = n]
    PROVE  ContractInv'
<1>1. RunWaits(n) BY DEF RunWaits, PastWait
<1> QED BY <1>1, OneMoves

\* A run ends: nobody waited for it with a result to judge.
LEMMA EndMoves ==
    ASSUME IInv, ContractInv, NEW r \in Runs, EndRun(r),
           UNCHANGED <<live, mail, mailDone, groups, told>>
    PROVE  ContractInv'
<1> DEFINE base == [run EXCEPT ![r] = IdleRun]
<1>1. run \in [Runs -> Run] /\ mailDone \in [Checks -> Mails \cup {Nobody}]
    BY DEF IInv, TypeOK
<1>2. base \in [Runs -> Run] BY <1>1, FreshTypes
<1>3. \A q \in Runs : base[q] = IF q = r THEN IdleRun ELSE run[q] BY <1>1
<1>4. IdleRun.pc = "idle" /\ IdleRun.tasks = {} BY DEF IdleRun
<1>5. run' = Woken(base, r) BY DEF EndRun
<1> HIDE DEF base
<1>6. \A q \in Runs : /\ run'[q].pc = base[q].pc
                      /\ run'[q].check = base[q].check
                      /\ run'[q].tasks = base[q].tasks
                      /\ run'[q].awaits = base[q].awaits \/ base[q].awaits = r
    <2>1. \A q \in Runs : /\ run'[q].pc = base[q].pc
                          /\ run'[q].check = base[q].check
                          /\ run'[q].tasks = base[q].tasks
        BY <1>2, <1>5, WokenType
    <2>2. \A q \in Runs : run'[q].awaits = base[q].awaits \/ base[q].awaits = r
        BY <1>5 DEF Woken
    <2> QED BY <2>1, <2>2
<1>7. ASSUME NEW q \in Runs
      PROVE  run'[q].tasks \subseteq run[q].tasks /\ RunWaits(run[q])'
    <2>1. CASE q = r
        BY <1>3, <1>4, <1>6, <2>1 DEF RunWaits, PastWait
    <2>2. CASE q # r
        <3>1. /\ run'[q].pc = run[q].pc /\ run'[q].check = run[q].check
              /\ run'[q].tasks = run[q].tasks
            BY <1>3, <1>6, <2>2
        <3>2. RunWaits(run[q]) BY DEF ContractInv, Serial, WaitsFirst
        <3>3. run[q].pc = "held" => run'[q].awaits = run[q].awaits
            <4> SUFFICES ASSUME run[q].pc = "held", run[q].awaits = r
                         PROVE  FALSE
                BY <1>3, <1>6, <2>2
            <4>1. run[q].check \in Checks BY Busy
            <4>2. r = mailDone[run[q].check]
                BY <3>2, ChecksAssumption DEF RunWaits
            <4>3. r \in Mails \cup {Nobody} BY <1>1, <4>1, <4>2
            <4> QED BY <4>3, ChecksAssumption
        <3> QED BY <3>1, <3>2, <3>3 DEF RunWaits, PastWait, OneAlert
    <2> QED BY <2>1, <2>2
<1> QED BY <1>7, MovesKeep

\* Results come in, wait, and are given up.
LEMMA ArrivalMoves ==
    ASSUME IInv, ContractInv, NEW r \in Runs, NEW c \in Checks,
           Start(r, c) \/ AwaitMail(r) \/ GiveUp(r) \/ Unrecorded(r)
           \/ ProbeUnrecorded(r) \/ Finish(r)
    PROVE  ContractInv'
<1>1. CASE Start(r, c)
    <2>1. PICK ok \in BOOLEAN :
            run' = [run EXCEPT ![r] = [IdleRun EXCEPT !.pc = "begin", !.check = c,
                                                      !.ok = ok]]
        BY <1>1 DEF Start
    <2> DEFINE n == [IdleRun EXCEPT !.pc = "begin", !.check = c, !.ok = ok]
    <2>2. n \in Run /\ n.pc = "begin" /\ n.tasks = {}
        BY FreshTypes DEF IdleRun, Run
    <2>3. run' = [run EXCEPT ![r] = n] BY <2>1
    <2>4. UNCHANGED <<live, mail, mailDone, groups, told>> BY <1>1 DEF Start
    <2> HIDE DEF n
    <2> QED BY <2>2, <2>3, <2>4, BeginMoves
<1>2. CASE AwaitMail(r)
    <2> DEFINE n == [run[r] EXCEPT !.pc = "held", !.awaits = mailDone[run[r].check]]
    <2>1. run \in [Runs -> Run] BY DEF IInv, TypeOK
    <2>2. run[r].pc = "begin" /\ run[r].check \in Checks BY <1>2, Busy DEF AwaitMail
    <2>3. mailDone[run[r].check] \in Mails /\ mailDone[run[r].check] # Nobody
        BY <1>2, <2>2 DEF AwaitMail, IInv, TypeOK
    <2>4. /\ n \in Run /\ n.pc = "held" /\ n.check = run[r].check
          /\ n.tasks = run[r].tasks /\ n.awaits = mailDone[run[r].check]
        BY <2>1, <2>3 DEF Run
    <2>5. run' = [run EXCEPT ![r] = n] BY <1>2, <2>1 DEF AwaitMail
    <2>6. run[r].tasks = {} BY <2>2 DEF IInv, RunShape
    <2>7. UNCHANGED <<live, mail, mailDone, groups, told>> BY <1>2 DEF AwaitMail
    <2> HIDE DEF n
    <2>8. RunWaits(n) BY <2>3, <2>4, <2>6 DEF RunWaits, PastWait
    <2> QED BY <2>4, <2>5, <2>6, <2>7, <2>8, OneMoves
<1>3. CASE GiveUp(r) \/ Unrecorded(r) \/ ProbeUnrecorded(r) \/ Finish(r)
    <2>1. EndRun(r) /\ UNCHANGED <<live, mail, mailDone, groups, told>>
        BY <1>3 DEF GiveUp, Unrecorded, ProbeUnrecorded, Finish
    <2> QED BY <2>1, EndMoves
<1> QED BY <1>1, <1>2, <1>3

\* A run that is ready to judge, or to judge again, finds no delivery.
LEMMA ReadyWaited ==
    ASSUME IInv, ContractInv, NEW r \in Runs, ReadyToJudge(r) \/ ProbeOver(r)
    PROVE  /\ mailDone[run[r].check] = Nobody
           /\ run[r].tasks = {} /\ run[r].check \in Checks
           /\ run[r].pc \in {"begin", "held", "joined", "probed"}
<1>1. run[r].pc \in {"begin", "held", "joined", "probed"}
    BY DEF ReadyToJudge, ProbeOver
<1>2. run[r].check \in Checks BY <1>1, Busy
<1>3. run[r].tasks = {} BY <1>1 DEF IInv, RunShape
<1>4. mailDone[run[r].check] = Nobody
    <2>1. RunWaits(run[r]) BY DEF ContractInv, Serial, WaitsFirst
    <2> QED BY <1>1, <2>1 DEF RunWaits, PastWait, ReadyToJudge, ProbeOver
<1> QED BY <1>1, <1>2, <1>3, <1>4

\* The steps of a probe.
LEMMA ProbeMoves ==
    ASSUME IInv, ContractInv, NEW r \in Runs, NEW q \in Runs,
           Probe(r) \/ ProbeNothing(r) \/ ProbeJoins(r, q) \/ ProbeTimeout(r)
    PROVE  ContractInv'
<1>1. run \in [Runs -> Run] /\ live \in [Checks -> CheckState] BY DEF IInv, TypeOK
<1>2. UNCHANGED <<live, mail, mailDone, groups, told>>
    BY DEF Probe, ProbeNothing, ProbeJoins, ProbeTimeout
<1>3. /\ run[r].pc # "idle" /\ run[r].tasks = {}
      /\ mailDone[run[r].check] = Nobody
    <2>1. CASE Probe(r) BY <2>1, ReadyWaited DEF Probe
    <2>2. CASE ProbeNothing(r) \/ ProbeJoins(r, q) \/ ProbeTimeout(r)
        <3>1. run[r].pc \in {"probe", "joined"}
            BY <2>2 DEF ProbeNothing, ProbeJoins, ProbeTimeout
        <3>2. RunWaits(run[r]) BY DEF ContractInv, Serial, WaitsFirst
        <3> QED BY <3>1, <3>2 DEF RunWaits, PastWait, IInv, RunShape
    <2> QED BY <2>1, <2>2
<1>4. run[r].check \in Checks BY <1>3, Busy
<1>5. PICK n \in Run : /\ run' = [run EXCEPT ![r] = n]
                       /\ n.pc \in {"probe", "probed", "joined"}
                       /\ n.check = run[r].check /\ n.tasks = run[r].tasks
    <2>1. CASE Probe(r)
        <3> DEFINE n == [run[r] EXCEPT !.pc = "probe", !.before = live[run[r].check]]
        <3>1. live[run[r].check] \in CheckState BY <1>1, <1>4
        <3>2. /\ n \in Run /\ n.pc = "probe" /\ n.check = run[r].check
              /\ n.tasks = run[r].tasks
            BY <1>1, <3>1 DEF Run
        <3>3. run' = [run EXCEPT ![r] = n] BY <1>1, <2>1 DEF Probe
        <3> HIDE DEF n
        <3> QED BY <3>2, <3>3
    <2>2. CASE ProbeNothing(r)
        <3> DEFINE n == [run[r] EXCEPT !.pc = "probed"]
        <3>1. /\ n \in Run /\ n.pc = "probed" /\ n.check = run[r].check
              /\ n.tasks = run[r].tasks
            BY <1>1 DEF Run
        <3>2. run' = [run EXCEPT ![r] = n] BY <1>1, <2>2 DEF ProbeNothing
        <3> HIDE DEF n
        <3> QED BY <3>1, <3>2
    <2>3. CASE ProbeJoins(r, q)
        <3> DEFINE n == [run[r] EXCEPT !.pc = "joined", !.awaits = q]
        <3>1. /\ n \in Run /\ n.pc = "joined" /\ n.check = run[r].check
              /\ n.tasks = run[r].tasks
            BY <1>1 DEF Run
        <3>2. run' = [run EXCEPT ![r] = n] BY <1>1, <2>3 DEF ProbeJoins
        <3> HIDE DEF n
        <3> QED BY <3>1, <3>2
    <2>4. CASE ProbeTimeout(r)
        <3> DEFINE n == [run[r] EXCEPT !.awaits = Nobody]
        <3>1. run[r].pc = "joined" BY <2>4 DEF ProbeTimeout
        <3>2. /\ n \in Run /\ n.pc = "joined" /\ n.check = run[r].check
              /\ n.tasks = run[r].tasks
            BY <1>1, <3>1 DEF Run
        <3>3. run' = [run EXCEPT ![r] = n] BY <1>1, <2>4 DEF ProbeTimeout
        <3> HIDE DEF n
        <3> QED BY <3>2, <3>3
    <2> QED BY <2>1, <2>2, <2>3, <2>4
<1>6. RunWaits(n) BY <1>3, <1>5 DEF RunWaits, PastWait
<1> QED BY <1>2, <1>5, <1>6, OneMoves

\* A probe that runs the parent starts a second run.
LEMMA ProbeRunsMoves ==
    ASSUME IInv, ContractInv, NEW r \in Runs, NEW q \in Runs, ProbeRuns(r, q)
    PROVE  ContractInv'
<1> DEFINE m == [run[r] EXCEPT !.pc = "probed", !.awaits = q]
<1>1. PICK ok \in BOOLEAN :
        run' = [run EXCEPT ![r].pc = "probed", ![r].awaits = q,
                           ![q] = [IdleRun EXCEPT !.pc = "begin",
                                     !.check = Parent[run[r].check],
                                     !.ok = ok, !.depth = run[r].depth + 1]]
    BY DEF ProbeRuns
<1> DEFINE n == [IdleRun EXCEPT !.pc = "begin", !.check = Parent[run[r].check],
                                !.ok = ok, !.depth = run[r].depth + 1]
<1>2. run \in [Runs -> Run] BY DEF IInv, TypeOK
<1>3. run[r].pc = "probe" /\ run[q].pc = "idle" /\ r # q BY DEF ProbeRuns
<1>4. /\ m.pc = "probed" /\ m.check = run[r].check /\ m.tasks = run[r].tasks
      /\ n.pc = "begin" /\ n.tasks = {}
    BY <1>2 DEF Run, IdleRun
<1>5. \A p \in Runs : run'[p] = IF p = r THEN m ELSE IF p = q THEN n ELSE run[p]
    BY <1>1, <1>2, <1>3
<1>6. UNCHANGED <<live, mail, mailDone, groups, told>> BY DEF ProbeRuns
<1> HIDE DEF m, n
<1>7. ASSUME NEW p \in Runs
      PROVE  run'[p].tasks \subseteq run[p].tasks /\ RunWaits(run[p])'
    <2>1. RunWaits(run[p]) BY DEF ContractInv, Serial, WaitsFirst
    <2>2. CASE p = r
        <3>1. run[r].tasks = {} BY <1>3 DEF IInv, RunShape
        <3>2. mailDone[run[r].check] = Nobody
            BY <1>3, <2>1, <2>2 DEF RunWaits, PastWait
        <3> QED BY <1>4, <1>5, <1>6, <2>2, <3>1, <3>2 DEF RunWaits, PastWait
    <2>3. CASE p = q
        BY <1>3, <1>4, <1>5, <2>3 DEF RunWaits, PastWait
    <2>4. CASE p # r /\ p # q
        BY <1>5, <1>6, <2>1, <2>4 DEF RunWaits, PastWait, OneAlert
    <2> QED BY <2>2, <2>3, <2>4
<1> QED BY <1>6, <1>7, MovesKeep

\* A probe is over, and the run begins again.
LEMMA ProbeAgainMoves ==
    ASSUME IInv, ContractInv, NEW r \in Runs, ProbeAgain(r)
    PROVE  ContractInv'
<1> DEFINE n == [IdleRun EXCEPT !.pc = "begin", !.check = run[r].check,
                                !.depth = ProbeDepth]
<1>1. run[r].check \in Checks BY ReadyWaited DEF ProbeAgain
<1>2. n \in Run /\ n.pc = "begin" /\ n.tasks = {}
    <2>1. ProbeDepth \in 0..3 BY DEF ProbeDepth
    <2> QED BY <1>1, <2>1, FreshTypes DEF IdleRun, Run
<1>3. run' = [run EXCEPT ![r] = n] /\ UNCHANGED <<live, mail, mailDone, groups, told>>
    BY DEF ProbeAgain
<1> HIDE DEF n
<1> QED BY <1>2, <1>3, BeginMoves

\* What a committed result without a warning does to its check: an alert it
\* puts in hand is the outage's, active from then on and not before, or the
\* recovery's of an outage that was active; what the recipients have heard is
\* forgotten exactly when an outage begins.
LEMMA CommitNews ==
    ASSUME IInv, NEW r \in Runs, NEW c \in Checks, Commit(r, FALSE),
           run[r].check = c
    PROVE  /\ \A q \in Runs \ {r} : run'[q] = run[q]
           /\ \A d \in Checks \ {c} : live'[d] = live[d]
           /\ run'[r].check = c /\ run'[r].pc \in {"recovering", "queue"}
           /\ run'[r].tasks # {} => OneAlert(run'[r].tasks, c)
           /\ (\E t \in run'[r].tasks : t.kind = "down") =>
                /\ live'[c].status = "down" /\ live'[c].alertActive
                /\ live[c].status = "down" => ~live[c].alertActive
           /\ (\E t \in run'[r].tasks : t.kind = "recovered") =>
                /\ live'[c].status # "down"
                /\ live[c].status = "down" /\ live[c].alertActive
           /\ live[c].status = "down" /\ live[c].alertActive
                /\ live'[c].status = "down" => live'[c].alertActive
           /\ told' = IF live'[c].status = "down" /\ live[c].status # "down"
                      THEN [told EXCEPT ![c].down = FALSE] ELSE told
<1> DEFINE was == live[c]
           ok == run[r].ok
           judged == Judged(was, ok)
           sends == Evaluates(was, ok) /\ MaySend(c, judged)
           recovery == ok /\ was.status = "down" /\ was.alertActive
           kinds == (IF sends THEN {"down"} ELSE {})
                    \cup (IF recovery THEN {"recovered"} ELSE {})
                    \cup (IF ok /\ FALSE THEN {"warning"} ELSE {})
           recovers == was.status = "down" /\ judged.status # "down"
           tasks == {[check |-> c, kind |-> k, at |-> Now(c)] : k \in kinds}
           n == [IdleRun EXCEPT !.pc = IF recovers THEN "recovering" ELSE "queue",
                    !.check = c, !.depth = run[r].depth, !.tasks = tasks]
           sent == [judged EXCEPT !.alertActive = TRUE,
                                  !.lastAlert = Now(c), !.cooling = Cooldown]
           s == IF sends THEN sent ELSE judged
<1>1. /\ run' = [run EXCEPT ![r] = n]
      /\ live' = [live EXCEPT ![c] = s]
      /\ kinds # {} => FreshTimes(c) # {}
      /\ told' = IF judged.status = "down" /\ was.status # "down"
                 THEN [told EXCEPT ![c].down = FALSE] ELSE told
    BY DEF Commit
<1>2. /\ run \in [Runs -> Run] /\ live \in [Checks -> CheckState]
      /\ was \in CheckState /\ ok \in BOOLEAN /\ run[r].depth \in 0..3
    BY DEF IInv, TypeOK, Run
<1>3. judged \in CheckState BY <1>2, JudgedType
<1>4. sends => ~ok /\ judged.status = "down" /\ (was.status = "down" => ~was.alertActive)
    BY DEF Evaluates
<1>5. ok => judged.status # "down"
    BY <1>2 DEF Judged, CheckState
<1>6. was.status = "down" /\ was.alertActive /\ judged.status = "down"
        => judged.alertActive
    <2>1. ~ok => judged.alertActive = was.alertActive
        <3> SUFFICES ASSUME ~ok PROVE judged.alertActive = was.alertActive OBVIOUS
        <3> DEFINE f == IF was.failures < Threshold THEN was.failures + 1 ELSE Threshold
        <3>1. judged = [was EXCEPT !.failures = f,
                          !.status = IF f >= Threshold THEN "down" ELSE @]
            BY DEF Judged
        <3> HIDE DEF f, was, judged
        <3> QED BY <1>2, <3>1 DEF CheckState
    <2> QED BY <1>2, <1>5, <2>1
<1>7. s.status = judged.status /\ (sends => s.alertActive)
    <2> HIDE DEF judged, sends
    <2> QED BY <1>3 DEF CheckState
<1>8. sends => ~recovery BY <1>4
<1>9. kinds # {} => \E k \in {"down", "recovered"} :
                      /\ kinds = {k}
                      /\ k = "down" => sends
                      /\ k = "recovered" => recovery
    BY <1>8
<1>10. kinds # {} => Now(c) \in Times BY <1>1, NowType
<1>11. /\ n.check = c /\ n.tasks = tasks /\ n.pc \in {"recovering", "queue"}
    <2> HIDE DEF tasks, recovers
    <2> QED BY DEF IdleRun
<1>12. run'[r] = n /\ live'[c] = s
       /\ (\A q \in Runs \ {r} : run'[q] = run[q])
       /\ (\A d \in Checks \ {c} : live'[d] = live[d])
    <2> HIDE DEF n, s
    <2> QED BY <1>1, <1>2
<1> HIDE DEF n, s, sends, recovery, judged
<1>13. tasks # {} => \E t \in Task : /\ tasks = {t} /\ t.check = c
                                     /\ t.kind \in {"down", "recovered"}
                                     /\ t.kind = "down" => sends
                                     /\ t.kind = "recovered" => recovery
    <2> SUFFICES ASSUME tasks # {}
                 PROVE  \E t \in Task : /\ tasks = {t} /\ t.check = c
                                        /\ t.kind \in {"down", "recovered"}
                                        /\ t.kind = "down" => sends
                                        /\ t.kind = "recovered" => recovery
        OBVIOUS
    <2>1. kinds # {} OBVIOUS
    <2>2. PICK k \in {"down", "recovered"} : /\ kinds = {k}
                                             /\ k = "down" => sends
                                             /\ k = "recovered" => recovery
        BY <1>9, <2>1
    <2>3. [check |-> c, kind |-> k, at |-> Now(c)] \in Task
        BY <1>10, <2>1 DEF Task, Kinds
    <2> HIDE DEF kinds
    <2> QED BY <2>2, <2>3
<1> HIDE DEF tasks
<1>14. tasks # {} => OneAlert(tasks, c) BY <1>13 DEF OneAlert
<1>15. (\E t \in tasks : t.kind = "down") => sends BY <1>13
<1>16. (\E t \in tasks : t.kind = "recovered") => recovery BY <1>13
<1>17. recovery => /\ judged.status # "down"
                   /\ was.status = "down" /\ was.alertActive
    BY <1>5 DEF recovery
<1>18. s.status = "down" /\ was.status = "down" /\ was.alertActive => s.alertActive
    BY <1>6, <1>7 DEF s
<1> QED
    BY <1>1, <1>4, <1>7, <1>11, <1>12, <1>14, <1>15, <1>16, <1>17, <1>18

\* A result is committed by a run that has waited: only it can have put
\* anything about its check on the way, and it has nothing in hand yet.  So a
\* recovery it puts in hand answers an alert that was told.
LEMMA CommitMoves ==
    ASSUME IInv, OneByOne, ContractInv, NEW r \in Runs, Commit(r, FALSE),
           ReadyToJudge(r) \/ ProbeOver(r)
    PROVE  ContractInv'
<1> PICK c \in Checks : c = run[r].check BY ReadyWaited
<1>1. mailDone[c] = Nobody /\ run[r].tasks = {} BY ReadyWaited
<1>2. /\ \A q \in Runs \ {r} : run'[q] = run[q]
      /\ \A d \in Checks \ {c} : live'[d] = live[d]
      /\ run'[r].check = c /\ run'[r].pc \in {"recovering", "queue"}
      /\ run'[r].tasks # {} => OneAlert(run'[r].tasks, c)
      /\ (\E t \in run'[r].tasks : t.kind = "down") =>
           /\ live'[c].status = "down" /\ live'[c].alertActive
           /\ live[c].status = "down" => ~live[c].alertActive
      /\ (\E t \in run'[r].tasks : t.kind = "recovered") =>
           /\ live'[c].status # "down"
           /\ live[c].status = "down" /\ live[c].alertActive
      /\ live[c].status = "down" /\ live[c].alertActive
           /\ live'[c].status = "down" => live'[c].alertActive
      /\ told' = IF live'[c].status = "down" /\ live[c].status # "down"
                 THEN [told EXCEPT ![c].down = FALSE] ELSE told
    BY <1>1, CommitNews
<1>3. UNCHANGED <<mail, mailDone, groups>> BY DEF Commit
<1>4. ~Coming(c, "down") /\ ~Coming(c, "recovered") /\ ~OnItsWay(c)
    BY <1>1, NothingComing DEF ContractInv
<1>5. told \in [Checks -> Told] BY DEF IInv, TypeOK
<1>6. /\ \A d \in Checks \ {c} : told'[d] = told[d]
      /\ live'[c].status = "down" /\ live[c].status # "down" => ~told'[c].down
      /\ live'[c].status # "down" \/ live[c].status = "down" => told'[c] = told[c]
    BY <1>1, <1>2, <1>5 DEF Told
<1>7. NoWindow' BY <1>3 DEF ContractInv, Serial, NoWindow
<1>8. OneMail' BY <1>3 DEF ContractInv, Serial, OneMail, OneAlert
<1>9. WaitsFirst'
    <2> SUFFICES ASSUME NEW q \in Runs PROVE RunWaits(run[q])'
        BY DEF WaitsFirst
    <2>1. CASE q = r
        BY <1>1, <1>2, <1>3, <2>1 DEF RunWaits, PastWait, OneAlert
    <2>2. CASE q # r
        <3>1. RunWaits(run[q]) BY DEF ContractInv, Serial, WaitsFirst
        <3> QED BY <1>2, <1>3, <2>2, <3>1 DEF RunWaits, PastWait, OneAlert
    <2> QED BY <2>1, <2>2
<1>10. \A t \in run'[r].tasks : t.check = c BY <1>2 DEF OneAlert
<1>11. ASSUME NEW d \in Checks, NEW k, Coming(d, k)'
       PROVE  \/ d # c /\ Coming(d, k)
              \/ d = c /\ \E t \in run'[r].tasks : t.kind = k
    <2>1. CASE \E q \in Runs : \E t \in run'[q].tasks : t.check = d /\ t.kind = k
        <3>1. PICK q \in Runs : \E t \in run'[q].tasks : t.check = d /\ t.kind = k
            BY <2>1
        <3>2. CASE q = r BY <1>10, <3>1, <3>2
        <3>3. CASE q # r
            <4>1. \E t \in run[q].tasks : t.check = d /\ t.kind = k
                BY <1>2, <3>1, <3>3
            <4>2. d # c
                <5>1. OneAlert(run[q].tasks, run[q].check)
                    BY <4>1 DEF ContractInv, Serial, WaitsFirst, RunWaits
                <5>2. run[q].check = d BY <4>1, <5>1 DEF OneAlert
                <5> QED BY <3>3, <5>2 DEF IInv, SingleFlight, OneByOne
            <4> QED BY <4>1, <4>2 DEF Coming
        <3> QED BY <3>2, <3>3
    <2>2. CASE \E e \in Mails : /\ mail'[e].phase = "sending"
                                /\ \E t \in mail'[e].tasks : t.check = d /\ t.kind = k
        <3>1. PICK e \in Mails : /\ mail[e].phase = "sending"
                                 /\ \E t \in mail[e].tasks : t.check = d /\ t.kind = k
            BY <1>3, <2>2
        <3>2. mailDone[d] = e BY <3>1 DEF ContractInv, Serial, OneMail, OneAlert
        <3>3. d # c BY <1>1, <3>2, ChecksAssumption
        <3> QED BY <3>1, <3>3 DEF Coming
    <2> QED BY <1>11, <2>1, <2>2 DEF Coming
<1>12. News'
    <2> SUFFICES ASSUME NEW d \in Checks
                 PROVE  /\ Coming(d, "down")' =>
                             ~told'[d].down /\ (live'[d].status = "down" => live'[d].alertActive)
                        /\ told'[d].down /\ live'[d].status = "down" =>
                             live'[d].alertActive /\ told'[d].last = "down"
                        /\ Coming(d, "recovered")' =>
                             live'[d].status # "down" /\ told'[d].down /\ told'[d].last = "down"
        BY DEF News
    <2>1. /\ Coming(d, "down") =>
               ~told[d].down /\ (live[d].status = "down" => live[d].alertActive)
          /\ told[d].down /\ live[d].status = "down" =>
               live[d].alertActive /\ told[d].last = "down"
          /\ Coming(d, "recovered") =>
               live[d].status # "down" /\ told[d].down /\ told[d].last = "down"
        BY DEF ContractInv, News
    <2>2. CASE d # c
        BY <1>2, <1>6, <1>11, <2>1, <2>2
    <2>3. CASE d = c
        <3>1. Coming(c, "down")' => \E t \in run'[r].tasks : t.kind = "down"
            BY <1>1, <1>11
        <3>2. Coming(c, "recovered")' => \E t \in run'[r].tasks : t.kind = "recovered"
            BY <1>1, <1>11
        <3>3. live[c].status = "down" /\ live[c].alertActive => told[c].down
            BY <1>1, <1>4 DEF IInv, AlertAccounted, OneByOne
        <3> QED BY <1>2, <1>6, <2>1, <2>3, <3>1, <3>2, <3>3
    <2> QED BY <2>2, <2>3
<1> QED BY <1>7, <1>8, <1>9, <1>12 DEF ContractInv, Serial

\* The commits of a check's own run and of one that has probed.
LEMMA RecordMoves ==
    ASSUME IInv, OneByOne, ContractInv, NEW r \in Runs, Record(r) \/ ProbeRecord(r)
    PROVE  ContractInv'
<1>1. ReadyToJudge(r) \/ ProbeOver(r) BY DEF Record, ProbeRecord
<1>2. Commit(r, FALSE)
    <2>1. CASE Record(r)
        <3>1. PICK warn \in BOOLEAN : (warn => Warnings) /\ Commit(r, warn)
            BY <2>1 DEF Record
        <3>2. warn = FALSE BY <3>1 DEF OneByOne
        <3> QED BY <3>1, <3>2
    <2>2. CASE ProbeRecord(r) BY <2>2 DEF ProbeRecord
    <2> QED BY <2>1, <2>2
<1> QED BY <1>1, <1>2, CommitMoves

\* A recovery goes through: no window holds its alert, and no delivery.
LEMMA RecoveryMoves ==
    ASSUME IInv, ContractInv, NEW r \in Runs,
           DropPendingDown(r) \/ NothingPending(r) \/ AwaitDown(r)
    PROVE  ContractInv'
<1>1. run \in [Runs -> Run] BY DEF IInv, TypeOK
<1>2. groups["down"] = {} BY DEF ContractInv, Serial, NoWindow, Kinds
<1>3. ~DropPendingDown(r) BY <1>2 DEF DropPendingDown, Pending
<1>4. run[r].pc \in {"recovering", "overtaking"} BY <1>3 DEF NothingPending, AwaitDown
<1>5. RunWaits(run[r]) /\ mailDone[run[r].check] = Nobody
    <2>1. RunWaits(run[r]) BY DEF ContractInv, Serial, WaitsFirst
    <2> QED BY <1>4, <2>1 DEF RunWaits, PastWait
<1>6. UNCHANGED <<live, mail, mailDone, groups, told>>
    BY <1>3 DEF NothingPending, AwaitDown
<1>7. PICK n \in Run : /\ run' = [run EXCEPT ![r] = n]
                       /\ n.pc \in {"overtaking", "queue"}
                       /\ n.check = run[r].check /\ n.tasks = run[r].tasks
    <2>1. CASE NothingPending(r)
        <3> DEFINE n == [run[r] EXCEPT !.pc = "overtaking"]
        <3>1. /\ n \in Run /\ n.pc = "overtaking" /\ n.check = run[r].check
              /\ n.tasks = run[r].tasks
            BY <1>1 DEF Run
        <3>2. run' = [run EXCEPT ![r] = n] BY <1>1, <2>1 DEF NothingPending
        <3> HIDE DEF n
        <3> QED BY <3>1, <3>2
    <2>2. CASE AwaitDown(r)
        <3> DEFINE n == [run[r] EXCEPT !.pc = "queue", !.awaits = Nobody]
        <3>1. /\ n \in Run /\ n.pc = "queue" /\ n.check = run[r].check
              /\ n.tasks = run[r].tasks
            BY <1>1 DEF Run
        <3>2. run' = [run EXCEPT ![r] = n] BY <1>1, <1>5, <2>2 DEF AwaitDown
        <3> HIDE DEF n
        <3> QED BY <3>1, <3>2
    <2> QED BY <1>3, <2>1, <2>2
<1>8. RunWaits(n) BY <1>5, <1>7 DEF RunWaits, PastWait
<1> QED BY <1>6, <1>7, <1>8, OneMoves

\* A recovery waits no longer.
LEMMA WorkCancelledMoves ==
    ASSUME IInv, ContractInv, NEW r \in Runs, WorkCancelled(r)
    PROVE  ContractInv'
<1> DEFINE n == [run[r] EXCEPT !.awaits = Nobody]
<1>1. run \in [Runs -> Run] BY DEF IInv, TypeOK
<1>2. run[r].pc = "queue" /\ RunWaits(run[r])
    BY DEF WorkCancelled, ContractInv, Serial, WaitsFirst
<1>3. /\ n \in Run /\ n.pc = "queue" /\ n.check = run[r].check
      /\ n.tasks = run[r].tasks
    BY <1>1, <1>2 DEF Run
<1>4. run' = [run EXCEPT ![r] = n] BY <1>1 DEF WorkCancelled
<1>5. UNCHANGED <<live, mail, mailDone, groups, told>> BY DEF WorkCancelled
<1> HIDE DEF n
<1>6. RunWaits(n) BY <1>2, <1>3 DEF RunWaits, PastWait
<1> QED BY <1>3, <1>4, <1>5, <1>6, OneMoves

\* An alert leaves its run, which has no other.
LEMMA HandedOver ==
    ASSUME IInv, ContractInv, NEW r \in Runs, NEW t, Queues(r, t),
           run' = [run EXCEPT ![r].tasks = @ \ {t}]
    PROVE  /\ run[r].tasks = {t} /\ t \in Task
           /\ t.check = run[r].check /\ t.check \in Checks
           /\ t.kind \in {"down", "recovered"} /\ mailDone[t.check] = Nobody
           /\ run'[r].tasks = {} /\ run'[r].pc = "queue"
           /\ \A q \in Runs \ {r} : run'[q] = run[q]
<1>1. run \in [Runs -> Run] BY DEF IInv, TypeOK
<1>2. run[r].pc = "queue" /\ t \in run[r].tasks BY DEF Queues
<1>3. RunWaits(run[r]) BY DEF ContractInv, Serial, WaitsFirst
<1>4. OneAlert(run[r].tasks, run[r].check) /\ mailDone[run[r].check] = Nobody
    BY <1>2, <1>3 DEF RunWaits, PastWait
<1>5. /\ run[r].tasks = {t} /\ t \in Task /\ t.check = run[r].check
      /\ t.kind \in {"down", "recovered"}
    BY <1>2, <1>4 DEF OneAlert
<1>6. run[r].check \in Checks BY <1>2, Busy
<1>7. run'[r].tasks = {} /\ run'[r].pc = "queue" BY <1>1, <1>2, <1>5 DEF Run
<1> QED BY <1>1, <1>4, <1>5, <1>6, <1>7

\* An alert gets a delivery: it is as much on its way as before.
LEMMA SendMoves ==
    ASSUME IInv, OneByOne, ContractInv, NEW r \in Runs, NEW t, NEW d \in Mails,
           SendMail(r, t, d)
    PROVE  ContractInv'
<1>1. /\ Queues(r, t) /\ mail[d].phase = "free"
      /\ mail' = [mail EXCEPT ![d] = [phase |-> "sending", tasks |-> {t}]]
      /\ mailDone' = [mailDone EXCEPT ![t.check] = d]
      /\ run' = [run EXCEPT ![r].tasks = @ \ {t}]
      /\ UNCHANGED <<live, enabled, muted, groups, stopping, told>>
    BY DEF SendMail
<1>2. /\ run[r].tasks = {t} /\ t \in Task
      /\ t.check = run[r].check /\ t.check \in Checks
      /\ t.kind \in {"down", "recovered"} /\ mailDone[t.check] = Nobody
      /\ run'[r].tasks = {} /\ run'[r].pc = "queue"
      /\ \A q \in Runs \ {r} : run'[q] = run[q]
    BY <1>1, HandedOver
<1>3. mail \in [Mails -> Mail] /\ mailDone \in [Checks -> Mails \cup {Nobody}]
    BY DEF IInv, TypeOK
<1>4. \A e \in Mails : mail'[e] = IF e = d THEN [phase |-> "sending", tasks |-> {t}]
                                  ELSE mail[e]
    BY <1>1, <1>3
<1>5. \A c \in Checks : mailDone'[c] = IF c = t.check THEN d ELSE mailDone[c]
    BY <1>1, <1>3
<1>6. NoWindow' BY <1>1, <1>4 DEF ContractInv, Serial, NoWindow
<1>7. OneMail'
    <2> SUFFICES ASSUME NEW e \in Mails, mail'[e].phase # "free"
                 PROVE  \E c \in Checks : OneAlert(mail'[e].tasks, c) /\ mailDone'[c] = e
        BY DEF OneMail, OneAlert
    <2>1. CASE e = d BY <1>2, <1>4, <1>5, <2>1 DEF OneAlert
    <2>2. CASE e # d
        <3>1. PICK c \in Checks : OneAlert(mail[e].tasks, c) /\ mailDone[c] = e
            BY <1>4, <2>2 DEF ContractInv, Serial, OneMail
        <3>2. c # t.check BY <1>2, <3>1, ChecksAssumption
        <3> QED BY <1>4, <1>5, <2>2, <3>1, <3>2
    <2> QED BY <2>1, <2>2
<1>8. WaitsFirst'
    <2> SUFFICES ASSUME NEW q \in Runs PROVE RunWaits(run[q])' BY DEF WaitsFirst
    <2>1. CASE q = r BY <1>2, <2>1 DEF RunWaits, PastWait
    <2>2. CASE q # r
        <3>1. RunWaits(run[q]) BY DEF ContractInv, Serial, WaitsFirst
        <3>2. run[q].check # t.check
            BY <1>2, <2>2 DEF IInv, SingleFlight, OneByOne
        <3>3. run[q].pc # "idle" => mailDone'[run[q].check] = mailDone[run[q].check]
            BY <1>5, <3>2, Busy
        <3>4. run[q].pc = "idle" => run[q].tasks = {} BY DEF IInv, RunShape
        <3> QED
            BY <1>2, <2>2, <3>1, <3>3, <3>4 DEF RunWaits, PastWait, OneAlert
    <2> QED BY <2>1, <2>2
<1>9. News'
    <2>1. ASSUME NEW c \in Checks, NEW k, Coming(c, k)' PROVE Coming(c, k)
        <3>1. CASE \E q \in Runs : \E x \in run'[q].tasks : x.check = c /\ x.kind = k
            BY <1>2, <3>1 DEF Coming
        <3>2. CASE \E e \in Mails : /\ mail'[e].phase = "sending"
                                    /\ \E x \in mail'[e].tasks : x.check = c /\ x.kind = k
            BY <1>2, <1>4, <3>2 DEF Coming
        <3> QED BY <2>1, <3>1, <3>2 DEF Coming
    <2> QED BY <1>1, <2>1, NewsStays DEF ContractInv
<1> QED BY <1>6, <1>7, <1>8, <1>9 DEF ContractInv, Serial

\* Re-arming for alerts that went nowhere: they were news, so the outage
\* stays untold, and nothing else is coming about their checks.
LEMMA RearmedNews ==
    ASSUME IInv, ContractInv, told' = told,
           NEW t \in Task, live' = Rearmed({t}),
           t.kind \in {"down", "recovered"}, Coming(t.check, t.kind),
           \A c \in Checks : /\ Coming(c, "down")' =>
                                  Coming(c, "down") /\ c # t.check
                             /\ Coming(c, "recovered")' => Coming(c, "recovered")
    PROVE  News'
<1>1. t.check \in Checks BY DEF Task
<1>2. \A c \in Checks : live'[c].status = live[c].status
    BY RearmedType DEF IInv
<1>3. \A c \in Checks : ~IsDown(t, c) => live'[c] = live[c]
    BY DEF Rearmed
<1> SUFFICES ASSUME NEW c \in Checks
             PROVE  /\ Coming(c, "down")' =>
                         ~told'[c].down /\ (live'[c].status = "down" => live'[c].alertActive)
                    /\ told'[c].down /\ live'[c].status = "down" =>
                         live'[c].alertActive /\ told'[c].last = "down"
                    /\ Coming(c, "recovered")' =>
                         live'[c].status # "down" /\ told'[c].down /\ told'[c].last = "down"
    BY DEF News
<1>4. /\ Coming(c, "down") =>
           ~told[c].down /\ (live[c].status = "down" => live[c].alertActive)
      /\ told[c].down /\ live[c].status = "down" =>
           live[c].alertActive /\ told[c].last = "down"
      /\ Coming(c, "recovered") =>
           live[c].status # "down" /\ told[c].down /\ told[c].last = "down"
    BY DEF ContractInv, News
<1>5. CASE IsDown(t, c)
    <2>1. c = t.check /\ Coming(c, "down") BY <1>5 DEF IsDown
    <2> QED BY <1>2, <1>4, <2>1
<1>6. CASE ~IsDown(t, c) BY <1>2, <1>3, <1>4, <1>6
<1> QED BY <1>5, <1>6

\* An alert has nobody to go to.
LEMMA NobodyMoves ==
    ASSUME IInv, OneByOne, ContractInv, NEW r \in Runs, NEW t, NoRecipients(r, t)
    PROVE  ContractInv'
<1>1. /\ Queues(r, t)
      /\ live' = Rearmed({t})
      /\ run' = [run EXCEPT ![r].tasks = @ \ {t}]
      /\ UNCHANGED <<enabled, muted, mail, mailDone, groups, stopping, told>>
    BY DEF NoRecipients
<1>2. /\ run[r].tasks = {t} /\ t \in Task
      /\ t.check = run[r].check /\ t.check \in Checks
      /\ t.kind \in {"down", "recovered"} /\ mailDone[t.check] = Nobody
      /\ run'[r].tasks = {} /\ run'[r].pc = "queue"
      /\ \A q \in Runs \ {r} : run'[q] = run[q]
    BY <1>1, HandedOver
<1>3. NoWindow' BY <1>1 DEF ContractInv, Serial, NoWindow
<1>4. OneMail' BY <1>1 DEF ContractInv, Serial, OneMail, OneAlert
<1>5. WaitsFirst'
    <2> SUFFICES ASSUME NEW q \in Runs PROVE RunWaits(run[q])' BY DEF WaitsFirst
    <2>1. CASE q = r BY <1>2, <2>1 DEF RunWaits, PastWait
    <2>2. CASE q # r
        <3>1. RunWaits(run[q]) BY DEF ContractInv, Serial, WaitsFirst
        <3> QED BY <1>1, <1>2, <2>2, <3>1 DEF RunWaits, PastWait, OneAlert
    <2> QED BY <2>1, <2>2
<1>6. Coming(t.check, t.kind) BY <1>2 DEF Coming
<1>7. ASSUME NEW c \in Checks, NEW k, Coming(c, k)'
      PROVE  Coming(c, k) /\ c # t.check
    <2>1. CASE \E q \in Runs : \E x \in run'[q].tasks : x.check = c /\ x.kind = k
        <3>1. PICK q \in Runs : \E x \in run'[q].tasks : x.check = c /\ x.kind = k
            BY <2>1
        <3>2. q # r /\ run'[q] = run[q] BY <1>2, <3>1
        <3>3. OneAlert(run[q].tasks, run[q].check)
            BY <3>1, <3>2 DEF ContractInv, Serial, WaitsFirst, RunWaits
        <3>4. run[q].check = c BY <3>1, <3>2, <3>3 DEF OneAlert
        <3>5. c # t.check BY <1>2, <3>2, <3>4 DEF IInv, SingleFlight, OneByOne
        <3> QED BY <3>1, <3>2, <3>5 DEF Coming
    <2>2. CASE \E e \in Mails : /\ mail[e].phase = "sending"
                                /\ \E x \in mail[e].tasks : x.check = c /\ x.kind = k
        <3>1. PICK e \in Mails : /\ mail[e].phase = "sending"
                                 /\ \E x \in mail[e].tasks : x.check = c /\ x.kind = k
            BY <2>2
        <3>2. mailDone[c] = e BY <3>1 DEF ContractInv, Serial, OneMail, OneAlert
        <3>3. c # t.check BY <1>2, <3>2, ChecksAssumption
        <3> QED BY <2>2, <3>3 DEF Coming
    <2> QED BY <1>1, <1>7, <2>1, <2>2 DEF Coming
<1>8. News' BY <1>1, <1>2, <1>6, <1>7, RearmedNews
<1> QED BY <1>3, <1>4, <1>5, <1>8 DEF ContractInv, Serial

\* A delivery that ends, told or failed, keeps its place until it is released.
LEMMA EndedMail ==
    ASSUME IInv, ContractInv, NEW d \in Mails, NEW p \in {"told", "failed"},
           mail[d].phase = "sending",
           mail' = [mail EXCEPT ![d].phase = p],
           UNCHANGED <<run, mailDone, groups>>
    PROVE  /\ Serial'
           /\ \A c \in Checks, k \in Kinds : Coming(c, k)' =>
                Coming(c, k) /\ ~\E t \in mail[d].tasks : t.check = c
<1>1. mail \in [Mails -> Mail] BY DEF IInv, TypeOK
<1>2. \A e \in Mails : /\ mail'[e].tasks = mail[e].tasks
                       /\ mail'[e].phase = IF e = d THEN p ELSE mail[e].phase
    BY <1>1 DEF Mail
<1>3. NoWindow' BY <1>2 DEF ContractInv, Serial, NoWindow
<1>4. OneMail' BY <1>2 DEF ContractInv, Serial, OneMail, OneAlert
<1>5. WaitsFirst'
    BY DEF ContractInv, Serial, WaitsFirst, RunWaits, PastWait, OneAlert
<1>6. PICK t \in Task :
        /\ mail[d].tasks = {t}
        /\ \A q \in Runs : \A x \in run[q].tasks : x.check # t.check
        /\ \A e \in Mails \ {d} : mail[e].phase # "free" =>
             \A x \in mail[e].tasks : x.check # t.check
    BY OneComing DEF ContractInv
<1>7. ASSUME NEW c \in Checks, NEW k \in Kinds, Coming(c, k)'
      PROVE  Coming(c, k) /\ c # t.check
    <2>1. CASE \E q \in Runs : \E x \in run[q].tasks : x.check = c /\ x.kind = k
        BY <1>6, <2>1 DEF Coming
    <2>2. CASE \E e \in Mails : /\ mail'[e].phase = "sending"
                                /\ \E x \in mail'[e].tasks : x.check = c /\ x.kind = k
        <3>1. PICK e \in Mails : /\ mail'[e].phase = "sending"
                                 /\ \E x \in mail'[e].tasks : x.check = c /\ x.kind = k
            BY <2>2
        <3>2. e # d /\ mail[e].phase = "sending" BY <1>2, <3>1
        <3> QED BY <1>2, <1>6, <3>1, <3>2 DEF Coming
    <2> QED BY <1>7, <2>1, <2>2 DEF Coming
<1> QED BY <1>3, <1>4, <1>5, <1>6, <1>7 DEF Serial

\* A delivery fails: whoever it was about is asked for again.
LEMMA FailedMoves ==
    ASSUME IInv, ContractInv, NEW d \in Mails, FailedMail(d)
    PROVE  ContractInv'
<1>1. mail[d].phase = "sending" BY DEF FailedMail, ContractInv, Serial, NoWindow
<1>2. /\ mail' = [mail EXCEPT ![d].phase = "failed"]
      /\ live' = Rearmed(mail[d].tasks)
      /\ UNCHANGED <<enabled, muted, run, mailDone, groups, stopping, told>>
    BY DEF FailedMail
<1>3. /\ Serial'
      /\ \A c \in Checks, k \in Kinds : Coming(c, k)' =>
           Coming(c, k) /\ ~\E t \in mail[d].tasks : t.check = c
    BY <1>1, <1>2, EndedMail
<1>4. PICK t \in Task : mail[d].tasks = {t} /\ t.kind \in {"down", "recovered"}
    BY <1>1, OneComing DEF ContractInv
<1>5. Coming(t.check, t.kind) BY <1>1, <1>4 DEF Coming
<1>6. \A c \in Checks : /\ Coming(c, "down")' => Coming(c, "down") /\ c # t.check
                        /\ Coming(c, "recovered")' => Coming(c, "recovered")
    BY <1>3, <1>4 DEF Kinds
<1>7. News' BY <1>2, <1>4, <1>5, <1>6, RearmedNews
<1> QED BY <1>3, <1>7 DEF ContractInv

\* What a delivery of one alert changes of what the recipients know.
LEMMA DeliverTells ==
    ASSUME IInv, ContractInv, NEW d \in Mails, NEW S, Deliver(d, S)
    PROVE  \E t \in Task :
             /\ mail[d].tasks = {t} /\ t.check \in Checks
             /\ t.kind \in {"down", "recovered"} /\ Coming(t.check, t.kind)
             /\ live' = live
             /\ t.kind = "down" =>
                  told' = [told EXCEPT ![t.check] = [down |-> TRUE, last |-> "down"]]
             /\ t.kind = "recovered" =>
                  told' = [told EXCEPT ![t.check].last = "recovered"]
<1>1. /\ mail[d].phase = "sending"
      /\ S \subseteq mail[d].tasks /\ S # {}
      /\ live' = Rearmed(mail[d].tasks \ S)
      /\ told' = [c \in Checks |->
                    IF \E t \in S : IsDown(t, c) THEN [down |-> TRUE, last |-> "down"]
                    ELSE IF \E t \in S : t.check = c /\ t.kind = "recovered"
                    THEN [told[c] EXCEPT !.last = "recovered"]
                    ELSE told[c]]
    BY DEF Deliver
<1>2. PICK t \in Task : /\ mail[d].tasks = {t} /\ t.check \in Checks
                        /\ t.kind \in {"down", "recovered"}
    BY <1>1, OneComing DEF ContractInv
<1>3. S = {t} /\ mail[d].tasks \ S = {} BY <1>1, <1>2
<1>4. live \in [Checks -> CheckState] /\ told \in [Checks -> Told] BY DEF IInv, TypeOK
<1>5. live' = live BY <1>1, <1>3, <1>4 DEF Rearmed
<1>6. Coming(t.check, t.kind) BY <1>1, <1>2 DEF Coming
<1>7. ASSUME t.kind = "down"
      PROVE  told' = [told EXCEPT ![t.check] = [down |-> TRUE, last |-> "down"]]
    <2>1. told' = [c \in Checks |-> IF c = t.check THEN [down |-> TRUE, last |-> "down"]
                                    ELSE told[c]]
        BY <1>1, <1>3, <1>7 DEF IsDown
    <2> QED BY <1>4, <2>1
<1>8. ASSUME t.kind = "recovered"
      PROVE  told' = [told EXCEPT ![t.check].last = "recovered"]
    <2>1. told' = [c \in Checks |-> IF c = t.check
                                    THEN [told[c] EXCEPT !.last = "recovered"]
                                    ELSE told[c]]
        BY <1>1, <1>3, <1>8 DEF IsDown
    <2> QED BY <1>4, <2>1
<1> QED BY <1>2, <1>5, <1>6, <1>7, <1>8

\* A delivery gets through, and was the only news about its check.
LEMMA DeliverMoves ==
    ASSUME IInv, ContractInv, NEW d \in Mails, NEW S, Deliver(d, S)
    PROVE  ContractInv'
<1>1. /\ mail[d].phase = "sending"
      /\ mail' = [mail EXCEPT ![d].phase = "told"]
      /\ UNCHANGED <<run, mailDone, groups>>
    BY DEF Deliver
<1>2. /\ Serial'
      /\ \A c \in Checks, k \in Kinds : Coming(c, k)' =>
           Coming(c, k) /\ ~\E t \in mail[d].tasks : t.check = c
    BY <1>1, EndedMail
<1>3. PICK t \in Task :
        /\ mail[d].tasks = {t} /\ t.check \in Checks
        /\ t.kind \in {"down", "recovered"} /\ Coming(t.check, t.kind)
        /\ live' = live
        /\ t.kind = "down" =>
             told' = [told EXCEPT ![t.check] = [down |-> TRUE, last |-> "down"]]
        /\ t.kind = "recovered" =>
             told' = [told EXCEPT ![t.check].last = "recovered"]
    BY DeliverTells
<1>4. told \in [Checks -> Told] BY DEF IInv, TypeOK
<1>5. ASSUME NEW c \in Checks
      PROVE  /\ c # t.check => told'[c] = told[c]
             /\ c = t.check /\ t.kind = "down" => told'[c].down /\ told'[c].last = "down"
    BY <1>3, <1>4 DEF Told
<1>6. News'
    <2> SUFFICES ASSUME NEW c \in Checks
                 PROVE  /\ Coming(c, "down")' =>
                             ~told'[c].down /\ (live'[c].status = "down" => live'[c].alertActive)
                        /\ told'[c].down /\ live'[c].status = "down" =>
                             live'[c].alertActive /\ told'[c].last = "down"
                        /\ Coming(c, "recovered")' =>
                             live'[c].status # "down" /\ told'[c].down /\ told'[c].last = "down"
        BY DEF News
    <2>1. /\ Coming(c, "down") =>
               ~told[c].down /\ (live[c].status = "down" => live[c].alertActive)
          /\ told[c].down /\ live[c].status = "down" =>
               live[c].alertActive /\ told[c].last = "down"
          /\ Coming(c, "recovered") =>
               live[c].status # "down" /\ told[c].down /\ told[c].last = "down"
        BY DEF ContractInv, News
    <2>2. /\ Coming(c, "down")' => Coming(c, "down") /\ c # t.check
          /\ Coming(c, "recovered")' => Coming(c, "recovered") /\ c # t.check
        BY <1>2, <1>3 DEF Kinds
    <2>3. CASE c # t.check BY <1>3, <1>5, <2>1, <2>2, <2>3
    <2>4. CASE c = t.check BY <1>3, <1>5, <2>1, <2>2, <2>4
    <2> QED BY <2>3, <2>4
<1> QED BY <1>2, <1>6 DEF ContractInv

\* A delivery is released: whoever waited for it has waited for its check's
\* delivery, which is over.
LEMMA ReleaseMoves ==
    ASSUME IInv, ContractInv, NEW d \in Mails, ReleaseMail(d)
    PROVE  ContractInv'
<1>1. /\ mail[d].phase \in {"told", "failed"}
      /\ mail' = [mail EXCEPT ![d] = FreeMail]
      /\ mailDone' = [c \in Checks |-> IF mailDone[c] = d THEN Nobody ELSE mailDone[c]]
      /\ run' = Woken(run, d)
      /\ UNCHANGED <<live, enabled, muted, groups, stopping, told>>
    BY DEF ReleaseMail
<1>2. /\ mail \in [Mails -> Mail] /\ run \in [Runs -> Run]
      /\ mailDone \in [Checks -> Mails \cup {Nobody}]
    BY DEF IInv, TypeOK
<1>3. Nobody \notin Runs \cup Mails BY ChecksAssumption
<1>4. \A q \in Runs : /\ run'[q].pc = run[q].pc /\ run'[q].check = run[q].check
                      /\ run'[q].tasks = run[q].tasks
                      /\ run'[q].awaits =
                           IF run[q].awaits = d THEN Nobody ELSE run[q].awaits
    <2>1. \A q \in Runs : /\ run'[q].pc = run[q].pc /\ run'[q].check = run[q].check
                          /\ run'[q].tasks = run[q].tasks
        BY <1>1, <1>2, WokenType
    <2>2. \A q \in Runs : run'[q].awaits =
                            IF run[q].awaits = d THEN Nobody ELSE run[q].awaits
        BY <1>1, <1>2 DEF Woken, Run
    <2> QED BY <2>1, <2>2
<1>5. \A e \in Mails : mail'[e] = IF e = d THEN FreeMail ELSE mail[e] BY <1>1, <1>2
<1>6. NoWindow' BY <1>1, <1>5 DEF ContractInv, Serial, NoWindow, FreeMail
<1>7. OneMail'
    <2> SUFFICES ASSUME NEW e \in Mails, mail'[e].phase # "free"
                 PROVE  \E c \in Checks : OneAlert(mail'[e].tasks, c) /\ mailDone'[c] = e
        BY DEF OneMail, OneAlert
    <2>1. e # d BY <1>5 DEF FreeMail
    <2>2. PICK c \in Checks : OneAlert(mail[e].tasks, c) /\ mailDone[c] = e
        BY <1>5, <2>1 DEF ContractInv, Serial, OneMail
    <2> QED BY <1>1, <1>5, <2>1, <2>2
<1>8. WaitsFirst'
    <2> SUFFICES ASSUME NEW q \in Runs PROVE RunWaits(run[q])' BY DEF WaitsFirst
    <2>1. RunWaits(run[q]) BY DEF ContractInv, Serial, WaitsFirst
    <2>2. CASE run[q].pc = "idle"
        <3>1. run[q].tasks = {} BY <2>2 DEF IInv, RunShape
        <3> QED BY <1>4, <2>2, <3>1 DEF RunWaits, PastWait
    <2>3. CASE run[q].pc # "idle"
        <3>1. run[q].check \in Checks BY <2>3, Busy
        <3>2. mailDone'[run[q].check] = IF mailDone[run[q].check] = d THEN Nobody
                                        ELSE mailDone[run[q].check]
            BY <1>1, <3>1
        <3> QED BY <1>3, <1>4, <2>1, <3>2 DEF RunWaits, PastWait, OneAlert
    <2> QED BY <2>2, <2>3
<1>9. News'
    <2>1. ASSUME NEW c \in Checks, NEW k, Coming(c, k)' PROVE Coming(c, k)
        <3>1. CASE \E q \in Runs : \E x \in run'[q].tasks : x.check = c /\ x.kind = k
            BY <1>4, <3>1 DEF Coming
        <3>2. CASE \E e \in Mails : /\ mail'[e].phase = "sending"
                                    /\ \E x \in mail'[e].tasks : x.check = c /\ x.kind = k
            BY <1>5, <3>2 DEF Coming, FreeMail
        <3> QED BY <2>1, <3>1, <3>2 DEF Coming
    <2> QED BY <1>1, <2>1, NewsStays DEF ContractInv
<1> QED BY <1>6, <1>7, <1>8, <1>9 DEF ContractInv, Serial

\* Stop finds no window to flush.
LEMMA StopMoves ==
    ASSUME IInv, ContractInv, Stop \/ FlushGroups
    PROVE  ContractInv' /\ UNCHANGED <<live, told>>
<1>1. UNCHANGED <<live, run, mail, mailDone, groups, told>>
    <2>1. CASE Stop BY <2>1 DEF Stop
    <2>2. CASE FlushGroups
        <3>1. \A k \in Kinds : groups[k] = {} BY DEF ContractInv, Serial, NoWindow
        <3>2. mail \in [Mails -> Mail] /\ groups \in [Kinds -> SUBSET Task]
            BY DEF IInv, TypeOK
        <3>3. mail' = mail
            <4>1. mail' = [d \in Mails |-> mail[d]] BY <2>2, <3>1 DEF FlushGroups
            <4> QED BY <3>2, <4>1
        <3>4. groups' = groups
            <4>1. groups' = [k \in Kinds |-> {}] BY <2>2 DEF FlushGroups
            <4> QED BY <3>1, <3>2, <4>1
        <3> QED BY <2>2, <3>3, <3>4 DEF FlushGroups
    <2> QED BY <2>1, <2>2
<1>2. \A q \in Runs : RunWaits(run[q])'
    BY <1>1 DEF ContractInv, Serial, WaitsFirst, RunWaits, PastWait, OneAlert
<1> QED BY <1>1, <1>2, MovesKeep

\* The operator and the clock end outages, and begin none.
LEMMA OperatorMoves ==
    ASSUME IInv, ContractInv, NEW c \in Checks,
           Disable(c) \/ Enable(c) \/ Mute(c) \/ CooldownElapses(c)
    PROVE  /\ ContractInv'
           /\ told' = told
           /\ \A d \in Checks \ {c} : live'[d].status = live[d].status
           /\ live'[c].status = "down" => live[c].status = "down"
<1>1. live \in [Checks -> CheckState] BY DEF IInv, TypeOK
<1>2. UNCHANGED <<run, mail, mailDone, groups, told>>
    BY DEF Disable, Enable, Mute, CooldownElapses
<1>3. /\ \A d \in Checks \ {c} : live'[d] = live[d]
      /\ live'[c].status = "down" =>
           /\ live[c].status = "down"
           /\ live'[c].alertActive = live[c].alertActive
    <2>1. CASE Disable(c) BY <1>1, <2>1 DEF Disable, CheckState
    <2>2. CASE Enable(c) BY <1>1, <2>2 DEF Enable, CheckState
    <2>3. CASE Mute(c)
        <3>1. live' = live BY <2>3 DEF Mute
        <3> QED BY <3>1
    <2>4. CASE CooldownElapses(c) BY <1>1, <2>4 DEF CooldownElapses, CheckState
    <2> QED BY <2>1, <2>2, <2>3, <2>4
<1>4. NoWindow' BY <1>2 DEF ContractInv, Serial, NoWindow
<1>5. OneMail' BY <1>2 DEF ContractInv, Serial, OneMail, OneAlert
<1>6. WaitsFirst'
    BY <1>2 DEF ContractInv, Serial, WaitsFirst, RunWaits, PastWait, OneAlert
<1>7. News'
    <2>1. \A d \in Checks : /\ Coming(d, "down")' => Coming(d, "down")
                            /\ Coming(d, "recovered")' => Coming(d, "recovered")
        BY <1>2 DEF Coming
    <2> QED BY <1>2, <1>3, <2>1 DEF ContractInv, News
<1> QED BY <1>2, <1>3, <1>4, <1>5, <1>6, <1>7 DEF ContractInv, Serial

\* The invariant of the contract holds at first.
LEMMA InitContract == Init => ContractInv
<1> SUFFICES ASSUME Init PROVE ContractInv OBVIOUS
<1>1. NoWindow /\ OneMail BY DEF Init, NoWindow, OneMail, FreeMail
<1>2. WaitsFirst BY DEF Init, IdleRun, WaitsFirst, RunWaits, PastWait
<1>3. \A c \in Checks, k \in Kinds : ~Coming(c, k)
    BY DEF Init, IdleRun, FreeMail, Coming
<1>4. News BY <1>3 DEF Init, FreshState, News, Kinds
<1> QED BY <1>1, <1>2, <1>4 DEF ContractInv, Serial

\* The steps of a run, for the contract.
LEMMA RunStepMoves ==
    ASSUME IInv, OneByOne, ContractInv, NEW r \in Runs, RunStep(r)
    PROVE  ContractInv'
<1>1. CASE AwaitMail(r) \/ Unrecorded(r) \/ ProbeUnrecorded(r) \/ Finish(r)
    <2>1. PICK c \in Checks : TRUE
        <3>1. run[r].pc # "idle"
            BY <1>1 DEF AwaitMail, Unrecorded, ReadyToJudge, ProbeUnrecorded,
                        ProbeOver, Finish
        <3> QED BY <3>1, Busy
    <2> QED BY <1>1, <2>1, ArrivalMoves
<1>2. CASE Record(r) \/ ProbeRecord(r) BY <1>2, RecordMoves
<1>3. CASE Probe(r) \/ ProbeNothing(r) BY <1>3, ProbeMoves
<1>4. CASE \E q \in Runs : ProbeJoins(r, q) \/ ProbeRuns(r, q)
    BY <1>4, ProbeMoves, ProbeRunsMoves
<1>5. CASE ProbeAgain(r) BY <1>5, ProbeAgainMoves
<1>6. CASE DropPendingDown(r) \/ NothingPending(r) \/ AwaitDown(r)
    BY <1>6, RecoveryMoves
<1>7. CASE \E t \in run[r].tasks :
             \/ JoinGroup(r, t) \/ NoRecipients(r, t)
             \/ \E d \in Mails : SendMail(r, t, d)
    <2>1. PICK t \in run[r].tasks : \/ JoinGroup(r, t) \/ NoRecipients(r, t)
                                    \/ \E d \in Mails : SendMail(r, t, d)
        BY <1>7
    <2>2. ~JoinGroup(r, t) BY DEF JoinGroup, Grouped, OneByOne
    <2> QED BY <2>1, <2>2, NobodyMoves, SendMoves
<1> QED BY <1>1, <1>2, <1>3, <1>4, <1>5, <1>6, <1>7 DEF RunStep

\* Every step keeps the invariant of the contract.
LEMMA NextContract ==
    ASSUME OneByOne
    PROVE  IInv /\ ContractInv /\ [Next]_vars => ContractInv'
<1> SUFFICES ASSUME IInv, ContractInv, [Next]_vars PROVE ContractInv' OBVIOUS
<1>1. ASSUME NEW r \in Runs, NEW c \in Checks, Start(r, c) PROVE ContractInv'
    BY <1>1, ArrivalMoves
<1>2. ASSUME NEW r \in Runs, RunStep(r) PROVE ContractInv' BY <1>2, RunStepMoves
<1>3. ASSUME NEW r \in Runs, GiveUp(r) PROVE ContractInv'
    BY <1>3, EndMoves DEF GiveUp
<1>4. ASSUME NEW r \in Runs, ProbeTimeout(r) \/ WorkCancelled(r) PROVE ContractInv'
    BY <1>4, ProbeMoves, WorkCancelledMoves
<1>5. ASSUME NEW d \in Mails, MailStep(d) PROVE ContractInv'
    <2>1. ~Register(d) BY DEF Register, ContractInv, Serial, NoWindow
    <2> QED BY <1>5, <2>1, DeliverMoves, FailedMoves, ReleaseMoves DEF MailStep
<1>6. ASSUME NEW d \in Mails, NEW k \in Kinds PROVE ~CloseGroup(k, d)
    BY DEF CloseGroup, ContractInv, Serial, NoWindow
<1>7. ASSUME NEW c \in Checks, Disable(c) \/ Enable(c) \/ Mute(c) \/ CooldownElapses(c)
      PROVE  ContractInv'
    BY <1>7, OperatorMoves
<1>8. CASE Stop \/ FlushGroups BY <1>8, StopMoves
<1>9. CASE UNCHANGED vars
    <2>1. \A q \in Runs : RunWaits(run[q])'
        BY <1>9 DEF vars, ContractInv, Serial, WaitsFirst, RunWaits, PastWait, OneAlert
    <2> QED BY <1>9, <2>1, MovesKeep DEF vars
<1> QED
    BY <1>1, <1>2, <1>3, <1>4, <1>5, <1>6, <1>7, <1>8, <1>9 DEF Next

\* A commit begins an outage, ends one, or is no business of the recipients.
LEMMA CommitImplements ==
    ASSUME IInv, OneByOne, ContractInv, NEW r \in Runs, Record(r) \/ ProbeRecord(r)
    PROVE  [Contract!Next]_Contract!vars
<1>1. PICK c \in Checks : c = run[r].check
    BY ReadyWaited DEF Record, ProbeRecord
<1>2. Commit(r, FALSE)
    <2>1. CASE Record(r)
        <3>1. PICK warn \in BOOLEAN : (warn => Warnings) /\ Commit(r, warn)
            BY <2>1 DEF Record
        <3>2. warn = FALSE BY <3>1 DEF OneByOne
        <3> QED BY <3>1, <3>2
    <2>2. CASE ProbeRecord(r) BY <2>2 DEF ProbeRecord
    <2> QED BY <2>1, <2>2
<1>3. /\ \A d \in Checks \ {c} : live'[d] = live[d]
      /\ told' = IF live'[c].status = "down" /\ live[c].status # "down"
                 THEN [told EXCEPT ![c].down = FALSE] ELSE told
    BY <1>1, <1>2, CommitNews
<1>4. told \in [Checks -> Told] BY DEF IInv, TypeOK
<1> DEFINE open == [d \in Checks |-> live[d].status = "down"]
           heard == [d \in Checks |-> told[d].down]
           last == [d \in Checks |-> told[d].last]
<1>5. CASE live'[c].status = "down" /\ live[c].status # "down"
    <2>1. told' = [told EXCEPT ![c].down = FALSE] BY <1>3, <1>5
    <2>2. \A d \in Checks : /\ told'[d].down = IF d = c THEN FALSE ELSE told[d].down
                            /\ told'[d].last = told[d].last
        BY <1>4, <2>1 DEF Told
    <2>3. ~open[c] BY <1>5
    <2>4. open' = [open EXCEPT ![c] = TRUE] BY <1>3, <1>5
    <2>5. heard' = [heard EXCEPT ![c] = FALSE] BY <2>2
    <2>6. last' = last BY <2>2
    <2> QED BY <2>3, <2>4, <2>5, <2>6 DEF Contract!Next, Contract!Begin
<1>6. CASE live[c].status = "down" /\ live'[c].status # "down"
    <2>1. told' = told BY <1>3, <1>6
    <2>2. open[c] BY <1>6
    <2>3. open' = [open EXCEPT ![c] = FALSE] BY <1>3, <1>6
    <2> QED BY <2>1, <2>2, <2>3 DEF Contract!Next, Contract!End
<1>7. CASE (live[c].status = "down") = (live'[c].status = "down")
    <2>1. told' = told BY <1>3, <1>7
    <2>2. open' = open BY <1>3, <1>7
    <2> QED BY <2>1, <2>2 DEF Contract!vars
<1> QED BY <1>5, <1>6, <1>7

\* A delivery that gets through tells an outage, or its recovery.
LEMMA DeliverImplements ==
    ASSUME IInv, ContractInv, NEW d \in Mails, NEW S, Deliver(d, S)
    PROVE  Contract!Next
<1>1. PICK t \in Task :
        /\ t.check \in Checks
        /\ t.kind \in {"down", "recovered"} /\ Coming(t.check, t.kind)
        /\ live' = live
        /\ t.kind = "down" =>
             told' = [told EXCEPT ![t.check] = [down |-> TRUE, last |-> "down"]]
        /\ t.kind = "recovered" =>
             told' = [told EXCEPT ![t.check].last = "recovered"]
    BY DeliverTells
<1>2. PICK c \in Checks : c = t.check BY <1>1
<1>3. told \in [Checks -> Told] BY DEF IInv, TypeOK
<1> DEFINE open == [b \in Checks |-> live[b].status = "down"]
           heard == [b \in Checks |-> told[b].down]
           last == [b \in Checks |-> told[b].last]
<1>4. open' = open BY <1>1
<1>5. CASE t.kind = "down"
    <2>1. ~told[c].down BY <1>1, <1>2, <1>5 DEF ContractInv, News
    <2>2. /\ told'[c].down = TRUE /\ told'[c].last = "down"
          /\ \A b \in Checks \ {c} : told'[b] = told[b]
        BY <1>1, <1>2, <1>3, <1>5
    <2>3. ~heard[c] BY <2>1
    <2>4. heard' = [heard EXCEPT ![c] = TRUE] BY <2>2
    <2>5. last' = [last EXCEPT ![c] = "down"] BY <2>2
    <2> QED BY <1>4, <2>3, <2>4, <2>5 DEF Contract!Next, Contract!TellDown
<1>6. CASE t.kind = "recovered"
    <2>1. live[c].status # "down" /\ told[c].down /\ told[c].last = "down"
        BY <1>1, <1>2, <1>6 DEF ContractInv, News
    <2>2. \A b \in Checks : /\ told'[b].down = told[b].down
                            /\ told'[b].last = IF b = c THEN "recovered" ELSE told[b].last
        BY <1>1, <1>2, <1>3, <1>6 DEF Told
    <2>3. ~open[c] /\ heard[c] /\ last[c] = "down" BY <2>1
    <2>4. heard' = heard BY <2>2
    <2>5. last' = [last EXCEPT ![c] = "recovered"] BY <2>2
    <2> QED BY <1>4, <2>3, <2>4, <2>5 DEF Contract!Next, Contract!TellRecovered
<1> QED BY <1>1, <1>5, <1>6

\* The operator ends an outage, as far as the recipients are concerned.
LEMMA OperatorImplements ==
    ASSUME IInv, ContractInv, NEW c \in Checks,
           Disable(c) \/ Enable(c) \/ Mute(c) \/ CooldownElapses(c)
    PROVE  [Contract!Next]_Contract!vars
<1>1. /\ told' = told
      /\ \A d \in Checks \ {c} : live'[d].status = live[d].status
      /\ live'[c].status = "down" => live[c].status = "down"
    BY OperatorMoves
<1> DEFINE open == [d \in Checks |-> live[d].status = "down"]
<1>2. CASE live[c].status = "down" /\ live'[c].status # "down"
    <2>1. open[c] BY <1>2
    <2>2. open' = [open EXCEPT ![c] = FALSE] BY <1>1, <1>2
    <2> QED BY <1>1, <2>1, <2>2 DEF Contract!Next, Contract!End
<1>3. CASE (live[c].status = "down") = (live'[c].status = "down")
    <2>1. open' = open BY <1>1, <1>3
    <2> QED BY <1>1, <2>1 DEF Contract!vars
<1> QED BY <1>1, <1>2, <1>3

\* A step that keeps what the recipients know, and the statuses, is none of
\* the contract's.
LEMMA Stutters ==
    ASSUME told' = told, \A c \in Checks : live'[c].status = live[c].status
    PROVE  UNCHANGED Contract!vars
BY DEF Contract!vars

\* Every step of the engine is a step of the contract, or none of its business.
LEMMA StepImplements ==
    ASSUME OneByOne
    PROVE  IInv /\ ContractInv /\ [Next]_vars => [Contract!Next]_Contract!vars
<1> SUFFICES ASSUME IInv, ContractInv, [Next]_vars
             PROVE  [Contract!Next]_Contract!vars
    OBVIOUS
<1>1. ASSUME NEW r \in Runs, Record(r) \/ ProbeRecord(r)
      PROVE  [Contract!Next]_Contract!vars
    BY <1>1, CommitImplements
<1>2. ASSUME NEW r \in Runs, RunStep(r), ~(Record(r) \/ ProbeRecord(r))
      PROVE  UNCHANGED Contract!vars
    <2>1. CASE \E t \in run[r].tasks : NoRecipients(r, t)
        <3>1. PICK t \in run[r].tasks : NoRecipients(r, t) BY <2>1
        <3>2. t \in Task BY <3>1, HandedOver DEF NoRecipients
        <3>3. \A c \in Checks : live'[c].status = live[c].status
            BY <3>1, <3>2, RearmedType DEF NoRecipients, IInv
        <3> QED BY <3>1, <3>3, Stutters DEF NoRecipients
    <2>2. CASE ~\E t \in run[r].tasks : NoRecipients(r, t)
        <3>1. ~DropPendingDown(r)
            BY DEF DropPendingDown, Pending, ContractInv, Serial, NoWindow, Kinds
        <3>2. live' = live /\ told' = told
            BY <1>2, <2>2, <3>1
            DEF RunStep, AwaitMail, Unrecorded, Probe, ProbeNothing, ProbeJoins,
                ProbeRuns, ProbeUnrecorded, ProbeAgain, NothingPending, AwaitDown,
                JoinGroup, SendMail, Finish
        <3> QED BY <3>2, Stutters
    <2> QED BY <2>1, <2>2
<1>3. ASSUME NEW r \in Runs, NEW c \in Checks,
             Start(r, c) \/ GiveUp(r) \/ ProbeTimeout(r) \/ WorkCancelled(r)
      PROVE  UNCHANGED Contract!vars
    BY <1>3, Stutters DEF Start, GiveUp, ProbeTimeout, WorkCancelled
<1>4. ASSUME NEW d \in Mails, NEW S, Deliver(d, S) PROVE Contract!Next
    BY <1>4, DeliverImplements
<1>5. ASSUME NEW d \in Mails, Register(d) \/ FailedMail(d) \/ ReleaseMail(d)
      PROVE  UNCHANGED Contract!vars
    <2>1. CASE FailedMail(d)
        <3>1. mail[d].tasks \in SUBSET Task BY DEF IInv, TypeOK, Mail
        <3>2. \A c \in Checks : live'[c].status = live[c].status
            BY <2>1, <3>1, RearmedType DEF FailedMail, IInv
        <3> QED BY <2>1, <3>2, Stutters DEF FailedMail
    <2>2. CASE Register(d) \/ ReleaseMail(d)
        BY <2>2, Stutters DEF Register, ReleaseMail
    <2> QED BY <1>5, <2>1, <2>2
<1>6. ASSUME NEW d \in Mails, NEW k \in Kinds, CloseGroup(k, d)
      PROVE  UNCHANGED Contract!vars
    BY <1>6, Stutters DEF CloseGroup
<1>7. ASSUME NEW c \in Checks, Disable(c) \/ Enable(c) \/ Mute(c) \/ CooldownElapses(c)
      PROVE  [Contract!Next]_Contract!vars
    BY <1>7, OperatorImplements
<1>8. CASE Stop \/ FlushGroups BY <1>8, StopMoves, Stutters
<1>9. CASE UNCHANGED vars BY <1>9, Stutters DEF vars
<1>10. CASE Next
    <2>1. CASE \E r \in Runs : \/ \E c \in Checks : Start(r, c)
                               \/ RunStep(r) \/ GiveUp(r) \/ ProbeTimeout(r)
                               \/ WorkCancelled(r)
        <3>1. PICK r \in Runs : \/ \E c \in Checks : Start(r, c)
                                \/ RunStep(r) \/ GiveUp(r) \/ ProbeTimeout(r)
                                \/ WorkCancelled(r)
            BY <2>1
        <3>2. CASE RunStep(r) BY <1>1, <1>2, <3>2
        <3>3. CASE \E c \in Checks : Start(r, c) BY <1>3, <3>3
        <3>4. CASE GiveUp(r) \/ ProbeTimeout(r) \/ WorkCancelled(r)
            BY <3>4, Stutters DEF GiveUp, ProbeTimeout, WorkCancelled
        <3> QED BY <3>1, <3>2, <3>3, <3>4
    <2>2. CASE \E d \in Mails : MailStep(d) \/ \E k \in Kinds : CloseGroup(k, d)
        BY <1>4, <1>5, <1>6, <2>2 DEF MailStep
    <2> QED BY <1>7, <1>8, <1>10, <2>1, <2>2 DEF Next
<1> QED BY <1>9, <1>10

\* The engine keeps the contract with the recipients (AlertContract) as long
\* as alerts are sent one by one: an outage is told at most once, a recovery at
\* most once and only after its alert, whatever fails, is muted, is switched
\* off or is stopped in between.  It is what process waiting for the delivery
\* before it judges the next result is for.
THEOREM ContractKept ==
    ASSUME OneByOne
    PROVE  Spec => KeepsContract
<1>1. Init => Contract!Init
    <2> SUFFICES ASSUME Init PROVE Contract!Init OBVIOUS
    <2>1. \A c \in Checks : /\ (live[c].status = "down") = FALSE
                            /\ told[c].down = FALSE /\ told[c].last = "none"
        BY DEF Init, FreshState
    <2> QED BY <2>1 DEF Contract!Init
<1>2. IInv /\ ContractInv /\ [Next]_vars => ContractInv' BY NextContract
<1>3. IInv /\ ContractInv /\ [Next]_vars => [Contract!Next]_Contract!vars
    BY StepImplements
<1> QED BY <1>1, <1>2, <1>3, InitContract, Inductive, PTL
        DEF Spec, KeepsContract, Contract!Spec

\* Sent one by one, no recovery overtakes its alert (alertbatch.go:101): the
\* recipients are told of a recovery only after the alert it answers.
THEOREM NoOvertakingOneByOne ==
    ASSUME OneByOne
    PROVE  Spec => RecoveryAfterAlert
<1>1. IInv /\ ContractInv /\ [Next]_vars =>
        [\A c \in Checks : told[c].last # "recovered" /\ told'[c].last = "recovered"
                             => told[c].down]_told
    <2> SUFFICES ASSUME IInv, ContractInv, [Next]_vars, NEW c \in Checks,
                        told[c].last # "recovered", told'[c].last = "recovered"
                 PROVE  told[c].down
        OBVIOUS
    <2>1. [Contract!Next]_Contract!vars BY StepImplements
    <2> QED BY <2>1 DEF Contract!Next, Contract!vars, Contract!Begin, Contract!End,
               Contract!TellDown, Contract!TellRecovered
<1>2. IInv /\ ContractInv /\ [Next]_vars => ContractInv' BY NextContract
<1> QED BY <1>1, <1>2, InitContract, Inductive, PTL DEF Spec, RecoveryAfterAlert
=============================================================================
