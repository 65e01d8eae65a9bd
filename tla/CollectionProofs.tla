-------------------------- MODULE CollectionProofs --------------------------
(***************************************************************************)
(* Proofs about remote collectors, for any checks, runs and requests.      *)
(*                                                                         *)
(* What people were told is settled by deliveries, and the state of a      *)
(* check by results: the invariant relates the two through a quiet spell,  *)
(* in which a check that is down is only remembered as such by its count   *)
(* of failures (Stands).                                                   *)
(***************************************************************************)
EXTENDS Collection, TLAPS

Requests == [at : {"idle", "sent", "seen", "judging", "adding", "done"}, waiting : BOOLEAN,
             batch : SUBSET Nat, live : SUBSET Nat, held : SUBSET Nat, refused : SUBSET Nat,
             unheard : SUBSET Nat, verdict : {"none", "taken", "refused", "failed"}]
StateRows == [status : {"unknown", "up", "down", "paused"}, failures : 0..CThreshold, alert : BOOLEAN,
              quiet : BOOLEAN, last : Nat]

Typed ==
    /\ runs \in Seq([check : CChecks, ok : BOOLEAN])
    /\ jobs \subseteq CChecks /\ given \cup off \subseteq CChecks
    /\ queued \subseteq 1..Len(runs) /\ aged \in 0..Len(runs)
    /\ post \in [Posts -> Requests] /\ st \in [CChecks -> StateRows]
    /\ rec \subseteq 1..Len(runs) /\ thr \in 1..CThreshold
    /\ mail \in [CChecks -> {"none", "down", "recovered"}]
    /\ word \in [CChecks -> {"none", "down", "raised", "lost", "off"}]

\* The runs for which something is recorded: their result, or one close to it.
Covered == {t \in 1..Len(runs) : Near(t) # {}}

\* What GWatch is to keep nothing of: it was rejected, or its check was turned off.
Left(p) == p.refused \cup p.unheard

\* The results of a request are each to be judged, to be added, left, or recorded.
InHand(p) ==
    /\ p.batch \subseteq 1..Len(runs)
    /\ p.live \cup p.held \cup Left(p) \subseteq p.batch /\ p.live \cap p.held = {}
    /\ p.at = "done" => p.verdict # "none"
    /\ p.at # "done" => /\ p.verdict = "none"
                         /\ p.batch \subseteq p.live \cup p.held \cup Left(p) \cup Covered
    /\ p.at \in {"sent", "seen"} => Left(p) = {}
    /\ p.verdict = "taken" => p.batch \subseteq Left(p) \cup Covered

\* The outage of a check that alerted, also while it is unknown.
Stands(s) == s.alert /\ s.failures >= thr /\ (s.status = "down" \/ s.quiet)

Told ==
    \A c \in CChecks :
        /\ mail[c] = "down" => word[c] \in {"raised", "off"} \/ Stands(st[c])
        /\ mail[c] = "recovered" \/ c \in off => ~st[c].alert
        /\ word[c] = "down" /\ mail[c] # "recovered" => Stands(st[c])
        /\ word[c] = "off" => mail[c] = "down" /\ ~st[c].alert

CollInv ==
    /\ Typed /\ (\A h \in Posts : InHand(post[h]))
    /\ Told /\ ToldOnce /\ AlertIsTold

-----------------------------------------------------------------------------
(* Judging, and what people are told.                                      *)

\* A state that is judged is a state again.
LEMMA StateRowsKept ==
    ASSUME CollInv, NEW c \in CChecks, NEW t \in Nat, NEW alert \in BOOLEAN
    PROVE  /\ [Passing(st[c]) EXCEPT !.last = t] \in StateRows
           /\ Failing(st[c]) \in StateRows
           /\ [Failing(st[c]) EXCEPT !.last = t, !.alert = alert] \in StateRows
<1> DEFINE s == st[c]
<1>1. s \in StateRows /\ thr \in 1..CThreshold /\ CThreshold \in Nat \ {0}
  BY CollectionAssumption DEF CollInv, Typed
<1> HIDE DEF s
<1>2. Resumed(s) \in {"unknown", "up", "down", "paused"}
  BY <1>1 DEF Resumed, StateRows
<1>3. /\ s.failures \in 0..CThreshold /\ s.alert \in BOOLEAN
      /\ (IF s.failures < CThreshold THEN s.failures + 1 ELSE s.failures) \in 0..CThreshold
  BY <1>1 DEF StateRows
<1>4. [Passing(s) EXCEPT !.last = t] \in StateRows
  <2> DEFINE a == IF Resumed(s) = "down" THEN FALSE ELSE s.alert
  <2>1. Passing(s) = [s EXCEPT !.failures = 0, !.quiet = FALSE, !.status = "up", !.alert = a]
    BY DEF Passing
  <2>2. a \in BOOLEAN
    BY <1>3
  <2>3. 0 \in 0..CThreshold
    BY <1>1
  <2> HIDE DEF a
  <2> QED
    BY <1>1, <2>1, <2>2, <2>3 DEF StateRows
<1>5. Failing(s) \in StateRows
  <2> DEFINE f == IF s.failures < CThreshold THEN s.failures + 1 ELSE s.failures
             u == IF s.failures + 1 >= thr THEN "down" ELSE Resumed(s)
  <2>1. Failing(s) = [s EXCEPT !.failures = f, !.quiet = FALSE, !.status = u]
    BY DEF Failing
  <2>2. f \in 0..CThreshold /\ u \in {"unknown", "up", "down", "paused"}
    BY <1>2, <1>3
  <2> HIDE DEF f, u
  <2> QED
    BY <1>1, <2>1, <2>2 DEF StateRows
<1>6. [Failing(s) EXCEPT !.last = t, !.alert = alert] \in StateRows
  BY <1>5 DEF StateRows
<1> QED
  BY <1>4, <1>5, <1>6 DEF s

\* An outage that stands goes on with a failure, and is not alerted again.
LEMMA StandingGoesOn ==
    ASSUME CollInv, NEW c \in CChecks, Stands(st[c])
    PROVE  /\ ~Alerts(st[c]) /\ Failing(st[c]).status = "down"
           /\ Failing(st[c]).failures >= thr /\ Resumed(st[c]) = "down"
<1> DEFINE s == st[c]
<1>1. /\ s \in StateRows /\ s.failures \in 0..CThreshold /\ thr \in 1..CThreshold
      /\ CThreshold \in Nat \ {0}
  BY CollectionAssumption DEF CollInv, Typed, StateRows
<1>2. s.alert /\ s.failures >= thr /\ Resumed(s) = "down"
  BY <1>1 DEF Stands, Resumed
<1> HIDE DEF s
<1>3. /\ Failing(s).failures = IF s.failures < CThreshold THEN s.failures + 1 ELSE s.failures
      /\ Failing(s).status = IF s.failures + 1 >= thr THEN "down" ELSE Resumed(s)
  BY <1>1 DEF Failing, StateRows
<1> QED
  BY <1>1, <1>2, <1>3 DEF Alerts, s

\* What is said of one check and what people were told about it.
ToldOf(c) ==
    /\ mail[c] = "down" => word[c] \in {"raised", "off"} \/ Stands(st[c])
    /\ mail[c] = "recovered" \/ c \in off => ~st[c].alert
    /\ word[c] = "down" /\ mail[c] # "recovered" => Stands(st[c])
    /\ word[c] = "off" => mail[c] = "down" /\ ~st[c].alert
    /\ mail[c] = "down" => word[c] # "down"
    /\ st[c].alert => word[c] # "none" \/ mail[c] = "down"

\* The parts about alerts hold check by check,
LEMMA ToldOfAll ==
    (Told /\ ToldOnce /\ AlertIsTold) <=> \A c \in CChecks : ToldOf(c)
BY DEF Told, ToldOnce, AlertIsTold, ToldOf

\* also after a step.
LEMMA ToldOfAllNext ==
    ASSUME \A c \in CChecks : ToldOf(c)'
    PROVE  Told' /\ ToldOnce' /\ AlertIsTold'
BY DEF Told, ToldOnce, AlertIsTold, ToldOf

\* A check that a step leaves alone.
LEMMA ToldOfKept ==
    ASSUME CollInv, NEW c \in CChecks, thr' = thr, c \in off' => c \in off,
           mail'[c] = mail[c], word'[c] = word[c], st'[c] = st[c]
    PROVE  ToldOf(c)'
BY ToldOfAll DEF CollInv, ToldOf, Stands

\* One result is judged: the cases of its outcome and of what was staged before.
LEMMA JudgeKeeps ==
    ASSUME CollInv, NEW c \in CChecks, NEW ok \in BOOLEAN, NEW t \in Nat, Judge(c, ok, t),
           c \notin off, thr' = thr, off' = off
    PROVE  /\ st' \in [CChecks -> StateRows]
           /\ mail' \in [CChecks -> {"none", "down", "recovered"}]
           /\ word' \in [CChecks -> {"none", "down", "raised", "lost", "off"}]
           /\ rec' = rec \cup {t}
           /\ Told' /\ ToldOnce' /\ AlertIsTold'
<1> DEFINE s == st[c]
<1>1. /\ mail[c] = "none" /\ rec' = rec \cup {t} /\ s \in StateRows
      /\ st \in [CChecks -> StateRows]
      /\ mail \in [CChecks -> {"none", "down", "recovered"}]
      /\ word \in [CChecks -> {"none", "down", "raised", "lost", "off"}]
  BY DEF Judge, CollInv, Typed
<1>2. ToldOf(c)
  BY ToldOfAll DEF CollInv
<1>3. CASE ok
  <2> DEFINE new == [Passing(s) EXCEPT !.last = t]
  <2>1. /\ st' = [st EXCEPT ![c] = new] /\ word' = word
        /\ mail' = [mail EXCEPT ![c] = IF Recovers(s) THEN "recovered" ELSE "none"]
    BY <1>3 DEF Judge
  <2>2. new \in StateRows
    BY StateRowsKept
  <2>3. new.alert = IF Resumed(s) = "down" THEN FALSE ELSE s.alert
    BY <1>1 DEF Passing, StateRows
  <2> HIDE DEF new
  <2>4. /\ st' \in [CChecks -> StateRows]
        /\ mail' \in [CChecks -> {"none", "down", "recovered"}]
        /\ word' \in [CChecks -> {"none", "down", "raised", "lost", "off"}]
    BY <1>1, <2>1, <2>2
  <2>5. /\ st'[c] = new /\ word'[c] = word[c]
        /\ mail'[c] = IF Recovers(s) THEN "recovered" ELSE "none"
    BY <1>1, <2>1
  <2>6. word[c] = "down" => Recovers(s)
    <3>1. word[c] = "down" => Stands(s)
      BY <1>1, <1>2 DEF ToldOf
    <3>2. Stands(s) => s.alert /\ Resumed(s) = "down"
      BY StandingGoesOn DEF Stands
    <3> QED
      BY <3>1, <3>2 DEF Recovers
  <2>7. ToldOf(c)'
    BY <1>1, <1>2, <2>3, <2>5, <2>6 DEF ToldOf, Recovers
  <2>8. \A d \in CChecks : ToldOf(d)'
    <3> SUFFICES ASSUME NEW d \in CChecks, d # c
                 PROVE  ToldOf(d)'
      BY <2>7
    <3> QED
      BY <1>1, <2>1, ToldOfKept
  <2> QED
    BY <1>1, <2>4, <2>8, ToldOfAllNext
<1>4. CASE ~ok
  <2> DEFINE new == [Failing(s) EXCEPT !.last = t, !.alert = s.alert \/ Alerts(s)]
  <2>1. /\ st' = [st EXCEPT ![c] = [Failing(s) EXCEPT !.last = t, !.alert = @ \/ Alerts(s)]]
        /\ mail' = [mail EXCEPT ![c] = IF Alerts(s) THEN "down" ELSE "none"]
        /\ word' = [word EXCEPT ![c] = IF Alerts(s) /\ Failing(s).failures < thr
                                       THEN "raised" ELSE @]
    BY <1>4 DEF Judge
  <2>2. Alerts(s) \in BOOLEAN /\ s.alert \in BOOLEAN
    BY <1>1 DEF Alerts, StateRows
  <2>3. Failing(s).alert = s.alert
    BY <1>1 DEF Failing, StateRows
  <2>4. st' = [st EXCEPT ![c] = new]
    BY <2>1, <2>3
  <2>5. new \in StateRows
    BY <2>2, StateRowsKept
  <2>6. /\ new.alert = (s.alert \/ Alerts(s)) /\ new.status = Failing(s).status
        /\ new.failures = Failing(s).failures
    <3> DEFINE f == Failing(s)
               b == s.alert \/ Alerts(s)
    <3>1. f \in StateRows
      BY <2>2, StateRowsKept
    <3>2. new = [f EXCEPT !.last = t, !.alert = b]
      OBVIOUS
    <3> HIDE DEF f, b, new
    <3>3. new.alert = b /\ new.status = f.status /\ new.failures = f.failures
      BY <3>1, <3>2 DEF StateRows
    <3> QED
      BY <3>3 DEF f, b
  <2>7. Failing(s).failures \in Int /\ thr \in Int
    <3>1. Failing(s) \in StateRows /\ thr \in 1..CThreshold
      BY <2>2, StateRowsKept DEF CollInv, Typed
    <3>2. Failing(s).failures \in 0..CThreshold
      BY <3>1 DEF StateRows
    <3> QED
      BY <3>1, <3>2
  <2> HIDE DEF new
  <2>8. /\ st' \in [CChecks -> StateRows]
        /\ mail' \in [CChecks -> {"none", "down", "recovered"}]
        /\ word' \in [CChecks -> {"none", "down", "raised", "lost", "off"}]
    BY <1>1, <2>1, <2>4, <2>5
  <2>9. /\ st'[c] = new
        /\ mail'[c] = IF Alerts(s) THEN "down" ELSE "none"
        /\ word'[c] = IF Alerts(s) /\ Failing(s).failures < thr THEN "raised" ELSE word[c]
    BY <1>1, <2>1, <2>4
  <2>10. Alerts(s) => Failing(s).status = "down"
    BY DEF Alerts
  <2>11. word[c] = "down" => Stands(s)
    BY <1>1, <1>2 DEF ToldOf
  <2>12. Stands(s) => /\ ~Alerts(s) /\ Failing(s).status = "down"
                      /\ Failing(s).failures >= thr /\ s.alert
    BY StandingGoesOn DEF Stands
  <2>13. ToldOf(c)'
    <3>1. CASE Alerts(s)
      <4>1. word[c] # "down" /\ new.alert /\ new.status = "down" /\ mail'[c] = "down"
        BY <2>6, <2>9, <2>10, <2>11, <2>12, <3>1
      <4>2. CASE Failing(s).failures < thr
        BY <2>9, <3>1, <4>1, <4>2 DEF ToldOf
      <4>3. CASE ~(Failing(s).failures < thr)
        <5>1. Stands(st[c])'
          BY <2>6, <2>7, <2>9, <4>1, <4>3 DEF Stands
        <5>2. word[c] # "off" /\ c \notin off'
          BY <1>1, <1>2 DEF ToldOf
        <5> QED
          BY <2>9, <3>1, <4>1, <4>3, <5>1, <5>2 DEF ToldOf
      <4> QED
        BY <4>2, <4>3
    <3>2. CASE ~Alerts(s)
      <4>1. new.alert = s.alert /\ mail'[c] = "none" /\ word'[c] = word[c]
        BY <2>2, <2>6, <2>9, <3>2
      <4>2. word[c] = "down" => Stands(st[c])'
        BY <2>6, <2>9, <2>11, <2>12, <4>1 DEF Stands
      <4> QED
        BY <1>1, <1>2, <2>9, <4>1, <4>2 DEF ToldOf
    <3> QED
      BY <3>1, <3>2
  <2>14. \A d \in CChecks : ToldOf(d)'
    <3> SUFFICES ASSUME NEW d \in CChecks, d # c
                 PROVE  ToldOf(d)'
      BY <2>13
    <3> QED
      BY <1>1, <2>1, ToldOfKept
  <2> QED
    BY <1>1, <2>8, <2>14, ToldOfAllNext
<1> QED
  BY <1>3, <1>4

-----------------------------------------------------------------------------
(* Requests.                                                               *)

\* No request is a request of the type.
LEMMA NoPostInHand == NoPost \in Requests
BY DEF NoPost, Requests

\* What is recorded stays close to what it is close to.
LEMMA CoveredGrows ==
    ASSUME CollInv, rec \subseteq rec', 1..Len(runs) \subseteq 1..Len(runs'),
           \A t \in 1..Len(runs) : runs'[t] = runs[t]
    PROVE  Covered \subseteq Covered'
<1> SUFFICES ASSUME NEW t \in Covered
             PROVE  t \in Covered'
  OBVIOUS
<1>1. PICK u \in Near(t) : TRUE
  BY DEF Covered
<1>2. /\ t \in 1..Len(runs) /\ u \in rec /\ u \in 1..Len(runs)
      /\ runs[u].check = runs[t].check /\ t <= u + Spacing /\ u <= t + Spacing
  BY <1>1 DEF Covered, Near, CollInv, Typed
<1>3. u \in Near(t)'
  BY <1>2 DEF Near
<1> QED
  BY <1>2, <1>3 DEF Covered

\* A request that a step leaves alone.
LEMMA RequestKept ==
    ASSUME CollInv, NEW h \in Posts, post'[h] = post[h], Covered \subseteq Covered',
           1..Len(runs) \subseteq 1..Len(runs')
    PROVE  InHand(post[h])'
BY DEF CollInv, InHand, Left

\* A request that is answered, or is nobody's any more.
LEMMA EndedInHand ==
    ASSUME CollInv, NEW h \in Posts, NEW verdict \in {"taken", "refused", "failed"},
           verdict = "taken" => post[h].batch \subseteq Left(post[h]) \cup Covered,
           UNCHANGED <<rec, runs>>, post'[h] = Ended(post[h], verdict)
    PROVE  post'[h] \in Requests /\ InHand(post[h])'
<1>1. post[h] \in Requests /\ InHand(post[h])
  BY DEF CollInv, Typed
<1>2. CASE post[h].waiting
  <2>1. post'[h] = [NoPost EXCEPT !.at = "done", !.verdict = verdict, !.waiting = TRUE,
                                  !.batch = post[h].batch, !.refused = post[h].refused,
                                  !.unheard = post[h].unheard]
    BY <1>2 DEF Ended
  <2>2. /\ post'[h].at = "done" /\ post'[h].verdict = verdict /\ post'[h].waiting = TRUE
        /\ post'[h].batch = post[h].batch /\ Left(post'[h]) = Left(post[h])
        /\ post'[h].live = {} /\ post'[h].held = {}
        /\ post'[h] \in Requests
    BY <1>1, <2>1 DEF NoPost, Requests, Left
  <2>3. post[h].batch \subseteq 1..Len(runs) /\ Left(post[h]) \subseteq post[h].batch
    BY <1>1 DEF InHand
  <2>4. Covered' = Covered
    BY DEF Covered, Near
  <2>5. InHand(post[h])'
    BY <2>2, <2>3, <2>4 DEF InHand
  <2> QED
    BY <2>2, <2>5
<1>3. CASE ~post[h].waiting
  <2>1. post'[h] = NoPost
    BY <1>3 DEF Ended
  <2> QED
    BY <2>1, NoPostInHand DEF InHand, NoPost, Left
<1> QED
  BY <1>2, <1>3

\* The requests after a step that changes one of them, and leaves the runs alone.
LEMMA OneRequest ==
    ASSUME CollInv, NEW h \in Posts, \A g \in Posts \ {h} : post'[g] = post[g],
           Covered \subseteq Covered', runs' = runs, InHand(post[h])'
    PROVE  \A g \in Posts : InHand(post[g])'
<1> SUFFICES ASSUME NEW g \in Posts, g # h
             PROVE  InHand(post[g])'
  OBVIOUS
<1> QED
  BY RequestKept

\* A step that only changes a request, and what the collector does of it.
LEMMA RequestStep ==
    ASSUME CollInv, NEW h \in Posts, post' \in [Posts -> Requests],
           \A g \in Posts \ {h} : post'[g] = post[g],
           UNCHANGED <<runs, jobs, aged, st, rec, config, alerts>>,
           queued' \subseteq queued, InHand(post[h])'
    PROVE  CollInv'
<1>1. Typed'
  BY DEF CollInv, Typed, config, alerts
<1>2. \A g \in Posts : InHand(post[g])'
  BY CoveredGrows, OneRequest DEF CollInv, Typed
<1>3. Told' /\ ToldOnce' /\ AlertIsTold'
  <2>1. \A c \in CChecks : ToldOf(c)'
    BY ToldOfKept DEF config, alerts
  <2> QED
    BY <2>1, ToldOfAllNext
<1> QED
  BY <1>1, <1>2, <1>3 DEF CollInv

\* The requests, with one of them another.
LEMMA Replacing ==
    ASSUME CollInv, NEW h \in Posts, NEW p \in Requests, post' = [post EXCEPT ![h] = p]
    PROVE  /\ post' \in [Posts -> Requests] /\ post'[h] = p
           /\ \A g \in Posts \ {h} : post'[g] = post[g]
BY DEF CollInv, Typed

\* The collector sends a batch.
LEMMA SendKeeps ==
    ASSUME CollInv, NEW h \in Posts, Send(h)
    PROVE  CollInv'
<1> DEFINE new == {t \in queued : t > aged}
           old == {t \in queued : t <= aged}
           p == [NoPost EXCEPT !.at = "sent", !.waiting = TRUE, !.batch = queued,
                               !.live = new, !.held = old]
<1>1. post[h] = NoPost /\ post' = [post EXCEPT ![h] = p]
      /\ UNCHANGED <<collector, st, rec, config, down, alerts>>
  BY DEF Send
<1>2. queued \subseteq 1..Len(runs) /\ aged \in Int /\ queued \subseteq Nat
  <2>1. queued \subseteq 1..Len(runs) /\ aged \in 0..Len(runs)
    BY DEF CollInv, Typed
  <2>2. aged \in Int /\ \A t \in 1..Len(runs) : t \in Nat
    BY <2>1
  <2> QED
    BY <2>1, <2>2
<1>3. new \cup old = queued /\ new \cap old = {}
  <2>1. \A t \in queued : t > aged <=> ~(t <= aged)
    BY <1>2
  <2>2. /\ \A t : t \in new <=> t \in queued /\ t > aged
        /\ \A t : t \in old <=> t \in queued /\ t <= aged
    OBVIOUS
  <2> HIDE DEF new, old
  <2> QED
    BY <2>1, <2>2
<1> HIDE DEF new, old
<1>4. /\ p.at = "sent" /\ p.verdict = "none" /\ p.batch = queued /\ Left(p) = {}
      /\ p.live = new /\ p.held = old
  BY DEF NoPost, Left
<1>5. p \in Requests
  BY <1>2, <1>3 DEF NoPost, Requests
<1> HIDE DEF p
<1>6. post'[h] = p
  BY <1>1 DEF CollInv, Typed
<1>7. InHand(post[h])'
  BY <1>1, <1>2, <1>3, <1>4, <1>6 DEF InHand, collector
<1> QED
  BY <1>1, <1>5, <1>7, Replacing, RequestStep DEF collector

\* The collector gives up, or an answer arrives or does not.
LEMMA CollectKeeps ==
    ASSUME CollInv, NEW h \in Posts, GiveUp(h) \/ Vanish(h) \/ Hear(h)
    PROVE  CollInv'
<1>1. post[h] \in Requests /\ InHand(post[h]) /\ post \in [Posts -> Requests]
  BY DEF CollInv, Typed
<1>2. CASE post' = [post EXCEPT ![h] = NoPost]
  <2>1. post'[h] = NoPost
    BY <1>1, <1>2
  <2>2. InHand(post[h])'
    BY <2>1 DEF InHand, NoPost, Left
  <2>3. queued' \subseteq queued /\ UNCHANGED <<runs, jobs, aged, st, rec, config, alerts>>
    BY DEF GiveUp, Vanish, Hear, collector
  <2> QED
    BY <1>2, <2>2, <2>3, NoPostInHand, Replacing, RequestStep
<1>3. CASE GiveUp(h) /\ post[h].at # "done"
  <2> DEFINE p == [post[h] EXCEPT !.waiting = FALSE]
  <2>1. post' = [post EXCEPT ![h] = p] /\ post'[h] = p
    BY <1>1, <1>3 DEF GiveUp
  <2>2. p \in Requests /\ p.at = post[h].at /\ p.batch = post[h].batch /\ p.live = post[h].live
        /\ p.held = post[h].held /\ Left(p) = Left(post[h]) /\ p.verdict = post[h].verdict
    BY <1>1 DEF Requests, Left
  <2> HIDE DEF p
  <2>3. UNCHANGED <<collector, st, rec, config, down, alerts>>
    BY <1>3 DEF GiveUp
  <2>5. Covered' = Covered
    BY <2>3 DEF Covered, Near, collector
  <2>4. InHand(post[h])'
    BY <1>1, <2>1, <2>2, <2>3, <2>5 DEF InHand, collector
  <2> QED
    BY <2>1, <2>2, <2>3, <2>4, Replacing, RequestStep DEF collector
<1>4. \/ post' = [post EXCEPT ![h] = NoPost]
      \/ GiveUp(h) /\ post[h].at # "done"
  BY DEF GiveUp, Vanish, Hear
<1> QED
  BY <1>2, <1>3, <1>4

\* A request is answered; "taken" only when nothing is left to record.
LEMMA AnswerKeeps ==
    ASSUME CollInv, NEW h \in Posts, Refuse(h) \/ Paused(h) \/ StoreFails(h) \/ Accept(h)
    PROVE  CollInv'
<1>1. PICK verdict \in {"taken", "refused", "failed"} :
        /\ Done(h, verdict)
        /\ verdict = "taken" => post[h].at = "judging" /\ post[h].live \cup post[h].held = {}
  BY DEF Refuse, Paused, StoreFails, Accept
<1>2. UNCHANGED <<collector, st, rec, config, down, alerts>>
  BY DEF Refuse, Paused, StoreFails, Accept
<1>3. post \in [Posts -> Requests] /\ InHand(post[h])
  BY DEF CollInv, Typed
<1>4. post' = [post EXCEPT ![h] = Ended(post[h], verdict)] /\ post'[h] = Ended(post[h], verdict)
  BY <1>1, <1>3 DEF Done
<1>5. verdict = "taken" => post[h].batch \subseteq Left(post[h]) \cup Covered
  BY <1>1, <1>3 DEF InHand
<1>6. post'[h] \in Requests /\ InHand(post[h])'
  BY <1>2, <1>4, <1>5, EndedInHand DEF collector
<1>7. Typed'
  BY <1>2, <1>3, <1>4, <1>6 DEF CollInv, Typed, collector, config, alerts
<1>8. \A g \in Posts : InHand(post[g])'
  <2>1. \A g \in Posts \ {h} : post'[g] = post[g]
    BY <1>3, <1>4
  <2>2. Covered' = Covered
    BY <1>2 DEF Covered, Near, collector
  <2> QED
    BY <1>2, <1>6, <2>1, <2>2, OneRequest DEF collector
<1>9. Told' /\ ToldOnce' /\ AlertIsTold'
  <2>1. \A c \in CChecks : ToldOf(c)'
    BY <1>2, ToldOfKept DEF config, alerts
  <2> QED
    BY <2>1, ToldOfAllNext
<1> QED
  BY <1>7, <1>8, <1>9 DEF CollInv

\* A request in another place, with its results otherwise spread.
LEMMA SpreadInHand ==
    ASSUME CollInv, NEW h \in Posts, post[h].at \in {"judging", "adding"},
           UNCHANGED runs, Covered \subseteq Covered',
           post'[h].at \in {"judging", "adding"},
           post'[h].batch = post[h].batch, post'[h].verdict = post[h].verdict,
           post'[h].live \cup post'[h].held \cup Left(post'[h]) \subseteq post[h].batch,
           post'[h].live \cap post'[h].held = {},
           post[h].live \cup post[h].held \cup Left(post[h])
                \subseteq post'[h].live \cup post'[h].held \cup Left(post'[h]) \cup Covered'
    PROVE  InHand(post[h])'
BY DEF CollInv, Typed, InHand

\* A request is noted as a sign of life.
LEMMA SeenKeeps ==
    ASSUME CollInv, NEW h \in Posts, Seen(h)
    PROVE  CollInv'
<1> DEFINE p == [post[h] EXCEPT !.at = "seen"]
<1>1. /\ post[h].at = "sent" /\ post' = [post EXCEPT ![h] = p]
      /\ UNCHANGED <<collector, st, rec, config, alerts>>
  BY DEF Seen
<1>2. post \in [Posts -> Requests] /\ InHand(post[h])
  BY DEF CollInv, Typed
<1>3. p \in Requests /\ p.at = "seen" /\ p.batch = post[h].batch /\ p.live = post[h].live
      /\ p.held = post[h].held /\ Left(p) = Left(post[h]) /\ p.verdict = post[h].verdict
  BY <1>2 DEF Requests, Left
<1> HIDE DEF p
<1>4. post'[h] = p
  BY <1>1, <1>2
<1>6. Covered' = Covered
  BY <1>1 DEF Covered, Near, collector
<1>5. InHand(post[h])'
  BY <1>1, <1>2, <1>3, <1>4, <1>6 DEF InHand, collector
<1> QED
  BY <1>1, <1>3, <1>5, Replacing, RequestStep DEF collector

\* Its results are sorted into live, held and refused.
LEMMA DecideKeeps ==
    ASSUME CollInv, NEW h \in Posts, Decide(h)
    PROVE  CollInv'
<1> DEFINE q == post[h]
           mine == {t \in q.batch : runs[t].check \in Assigned}
           old == {t \in mine : t < st[runs[t].check].last}
           p == [q EXCEPT !.at = "judging", !.live = (q.live \cap mine) \ old,
                          !.held = (q.held \cap mine) \cup old, !.refused = q.batch \ mine]
<1>1. /\ q.at = "seen" /\ post' = [post EXCEPT ![h] = p]
      /\ UNCHANGED <<collector, st, rec, config, down, alerts>>
  BY DEF Decide
<1>2. post \in [Posts -> Requests] /\ InHand(q) /\ q \in Requests
  BY DEF CollInv, Typed
<1>3. /\ q.live \cup q.held \subseteq q.batch /\ q.live \cap q.held = {}
      /\ q.verdict = "none" /\ q.batch \subseteq q.live \cup q.held \cup Covered
      /\ q.batch \subseteq 1..Len(runs) /\ q.unheard = {}
  BY <1>1, <1>2 DEF InHand, Left
<1>4. mine \subseteq q.batch /\ old \subseteq mine
  OBVIOUS
<1> HIDE DEF mine, old
<1>5. /\ p.at = "judging" /\ p.batch = q.batch /\ p.verdict = "none"
      /\ p.live = (q.live \cap mine) \ old /\ p.held = (q.held \cap mine) \cup old
      /\ Left(p) = q.batch \ mine /\ p \in Requests
  <2>1. /\ (q.live \cap mine) \ old \subseteq Nat /\ (q.held \cap mine) \cup old \subseteq Nat
        /\ q.batch \ mine \subseteq Nat
    BY <1>2, <1>3, <1>4 DEF Requests
  <2> QED
    BY <1>2, <1>3, <2>1 DEF Requests, Left
<1> HIDE DEF p
<1>6. post'[h] = p
  BY <1>1, <1>2
<1>8. Covered' = Covered
  BY <1>1 DEF Covered, Near, collector
<1>7. InHand(post[h])'
  BY <1>1, <1>3, <1>4, <1>5, <1>6, <1>8 DEF InHand, collector
<1> QED
  BY <1>1, <1>5, <1>7, Replacing, RequestStep DEF collector

\* A held result is looked up in the history.
LEMMA CountNearKeeps ==
    ASSUME CollInv, NEW h \in Posts, NEW t \in Times, CountNear(h, t)
    PROVE  CollInv'
<1> DEFINE q == post[h]
<1>1. /\ q.at = "judging" /\ t \in q.held
      /\ UNCHANGED <<collector, st, rec, config, down, alerts>>
      /\ \/ post' = [post EXCEPT ![h].at = "adding"]
         \/ Near(t) # {} /\ post' = [post EXCEPT ![h].held = @ \ {t}]
         \/ post' = [post EXCEPT ![h].held = @ \ {t}, ![h].refused = @ \cup {t}]
  BY DEF CountNear
<1>2. post \in [Posts -> Requests] /\ q \in Requests /\ InHand(q)
  BY DEF CollInv, Typed
<1>3. /\ q.live \cup q.held \cup Left(q) \subseteq q.batch /\ q.live \cap q.held = {}
      /\ t \in Nat /\ t \in 1..Len(runs)
  BY <1>1, <1>2 DEF InHand, Times
<1>4. /\ post' \in [Posts -> Requests] /\ \A g \in Posts \ {h} : post'[g] = post[g]
      /\ post'[h].at \in {"judging", "adding"} /\ post'[h].batch = q.batch
      /\ post'[h].verdict = q.verdict /\ post'[h].live = q.live
      /\ \/ post'[h].held = q.held /\ Left(post'[h]) = Left(q)
         \/ Near(t) # {} /\ post'[h].held = q.held \ {t} /\ Left(post'[h]) = Left(q)
         \/ post'[h].held = q.held \ {t} /\ Left(post'[h]) = Left(q) \cup {t}
  <2>1. CASE post' = [post EXCEPT ![h].at = "adding"]
    BY <1>1, <1>2, <2>1 DEF Requests, Left
  <2>2. CASE Near(t) # {} /\ post' = [post EXCEPT ![h].held = @ \ {t}]
    BY <1>1, <1>2, <2>2 DEF Requests, Left
  <2>3. CASE post' = [post EXCEPT ![h].held = @ \ {t}, ![h].refused = @ \cup {t}]
    BY <1>1, <1>2, <1>3, <2>3 DEF Requests, Left
  <2> QED
    BY <1>1, <2>1, <2>2, <2>3
<1>5. InHand(post[h])'
  <2>2. Covered' = Covered /\ (Near(t) # {} => t \in Covered)
    BY <1>1, <1>3 DEF Covered, Near, collector
  <2>1. /\ post'[h].live \cup post'[h].held \cup Left(post'[h]) \subseteq q.batch
        /\ post'[h].live \cap post'[h].held = {}
        /\ q.live \cup q.held \cup Left(q)
                \subseteq post'[h].live \cup post'[h].held \cup Left(post'[h]) \cup Covered'
    BY <1>1, <1>3, <1>4, <2>2
  <2> QED
    BY <1>1, <1>4, <2>1, <2>2, SpreadInHand DEF collector
<1> QED
  BY <1>1, <1>4, <1>5, RequestStep DEF collector

\* A result that is recorded, or left, and no longer in the hands of its request.
LEMMA RecordedKeeps ==
    ASSUME CollInv, NEW h \in Posts, NEW t \in Times, t \in post[h].live \cup post[h].held,
           post[h].at \in {"judging", "adding"},
           \/ rec' = rec \cup {t} /\ Left(post'[h]) = Left(post[h])
           \/ rec' = rec /\ Left(post'[h]) = Left(post[h]) \cup {t},
           UNCHANGED <<collector, config>>,
           post' \in [Posts -> Requests], \A g \in Posts \ {h} : post'[g] = post[g],
           post'[h].at = "judging", post'[h].batch = post[h].batch,
           post'[h].verdict = post[h].verdict,
           post'[h].live \subseteq post[h].live, post'[h].held \subseteq post[h].held,
           post'[h].live \cup post'[h].held = (post[h].live \cup post[h].held) \ {t},
           st' \in [CChecks -> StateRows],
           mail' \in [CChecks -> {"none", "down", "recovered"}],
           word' \in [CChecks -> {"none", "down", "raised", "lost", "off"}]
    PROVE  Typed' /\ \A g \in Posts : InHand(post[g])'
<1>1. post \in [Posts -> Requests] /\ InHand(post[h])
  BY DEF CollInv, Typed
<1>2. /\ post[h].live \cup post[h].held \cup Left(post[h]) \subseteq post[h].batch
      /\ post[h].live \cap post[h].held = {} /\ post[h].batch \subseteq 1..Len(runs)
  BY <1>1 DEF InHand
<1>4. Typed'
  <2>1. t \in 1..Len(runs)
    BY <1>2
  <2> QED
    BY <2>1 DEF CollInv, Typed, collector, config
<1>6. Covered \subseteq Covered' /\ (t \in rec' => t \in Covered')
  <2>1. Covered \subseteq Covered'
    BY CoveredGrows DEF collector
  <2>2. ASSUME t \in rec' PROVE t \in Covered'
    <3>1. rec' \subseteq 1..Len(runs')
      BY <1>4 DEF Typed
    <3>2. t \in 1..Len(runs') /\ t \in Int /\ Spacing \in Nat
      BY <2>2, <3>1, CollectionAssumption
    <3>3. t <= t + Spacing
      BY <3>2
    <3>4. t \in Near(t)'
      BY <2>2, <3>3 DEF Near
    <3> QED
      BY <3>2, <3>4 DEF Covered
  <2> QED
    BY <2>1, <2>2
<1>3. InHand(post[h])'
  <2>1. /\ post'[h].live \cup post'[h].held \cup Left(post'[h]) \subseteq post[h].batch
        /\ post'[h].live \cap post'[h].held = {}
        /\ post[h].live \cup post[h].held \cup Left(post[h])
                \subseteq post'[h].live \cup post'[h].held \cup Left(post'[h]) \cup Covered'
    BY <1>2, <1>6
  <2> QED
    BY <1>6, <2>1, SpreadInHand DEF collector
<1>5. \A g \in Posts : InHand(post[g])'
  BY <1>3, <1>6, OneRequest DEF collector
<1> QED
  BY <1>4, <1>5

\* A live result of the batch is judged, or its check has been turned off.
LEMMA JudgeNextKeeps ==
    ASSUME CollInv, NEW h \in Posts, NEW t \in Times, JudgeNext(h, t)
    PROVE  CollInv'
<1> DEFINE q == post[h]
           c == runs[t].check
           more == IF c \in off THEN q.unheard \cup {t} ELSE q.unheard
<1>1. /\ q.at = "judging" /\ t \in q.live
      /\ post' = [post EXCEPT ![h].live = @ \ {t},
                              ![h].unheard = IF c \in off THEN @ \cup {t} ELSE @]
      /\ UNCHANGED <<collector, config, down>>
      /\ \/ c \notin off /\ Judge(c, runs[t].ok, t)
         \/ c \in off /\ UNCHANGED <<st, rec, alerts>>
  BY DEF JudgeNext
<1>2. post \in [Posts -> Requests] /\ q \in Requests /\ InHand(q) /\ t \in Nat
  BY DEF CollInv, Typed, Times
<1>3. t \in 1..Len(runs) /\ q.live \cap q.held = {}
  BY <1>1, <1>2 DEF InHand
<1>4. c \in CChecks /\ runs[t].ok \in BOOLEAN
  <2> DEFINE Outcomes == [check : CChecks, ok : BOOLEAN]
  <2>1. runs \in Seq(Outcomes)
    BY DEF CollInv, Typed
  <2> HIDE DEF Outcomes
  <2>2. runs[t] \in Outcomes
    BY <1>3, <2>1
  <2> QED
    BY <2>2 DEF Outcomes
<1> HIDE DEF c
<1>5. /\ post' \in [Posts -> Requests] /\ \A g \in Posts \ {h} : post'[g] = post[g]
      /\ post'[h].at = "judging" /\ post'[h].batch = q.batch
      /\ post'[h].verdict = q.verdict /\ post'[h].held = q.held /\ post'[h].live = q.live \ {t}
      /\ post'[h].refused = q.refused /\ post'[h].unheard = more
  <2> DEFINE p == [q EXCEPT !.live = q.live \ {t}, !.unheard = more]
  <2>1. more \in SUBSET Nat
    BY <1>2 DEF Requests
  <2>2. post' = [post EXCEPT ![h] = p]
    BY <1>1, <1>2
  <2> HIDE DEF more
  <2>3. /\ p \in Requests /\ p.at = "judging" /\ p.batch = q.batch /\ p.verdict = q.verdict
        /\ p.held = q.held /\ p.live = q.live \ {t} /\ p.refused = q.refused
        /\ p.unheard = more
    BY <1>1, <1>2, <2>1 DEF Requests
  <2> HIDE DEF p
  <2> QED
    BY <2>2, <2>3, Replacing
<1>6. /\ post'[h].live \subseteq q.live
      /\ post'[h].live \cup post'[h].held = (q.live \cup q.held) \ {t}
  BY <1>1, <1>3, <1>5
<1>7. CASE c \notin off
  <2>1. /\ st' \in [CChecks -> StateRows]
        /\ mail' \in [CChecks -> {"none", "down", "recovered"}]
        /\ word' \in [CChecks -> {"none", "down", "raised", "lost", "off"}]
        /\ rec' = rec \cup {t}
        /\ Told' /\ ToldOnce' /\ AlertIsTold'
    BY <1>1, <1>2, <1>4, <1>7, JudgeKeeps DEF config
  <2>2. Left(post'[h]) = Left(q)
    BY <1>5, <1>7 DEF Left
  <2>3. Typed' /\ \A g \in Posts : InHand(post[g])'
    BY <1>1, <1>5, <1>6, <2>1, <2>2, RecordedKeeps
  <2> QED
    BY <2>1, <2>3 DEF CollInv
<1>8. CASE c \in off
  <2>1. /\ UNCHANGED <<st, rec, mail, word>> /\ st' \in [CChecks -> StateRows]
        /\ mail' \in [CChecks -> {"none", "down", "recovered"}]
        /\ word' \in [CChecks -> {"none", "down", "raised", "lost", "off"}]
    BY <1>1, <1>8 DEF CollInv, Typed, alerts
  <2>2. Left(post'[h]) = Left(q) \cup {t}
    BY <1>5, <1>8 DEF Left
  <2>3. Typed' /\ \A g \in Posts : InHand(post[g])'
    BY <1>1, <1>5, <1>6, <2>1, <2>2, RecordedKeeps
  <2>4. Told' /\ ToldOnce' /\ AlertIsTold'
    <3>1. \A d \in CChecks : ToldOf(d)'
      BY <1>1, <2>1, ToldOfKept DEF config
    <3> QED
      BY <3>1, ToldOfAllNext
  <2> QED
    BY <2>3, <2>4 DEF CollInv
<1> QED
  BY <1>7, <1>8

\* A held result is recorded.
LEMMA AddHeldKeeps ==
    ASSUME CollInv, NEW h \in Posts, NEW t \in Times, AddHeld(h, t)
    PROVE  CollInv'
<1> DEFINE q == post[h]
<1>1. /\ q.at = "adding" /\ t \in q.held /\ rec' = rec \cup {t}
      /\ post' = [post EXCEPT ![h].at = "judging", ![h].held = @ \ {t}]
      /\ UNCHANGED <<collector, st, config, down, alerts>>
  BY DEF AddHeld
<1>2. post \in [Posts -> Requests] /\ q \in Requests /\ InHand(q)
  BY DEF CollInv, Typed
<1>3. q.live \cap q.held = {}
  BY <1>2 DEF InHand
<1>4. /\ post' \in [Posts -> Requests] /\ \A g \in Posts \ {h} : post'[g] = post[g]
      /\ post'[h].at = "judging" /\ post'[h].batch = q.batch
      /\ post'[h].verdict = q.verdict /\ Left(post'[h]) = Left(q)
      /\ post'[h].live = q.live /\ post'[h].held = q.held \ {t}
  BY <1>1, <1>2 DEF Requests, Left
<1>5. /\ post'[h].held \subseteq q.held
      /\ post'[h].live \cup post'[h].held = (q.live \cup q.held) \ {t}
  BY <1>1, <1>3, <1>4
<1>6. Typed' /\ \A g \in Posts : InHand(post[g])'
  BY <1>1, <1>4, <1>5, RecordedKeeps DEF CollInv, Typed, alerts
<1>7. Told' /\ ToldOnce' /\ AlertIsTold'
  <2>1. \A c \in CChecks : ToldOf(c)'
    BY <1>1, ToldOfKept DEF config, alerts
  <2> QED
    BY <2>1, ToldOfAllNext
<1> QED
  BY <1>6, <1>7 DEF CollInv

-----------------------------------------------------------------------------
(* The collector, the watch, and what people do.                           *)

\* One more run.
LEMMA OneMoreRun ==
    ASSUME CollInv, NEW c \in CChecks, NEW ok \in BOOLEAN, Taken(c, ok)
    PROVE  /\ runs' \in Seq([check : CChecks, ok : BOOLEAN]) /\ Len(runs') \in Nat
           /\ Len(runs') = Len(runs) + 1 /\ 1..Len(runs) \subseteq 1..Len(runs')
           /\ Len(runs') \in 1..Len(runs') /\ 0..Len(runs) \subseteq 0..Len(runs')
           /\ \A t \in 1..Len(runs) : runs'[t] = runs[t]
<1> DEFINE Outcomes == [check : CChecks, ok : BOOLEAN]
<1>1. /\ runs' = Append(runs, [check |-> c, ok |-> ok]) /\ runs \in Seq(Outcomes)
      /\ [check |-> c, ok |-> ok] \in Outcomes
  BY DEF Taken, CollInv, Typed
<1> HIDE DEF Outcomes
<1>2. /\ runs' \in Seq(Outcomes) /\ Len(runs') = Len(runs) + 1 /\ Len(runs) \in Nat
      /\ \A t \in 1..Len(runs) : runs'[t] = runs[t]
  BY <1>1
<1>3. runs' \in Seq([check : CChecks, ok : BOOLEAN])
  BY <1>2 DEF Outcomes
<1> QED
  BY <1>2, <1>3

\* A step that says nothing of requests, nor of what people are told.
LEMMA ElsewhereKeeps ==
    ASSUME CollInv, UNCHANGED <<post, st, rec, thr, off, alerts>>, Typed',
           1..Len(runs) \subseteq 1..Len(runs'), \A t \in 1..Len(runs) : runs'[t] = runs[t]
    PROVE  CollInv'
<1>1. \A h \in Posts : InHand(post[h])'
  BY RequestKept, CoveredGrows
<1>2. Told' /\ ToldOnce' /\ AlertIsTold'
  <2>1. \A c \in CChecks : ToldOf(c)'
    BY ToldOfKept DEF alerts
  <2> QED
    BY <2>1, ToldOfAllNext
<1> QED
  BY <1>1, <1>2 DEF CollInv

\* The collector runs a check.
LEMMA RunKeeps ==
    ASSUME CollInv, NEW c \in CChecks, NEW ok \in BOOLEAN, Run(c, ok)
    PROVE  CollInv'
<1>1. /\ Taken(c, ok) /\ queued' = queued \cup {Len(runs')}
      /\ UNCHANGED <<jobs, aged, post, st, rec, config, down, alerts>>
  BY DEF Run
<1>2. Typed'
  BY <1>1, OneMoreRun DEF CollInv, Typed, config, alerts
<1> QED
  BY <1>1, <1>2, OneMoreRun, ElsewhereKeeps DEF config

\* Results grow old; the assignment is taken over.
LEMMA CollectorKeeps ==
    ASSUME CollInv, Age \/ Assign
    PROVE  CollInv'
<1>1. UNCHANGED <<runs, queued, post, st, rec, config, down, alerts>>
  BY DEF Age, Assign
<1>2. aged' \in {aged, Len(runs)} /\ jobs' \in {jobs, Assigned, {}}
  BY DEF Age, Assign
<1>3. Typed'
  <2>1. aged' \in 0..Len(runs)
    BY <1>2 DEF CollInv, Typed
  <2> QED
    BY <1>1, <1>2, <2>1 DEF CollInv, Typed, Assigned, config, alerts
<1> QED
  BY <1>1, <1>3, ElsewhereKeeps DEF config

\* GWatch runs a check itself.
LEMMA LocalRunKeeps ==
    ASSUME CollInv, NEW c \in CChecks, NEW ok \in BOOLEAN, LocalRun(c, ok)
    PROVE  CollInv'
<1>1. /\ Taken(c, ok) /\ Judge(c, ok, Len(runs')) /\ c \notin off
      /\ UNCHANGED <<jobs, queued, aged, post, config, down>>
  BY DEF LocalRun
<1>2. PICK t \in Nat : t = Len(runs')
  BY <1>1, OneMoreRun
<1>3. Judge(c, ok, t)
  BY <1>1, <1>2
<1>4. /\ st' \in [CChecks -> StateRows]
      /\ mail' \in [CChecks -> {"none", "down", "recovered"}]
      /\ word' \in [CChecks -> {"none", "down", "raised", "lost", "off"}]
      /\ rec' = rec \cup {t}
      /\ Told' /\ ToldOnce' /\ AlertIsTold'
  BY <1>1, <1>3, JudgeKeeps DEF config
<1>5. Typed'
  BY <1>1, <1>2, <1>4, OneMoreRun DEF CollInv, Typed, config
<1>6. \A h \in Posts : InHand(post[h])'
  BY <1>1, <1>4, OneMoreRun, RequestKept, CoveredGrows
<1> QED
  BY <1>4, <1>5, <1>6 DEF CollInv

\* A delivery ends, told or failed.
LEMMA DeliveryKeeps ==
    ASSUME CollInv, NEW c \in CChecks, Delivery(c)
    PROVE  CollInv'
<1>1. /\ mail[c] # "none" /\ mail' = [mail EXCEPT ![c] = "none"]
      /\ UNCHANGED <<collector, post, rec, config, down>>
      /\ \/ /\ mail[c] = "recovered" \/ word[c] = "off"
            /\ word' = [word EXCEPT ![c] = "none"] /\ st' = st
         \/ /\ mail[c] = "down" /\ word[c] # "off" /\ st' = st
            /\ word' = [word EXCEPT ![c] = IF @ = "raised" THEN @ ELSE "down"]
         \/ /\ mail[c] = "down" /\ st[c].status = "down"
            /\ st' = [st EXCEPT ![c].alert = FALSE] /\ word' = [word EXCEPT ![c] = "none"]
         \/ /\ mail[c] = "down" /\ st' = st
            /\ word' = [word EXCEPT ![c] = IF @ = "raised" THEN @ ELSE "lost"]
  BY DEF Delivery
<1>2. /\ st \in [CChecks -> StateRows] /\ mail \in [CChecks -> {"none", "down", "recovered"}]
      /\ word \in [CChecks -> {"none", "down", "raised", "lost", "off"}] /\ ToldOf(c)
  BY ToldOfAll DEF CollInv, Typed
<1>3. /\ st' \in [CChecks -> StateRows] /\ mail'[c] = "none"
      /\ mail' \in [CChecks -> {"none", "down", "recovered"}]
      /\ word' \in [CChecks -> {"none", "down", "raised", "lost", "off"}]
      /\ \A d \in CChecks \ {c} : st'[d] = st[d] /\ mail'[d] = mail[d] /\ word'[d] = word[d]
  <2>1. /\ mail'[c] = "none" /\ \A d \in CChecks \ {c} : mail'[d] = mail[d]
        /\ mail' \in [CChecks -> {"none", "down", "recovered"}]
    BY <1>1, <1>2
  <2>2. PICK w \in {"none", "down", "raised", "lost", "off"} : word' = [word EXCEPT ![c] = w]
    BY <1>1, <1>2
  <2>3. /\ word' \in [CChecks -> {"none", "down", "raised", "lost", "off"}]
        /\ \A d \in CChecks \ {c} : word'[d] = word[d]
    BY <1>2, <2>2
  <2>4. CASE st' = st
    BY <1>2, <2>1, <2>3, <2>4
  <2>5. CASE st' = [st EXCEPT ![c].alert = FALSE]
    <3>1. st' \in [CChecks -> StateRows] /\ \A d \in CChecks \ {c} : st'[d] = st[d]
      BY <1>2, <2>5 DEF StateRows
    <3> QED
      BY <2>1, <2>3, <3>1
  <2> QED
    BY <1>1, <2>4, <2>5
<1>4. ToldOf(c)'
  <2>1. CASE /\ mail[c] = "recovered" \/ word[c] = "off"
             /\ word' = [word EXCEPT ![c] = "none"] /\ st' = st
    <3>1. word'[c] = "none" /\ st'[c] = st[c]
      BY <1>2, <2>1
    <3>2. ~st[c].alert
      BY <1>2, <2>1 DEF ToldOf
    <3> QED
      BY <1>3, <3>1, <3>2 DEF ToldOf
  <2>2. CASE /\ mail[c] = "down" /\ word[c] # "off" /\ st' = st
             /\ word' = [word EXCEPT ![c] = IF @ = "raised" THEN @ ELSE "down"]
    <3>1. word[c] # "raised" => Stands(st[c])
      BY <1>2, <2>2 DEF ToldOf
    <3>2. word'[c] = IF word[c] = "raised" THEN "raised" ELSE "down"
      BY <1>2, <2>2
    <3> QED
      BY <1>1, <1>2, <1>3, <2>2, <3>1, <3>2 DEF ToldOf, Stands, config
  <2>3. CASE /\ mail[c] = "down" /\ st[c].status = "down"
             /\ st' = [st EXCEPT ![c].alert = FALSE] /\ word' = [word EXCEPT ![c] = "none"]
    <3>1. word'[c] = "none" /\ st'[c].alert = FALSE
      BY <1>2, <2>3 DEF StateRows
    <3> QED
      BY <1>3, <3>1 DEF ToldOf
  <2>4. CASE /\ mail[c] = "down" /\ st' = st
             /\ word' = [word EXCEPT ![c] = IF @ = "raised" THEN @ ELSE "lost"]
    <3>1. word'[c] \in {"raised", "lost"}
      BY <1>2, <2>4
    <3> QED
      BY <1>1, <1>2, <1>3, <2>4, <3>1 DEF ToldOf, config
  <2> QED
    BY <1>1, <2>1, <2>2, <2>3, <2>4
<1>5. Told' /\ ToldOnce' /\ AlertIsTold'
  <2>1. \A d \in CChecks : ToldOf(d)'
    BY <1>1, <1>3, <1>4, ToldOfKept DEF config
  <2> QED
    BY <2>1, ToldOfAllNext
<1>6. Typed' /\ \A h \in Posts : InHand(post[h])'
  BY <1>1, <1>3, CoveredGrows, RequestKept DEF CollInv, Typed, collector, config
<1> QED
  BY <1>5, <1>6 DEF CollInv

\* A quiet collector is noticed: its checks go unknown.
LEMMA WatchTickKeeps ==
    ASSUME CollInv, WatchTick
    PROVE  CollInv'
<1>1. /\ UNCHANGED <<collector, post, rec, config, alerts>>
      /\ st' = [c \in CChecks |-> IF c \in Assigned
                                  THEN [st[c] EXCEPT !.status = "unknown", !.quiet = TRUE]
                                  ELSE st[c]]
  BY DEF WatchTick
<1>2. st \in [CChecks -> StateRows]
  BY DEF CollInv, Typed
<1>3. \A c \in CChecks :
        /\ st'[c] \in StateRows /\ st'[c].alert = st[c].alert /\ st'[c].failures = st[c].failures
        /\ st'[c].quiet \/ (st'[c].status = st[c].status /\ st'[c].quiet = st[c].quiet)
  <2> SUFFICES ASSUME NEW c \in CChecks
               PROVE  /\ st'[c] \in StateRows /\ st'[c].alert = st[c].alert
                      /\ st'[c].failures = st[c].failures
                      /\ \/ st'[c].quiet
                         \/ st'[c].status = st[c].status /\ st'[c].quiet = st[c].quiet
    OBVIOUS
  <2>1. st[c] \in StateRows
    BY <1>2
  <2>2. CASE c \in Assigned
    BY <1>1, <2>1, <2>2 DEF StateRows
  <2>3. CASE c \notin Assigned
    BY <1>1, <2>1, <2>3
  <2> QED
    BY <2>2, <2>3
<1>4. Told' /\ ToldOnce' /\ AlertIsTold'
  <2> SUFFICES ASSUME NEW c \in CChecks
               PROVE  ToldOf(c)'
    BY ToldOfAllNext
  <2>1. Stands(st[c]) => Stands(st[c])'
    BY <1>1, <1>3 DEF Stands, config
  <2>2. ToldOf(c)
    BY ToldOfAll DEF CollInv
  <2> QED
    BY <1>1, <1>3, <2>1, <2>2 DEF ToldOf, alerts, config
<1>5. Typed' /\ \A h \in Posts : InHand(post[h])'
  <2>1. st' \in [CChecks -> StateRows]
    BY <1>1, <1>3
  <2> QED
    BY <1>1, <2>1, CoveredGrows, RequestKept DEF CollInv, Typed, collector, config, alerts
<1> QED
  BY <1>4, <1>5 DEF CollInv

\* The threshold, the assignment or the permission changes.
LEMMA ConfigureKeeps ==
    ASSUME CollInv, Configure
    PROVE  CollInv'
<1>1. UNCHANGED <<collector, post, st, rec, off, down, mail>>
  BY DEF Configure
<1>2. CASE UNCHANGED <<thr, word>> /\ given' \subseteq CChecks
  <2>1. Typed'
    BY <1>1, <1>2 DEF CollInv, Typed, collector
  <2> QED
    BY <1>1, <1>2, <2>1, ElsewhereKeeps DEF collector, alerts
<1>3. CASE /\ thr' \in 1..CThreshold /\ given' = given
           /\ word' = [c \in CChecks |-> IF st[c].alert /\ thr' > thr THEN "raised" ELSE word[c]]
  <2>1. Typed'
    BY <1>1, <1>3 DEF CollInv, Typed, collector
  <2>2. \A h \in Posts : InHand(post[h])'
    BY <1>1, CoveredGrows, RequestKept DEF collector
  <2>3. Told' /\ ToldOnce' /\ AlertIsTold'
    <3> SUFFICES ASSUME NEW c \in CChecks
                 PROVE  ToldOf(c)'
      BY ToldOfAllNext
    <3>1. ToldOf(c)
      BY ToldOfAll DEF CollInv
    <3>2. word'[c] = IF st[c].alert /\ thr' > thr THEN "raised" ELSE word[c]
      BY <1>3
    <3>3. CASE st[c].alert /\ thr' > thr
      BY <1>1, <3>1, <3>2, <3>3 DEF ToldOf
    <3>4. CASE ~st[c].alert
      BY <1>1, <3>1, <3>2, <3>4 DEF ToldOf, Stands
    <3>5. CASE st[c].alert /\ ~(thr' > thr)
      <4>1. /\ thr \in 1..CThreshold /\ st[c] \in StateRows
            /\ st[c].failures \in 0..CThreshold
        BY DEF CollInv, Typed, StateRows
      <4>2. thr' <= thr
        BY <1>3, <3>5, <4>1, CollectionAssumption
      <4>3. Stands(st[c]) => Stands(st[c])'
        BY <1>1, <1>3, <4>1, <4>2, CollectionAssumption DEF Stands
      <4> QED
        BY <1>1, <3>1, <3>2, <3>5, <4>3 DEF ToldOf
    <3> QED
      BY <3>3, <3>4, <3>5
  <2> QED
    BY <2>1, <2>2, <2>3 DEF CollInv
<1> QED
  BY <1>2, <1>3 DEF Configure, CollInv, Typed

\* A check is turned off or on.
LEMMA TurnKeeps ==
    ASSUME CollInv, NEW c \in CChecks, TurnOff(c) \/ TurnOn(c)
    PROVE  CollInv'
<1>1. /\ UNCHANGED <<collector, post, rec, thr, given, on, down, mail>>
      /\ \A d \in off' : d \in off \/ d = c
  BY DEF TurnOff, TurnOn, alerts
<1>2. /\ st \in [CChecks -> StateRows] /\ mail \in [CChecks -> {"none", "down", "recovered"}]
      /\ word \in [CChecks -> {"none", "down", "raised", "lost", "off"}] /\ ToldOf(c)
  BY ToldOfAll DEF CollInv, Typed
<1>3. /\ st' \in [CChecks -> StateRows]
      /\ word' \in [CChecks -> {"none", "down", "raised", "lost", "off"}]
      /\ \A d \in CChecks \ {c} : st'[d] = st[d] /\ word'[d] = word[d]
      /\ ToldOf(c)'
  <2>1. CASE TurnOff(c)
    <3>1. /\ st' = [st EXCEPT ![c] = [@ EXCEPT !.status = "paused", !.failures = 0,
                                              !.alert = FALSE]]
          /\ word' = [word EXCEPT ![c] = IF mail[c] = "down" THEN "off" ELSE "none"]
      BY <1>2, <2>1 DEF TurnOff, StateRows
    <3>2. 0 \in 0..CThreshold
      BY CollectionAssumption
    <3>3. /\ [st[c] EXCEPT !.status = "paused", !.failures = 0, !.alert = FALSE] \in StateRows
          /\ st'[c].alert = FALSE
      BY <1>2, <3>1, <3>2 DEF StateRows
    <3>4. word'[c] = IF mail[c] = "down" THEN "off" ELSE "none"
      BY <1>2, <3>1
    <3>5. ToldOf(c)'
      BY <1>1, <3>3, <3>4 DEF ToldOf
    <3> QED
      BY <1>2, <3>1, <3>3, <3>5
  <2>2. CASE TurnOn(c)
    <3>1. st' = [st EXCEPT ![c] = [@ EXCEPT !.status = "unknown"]] /\ word' = word /\ c \in off
      BY <1>2, <2>2 DEF TurnOn, StateRows, alerts
    <3>2. /\ [st[c] EXCEPT !.status = "unknown"] \in StateRows
          /\ st'[c].alert = st[c].alert
      BY <1>2, <3>1 DEF StateRows
    <3>3. ~st[c].alert
      BY <1>2, <3>1 DEF ToldOf
    <3>4. ~Stands(st[c])
      BY <3>3 DEF Stands
    <3>5. ToldOf(c)'
      BY <1>1, <1>2, <3>1, <3>2, <3>3, <3>4 DEF ToldOf
    <3> QED
      BY <1>2, <3>1, <3>2, <3>5
  <2> QED
    BY <2>1, <2>2
<1>4. Told' /\ ToldOnce' /\ AlertIsTold'
  <2>1. ASSUME NEW d \in CChecks, d # c PROVE ToldOf(d)'
    BY <1>1, <1>3, <2>1, ToldOfKept
  <2> QED
    BY <1>3, <2>1, ToldOfAllNext
<1>5. off' \subseteq CChecks
  BY <1>1 DEF CollInv, Typed
<1>6. Typed' /\ \A h \in Posts : InHand(post[h])'
  BY <1>1, <1>3, <1>5, CoveredGrows, RequestKept DEF CollInv, Typed, collector
<1> QED
  BY <1>4, <1>6 DEF CollInv

\* The service ends and starts again.
LEMMA RestartKeeps ==
    ASSUME CollInv, Restart
    PROVE  CollInv'
<1>1. /\ post' = [h \in Posts |-> Ended(post[h], "failed")]
      /\ UNCHANGED <<collector, st, rec, config, alerts>>
  BY DEF Restart
<1>2. \A h \in Posts : post'[h] \in Requests /\ InHand(post[h])'
  BY <1>1, EndedInHand DEF collector
<1>3. Typed'
  BY <1>1, <1>2 DEF CollInv, Typed, collector, config, alerts
<1>4. Told' /\ ToldOnce' /\ AlertIsTold'
  <2>1. \A c \in CChecks : ToldOf(c)'
    BY <1>1, ToldOfKept DEF config, alerts
  <2> QED
    BY <2>1, ToldOfAllNext
<1> QED
  BY <1>2, <1>3, <1>4 DEF CollInv

-----------------------------------------------------------------------------
(* The theorems.                                                           *)

\* The invariant holds at first.
LEMMA InitEstablishes == CollInit => CollInv
<1> SUFFICES ASSUME CollInit
             PROVE  CollInv
  OBVIOUS
<1>1. Typed
  <2>1. Fresh \in StateRows
    <3>1. 0 \in 0..CThreshold
      BY CollectionAssumption
    <3> QED
      BY <3>1 DEF Fresh, StateRows
  <2>2. runs = << >> /\ Len(runs) = 0
    BY DEF CollInit
  <2>3. runs \in Seq([check : CChecks, ok : BOOLEAN])
    BY <2>2
  <2> QED
    BY <2>1, <2>2, <2>3, NoPostInHand DEF CollInit, Typed
<1>2. \A h \in Posts : InHand(post[h])
  BY DEF CollInit, InHand, NoPost, Left
<1>3. Told /\ ToldOnce /\ AlertIsTold
  BY DEF CollInit, Told, ToldOnce, AlertIsTold, Fresh
<1> QED
  BY <1>1, <1>2, <1>3 DEF CollInv

\* Every step keeps the invariant.
LEMMA NextKeeps == CollInv /\ [CollNext]_collVars => CollInv'
<1> SUFFICES ASSUME CollInv, [CollNext]_collVars
             PROVE  CollInv'
  OBVIOUS
<1>1. ASSUME NEW c \in CChecks, NEW ok \in BOOLEAN, Run(c, ok) \/ LocalRun(c, ok)
      PROVE  CollInv'
  BY <1>1, RunKeeps, LocalRunKeeps
<1>2. ASSUME NEW c \in CChecks, Delivery(c) \/ TurnOff(c) \/ TurnOn(c)
      PROVE  CollInv'
  BY <1>2, DeliveryKeeps, TurnKeeps
<1>3. CASE Age \/ Assign
  BY <1>3, CollectorKeeps
<1>4. ASSUME NEW h \in Posts, Collect(h)
      PROVE  CollInv'
  BY <1>4, SendKeeps, CollectKeeps DEF Collect
<1>5. ASSUME NEW h \in Posts, Ingest(h)
      PROVE  CollInv'
  BY <1>5, AnswerKeeps, SeenKeeps, DecideKeeps, JudgeNextKeeps, CountNearKeeps, AddHeldKeeps
  DEF Ingest
<1>6. CASE WatchTick \/ Configure \/ Restart
  BY <1>6, WatchTickKeeps, ConfigureKeeps, RestartKeeps
<1>7. CASE UNCHANGED collVars
  <2>1. UNCHANGED <<collector, post, st, rec, config, down, alerts>>
    BY <1>7 DEF collVars
  <2>2. Typed'
    BY <2>1 DEF CollInv, Typed, collector, config, alerts
  <2> QED
    BY <2>1, <2>2, ElsewhereKeeps DEF collector, config
<1> QED
  BY <1>1, <1>2, <1>3, <1>4, <1>5, <1>6, <1>7 DEF CollNext

\* The invariant holds in every reachable state.
THEOREM CollInvariant == CollSpec => []CollInv
<1> QED
  BY InitEstablishes, NextKeeps, PTL DEF CollSpec

\* Every variable keeps its type, and no result is in two hands at once.
THEOREM CollTypes == CollSpec => []CollTypeOK
<1>1. CollInv => CollTypeOK
  <2> SUFFICES ASSUME CollInv
               PROVE  CollTypeOK
    OBVIOUS
  <2>1. \A t \in 1..Len(runs) : runs[t] \in [check : CChecks, ok : BOOLEAN]
    <3> DEFINE Outcomes == [check : CChecks, ok : BOOLEAN]
    <3>1. runs \in Seq(Outcomes)
      BY DEF CollInv, Typed
    <3> HIDE DEF Outcomes
    <3>2. \A t \in 1..Len(runs) : runs[t] \in Outcomes
      BY <3>1
    <3> QED
      BY <3>2 DEF Outcomes
  <2>2. ASSUME NEW h \in Posts
        PROVE  /\ post[h].live \cup post[h].held \cup post[h].refused \cup post[h].unheard
                        \subseteq post[h].batch
               /\ post[h].live \cap post[h].held = {}
               /\ post[h].at = "done" => post[h].verdict \in {"taken", "refused", "failed"}
    <3>1. post[h] \in Requests /\ InHand(post[h])
      BY DEF CollInv, Typed
    <3> QED
      BY <3>1 DEF InHand, Left, Requests
  <2>3. ASSUME NEW c \in CChecks
        PROVE  /\ st[c].status \in {"unknown", "up", "down", "paused"}
               /\ st[c].failures \in 0..CThreshold
               /\ mail[c] \in {"none", "down", "recovered"}
               /\ word[c] \in {"none", "down", "raised", "lost", "off"}
    <3>1. st[c] \in StateRows
      BY DEF CollInv, Typed
    <3> QED
      BY <3>1 DEF StateRows, CollInv, Typed
  <2> QED
    BY <2>1, <2>2, <2>3 DEF CollTypeOK, CollInv, Typed
<1> QED
  BY <1>1, CollInvariant, PTL

\* Of a batch that GWatch says it has taken every result is in the history, itself or
\* by one less than 4/5 of the interval away, but for those rejected one by one and
\* those whose check was turned off before they were judged.
THEOREM TakenAreRecorded == CollSpec => []TakenIsRecorded
<1>1. CollInv => TakenIsRecorded
  <2> SUFFICES ASSUME CollInv, NEW h \in Posts, post[h].verdict = "taken",
                      NEW t \in post[h].batch \ (post[h].refused \cup post[h].unheard)
               PROVE  Near(t) # {}
    BY DEF TakenIsRecorded
  <2>1. t \in Covered
    BY DEF CollInv, InHand, Left
  <2> QED
    BY <2>1 DEF Covered
<1> QED
  BY <1>1, CollInvariant, PTL

\* An outage that people were told of is not told again, also after a quiet spell.
THEOREM OutagesToldOnce == CollSpec => []ToldOnce
<1>1. CollInv => ToldOnce
  BY DEF CollInv
<1> QED
  BY <1>1, CollInvariant, PTL

\* A check whose alert stands has told people, or is telling them.
THEOREM AlertsAreTold == CollSpec => []AlertIsTold
<1>1. CollInv => AlertIsTold
  BY DEF CollInv
<1> QED
  BY <1>1, CollInvariant, PTL

=============================================================================
