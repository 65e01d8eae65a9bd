--------------------------- MODULE SchedulerProofs --------------------------
(***************************************************************************)
(* Theorems about Scheduler, for any checks, goroutines, requests and      *)
(* semaphore sizes: marks have a run that clears them, slots are kept, and *)
(* nothing runs while a restore holds the engine.                          *)
(***************************************************************************)
EXTENDS Scheduler, TLAPS, FiniteSetTheorems

\* A goroutine that is not in use is blank; one that is runs a check for
\* somebody, and a request is not answered before the runs it has started.
RunShape ==
    \A r \in Runs :
        /\ run[r].at = "none" => run[r] = NoRun
        /\ run[r].at # "none" => run[r].by # "nobody" /\ run[r].check \in Checks
        /\ run[r].by = "node" => /\ run[r].call \in NodeCalls
                                 /\ node[run[r].call].at = "admitting"

\* A flight has a run that will land it.
FlightOwned ==
    \A c \in inflight : \E r \in Runs : run[r].check = c /\ Owns(r)

\* Semaphores are taken from only once they have been made.
GensPast ==
    /\ tick.sem <= sem
    /\ \A n \in NodeCalls : node[n].sem <= sem
    /\ \A r \in Runs : run[r].slot <= sem

\* What counts as a unit of work: a run that the schedule or a user has asked
\* for, a request for a node, the tick itself.
Units == Runs \cup NodeCalls \cup {Nobody}
Gated(x) ==
    \/ x \in Runs /\ run[x].by \in {"tick", "user"}
    \/ x \in NodeCalls /\ node[x].at # "idle"
    \/ x = Nobody /\ tick.at # "idle"
Inside == {x \in Units : Gated(x)}

\* The gate counts the units inside, and is empty once Pause has returned.
GateCounts ==
    /\ active = Cardinality(Inside)
    /\ restore # "none" => paused
    /\ restore \in {"restoring", "discarded"} => active = 0

Marks == FlightOwned /\ MarkHasRun
Slots == SlotsKept /\ GensPast
IInv == TypeOK /\ RunShape /\ Marks /\ Slots /\ GateCounts

-----------------------------------------------------------------------------
(* What the actions do to a run and to what it holds.                      *)

\* A goroutine is started on a check.
LEMMA Started ==
    ASSUME TypeOK, NEW r \in Free, NEW b \in {"tick", "user", "node"},
           NEW k \in NodeCalls \cup {Nobody}, NEW c \in Checks,
           NEW g \in Gens \cup {0}
    PROVE  /\ r \in Runs /\ run[r].at = "none"
           /\ [by |-> b, call |-> k, check |-> c, slot |-> g, at |-> "called"] \in Run
           /\ [run EXCEPT ![r] = [by |-> b, call |-> k, check |-> c, slot |-> g,
                                  at |-> "called"]] \in [Runs -> Run]
  BY DEF TypeOK, Free, Run, Stages

\* The goroutines once r has gone on to p.
Going(r, p) == [run EXCEPT ![r].at = p]

\* A goroutine goes from one place to another.
LEMMA Moved ==
    ASSUME TypeOK, NEW r \in Runs, NEW p \in Stages
    PROVE  /\ [run EXCEPT ![r].at = p] \in [Runs -> Run]
           /\ \A q \in Runs :
                /\ [run EXCEPT ![r].at = p][q].slot = run[q].slot
                /\ [run EXCEPT ![r].at = p][q].by = run[q].by
                /\ [run EXCEPT ![r].at = p][q].call = run[q].call
                /\ [run EXCEPT ![r].at = p][q].check = run[q].check
<1> DEFINE To == [run[r] EXCEPT !.at = p]
<1>1. run \in [Runs -> Run] /\ run[r] \in Run
  BY DEF TypeOK
<1>2. To \in Run /\ To.slot = run[r].slot /\ To.by = run[r].by
      /\ To.call = run[r].call /\ To.check = run[r].check /\ To.at = p
  BY <1>1 DEF Run
<1>3. [run EXCEPT ![r].at = p] = [run EXCEPT ![r] = To]
  BY <1>1
<1> HIDE DEF To
<1> QED
  BY <1>1, <1>2, <1>3

\* A flight lands: its run and those that joined it have returned.
LEMMA LandedRuns ==
    ASSUME TypeOK, NEW r \in Runs, NEW c
    PROVE  /\ Landed(c, r) \in [Runs -> Run]
           /\ \A q \in Runs :
                /\ Landed(c, r)[q].slot = run[q].slot
                /\ Landed(c, r)[q].by = run[q].by
                /\ Landed(c, r)[q].call = run[q].call
                /\ Landed(c, r)[q].check = run[q].check
                /\ \/ Landed(c, r)[q] = run[q]
                   \/ /\ Landed(c, r)[q].at = "returned"
                      /\ q = r \/ run[q].at = "joined"
<1> DEFINE Back(q) == [run[q] EXCEPT !.at = "returned"]
<1>1. \A q \in Runs : run[q] \in Run
  BY DEF TypeOK
<1>2. \A q \in Runs : /\ Back(q) \in Run
                      /\ Back(q).slot = run[q].slot /\ Back(q).by = run[q].by
                      /\ Back(q).call = run[q].call /\ Back(q).check = run[q].check
                      /\ Back(q).at = "returned"
  BY <1>1 DEF Run, Stages
<1> HIDE DEF Back
<1>3. \A q \in Runs : Landed(c, r)[q] =
         IF q = r \/ (run[q].at = "joined" /\ run[q].check = c) THEN Back(q) ELSE run[q]
  BY DEF Landed, Back
<1>4. Landed(c, r) = [q \in Runs |-> Landed(c, r)[q]]
  BY DEF Landed
<1> QED
  BY <1>1, <1>2, <1>3, <1>4

-----------------------------------------------------------------------------
(* Types.                                                                  *)

\* What the gate counts is finite, so what leaves it was counted.
LEMMA Counting ==
    ASSUME GateCounts
    PROVE  /\ IsFiniteSet(Inside) /\ Cardinality(Inside) \in Nat
           /\ \A x \in Units : Gated(x) => active - 1 \in Nat
           /\ active = 0 => \A x \in Units : ~Gated(x)
<1>1. IsFiniteSet(Units)
  BY FS_Union, FS_Singleton, SchedulerAssumption DEF Units
<1>2. Inside \subseteq Units
  BY DEF Inside
<1>3. IsFiniteSet(Inside) /\ Cardinality(Inside) \in Nat
  BY <1>1, <1>2, FS_Subset, FS_CardinalityType
<1>4. Cardinality(Inside) = 0 <=> Inside = {}
  BY <1>3, FS_EmptySet
<1>5. \A x \in Units : Gated(x) <=> x \in Inside
  BY DEF Inside
<1> QED
  BY <1>3, <1>4, <1>5 DEF GateCounts

\* A semaphore that a run holds a slot of has a slot taken.
LEMMA Taken ==
    ASSUME TypeOK, SlotsKept, NEW r \in Runs, run[r].slot # 0
    PROVE  run[r].slot \in Gens /\ used[run[r].slot] - 1 \in Nat
<1>1. run[r].slot \in Gens
  BY DEF TypeOK, Run
<1>2. IsFiniteSet(Holders(run[r].slot)) /\ r \in Holders(run[r].slot)
  <2>1. Holders(run[r].slot) \subseteq Runs /\ r \in Holders(run[r].slot)
    BY DEF Holders
  <2> QED
    BY <2>1, FS_Subset, SchedulerAssumption
<1>3. Cardinality(Holders(run[r].slot)) \in Nat \ {0}
  BY <1>2, FS_CardinalityType, FS_EmptySet
<1> QED
  BY <1>1, <1>3 DEF SlotsKept

\* The types are kept by the scheduler's loop, ...
LEMMA TickTypes ==
    ASSUME TypeOK, GateCounts, Tick \/ \E c \in Checks : BecomesDue(c)
    PROVE  TypeOK'
<1> USE DEF config, gate, counts
<1>0. 1 \in Gens
  BY SchedulerAssumption DEF Gens
<1>1. ASSUME NEW c \in Checks, BecomesDue(c) PROVE TypeOK'
  BY <1>1 DEF BecomesDue, TypeOK
<1>2. CASE BeginTick
  BY <1>2 DEF BeginTick, Scheduled, TypeOK
<1>3. CASE EndTick
  BY <1>3 DEF EndTick, TypeOK
<1>4. CASE LeaveTick
  <2>1. active - 1 \in Nat
    BY <1>4, Counting DEF LeaveTick, Gated, Units
  <2> QED
    BY <1>0, <1>4, <2>1 DEF LeaveTick, TypeOK
<1>5. ASSUME NEW c \in Checks, Launch(c) PROVE TypeOK'
  <2>1. tick.sem \in Gens /\ used[tick.sem] + 1 \in Nat
    BY DEF TypeOK
  <2>2. run' \in [Runs -> Run]
    BY <1>5, <2>1, Started DEF Launch
  <2>3. used' \in [Gens -> Nat]
    BY <1>5, <2>1 DEF Launch, TypeOK
  <2>4. tick' \in [at : {"idle", "launching", "leaving"}, todo : SUBSET Checks, sem : Gens]
    BY <1>5 DEF Launch, Listed, TypeOK
  <2>5. active' \in Nat /\ running' \subseteq Checks
    BY <1>5 DEF Launch, TypeOK
  <2> QED
    BY <1>5, <2>2, <2>3, <2>4, <2>5 DEF Launch, TypeOK
<1>6. ASSUME NEW c \in Checks, Refused(c) \/ Busy(c) PROVE TypeOK'
  BY <1>6 DEF Refused, Busy, Listed, TypeOK
<1> QED
  BY <1>1, <1>2, <1>3, <1>4, <1>5, <1>6 DEF Tick

\* ... by what the goroutines do, ...
LEMMA WorkTypes ==
    ASSUME TypeOK, RunShape, SlotsKept, GateCounts, NEW r \in Runs, Work(r)
    PROVE  TypeOK'
<1> USE DEF config, gate, counts
<1>0. /\ run[r].at # "none" => run[r].check \in Checks
      /\ {"joined", "flying", "recorded", "returned"} \subseteq Stages
  BY DEF RunShape, Stages
<1>1. CASE NotRun(r)
  BY <1>0, <1>1, Moved DEF NotRun, TypeOK
<1>2. CASE Fly(r)
  BY <1>0, <1>2, Moved DEF Fly, TypeOK
<1>3. CASE Join(r)
  BY <1>0, <1>3, Moved DEF Join, TypeOK
<1>4. CASE GiveUp(r)
  BY <1>0, <1>4, Moved DEF GiveUp, TypeOK
<1>5. CASE Record(r)
  BY <1>0, <1>5, Moved DEF Record, TypeOK
<1>6. CASE Land(r)
  BY <1>6, LandedRuns DEF Land, TypeOK
<1>7. CASE Release(r)
  <2>1. used' \in [Gens -> Nat]
    BY <1>7, Taken DEF Release, TypeOK
  <2>2. run' \in [Runs -> Run]
    <3>1. run[r] \in Run /\ [run[r] EXCEPT !.slot = 0] \in Run
      BY DEF TypeOK, Run
    <3>2. run' = [run EXCEPT ![r] = [run[r] EXCEPT !.slot = 0]]
      BY <1>7 DEF Release, TypeOK
    <3> QED
      BY <3>1, <3>2 DEF TypeOK
  <2> QED
    BY <1>7, <2>1, <2>2 DEF Release, TypeOK
<1>8. CASE End(r)
  <2>1. NoRun \in Run
    BY DEF NoRun, Run, Stages
  <2>2. active' \in Nat
    <3>1. run[r].by \in {"tick", "user", "node"}
      BY <1>8 DEF End, RunShape, TypeOK, Run
    <3> QED
      BY <1>8, <3>1, Counting DEF End, Gated, Units, TypeOK
  <2> QED
    BY <1>8, <2>1, <2>2 DEF End, TypeOK
<1> QED
  BY <1>1, <1>2, <1>3, <1>4, <1>5, <1>6, <1>7, <1>8 DEF Work

\* ... by requests, ...
LEMMA RequestTypes ==
    ASSUME TypeOK, GateCounts, Request
    PROVE  TypeOK'
<1> USE DEF config, gate, counts
<1>0. 1 \in Gens
  BY SchedulerAssumption DEF Gens
<1>1. ASSUME NEW c \in Checks, RunNow(c) PROVE TypeOK'
  <2>1. run' \in [Runs -> Run]
    BY <1>1, Started DEF RunNow
  <2> QED
    BY <1>1, <2>1 DEF RunNow, TypeOK
<1>2. ASSUME NEW n \in NodeCalls, RunNodeChecks(n) \/ FindChecks(n) \/ StopAdmitting(n)
      PROVE  TypeOK'
  BY <1>2 DEF RunNodeChecks, FindChecks, StopAdmitting, TypeOK
<1>3. ASSUME NEW n \in NodeCalls, Answer(n) PROVE TypeOK'
  <2>1. active - 1 \in Nat
    BY <1>3, Counting DEF Answer, Gated, Units
  <2> QED
    BY <1>0, <1>3, <2>1 DEF Answer, TypeOK
<1>4. ASSUME NEW n \in NodeCalls, NEW c \in Checks, Admit(n, c) PROVE TypeOK'
  <2>1. node[n].sem \in Gens
    BY DEF TypeOK
  <2>2. run' \in [Runs -> Run]
    BY <1>4, <2>1, Started DEF Admit
  <2>3. used' \in [Gens -> Nat] /\ node' \in [NodeCalls ->
           [at : {"idle", "admitted", "admitting"}, todo : SUBSET Checks, sem : Gens]]
    BY <1>4, <2>1 DEF Admit, TypeOK
  <2> QED
    BY <1>4, <2>2, <2>3 DEF Admit, TypeOK
<1> QED
  BY <1>1, <1>2, <1>3, <1>4 DEF Request

\* ... and by changes of the configuration and restores.
LEMMA AdminTypes ==
    ASSUME TypeOK, Admin
    PROVE  TypeOK'
<1> USE DEF config, gate, counts
<1>1. CASE ReloadConfig
  <2>1. /\ sem' \in Gens /\ size' \in [Gens -> Sizes]
    BY <1>1, SchedulerAssumption DEF ReloadConfig, TypeOK, Gens
  <2>2. /\ setting' \in [Checks -> Settings] /\ held' \subseteq Checks
        /\ due' \subseteq held' /\ running' \subseteq Checks
    BY <1>1 DEF ReloadConfig, Kept, TypeOK
  <2> QED
    BY <1>1, <2>1, <2>2 DEF ReloadConfig, TypeOK
<1>2. CASE Pause
  BY <1>2 DEF Pause, TypeOK
<1>3. CASE PauseDone
  BY <1>3 DEF PauseDone, TypeOK
<1>4. CASE DiscardStates
  BY <1>4 DEF DiscardStates, TypeOK
<1>5. CASE Resume
  BY <1>5 DEF Resume, TypeOK
<1> QED
  BY <1>1, <1>2, <1>3, <1>4, <1>5 DEF Admin

-----------------------------------------------------------------------------
(* The shape of runs, and the marks.                                       *)

\* A run that stays in use keeps its shape while the requests stand still.
LEMMA KeepsShape ==
    ASSUME TypeOK, RunShape, node' = node,
           \A q \in Runs :
              \/ run'[q] = run[q]
              \/ /\ run[q].at # "none" /\ run'[q].at # "none"
                 /\ run'[q].by = run[q].by /\ run'[q].call = run[q].call
                 /\ run'[q].check = run[q].check
    PROVE  RunShape'
  BY DEF RunShape

\* Marks are kept by a step that leaves the flights alone and takes neither a
\* run that flies nor one that was called away from its check.
LEMMA KeepsMarks ==
    ASSUME Marks, inflight' = inflight, running' \subseteq running,
           \A q \in Runs :
              \/ run'[q] = run[q]
              \/ run'[q].check = run[q].check /\ run'[q].at = run[q].at
              \/ run'[q].check = run[q].check /\ Owns(q) /\ run'[q].at = "recorded"
              \/ ~Owns(q) /\ run[q].at # "called"
    PROVE  Marks'
  BY DEF Marks, MarkHasRun, FlightOwned, Owns

\* What the scheduler does keeps the shape and the marks: a check it marks has
\* a goroutine that was called.
LEMMA TickMarks ==
    ASSUME TypeOK, RunShape, Marks, Tick \/ \E c \in Checks : BecomesDue(c)
    PROVE  RunShape' /\ Marks'
<1> USE DEF config, gate, counts
<1>1. ASSUME NEW c \in Checks,
             BecomesDue(c) \/ BeginTick \/ EndTick \/ LeaveTick \/ Refused(c) \/ Busy(c)
      PROVE  RunShape' /\ Marks'
  <2>1. run' = run /\ node' = node /\ inflight' = inflight /\ running' = running
    BY <1>1 DEF BecomesDue, BeginTick, EndTick, LeaveTick, Refused, Busy
  <2> QED
    BY <2>1, KeepsShape, KeepsMarks
<1>2. ASSUME BeginTick \/ EndTick \/ LeaveTick PROVE RunShape' /\ Marks'
  <2>1. run' = run /\ node' = node /\ inflight' = inflight /\ running' = running
    BY <1>2 DEF BeginTick, EndTick, LeaveTick
  <2> QED
    BY <2>1, KeepsShape, KeepsMarks
<1>3. ASSUME NEW c \in Checks, Launch(c) PROVE RunShape' /\ Marks'
  <2>1. PICK r \in Free :
          run' = [run EXCEPT ![r] = [by |-> "tick", call |-> Nobody, check |-> c,
                                     slot |-> tick.sem, at |-> "called"]]
    BY <1>3 DEF Launch
  <2>2. /\ r \in Runs /\ run[r].at = "none"
        /\ run'[r] = [by |-> "tick", call |-> Nobody, check |-> c,
                      slot |-> tick.sem, at |-> "called"]
        /\ \A q \in Runs \ {r} : run'[q] = run[q]
    BY <2>1 DEF Free, TypeOK
  <2>3. node' = node /\ inflight' = inflight /\ running' = running \cup {c}
    BY <1>3 DEF Launch
  <2>4. RunShape'
    BY <2>2, <2>3 DEF RunShape
  <2>5. FlightOwned'
    BY <2>2, <2>3 DEF Marks, FlightOwned, Owns
  <2>6. MarkHasRun'
    BY <2>2, <2>3 DEF Marks, MarkHasRun, Owns
  <2> QED
    BY <2>4, <2>5, <2>6 DEF Marks
<1> QED
  BY <1>1, <1>2, <1>3 DEF Tick

\* What a goroutine does keeps them: it marks what it flies, and clears the
\* mark when it lands or finds nothing to fly.
LEMMA WorkMarks ==
    ASSUME TypeOK, RunShape, Marks, NEW r \in Runs, Work(r)
    PROVE  RunShape' /\ Marks'
<1> USE DEF config, gate, counts
<1>0. {"joined", "flying", "recorded", "returned"} \subseteq Stages
  BY DEF Stages
<1>1. ASSUME NEW p \in Stages \ {"none"}, run' = Going(r, p),
             run[r].at # "none", node' = node
      PROVE  RunShape' /\ run'[r].at = p /\ run'[r].check = run[r].check
                       /\ \A q \in Runs \ {r} : run'[q] = run[q]
  <2>1. /\ \A q \in Runs \ {r} : run'[q] = run[q]
        /\ run'[r].at = p
    BY <1>1 DEF TypeOK, Run, Going
  <2>2. run'[r].by = run[r].by /\ run'[r].call = run[r].call
        /\ run'[r].check = run[r].check
    BY <1>1, Moved DEF Going
  <2> QED
    BY <1>1, <2>1, <2>2, KeepsShape
<1>2. CASE NotRun(r)
  <2>1. /\ RunShape' /\ run'[r].at = "returned" /\ run'[r].check = run[r].check
        /\ \A q \in Runs \ {r} : run'[q] = run[q]
    <3>1. run' = Going(r, "returned") /\ node' = node /\ run[r].at # "none"
      BY <1>2 DEF NotRun, Going
    <3> QED
      BY <1>0, <1>1, <3>1
  <2>2. inflight' = inflight /\ running' = running \ {run[r].check}
        /\ run[r].at = "called"
    BY <1>2 DEF NotRun
  <2> QED
    BY <2>1, <2>2 DEF Marks, MarkHasRun, FlightOwned, Owns
<1>3. CASE Fly(r)
  <2>1. /\ RunShape' /\ run'[r].at = "flying" /\ run'[r].check = run[r].check
        /\ \A q \in Runs \ {r} : run'[q] = run[q]
    <3>1. run' = Going(r, "flying") /\ node' = node /\ run[r].at # "none"
      BY <1>3 DEF Fly, Going
    <3> QED
      BY <1>0, <1>1, <3>1
  <2>2. /\ inflight' = inflight \cup {run[r].check}
        /\ running' = running \cup {run[r].check}
    BY <1>3 DEF Fly
  <2>3. FlightOwned'
    BY <2>1, <2>2 DEF Marks, FlightOwned, Owns
  <2>4. MarkHasRun'
    BY <2>1, <2>2 DEF Marks, MarkHasRun, Owns
  <2> QED
    BY <2>1, <2>3, <2>4 DEF Marks
<1>4. CASE Join(r)
  <2>1. /\ RunShape' /\ run'[r].at = "joined" /\ run'[r].check = run[r].check
        /\ \A q \in Runs \ {r} : run'[q] = run[q]
    <3>1. run' = Going(r, "joined") /\ node' = node /\ run[r].at # "none"
      BY <1>4 DEF Join, Going
    <3> QED
      BY <1>0, <1>1, <3>1
  <2>2. /\ inflight' = inflight /\ running' = running
        /\ run[r].at = "called" /\ run[r].check \in inflight
    BY <1>4 DEF Join
  <2>3. FlightOwned'
    BY <2>1, <2>2 DEF Marks, FlightOwned, Owns
  <2>4. MarkHasRun'
    \* The mark of the check joined is cleared by the run that flies it.
    BY <2>1, <2>2, <2>3 DEF Marks, FlightOwned, MarkHasRun, Owns
  <2> QED
    BY <2>1, <2>3, <2>4 DEF Marks
<1>5. CASE GiveUp(r)
  <2>1. /\ RunShape' /\ run'[r].at = "returned" /\ run'[r].check = run[r].check
        /\ \A q \in Runs \ {r} : run'[q] = run[q]
    <3>1. run' = Going(r, "returned") /\ node' = node /\ run[r].at # "none"
      BY <1>5 DEF GiveUp, Going
    <3> QED
      BY <1>0, <1>1, <3>1
  <2>2. inflight' = inflight /\ running' = running /\ run[r].at = "joined"
    BY <1>5 DEF GiveUp
  <2> QED
    BY <2>1, <2>2, KeepsMarks DEF Owns
<1>6. CASE Record(r)
  <2>1. /\ RunShape' /\ run'[r].at = "recorded" /\ run'[r].check = run[r].check
        /\ \A q \in Runs \ {r} : run'[q] = run[q]
    <3>1. run' = Going(r, "recorded") /\ node' = node /\ run[r].at # "none"
      BY <1>6 DEF Record, Going
    <3> QED
      BY <1>0, <1>1, <3>1
  <2>2. inflight' = inflight /\ running' = running /\ Owns(r)
    BY <1>6 DEF Record, Owns
  <2> QED
    BY <2>1, <2>2, KeepsMarks
<1>7. CASE Land(r)
  <2> DEFINE c == run[r].check
  <2>1. /\ inflight' = inflight \ {c} /\ running' = running \ {c}
        /\ run' = Landed(c, r) /\ node' = node /\ Owns(r)
    BY <1>7 DEF Land
  <2>2. \A q \in Runs :
          /\ run'[q].by = run[q].by /\ run'[q].call = run[q].call
          /\ run'[q].check = run[q].check
          /\ \/ run'[q] = run[q]
             \/ run'[q].at = "returned" /\ (q = r \/ run[q].at = "joined")
    BY <2>1, LandedRuns
  <2>3. RunShape'
    BY <2>1, <2>2, KeepsShape DEF Owns
  <2>4. FlightOwned'
    BY <2>1, <2>2 DEF Marks, FlightOwned, Owns
  <2>5. MarkHasRun'
    BY <2>1, <2>2 DEF Marks, MarkHasRun, Owns
  <2> QED
    BY <2>3, <2>4, <2>5 DEF Marks
<1>8. CASE Release(r)
  <2>1. /\ \A q \in Runs \ {r} : run'[q] = run[q]
        /\ run'[r].at = run[r].at /\ run'[r].by = run[r].by
        /\ run'[r].call = run[r].call /\ run'[r].check = run[r].check
    BY <1>8 DEF Release, TypeOK, Run
  <2>2. /\ inflight' = inflight /\ running' = running /\ node' = node
        /\ run[r].at = "returned"
    BY <1>8 DEF Release
  <2> QED
    BY <2>1, <2>2, KeepsShape, KeepsMarks
<1>9. CASE End(r)
  <2>1. /\ run'[r] = NoRun /\ \A q \in Runs \ {r} : run'[q] = run[q]
        /\ run[r].at = "returned"
        /\ inflight' = inflight /\ running' = running /\ node' = node
    BY <1>9 DEF End, TypeOK
  <2>2. RunShape'
    BY <2>1 DEF RunShape, NoRun
  <2> QED
    BY <2>1, <2>2, KeepsMarks DEF Owns
<1> QED
  BY <1>2, <1>3, <1>4, <1>5, <1>6, <1>7, <1>8, <1>9 DEF Work

\* So do requests: the goroutines they start mark nothing yet, and a request
\* is answered when none of its runs is left.
LEMMA RequestMarks ==
    ASSUME TypeOK, RunShape, Marks, Request
    PROVE  RunShape' /\ Marks'
<1> USE DEF config, gate, counts
<1>1. ASSUME NEW c \in Checks, RunNow(c) PROVE RunShape' /\ Marks'
  <2>1. PICK r \in Free :
          run' = [run EXCEPT ![r] = [by |-> "user", call |-> Nobody, check |-> c,
                                     slot |-> 0, at |-> "called"]]
    BY <1>1 DEF RunNow
  <2>2. /\ r \in Runs /\ run[r].at = "none"
        /\ run'[r] = [by |-> "user", call |-> Nobody, check |-> c, slot |-> 0,
                      at |-> "called"]
        /\ \A q \in Runs \ {r} : run'[q] = run[q]
    BY <2>1 DEF Free, TypeOK
  <2>3. node' = node /\ inflight' = inflight /\ running' = running
    BY <1>1 DEF RunNow
  <2>4. RunShape'
    BY <2>2, <2>3 DEF RunShape
  <2> QED
    BY <2>2, <2>3, <2>4, KeepsMarks DEF Owns
<1>2. ASSUME NEW n \in NodeCalls, NEW c \in Checks, Admit(n, c) PROVE RunShape' /\ Marks'
  <2>1. PICK r \in Free :
          run' = [run EXCEPT ![r] = [by |-> "node", call |-> n, check |-> c,
                                     slot |-> node[n].sem, at |-> "called"]]
    BY <1>2 DEF Admit
  <2>2. /\ r \in Runs /\ run[r].at = "none"
        /\ run'[r] = [by |-> "node", call |-> n, check |-> c,
                      slot |-> node[n].sem, at |-> "called"]
        /\ \A q \in Runs \ {r} : run'[q] = run[q]
    BY <2>1 DEF Free, TypeOK
  <2>3. /\ \A m \in NodeCalls : node'[m].at = node[m].at
        /\ inflight' = inflight /\ running' = running
    BY <1>2 DEF Admit, TypeOK
  <2>4. node[n].at = "admitting"
    BY <1>2 DEF Admit
  <2>5. RunShape'
    BY <2>2, <2>3, <2>4 DEF RunShape
  <2> QED
    BY <2>2, <2>3, <2>5, KeepsMarks DEF Owns
<1>3. ASSUME NEW n \in NodeCalls,
             RunNodeChecks(n) \/ FindChecks(n) \/ StopAdmitting(n) \/ Answer(n)
      PROVE  RunShape' /\ Marks'
  <2>1. run' = run /\ inflight' = inflight /\ running' = running
    BY <1>3 DEF RunNodeChecks, FindChecks, StopAdmitting, Answer
  <2>2. /\ \A m \in NodeCalls \ {n} : node'[m] = node[m]
        /\ \/ node'[n].at = "admitting"
           \/ node[n].at # "admitting"
           \/ \A r \in Runs : run[r].call # n
    BY <1>3 DEF RunNodeChecks, FindChecks, StopAdmitting, Answer, TypeOK
  <2>3. RunShape'
    BY <2>1, <2>2 DEF RunShape
  <2> QED
    BY <2>1, <2>3, KeepsMarks
<1> QED
  BY <1>1, <1>2, <1>3 DEF Request

\* Reloads and restores only take marks away.
LEMMA AdminMarks ==
    ASSUME TypeOK, RunShape, Marks, Admin
    PROVE  RunShape' /\ Marks'
<1>1. run' = run /\ node' = node /\ inflight' = inflight /\ running' \subseteq running
  BY DEF Admin, ReloadConfig, Pause, PauseDone, DiscardStates, Resume, config, gate,
         counts
<1> QED
  BY <1>1, KeepsShape, KeepsMarks

-----------------------------------------------------------------------------
(* The slots.                                                              *)

\* A step that moves no slot and makes no semaphore.
LEMMA SameSlots ==
    ASSUME TypeOK, Slots, used' = used, size' = size, sem' = sem,
           \A r \in Runs : run'[r].slot = run[r].slot,
           tick'.sem \in {1, tick.sem, sem},
           \A n \in NodeCalls : node'[n].sem \in {1, node[n].sem, sem}
    PROVE  Slots'
<1>1. \A g \in Gens : Holders(g)' = Holders(g)
  BY DEF Holders
<1>2. 1 <= sem /\ sem \in Nat
  BY SchedulerAssumption DEF TypeOK, Gens
<1> QED
  BY <1>1, <1>2 DEF Slots, SlotsKept, GensPast

\* A goroutine is started with a slot of g.
LEMMA SlotTaken ==
    ASSUME TypeOK, RunShape, Slots, NEW r \in Runs, NEW g \in Gens, g <= sem,
           run[r].at = "none", HasSlot(g), run'[r].slot = g,
           \A q \in Runs \ {r} : run'[q].slot = run[q].slot,
           used' = [used EXCEPT ![g] = @ + 1], size' = size, sem' = sem,
           tick'.sem = tick.sem, \A n \in NodeCalls : node'[n].sem = node[n].sem
    PROVE  Slots'
<1>1. run[r].slot = 0 /\ 0 \notin Gens
  BY DEF RunShape, NoRun, Gens
<1>2. /\ Holders(g)' = Holders(g) \cup {r} /\ r \notin Holders(g)
      /\ \A h \in Gens \ {g} : Holders(h)' = Holders(h)
  BY <1>1 DEF Holders
<1>3. IsFiniteSet(Holders(g))
  <2>1. Holders(g) \subseteq Runs
    BY DEF Holders
  <2> QED
    BY <2>1, FS_Subset, SchedulerAssumption
<1>4. Cardinality(Holders(g)') = Cardinality(Holders(g)) + 1
  BY <1>2, <1>3, FS_AddElement
<1>5. used[g] \in Nat /\ size[g] \in Nat /\ used[g] < size[g]
  BY SchedulerAssumption DEF HasSlot, TypeOK
<1>6. SlotsKept'
  <2>1. /\ used'[g] = used[g] + 1
        /\ \A h \in Gens \ {g} : used'[h] = used[h]
    BY DEF TypeOK
  <2>2. \A h \in Gens : used[h] = Cardinality(Holders(h)) /\ used[h] <= size[h]
    BY DEF Slots, SlotsKept
  <2>3. used'[g] = Cardinality(Holders(g)') /\ used'[g] <= size'[g]
    BY <1>4, <1>5, <2>1, <2>2
  <2>4. \A h \in Gens \ {g} :
          used'[h] = Cardinality(Holders(h)') /\ used'[h] <= size'[h]
    BY <1>2, <2>1, <2>2
  <2> QED
    BY <2>3, <2>4 DEF SlotsKept
<1>7. GensPast'
  BY DEF Slots, GensPast
<1> QED
  BY <1>6, <1>7 DEF Slots

\* A goroutine gives its slot back.
LEMMA SlotReturned ==
    ASSUME TypeOK, Slots, NEW r \in Runs, Release(r)
    PROVE  Slots'
<1>0. PICK g \in Gens : g = run[r].slot /\ g # 0
  BY Taken DEF Release, Slots
<1>1. /\ 0 \notin Gens /\ run'[r].slot = 0
      /\ \A q \in Runs \ {r} : run'[q].slot = run[q].slot
  BY DEF Release, TypeOK, Run, Gens
<1>2. /\ Holders(g)' = Holders(g) \ {r} /\ r \in Holders(g)
      /\ \A h \in Gens \ {g} : Holders(h)' = Holders(h)
  BY <1>0, <1>1 DEF Holders
<1>3. IsFiniteSet(Holders(g))
  <2>1. Holders(g) \subseteq Runs
    BY DEF Holders
  <2> QED
    BY <2>1, FS_Subset, SchedulerAssumption
<1>4. Cardinality(Holders(g)') = Cardinality(Holders(g)) - 1
  BY <1>2, <1>3, FS_RemoveElement
<1>5. used[g] \in Nat /\ size[g] \in Nat
  BY <1>0, SchedulerAssumption DEF TypeOK
<1>6. /\ used' = [used EXCEPT ![g] = @ - 1] /\ size' = size /\ sem' = sem
      /\ tick' = tick /\ node' = node
  BY <1>0 DEF Release, config
<1>7. SlotsKept'
  <2>1. /\ used'[g] = used[g] - 1
        /\ \A h \in Gens \ {g} : used'[h] = used[h]
    BY <1>6 DEF TypeOK
  <2>2. \A h \in Gens : used[h] = Cardinality(Holders(h)) /\ used[h] <= size[h]
    BY DEF Slots, SlotsKept
  <2>3. used'[g] = Cardinality(Holders(g)') /\ used'[g] <= size'[g]
    BY <1>4, <1>5, <1>6, <2>1, <2>2
  <2>4. \A h \in Gens \ {g} :
          used'[h] = Cardinality(Holders(h)') /\ used'[h] <= size'[h]
    BY <1>2, <1>6, <2>1, <2>2
  <2> QED
    BY <2>3, <2>4 DEF SlotsKept
<1>8. GensPast'
  <2>1. sem \in Nat
    BY DEF TypeOK, Gens
  <2> QED
    BY <1>1, <1>6, <2>1 DEF Slots, GensPast
<1> QED
  BY <1>7, <1>8 DEF Slots

\* A semaphore is made: nobody can hold a slot of it, and those of the old
\* one stay where they are.
LEMMA SlotsReloaded ==
    ASSUME TypeOK, Slots, ReloadConfig
    PROVE  Slots'
<1> USE DEF config, gate, counts
<1>1. used' = used /\ run' = run /\ tick' = tick /\ node' = node
  BY DEF ReloadConfig
<1>2. CASE UNCHANGED <<sem, size>>
  BY <1>1, <1>2, SameSlots
<1>3. CASE sem' = sem + 1 /\ \E s \in Sizes : size' = [size EXCEPT ![sem + 1] = s]
  <2>1. sem \in Nat /\ tick.sem \in Nat /\ (\A n \in NodeCalls : node[n].sem \in Nat)
        /\ \A r \in Runs : run[r].slot \in Nat
    BY DEF TypeOK, Gens, Run
  <2>2. GensPast'
    BY <1>1, <1>3, <2>1 DEF Slots, GensPast
  <2>3. Holders(sem + 1) = {}
    BY <2>1 DEF Slots, GensPast, Holders
  <2>4. \A g \in Gens : Holders(g)' = Holders(g)
    BY <1>1 DEF Holders
  <2>5. \A g \in Gens : used[g] = Cardinality(Holders(g)) /\ used[g] <= size[g]
    BY DEF Slots, SlotsKept
  <2>6. \A g \in Gens \ {sem + 1} : size'[g] = size[g]
    BY <1>3 DEF TypeOK
  <2>7. sem + 1 \in Gens => used[sem + 1] = 0 /\ size'[sem + 1] \in Nat \ {0}
    BY <1>3, <2>3, <2>5, FS_EmptySet, SchedulerAssumption DEF TypeOK
  <2>8. SlotsKept'
    BY <1>1, <2>4, <2>5, <2>6, <2>7 DEF SlotsKept
  <2> QED
    BY <2>2, <2>8 DEF Slots
<1> QED
  BY <1>2, <1>3 DEF ReloadConfig

\* Every step keeps the slots.
LEMMA TickSlots ==
    ASSUME TypeOK, RunShape, Slots, Tick \/ \E c \in Checks : BecomesDue(c)
    PROVE  Slots'
<1> USE DEF config, gate, counts
<1>1. ASSUME NEW c \in Checks, BecomesDue(c) \/ Refused(c) \/ Busy(c) PROVE Slots'
  <2>1. /\ run' = run /\ used' = used /\ size' = size /\ sem' = sem /\ node' = node
        /\ tick'.sem = tick.sem
    BY <1>1 DEF BecomesDue, Refused, Busy, Listed, TypeOK
  <2> QED
    BY <2>1, SameSlots
<1>2. CASE BeginTick \/ EndTick \/ LeaveTick
  <2>1. /\ run' = run /\ used' = used /\ size' = size /\ sem' = sem /\ node' = node
    BY <1>2 DEF BeginTick, EndTick, LeaveTick
  <2>2. tick'.sem \in {1, tick.sem, sem}
    <3>1. CASE BeginTick
      BY <3>1 DEF BeginTick
    <3>2. CASE EndTick
      BY <3>2 DEF EndTick, TypeOK
    <3>3. CASE LeaveTick
      BY <3>3 DEF LeaveTick, TypeOK
    <3> QED
      BY <1>2, <3>1, <3>2, <3>3
  <2> QED
    BY <2>1, <2>2, SameSlots
<1>3. ASSUME NEW c \in Checks, Launch(c) PROVE Slots'
  <2>1. PICK r \in Free :
          run' = [run EXCEPT ![r] = [by |-> "tick", call |-> Nobody, check |-> c,
                                     slot |-> tick.sem, at |-> "called"]]
    BY <1>3 DEF Launch
  <2>2. /\ r \in Runs /\ run[r].at = "none" /\ run'[r].slot = tick.sem
        /\ \A q \in Runs \ {r} : run'[q].slot = run[q].slot
    BY <2>1 DEF Free, TypeOK
  <2>3. /\ used' = [used EXCEPT ![tick.sem] = @ + 1] /\ size' = size /\ sem' = sem
        /\ node' = node /\ tick'.sem = tick.sem /\ HasSlot(tick.sem)
    BY <1>3 DEF Launch, Listed, TypeOK
  <2>4. PICK g \in Gens : g = tick.sem /\ g <= sem
    BY DEF TypeOK, Slots, GensPast
  <2> QED
    BY <2>2, <2>3, <2>4, SlotTaken
<1> QED
  BY <1>1, <1>2, <1>3 DEF Tick

\* The steps of a run keep its slot or give it back to the semaphore it is of.
LEMMA WorkSlots ==
    ASSUME TypeOK, RunShape, Slots, NEW r \in Runs, Work(r)
    PROVE  Slots'
<1> USE DEF config, gate, counts
<1>0. {"joined", "flying", "recorded", "returned"} \subseteq Stages
  BY DEF Stages
<1>1. CASE NotRun(r) \/ Fly(r) \/ Join(r) \/ GiveUp(r) \/ Record(r) \/ Land(r)
  <2>1. /\ used' = used /\ size' = size /\ sem' = sem /\ node' = node /\ tick' = tick
        /\ \/ run' = Landed(run[r].check, r)
           \/ \E p \in Stages : run' = Going(r, p)
    BY <1>0, <1>1 DEF NotRun, Fly, Join, GiveUp, Record, Land, Going
  <2>2. ASSUME NEW p \in Stages, run' = Going(r, p)
        PROVE  \A q \in Runs : run'[q].slot = run[q].slot
    BY <2>2, Moved DEF Going
  <2>3. \A q \in Runs : run'[q].slot = run[q].slot
    BY <2>1, <2>2, LandedRuns
  <2> QED
    BY <2>1, <2>3, SameSlots
<1>2. CASE Release(r)
  BY <1>2, SlotReturned
<1>3. CASE End(r)
  <2>1. /\ used' = used /\ size' = size /\ sem' = sem /\ node' = node /\ tick' = tick
        /\ \A q \in Runs : run'[q].slot = run[q].slot
    BY <1>3 DEF End, NoRun, TypeOK
  <2> QED
    BY <2>1, SameSlots
<1> QED
  BY <1>1, <1>2, <1>3 DEF Work

\* What is asked for by users takes no slot before its run has one.
LEMMA RequestSlots ==
    ASSUME TypeOK, RunShape, Slots, Request
    PROVE  Slots'
<1> USE DEF config, gate, counts
<1>1. ASSUME NEW c \in Checks, RunNow(c) PROVE Slots'
  <2>1. PICK r \in Free :
          run' = [run EXCEPT ![r] = [by |-> "user", call |-> Nobody, check |-> c,
                                     slot |-> 0, at |-> "called"]]
    BY <1>1 DEF RunNow
  <2>2. \A q \in Runs : run'[q].slot = run[q].slot
    BY <2>1 DEF Free, RunShape, NoRun, TypeOK
  <2>3. used' = used /\ size' = size /\ sem' = sem /\ node' = node /\ tick' = tick
    BY <1>1 DEF RunNow
  <2> QED
    BY <2>2, <2>3, SameSlots
<1>2. ASSUME NEW n \in NodeCalls,
             RunNodeChecks(n) \/ FindChecks(n) \/ StopAdmitting(n) \/ Answer(n)
      PROVE  Slots'
  <2>1. /\ run' = run /\ used' = used /\ size' = size /\ sem' = sem /\ tick' = tick
        /\ \A m \in NodeCalls : node'[m].sem \in {1, node[m].sem, sem}
    BY <1>2 DEF RunNodeChecks, FindChecks, StopAdmitting, Answer, TypeOK
  <2> QED
    BY <2>1, SameSlots
<1>3. ASSUME NEW n \in NodeCalls, NEW c \in Checks, Admit(n, c) PROVE Slots'
  <2>1. PICK r \in Free :
          run' = [run EXCEPT ![r] = [by |-> "node", call |-> n, check |-> c,
                                     slot |-> node[n].sem, at |-> "called"]]
    BY <1>3 DEF Admit
  <2>2. /\ r \in Runs /\ run[r].at = "none" /\ run'[r].slot = node[n].sem
        /\ \A q \in Runs \ {r} : run'[q].slot = run[q].slot
    BY <2>1 DEF Free, TypeOK
  <2>3. /\ used' = [used EXCEPT ![node[n].sem] = @ + 1] /\ size' = size /\ sem' = sem
        /\ tick' = tick /\ HasSlot(node[n].sem)
        /\ \A m \in NodeCalls : node'[m].sem = node[m].sem
    BY <1>3 DEF Admit, TypeOK
  <2>4. PICK g \in Gens : g = node[n].sem /\ g <= sem
    BY DEF TypeOK, Slots, GensPast
  <2> QED
    BY <2>2, <2>3, <2>4, SlotTaken
<1> QED
  BY <1>1, <1>2, <1>3 DEF Request

\* A reload makes a new semaphore and leaves the old ones to their runs.
LEMMA AdminSlots ==
    ASSUME TypeOK, Slots, Admin
    PROVE  Slots'
<1>1. CASE ReloadConfig
  BY <1>1, SlotsReloaded
<1>2. CASE Pause \/ PauseDone \/ DiscardStates \/ Resume
  <2>1. /\ run' = run /\ used' = used /\ size' = size /\ sem' = sem
        /\ node' = node /\ tick' = tick
    BY <1>2 DEF Pause, PauseDone, DiscardStates, Resume, config
  <2> QED
    BY <2>1, SameSlots
<1> QED
  BY <1>1, <1>2 DEF Admin

-----------------------------------------------------------------------------
(* The gate.                                                               *)

\* A step that nothing enters or leaves by.
LEMMA SameGate ==
    ASSUME GateCounts, active' = active, paused' = paused, restore' = restore,
           \A x \in Units : Gated(x)' <=> Gated(x)
    PROVE  GateCounts'
<1>1. Inside' = Inside
  BY DEF Inside, Units
<1> QED
  BY <1>1 DEF GateCounts

\* A unit of work enters while the gate is open.
LEMMA UnitEnters ==
    ASSUME TypeOK, GateCounts, NEW x \in Units, ~paused, ~Gated(x), Gated(x)',
           \A y \in Units \ {x} : Gated(y)' <=> Gated(y),
           active' = active + 1, paused' = paused, restore' = restore
    PROVE  GateCounts'
<1>1. Inside' = Inside \cup {x} /\ x \notin Inside
  BY DEF Inside, Units
<1>2. IsFiniteSet(Inside)
  BY Counting
<1>3. Cardinality(Inside') = Cardinality(Inside) + 1
  BY <1>1, <1>2, FS_AddElement
<1>4. restore = "none"
  BY DEF GateCounts
<1> QED
  BY <1>3, <1>4 DEF GateCounts

\* A unit of work leaves; until then Pause has not returned.
LEMMA UnitLeaves ==
    ASSUME TypeOK, GateCounts, NEW x \in Units, Gated(x), ~Gated(x)',
           \A y \in Units \ {x} : Gated(y)' <=> Gated(y),
           active' = active - 1, paused' = paused, restore' = restore
    PROVE  GateCounts'
<1>1. Inside' = Inside \ {x} /\ x \in Inside
  BY DEF Inside, Units
<1>2. IsFiniteSet(Inside) /\ active # 0
  BY Counting
<1>3. Cardinality(Inside') = Cardinality(Inside) - 1
  BY <1>1, <1>2, FS_RemoveElement
<1>4. restore \notin {"restoring", "discarded"}
  BY <1>2 DEF GateCounts
<1> QED
  BY <1>3, <1>4 DEF GateCounts

\* Every step keeps the count.
LEMMA TickGate ==
    ASSUME TypeOK, RunShape, GateCounts, Tick \/ \E c \in Checks : BecomesDue(c)
    PROVE  GateCounts'
<1> USE DEF config, gate, counts
<1>0. Nobody \in Units /\ Nobody \notin Runs /\ Nobody \notin NodeCalls
  BY SchedulerAssumption DEF Units
<1>1. ASSUME NEW c \in Checks, BecomesDue(c) \/ Refused(c) \/ Busy(c) PROVE GateCounts'
  <2>1. /\ run' = run /\ node' = node /\ tick'.at = tick.at
        /\ active' = active /\ paused' = paused /\ restore' = restore
    BY <1>1 DEF BecomesDue, Refused, Busy, Listed, TypeOK
  <2> QED
    BY <2>1, SameGate DEF Gated
<1>2. CASE BeginTick
  <2>1. /\ run' = run /\ node' = node /\ tick.at = "idle" /\ tick'.at = "launching"
        /\ ~paused /\ active' = active + 1 /\ paused' = paused /\ restore' = restore
    BY <1>2 DEF BeginTick
  <2>2. ~Gated(Nobody) /\ Gated(Nobody)'
        /\ \A y \in Units \ {Nobody} : Gated(y)' <=> Gated(y)
    BY <1>0, <2>1 DEF Gated
  <2> QED
    BY <1>0, <2>1, <2>2, UnitEnters
<1>3. CASE EndTick
  <2>1. /\ run' = run /\ node' = node /\ tick.at = "launching" /\ tick'.at = "leaving"
        /\ active' = active /\ paused' = paused /\ restore' = restore
    BY <1>3 DEF EndTick, TypeOK
  <2> QED
    BY <2>1, SameGate DEF Gated
<1>4. CASE LeaveTick
  <2>1. /\ run' = run /\ node' = node /\ tick.at = "leaving" /\ tick'.at = "idle"
        /\ active' = active - 1 /\ paused' = paused /\ restore' = restore
    BY <1>4 DEF LeaveTick, TypeOK
  <2>2. Gated(Nobody) /\ ~Gated(Nobody)'
        /\ \A y \in Units \ {Nobody} : Gated(y)' <=> Gated(y)
    BY <1>0, <2>1 DEF Gated
  <2> QED
    BY <1>0, <2>1, <2>2, UnitLeaves
<1>5. ASSUME NEW c \in Checks, Launch(c) PROVE GateCounts'
  <2>1. PICK r \in Free :
          run' = [run EXCEPT ![r] = [by |-> "tick", call |-> Nobody, check |-> c,
                                     slot |-> tick.sem, at |-> "called"]]
    BY <1>5 DEF Launch
  <2>2. /\ r \in Units /\ r \in Runs /\ r \notin NodeCalls /\ r # Nobody
        /\ run[r].by = "nobody" /\ run'[r].by = "tick"
        /\ \A q \in Runs \ {r} : run'[q] = run[q]
    BY <2>1, SchedulerAssumption DEF Free, TypeOK, RunShape, NoRun, Units
  <2>3. /\ node' = node /\ tick'.at = tick.at
        /\ ~paused /\ active' = active + 1 /\ paused' = paused /\ restore' = restore
    BY <1>5 DEF Launch, Listed, TypeOK
  <2>4. ~Gated(r) /\ Gated(r)' /\ \A y \in Units \ {r} : Gated(y)' <=> Gated(y)
    BY <2>2, <2>3 DEF Gated
  <2> QED
    BY <2>2, <2>3, <2>4, UnitEnters
<1> QED
  BY <1>1, <1>2, <1>3, <1>4, <1>5 DEF Tick

\* The steps of a run keep the gate's count, but for the end of one that was counted.
LEMMA WorkGate ==
    ASSUME TypeOK, RunShape, GateCounts, NEW r \in Runs, Work(r)
    PROVE  GateCounts'
<1> USE DEF config, gate, counts
<1>0. {"joined", "flying", "recorded", "returned"} \subseteq Stages
  BY DEF Stages
<1>1. CASE NotRun(r) \/ Fly(r) \/ Join(r) \/ GiveUp(r) \/ Record(r) \/ Land(r)
  <2>1. /\ node' = node /\ tick' = tick
        /\ active' = active /\ paused' = paused /\ restore' = restore
        /\ \/ run' = Landed(run[r].check, r)
           \/ \E p \in Stages : run' = Going(r, p)
    BY <1>0, <1>1 DEF NotRun, Fly, Join, GiveUp, Record, Land, Going
  <2>2. ASSUME NEW p \in Stages, run' = Going(r, p)
        PROVE  \A q \in Runs : run'[q].by = run[q].by
    BY <2>2, Moved DEF Going
  <2>3. \A q \in Runs : run'[q].by = run[q].by
    BY <2>1, <2>2, LandedRuns
  <2> QED
    BY <2>1, <2>3, SameGate DEF Gated
<1>2. CASE Release(r)
  <2>1. /\ node' = node /\ tick' = tick
        /\ active' = active /\ paused' = paused /\ restore' = restore
    BY <1>2 DEF Release
  <2>2. \A q \in Runs : run'[q].by = run[q].by
    BY <1>2 DEF Release, TypeOK, Run
  <2> QED
    BY <2>1, <2>2, SameGate DEF Gated
<1>3. CASE End(r)
  <2>1. /\ r \in Units /\ r \notin NodeCalls /\ r # Nobody
        /\ run'[r].by = "nobody" /\ \A q \in Runs \ {r} : run'[q] = run[q]
        /\ node' = node /\ tick' = tick /\ paused' = paused /\ restore' = restore
    BY <1>3, SchedulerAssumption DEF End, NoRun, TypeOK, Units
  <2>2. CASE run[r].by = "node"
    <3>1. active' = active
      BY <1>3, <2>2 DEF End
    <3> QED
      BY <2>1, <2>2, <3>1, SameGate DEF Gated
  <2>3. CASE run[r].by \in {"tick", "user"}
    <3>1. active' = active - 1
      BY <1>3, <2>3 DEF End
    <3>2. Gated(r) /\ ~Gated(r)' /\ \A y \in Units \ {r} : Gated(y)' <=> Gated(y)
      BY <2>1, <2>3 DEF Gated
    <3> QED
      BY <2>1, <3>1, <3>2, UnitLeaves
  <2>4. run[r].by \in {"tick", "user", "node"}
    BY <1>3 DEF End, RunShape, TypeOK, Run
  <2> QED
    BY <2>2, <2>3, <2>4
<1> QED
  BY <1>1, <1>2, <1>3 DEF Work

\* A request enters the gate once, and leaves it once.
LEMMA RequestGate ==
    ASSUME TypeOK, RunShape, GateCounts, Request
    PROVE  GateCounts'
<1> USE DEF config, gate, counts
<1>1. ASSUME NEW c \in Checks, RunNow(c) PROVE GateCounts'
  <2>1. PICK r \in Free :
          run' = [run EXCEPT ![r] = [by |-> "user", call |-> Nobody, check |-> c,
                                     slot |-> 0, at |-> "called"]]
    BY <1>1 DEF RunNow
  <2>2. /\ r \in Units /\ r \in Runs /\ r \notin NodeCalls /\ r # Nobody
        /\ run[r].by = "nobody" /\ run'[r].by = "user"
        /\ \A q \in Runs \ {r} : run'[q] = run[q]
    BY <2>1, SchedulerAssumption DEF Free, TypeOK, RunShape, NoRun, Units
  <2>3. /\ node' = node /\ tick' = tick
        /\ ~paused /\ active' = active + 1 /\ paused' = paused /\ restore' = restore
    BY <1>1 DEF RunNow
  <2>4. ~Gated(r) /\ Gated(r)' /\ \A y \in Units \ {r} : Gated(y)' <=> Gated(y)
    BY <2>2, <2>3 DEF Gated
  <2> QED
    BY <2>2, <2>3, <2>4, UnitEnters
<1>2. ASSUME NEW n \in NodeCalls, RunNodeChecks(n) PROVE GateCounts'
  <2>1. /\ n \in Units /\ n \notin Runs /\ n # Nobody
        /\ node[n].at = "idle" /\ node'[n].at = "admitted"
        /\ \A m \in NodeCalls \ {n} : node'[m] = node[m]
        /\ run' = run /\ tick' = tick
        /\ ~paused /\ active' = active + 1 /\ paused' = paused /\ restore' = restore
    BY <1>2, SchedulerAssumption DEF RunNodeChecks, TypeOK, Units
  <2>2. ~Gated(n) /\ Gated(n)' /\ \A y \in Units \ {n} : Gated(y)' <=> Gated(y)
    BY <2>1 DEF Gated
  <2> QED
    BY <2>1, <2>2, UnitEnters
<1>3. ASSUME NEW n \in NodeCalls, FindChecks(n) \/ StopAdmitting(n) PROVE GateCounts'
  <2>1. /\ \A m \in NodeCalls : node'[m].at # "idle" <=> node[m].at # "idle"
        /\ run' = run /\ tick' = tick
        /\ active' = active /\ paused' = paused /\ restore' = restore
    BY <1>3 DEF FindChecks, StopAdmitting, TypeOK
  <2> QED
    BY <2>1, SameGate DEF Gated
<1>4. ASSUME NEW n \in NodeCalls, Answer(n) PROVE GateCounts'
  <2>1. /\ n \in Units /\ n \notin Runs /\ n # Nobody
        /\ node[n].at = "admitting" /\ node'[n].at = "idle"
        /\ \A m \in NodeCalls \ {n} : node'[m] = node[m]
        /\ run' = run /\ tick' = tick
        /\ active' = active - 1 /\ paused' = paused /\ restore' = restore
    BY <1>4, SchedulerAssumption DEF Answer, TypeOK, Units
  <2>2. Gated(n) /\ ~Gated(n)' /\ \A y \in Units \ {n} : Gated(y)' <=> Gated(y)
    BY <2>1 DEF Gated
  <2> QED
    BY <2>1, <2>2, UnitLeaves
<1>5. ASSUME NEW n \in NodeCalls, NEW c \in Checks, Admit(n, c) PROVE GateCounts'
  <2>1. PICK r \in Free :
          run' = [run EXCEPT ![r] = [by |-> "node", call |-> n, check |-> c,
                                     slot |-> node[n].sem, at |-> "called"]]
    BY <1>5 DEF Admit
  <2>2. /\ run[r].by = "nobody" /\ run'[r].by = "node"
        /\ \A q \in Runs \ {r} : run'[q] = run[q]
    BY <2>1 DEF Free, TypeOK, RunShape, NoRun
  <2>3. /\ \A m \in NodeCalls : node'[m].at = node[m].at
        /\ tick' = tick
        /\ active' = active /\ paused' = paused /\ restore' = restore
    BY <1>5 DEF Admit, TypeOK
  <2> QED
    BY <2>2, <2>3, SameGate DEF Gated
<1> QED
  BY <1>1, <1>2, <1>3, <1>4, <1>5 DEF Request

\* Reloads and restores leave the count alone.
LEMMA AdminGate ==
    ASSUME TypeOK, GateCounts, Admin
    PROVE  GateCounts'
<1>1. run' = run /\ node' = node /\ tick' = tick /\ active' = active
  BY DEF Admin, ReloadConfig, Pause, PauseDone, DiscardStates, Resume, gate
<1>2. Inside' = Inside
  BY <1>1 DEF Inside, Gated
<1>3. CASE ReloadConfig
  BY <1>1, <1>2, <1>3 DEF ReloadConfig, GateCounts, gate
<1>4. CASE Pause
  BY <1>1, <1>2, <1>4 DEF Pause, GateCounts
<1>5. CASE PauseDone
  BY <1>1, <1>2, <1>5 DEF PauseDone, GateCounts
<1>6. CASE DiscardStates
  BY <1>1, <1>2, <1>6 DEF DiscardStates, GateCounts
<1>7. CASE Resume
  BY <1>1, <1>2, <1>7 DEF Resume, GateCounts
<1> QED
  BY <1>3, <1>4, <1>5, <1>6, <1>7 DEF Admin

-----------------------------------------------------------------------------
(* The theorems.                                                           *)

\* The invariant holds at first.
LEMMA InitInv == Init => IInv
<1> SUFFICES ASSUME Init PROVE IInv
  OBVIOUS
<1>1. NoRun \in Run /\ 1 \in Gens
  BY SchedulerAssumption DEF NoRun, Run, Stages, Gens
<1>2. /\ TypeOK
  BY <1>1 DEF Init, TypeOK, Settings
<1>3. RunShape /\ Marks
  BY DEF Init, RunShape, NoRun, Marks, FlightOwned, MarkHasRun
<1>4. Slots
  <2>1. \A g \in Gens : size[g] \in Nat
    BY SchedulerAssumption DEF Init
  <2>2. \A g \in Gens : Holders(g) = {} /\ used[g] = 0
    <3>1. \A r \in Runs : run[r].slot = 0
      BY DEF Init, NoRun
    <3> QED
      BY <3>1 DEF Init, Holders, Gens
  <2>3. SlotsKept
    BY <2>1, <2>2, FS_EmptySet DEF SlotsKept
  <2>4. GensPast
    BY DEF Init, GensPast, NoRun
  <2> QED
    BY <2>3, <2>4 DEF Slots
<1>5. GateCounts
  <2>1. Inside = {}
    BY DEF Init, Inside, Gated, NoRun
  <2> QED
    BY <2>1, FS_EmptySet DEF Init, GateCounts
<1> QED
  BY <1>2, <1>3, <1>4, <1>5 DEF IInv

\* Every step keeps the invariant.
LEMMA NextInv == IInv /\ [Next]_vars => IInv'
<1> SUFFICES ASSUME IInv, [Next]_vars PROVE IInv'
  OBVIOUS
<1> USE DEF IInv
<1>1. CASE Tick \/ \E c \in Checks : BecomesDue(c)
  BY <1>1, TickTypes, TickMarks, TickSlots, TickGate
<1>2. ASSUME NEW r \in Runs, Work(r) PROVE IInv'
  BY <1>2, WorkTypes, WorkMarks, WorkSlots, WorkGate DEF Slots
<1>3. CASE Request
  BY <1>3, RequestTypes, RequestMarks, RequestSlots, RequestGate
<1>4. CASE Admin
  BY <1>4, AdminTypes, AdminMarks, AdminSlots, AdminGate
<1>5. CASE UNCHANGED vars
  <2>1. TypeOK' /\ RunShape'
    BY <1>5 DEF vars, config, gate, counts, TypeOK, RunShape
  <2>2. Marks'
    BY <1>5, KeepsMarks DEF vars
  <2>3. Slots'
    BY <1>5, SameSlots DEF vars, config
  <2>4. GateCounts'
    BY <1>5, SameGate DEF vars, gate, Gated
  <2> QED
    BY <2>1, <2>2, <2>3, <2>4
<1> QED
  BY <1>1, <1>2, <1>3, <1>4, <1>5 DEF Next

\* The scheduler's inductive invariant holds in every reachable state.
THEOREM SchedulerInductive == Spec => []IInv
<1> QED
  BY InitInv, NextInv, PTL DEF Spec

\* Every variable keeps its type.
THEOREM SchedulerTypes == Spec => []TypeOK
<1>1. IInv => TypeOK
  BY DEF IInv
<1> QED
  BY <1>1, SchedulerInductive, PTL

\* A marked check is run, or will be, by somebody who clears the mark, for any
\* number of checks, runs and reloads (clearRunningLocked in engine.go).
THEOREM MarksHaveRuns == Spec => []MarkHasRun
<1>1. IInv => MarkHasRun
  BY DEF IInv, Marks
<1> QED
  BY <1>1, SchedulerInductive, PTL

\* Every slot goes back to the semaphore it came from, however often
\* ReloadConfig replaces it.
THEOREM SlotsAreKept == Spec => []SlotsKept
<1>1. IInv => SlotsKept
  BY DEF IInv, Slots
<1> QED
  BY <1>1, SchedulerInductive, PTL

\* No run of any kind is under way when DiscardStates drops the states and
\* the marks: nothing is inside the gate, so there is no run of the schedule
\* or of a user and no request; so no run of a request; so no flight and no mark.
THEOREM RestoresFindNothing == Spec => []QuietWhenPaused
<1>1. ASSUME IInv PROVE QuietWhenPaused
  <2>1. SUFFICES ASSUME restore \in {"restoring", "discarded"}
                 PROVE  /\ \A r \in Runs : run[r].at = "none"
                        /\ running = {} /\ inflight = {} /\ tick.at = "idle"
                        /\ \A n \in NodeCalls : node[n].at = "idle"
    BY DEF QuietWhenPaused
  <2>2. \A x \in Units : ~Gated(x)
    BY <1>1, <2>1, Counting DEF IInv, GateCounts
  <2>3. tick.at = "idle" /\ \A n \in NodeCalls : node[n].at = "idle"
    BY <2>2 DEF Units, Gated
  <2>4. \A r \in Runs : run[r].by = "nobody"
    <3>1. \A r \in Runs : run[r].by \in {"nobody", "tick", "user", "node"}
      BY <1>1 DEF IInv, TypeOK, Run
    <3>2. \A r \in Runs : run[r].by \notin {"tick", "user"}
      BY <2>2 DEF Units, Gated
    <3>3. \A r \in Runs : run[r].by # "node"
      BY <1>1, <2>3 DEF IInv, RunShape
    <3> QED
      BY <3>1, <3>2, <3>3
  <2>5. \A r \in Runs : run[r].at = "none"
    BY <1>1, <2>4 DEF IInv, RunShape
  <2>6. running = {} /\ inflight = {}
    <3>1. running \subseteq Checks /\ inflight \subseteq Checks
      BY <1>1 DEF IInv, TypeOK
    <3> QED
      BY <1>1, <2>5, <3>1 DEF IInv, Marks, MarkHasRun, FlightOwned, Owns
  <2> QED
    BY <2>3, <2>5, <2>6
<1> QED
  BY <1>1, SchedulerInductive, PTL
=============================================================================
