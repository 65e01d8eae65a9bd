--------------------------- MODULE RestoreProofs ----------------------------
(***************************************************************************)
(* Proofs about the restore gate, for any number of units of work, restore *)
(* requests, configuration saves and deliveries, and any number of         *)
(* restores in a row.                                                      *)
(*                                                                         *)
(* QuietRestore is not inductive: that nobody is inside when a Pause       *)
(* returns follows from what the gate counted before, which is GateInv.    *)
(***************************************************************************)
EXTENDS Restore, FiniteSetTheorems, TLAPS

\* The count is the number of units inside.
Counted == active = Cardinality(inside)

\* Only one restore is past the gate or waiting at it, and then it is shut.
Past(h) == request[h] \notin {"idle", "asked"}
OneAtATime == \A h, k \in Restores : Past(h) /\ Past(k) => h = k
ShutByOne == \A h \in Restores : Past(h) => paused

\* A waiting Pause either waits for somebody, on the channel the last one out
\* will close, or has been told, and then the gate is empty.
Awaited ==
    \A h \in Restores : request[h] = "waiting" =>
        \/ h \in drained /\ inside = {}
        \/ idle = h /\ h \notin drained /\ inside # {}

HeldEmpty == \A h \in Restores : Holds(h) => inside = {}

\* A restore that has begun to reload is still at that point, and whoever
\* reloads has read a state.
ReloadsInPlace ==
    /\ reloading \in Restores => request[reloading] = "reloading"
    /\ reloading # Nobody => read \in Ages

GateInv ==
    /\ TypeOK /\ Counted /\ OneAtATime /\ ShutByOne
    /\ Awaited /\ HeldEmpty /\ ReloadsInPlace

-----------------------------------------------------------------------------

\* At the start nobody is inside and no request is past the gate.
LEMMA InitGate == Init => GateInv
<1>1. Cardinality({}) = 0
  BY FS_EmptySet
<1>2. Init => \A h \in Restores : request[h] = "idle"
  BY DEF Init
<1>3. ASSUME Init PROVE TypeOK
  <2>1. 0 \in Ages
    BY RestoreAssumption DEF Ages
  <2>2. request \in [Restores -> Places]
    <3>1. request = [h \in Restores |-> "idle"] /\ "idle" \in Places
      BY <1>3 DEF Init, Places
    <3> QED
      BY <3>1
  <2>3. /\ live \in Ages \cup {Nobody}
        /\ stored \in Ages /\ age \in Ages
    BY <1>3, <2>1 DEF Init
  <2>4. /\ read \in Ages \cup {Nobody}
        /\ idle \in Restores \cup {Nobody}
        /\ reloading \in Restores \cup Editors \cup {Nobody}
    BY <1>3 DEF Init
  <2>5. /\ paused \in BOOLEAN /\ active \in Nat /\ drained \subseteq Restores
        /\ inside \subseteq Units /\ mail \subseteq Mails /\ overtaken \in BOOLEAN
    BY <1>3 DEF Init
  <2> QED
    BY <2>2, <2>3, <2>4, <2>5 DEF TypeOK
<1>4. Init => Counted
  BY <1>1 DEF Init, Counted
<1>5. Init => OneAtATime /\ ShutByOne /\ Awaited /\ HeldEmpty
  BY <1>2 DEF OneAtATime, ShutByOne, Awaited, HeldEmpty, Past, Holds
<1>6. Init => ReloadsInPlace
  BY RestoreAssumption DEF Init, ReloadsInPlace
<1> QED
  BY <1>3, <1>4, <1>5, <1>6 DEF GateInv

\* What is inside is finite, and letting one in or out counts by one.
LEMMA Counting ==
  ASSUME inside \subseteq Units
  PROVE  /\ Cardinality(inside) \in Nat
         /\ Cardinality(inside) = 0 <=> inside = {}
         /\ \A u \in Units \ inside : Cardinality(inside \cup {u}) = Cardinality(inside) + 1
         /\ \A u \in inside : Cardinality(inside \ {u}) = Cardinality(inside) - 1
<1>1. IsFiniteSet(inside)
  BY FS_Subset, RestoreAssumption
<1>2. \A u \in Units \ inside : Cardinality(inside \cup {u}) = Cardinality(inside) + 1
  BY <1>1, FS_AddElement
<1>3. \A u \in inside : Cardinality(inside \ {u}) = Cardinality(inside) - 1
  BY <1>1, FS_RemoveElement
<1>4. Cardinality(inside) \in Nat /\ (Cardinality(inside) = 0 <=> inside = {})
  BY <1>1, FS_CardinalityType, FS_EmptySet
<1> QED
  BY <1>2, <1>3, <1>4

\* Work comes and goes only while nobody holds the gate shut.
LEMMA WorkKeepsGate ==
  ASSUME GateInv, NEW u \in Units,
         EnterWork(u) \/ RecordResult(u) \/ LeaveWork(u)
  PROVE  GateInv'
<1> USE DEF GateInv, Past, Holds
<1>0. inside \subseteq Units /\ active \in Nat
  BY DEF TypeOK
<1>1. CASE EnterWork(u)
  <2>1. TypeOK'
    BY <1>1 DEF EnterWork, TypeOK
  <2>2. Counted'
    BY <1>0, <1>1, Counting DEF EnterWork, Counted
  <2>3. Awaited' /\ HeldEmpty'
    BY <1>1 DEF EnterWork, Awaited, HeldEmpty, ShutByOne, TypeOK
  <2>4. OneAtATime' /\ ShutByOne' /\ ReloadsInPlace'
    BY <1>1 DEF EnterWork, OneAtATime, ShutByOne, ReloadsInPlace
  <2> QED
    BY <2>1, <2>2, <2>3, <2>4
<1>2. CASE RecordResult(u)
  <2>1. TypeOK'
    BY <1>2 DEF RecordResult, TypeOK, gate
  <2> QED
    BY <1>2, <2>1 DEF RecordResult, gate, Counted, Awaited, HeldEmpty, OneAtATime,
                      ShutByOne, ReloadsInPlace
<1>3. CASE LeaveWork(u)
  <2>1. Cardinality(inside \ {u}) = Cardinality(inside) - 1 /\ inside # {}
    BY <1>0, <1>3, Counting DEF LeaveWork
  <2>2. active' = active - 1 /\ Counted' /\ active # 0
    BY <1>0, <1>3, <2>1, Counting DEF LeaveWork, Counted
  <2>3. TypeOK'
    BY <1>0, <1>3, <2>2 DEF LeaveWork, TypeOK
  <2>4. active = 1 <=> inside' = {}
    <3>1. inside' \subseteq Units /\ inside' = inside \ {u}
      BY <1>0, <1>3 DEF LeaveWork
    <3>2. Cardinality(inside') = 0 <=> inside' = {}
      BY <3>1, FS_Subset, FS_EmptySet, RestoreAssumption
    <3> QED
      BY <1>0, <2>1, <3>1, <3>2 DEF Counted
  <2>5. Awaited'
    BY <1>3, <2>1, <2>4, RestoreAssumption DEF LeaveWork, Awaited
  <2>6. HeldEmpty' /\ OneAtATime' /\ ShutByOne' /\ ReloadsInPlace'
    BY <1>3 DEF LeaveWork, HeldEmpty, OneAtATime, ShutByOne, ReloadsInPlace
  <2> QED
    BY <2>2, <2>3, <2>5, <2>6
<1> QED
  BY <1>1, <1>2, <1>3

\* A request goes from place to place, and only one gets past the gate.
LEMMA RequestKeepsGate ==
  ASSUME GateInv, NEW h \in Restores, Ask(h) \/ Request(h)
  PROVE  GateInv'
<1> USE DEF GateInv
<1>1. CASE Ask(h)
  BY <1>1 DEF Ask, gate, TypeOK, Places, Counted, Awaited, HeldEmpty, OneAtATime,
              ShutByOne, ReloadsInPlace, Past, Holds
<1>2. CASE Pause(h)
  <2>0. ~paused /\ request[h] = "asked" /\ ShutGate(h)
    BY <1>2 DEF Pause
  <2>1. \A k \in Restores : ~Past(k)
    BY <2>0 DEF ShutByOne
  <2>2. active = 0 <=> inside = {}
    BY Counting DEF Counted, TypeOK
  <2>3. TypeOK'
    BY <2>0 DEF ShutGate, TypeOK, Places
  <2>4. Counted' /\ ShutByOne'
    BY <2>0 DEF ShutGate, Counted, ShutByOne
  <2>5. OneAtATime'
    BY <2>0, <2>1 DEF ShutGate, OneAtATime, Past, TypeOK
  <2>6. Awaited' /\ HeldEmpty'
    BY <2>0, <2>1, <2>2 DEF ShutGate, Awaited, HeldEmpty, Past, Holds, TypeOK
  <2>7. ReloadsInPlace'
    BY <2>0, RestoreAssumption DEF ShutGate, ReloadsInPlace, TypeOK
  <2> QED
    BY <2>3, <2>4, <2>5, <2>6, <2>7
<1>3. CASE AlreadyPaused(h)
  BY <1>3 DEF AlreadyPaused, gate, TypeOK, Places, Counted, Awaited, HeldEmpty,
              OneAtATime, ShutByOne, ReloadsInPlace, Past, Holds
<1>4. CASE PauseDone(h)
  <2>1. inside = {}
    BY <1>4 DEF PauseDone, Awaited
  <2> QED
    BY <1>4, <2>1 DEF PauseDone, gate, TypeOK, Places, Counted, Awaited, HeldEmpty,
                      OneAtATime, ShutByOne, ReloadsInPlace, Past, Holds
<1>5. CASE PauseTimeout(h)
  BY <1>5 DEF PauseTimeout, TypeOK, Places, Counted, Awaited, HeldEmpty, OneAtATime,
              ShutByOne, ReloadsInPlace, Past, Holds
<1>6. CASE CommitConfig(h)
  <2>1. age + 1 \in Ages
    BY <1>6, RestoreAssumption DEF CommitConfig, TypeOK, Ages
  <2> QED
    BY <1>6, <2>1 DEF CommitConfig, gate, TypeOK, Places, Counted, Awaited, HeldEmpty,
                      OneAtATime, ShutByOne, ReloadsInPlace, Past, Holds
<1>7. CASE RestoreFails(h)
  BY <1>7 DEF RestoreFails, gate, TypeOK, Places, Counted, Awaited, HeldEmpty,
              OneAtATime, ShutByOne, ReloadsInPlace, Past, Holds
<1>8. CASE ImportEnds(h)
  BY <1>8 DEF ImportEnds, gate, TypeOK, Places, Counted, Awaited, HeldEmpty,
              OneAtATime, ShutByOne, ReloadsInPlace, Past, Holds
<1>9. CASE DiscardStates(h)
  BY <1>9 DEF DiscardStates, gate, TypeOK, Places, Counted, Awaited, HeldEmpty,
              OneAtATime, ShutByOne, ReloadsInPlace, Past, Holds
<1>10. CASE Resume(h)
  BY <1>10 DEF Resume, TypeOK, Places, Counted, Awaited, HeldEmpty, OneAtATime,
               ShutByOne, ReloadsInPlace, Past, Holds
<1> QED
  BY <1>1, <1>2, <1>3, <1>4, <1>5, <1>6, <1>7, <1>8, <1>9, <1>10 DEF Request

\* A reload moves no request but the one that waits for it.
LEMMA ReloadKeepsGate ==
  ASSUME GateInv, NEW x \in Restores \cup Editors, Reload(x)
  PROVE  GateInv'
<1> USE DEF GateInv
<1>0. x \in Restores => x \notin Editors
  BY RestoreAssumption
<1>1. CASE ReadStates(x)
  BY <1>1 DEF ReadStates, MayReload, gate, TypeOK, Counted, Awaited, HeldEmpty,
              OneAtATime, ShutByOne, ReloadsInPlace, Past, Holds
<1>2. CASE ReloadEnds(x)
  <2>1. /\ reloading = x /\ reloading' = Nobody /\ request' = Reloaded(x)
        /\ UNCHANGED <<gate, age, mail>>
        /\ read' \in Ages \cup {Nobody} /\ live' \in Ages \cup {Nobody}
        /\ stored' \in Ages /\ overtaken' \in BOOLEAN
    <3>1. CASE ApplyStates(x)
      <4>1. live' \in Ages \cup {Nobody}
        BY <3>1 DEF ApplyStates, TypeOK
      <4>2. read \in Ages
        BY <3>1, RestoreAssumption DEF ApplyStates, ReloadsInPlace
      <4>3. stored' \in Ages
        BY <3>1, <4>2 DEF ApplyStates, TypeOK
      <4> QED
        BY <3>1, <4>1, <4>3 DEF ApplyStates, gate
    <3>2. CASE ReloadFails(x)
      BY <3>2 DEF ReloadFails, TypeOK, gate
    <3> QED
      BY <1>2, <3>1, <3>2 DEF ReloadEnds
  <2>2. ReloadsInPlace'
    BY <2>1, RestoreAssumption DEF ReloadsInPlace
  <2>3. CASE x \in Restores
    <3>1. request[x] = "reloading" /\ request' = [request EXCEPT ![x] = "resuming"]
      BY <2>1, <2>3 DEF ReloadsInPlace, Reloaded
    <3> QED
      BY <2>1, <2>2, <2>3, <3>1 DEF gate, TypeOK, Places, Counted, Awaited,
                       HeldEmpty, OneAtATime, ShutByOne, Past, Holds
  <2>4. CASE x \notin Restores
    BY <2>1, <2>2, <2>4 DEF Reloaded, gate, TypeOK, Counted, Awaited, HeldEmpty,
                     OneAtATime, ShutByOne, Past, Holds
  <2> QED
    BY <2>3, <2>4
<1> QED
  BY <1>1, <1>2 DEF Reload

\* Deliveries and silences do not touch the gate.
LEMMA MailKeepsGate ==
  ASSUME GateInv, Silence \/ \E m \in Mails : FailedMail(m) \/ MailDelivered(m)
  PROVE  GateInv'
BY DEF GateInv, FailedMail, MailDelivered, Silence, gate, TypeOK, Counted, Awaited,
       HeldEmpty, OneAtATime, ShutByOne, ReloadsInPlace, Past, Holds

\* Every step keeps GateInv.
LEMMA StepKeepsGate == GateInv /\ [Next]_vars => GateInv'
<1> SUFFICES ASSUME GateInv, [Next]_vars PROVE GateInv'
  OBVIOUS
<1>1. CASE UNCHANGED vars
  BY <1>1 DEF vars, gate, GateInv, TypeOK, Counted, Awaited, HeldEmpty, OneAtATime,
              ShutByOne, ReloadsInPlace, Past, Holds
<1>2. CASE Next
  BY <1>2, WorkKeepsGate, RequestKeepsGate, ReloadKeepsGate, MailKeepsGate DEF Next
<1> QED
  BY <1>1, <1>2

\* The gate counts right and lets one restore past, always.
THEOREM GateCounts == Spec => []GateInv
BY InitGate, StepKeepsGate, PTL DEF Spec

\* Every variable keeps its type.
THEOREM RestoreTypes == Spec => []TypeOK
<1>1. GateInv => TypeOK
  BY DEF GateInv
<1> QED
  BY <1>1, GateCounts, PTL

\* No unit of work is inside while a restore holds the engine paused, and no
\* second restore is past the gate, however many of each there are.
THEOREM RestoresAreQuiet == Spec => []QuietRestore
<1>1. GateInv => QuietRestore
  BY DEF GateInv, QuietRestore, HeldEmpty, ShutByOne, OneAtATime, Past, Holds
<1> QED
  BY <1>1, GateCounts, PTL

\* A Pause that waits for work is never forgotten by the last one out.
THEOREM PausesAreTold == Spec => []PauseNotForgotten
<1>1. GateInv => PauseNotForgotten
  BY DEF GateInv, PauseNotForgotten, Awaited, ShutByOne, Past
<1> QED
  BY <1>1, GateCounts, PTL

-----------------------------------------------------------------------------
(* Until something that does not enter the gate brings in a state from     *)
(* before the last restore, a restore leaves nothing of the old states     *)
(* behind.  The strengthening: the database is always as new as the last   *)
(* restore, a restore's reload has read that, and only between the commit  *)
(* and DiscardStates does the engine hold anything older.                  *)

Fresh ==
    ~overtaken =>
        /\ stored = age
        /\ reloading \in Restores => read = age
        /\ (\A h \in Restores : request[h] \notin {"importing", "discarding"})
             => live \in {age, Nobody}

\* Every step keeps Fresh.
LEMMA StepKeepsFresh ==
  ASSUME GateInv, Fresh, [Next]_vars
  PROVE  Fresh'
<1> SUFFICES ASSUME ~overtaken' PROVE Fresh'
  BY DEF Fresh
<1>1. CASE UNCHANGED vars
  BY <1>1 DEF vars, gate, Fresh
<1>2. ASSUME NEW u \in Units, EnterWork(u) \/ RecordResult(u) \/ LeaveWork(u)
      PROVE  Fresh'
  <2>1. CASE RecordResult(u)
    <3>1. \A h \in Restores : ~Holds(h)
      BY <2>1 DEF RecordResult, GateInv, HeldEmpty
    <3>2. live = age
      BY <2>1, <3>1 DEF RecordResult, Fresh, Holds
    <3> QED
      BY <2>1, <3>2 DEF RecordResult, gate, Fresh
  <2>2. CASE EnterWork(u) \/ LeaveWork(u)
    BY <2>2 DEF EnterWork, LeaveWork, Fresh
  <2> QED
    BY <1>2, <2>1, <2>2
<1>3. ASSUME NEW h \in Restores, Ask(h) \/ Request(h)
      PROVE  Fresh'
  <2>1. CASE CommitConfig(h)
    <3>1. reloading \notin Restores
      BY <2>1 DEF CommitConfig, GateInv, OneAtATime, ReloadsInPlace, Past, TypeOK
    <3>2. request'[h] = "importing"
      BY <2>1 DEF CommitConfig, GateInv, TypeOK
    <3> QED
      BY <2>1, <3>1, <3>2 DEF CommitConfig, gate, Fresh
  <2>2. CASE DiscardStates(h)
    BY <2>2 DEF DiscardStates, gate, Fresh
  <2>3. CASE ImportEnds(h)
    <3>1. request'[h] = "discarding"
      BY <2>3 DEF ImportEnds, GateInv, TypeOK
    <3> QED
      BY <2>3, <3>1 DEF ImportEnds, gate, Fresh
  <2>4. CASE Ask(h) \/ AlreadyPaused(h) \/ PauseDone(h) \/ RestoreFails(h)
    BY <2>4 DEF Ask, AlreadyPaused, PauseDone, RestoreFails, gate, Fresh, GateInv, TypeOK
  <2>5. CASE Pause(h) \/ PauseTimeout(h) \/ Resume(h)
    BY <2>5 DEF Pause, ShutGate, PauseTimeout, Resume, Fresh, GateInv, TypeOK
  <2> QED
    BY <1>3, <2>1, <2>2, <2>3, <2>4, <2>5 DEF Request
<1>4. ASSUME NEW x \in Restores \cup Editors, Reload(x)
      PROVE  Fresh'
  <2>0. x # Nobody /\ Nobody \notin Restores /\ Restores \cap Editors = {}
    BY RestoreAssumption
  <2>1. CASE ReadStates(x)
    BY <2>0, <2>1 DEF ReadStates, gate, Fresh
  <2>2. CASE ApplyStates(x)
    <3>0. /\ reloading = x /\ reloading' = Nobody /\ ~overtaken
          /\ stored' \in {stored, live'} /\ age' = age
          /\ live' = IF live = Nobody THEN read ELSE live
          /\ request' = Reloaded(x)
      BY <2>2 DEF ApplyStates
    <3>1. CASE x \in Restores
      <4>1. request[x] = "reloading" /\ read = age
        BY <3>0, <3>1 DEF GateInv, ReloadsInPlace, Fresh
      <4>2. \A h \in Restores : request[h] \notin {"importing", "discarding"}
        BY <3>1, <4>1 DEF GateInv, OneAtATime, Past
      <4>3. live \in {age, Nobody}
        BY <3>0, <4>2 DEF Fresh
      <4> QED
        BY <2>0, <3>0, <4>1, <4>3 DEF Fresh
    <3>2. CASE x \notin Restores
      <4>1. request' = request /\ (live = Nobody => read = age) /\ stored' = age
        BY <2>2, <3>0, <3>2 DEF Reloaded, ApplyStates
      <4> QED
        BY <2>0, <3>0, <4>1 DEF Fresh
    <3> QED
      BY <3>1, <3>2
  <2>3. CASE ReloadFails(x)
    <3>0. /\ reloading = x /\ reloading' = Nobody /\ ~overtaken
          /\ stored' = stored /\ age' = age /\ live' = live
          /\ request' = Reloaded(x)
      BY <2>3 DEF ReloadFails, gate
    <3>1. CASE x \in Restores
      <4>1. request[x] = "reloading"
        BY <3>0, <3>1 DEF GateInv, ReloadsInPlace
      <4>2. \A h \in Restores : request[h] \notin {"importing", "discarding"}
        BY <3>1, <4>1 DEF GateInv, OneAtATime, Past
      <4> QED
        BY <2>0, <3>0, <4>2 DEF Fresh
    <3>2. CASE x \notin Restores
      BY <2>0, <3>0, <3>2 DEF Reloaded, Fresh
    <3> QED
      BY <3>1, <3>2
  <2> QED
    BY <1>4, <2>1, <2>2, <2>3 DEF Reload, ReloadEnds
<1>5. ASSUME Silence \/ \E m \in Mails : FailedMail(m) \/ MailDelivered(m)
      PROVE  Fresh'
  BY <1>5 DEF FailedMail, MailDelivered, Silence, gate, Fresh
<1> QED
  BY <1>1, <1>2, <1>3, <1>4, <1>5 DEF Next

\* Nothing held before a restore outlives it unless a save of the configuration,
\* a late delivery or a silence took up or stored a state from before it.
THEOREM RestoredFresh == Spec => []AfreshUnlessOvertaken
<1>1. Init => Fresh
  BY RestoreAssumption DEF Init, Fresh
<1>2. GateInv /\ Fresh /\ [Next]_vars => Fresh'
  BY StepKeepsFresh
<1>3. Fresh => AfreshUnlessOvertaken
  BY DEF Fresh, RestoredAfresh, AfreshUnlessOvertaken
<1> QED
  BY <1>1, <1>2, <1>3, GateCounts, PTL DEF Spec
=============================================================================
