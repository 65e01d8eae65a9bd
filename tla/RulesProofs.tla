---------------------------- MODULE RulesProofs ----------------------------
(***************************************************************************)
(* Proofs about notification rules, for any checks, rules and bounds.      *)
(*                                                                         *)
(* The invariant says where the state of a rule is while it is on its way: *)
(* decided and yet to be stored, stored, or read back by a restart; and,   *)
(* while the service is down, that what is stored agrees with the checks,  *)
(* which is what a restart takes it at its word for.                       *)
(***************************************************************************)
EXTENDS Rules, FiniteSetTheorems, TLAPS

\* A rule the engine knows has a state.
HasState == up => \A r \in RRules : live.rules[r] \notin Absent => held[r] # "none"

\* While the service is down nothing is under way.
Asleep == ~up => /\ owes = NothingOwed /\ saving = NothingSaving /\ load = NoLoad
                 /\ unloaded = FALSE

\* A rule that anything is known of has been created.
Known(r) == \/ live.rules[r] \notin Absent \/ r \in fired
            \/ load.at = "read" /\ load.rules[r] \notin Absent
NotNew == \A r \in RRules : Known(r) => conf.rules[r] # "new"

\* A rule that is deleted, in every copy of the configuration.
GoneForGood(r) ==
    /\ conf.rules[r] = "gone" /\ live.rules[r] = "gone"
    /\ load.at = "read" => load.rules[r] = "gone"

Pending(r) == \E a \in Actors : saving[a][r] # "none"

\* A rule that fired is met, in memory,
FiredIsHeld ==
    up => \A r \in fired : r \notin unsure \/ Pending(r) => held[r] = "met" \/ GoneForGood(r)

\* or about to be stored as such,
FiredIsSaved ==
    \A r \in fired : \A a \in Actors : saving[a][r] # "none" => saving[a][r] = "fired"

\* or stored.
FiredIsStored ==
    \A r \in fired \ unsure : Pending(r) \/ conf.rules[r] = "gone" \/ stored[r] = "met"

\* While the service is down: what is stored is what the checks say.
StoredAsItStands ==
    ~up => \A r \in RRules \ missed :
        /\ live = conf
        /\ live.rules[r] = "on" /\ (\A c \in Looks[r] : silence[c] # "over")
            => (stored[r] = "met" <=> Met(r))

RulesInv ==
    /\ RulesTypeOK /\ HasState /\ Asleep /\ NotNew
    /\ FiredIsHeld /\ FiredIsSaved /\ FiredIsStored
    /\ MetAsItStands /\ StoredAsItStands

-----------------------------------------------------------------------------
(* What a step leaves alone.                                               *)

\* A rule is met as before when each of its checks counts as before.
LEMMA MetKept ==
    ASSUME NEW r \in RRules, \A c \in Looks[r] : Counts(c)' <=> Counts(c)
    PROVE  Met(r)' <=> Met(r)
<1>1. {c \in Looks[r] : Counts(c)}' = {c \in Looks[r] : Counts(c)}
  OBVIOUS
<1> QED
  BY <1>1 DEF Met

\* A step that leaves decisions and configuration alone keeps what is said of them.
LEMMA DecisionsKept ==
    ASSUME RulesInv,
           UNCHANGED <<up, settings, held, stored, saving, load, fired, unsure>>
    PROVE  HasState' /\ NotNew' /\ FiredIsHeld' /\ FiredIsSaved' /\ FiredIsStored'
<1> USE DEF RulesInv, settings
<1>1. HasState'
  BY DEF HasState
<1>2. NotNew'
  BY DEF NotNew, Known
<1>3. FiredIsHeld'
  BY DEF FiredIsHeld, GoneForGood, Pending
<1>4. FiredIsSaved'
  BY DEF FiredIsSaved
<1>5. FiredIsStored'
  BY DEF FiredIsStored, Pending
<1> QED
  BY <1>1, <1>2, <1>3, <1>4, <1>5

\* Of one evaluation at a time, with the types, nothing is said that these do not keep.
LEMMA TypesKept ==
    ASSUME RulesInv, saving' = saving,
           up' \in BOOLEAN, away' \in BOOLEAN, window' \in BOOLEAN, seen' \in BOOLEAN,
           unloaded' \in BOOLEAN,
           {conf', live'} \subseteq [on : [RChecks -> BOOLEAN], rules : [RRules -> Settings]],
           status' \in [RChecks -> Statuses], quiet' \subseteq RChecks,
           silence' \in [RChecks -> {"no", "yes", "over"}],
           {held', stored'} \subseteq [RRules -> States],
           owes' \in [Actors -> RChecks \cup {Nobody, All}],
           load' \in [at : {"idle", "applied", "read", "saving"}, rules : [RRules -> Settings],
                      states : [RRules -> States], fresh : SUBSET RRules],
           {edits', crashes', fails'} \subseteq Nat,
           fired' \subseteq RRules, unsure' \subseteq RRules, missed' \subseteq RRules
    PROVE  RulesTypeOK'
BY DEF RulesTypeOK, RulesInv

\* A step while the service is up, which stays up, says nothing of one that is down.
LEMMA AwakeKept ==
    ASSUME up'
    PROVE  Asleep' /\ StoredAsItStands'
BY DEF Asleep, StoredAsItStands

-----------------------------------------------------------------------------
(* Checks, silences and windows.                                           *)

\* A rule that looks at a check is concerned by an evaluation owed for it, and every
\* rule by one for all.
LEMMA Owed ==
    ASSUME RulesInv, NEW a \in Actors, NEW what \in RChecks \cup {All}, owes'[a] = what,
           NEW r \in RRules, what = All \/ what \in Looks[r]
    PROVE  ~Settled(r)'
<1>1. what # Nobody /\ r \in Concerned(what)
  BY RulesAssumption DEF Concerned
<1> QED
  BY <1>1 DEF Settled, Concerned

\* What a rule settles by: a step that takes away no reason to evaluate it, leaves it
\* as settled as it was.
LEMMA SettledBefore ==
    ASSUME RulesInv, NEW r \in RRules,
           UNCHANGED <<up, load, unloaded>>, Settled(r)', seen = window,
           \A a \in Actors : owes'[a] = owes[a] \/ owes[a] = Nobody,
           \A c \in Looks[r] : silence[c] # "over"
    PROVE  Settled(r)
BY DEF Settled, Concerned

\* A result is judged: whoever looks at its check is owed an evaluation.
LEMMA JudgeKeeps ==
    ASSUME RulesInv, NEW c \in RChecks, NEW ok \in BOOLEAN, Judge(c, ok)
    PROVE  RulesInv'
<1> DEFINE prev == IF c \in quiet THEN "down" ELSE status[c]
<1>1. PICK to \in {prev, "down", "up"} :
        /\ status' = [status EXCEPT ![c] = to]
        /\ owes' = [owes EXCEPT ![c] = IF to # prev THEN c ELSE Nobody]
        /\ missed' = IF c \in quiet /\ to = "down" THEN missed \cup Looking(c) ELSE missed
        /\ to = "down" \/ to = "up" \/ to = prev
  BY DEF Judge
<1>2. /\ up /\ owes[c] = Nobody /\ quiet' = quiet \ {c}
      /\ UNCHANGED <<up, settings, away, silence, window, seen, held, stored, saving, load,
                     unloaded, bounds, fired, unsure>>
  BY DEF Judge
<1>3. HasState' /\ NotNew' /\ FiredIsHeld' /\ FiredIsSaved' /\ FiredIsStored'
  BY <1>2, DecisionsKept
<1>4. Asleep' /\ StoredAsItStands'
  BY <1>2, AwakeKept
<1>5. c \in Actors /\ to \in Statuses
  BY <1>1 DEF Actors, Statuses, RulesInv, RulesTypeOK
<1>6. RulesTypeOK'
  <2>1. Looking(c) \subseteq RRules
    BY DEF Looking
  <2> QED
    BY <1>1, <1>2, <1>5, <2>1, TypesKept DEF settings, bounds, RulesInv, RulesTypeOK
<1>7. MetAsItStands'
  <2> SUFFICES ASSUME NEW r \in RRules, r \notin missed', live'.rules[r] = "on", Settled(r)'
               PROVE  held'[r] = "met" <=> Met(r)'
    BY DEF MetAsItStands
  <2>1. \A a \in Actors : owes'[a] = owes[a] \/ owes[a] = Nobody
    BY <1>1, <1>2 DEF RulesInv, RulesTypeOK
  <2>2. Settled(r)
    BY <1>2, <2>1, SettledBefore DEF Settled
  <2>3. held[r] = "met" <=> Met(r)
    <3>1. r \notin missed /\ live.rules[r] = "on"
      BY <1>1, <1>2 DEF settings
    <3> QED
      BY <2>2, <3>1 DEF RulesInv, MetAsItStands
  <2>4. \A d \in Looks[r] : status'[d] = status[d]
    <3> SUFFICES ASSUME c \in Looks[r]
                 PROVE  status'[c] = status[c]
      BY <1>1 DEF RulesInv, RulesTypeOK
    <3>1. to = prev
      <4> SUFFICES ASSUME to # prev
                   PROVE  FALSE
        OBVIOUS
      <4>1. owes'[c] = c
        BY <1>1, <1>5 DEF RulesInv, RulesTypeOK
      <4> QED
        BY <1>5, <4>1, Owed
    <3>2. c \notin quiet
      BY <1>1, <3>1 DEF Looking
    <3> QED
      BY <1>1, <3>1, <3>2 DEF RulesInv, RulesTypeOK
  <2>5. Met(r)' <=> Met(r)
    BY <1>2, <2>4, MetKept DEF Counts, settings
  <2> QED
    BY <1>2, <2>3, <2>5
<1> QED
  BY <1>3, <1>4, <1>6, <1>7 DEF RulesInv

\* A user silences a check or ends its silence.
LEMMA SilenceKeeps ==
    ASSUME RulesInv, NEW c \in Silenceable, NEW to \in {"yes", "no"}, Silence(c, to)
    PROVE  RulesInv'
<1>1. /\ up /\ owes[User] = Nobody /\ owes' = [owes EXCEPT ![User] = c]
      /\ silence' = [silence EXCEPT ![c] = to]
      /\ UNCHANGED <<up, settings, status, quiet, away, window, seen, held, stored, saving,
                     load, unloaded, bounds, history>>
  BY DEF Silence, Owe
<1>2. c \in RChecks /\ User \in Actors
  BY RulesAssumption DEF Actors
<1>3. HasState' /\ NotNew' /\ FiredIsHeld' /\ FiredIsSaved' /\ FiredIsStored'
  BY <1>1, DecisionsKept DEF history
<1>4. Asleep' /\ StoredAsItStands'
  BY <1>1, AwakeKept
<1>5. RulesTypeOK'
  BY <1>1, <1>2, TypesKept DEF settings, bounds, history, RulesInv, RulesTypeOK
<1>6. MetAsItStands'
  <2> SUFFICES ASSUME NEW r \in RRules, r \notin missed', live'.rules[r] = "on", Settled(r)'
               PROVE  held'[r] = "met" <=> Met(r)'
    BY DEF MetAsItStands
  <2>1. owes'[User] = c /\ \A a \in Actors : owes'[a] = owes[a] \/ owes[a] = Nobody
    BY <1>1, <1>2 DEF RulesInv, RulesTypeOK
  <2>2. c \notin Looks[r]
    BY <1>2, <2>1, Owed
  <2>3. \A d \in Looks[r] : silence'[d] = silence[d]
    BY <1>1, <1>2, <2>2, RulesAssumption DEF RulesInv, RulesTypeOK
  <2>4. Settled(r)
    BY <1>1, <2>1, <2>3, SettledBefore DEF Settled
  <2>5. Met(r)' <=> Met(r)
    BY <1>1, <2>3, MetKept DEF Counts, settings
  <2> QED
    BY <1>1, <2>4, <2>5 DEF RulesInv, MetAsItStands, settings, history
<1> QED
  BY <1>3, <1>4, <1>5, <1>6 DEF RulesInv

\* The time of a silence is up; until the tick sees it nothing is settled.
LEMMA SilenceOverKeeps ==
    ASSUME RulesInv, NEW c \in RChecks, SilenceOver(c)
    PROVE  RulesInv'
<1>1. /\ silence[c] = "yes" /\ silence' = [silence EXCEPT ![c] = "over"]
      /\ UNCHANGED <<up, settings, status, quiet, away, window, seen, held, stored, owes,
                     saving, load, unloaded, bounds, history>>
  BY DEF SilenceOver
<1>2. HasState' /\ NotNew' /\ FiredIsHeld' /\ FiredIsSaved' /\ FiredIsStored'
  BY <1>1, DecisionsKept DEF history
<1>3. Asleep'
  BY <1>1 DEF Asleep, RulesInv
<1>4. RulesTypeOK'
  BY <1>1, TypesKept DEF settings, bounds, history, RulesInv, RulesTypeOK
<1>5. ASSUME NEW r \in RRules, \A d \in Looks[r] : silence'[d] # "over"
      PROVE  (\A d \in Looks[r] : silence[d] # "over") /\ (Met(r)' <=> Met(r))
  <2>1. \A d \in Looks[r] : silence'[d] = silence[d]
    BY <1>1, <1>5, RulesAssumption DEF RulesInv, RulesTypeOK
  <2> QED
    BY <1>1, <1>5, <2>1, MetKept DEF Counts, settings
<1>6. MetAsItStands'
  <2> SUFFICES ASSUME NEW r \in RRules, r \notin missed', live'.rules[r] = "on", Settled(r)'
               PROVE  held'[r] = "met" <=> Met(r)'
    BY DEF MetAsItStands
  <2>1. /\ \A d \in Looks[r] : silence[d] # "over"
        /\ Met(r)' <=> Met(r)
    BY <1>5 DEF Settled
  <2>2. Settled(r)
    BY <1>1, <2>1, SettledBefore DEF Settled
  <2> QED
    BY <1>1, <2>1, <2>2 DEF RulesInv, MetAsItStands, settings, history
<1>7. StoredAsItStands'
  BY <1>1, <1>5 DEF RulesInv, StoredAsItStands, settings, history
<1> QED
  BY <1>2, <1>3, <1>4, <1>6, <1>7 DEF RulesInv

\* While an evaluation of all rules is owed, none is settled.
LEMMA AllOwed ==
    ASSUME RulesInv, NEW a \in Actors, owes'[a] = All
    PROVE  MetAsItStands'
<1>1. \A r \in RRules : ~Settled(r)'
  BY Owed
<1> QED
  BY <1>1 DEF MetAsItStands

\* A tick ends silences and finds a collector quiet.
LEMMA TickKeeps ==
    ASSUME RulesInv, Tick
    PROVE  RulesInv'
<1>1. PICK lost \in SUBSET RChecks, gone \in BOOLEAN :
        /\ away' = (away \/ gone)
        /\ status' = [c \in RChecks |-> IF c \in lost THEN "unknown" ELSE status[c]]
        /\ quiet' = quiet \cup {c \in lost : status[c] = "down"}
  BY RulesAssumption DEF Tick
<1>2. /\ up /\ owes' = [owes EXCEPT ![Scheduler] = All]
      /\ silence' = [c \in RChecks |-> IF silence[c] = "over" THEN "no" ELSE silence[c]]
      /\ UNCHANGED <<up, settings, window, seen, held, stored, saving, load, unloaded, bounds,
                     history>>
  BY DEF Tick, Owe
<1>3. HasState' /\ NotNew' /\ FiredIsHeld' /\ FiredIsSaved' /\ FiredIsStored'
  BY <1>2, DecisionsKept DEF history
<1>4. Asleep' /\ StoredAsItStands'
  BY <1>2, AwakeKept
<1>5. Scheduler \in Actors
  BY DEF Actors
<1>6. RulesTypeOK'
  <2>1. away' \in BOOLEAN /\ quiet' \subseteq RChecks
    BY <1>1 DEF RulesInv, RulesTypeOK
  <2>2. status' \in [RChecks -> Statuses] /\ silence' \in [RChecks -> {"no", "yes", "over"}]
    BY <1>1, <1>2 DEF RulesInv, RulesTypeOK, Statuses
  <2>3. owes' \in [Actors -> RChecks \cup {Nobody, All}]
    BY <1>2, <1>5 DEF RulesInv, RulesTypeOK
  <2> QED
    BY <1>2, <2>1, <2>2, <2>3, TypesKept DEF settings, bounds, history, RulesInv, RulesTypeOK
<1>7. MetAsItStands'
  BY <1>2, <1>5, AllOwed DEF RulesInv, RulesTypeOK
<1> QED
  BY <1>3, <1>4, <1>6, <1>7 DEF RulesInv

\* The collector is heard of again.
LEMMA BackKeeps ==
    ASSUME RulesInv, Back
    PROVE  RulesInv'
<1>1. /\ up /\ away' = FALSE
      /\ UNCHANGED <<up, settings, status, quiet, silence, window, seen, held, stored, owes,
                     saving, load, unloaded, bounds, history>>
  BY DEF Back
<1>2. HasState' /\ NotNew' /\ FiredIsHeld' /\ FiredIsSaved' /\ FiredIsStored'
  BY <1>1, DecisionsKept DEF history
<1>3. Asleep' /\ StoredAsItStands'
  BY <1>1, AwakeKept
<1>4. RulesTypeOK'
  BY <1>1, TypesKept DEF settings, bounds, history, RulesInv, RulesTypeOK
<1>5. MetAsItStands'
  <2>1. \A r \in RRules : (Met(r)' <=> Met(r)) /\ (Settled(r)' <=> Settled(r))
    BY <1>1, MetKept DEF Counts, Settled, settings
  <2> QED
    BY <1>1, <2>1 DEF RulesInv, MetAsItStands, settings, history
<1> QED
  BY <1>2, <1>3, <1>4, <1>5 DEF RulesInv

\* The maintenance window opens or closes.
LEMMA WindowTurnsKeeps ==
    ASSUME RulesInv, WindowTurns
    PROVE  RulesInv'
<1>1. /\ window' = ~window /\ missed' = IF up /\ seen = window THEN missed ELSE RRules
      /\ UNCHANGED <<up, settings, status, quiet, away, silence, seen, held, stored, owes,
                     saving, load, unloaded, bounds, fired, unsure>>
  BY DEF WindowTurns
<1>2. HasState' /\ NotNew' /\ FiredIsHeld' /\ FiredIsSaved' /\ FiredIsStored'
  BY <1>1, DecisionsKept
<1>3. Asleep'
  BY <1>1 DEF Asleep, RulesInv
<1>4. StoredAsItStands'
  BY <1>1 DEF StoredAsItStands
<1>5. RulesTypeOK'
  <2>1. window' \in BOOLEAN /\ missed' \subseteq RRules
    BY <1>1 DEF RulesInv, RulesTypeOK
  <2> QED
    BY <1>1, <2>1, TypesKept DEF settings, bounds, RulesInv, RulesTypeOK
<1>6. MetAsItStands'
  <2>1. CASE up /\ seen = window
    <3>1. seen' # window'
      BY <1>1, <2>1 DEF RulesInv, RulesTypeOK
    <3> QED
      BY <3>1 DEF MetAsItStands, Settled
  <2>2. CASE ~(up /\ seen = window)
    BY <1>1, <2>2 DEF MetAsItStands
  <2> QED
    BY <2>1, <2>2
<1> QED
  BY <1>2, <1>3, <1>4, <1>5, <1>6 DEF RulesInv

\* The engine sees that it has.
LEMMA TrackKeeps ==
    ASSUME RulesInv, Track
    PROVE  RulesInv'
<1>1. /\ up /\ seen' = window /\ owes' = [owes EXCEPT ![Tracker] = All]
      /\ UNCHANGED <<up, settings, status, quiet, away, silence, window, held, stored, saving,
                     load, unloaded, bounds, history>>
  BY DEF Track, Owe
<1>2. HasState' /\ NotNew' /\ FiredIsHeld' /\ FiredIsSaved' /\ FiredIsStored'
  BY <1>1, DecisionsKept DEF history
<1>3. Asleep' /\ StoredAsItStands'
  BY <1>1, AwakeKept
<1>4. Tracker \in Actors
  BY DEF Actors
<1>5. RulesTypeOK'
  BY <1>1, <1>4, TypesKept DEF settings, bounds, history, RulesInv, RulesTypeOK
<1>6. MetAsItStands'
  BY <1>1, <1>4, AllOwed DEF RulesInv, RulesTypeOK
<1> QED
  BY <1>2, <1>3, <1>5, <1>6 DEF RulesInv

-----------------------------------------------------------------------------
(* Evaluations.                                                            *)

\* What an evaluation makes of a rule, and where it leaves it.
LEMMA Made ==
    ASSUME NEW r \in RRules, NEW what
    PROVE  /\ Outcome(r, what) \in Outcomes
           /\ Outcome(r, what) = "fired" =>
                live.rules[r] = "on" /\ held[r] = "unmet" /\ Met(r) /\ r \in what
           /\ Outcome(r, what) = "cleared" => held[r] = "met" /\ ~Met(r) /\ live.rules[r] = "on"
           /\ Outcome(r, what) = "reset" => held[r] = "met" /\ live.rules[r] = "off"
           /\ Outcome(r, what) = "none" /\ r \in what /\ live.rules[r] = "on" =>
                ~(held[r] = "unmet" /\ Met(r)) /\ ~(held[r] = "met" /\ ~Met(r))
<1>1. CASE live.rules[r] = "off" /\ held[r] = "met"
  BY <1>1 DEF Outcome, Outcomes
<1>2. CASE live.rules[r] = "on" /\ r \in what /\ held[r] = "unmet" /\ Met(r)
  BY <1>2 DEF Outcome, Outcomes
<1>3. CASE live.rules[r] = "on" /\ r \in what /\ held[r] = "met" /\ ~Met(r)
  BY <1>3 DEF Outcome, Outcomes
<1>4. CASE /\ ~(live.rules[r] = "off" /\ held[r] = "met")
           /\ ~(live.rules[r] = "on" /\ r \in what /\ held[r] = "unmet" /\ Met(r))
           /\ ~(live.rules[r] = "on" /\ r \in what /\ held[r] = "met" /\ ~Met(r))
  BY <1>4 DEF Outcome, Outcomes
<1> QED
  BY <1>1, <1>2, <1>3, <1>4

\* While rulesEvalMu is free nothing is about to be stored.
LEMMA FreeMeansNone ==
    ASSUME Free, NEW a \in Actors, NEW r \in RRules
    PROVE  saving[a][r] = "none"
BY DEF Free, NothingSaving

\* An evaluation: a rule is met afterwards exactly while its conditions hold.
LEMMA DecideKeeps ==
    ASSUME RulesInv, NEW a \in Actors, Decide(a)
    PROVE  RulesInv'
<1> DEFINE what == Concerned(owes[a])
           made == [r \in RRules |-> Outcome(r, what)]
<1>1. /\ up /\ owes[a] # Nobody /\ Free
      /\ held' = [r \in RRules |-> CASE made[r] = "none" -> held[r]
                                     [] made[r] = "fired" -> "met"
                                     [] OTHER -> "unmet"]
      /\ saving' = [saving EXCEPT ![a] = made]
      /\ owes' = [owes EXCEPT ![a] = Nobody]
      /\ fired' = {r \in RRules : made[r] = "fired" \/ (made[r] = "none" /\ r \in fired)}
      /\ missed' = missed \ what
      /\ UNCHANGED <<up, settings, checkVars, stored, load, unloaded, bounds, unsure>>
  BY DEF Decide, DecideWith
<1>2. \A r \in RRules :
        /\ made[r] \in Outcomes
        /\ made[r] = "fired" => live.rules[r] = "on" /\ held[r] = "unmet" /\ Met(r) /\ r \in what
        /\ made[r] = "cleared" => held[r] = "met" /\ ~Met(r) /\ live.rules[r] = "on"
        /\ made[r] = "reset" => held[r] = "met" /\ live.rules[r] = "off"
        /\ made[r] = "none" /\ r \in what /\ live.rules[r] = "on" =>
             ~(held[r] = "unmet" /\ Met(r)) /\ ~(held[r] = "met" /\ ~Met(r))
  BY Made
<1> HIDE DEF made
<1>3. \A r \in RRules :
        /\ made[r] = "none" => held'[r] = held[r]
        /\ made[r] = "fired" => held'[r] = "met"
        /\ made[r] \in {"cleared", "reset"} => held'[r] = "unmet"
  BY <1>1, <1>2
<1>4. /\ saving'[a] = made
      /\ \A b \in Actors, r \in RRules : b # a => saving'[b][r] = "none"
  BY <1>1, FreeMeansNone DEF RulesInv, RulesTypeOK
<1>5. RulesTypeOK'
  <2>1. held' \in [RRules -> States]
    <3>1. \A r \in RRules : held'[r] \in States
      BY <1>2, <1>3 DEF RulesInv, RulesTypeOK, Outcomes, States
    <3> QED
      BY <1>1, <3>1
  <2>2. saving' \in [Actors -> [RRules -> Outcomes]]
    <3>1. made \in [RRules -> Outcomes]
      BY <1>2 DEF made
    <3> QED
      BY <1>1, <3>1 DEF RulesInv, RulesTypeOK
  <2>3. \A b, d \in Actors :
            saving'[b] # NothingSaving[b] /\ saving'[d] # NothingSaving[d] => b = d
    BY <1>1 DEF Free
  <2>4. /\ owes' \in [Actors -> RChecks \cup {Nobody, All}]
        /\ fired' \subseteq RRules /\ missed' \subseteq RRules
    BY <1>1 DEF RulesInv, RulesTypeOK
  <2> QED
    BY <1>1, <2>1, <2>2, <2>3, <2>4
    DEF RulesInv, RulesTypeOK, settings, checkVars, bounds
<1>6. HasState'
  BY <1>1, <1>2, <1>3 DEF RulesInv, HasState, settings, Outcomes
<1>7. NotNew'
  <2>1. \A r \in RRules : Known(r)' => Known(r)
    BY <1>1, <1>2 DEF Known, settings, Absent
  <2> QED
    BY <1>1, <2>1 DEF RulesInv, NotNew, settings
<1>8. FiredIsHeld'
  <2> SUFFICES ASSUME NEW r \in fired', r \notin unsure' \/ Pending(r)'
               PROVE  held'[r] = "met" \/ GoneForGood(r)'
    BY DEF FiredIsHeld
  <2>1. CASE made[r] = "fired"
    BY <1>1, <1>3, <2>1
  <2>2. CASE made[r] = "none"
    <3>1. r \in RRules /\ r \in fired /\ r \notin unsure
      BY <1>1, <1>4, <2>2 DEF Pending
    <3> QED
      BY <1>1, <1>3, <2>2, <3>1 DEF RulesInv, FiredIsHeld, GoneForGood, settings
  <2> QED
    BY <1>1, <2>1, <2>2
<1>9. FiredIsSaved'
  <2>1. ASSUME NEW r \in fired', NEW b \in Actors, saving'[b][r] # "none"
        PROVE  saving'[b][r] = "fired"
    BY <1>1, <1>4, <2>1
  <2> QED
    BY <2>1 DEF FiredIsSaved
<1>10. FiredIsStored'
  <2> SUFFICES ASSUME NEW r \in fired' \ unsure', ~Pending(r)'
               PROVE  conf'.rules[r] = "gone" \/ stored'[r] = "met"
    BY DEF FiredIsStored
  <2>1. r \in RRules /\ made[r] = "none"
    BY <1>1, <1>4 DEF Pending
  <2>2. ~Pending(r)
    BY <1>1, <2>1, FreeMeansNone DEF Pending
  <2> QED
    BY <1>1, <2>1, <2>2 DEF RulesInv, FiredIsStored, settings
<1>11. MetAsItStands'
  <2> SUFFICES ASSUME NEW r \in RRules, r \notin missed', live'.rules[r] = "on", Settled(r)'
               PROVE  held'[r] = "met" <=> Met(r)'
    BY DEF MetAsItStands
  <2>1. Met(r)' <=> Met(r)
    BY <1>1, MetKept DEF Counts, settings, checkVars
  <2>2. live.rules[r] = "on"
    BY <1>1 DEF settings
  <2>3. CASE r \in what
    <3>1. held[r] \in {"met", "unmet"}
      BY <1>1, <2>2 DEF RulesInv, HasState, RulesTypeOK, States, Absent
    <3> QED
      BY <1>2, <1>3, <2>1, <2>2, <2>3, <3>1 DEF Outcomes
  <2>4. CASE r \notin what
    <3>1. held'[r] = held[r] /\ r \notin missed
      BY <1>1, <1>2, <1>3, <2>2, <2>4 DEF Outcomes, made, Outcome
    <3>2. Settled(r)
      <4>1. \A b \in Actors : owes[b] = Nobody \/ r \notin Concerned(owes[b])
        <5> SUFFICES ASSUME NEW b \in Actors, b # a
                     PROVE  owes[b] = Nobody \/ r \notin Concerned(owes[b])
          BY <2>4
        <5>1. owes'[b] = owes[b]
          BY <1>1 DEF RulesInv, RulesTypeOK
        <5> QED
          BY <5>1 DEF Settled, Concerned
      <4> QED
        BY <1>1, <4>1 DEF Settled, settings, checkVars
    <3> QED
      BY <2>1, <2>2, <3>1, <3>2 DEF RulesInv, MetAsItStands
  <2> QED
    BY <2>3, <2>4
<1>12. Asleep' /\ StoredAsItStands'
  BY <1>1, AwakeKept
<1> QED
  BY <1>5, <1>6, <1>7, <1>8, <1>9, <1>10, <1>11, <1>12 DEF RulesInv

\* A step that changes nothing a rule is met by, and no reason to evaluate it.
LEMMA StandingKept ==
    ASSUME RulesInv,
           UNCHANGED <<up, live, status, silence, window, seen, held, owes, unloaded, missed>>,
           load'.at = load.at
    PROVE  MetAsItStands'
<1>1. \A r \in RRules : Met(r)' <=> Met(r)
  BY MetKept DEF Counts
<1>2. \A r \in RRules : Settled(r)' <=> Settled(r)
  BY DEF Settled, Concerned
<1> QED
  BY <1>1, <1>2 DEF RulesInv, MetAsItStands

\* What an evaluation decided is stored,
LEMMA SaveKeeps ==
    ASSUME RulesInv, NEW a \in Actors, NEW r \in RRules, Save(a, r) \/ SaveFails(a, r)
    PROVE  RulesInv'
<1>1. /\ up /\ saving[a][r] # "none" /\ saving' = [saving EXCEPT ![a][r] = "none"]
      /\ UNCHANGED <<up, settings, checkVars, held, owes, load, unloaded, fired, missed>>
      /\ {edits', crashes', fails'} \subseteq Nat
  BY DEF Save, SaveFails, bounds, RulesInv, RulesTypeOK
<1>2. \/ stored' = Put(r, Stored(saving[a][r])) /\ unsure' = unsure \ {r}
      \/ stored' = stored /\ unsure' = unsure \cup {r}
  BY DEF Save, SaveFails
<1>3. \A b \in Actors, s \in RRules :
        saving'[b][s] = IF b = a /\ s = r THEN "none" ELSE saving[b][s]
  BY <1>1 DEF RulesInv, RulesTypeOK
<1>4. \A s \in RRules : s # r => stored'[s] = stored[s] /\ (Pending(s)' <=> Pending(s))
  BY <1>2, <1>3 DEF Put, Pending, RulesInv, RulesTypeOK
<1>5. RulesTypeOK'
  <2>1. stored' \in [RRules -> States]
    BY <1>2 DEF Put, Stored, States, RulesInv, RulesTypeOK
  <2>2. saving' \in [Actors -> [RRules -> Outcomes]]
    BY <1>1 DEF RulesInv, RulesTypeOK, Outcomes
  <2>3. \A b, d \in Actors :
            saving'[b] # NothingSaving[b] /\ saving'[d] # NothingSaving[d] => b = d
    <3>1. \A b \in Actors : b # a => saving'[b] = saving[b]
      BY <1>1 DEF RulesInv, RulesTypeOK
    <3>2. saving[a] # NothingSaving[a]
      BY <1>1 DEF NothingSaving
    <3> QED
      BY <3>1, <3>2 DEF RulesInv, RulesTypeOK
  <2>4. unsure' \subseteq RRules
    BY <1>2 DEF RulesInv, RulesTypeOK
  <2> QED
    BY <1>1, <2>1, <2>2, <2>3, <2>4 DEF RulesInv, RulesTypeOK, settings, checkVars
<1>6. HasState' /\ NotNew'
  BY <1>1 DEF RulesInv, HasState, NotNew, Known, settings
<1>7. FiredIsHeld'
  <2> SUFFICES ASSUME NEW s \in fired, s \notin unsure' \/ Pending(s)'
               PROVE  held[s] = "met" \/ GoneForGood(s)
    BY <1>1 DEF FiredIsHeld, GoneForGood, settings
  <2>1. s \in RRules
    BY DEF RulesInv, RulesTypeOK
  <2>2. s \notin unsure \/ Pending(s)
    BY <1>1, <1>2, <1>4, <2>1 DEF Pending
  <2> QED
    BY <1>1, <2>2 DEF RulesInv, FiredIsHeld
<1>8. FiredIsSaved'
  BY <1>1, <1>3 DEF RulesInv, RulesTypeOK, FiredIsSaved
<1>9. FiredIsStored'
  <2> SUFFICES ASSUME NEW s \in fired \ unsure', ~Pending(s)', conf.rules[s] # "gone"
               PROVE  stored'[s] = "met"
    BY <1>1 DEF FiredIsStored, settings
  <2>1. s \in RRules
    BY DEF RulesInv, RulesTypeOK
  <2>2. CASE s = r
    <3>1. saving[a][r] = "fired" /\ conf.rules[r] # "new"
      BY <1>1, <2>2 DEF RulesInv, FiredIsSaved, NotNew, Known
    <3>2. stored' = Put(r, Stored(saving[a][r]))
      BY <1>2, <2>2
    <3> QED
      BY <2>2, <3>1, <3>2 DEF Put, Stored, Absent, RulesInv, RulesTypeOK
  <2>3. CASE s # r
    BY <1>2, <1>4, <2>1, <2>3 DEF RulesInv, FiredIsStored
  <2> QED
    BY <2>2, <2>3
<1>10. MetAsItStands'
  BY <1>1, StandingKept DEF settings, checkVars
<1>11. Asleep' /\ StoredAsItStands'
  BY <1>1, AwakeKept
<1> QED
  BY <1>5, <1>6, <1>7, <1>8, <1>9, <1>10, <1>11 DEF RulesInv

-----------------------------------------------------------------------------
(* The configuration.                                                      *)

\* Until a reload has run its course no rule is settled.
LEMMA Unsettled ==
    ASSUME load'.at # "idle" \/ unloaded'
    PROVE  MetAsItStands'
BY DEF MetAsItStands, Settled

\* A request stores a new configuration;
LEMMA SavedKeeps ==
    ASSUME RulesInv, NEW to \in [on : [RChecks -> BOOLEAN], rules : [RRules -> Settings]],
           Saved(to), stored' \in [RRules -> States],
           \A r \in RRules :
               /\ conf.rules[r] = "gone" => to.rules[r] = "gone"
               /\ conf.rules[r] # "new" => to.rules[r] # "new"
               /\ to.rules[r] = "gone" \/ stored'[r] = stored[r]
    PROVE  RulesInv'
<1>1. /\ up /\ conf' = to /\ unloaded' = TRUE /\ edits' = edits + 1
      /\ UNCHANGED <<up, live, checkVars, held, owes, saving, load, crashes, fails, history>>
  BY DEF Saved
<1>2. RulesTypeOK'
  BY <1>1, TypesKept DEF RulesInv, RulesTypeOK, checkVars, history
<1>3. HasState'
  BY <1>1 DEF RulesInv, HasState
<1>4. NotNew'
  BY <1>1 DEF RulesInv, NotNew, Known, history
<1>5. FiredIsHeld'
  BY <1>1 DEF RulesInv, RulesTypeOK, FiredIsHeld, GoneForGood, Pending, history
<1>6. FiredIsSaved'
  BY <1>1 DEF RulesInv, FiredIsSaved, history
<1>7. FiredIsStored'
  <2>1. fired \subseteq RRules /\ UNCHANGED <<fired, unsure, saving>>
    BY <1>1 DEF RulesInv, RulesTypeOK, history
  <2> QED
    BY <1>1, <2>1 DEF RulesInv, FiredIsStored, Pending
<1>8. MetAsItStands'
  BY <1>1, Unsettled
<1>9. Asleep' /\ StoredAsItStands'
  BY <1>1, AwakeKept
<1> QED
  BY <1>2, <1>3, <1>4, <1>5, <1>6, <1>7, <1>8, <1>9 DEF RulesInv

\* of a rule,
LEMMA SaveRuleKeeps ==
    ASSUME RulesInv, NEW r \in RRules, NEW to \in Settings, SaveRule(r, to)
    PROVE  RulesInv'
<1> DEFINE new == [conf EXCEPT !.rules[r] = to]
<1>1. /\ conf.rules[r] # "gone" /\ to # "new" /\ Saved(new)
      /\ stored' = IF to = "gone" THEN [stored EXCEPT ![r] = "none"] ELSE stored
  BY DEF SaveRule
<1>2. /\ new \in [on : [RChecks -> BOOLEAN], rules : [RRules -> Settings]]
      /\ stored' \in [RRules -> States]
      /\ \A s \in RRules : new.rules[s] = IF s = r THEN to ELSE conf.rules[s]
      /\ \A s \in RRules : s # r \/ to # "gone" => stored'[s] = stored[s]
  BY <1>1 DEF RulesInv, RulesTypeOK, States
<1> HIDE DEF new
<1> QED
  BY <1>1, <1>2, SavedKeeps

\* or of a check.
LEMMA SwitchCheckKeeps ==
    ASSUME RulesInv, NEW c \in RChecks, SwitchCheck(c)
    PROVE  RulesInv'
<1> DEFINE new == [conf EXCEPT !.on[c] = ~@]
<1>1. Saved(new) /\ stored' = stored
  BY DEF SwitchCheck
<1>2. /\ new \in [on : [RChecks -> BOOLEAN], rules : [RRules -> Settings]]
      /\ new.rules = conf.rules /\ stored \in [RRules -> States]
  BY DEF RulesInv, RulesTypeOK
<1> HIDE DEF new
<1> QED
  BY <1>1, <1>2, SavedKeeps

\* A reload applies the checks,
LEMMA LoadAppliesKeeps ==
    ASSUME RulesInv, LoadApplies
    PROVE  RulesInv'
<1>1. /\ up /\ unloaded' = FALSE /\ load' = [load EXCEPT !.at = "applied"]
      /\ live' = [live EXCEPT !.on = conf.on]
      /\ status' = [c \in RChecks |-> IF ~conf.on[c] THEN "paused"
                                      ELSE IF status[c] = "paused" THEN "unknown" ELSE status[c]]
      /\ quiet' = {c \in quiet : conf.on[c]}
      /\ UNCHANGED <<up, conf, away, silence, window, seen, held, stored, owes, saving, bounds,
                     history>>
  BY DEF LoadApplies, Applied
<1>2. /\ load' \in [at : {"idle", "applied", "read", "saving"}, rules : [RRules -> Settings],
                    states : [RRules -> States], fresh : SUBSET RRules]
      /\ load'.at = "applied"
      /\ live' \in [on : [RChecks -> BOOLEAN], rules : [RRules -> Settings]]
      /\ live'.rules = live.rules
  BY <1>1 DEF RulesInv, RulesTypeOK
<1>3. status' \in [RChecks -> Statuses]
  BY <1>1 DEF RulesInv, RulesTypeOK, Statuses
<1>4. RulesTypeOK'
  BY <1>1, <1>2, <1>3, TypesKept DEF RulesInv, RulesTypeOK, bounds, history
<1>5. HasState' /\ NotNew'
  BY <1>1, <1>2 DEF RulesInv, HasState, NotNew, Known, history
<1>6. FiredIsHeld' /\ FiredIsSaved' /\ FiredIsStored'
  BY <1>1, <1>2
  DEF RulesInv, FiredIsHeld, FiredIsSaved, FiredIsStored, GoneForGood, Pending, history
<1>7. MetAsItStands'
  BY <1>2, Unsettled
<1>8. Asleep' /\ StoredAsItStands'
  BY <1>1, AwakeKept
<1> QED
  BY <1>4, <1>5, <1>6, <1>7, <1>8 DEF RulesInv

\* reads the rules and their states,
LEMMA LoadReadsKeeps ==
    ASSUME RulesInv, LoadReads
    PROVE  RulesInv'
<1>1. /\ up /\ load' = [load EXCEPT !.at = "read", !.rules = conf.rules, !.states = stored]
      /\ UNCHANGED <<up, settings, checkVars, held, stored, owes, saving, unloaded, bounds,
                     history>>
  BY DEF LoadReads
<1>2. /\ load' \in [at : {"idle", "applied", "read", "saving"}, rules : [RRules -> Settings],
                    states : [RRules -> States], fresh : SUBSET RRules]
      /\ load'.at = "read" /\ load'.rules = conf.rules
  BY <1>1 DEF RulesInv, RulesTypeOK
<1>3. RulesTypeOK'
  BY <1>1, <1>2, TypesKept DEF RulesInv, RulesTypeOK, settings, checkVars, bounds, history
<1>4. HasState' /\ NotNew'
  BY <1>1, <1>2 DEF RulesInv, HasState, NotNew, Known, settings, history, Absent
<1>5. FiredIsHeld' /\ FiredIsSaved' /\ FiredIsStored'
  BY <1>1, <1>2
  DEF RulesInv, FiredIsHeld, FiredIsSaved, FiredIsStored, GoneForGood, Pending, settings, history
<1>6. MetAsItStands'
  BY <1>2, Unsettled
<1>7. Asleep' /\ StoredAsItStands'
  BY <1>1, AwakeKept
<1> QED
  BY <1>3, <1>4, <1>5, <1>6, <1>7 DEF RulesInv

\* takes them over,
LEMMA LoadRulesKeeps ==
    ASSUME RulesInv, LoadRules
    PROVE  RulesInv'
<1> DEFINE known == {r \in RRules : load.rules[r] \notin Absent}
           fresh == {r \in known : held[r] = "none" /\ load.states[r] = "none"}
<1>1. /\ up /\ load.at = "read"
      /\ live' = [live EXCEPT !.rules = load.rules]
      /\ held' = [r \in RRules |-> IF r \notin known THEN "none"
                                   ELSE IF r \in fresh THEN "unmet"
                                   ELSE IF held[r] = "none" THEN load.states[r] ELSE held[r]]
      /\ load' = [load EXCEPT !.at = "saving", !.fresh = fresh]
      /\ fired' = fired \cap known /\ missed' = missed \cap known
      /\ UNCHANGED <<up, conf, checkVars, stored, owes, saving, unloaded, bounds, unsure>>
  BY DEF LoadRules
<1>2. /\ load' \in [at : {"idle", "applied", "read", "saving"}, rules : [RRules -> Settings],
                    states : [RRules -> States], fresh : SUBSET RRules]
      /\ load'.at = "saving" /\ load'.rules = load.rules
      /\ live' \in [on : [RChecks -> BOOLEAN], rules : [RRules -> Settings]]
      /\ live'.rules = load.rules
  BY <1>1 DEF RulesInv, RulesTypeOK
<1>3. held' \in [RRules -> States]
  BY <1>1 DEF RulesInv, RulesTypeOK, States
<1>4. RulesTypeOK'
  BY <1>1, <1>2, <1>3, TypesKept DEF RulesInv, RulesTypeOK, checkVars, bounds
<1>5. HasState'
  BY <1>1, <1>2 DEF HasState
<1>6. NotNew'
  <2>1. \A r \in RRules : Known(r)' => Known(r)
    BY <1>1, <1>2 DEF Known
  <2> QED
    BY <1>1, <2>1 DEF RulesInv, NotNew
<1>7. FiredIsHeld'
  <2> SUFFICES ASSUME NEW r \in fired', r \notin unsure' \/ Pending(r)'
               PROVE  held'[r] = "met"
    BY DEF FiredIsHeld
  <2>1. r \in fired /\ r \in known /\ r \in RRules
    BY <1>1
  <2>2. held[r] = "met" \/ GoneForGood(r)
    BY <1>1, <2>1 DEF RulesInv, FiredIsHeld, Pending
  <2>3. held[r] = "met"
    BY <1>1, <2>1, <2>2 DEF GoneForGood, Absent
  <2> QED
    BY <1>1, <2>1, <2>3
<1>8. FiredIsSaved' /\ FiredIsStored'
  BY <1>1 DEF RulesInv, FiredIsSaved, FiredIsStored, Pending
<1>9. MetAsItStands'
  BY <1>2, Unsettled
<1>10. Asleep' /\ StoredAsItStands'
  BY <1>1, AwakeKept
<1> QED
  BY <1>4, <1>5, <1>6, <1>7, <1>8, <1>9, <1>10 DEF RulesInv

\* stores the state of a rule that is new,
LEMMA LoadSavesKeeps ==
    ASSUME RulesInv, NEW r \in RRules, LoadSaves(r)
    PROVE  RulesInv'
<1>1. /\ up /\ load' = [load EXCEPT !.fresh = @ \ {r}]
      /\ UNCHANGED <<up, settings, checkVars, held, owes, saving, unloaded, fired, missed>>
      /\ {edits', crashes', fails'} \subseteq Nat
  BY DEF LoadSaves, RulesInv, RulesTypeOK
<1>2. \/ /\ stored' = Put(r, "unmet")
         /\ unsure' = IF held[r] = "met" THEN unsure \cup {r} ELSE unsure
      \/ stored' = stored /\ unsure' = unsure
  BY DEF LoadSaves
<1>3. /\ load' \in [at : {"idle", "applied", "read", "saving"}, rules : [RRules -> Settings],
                    states : [RRules -> States], fresh : SUBSET RRules]
      /\ load'.at = load.at /\ load'.rules = load.rules
  BY <1>1 DEF RulesInv, RulesTypeOK
<1>4. RulesTypeOK'
  <2>1. stored' \in [RRules -> States] /\ unsure' \subseteq RRules
    BY <1>2 DEF Put, States, RulesInv, RulesTypeOK
  <2> QED
    BY <1>1, <1>3, <2>1, TypesKept DEF RulesInv, RulesTypeOK, settings, checkVars
<1>5. HasState' /\ NotNew'
  BY <1>1, <1>3 DEF RulesInv, HasState, NotNew, Known, settings
<1>6. FiredIsHeld' /\ FiredIsSaved'
  BY <1>1, <1>2, <1>3
  DEF RulesInv, FiredIsHeld, FiredIsSaved, GoneForGood, Pending, settings
<1>7. FiredIsStored'
  <2> SUFFICES ASSUME NEW s \in fired \ unsure', ~Pending(s)
               PROVE  conf.rules[s] = "gone" \/ stored'[s] = "met"
    BY <1>1 DEF FiredIsStored, Pending, settings
  <2>1. s \in RRules /\ s \notin unsure
    BY <1>2 DEF RulesInv, RulesTypeOK
  <2>2. conf.rules[s] = "gone" \/ stored[s] = "met"
    BY <2>1 DEF RulesInv, FiredIsStored
  <2>3. CASE stored' = stored
    BY <2>2, <2>3
  <2>4. CASE stored' = Put(r, "unmet") /\ s # r
    BY <2>2, <2>4 DEF Put
  <2>5. CASE stored' # stored /\ s = r
    BY <1>1, <1>2, <2>1, <2>5 DEF RulesInv, FiredIsHeld, GoneForGood
  <2> QED
    BY <1>2, <2>3, <2>4, <2>5
<1>8. MetAsItStands'
  BY <1>1, <1>3, StandingKept DEF settings, checkVars
<1>9. Asleep' /\ StoredAsItStands'
  BY <1>1, AwakeKept
<1> QED
  BY <1>4, <1>5, <1>6, <1>7, <1>8, <1>9 DEF RulesInv

\* A reload that has run its course.
LEMMA LoadEnded ==
    ASSUME RulesInv, up, load' = NoLoad,
           UNCHANGED <<up, settings, held, stored, saving, fired, unsure>>
    PROVE  /\ load' \in [at : {"idle", "applied", "read", "saving"},
                         rules : [RRules -> Settings], states : [RRules -> States],
                         fresh : SUBSET RRules]
           /\ HasState' /\ NotNew' /\ FiredIsHeld' /\ FiredIsSaved' /\ FiredIsStored'
           /\ Asleep' /\ StoredAsItStands'
<1>1. load'.at = "idle"
  BY DEF NoLoad
<1>2. NoLoad \in [at : {"idle", "applied", "read", "saving"}, rules : [RRules -> Settings],
                  states : [RRules -> States], fresh : SUBSET RRules]
  BY DEF NoLoad, Settings, States
<1>3. HasState' /\ NotNew'
  BY <1>1 DEF RulesInv, HasState, NotNew, Known, settings
<1>4. FiredIsHeld' /\ FiredIsSaved' /\ FiredIsStored'
  BY <1>1 DEF RulesInv, FiredIsHeld, FiredIsSaved, FiredIsStored, GoneForGood, Pending, settings
<1> QED
  BY <1>2, <1>3, <1>4, AwakeKept

\* evaluates all of them,
LEMMA LoadEvaluatesKeeps ==
    ASSUME RulesInv, LoadEvaluates
    PROVE  RulesInv'
<1>1. /\ up /\ owes' = [owes EXCEPT ![Loader] = All] /\ load' = NoLoad
      /\ UNCHANGED <<up, settings, checkVars, held, stored, saving, unloaded, bounds, history>>
  BY DEF LoadEvaluates, Owe
<1>2. Loader \in Actors /\ owes'[Loader] = All
  BY <1>1 DEF Actors, RulesInv, RulesTypeOK
<1>3. MetAsItStands'
  BY <1>2, AllOwed
<1>4. /\ load' \in [at : {"idle", "applied", "read", "saving"}, rules : [RRules -> Settings],
                    states : [RRules -> States], fresh : SUBSET RRules]
      /\ HasState' /\ NotNew' /\ FiredIsHeld' /\ FiredIsSaved' /\ FiredIsStored'
      /\ Asleep' /\ StoredAsItStands'
  BY <1>1, LoadEnded DEF history
<1>5. RulesTypeOK'
  BY <1>1, <1>2, <1>4, TypesKept DEF RulesInv, RulesTypeOK, settings, checkVars, bounds, history
<1> QED
  BY <1>3, <1>4, <1>5 DEF RulesInv

\* or fails part-way.
LEMMA LoadFailsKeeps ==
    ASSUME RulesInv, LoadFails
    PROVE  RulesInv'
<1>1. /\ up /\ fails' = fails + 1 /\ load' = NoLoad /\ missed' = RRules
      /\ UNCHANGED <<up, settings, checkVars, held, stored, owes, saving, unloaded, edits,
                     crashes, fired, unsure>>
  BY DEF LoadFails
<1>2. MetAsItStands'
  BY <1>1 DEF MetAsItStands
<1>3. /\ load' \in [at : {"idle", "applied", "read", "saving"}, rules : [RRules -> Settings],
                    states : [RRules -> States], fresh : SUBSET RRules]
      /\ HasState' /\ NotNew' /\ FiredIsHeld' /\ FiredIsSaved' /\ FiredIsStored'
      /\ Asleep' /\ StoredAsItStands'
  BY <1>1, LoadEnded
<1>4. RulesTypeOK'
  BY <1>1, <1>3, TypesKept DEF RulesInv, RulesTypeOK, settings, checkVars
<1> QED
  BY <1>2, <1>3, <1>4 DEF RulesInv

-----------------------------------------------------------------------------
(* The service.                                                            *)

\* The service ends: what it owed is missed, what it had decided is unsure.
LEMMA CrashKeeps ==
    ASSUME RulesInv, Crash
    PROVE  RulesInv'
<1> DEFINE saved == {r \in RRules : \E a \in Actors : saving[a][r] # "none"}
           still == /\ owes = NothingOwed /\ Free /\ load.at = "idle" /\ ~unloaded
                    /\ live = conf /\ seen = window
<1>1. /\ up /\ up' = FALSE /\ held' = [r \in RRules |-> "none"] /\ crashes' = crashes + 1
      /\ owes' = NothingOwed /\ saving' = NothingSaving /\ load' = NoLoad /\ unloaded' = FALSE
      /\ away' = FALSE /\ seen' = FALSE /\ unsure' = unsure \cup saved
      /\ missed' = IF still THEN missed \cup {r \in RRules : held[r] # stored[r]} ELSE RRules
      /\ UNCHANGED <<settings, status, quiet, silence, window, stored, edits, fails, fired>>
  BY DEF Crash
<1>2. RulesTypeOK'
  <2>1. load' \in [at : {"idle", "applied", "read", "saving"}, rules : [RRules -> Settings],
                   states : [RRules -> States], fresh : SUBSET RRules]
    BY <1>1 DEF NoLoad, Settings, States
  <2>2. held' \in [RRules -> States] /\ owes' \in [Actors -> RChecks \cup {Nobody, All}]
    BY <1>1 DEF NothingOwed, States
  <2>3. saving' \in [Actors -> [RRules -> Outcomes]]
    BY <1>1 DEF NothingSaving, Outcomes
  <2>4. \A b \in Actors : saving'[b] = NothingSaving[b]
    BY <1>1
  <2>5. unsure' \subseteq RRules /\ missed' \subseteq RRules
    BY <1>1 DEF RulesInv, RulesTypeOK
  <2>6. {edits', crashes', fails'} \subseteq Nat
    BY <1>1 DEF RulesInv, RulesTypeOK
  <2>7. NothingSaving' = NothingSaving
    BY DEF NothingSaving
  <2> QED
    BY <1>1, <2>1, <2>2, <2>3, <2>4, <2>5, <2>6, <2>7 DEF RulesInv, RulesTypeOK, settings
<1>3. HasState' /\ FiredIsHeld' /\ MetAsItStands'
  BY <1>1 DEF HasState, FiredIsHeld, MetAsItStands, Settled
<1>4. Asleep'
  BY <1>1 DEF Asleep, NothingOwed, NothingSaving, NoLoad
<1>5. NotNew'
  <2>1. \A r \in RRules : Known(r)' => Known(r)
    BY <1>1 DEF Known, NoLoad, settings
  <2> QED
    BY <1>1, <2>1 DEF RulesInv, NotNew, settings
<1>6. FiredIsSaved'
  BY <1>1 DEF FiredIsSaved, NothingSaving, RulesInv, RulesTypeOK
<1>7. FiredIsStored'
  BY <1>1 DEF RulesInv, RulesTypeOK, FiredIsStored, Pending, settings
<1>8. StoredAsItStands'
  <2> SUFFICES ASSUME NEW r \in RRules \ missed'
               PROVE  /\ live' = conf'
                      /\ live'.rules[r] = "on" /\ (\A c \in Looks[r] : silence'[c] # "over")
                            => (stored'[r] = "met" <=> Met(r)')
    BY DEF StoredAsItStands
  <2>1. still /\ r \notin missed /\ held[r] = stored[r]
    BY <1>1
  <2>2. Met(r)' <=> Met(r)
    BY <1>1, MetKept DEF Counts, settings
  <2>3. (\A c \in Looks[r] : silence[c] # "over") => Settled(r)
    BY <1>1, <2>1 DEF Settled, NothingOwed
  <2> QED
    BY <1>1, <2>1, <2>2, <2>3 DEF RulesInv, MetAsItStands, settings
<1> QED
  BY <1>2, <1>3, <1>4, <1>5, <1>6, <1>7, <1>8 DEF RulesInv

\* It starts: stored and held are the same.
LEMMA RestartKeeps ==
    ASSUME RulesInv, Restart
    PROVE  RulesInv'
<1>1. /\ ~up /\ up' = TRUE /\ conf' = conf /\ live' = conf
      /\ status' = [c \in RChecks |-> IF ~conf.on[c] THEN "paused"
                                      ELSE IF status[c] = "paused" THEN "unknown" ELSE status[c]]
      /\ quiet' = {c \in quiet : conf.on[c]}
      /\ UNCHANGED <<away, silence, window, seen, owes, saving, load, unloaded, bounds, history>>
      /\ stored' = held'
      /\ held' = [r \in RRules |->
                    CASE conf.rules[r] \in Absent -> "none"
                      [] conf.rules[r] \notin Absent /\ stored[r] # "none" -> stored[r]
                      [] OTHER -> IF conf.rules[r] = "on" /\ Met(r)' THEN "met" ELSE "unmet"]
  BY DEF Restart
<1>2. \A r \in RRules :
        /\ conf.rules[r] \in Absent => held'[r] = "none"
        /\ conf.rules[r] \notin Absent /\ stored[r] # "none" => held'[r] = stored[r]
        /\ conf.rules[r] \notin Absent /\ stored[r] = "none" =>
            held'[r] = IF conf.rules[r] = "on" /\ Met(r)' THEN "met" ELSE "unmet"
  BY <1>1
<1>3. \A r \in RRules : held'[r] \in States
  BY <1>2 DEF RulesInv, RulesTypeOK, States
<1>4. RulesTypeOK'
  <2>1. held' \in [RRules -> States]
    BY <1>1, <1>3
  <2>2. status' \in [RChecks -> Statuses]
    BY <1>1 DEF RulesInv, RulesTypeOK, Statuses
  <2> QED
    BY <1>1, <2>1, <2>2, TypesKept DEF RulesInv, RulesTypeOK, bounds, history
<1>5. load.at = "idle" /\ \A r \in RRules : ~Pending(r)
  BY <1>1 DEF RulesInv, Asleep, NoLoad, NothingSaving, Pending
<1>6. HasState'
  <2> SUFFICES ASSUME NEW r \in RRules, conf.rules[r] \notin Absent
               PROVE  held'[r] # "none"
    BY <1>1 DEF HasState
  <2> QED
    BY <1>2
<1>7. NotNew'
  <2> SUFFICES ASSUME NEW r \in RRules, Known(r)'
               PROVE  conf.rules[r] # "new"
    BY <1>1 DEF NotNew
  <2> QED
    BY <1>1, <1>5 DEF RulesInv, NotNew, Known, Absent, history
<1>8. FiredIsHeld' /\ FiredIsStored'
  <2> SUFFICES ASSUME NEW r \in fired, r \notin unsure
               PROVE  \/ held'[r] = "met" /\ stored'[r] = "met"
                      \/ GoneForGood(r)' /\ conf.rules[r] = "gone"
    BY <1>1, <1>5 DEF FiredIsHeld, FiredIsStored, Pending, history, RulesInv, RulesTypeOK
  <2>1. r \in RRules
    BY DEF RulesInv, RulesTypeOK
  <2>2. CASE conf.rules[r] = "gone"
    BY <1>1, <1>5, <2>2 DEF GoneForGood
  <2>3. CASE conf.rules[r] # "gone"
    <3>1. stored[r] = "met" /\ conf.rules[r] \notin Absent
      BY <1>5, <2>1, <2>3 DEF RulesInv, FiredIsStored, NotNew, Known, Absent
    <3> QED
      BY <1>1, <1>2, <2>1, <3>1
  <2> QED
    BY <2>2, <2>3
<1>9. FiredIsSaved'
  BY <1>1 DEF RulesInv, FiredIsSaved, history
<1>10. MetAsItStands'
  <2> SUFFICES ASSUME NEW r \in RRules, r \notin missed, conf.rules[r] = "on", Settled(r)'
               PROVE  held'[r] = "met" <=> Met(r)'
    BY <1>1 DEF MetAsItStands, history
  <2>1. CASE stored[r] = "none"
    BY <1>2, <2>1 DEF Absent
  <2>2. CASE stored[r] # "none"
    <3>1. live = conf /\ (stored[r] = "met" <=> Met(r))
      BY <1>1 DEF RulesInv, StoredAsItStands, Settled
    <3>2. \A c \in Looks[r] : c \in RChecks
      BY RulesAssumption
    <3>3. Met(r)' <=> Met(r)
      BY <1>1, <3>1, <3>2, MetKept DEF Counts
    <3> QED
      BY <1>2, <2>2, <3>1, <3>3 DEF Absent
  <2> QED
    BY <2>1, <2>2
<1>11. Asleep' /\ StoredAsItStands'
  BY <1>1, AwakeKept
<1> QED
  BY <1>4, <1>6, <1>7, <1>8, <1>9, <1>10, <1>11 DEF RulesInv

-----------------------------------------------------------------------------
(* The theorems.                                                           *)

\* The invariant holds at first.
LEMMA InitEstablishes == RulesInit => RulesInv
<1> SUFFICES ASSUME RulesInit
             PROVE  RulesInv
  OBVIOUS
<1>1. PICK rules \in [RRules -> Settings \ {"gone"}] :
        conf = [on |-> [c \in RChecks |-> TRUE], rules |-> rules]
  BY DEF RulesInit
<1>2. RulesTypeOK
  <2>1. /\ conf \in [on : [RChecks -> BOOLEAN], rules : [RRules -> Settings]] /\ live = conf
    BY <1>1 DEF RulesInit
  <2>2. /\ load \in [at : {"idle", "applied", "read", "saving"}, rules : [RRules -> Settings],
                     states : [RRules -> States], fresh : SUBSET RRules]
        /\ held \in [RRules -> States] /\ stored = held
    BY DEF RulesInit, NoLoad, Settings, States
  <2>3. /\ owes \in [Actors -> RChecks \cup {Nobody, All}]
        /\ saving \in [Actors -> [RRules -> Outcomes]] /\ saving = NothingSaving
    BY DEF RulesInit, NothingOwed, NothingSaving, Outcomes
  <2>4. /\ status \in [RChecks -> Statuses] /\ quiet \subseteq RChecks
        /\ silence \in [RChecks -> {"no", "yes", "over"}]
    BY DEF RulesInit, Statuses
  <2>5. /\ edits = 0 /\ crashes = 0 /\ fails = 0 /\ fired = {} /\ unsure = {} /\ missed = {}
        /\ up = TRUE /\ away = FALSE /\ window = FALSE /\ seen = FALSE /\ unloaded = FALSE
    BY DEF RulesInit
  <2>6. {conf, live} \subseteq [on : [RChecks -> BOOLEAN], rules : [RRules -> Settings]]
    BY <2>1
  <2>7. {held, stored} \subseteq [RRules -> States]
    BY <2>2
  <2>8. \A a \in Actors : saving[a] = NothingSaving[a]
    BY <2>3
  <2>9. \A a, b \in Actors :
            saving[a] # NothingSaving[a] /\ saving[b] # NothingSaving[b] => a = b
    BY <2>8
  <2>10. {edits, crashes, fails} \subseteq Nat
    BY <2>5
  <2> QED
    BY <2>2, <2>3, <2>4, <2>5, <2>6, <2>7, <2>9, <2>10 DEF RulesTypeOK
<1>3. HasState /\ Asleep /\ FiredIsHeld /\ FiredIsSaved /\ FiredIsStored /\ StoredAsItStands
  BY DEF RulesInit, HasState, Asleep, FiredIsHeld, FiredIsSaved, FiredIsStored, StoredAsItStands
<1>4. NotNew
  BY DEF RulesInit, NotNew, Known, Absent, NoLoad
<1>5. MetAsItStands
  <2> SUFFICES ASSUME NEW r \in RRules, live.rules[r] = "on"
               PROVE  held[r] = "met" <=> Met(r)
    BY DEF MetAsItStands
  <2>1. held[r] = "unmet"
    BY DEF RulesInit, Absent
  <2>2. {c \in Looks[r] : Counts(c)} = {}
    BY RulesAssumption DEF RulesInit, Counts
  <2>3. ~Met(r)
    BY <2>2, FS_EmptySet, RulesAssumption DEF Met
  <2> QED
    BY <2>1, <2>3
<1> QED
  BY <1>2, <1>3, <1>4, <1>5 DEF RulesInv

\* Nothing happens.
LEMMA StutterKeeps ==
    ASSUME RulesInv, UNCHANGED ruleVars
    PROVE  RulesInv'
<1>1. UNCHANGED <<up, settings, checkVars, held, stored, owes, saving, load, unloaded, bounds,
                  history>>
  BY DEF ruleVars
<1>2. HasState' /\ NotNew' /\ FiredIsHeld' /\ FiredIsSaved' /\ FiredIsStored'
  BY <1>1, DecisionsKept DEF history
<1>3. RulesTypeOK'
  BY <1>1, TypesKept DEF RulesInv, RulesTypeOK, settings, checkVars, bounds, history
<1>4. Asleep'
  BY <1>1 DEF RulesInv, Asleep
<1>5. MetAsItStands'
  BY <1>1, StandingKept DEF settings, checkVars, history
<1>6. StoredAsItStands'
  <2>1. \A r \in RRules : Met(r)' <=> Met(r)
    BY <1>1, MetKept DEF Counts, settings, checkVars
  <2> QED
    BY <1>1, <2>1 DEF RulesInv, StoredAsItStands, settings, checkVars, history
<1> QED
  BY <1>2, <1>3, <1>4, <1>5, <1>6 DEF RulesInv

\* Every step keeps the invariant.
LEMMA NextKeeps == RulesInv /\ [RulesNext]_ruleVars => RulesInv'
<1> SUFFICES ASSUME RulesInv, [RulesNext]_ruleVars
             PROVE  RulesInv'
  OBVIOUS
<1>1. ASSUME NEW c \in RChecks, SilenceOver(c) \/ SwitchCheck(c)
      PROVE  RulesInv'
  BY <1>1, SilenceOverKeeps, SwitchCheckKeeps
<1>2. ASSUME NEW c \in RChecks, NEW ok \in BOOLEAN, Judge(c, ok)
      PROVE  RulesInv'
  BY <1>2, JudgeKeeps
<1>3. ASSUME NEW c \in Silenceable, NEW to \in {"yes", "no"}, Silence(c, to)
      PROVE  RulesInv'
  BY <1>3, SilenceKeeps
<1>4. CASE Tick \/ Back \/ WindowTurns \/ Track
  BY <1>4, TickKeeps, BackKeeps, WindowTurnsKeeps, TrackKeeps
<1>5. ASSUME NEW a \in Actors, Decide(a)
      PROVE  RulesInv'
  BY <1>5, DecideKeeps
<1>6. ASSUME NEW a \in Actors, NEW r \in RRules, Save(a, r) \/ SaveFails(a, r)
      PROVE  RulesInv'
  BY <1>6, SaveKeeps
<1>7. ASSUME NEW r \in RRules, LoadSaves(r)
      PROVE  RulesInv'
  BY <1>7, LoadSavesKeeps
<1>8. ASSUME NEW r \in RRules, NEW to \in Settings, SaveRule(r, to)
      PROVE  RulesInv'
  BY <1>8, SaveRuleKeeps
<1>9. CASE LoadApplies \/ LoadReads \/ LoadRules \/ LoadEvaluates \/ LoadFails
  BY <1>9, LoadAppliesKeeps, LoadReadsKeeps, LoadRulesKeeps, LoadEvaluatesKeeps, LoadFailsKeeps
<1>10. CASE Crash \/ Restart
  BY <1>10, CrashKeeps, RestartKeeps
<1>11. CASE UNCHANGED ruleVars
  BY <1>11, StutterKeeps
<1> QED
  BY <1>1, <1>2, <1>3, <1>4, <1>5, <1>6, <1>7, <1>8, <1>9, <1>10, <1>11 DEF RulesNext

\* The invariant holds in every reachable state.
THEOREM RulesInvariant == RulesSpec => []RulesInv
<1> QED
  BY InitEstablishes, NextKeeps, PTL DEF RulesSpec

\* Every variable keeps its type, and one evaluation at a time stores its decisions.
THEOREM RulesTypes == RulesSpec => []RulesTypeOK
<1>1. RulesInv => RulesTypeOK
  BY DEF RulesInv
<1> QED
  BY <1>1, RulesInvariant, PTL

\* With nothing under way, a rule is met exactly while its conditions hold, unless a
\* change was missed (docs/API.md:1382).
THEOREM RulesFollowChecks == RulesSpec => []MetAsItStands
<1>1. RulesInv => MetAsItStands
  BY DEF RulesInv
<1> QED
  BY <1>1, RulesInvariant, PTL

\* A rule that fired fires again only after it has cleared (rules.go:17-19).
THEOREM RulesFireOnce == RulesSpec => FiresOnce
<1>1. ASSUME RulesInv, [RulesNext]_ruleVars, NEW a \in Actors, NEW r \in RRules, Fires(a, r)
      PROVE  r \notin fired \/ r \in unsure
  <2>1. saving[a][r] = "none" /\ saving'[a][r] = "fired"
    BY <1>1 DEF Fires
  <2>2. saving' # saving
    BY <2>1
  <2>3. \/ \E b \in Actors : Decide(b)
        \/ \E b \in Actors, s \in RRules : Save(b, s) \/ SaveFails(b, s)
        \/ Crash
    BY <1>1, <2>2
    DEF RulesNext, ruleVars, Judge, Silence, SilenceOver, Tick, Back, WindowTurns, Track, Saved,
        SaveRule, SwitchCheck, LoadApplies, LoadReads, LoadRules, LoadSaves, LoadEvaluates,
        LoadFails, Restart
  <2>4. CASE \E b \in Actors, s \in RRules : Save(b, s) \/ SaveFails(b, s)
    BY <1>1, <2>1, <2>4 DEF Save, SaveFails, RulesInv, RulesTypeOK
  <2>5. CASE Crash
    BY <2>1, <2>5 DEF Crash, NothingSaving
  <2>6. ASSUME NEW b \in Actors, Decide(b)
        PROVE  r \notin fired \/ r \in unsure
    <3>1. up /\ Free /\ saving' = [saving EXCEPT ![b] = [s \in RRules |->
                                                Outcome(s, Concerned(owes[b]))]]
      BY <2>6 DEF Decide, DecideWith
    <3>2. Outcome(r, Concerned(owes[b])) = "fired"
      BY <1>1, <2>1, <3>1 DEF RulesInv, RulesTypeOK
    <3>3. live.rules[r] = "on" /\ held[r] = "unmet"
      BY <3>2, Made
    <3> QED
      BY <1>1, <3>1, <3>3 DEF RulesInv, FiredIsHeld, GoneForGood
  <2> QED
    BY <2>3, <2>4, <2>5, <2>6
<1>2. RulesInv /\ [RulesNext]_ruleVars =>
        [\A a \in Actors, r \in RRules : Fires(a, r) => r \notin fired \/ r \in unsure]_ruleVars
  BY <1>1
<1> QED
  BY <1>2, RulesInvariant, PTL DEF FiresOnce, RulesSpec

=============================================================================
