--------------------------- MODULE RollupsProofs ----------------------------
(***************************************************************************)
(* No result is deleted before a summary has counted it, and no 5-minute   *)
(* summary is replaced by a fragment of it: for any length of the buckets, *)
(* any number of results, of requests for a pass beside the loop's, of     *)
(* statements that fail and of crashes, and however late a result is       *)
(* stored, if results are kept longer than they may be held back, and as   *)
(* long as the loop's passes come in time (KeptLongEnough, lapsed: both    *)
(* are hypotheses within the properties).                                  *)
(*                                                                         *)
(* What is to be shown is where the results no summary has counted are:    *)
(* within what the loop's pass under way will still read, or the next one, *)
(* or noted for it, or, after a crash, within what the first pass of a     *)
(* start goes back to; and any pass that has made its 5-minute summaries   *)
(* has left out only results too young for it to delete (Covered).         *)
(*                                                                         *)
(* A bucket that counts more is left alone.  That this is never the one of *)
(* a result yet to be counted is Fragments: where a result that was        *)
(* deleted is counted, all that are left of its bucket have been, and are  *)
(* counted there (Whole).                                                  *)
(***************************************************************************)
EXTENDS Rollups, FiniteSetTheorems, TLAPS

\* The results no 5-minute summary has counted.
Uncounted == raw \ counted

\* The loop's pass is not late, and nothing is noted long after it was stored.
Timely ==
    /\ up => now <= pass["loop"].now + Reread
    /\ \A s \in noting : s >= now - HeldFor

\* A pass under way, and a result it has yet to read or is too young for it to delete.
UnderWay(p) == pass[p].at \in {"five", "hour", "day", "fine", "clean"}
Reads(p, s) == s >= pass[p].now - HeldFor \/ (pass[p].at = "five" /\ s >= pass[p].from5)

\* A result the loop's pass under way, or its next one, will read.
Awaited(s) ==
    \/ s \in noting
    \/ heldSince # Never /\ s >= heldSince
    \/ s > pass["loop"].now
    \/ pass["loop"].at = "five" /\ s >= pass["loop"].from5

\* Where a result no summary has counted is found.
Covered ==
    \A s \in Uncounted :
        /\ mark # Never => s >= mark - HeldFor
        /\ pass["loop"].at # "start" => Awaited(s)
        /\ \A p \in Passes : UnderWay(p) => Reads(p, s)

\* A deleted result that is counted is old, and what is left of its bucket has been.
Fragments ==
    \A s \in tier["five"] \ raw :
        /\ s + Keep["raw"] < now
        /\ \A x \in raw : Floor(x, Five) = Floor(s, Five) => x \in counted

\* A summary there is counts all it ever has of what is left of its bucket.
Whole ==
    \A s \in tier["five"], x \in counted : Floor(x, Five) = Floor(s, Five) => x \in tier["five"]

Sound == Timely /\ Covered /\ Fragments /\ Whole

RollupsInv == RollTypeOK /\ (KeptLongEnough /\ ~lapsed => Sound)
-----------------------------------------------------------------------------
(* Buckets.                                                                *)

\* The constants are numbers.
LEMMA Numbers ==
    /\ {Five, Hour, Day, Week, Reread, RereadFive, CatchUp, HeldFor} \subseteq Nat \ {0}
    /\ Keep \in [{"raw", "five", "hour", "day"} -> Nat]
    /\ Keep["raw"] \in Nat /\ Keep["five"] \in Nat
    /\ Last \in Nat /\ Never \notin Int
BY RollupsAssumption

\* A bucket begins at most its length before what is in it, and buckets are in order.
LEMMA Floors ==
    ASSUME NEW z \in Nat \ {0}
    PROVE  /\ \A x \in Int : Floor(x, z) \in Int /\ Floor(x, z) <= x /\ x < Floor(x, z) + z
           /\ \A x, y \in Int : x <= y => Floor(x, z) <= Floor(y, z)
<1>1. \A x \in Int : Floor(x, z) \in Int /\ Floor(x, z) <= x /\ x < Floor(x, z) + z
  BY DEF Floor
<1>2. ASSUME NEW x \in Int, NEW y \in Int, x <= y PROVE Floor(x, z) <= Floor(y, z)
  <2>1. x - (x % z) <= y - (y % z)
    <3>1. z \in Int /\ z > 0
      OBVIOUS
    <3> QED
      BY <1>2, <3>1
  <2> QED
    BY <2>1 DEF Floor
<1> QED
  BY <1>1, <1>2

\* The oldest of some results is one of them.
LEMMA OldestOf ==
    ASSUME NEW S \in SUBSET Nat, S # {}
    PROVE  Oldest(S) \in S /\ \A x \in S : Oldest(S) <= x
<1>1. \E m \in S : \A x \in S : ~(<<x, m>> \in OpToRel(<, Nat))
  BY NatLessThanWellFounded, WFMin
<1>2. PICK m \in S : \A x \in S : ~(<<x, m>> \in OpToRel(<, Nat))
  BY <1>1
<1>3. \A x \in S : ~(x < m)
  BY <1>2 DEF OpToRel
<1>4. \E t \in S : \A x \in S : t <= x
  BY <1>3
<1> QED
  BY <1>4 DEF Oldest

\* A bucket that is written is replaced by what is there.
LEMMA Rewrites ==
    ASSUME NEW source, NEW target, NEW size, NEW written, NEW s
    PROVE  s \in Rewritten(source, target, size, written) <=>
              \/ s \in source /\ Floor(s, size) \in written
              \/ s \in target /\ Floor(s, size) \notin written
BY DEF Rewritten, InBucket

\* What is written counts what is there to be counted or was counted, and goes on
\* counting what is there; a bucket with no more than is there is made complete.
LEMMA Upserts ==
    ASSUME NEW source \in SUBSET Nat, NEW target \in SUBSET Nat, NEW size \in Nat \ {0},
           NEW from, NEW to, NEW new, new = Upserted(source, target, size, from, to),
           IsFiniteSet(source)
    PROVE  /\ new \subseteq source \cup target
           /\ source \cap target \subseteq new
           /\ \A s \in source :
                /\ Floor(from, size) <= Floor(s, size) /\ Floor(s, size) <= Floor(to, size)
                /\ \A x \in target : Floor(x, size) = Floor(s, size) => x \in source
                => s \in new
<1> DEFINE written == {b \in Between(source, from, to, size) :
                        Cardinality(InBucket(source, b, size)) >= Cardinality(InBucket(target, b, size))}
<1> DEFINE Wrote(s) == Floor(s, size) \in written
<1>1. \A s : s \in new <=> (s \in source /\ Wrote(s)) \/ (s \in target /\ ~Wrote(s))
  <2>1. new = Rewritten(source, target, size, written)
    BY DEF Upserted
  <2> HIDE DEF written
  <2> QED
    BY <2>1, Rewrites
<1>5. ASSUME NEW s \in source,
             Floor(from, size) <= Floor(s, size), Floor(s, size) <= Floor(to, size),
             \A x \in target : Floor(x, size) = Floor(s, size) => x \in source
      PROVE  s \in new
  <2> DEFINE b == Floor(s, size)
             there == InBucket(source, b, size)
             had == InBucket(target, b, size)
  <2>1. had \subseteq there
    BY <1>5 DEF InBucket
  <2>2. IsFiniteSet(there)
    <3>1. there \subseteq source
      BY DEF InBucket
    <3> QED
      BY <3>1, FS_Subset
  <2>3. /\ Cardinality(there) \in Nat /\ Cardinality(had) \in Nat
        /\ Cardinality(had) <= Cardinality(there)
    <3> HIDE DEF there, had
    <3> QED
      BY <2>1, <2>2, FS_Subset, FS_CardinalityType
  <2>4. b \in Between(source, from, to, size)
    BY <1>5 DEF Between
  <2>5. Wrote(s)
    BY <2>3, <2>4
  <2> HIDE DEF Wrote
  <2> QED
    BY <1>1, <1>5, <2>5
<1> HIDE DEF Wrote
<1> QED
  BY <1>1, <1>5

\* Where all that is there of a bucket is counted, with what is there no more, the
\* bucket is left as it is.
LEMMA UpsertsNoFragment ==
    ASSUME NEW source \in SUBSET Nat, NEW target \in SUBSET Nat, NEW size \in Nat \ {0},
           NEW from, NEW to, NEW new, new = Upserted(source, target, size, from, to),
           IsFiniteSet(target), NEW s \in target \ source,
           \A x \in source : Floor(x, size) = Floor(s, size) => x \in target
    PROVE  \A x \in target : Floor(x, size) = Floor(s, size) => x \in new
<1> DEFINE written == {b \in Between(source, from, to, size) :
                        Cardinality(InBucket(source, b, size)) >= Cardinality(InBucket(target, b, size))}
           b == Floor(s, size)
           there == InBucket(source, b, size)
           had == InBucket(target, b, size)
<1>1. \A x : x \in target /\ Floor(x, size) \notin written => x \in new
  <2>1. new = Rewritten(source, target, size, written)
    BY DEF Upserted
  <2> HIDE DEF written
  <2> QED
    BY <2>1, Rewrites
<1>2. there \subseteq had /\ s \in had /\ s \notin there
  BY DEF InBucket
<1>3. IsFiniteSet(had)
  <2>1. had \subseteq target
    BY DEF InBucket
  <2> QED
    BY <2>1, FS_Subset
<1>4. ~(Cardinality(there) >= Cardinality(had))
  <2> HIDE DEF there, had
  <2>1. there \subseteq had \ {s}
    BY <1>2
  <2>2. IsFiniteSet(had \ {s}) /\ Cardinality(had \ {s}) = Cardinality(had) - 1
    BY <1>2, <1>3, FS_RemoveElement
  <2>3. Cardinality(there) <= Cardinality(had \ {s}) /\ IsFiniteSet(there)
    BY <2>1, <2>2, FS_Subset
  <2>4. Cardinality(there) \in Nat /\ Cardinality(had) \in Nat
    BY <1>3, <2>3, FS_CardinalityType
  <2> QED
    BY <2>2, <2>3, <2>4
<1>5. b \notin written
  BY <1>4
<1> HIDE DEF written
<1> QED
  BY <1>1, <1>5
-----------------------------------------------------------------------------
(* Types.                                                                  *)

\* What a tier is rewritten with are results there have been.
LEMMA UpsertTypes ==
    ASSUME NEW n \in Nat, NEW source \in SUBSET (0..n), NEW target \in SUBSET (0..n),
           NEW size \in Nat \ {0}, NEW from, NEW to
    PROVE  Upserted(source, target, size, from, to) \in SUBSET (0..n)
<1>1. IsFiniteSet(source)
  <2>1. IsFiniteSet(0..n)
    BY FS_Interval
  <2> QED
    BY <2>1, FS_Subset
<1>2. source \in SUBSET Nat /\ target \in SUBSET Nat
  <2>1. 0..n \subseteq Nat
    OBVIOUS
  <2> QED
    BY <2>1
<1>3. Upserted(source, target, size, from, to) \subseteq source \cup target
  <2> DEFINE new == Upserted(source, target, size, from, to)
  <2>1. new = Upserted(source, target, size, from, to)
    OBVIOUS
  <2> HIDE DEF new
  <2>2. new \subseteq source \cup target
    BY <1>1, <1>2, <2>1, Upserts
  <2> QED
    BY <2>1, <2>2
<1> QED
  BY <1>3

\* The states a pass can be in.
Ats == {"idle", "start", "five", "hour", "day", "fine", "clean", "over"}
PassType(n) == [at : Ats, now : 0..n, from5 : 0..n, from1 : 0..n, full : BOOLEAN]

\* What a step needs of the types.
LEMMA Types ==
    ASSUME RollTypeOK
    PROVE  /\ now \in Nat /\ now <= Last /\ raw \in SUBSET (0..now) /\ raw \in SUBSET Nat
           /\ noting \in SUBSET (0..now) /\ (heldSince # Never => heldSince \in Nat)
           /\ (mark # Never => mark \in Nat /\ mark <= now)
           /\ \A t \in {"five", "hour", "day"} : tier[t] \in SUBSET (0..now) /\ tier[t] \in SUBSET Nat
           /\ tier \in [{"five", "hour", "day"} -> SUBSET (0..now)]
           /\ pass \in [Passes -> PassType(now)] /\ "loop" \in Passes
           /\ counted \subseteq raw /\ rolled \in (0..now) \cup {Never}
           /\ IsFiniteSet(raw) /\ IsFiniteSet(tier["five"])
<1>1. Last \in Nat
  BY Numbers
<1>2. now \in Nat /\ now <= Last /\ 0..now \subseteq Nat
  BY <1>1 DEF RollTypeOK, Slots
<1>3. IsFiniteSet(0..now)
  BY <1>2, FS_Interval
<1>4. raw \in SUBSET (0..now) /\ tier["five"] \in SUBSET (0..now)
  BY DEF RollTypeOK
<1>5. IsFiniteSet(raw) /\ IsFiniteSet(tier["five"])
  BY <1>3, <1>4, FS_Subset
<1>6. /\ noting \in SUBSET (0..now) /\ (heldSince # Never => heldSince \in Nat)
      /\ (mark # Never => mark \in Nat /\ mark <= now)
  BY <1>1, <1>2 DEF RollTypeOK, Slots
<1>7. /\ tier \in [{"five", "hour", "day"} -> SUBSET (0..now)]
      /\ \A t \in {"five", "hour", "day"} : tier[t] \in SUBSET (0..now)
  BY DEF RollTypeOK
<1>8. pass \in [Passes -> PassType(now)] /\ "loop" \in Passes
  BY DEF RollTypeOK, PassType, Ats, Passes
<1>9. counted \subseteq raw /\ rolled \in (0..now) \cup {Never}
  BY DEF RollTypeOK
<1> QED
  BY <1>2, <1>4, <1>5, <1>6, <1>7, <1>8, <1>9

\* And of those of a pass.
LEMMA OfAPass ==
    ASSUME RollTypeOK, NEW p \in Passes
    PROVE  /\ pass[p].at \in Ats /\ pass[p].full \in BOOLEAN
           /\ pass[p].now \in Nat /\ pass[p].now <= now
           /\ pass[p].from5 \in Nat /\ pass[p].from5 <= now
           /\ pass[p].from1 \in Nat /\ pass[p].from1 <= now
           /\ pass[p].now \in 0..now /\ pass[p].from5 \in 0..now
<1>1. now \in Nat /\ pass[p] \in PassType(now)
  BY Types
<1> QED
  BY <1>1 DEF PassType

\* The types as one pass changes, and a step of it leaves the others as they are.
LEMMA OnePass ==
    ASSUME NEW n \in Nat, pass \in [Passes -> PassType(n)], NEW p \in Passes, NEW new \in PassType(n)
    PROVE  /\ [pass EXCEPT ![p] = new] \in [Passes -> PassType(n)]
           /\ [pass EXCEPT ![p] = new][p] = new
           /\ \A q \in Passes : q # p => [pass EXCEPT ![p] = new][q] = pass[q]
OBVIOUS

\* The types of a pass that moves on or is over.
LEMMA PassStays ==
    ASSUME RollTypeOK, NEW p \in Passes
    PROVE  /\ \A at \in Ats, f5 \in 0..now :
                 /\ [pass[p] EXCEPT !.at = at] \in PassType(now)
                 /\ [pass[p] EXCEPT !.from5 = f5, !.at = at] \in PassType(now)
           /\ \A n \in 0..now : NoPass("idle", n) \in PassType(now) /\ NoPass("start", n) \in PassType(now)
                                /\ NoPass("over", n) \in PassType(now)
           /\ Over(p) \in PassType(now)
<1>1. now \in Nat /\ 0 \in 0..now /\ pass[p] \in PassType(now) /\ pass[p].now \in 0..now
  BY Types, OfAPass
<1>2. \A n \in 0..now : NoPass("idle", n) \in PassType(now) /\ NoPass("start", n) \in PassType(now)
                         /\ NoPass("over", n) \in PassType(now)
  BY <1>1 DEF NoPass, PassType, Ats
<1>3. \A at \in Ats, f5 \in 0..now :
          /\ [pass[p] EXCEPT !.at = at] \in PassType(now)
          /\ [pass[p] EXCEPT !.from5 = f5, !.at = at] \in PassType(now)
  BY <1>1 DEF PassType
<1> QED
  BY <1>1, <1>2, <1>3 DEF Over

\* A pass that is over is neither under way nor about to begin.
LEMMA IsOver ==
    ASSUME NEW p
    PROVE  /\ Over(p).at \notin {"five", "hour", "day", "fine", "clean"}
           /\ p = "loop" => Over(p).at = "idle" /\ Over(p).now = pass[p].now
BY DEF Over, NoPass

\* Where a full pass begins.
LEMMA FullFrom ==
    ASSUME RollTypeOK, NEW since \in 0..now
    PROVE  /\ Full(since).at = "five" /\ Full(since).now = now /\ Full(since).full = TRUE
           /\ Full(since).from5 \in 0..now /\ Full(since).from1 = since
           /\ \A s \in raw : s >= since => s >= Full(since).from5
           /\ Full(since) \in PassType(now)
<1> DEFINE f5 == IF raw = {} THEN Later(now - Reread, since) ELSE Later(Oldest(raw), since)
<1>1. now \in Nat /\ Reread \in Nat /\ raw \in SUBSET (0..now) /\ raw \in SUBSET Nat /\ since \in Nat
  BY Types, Numbers
<1>2. f5 \in 0..now /\ \A s \in raw : s >= since => s >= f5
  <2>1. CASE raw = {}
    BY <1>1, <2>1 DEF Later
  <2>2. CASE raw # {}
    <3>1. Oldest(raw) \in raw /\ \A x \in raw : Oldest(raw) <= x
      BY <1>1, <2>2, OldestOf
    <3>2. f5 = Later(Oldest(raw), since)
      BY <2>2
    <3> HIDE DEF f5
    <3> QED
      BY <1>1, <3>1, <3>2 DEF Later
  <2> QED
    BY <2>1, <2>2
<1>3. Full(since) = [at |-> "five", now |-> now, from5 |-> f5, from1 |-> since, full |-> TRUE]
  BY DEF Full
<1> HIDE DEF f5
<1>4. Full(since) \in PassType(now)
  BY <1>1, <1>2, <1>3 DEF PassType, Ats
<1>5. Full(since).at = "five" /\ Full(since).now = now /\ Full(since).full = TRUE
      /\ Full(since).from5 = f5 /\ Full(since).from1 = since
  BY <1>3
<1> QED
  BY <1>2, <1>4, <1>5

\* The types hold at first.
LEMMA RollTypesInit == RollupsInit => RollTypeOK
<1> SUFFICES ASSUME RollupsInit PROVE RollTypeOK
  OBVIOUS
<1>1. now = 0 /\ 0 \in Slots /\ 0 \in 0..now
  BY Numbers DEF RollupsInit, Slots
<1>2. pass \in [Passes -> PassType(0)]
  BY DEF RollupsInit, NoPass, PassType, Ats
<1>3. tier \in [{"five", "hour", "day"} -> SUBSET (0..now)]
  BY DEF RollupsInit
<1>4. /\ raw = {} /\ noting = {} /\ heldSince = Never /\ mark = Never /\ up = TRUE
      /\ counted = {} /\ rolled = 0 /\ lapsed = FALSE
  BY DEF RollupsInit
<1> QED
  BY <1>1, <1>2, <1>3, <1>4 DEF RollTypeOK, PassType, Ats

\* The types as time goes by.
LEMMA RollTypesTick ==
    ASSUME RollTypeOK, Tick
    PROVE  RollTypeOK'
<1>1. /\ now < Last /\ now' = now + 1 /\ raw' \in {raw, raw \cup {now'}}
      /\ lapsed' \in BOOLEAN /\ rolled' \in {rolled, Never}
      /\ UNCHANGED <<up, tier, noting, heldSince, mark, pass, counted>>
  BY DEF Tick, RollTypeOK
<1>2. now \in Nat /\ Last \in Nat
  BY Types, Numbers
<1>3. 0..now \subseteq 0..now' /\ now' \in 0..now' /\ now' \in Slots
  BY <1>1, <1>2 DEF Slots
<1>4. pass' \in [Passes -> PassType(now')]
  <2>1. PassType(now) \subseteq PassType(now')
    BY <1>3 DEF PassType
  <2> QED
    BY <1>1, <2>1, Types
<1>5. tier' \in [{"five", "hour", "day"} -> SUBSET (0..now')]
  BY <1>1, <1>3 DEF RollTypeOK
<1>6. rolled' \in (0..now') \cup {Never} /\ counted' \subseteq raw'
  BY <1>1, <1>3, Types
<1> QED
  BY <1>1, <1>3, <1>4, <1>5, <1>6 DEF RollTypeOK, PassType, Ats

\* The types as results are stored late and noted.
LEMMA RollTypesHeld ==
    ASSUME RollTypeOK, NEW s \in Slots, StoreHeld(s) \/ Note(s)
    PROVE  RollTypeOK'
<1>1. CASE StoreHeld(s)
  <2>1. s \in 0..now
    BY <1>1, Types DEF StoreHeld, Slots
  <2>2. /\ raw' = raw \cup {s} /\ noting' = noting \cup {s}
        /\ UNCHANGED <<now, up, tier, heldSince, mark, pass, histories>>
    BY <1>1 DEF StoreHeld
  <2> QED
    BY <2>1, <2>2 DEF RollTypeOK, histories
<1>2. CASE Note(s)
  <2>1. /\ noting' = noting \ {s} /\ heldSince' \in {s, heldSince}
        /\ UNCHANGED <<now, up, raw, tier, mark, pass, histories>>
    BY <1>2 DEF Note, Earlier
  <2> QED
    BY <2>1 DEF RollTypeOK, histories
<1> QED
  BY <1>1, <1>2

\* The types as a pass begins.
LEMMA RollTypesBegins ==
    ASSUME RollTypeOK, BeginsCatchingUp \/ BeginsRoutine \/ \E p \in Requests : Asked(p)
    PROVE  RollTypeOK'
<1>1. UNCHANGED <<now, up, raw, tier, noting, mark, histories>>
  BY DEF BeginsCatchingUp, BeginsRoutine, Asked
<1>2. /\ now \in Nat /\ now \in 0..now /\ 0 \in 0..now /\ {Reread, RereadFive, CatchUp} \subseteq Nat
      /\ pass \in [Passes -> PassType(now)] /\ "loop" \in Passes /\ Requests \subseteq Passes
  BY Types, Numbers DEF Passes
<1>3. heldSince' \in Slots \cup {Never}
  BY DEF BeginsCatchingUp, BeginsRoutine, Asked, RollTypeOK
<1>4. pass' \in [Passes -> PassType(now)]
  <2>1. CASE BeginsCatchingUp
    <3> DEFINE since == IF mark = Never THEN 0 ELSE Later(mark - CatchUp, 0)
    <3>1. since \in 0..now
      BY <1>2, Types DEF Later
    <3>2. pass' = [pass EXCEPT !["loop"] = Full(since)]
      BY <2>1 DEF BeginsCatchingUp
    <3> HIDE DEF since
    <3>3. Full(since) \in PassType(now)
      BY <3>1, FullFrom
    <3> QED
      BY <1>2, <3>2, <3>3, OnePass
  <2>2. ASSUME NEW p \in Requests, Asked(p) PROVE pass' \in [Passes -> PassType(now)]
    <3>1. pass' = [pass EXCEPT ![p] = Full(0)]
      BY <2>2 DEF Asked
    <3>2. Full(0) \in PassType(now)
      BY <1>2, FullFrom
    <3> QED
      BY <1>2, <3>1, <3>2, OnePass
  <2>3. CASE BeginsRoutine
    <3> DEFINE f5 == Earlier(Later(now - Reread, 0), heldSince)
               f1 == Later(now - RereadFive, 0)
               new == [at |-> "five", now |-> now, from5 |-> f5, from1 |-> f1, full |-> FALSE]
    <3>1. f5 \in 0..now /\ f1 \in 0..now
      <4>1. heldSince # Never => heldSince \in Nat
        BY Types
      <4>2. Later(now - Reread, 0) \in 0..now /\ f1 \in 0..now
        BY <1>2 DEF Later
      <4> QED
        BY <1>2, <4>1, <4>2 DEF Earlier
    <3>2. pass' = [pass EXCEPT !["loop"] = new]
      BY <2>3 DEF BeginsRoutine
    <3>3. new \in PassType(now)
      <4> HIDE DEF f5, f1
      <4> QED
        BY <1>2, <3>1 DEF PassType, Ats
    <3> HIDE DEF new
    <3> QED
      BY <1>2, <3>2, <3>3, OnePass
  <2> QED
    BY <2>1, <2>2, <2>3
<1> QED
  BY <1>1, <1>3, <1>4 DEF RollTypeOK, PassType, Ats, histories

\* How far a chunk of the 5-minute summaries goes.
LEMMA ChunkEnd ==
    ASSUME RollTypeOK, NEW p \in Passes, NEW from, NEW end,
           from = (IF pass[p].full THEN Floor(pass[p].from5, Day) ELSE pass[p].from5),
           end = (IF pass[p].full THEN Earlier(pass[p].now, from + Day) ELSE pass[p].now)
    PROVE  /\ from \in Int /\ from <= pass[p].from5 /\ end \in 0..now /\ end <= pass[p].now
           /\ pass[p].full = FALSE => end = pass[p].now
<1>1. Day \in Nat \ {0} /\ Never \notin Int
  BY Numbers
<1>2. /\ pass[p].from5 \in Nat /\ pass[p].now \in Nat /\ pass[p].now <= now /\ now \in Nat
      /\ pass[p].full \in BOOLEAN
  BY Types, OfAPass
<1>3. Floor(pass[p].from5, Day) \in Int /\ Floor(pass[p].from5, Day) <= pass[p].from5
      /\ pass[p].from5 < Floor(pass[p].from5, Day) + Day
  BY <1>1, <1>2, Floors
<1>4. from \in Int /\ from <= pass[p].from5
  BY <1>2, <1>3
<1>5. pass[p].full => from + Day \in Nat
  BY <1>1, <1>2, <1>3
<1>6. end \in 0..now /\ end <= pass[p].now
  BY <1>1, <1>2, <1>4, <1>5 DEF Earlier
<1> QED
  BY <1>4, <1>6

\* What a step of a pass does to the 5-minute summaries.
LEMMA FiveStep ==
    ASSUME RollTypeOK, NEW p \in Passes, RollsFive(p)
    PROVE  \E from \in Int, end \in 0..now, at \in {"five", "hour"} :
             /\ from <= pass[p].from5 /\ end <= pass[p].now
             /\ at = IF end = pass[p].now THEN "hour" ELSE "five"
             /\ tier' = [tier EXCEPT !["five"] = Upserted(raw, tier["five"], Five, from, end)]
             /\ pass' = [pass EXCEPT ![p] = [pass[p] EXCEPT !.from5 = end, !.at = at]]
<1> DEFINE from == IF pass[p].full THEN Floor(pass[p].from5, Day) ELSE pass[p].from5
           end == IF pass[p].full THEN Earlier(pass[p].now, from + Day) ELSE pass[p].now
           at == IF end = pass[p].now THEN "hour" ELSE "five"
<1>1. /\ from \in Int /\ from <= pass[p].from5 /\ end \in 0..now /\ end <= pass[p].now
  BY ChunkEnd
<1>2. pass[p].at = "five" /\ pass \in [Passes -> PassType(now)] /\ pass[p] \in PassType(now)
  BY Types DEF RollsFive, At
<1>3. /\ tier' = [tier EXCEPT !["five"] = Upserted(raw, tier["five"], Five, from, end)]
      /\ pass' = [pass EXCEPT ![p].from5 = end, ![p].at = IF end = pass[p].now THEN "hour" ELSE @]
  BY DEF RollsFive
<1> HIDE DEF from, end
<1>4. pass' = [pass EXCEPT ![p] = [pass[p] EXCEPT !.from5 = end, !.at = at]]
  BY <1>2, <1>3 DEF PassType
<1> QED
  BY <1>1, <1>3, <1>4

\* And to the hourly and the daily ones.
LEMMA UpStep ==
    ASSUME RollTypeOK, NEW p \in Passes,
           RollsHour(p) \/ RollsDay(p, "day", "hour", "fine") \/ RollsDay(p, "fine", "five", "clean")
    PROVE  /\ pass[p].at \in {"hour", "day", "fine"}
           /\ \E at \in {"day", "fine", "clean"} : pass' = [pass EXCEPT ![p] = [pass[p] EXCEPT !.at = at]]
           /\ \E t \in {"hour", "day"} : \E new \in SUBSET (0..now) : tier' = [tier EXCEPT ![t] = new]
<1>1. now \in Nat /\ {Hour, Day} \subseteq Nat \ {0}
      /\ \A t \in {"five", "hour", "day"} : tier[t] \in SUBSET (0..now)
  BY Types, Numbers
<1>2. CASE RollsHour(p)
  <2> DEFINE from == IF ~pass[p].full THEN pass[p].from1
                     ELSE IF tier["five"] = {} THEN pass[p].now
                     ELSE Floor(Later(pass[p].from1, Floor(Oldest(tier["five"]), Five)), Week)
             new == Upserted(tier["five"], tier["hour"], Hour, from, pass[p].now)
  <2>1. tier' = [tier EXCEPT !["hour"] = new] /\ pass' = [pass EXCEPT ![p].at = "day"]
        /\ pass[p].at = "hour"
    BY <1>2 DEF RollsHour, At
  <2>2. new \in SUBSET (0..now)
    BY <1>1, UpsertTypes
  <2> HIDE DEF from, new
  <2>3. pass' = [pass EXCEPT ![p] = [pass[p] EXCEPT !.at = "day"]]
    BY <2>1
  <2> QED
    BY <2>1, <2>2, <2>3
<1>3. ASSUME NEW at \in {"day", "fine"}, NEW source \in {"hour", "five"}, NEW next \in {"fine", "clean"},
             RollsDay(p, at, source, next)
      PROVE  /\ pass[p].at = at /\ pass' = [pass EXCEPT ![p] = [pass[p] EXCEPT !.at = next]]
             /\ \E new \in SUBSET (0..now) : tier' = [tier EXCEPT !["day"] = new]
  <2> DEFINE new == Upserted(tier[source], tier["day"], Day, pass[p].from1, pass[p].now)
  <2>1. tier' = [tier EXCEPT !["day"] = new] /\ pass' = [pass EXCEPT ![p].at = next] /\ pass[p].at = at
    BY <1>3 DEF RollsDay, At
  <2>2. new \in SUBSET (0..now)
    BY <1>1, UpsertTypes
  <2> HIDE DEF new
  <2> QED
    BY <2>1, <2>2
<1> QED
  BY <1>2, <1>3

\* The types as summaries are made.
LEMMA RollTypesRolls ==
    ASSUME RollTypeOK, NEW p \in Passes,
           RollsFive(p) \/ RollsHour(p) \/ RollsDay(p, "day", "hour", "fine") \/ RollsDay(p, "fine", "five", "clean")
    PROVE  RollTypeOK'
<1>1. /\ now \in Nat /\ {Five, Hour, Day} \subseteq Nat \ {0} /\ raw \in SUBSET (0..now)
      /\ tier["five"] \in SUBSET (0..now)
      /\ tier \in [{"five", "hour", "day"} -> SUBSET (0..now)] /\ pass \in [Passes -> PassType(now)]
      /\ pass[p].now \in 0..now
  BY Types, Numbers, OfAPass
<1>2. UNCHANGED <<now, up, raw, noting, heldSince, mark, lapsed>>
  BY DEF RollsFive, RollsHour, RollsDay, histories
<1>3. counted' \subseteq raw /\ rolled' \in {rolled, pass[p].now}
  BY Types DEF RollsFive, RollsHour, RollsDay, histories
<1>4. pass' \in [Passes -> PassType(now)] /\ tier' \in [{"five", "hour", "day"} -> SUBSET (0..now)]
  <2>1. CASE RollsFive(p)
    <3>1. PICK from \in Int, end \in 0..now, at \in {"five", "hour"} :
             /\ from <= pass[p].from5 /\ end <= pass[p].now
             /\ at = IF end = pass[p].now THEN "hour" ELSE "five"
             /\ tier' = [tier EXCEPT !["five"] = Upserted(raw, tier["five"], Five, from, end)]
             /\ pass' = [pass EXCEPT ![p] = [pass[p] EXCEPT !.from5 = end, !.at = at]]
      BY <2>1, FiveStep
    <3>2. Upserted(raw, tier["five"], Five, from, end) \in SUBSET (0..now)
      BY <1>1, UpsertTypes
    <3>3. [pass[p] EXCEPT !.from5 = end, !.at = at] \in PassType(now)
      BY PassStays DEF Ats
    <3> QED
      BY <1>1, <3>1, <3>2, <3>3, OnePass
  <2>2. CASE RollsHour(p) \/ RollsDay(p, "day", "hour", "fine") \/ RollsDay(p, "fine", "five", "clean")
    <3>1. PICK at \in {"day", "fine", "clean"} : pass' = [pass EXCEPT ![p] = [pass[p] EXCEPT !.at = at]]
      BY <2>2, UpStep
    <3>2. [pass[p] EXCEPT !.at = at] \in PassType(now)
      <4>1. at \in Ats /\ 0 \in 0..now
        BY <1>1 DEF Ats
      <4> QED
        BY <4>1, PassStays
    <3>3. tier' \in [{"five", "hour", "day"} -> SUBSET (0..now)]
      BY <1>1, <2>2, UpStep
    <3> QED
      BY <1>1, <3>1, <3>2, <3>3, OnePass
  <2> QED
    BY <2>1, <2>2
<1> QED
  BY <1>1, <1>2, <1>3, <1>4 DEF RollTypeOK, PassType, Ats

\* What a pass deletes: the results older than they are to be kept, and whole buckets.
LEMMA EndStep ==
    ASSUME RollTypeOK, NEW p \in Passes, Ends(p)
    PROVE  /\ raw' \subseteq raw
           /\ \A s \in raw : s \notin raw' => s < pass[p].now - Keep["raw"]
           /\ \A t \in {"five", "hour", "day"} : tier'[t] = tier[t] \/ tier'[t] = KeptOf(t, pass[p].now)
           /\ tier' \in [{"five", "hour", "day"} -> SUBSET (0..now)]
           /\ mark' \in {mark, pass[p].now}
<1>1. /\ tier \in [{"five", "hour", "day"} -> SUBSET (0..now)]
      /\ \A s \in raw : s \in Nat /\ pass[p].now \in Nat /\ Keep["raw"] \in Nat
  BY Types, Numbers, OfAPass
<1>2. PICK cleaned \in SUBSET DOMAIN Keep :
        /\ raw' = IF "raw" \in cleaned THEN {s \in raw : s >= pass[p].now - Keep["raw"]} ELSE raw
        /\ tier' = [t \in DOMAIN tier |-> IF t \in cleaned THEN KeptOf(t, pass[p].now) ELSE tier[t]]
        /\ mark' \in {mark, pass[p].now}
  BY DEF Ends
<1>3. raw' \subseteq raw /\ \A s \in raw : s \notin raw' => s < pass[p].now - Keep["raw"]
  BY <1>1, <1>2
<1>4. /\ tier' = [t \in {"five", "hour", "day"} |-> IF t \in cleaned THEN KeptOf(t, pass[p].now) ELSE tier[t]]
      /\ \A t \in {"five", "hour", "day"} : KeptOf(t, pass[p].now) \subseteq tier[t]
  BY <1>1, <1>2 DEF KeptOf
<1> QED
  BY <1>1, <1>2, <1>3, <1>4

\* The types as a pass ends or fails.
LEMMA RollTypesEnds ==
    ASSUME RollTypeOK, NEW p \in Passes, Ends(p) \/ PassFails(p)
    PROVE  RollTypeOK'
<1>1. pass \in [Passes -> PassType(now)] /\ now \in Nat /\ Over(p) \in PassType(now)
  BY Types, PassStays
<1>2. pass' = [pass EXCEPT ![p] = Over(p)]
  BY DEF Ends, PassFails
<1>3. pass' \in [Passes -> PassType(now)]
  BY <1>1, <1>2, OnePass
<1>4. CASE Ends(p)
  <2>1. /\ counted' = counted \cap raw'
        /\ UNCHANGED <<now, up, noting, heldSince, rolled, lapsed>>
    BY <1>4 DEF Ends
  <2>2. /\ raw' \subseteq raw /\ tier' \in [{"five", "hour", "day"} -> SUBSET (0..now)]
        /\ mark' \in {mark, pass[p].now} /\ pass[p].now \in 0..now
    BY <1>4, EndStep, OfAPass
  <2> QED
    BY <1>3, <2>1, <2>2 DEF RollTypeOK, PassType, Ats
<1>5. CASE PassFails(p)
  <2>1. /\ heldSince' \in {pass[p].from5, heldSince} /\ lapsed' \in BOOLEAN
        /\ UNCHANGED <<now, up, raw, tier, noting, mark, counted, rolled>>
    BY <1>5, Types DEF PassFails, Earlier, RollTypeOK
  <2>2. pass[p].from5 \in Slots
    BY OfAPass, Types, Numbers DEF Slots
  <2> QED
    BY <1>3, <2>1, <2>2 DEF RollTypeOK, PassType, Ats
<1> QED
  BY <1>4, <1>5

\* The types as the service ends and starts again.
LEMMA RollTypesServes ==
    ASSUME RollTypeOK, Crash \/ Restart
    PROVE  RollTypeOK'
<1>1. /\ pass \in [Passes -> PassType(now)] /\ now \in Nat /\ now \in 0..now
      /\ \A p \in Passes : /\ Over(p) \in PassType(now) /\ NoPass("start", pass[p].now) \in PassType(now)
                           /\ NoPass("start", now) \in PassType(now)
  <2>1. now \in Nat /\ now \in 0..now /\ pass \in [Passes -> PassType(now)]
    BY Types
  <2>2. ASSUME NEW p \in Passes
        PROVE  /\ Over(p) \in PassType(now) /\ NoPass("start", pass[p].now) \in PassType(now)
               /\ NoPass("start", now) \in PassType(now)
    <3>1. pass[p].now \in 0..now
      BY OfAPass
    <3> QED
      BY <2>1, <3>1, PassStays
  <2> QED
    BY <2>1, <2>2
<1>2. pass' \in [Passes -> PassType(now)]
  <2>1. CASE Crash
    BY <1>1, <2>1 DEF Crash
  <2>2. CASE Restart
    <3>1. pass' = [pass EXCEPT !["loop"] = NoPass("start", now)] /\ "loop" \in Passes
      BY <2>2 DEF Restart, Passes
    <3> QED
      BY <1>1, <3>1, OnePass
  <2> QED
    BY <2>1, <2>2
<1>3. /\ up' \in BOOLEAN /\ noting' \subseteq noting /\ heldSince' \in {heldSince, Never}
      /\ rolled' \in {rolled, Never, now}
      /\ UNCHANGED <<now, raw, tier, mark, counted, lapsed>>
  BY DEF Crash, Restart, histories
<1> QED
  BY <1>1, <1>2, <1>3 DEF RollTypeOK, PassType, Ats

\* Every step keeps the types.
LEMMA RollTypesNext == RollTypeOK /\ [RollupsNext]_rollupsVars => RollTypeOK'
<1> SUFFICES ASSUME RollTypeOK, [RollupsNext]_rollupsVars PROVE RollTypeOK'
  OBVIOUS
<1>1. CASE UNCHANGED rollupsVars
  BY <1>1 DEF rollupsVars, histories, RollTypeOK
<1>2. "loop" \in Passes /\ Requests \subseteq Passes
  BY DEF Passes
<1>3. ASSUME NEW p \in Passes, Step(p) PROVE RollTypeOK'
  BY <1>3, RollTypesRolls, RollTypesEnds DEF Step
<1> QED
  BY <1>1, <1>2, <1>3, RollTypesTick, RollTypesHeld, RollTypesBegins, RollTypesEnds, RollTypesServes
  DEF RollupsNext, Loop
-----------------------------------------------------------------------------
(* Where the results are that no summary has counted.                      *)

\* A result that may still be stored is in no bucket a result was deleted of.
LEMMA YoungOnes ==
    ASSUME KeptLongEnough, RollTypeOK, NEW when \in Nat, NEW s \in Nat, s + Keep["raw"] < when,
           NEW x \in Nat, x >= when - HeldFor
    PROVE  Floor(x, Five) # Floor(s, Five)
<1>1. Five \in Nat \ {0} /\ HeldFor \in Nat /\ Keep["raw"] \in Nat
  BY Numbers
<1>2. Keep["raw"] >= HeldFor + Five - 1
  BY DEF KeptLongEnough
<1>3. /\ Floor(s, Five) \in Int /\ Floor(s, Five) <= s
      /\ Floor(x, Five) \in Int /\ x < Floor(x, Five) + Five
  BY <1>1, Floors
<1> QED
  BY <1>1, <1>2, <1>3

\* What a step needs of the numbers there are.
LEMMA Figures ==
    ASSUME RollTypeOK
    PROVE  /\ now \in Nat /\ raw \in SUBSET Nat /\ tier["five"] \in SUBSET Nat /\ counted \subseteq raw
           /\ {Reread, CatchUp, HeldFor, Keep["raw"]} \subseteq Nat /\ Never \notin Int
           /\ (mark # Never => mark \in Nat /\ mark <= now)
           /\ (heldSince # Never => heldSince \in Nat)
           /\ "loop" \in Passes
           /\ \A p \in Passes : pass[p].now \in Nat /\ pass[p].now <= now /\ pass[p].from5 \in Nat
BY Types, OfAPass, Numbers

\* A result comes, now or late: it is young.
LEMMA SoundComes ==
    ASSUME KeptLongEnough, RollTypeOK, Sound, NEW r \in Nat, r >= now - HeldFor,
           now' \in Nat, now <= now', r >= now' - HeldFor, raw' \subseteq raw \cup {r}, raw \subseteq raw',
           UNCHANGED <<tier, heldSince, mark, pass, counted>>,
           noting \subseteq noting',
           r > now \/ r \in noting'
    PROVE  Covered' /\ Fragments' /\ Whole'
<1>1. Covered'
  <2> SUFFICES ASSUME NEW s \in Uncounted'
               PROVE  /\ mark # Never => s >= mark - HeldFor
                      /\ pass["loop"].at # "start" =>
                            \/ s \in noting'
                            \/ heldSince # Never /\ s >= heldSince
                            \/ s > pass["loop"].now
                            \/ pass["loop"].at = "five" /\ s >= pass["loop"].from5
                      /\ \A p \in Passes : UnderWay(p) => Reads(p, s)
    BY DEF Covered, Awaited, UnderWay, Reads
  <2>1. CASE s \in Uncounted
    BY <2>1 DEF Sound, Covered, Awaited
  <2>2. CASE s = r
    <3>1. mark # Never => s >= mark - HeldFor
      BY <2>2, Figures
    <3>2. s \in noting' \/ s > pass["loop"].now
      BY <2>2, Figures
    <3>3. \A p \in Passes : Reads(p, s)
      BY <2>2, Figures DEF Reads
    <3> QED
      BY <3>1, <3>2, <3>3
  <2> QED
    BY <2>1, <2>2 DEF Uncounted
<1>2. Fragments'
  <2> SUFFICES ASSUME NEW s \in tier["five"] \ raw'
               PROVE  /\ s + Keep["raw"] < now'
                      /\ \A x \in raw' : Floor(x, Five) = Floor(s, Five) => x \in counted
    BY DEF Fragments
  <2>1. /\ s + Keep["raw"] < now /\ s \in Nat
        /\ \A x \in raw : Floor(x, Five) = Floor(s, Five) => x \in counted
    BY Figures DEF Sound, Fragments
  <2>2. Floor(r, Five) # Floor(s, Five)
    BY <2>1, Figures, YoungOnes
  <2>3. s + Keep["raw"] < now'
    BY <2>1, Figures
  <2> QED
    BY <2>1, <2>2, <2>3
<1>3. Whole'
  BY DEF Sound, Whole
<1> QED
  BY <1>1, <1>2, <1>3

\* As time goes by.
LEMMA SoundTick ==
    ASSUME KeptLongEnough, RollTypeOK, Sound, Tick, ~lapsed'
    PROVE  Sound'
<1>1. /\ now' = now + 1 /\ raw' \in {raw, raw \cup {now'}} /\ noting = {}
      /\ ~(up /\ now' > pass["loop"].now + Reread)
      /\ UNCHANGED <<up, tier, noting, heldSince, mark, pass, counted>>
  BY DEF Tick
<1>2. now' \in Nat /\ now <= now' /\ now' >= now - HeldFor /\ now' >= now' - HeldFor /\ now' > now
  BY <1>1, Figures
<1>3. Timely'
  BY <1>1, <1>2, Figures DEF Timely
<1>4. Covered' /\ Fragments' /\ Whole'
  <2>1. raw' \subseteq raw \cup {now'} /\ raw \subseteq raw'
    BY <1>1
  <2> QED
    BY <1>1, <1>2, <2>1, SoundComes
<1> QED
  BY <1>3, <1>4 DEF Sound

\* As a result is stored late.
LEMMA SoundStores ==
    ASSUME KeptLongEnough, RollTypeOK, Sound, NEW r \in Slots, StoreHeld(r)
    PROVE  Sound'
<1>1. /\ r >= now - HeldFor /\ raw' = raw \cup {r} /\ noting' = noting \cup {r}
      /\ UNCHANGED <<now, up, tier, heldSince, mark, pass, counted>>
  BY DEF StoreHeld, histories
<1>2. r \in Nat /\ now \in Nat
  BY Numbers, Figures DEF Slots
<1>3. Timely'
  BY <1>1 DEF Sound, Timely
<1>4. Covered' /\ Fragments' /\ Whole'
  BY <1>1, <1>2, SoundComes
<1> QED
  BY <1>3, <1>4 DEF Sound

\* As its recorder notes it.
LEMMA SoundNotes ==
    ASSUME RollTypeOK, Sound, NEW r \in Slots, Note(r)
    PROVE  Sound'
<1>1. /\ noting' = noting \ {r} /\ heldSince' = Earlier(r, heldSince)
      /\ UNCHANGED <<now, up, raw, tier, mark, pass, counted>>
  BY DEF Note, histories
<1>2. r \in Nat
  BY Numbers DEF Slots
<1>3. heldSince' # Never /\ heldSince' \in Nat /\ heldSince' <= r
      /\ (heldSince # Never => heldSince' <= heldSince)
  BY <1>1, <1>2, Figures DEF Earlier
<1>4. Timely' /\ Fragments' /\ Whole'
  BY <1>1 DEF Sound, Timely, Fragments, Whole
<1>5. Covered'
  <2> SUFFICES ASSUME NEW s \in Uncounted, Awaited(s)
               PROVE  Awaited(s)'
    BY <1>1 DEF Sound, Covered, Uncounted, UnderWay, Reads
  <2>1. s \in Nat /\ (heldSince # Never => heldSince \in Nat)
    BY Figures DEF Uncounted
  <2> QED
    BY <1>1, <1>2, <1>3, <2>1 DEF Awaited
<1> QED
  BY <1>4, <1>5 DEF Sound

\* As a pass begins: it will read what no summary has counted, but for what is young.
LEMMA SoundBegins ==
    ASSUME RollTypeOK, Sound, NEW p \in Passes, NEW new \in PassType(now),
           pass' = [pass EXCEPT ![p] = new], new.at = "five", new.now = now,
           UNCHANGED <<now, up, raw, tier, noting, mark, counted>>,
           p # "loop" => heldSince' = heldSince,
           \A s \in Uncounted : s >= new.from5 \/ s \in noting
    PROVE  Sound'
<1>1. pass'[p] = new /\ \A q \in Passes : q # p => pass'[q] = pass[q]
  BY Types
<1>2. Timely'
  <2>1. pass'["loop"].now \in {pass["loop"].now, now}
    BY <1>1, Figures
  <2> QED
    BY <2>1, Figures DEF Sound, Timely
<1>3. Fragments' /\ Whole'
  BY DEF Sound, Fragments, Whole
<1>4. Covered'
  <2> SUFFICES ASSUME NEW s \in Uncounted
               PROVE  /\ mark # Never => s >= mark - HeldFor
                      /\ pass'["loop"].at # "start" => Awaited(s)'
                      /\ \A q \in Passes : UnderWay(q)' => Reads(q, s)'
    BY DEF Covered, Uncounted
  <2>1. mark # Never => s >= mark - HeldFor
    BY DEF Sound, Covered
  <2>2. pass'["loop"].at # "start" => Awaited(s)'
    BY <1>1, Figures DEF Sound, Covered, Awaited
  <2>3. ASSUME NEW q \in Passes, UnderWay(q)' PROVE Reads(q, s)'
    <3>1. CASE q = p
      BY <1>1, <3>1, Figures DEF Reads, Sound, Timely
    <3>2. CASE q # p
      BY <1>1, <2>3, <3>2 DEF Sound, Covered, UnderWay, Reads
    <3> QED
      BY <3>1, <3>2
  <2> QED
    BY <2>1, <2>2, <2>3
<1> QED
  BY <1>2, <1>3, <1>4 DEF Sound

\* The first pass of a start, and one that is requested.
LEMMA SoundBeginsFull ==
    ASSUME KeptLongEnough, RollTypeOK, Sound, BeginsCatchingUp \/ \E p \in Requests : Asked(p)
    PROVE  Sound'
<1>1. /\ now \in Nat /\ 0 \in 0..now /\ "loop" \in Passes /\ Requests \subseteq Passes
      /\ \A s \in Uncounted : s \in raw /\ s \in Nat
  BY Figures DEF Passes, Uncounted
<1>2. CASE BeginsCatchingUp
  <2> DEFINE since == IF mark = Never THEN 0 ELSE Later(mark - CatchUp, 0)
  <2>1. since \in 0..now
    BY Figures DEF Later
  <2>2. \A s \in Uncounted : s >= since
    BY <1>1, Figures DEF Sound, Covered, Later, KeptLongEnough
  <2>3. /\ pass' = [pass EXCEPT !["loop"] = Full(since)]
        /\ UNCHANGED <<now, up, raw, tier, noting, mark, counted>>
    BY <1>2 DEF BeginsCatchingUp, histories
  <2> HIDE DEF since
  <2>4. /\ Full(since).at = "five" /\ Full(since).now = now /\ Full(since) \in PassType(now)
        /\ \A s \in Uncounted : s >= Full(since).from5
    BY <1>1, <2>1, <2>2, FullFrom
  <2> QED
    BY <1>1, <2>3, <2>4, SoundBegins
<1>3. ASSUME NEW p \in Requests, Asked(p) PROVE Sound'
  <2>1. /\ pass' = [pass EXCEPT ![p] = Full(0)] /\ p \in Passes /\ p # "loop"
        /\ UNCHANGED <<now, up, raw, tier, noting, heldSince, mark, counted>>
    BY <1>1, <1>3, RollupsAssumption DEF Asked, histories
  <2>2. /\ Full(0).at = "five" /\ Full(0).now = now /\ Full(0) \in PassType(now)
        /\ \A s \in Uncounted : s >= Full(0).from5
    <3> DEFINE zero == 0
    <3>1. zero \in 0..now /\ \A s \in Uncounted : s \in raw /\ s >= zero
      BY <1>1
    <3> HIDE DEF zero
    <3>2. /\ Full(zero).at = "five" /\ Full(zero).now = now /\ Full(zero) \in PassType(now)
          /\ \A s \in Uncounted : s >= Full(zero).from5
      BY <3>1, FullFrom
    <3> QED
      BY <3>2 DEF zero
  <2> QED
    BY <2>1, <2>2, SoundBegins
<1> QED
  BY <1>2, <1>3

\* The loop's next one.
LEMMA SoundBeginsRoutine ==
    ASSUME RollTypeOK, Sound, BeginsRoutine
    PROVE  Sound'
<1> DEFINE f5 == Earlier(Later(now - Reread, 0), heldSince)
           f1 == Later(now - RereadFive, 0)
           new == [at |-> "five", now |-> now, from5 |-> f5, from1 |-> f1, full |-> FALSE]
<1>1. /\ pass' = [pass EXCEPT !["loop"] = new] /\ up /\ pass["loop"].at = "idle"
      /\ UNCHANGED <<now, up, raw, tier, noting, mark, counted>>
  BY DEF BeginsRoutine, At, Runs, histories
<1>2. /\ f5 \in Int /\ (heldSince # Never => f5 <= heldSince) /\ (f5 <= now - Reread \/ f5 <= 0)
      /\ f5 \in 0..now /\ f1 \in 0..now
  <2>1. RereadFive \in Nat
    BY Numbers
  <2>2. heldSince # Never => heldSince \in Nat
    BY Figures
  <2>3. /\ Later(now - Reread, 0) \in 0..now /\ f1 \in 0..now
        /\ Later(now - Reread, 0) <= now - Reread \/ Later(now - Reread, 0) <= 0
    BY <2>1, Figures DEF Later
  <2> QED
    BY <2>2, <2>3, Figures DEF Earlier
<1> HIDE DEF f5, f1
<1>3. new \in PassType(now) /\ new.at = "five" /\ new.now = now /\ new.from5 = f5
  BY <1>2, Figures DEF PassType, Ats
<1>4. ASSUME NEW s \in Uncounted PROVE s >= f5 \/ s \in noting
  <2>1. s \in Nat /\ Awaited(s) /\ now <= pass["loop"].now + Reread
    BY <1>1, Figures DEF Uncounted, Sound, Covered, Timely
  <2> QED
    BY <1>1, <1>2, <2>1, Figures DEF Awaited
<1> HIDE DEF new
<1> QED
  BY <1>1, <1>3, <1>4, Figures, SoundBegins

\* What the 5-minute summaries are made into: they count what was to be counted, go on
\* counting what is there, and what is there no more was in no bucket written.
LEMMA FiveRolled ==
    ASSUME RollTypeOK, Sound, NEW from \in Int, NEW end \in Int,
           NEW new, new = Upserted(raw, tier["five"], Five, from, end)
    PROVE  /\ new \subseteq raw \cup tier["five"] /\ tier["five"] \subseteq new
           /\ \A s \in Uncounted : from <= s /\ s <= end => s \in new
<1>1. /\ raw \in SUBSET Nat /\ tier["five"] \in SUBSET Nat /\ Five \in Nat \ {0}
      /\ IsFiniteSet(raw) /\ IsFiniteSet(tier["five"])
  BY Types, Numbers
<1>2. new \subseteq raw \cup tier["five"] /\ raw \cap tier["five"] \subseteq new
  BY <1>1, Upserts
<1>3. ASSUME NEW s \in tier["five"] \ raw PROVE s \in new
  <2>1. \A x \in raw : Floor(x, Five) = Floor(s, Five) => x \in tier["five"]
    BY DEF Sound, Fragments, Whole
  <2>2. \A x \in tier["five"] : Floor(x, Five) = Floor(s, Five) => x \in new
    BY <1>1, <1>3, <2>1, UpsertsNoFragment
  <2> QED
    BY <2>2
<1>4. ASSUME NEW s \in Uncounted, from <= s, s <= end PROVE s \in new
  <2>1. s \in raw /\ s \in Nat
    BY <1>1 DEF Uncounted
  <2>2. Floor(from, Five) <= Floor(s, Five) /\ Floor(s, Five) <= Floor(end, Five)
    <3>1. \A x, y \in Int : x <= y => Floor(x, Five) <= Floor(y, Five)
      BY <1>1, Floors
    <3> QED
      BY <1>4, <2>1, <3>1
  <2>3. \A x \in tier["five"] : Floor(x, Five) = Floor(s, Five) => x \in raw
    BY <2>1 DEF Sound, Fragments, Uncounted
  <2> QED
    BY <1>1, <2>1, <2>2, <2>3, Upserts
<1> QED
  BY <1>2, <1>3, <1>4

\* A 5-minute step: what was before the end of a chunk has been counted.
LEMMA SoundRollsFive ==
    ASSUME RollTypeOK, Sound, NEW p \in Passes, RollsFive(p)
    PROVE  Sound' /\ tier["five"] \subseteq tier'["five"]
<1>1. PICK from \in Int, end \in 0..now, at \in {"five", "hour"} :
         /\ from <= pass[p].from5 /\ end <= pass[p].now
         /\ at = IF end = pass[p].now THEN "hour" ELSE "five"
         /\ tier' = [tier EXCEPT !["five"] = Upserted(raw, tier["five"], Five, from, end)]
         /\ pass' = [pass EXCEPT ![p] = [pass[p] EXCEPT !.from5 = end, !.at = at]]
  BY FiveStep
<1>2. /\ pass[p].at = "five"
      /\ counted' = counted \cup (raw \cap tier'["five"])
      /\ UNCHANGED <<now, up, raw, noting, heldSince, mark>>
  BY DEF RollsFive, At
<1> DEFINE new == tier'["five"]
<1>3. /\ new = Upserted(raw, tier["five"], Five, from, end)
      /\ pass'[p].now = pass[p].now /\ pass'[p].at = at /\ pass'[p].from5 = end
      /\ \A q \in Passes : q # p => pass'[q] = pass[q]
  <2>1. pass[p] \in PassType(now) /\ pass \in [Passes -> PassType(now)]
        /\ tier \in [{"five", "hour", "day"} -> SUBSET (0..now)]
    BY Types
  <2> QED
    BY <1>1, <2>1 DEF PassType
<1>4. end \in Int /\ end \in Nat
  BY Figures
<1>5. /\ new \subseteq raw \cup tier["five"] /\ tier["five"] \subseteq new
      /\ \A s \in Uncounted : from <= s /\ s <= end => s \in new
  BY <1>3, <1>4, FiveRolled
<1>6. \A q \in Passes : pass'[q].now = pass[q].now
  BY <1>3
<1>7. Timely'
  BY <1>2, <1>6, Figures DEF Sound, Timely
<1>8. Covered'
  <2> SUFFICES ASSUME NEW s \in Uncounted, s \notin new
               PROVE  /\ mark # Never => s >= mark - HeldFor
                      /\ pass'["loop"].at # "start" => Awaited(s)'
                      /\ \A q \in Passes : UnderWay(q)' => Reads(q, s)'
    BY <1>2 DEF Covered, Uncounted
  <2>1. s \in Nat
    BY Figures DEF Uncounted
  <2>2. s >= pass[p].from5 => s > end
    BY <1>1, <1>4, <1>5, <2>1, Figures
  <2>3. pass[p].at = "five" /\ (s >= pass[p].from5 => s > pass[p].now \/ (at = "five" /\ s >= end))
    BY <1>1, <1>2, <1>4, <2>1, <2>2, Figures
  <2>4. mark # Never => s >= mark - HeldFor
    BY DEF Sound, Covered
  <2>5. pass'["loop"].at # "start" => Awaited(s)'
    <3>1. CASE p = "loop"
      BY <1>2, <1>3, <2>3, <3>1 DEF Sound, Covered, Awaited
    <3>2. CASE p # "loop"
      BY <1>2, <1>3, <3>2, Figures DEF Sound, Covered, Awaited
    <3> QED
      BY <3>1, <3>2
  <2>6. ASSUME NEW q \in Passes, UnderWay(q)' PROVE Reads(q, s)'
    <3>1. CASE q = p
      <4>1. Reads(p, s)
        BY <1>2 DEF Sound, Covered, UnderWay
      <4>2. s > pass[p].now => s >= pass[p].now - HeldFor
        BY <2>1, Figures
      <4> QED
        BY <1>3, <2>3, <3>1, <4>1, <4>2 DEF Reads
    <3>2. CASE q # p
      BY <1>3, <2>6, <3>2 DEF Sound, Covered, UnderWay, Reads
    <3> QED
      BY <3>1, <3>2
  <2> QED
    BY <2>4, <2>5, <2>6
<1>9. Fragments'
  BY <1>2, <1>5 DEF Sound, Fragments
<1>10. Whole'
  <2> SUFFICES ASSUME NEW s \in new, NEW x \in counted, Floor(x, Five) = Floor(s, Five)
               PROVE  x \in new
    BY <1>2 DEF Whole
  <2> DEFINE written == {b \in Between(raw, from, end, Five) :
                  Cardinality(InBucket(raw, b, Five)) >= Cardinality(InBucket(tier["five"], b, Five))}
  <2>1. new = Rewritten(raw, tier["five"], Five, written)
    BY <1>3 DEF Upserted
  <2> HIDE DEF written, new
  <2>2. x \in raw
    BY Figures
  <2>3. CASE Floor(s, Five) \in written
    BY <2>1, <2>2, <2>3, Rewrites
  <2>4. CASE Floor(s, Five) \notin written
    <3>1. s \in tier["five"]
      BY <2>1, <2>4, Rewrites
    <3>2. x \in tier["five"]
      BY <3>1 DEF Sound, Whole
    <3> QED
      BY <1>5, <3>2
  <2> QED
    BY <2>3, <2>4
<1> QED
  BY <1>5, <1>7, <1>8, <1>9, <1>10 DEF Sound

\* The hourly and the daily summaries: the results and the 5-minute ones stay.
LEMMA SoundRollsUp ==
    ASSUME RollTypeOK, Sound, NEW p \in Passes,
           RollsHour(p) \/ RollsDay(p, "day", "hour", "fine") \/ RollsDay(p, "fine", "five", "clean")
    PROVE  Sound' /\ tier'["five"] = tier["five"]
<1>1. UNCHANGED <<now, up, raw, noting, heldSince, mark, counted>>
  BY DEF RollsHour, RollsDay, histories
<1>2. /\ pass[p].at \in {"hour", "day", "fine"}
      /\ pass'[p].at \in {"day", "fine", "clean"} /\ pass'[p].now = pass[p].now
      /\ \A q \in Passes : q # p => pass'[q] = pass[q]
  <2>1. PICK at \in {"day", "fine", "clean"} : pass' = [pass EXCEPT ![p] = [pass[p] EXCEPT !.at = at]]
    BY UpStep
  <2>2. pass[p] \in PassType(now) /\ pass \in [Passes -> PassType(now)]
    BY Types
  <2> QED
    BY <2>1, <2>2, UpStep DEF PassType
<1>3. tier'["five"] = tier["five"]
  BY UpStep, Types
<1>4. Timely'
  <2>1. pass'["loop"].now = pass["loop"].now
    BY <1>2, Figures
  <2> QED
    BY <1>1, <2>1 DEF Sound, Timely
<1>5. Covered'
  <2> SUFFICES ASSUME NEW s \in Uncounted
               PROVE  /\ mark # Never => s >= mark - HeldFor
                      /\ pass'["loop"].at # "start" => Awaited(s)'
                      /\ \A q \in Passes : UnderWay(q)' => Reads(q, s)'
    BY <1>1 DEF Covered, Uncounted
  <2>1. mark # Never => s >= mark - HeldFor
    BY DEF Sound, Covered
  <2>2. pass'["loop"].at # "start" => Awaited(s)'
    BY <1>1, <1>2, Figures DEF Sound, Covered, Awaited
  <2>3. \A q \in Passes : UnderWay(q)' => Reads(q, s)'
    BY <1>2 DEF Sound, Covered, UnderWay, Reads
  <2> QED
    BY <2>1, <2>2, <2>3
<1> QED
  BY <1>1, <1>3, <1>4, <1>5 DEF Sound, Fragments, Whole

\* A pass that fails: if it is the loop's, the next one begins where it did.
LEMMA SoundFails ==
    ASSUME RollTypeOK, Sound, NEW p \in Passes, PassFails(p), ~lapsed'
    PROVE  Sound'
<1>1. /\ pass[p].at \in {"five", "hour", "day", "fine"} /\ ~(p = "loop" /\ pass[p].full)
      /\ heldSince' = IF pass[p].at = "five" /\ ~pass[p].full THEN Earlier(pass[p].from5, heldSince)
                      ELSE heldSince
      /\ pass' = [pass EXCEPT ![p] = Over(p)]
      /\ UNCHANGED <<now, up, raw, tier, noting, mark, counted>>
  BY DEF PassFails
<1>2. pass'[p] = Over(p) /\ \A q \in Passes : q # p => pass'[q] = pass[q]
  BY <1>1, Types
<1>3. heldSince' # Never \/ heldSince' = heldSince
  BY <1>1, Figures DEF Earlier
<1>4. /\ heldSince # Never => heldSince' # Never /\ heldSince' \in Int /\ heldSince' <= heldSince
      /\ p = "loop" /\ pass[p].at = "five" =>
            heldSince' # Never /\ heldSince' \in Int /\ heldSince' <= pass[p].from5
  BY <1>1, Figures DEF Earlier
<1>5. pass'["loop"].now = pass["loop"].now
  BY <1>2, IsOver, Figures
<1>6. Timely' /\ Fragments' /\ Whole'
  BY <1>1, <1>5 DEF Sound, Timely, Fragments, Whole
<1>7. Covered'
  <2> SUFFICES ASSUME NEW s \in Uncounted
               PROVE  /\ mark # Never => s >= mark - HeldFor
                      /\ pass'["loop"].at # "start" => Awaited(s)'
                      /\ \A q \in Passes : UnderWay(q)' => Reads(q, s)'
    BY <1>1 DEF Covered, Uncounted
  <2>1. s \in Nat /\ mark # Never => s >= mark - HeldFor
    BY DEF Sound, Covered
  <2>2. pass'["loop"].at # "start" => Awaited(s)'
    <3>1. s \in Nat
      BY Figures DEF Uncounted
    <3>2. CASE p = "loop"
      <4>1. Awaited(s)
        BY <1>1, <3>2 DEF Sound, Covered
      <4> QED
        BY <1>1, <1>2, <1>4, <1>5, <3>1, <3>2, <4>1, Figures DEF Awaited
    <3>3. CASE p # "loop"
      <4>1. pass'["loop"] = pass["loop"]
        BY <1>2, <3>3, Figures
      <4> QED
        BY <1>1, <1>4, <3>1, <4>1, Figures DEF Sound, Covered, Awaited
    <3> QED
      BY <3>2, <3>3
  <2>3. \A q \in Passes : UnderWay(q)' => Reads(q, s)'
    BY <1>2, IsOver DEF Sound, Covered, UnderWay, Reads
  <2> QED
    BY <2>1, <2>2, <2>3 DEF Sound, Covered
<1> QED
  BY <1>6, <1>7 DEF Sound

\* What is deleted is old, and has been counted.
LEMMA GoneCounted ==
    ASSUME KeptLongEnough, RollTypeOK, Sound, NEW p \in Passes, Ends(p), NEW s \in raw, s \notin raw'
    PROVE  s \in counted /\ s + Keep["raw"] < pass[p].now
<1>1. s \in Nat /\ pass[p].now \in Nat /\ HeldFor \in Nat /\ Five \in Nat \ {0} /\ Keep["raw"] \in Nat
  BY Figures, Numbers
<1>2. s < pass[p].now - Keep["raw"] /\ pass[p].at = "clean"
  BY EndStep DEF Ends, At
<1>3. s \in Uncounted => s >= pass[p].now - HeldFor
  BY <1>2 DEF Sound, Covered, UnderWay, Reads
<1>4. Keep["raw"] >= HeldFor + Five - 1
  BY DEF KeptLongEnough
<1> QED
  BY <1>1, <1>2, <1>3, <1>4 DEF Uncounted

\* The end of a pass, and what is too old is deleted.
LEMMA SoundEnds ==
    ASSUME KeptLongEnough, RollTypeOK, Sound, NEW p \in Passes, Ends(p)
    PROVE  Sound'
<1>1. /\ pass[p].at = "clean" /\ pass' = [pass EXCEPT ![p] = Over(p)] /\ counted' = counted \cap raw'
      /\ UNCHANGED <<now, up, noting, heldSince>>
  BY DEF Ends, At
<1>2. /\ raw' \subseteq raw /\ mark' \in {mark, pass[p].now}
      /\ tier'["five"] = tier["five"] \/ tier'["five"] = KeptOf("five", pass[p].now)
  BY EndStep
<1>3. pass'[p] = Over(p) /\ \A q \in Passes : q # p => pass'[q] = pass[q]
  BY <1>1, Types
<1>4. pass'["loop"].now = pass["loop"].now
  BY <1>3, IsOver, Figures
<1>5. Uncounted' \subseteq Uncounted
  BY <1>1, <1>2 DEF Uncounted
<1>6. Timely'
  BY <1>1, <1>4 DEF Sound, Timely
<1>7. Covered'
  <2> SUFFICES ASSUME NEW s \in Uncounted
               PROVE  /\ mark' # Never => s >= mark' - HeldFor
                      /\ pass'["loop"].at # "start" => Awaited(s)'
                      /\ \A q \in Passes : UnderWay(q)' => Reads(q, s)'
    BY <1>5 DEF Covered
  <2>1. mark' # Never => s >= mark' - HeldFor
    BY <1>1, <1>2 DEF Sound, Covered, UnderWay, Reads
  <2>2. pass'["loop"].at # "start" => Awaited(s)'
    <3>1. CASE p = "loop"
      BY <1>1, <1>4, <3>1 DEF Sound, Covered, Awaited
    <3>2. CASE p # "loop"
      <4>1. pass'["loop"] = pass["loop"]
        BY <1>3, <3>2, Figures
      <4> QED
        BY <1>1, <4>1 DEF Sound, Covered, Awaited
    <3> QED
      BY <3>1, <3>2
  <2>3. \A q \in Passes : UnderWay(q)' => Reads(q, s)'
    BY <1>3, IsOver DEF Sound, Covered, UnderWay, Reads
  <2> QED
    BY <2>1, <2>2, <2>3
<1>8. tier'["five"] \subseteq tier["five"]
  BY <1>2 DEF KeptOf
<1>9. Fragments'
  <2> SUFFICES ASSUME NEW s \in tier["five"], s \notin raw'
               PROVE  /\ s + Keep["raw"] < now
                      /\ \A x \in raw' : Floor(x, Five) = Floor(s, Five) => x \in counted
    BY <1>1, <1>8 DEF Fragments
  <2>1. CASE s \notin raw
    BY <1>2, <2>1 DEF Sound, Fragments
  <2>2. CASE s \in raw
    <3>1. s + Keep["raw"] < pass[p].now /\ s \in Nat /\ pass[p].now \in Nat
      BY <2>2, GoneCounted, Figures
    <3>2. s + Keep["raw"] < now
      BY <3>1, Figures
    <3>3. ASSUME NEW x \in raw', Floor(x, Five) = Floor(s, Five), x \notin counted PROVE FALSE
      <4>1. x \in Uncounted /\ x \in Nat
        BY <1>2, <3>3, Figures DEF Uncounted
      <4>2. x >= pass[p].now - HeldFor
        BY <1>1, <4>1 DEF Sound, Covered, UnderWay, Reads
      <4> QED
        BY <3>1, <3>3, <4>1, <4>2, YoungOnes
    <3> QED
      BY <3>2, <3>3
  <2> QED
    BY <2>1, <2>2
<1>10. Whole'
  <2> SUFFICES ASSUME NEW s \in tier'["five"], NEW x \in counted, Floor(x, Five) = Floor(s, Five)
               PROVE  x \in tier'["five"]
    BY <1>1 DEF Whole
  <2>1. x \in tier["five"]
    BY <1>8 DEF Sound, Whole
  <2> QED
    BY <1>2, <2>1 DEF KeptOf, Size
<1> QED
  BY <1>6, <1>7, <1>9, <1>10 DEF Sound

\* The service ends, and starts again: how far the last full pass got is what it knows.
LEMMA SoundServes ==
    ASSUME RollTypeOK, Sound, Crash \/ Restart
    PROVE  Sound'
<1>1. CASE Crash
  <2>1. /\ up' = FALSE /\ noting' = {}
        /\ UNCHANGED <<now, raw, tier, mark, counted>>
        /\ pass' = [p \in Passes |-> IF p = "loop" THEN NoPass("start", pass[p].now)
                                    ELSE IF pass[p].at = "idle" THEN pass[p] ELSE Over(p)]
    BY <1>1 DEF Crash, histories
  <2>2. pass'["loop"].at = "start" /\ \A p \in Passes : ~UnderWay(p)'
    BY <2>1, IsOver, Figures DEF NoPass, UnderWay
  <2> QED
    BY <2>1, <2>2 DEF Sound, Timely, Covered, Uncounted, Fragments, Whole
<1>2. CASE Restart
  <2>1. /\ pass' = [pass EXCEPT !["loop"] = NoPass("start", now)]
        /\ UNCHANGED <<now, raw, tier, noting, heldSince, mark, counted>>
    BY <1>2 DEF Restart
  <2>2. /\ pass'["loop"].at = "start" /\ pass'["loop"].now = now
        /\ \A q \in Passes : q # "loop" => pass'[q] = pass[q]
    BY <2>1, Types DEF NoPass
  <2>3. Timely'
    BY <2>1, <2>2, Figures DEF Sound, Timely
  <2>4. Covered'
    BY <2>1, <2>2 DEF Sound, Covered, Uncounted, UnderWay, Reads
  <2> QED
    BY <2>1, <2>3, <2>4 DEF Sound, Fragments, Whole
<1> QED
  BY <1>1, <1>2

\* At first there is nothing.
LEMMA RollupsInvInit == RollupsInit => RollupsInv
<1> SUFFICES ASSUME RollupsInit PROVE RollupsInv
  OBVIOUS
<1>1. /\ now = 0 /\ raw = {} /\ noting = {} /\ counted = {} /\ tier["five"] = {}
      /\ pass["loop"].now = 0 /\ Reread \in Nat
  BY Numbers DEF RollupsInit, NoPass, Passes
<1>2. Sound
  BY <1>1 DEF Sound, Timely, Covered, Uncounted, Fragments, Whole
<1> QED
  BY <1>2, RollTypesInit DEF RollupsInv

\* Nothing is done once the loop's pass has come too late.
LEMMA NotLapsed == RollupsNext => ~lapsed
BY DEF RollupsNext, Tick, Crash, Restart, Asked, Loop, BeginsCatchingUp, BeginsRoutine,
   Step, RollsFive, RollsHour, Ends, RollsDay, PassFails, StoreHeld, Note, At, Runs

\* Every step keeps the invariant.
LEMMA RollupsInvNext == RollupsInv /\ [RollupsNext]_rollupsVars => RollupsInv'
<1> SUFFICES ASSUME RollupsInv, [RollupsNext]_rollupsVars PROVE RollupsInv'
  OBVIOUS
<1>1. RollTypeOK /\ RollTypeOK'
  BY RollTypesNext DEF RollupsInv
<1>2. ASSUME KeptLongEnough, ~lapsed' PROVE Sound'
  <2>1. CASE UNCHANGED rollupsVars
    BY <1>2, <2>1 DEF rollupsVars, histories, RollupsInv, Sound, Timely, Covered, Uncounted,
       Fragments, Whole, Awaited, UnderWay, Reads
  <2>2. CASE RollupsNext
    <3>1. Sound
      BY <1>2, <2>2, NotLapsed DEF RollupsInv
    <3>2. "loop" \in Passes /\ Requests \subseteq Passes
      BY DEF Passes
    <3>3. ASSUME NEW p \in Passes, Step(p) PROVE Sound'
      BY <1>1, <1>2, <3>1, <3>3, SoundRollsFive, SoundRollsUp, SoundEnds DEF Step
    <3> QED
      BY <1>1, <1>2, <2>2, <3>1, <3>2, <3>3, SoundTick, SoundStores, SoundNotes, SoundBeginsFull,
         SoundBeginsRoutine, SoundFails, SoundServes
      DEF RollupsNext, Loop
  <2> QED
    BY <2>1, <2>2
<1> QED
  BY <1>1, <1>2 DEF RollupsInv, KeptLongEnough

\* The types hold in every state, whatever the retention settings.
THEOREM RollTypes == RollupsSpec => []RollTypeOK
<1> QED
  BY RollTypesInit, RollTypesNext, PTL DEF RollupsSpec

\* The inductive invariant holds in every state: where a result no summary has counted
\* is, if results are kept long enough and until the loop's passes are late (both are
\* hypotheses within it).
THEOREM RollupsInvariant == RollupsSpec => []RollupsInv
<1> QED
  BY RollupsInvInit, RollupsInvNext, PTL DEF RollupsSpec

\* A step deletes no result no summary has counted.
LEMMA StepCounted ==
    ASSUME RollupsInv, [RollupsNext]_rollupsVars, KeptLongEnough, ~lapsed
    PROVE  raw \ raw' \subseteq counted
<1>1. RollTypeOK /\ Sound
  BY DEF RollupsInv
<1>2. ASSUME NEW p \in Passes, Ends(p) PROVE raw \ raw' \subseteq counted
  BY <1>1, <1>2, GoneCounted
<1>3. "loop" \in Passes /\ Requests \subseteq Passes
  BY DEF Passes
<1>4. (\E p \in Passes : Ends(p)) \/ raw \subseteq raw'
  BY <1>3 DEF RollupsNext, Loop, Step, rollupsVars, Tick, Crash, Restart, Asked, BeginsCatchingUp,
     BeginsRoutine, RollsFive, RollsHour, RollsDay, PassFails, StoreHeld, Note
<1> QED
  BY <1>2, <1>4

\* "Rows older than the configured retention were rolled up and deleted" (jobs.go:354):
\* however many statements fail, passes are requested and whenever the service ends, no
\* result is deleted before a summary has counted it, if results are kept longer than
\* they may be held back (not with RawDays 1 or 2) and as long as the loop's passes begin
\* in time and the first of a start does not fail (lapsed).
THEOREM CountedBeforeDeleted == RollupsSpec => RolledUpBeforeDeleted
<1>1. RollupsInv /\ [RollupsNext]_rollupsVars
        => [KeptLongEnough /\ ~lapsed => raw \ raw' \subseteq counted]_rollupsVars
  BY StepCounted
<1> QED
  BY <1>1, RollupsInvariant, PTL DEF RollupsSpec, RolledUpBeforeDeleted

\* A step takes from a 5-minute summary the whole of it or nothing.
LEMMA FiveKeeps ==
    ASSUME RollupsInv, [RollupsNext]_rollupsVars
    PROVE  FiveKept
<1> SUFFICES ASSUME KeptLongEnough, NEW s \in tier["five"], s \notin tier'["five"]
             PROVE  \A x \in tier'["five"] : Floor(x, Five) # Floor(s, Five)
  BY DEF FiveKept, Keeps
<1>1. tier' # tier
  OBVIOUS
<1>2. RollTypeOK /\ Sound /\ "loop" \in Passes /\ Requests \subseteq Passes
  <2>1. RollupsNext
    BY <1>1 DEF rollupsVars
  <2> QED
    BY <2>1, NotLapsed DEF RollupsInv, Passes
<1>3. ASSUME NEW p \in Passes, Ends(p)
      PROVE  \A x \in tier'["five"] : Floor(x, Five) # Floor(s, Five)
  <2>1. tier'["five"] = KeptOf("five", pass[p].now)
    BY <1>2, <1>3, EndStep
  <2> QED
    BY <2>1 DEF KeptOf, Size
<1>4. ASSUME NEW p \in Passes,
             RollsFive(p) \/ RollsHour(p) \/ RollsDay(p, "day", "hour", "fine") \/ RollsDay(p, "fine", "five", "clean")
      PROVE  FALSE
  BY <1>2, <1>4, SoundRollsFive, SoundRollsUp
<1>5. \E p \in Passes : Ends(p)
  BY <1>1, <1>2, <1>4 DEF RollupsNext, Loop, Step, rollupsVars, Tick, Crash, Restart, Asked,
     BeginsCatchingUp, BeginsRoutine, PassFails, StoreHeld, Note
<1> QED
  BY <1>3, <1>5

\* "Never replace a retained complete aggregate with that fragment" (store/history.go:30),
\* the first part of NeverShrinks: no step takes from a 5-minute summary but the deletion
\* of the whole of it, if results are kept longer than they may be held back (with RawDays
\* 1 or 2 a fragment of an equal number replaces a summary).
THEOREM FiveNeverShrinks == RollupsSpec => [][FiveKept]_rollupsVars
<1>1. RollupsInv /\ [RollupsNext]_rollupsVars => [FiveKept]_rollupsVars
  BY FiveKeeps
<1> QED
  BY <1>1, RollupsInvariant, PTL DEF RollupsSpec
=============================================================================
