------------------------------ MODULE Rollups -------------------------------
(***************************************************************************)
(* The history of one check: raw results, and the 5-minute, hourly and     *)
(* daily summaries the retention passes make of them before the results    *)
(* are deleted (engine/jobs.go runRetentionSince, store/history.go).       *)
(*                                                                         *)
(* Time is a number of slots, and there is at most one result in a slot.   *)
(* A summary is kept as the set of the results counted in it, so that a    *)
(* tier is a set of slots and a bucket of it those that lie together.  The *)
(* days are those of a service in UTC that has always run this version: no *)
(* bucket straddles two of them.                                           *)
(***************************************************************************)
EXTENDS Integers, FiniteSets

CONSTANTS
    Five, Hour, Day,    \* slots in a bucket of each tier,
    Week,               \* and in a week
    Reread,             \* how far back a routine pass rolls up results (two hours),
    RereadFive,         \* and 5-minute and hourly summaries (three days)
    CatchUp,            \* how far before the last full pass a start goes back (72 hours)
    HeldFor,            \* how old a result held back may be (48 hours)
    Keep,               \* how long each tier is kept, 0 for ever
    Last,               \* bound: slots of time
    Results,            \* bound: results there are at one time
    Recorders,          \* bound: results stored late at one time
    Requests,           \* the requests for a pass there may be,
    Slow,               \* bound: the passes that may take time
    Troubles            \* bound: requests, crashes, and passes in which a statement fails

CONSTANT Never

Slots == 0..Last
Passes == {"loop"} \cup Requests

ASSUME RollupsAssumption ==
    /\ {Five, Hour, Day, Week, Reread, RereadFive, CatchUp, HeldFor} \subseteq Nat \ {0}
    /\ Hour % Five = 0 /\ Day % Hour = 0 /\ Week % Day = 0
    /\ Keep \in [{"raw", "five", "hour", "day"} -> Nat] /\ Keep["raw"] > 0
    /\ {Last, Results, Recorders, Troubles} \subseteq Nat /\ Never \notin Int
    /\ "loop" \notin Requests

VARIABLES
    now,        \* the time
    up,         \* whether the service runs
    raw,        \* results
    tier,       \* five, hour, day: the results counted in a summary
    noting,     \* results stored late whose recorder has not noted it yet
    heldSince,  \* Engine.heldSince
    mark,       \* the rollupBackfill setting, Never if there is none
    pass,       \* the passes under way, the loop's and those requested: how far each
                \* is, when it began (or the loop's last one did) and from where it reads
    counted,    \* history: the results there are that a 5-minute summary has counted
    rolled,     \* history: when the loop's last pass began that made all summaries;
                \* Never once that was too long ago for results held back (Behind)
    lapsed,     \* history: a pass of the loop began late, or the first of a start failed
    troubles

histories == <<counted, rolled, lapsed>>
rollupsVars == <<now, up, raw, tier, noting, heldSince, mark, pass, histories, troubles>>

NoPass(at, begun) == [at |-> at, now |-> begun, from5 |-> 0, from1 |-> 0, full |-> FALSE]

RollupsInit ==
    /\ now = 0 /\ up = TRUE /\ raw = {}
    /\ tier = [t \in {"five", "hour", "day"} |-> {}]
    /\ noting = {} /\ heldSince = Never /\ mark = Never
    /\ pass = [p \in Passes |-> NoPass(IF p = "loop" THEN "start" ELSE "idle", 0)]
    /\ counted = {} /\ rolled = 0 /\ lapsed = FALSE /\ troubles = 0

Floor(t, size) == t - (t % size)
Later(a, b) == IF a > b THEN a ELSE b
Earlier(a, b) == IF b # Never /\ b < a THEN b ELSE a
Oldest(S) == CHOOSE s \in S : \A x \in S : s <= x

Trouble == troubles < Troubles /\ troubles' = troubles + 1

\* Once the loop's pass has come too late nothing is claimed, and what follows is not
\* modelled.
Runs == up /\ ~lapsed

-----------------------------------------------------------------------------
(* The statements of the store.                                            *)

Between(S, from, to, size) == {b \in {Floor(s, size) : s \in S} :
                                Floor(from, size) <= b /\ b <= Floor(to, size)}
InBucket(S, b, size) == {s \in S : Floor(s, size) = b}
Rewritten(source, target, size, written) ==
    (UNION {InBucket(source, b, size) : b \in written})
    \cup {s \in target : Floor(s, size) \notin written}

\* (A fault: a bucket is replaced by whatever is left of its source.)
UpsertedAnyway(source, target, size, from, to) ==
    Rewritten(source, target, size, Between(source, from, to, size))

\* RollupFromRaw and RollupUp: every bucket from the one of "from" to the one of "to"
\* for which there is something is written, unless the one there counts more.
Upserted(source, target, size, from, to) ==
    Rewritten(source, target, size,
        {b \in Between(source, from, to, size) :
            Cardinality(InBucket(source, b, size)) >= Cardinality(InBucket(target, b, size))})

\* DeleteRollupsBefore: the buckets that begin before the time.
Size == [five |-> Five, hour |-> Hour, day |-> Day]
KeptOf(t, when) ==
    IF Keep[t] = 0 THEN tier[t] ELSE {s \in tier[t] : Floor(s, Size[t]) >= when - Keep[t]}

-----------------------------------------------------------------------------
(* Results.                                                                *)

Room == Cardinality(raw \cup tier["day"]) < Results

\* A result held back until now may be older than what the hourly and daily summaries
\* are made from again.
Behind(t) == t > rolled + RereadFive - HeldFor

\* Time goes by (a moment is as nothing to it); a result may be recorded.  The
\* loop begins a pass every five minutes, and so well within what a routine pass
\* rereads, unless one takes that long, the machine sleeps or a restore goes on.
Tick ==
    /\ now < Last /\ ~lapsed /\ noting = {}
    /\ \A p \in Passes \ Slow : pass[p].at \in {"idle", "start", "over"}
    /\ now' = now + 1
    /\ raw' \in IF up /\ Room THEN {raw, raw \cup {now'}} ELSE {raw}
    /\ lapsed' = (lapsed \/ (up /\ now' > pass["loop"].now + Reread))
    /\ rolled' = IF rolled # Never /\ up /\ Behind(now') THEN Never ELSE rolled
    /\ UNCHANGED <<up, tier, noting, heldSince, mark, pass, counted, troubles>>

\* (A fault: a clock that is ahead is believed.)
StoreAhead(s) ==
    /\ Runs /\ s >= now - HeldFor
    /\ s \notin raw /\ Room /\ Cardinality(noting) < Recorders
    /\ raw' = raw \cup {s} /\ noting' = noting \cup {s}
    /\ UNCHANGED <<now, up, tier, heldSince, mark, pass, histories, troubles>>

\* judgeReading and IngestCollectorResults store a result held back, if none is near.
StoreHeld(s) ==
    /\ Runs /\ s < now /\ s >= now - HeldFor
    /\ s \notin raw /\ Room /\ Cardinality(noting) < Recorders
    /\ raw' = raw \cup {s} /\ noting' = noting \cup {s}
    /\ UNCHANGED <<now, up, tier, heldSince, mark, pass, histories, troubles>>

\* noteHeldResult.
Note(s) ==
    /\ Runs /\ s \in noting
    /\ noting' = noting \ {s}
    /\ heldSince' = Earlier(s, heldSince)
    /\ UNCHANGED <<now, up, raw, tier, mark, pass, histories, troubles>>

-----------------------------------------------------------------------------
(* Passes: runRetentionSince.  The loop makes one after the other; nothing *)
(* keeps one that is requested from going on beside it.                    *)

\* A full one, from the beginning of the data or from "since".
Full(since) ==
    [at |-> "five", now |-> now,
     from5 |-> IF raw = {} THEN Later(now - Reread, since) ELSE Later(Oldest(raw), since),
     from1 |-> since, full |-> TRUE]

At(p, at) == Runs /\ pass[p].at = at

\* A pass is over.
Over(p) == IF p = "loop" THEN NoPass("idle", pass[p].now) ELSE NoPass("over", 0)

\* retentionLoop: the first pass after a start catches up.
BeginsCatchingUp ==
    /\ At("loop", "start")
    /\ pass' = [pass EXCEPT !["loop"] =
                    Full(IF mark = Never THEN 0 ELSE Later(mark - CatchUp, 0))]
    /\ UNCHANGED <<now, up, raw, tier, noting, heldSince, mark, histories, troubles>>

\* The others reread a little, and as far as results have been stored late.
BeginsRoutine ==
    /\ At("loop", "idle")
    /\ pass' = [pass EXCEPT !["loop"] =
                    [at |-> "five", now |-> now,
                     from5 |-> Earlier(Later(now - Reread, 0), heldSince),
                     from1 |-> Later(now - RereadFive, 0), full |-> FALSE]]
    /\ heldSince' = Never
    /\ UNCHANGED <<now, up, raw, tier, noting, mark, histories, troubles>>

\* A request for one (handleRetentionRun), or the end of a restore.
Asked(p) ==
    /\ At(p, "idle") /\ Trouble
    /\ pass' = [pass EXCEPT ![p] = Full(0)]
    /\ UNCHANGED <<now, up, raw, tier, noting, heldSince, mark, histories>>

\* The 5-minute summaries; a full pass makes those of a day at a time (chunked).
RollsFive(p) ==
    /\ At(p, "five")
    /\ LET q == pass[p]
           from == IF q.full THEN Floor(q.from5, Day) ELSE q.from5
           end == IF q.full THEN Earlier(q.now, from + Day) ELSE q.now
       IN  /\ tier' = [tier EXCEPT !["five"] = Upserted(raw, @, Five, from, end)]
           /\ pass' = [pass EXCEPT ![p].from5 = end,
                                   ![p].at = IF end = q.now THEN "hour" ELSE @]
    /\ counted' = counted \cup (raw \cap tier'["five"])
    /\ UNCHANGED <<now, up, raw, noting, heldSince, mark, rolled, lapsed, troubles>>

\* The hourly ones, of the 5-minute ones; a full pass makes those of a week at a time,
\* here in one step.
RollsHour(p) ==
    /\ At(p, "hour")
    /\ LET q == pass[p]
           oldest == Floor(Oldest(tier["five"]), Five)
           from == IF ~q.full THEN q.from1
                   ELSE IF tier["five"] = {} THEN q.now ELSE Floor(Later(q.from1, oldest), Week)
       IN  tier' = [tier EXCEPT !["hour"] = Upserted(tier["five"], @, Hour, from, q.now)]
    /\ pass' = [pass EXCEPT ![p].at = "day"]
    /\ UNCHANGED <<now, up, raw, noting, heldSince, mark, histories, troubles>>

\* The daily ones, of the hourly ones and then of the 5-minute ones.
RollsDay(p, at, source, next) ==
    /\ At(p, at)
    /\ tier' = [tier EXCEPT !["day"] =
                    Upserted(tier[source], @, Day, pass[p].from1, pass[p].now)]
    /\ pass' = [pass EXCEPT ![p].at = next]
    /\ rolled' = IF p = "loop" /\ source = "five" /\ rolled # Never THEN pass[p].now ELSE rolled
    /\ UNCHANGED <<now, up, raw, noting, heldSince, mark, counted, lapsed, troubles>>

\* (A fault: what a failed statement has not rolled up is not noted again.)
FailsUnnoted(p) ==
    /\ Runs /\ pass[p].at \in {"five", "hour", "day", "fine"} /\ Trouble
    /\ pass' = [pass EXCEPT ![p] = Over(p)]
    /\ lapsed' = (lapsed \/ (p = "loop" /\ pass[p].full))
    /\ UNCHANGED <<now, up, raw, tier, noting, heldSince, mark, counted, rolled>>

\* A statement fails: nothing after it is done, and a routine pass will begin from
\* where this one did.
PassFails(p) ==
    /\ Runs /\ pass[p].at \in {"five", "hour", "day", "fine"} /\ Trouble
    /\ heldSince' = IF pass[p].at = "five" /\ ~pass[p].full
                    THEN Earlier(pass[p].from5, heldSince) ELSE heldSince
    /\ pass' = [pass EXCEPT ![p] = Over(p)]
    /\ lapsed' = (lapsed \/ (p = "loop" /\ pass[p].full))
    /\ UNCHANGED <<now, up, raw, tier, noting, mark, counted, rolled>>

\* Every hour, and in a full pass, what is older than it is to be kept is deleted, of
\* each kind by a statement that fails on its own, here in one step; how far a full pass
\* got is stored when none has failed, if that does not fail.
Ends(p) ==
    /\ At(p, "clean")
    /\ \E cleaned \in SUBSET DOMAIN Keep :
        LET when == pass[p].now
            whole == cleaned = DOMAIN Keep
            skipped == cleaned = {} /\ ~pass[p].full
        IN  /\ raw' = IF "raw" \in cleaned THEN {s \in raw : s >= when - Keep["raw"]} ELSE raw
            /\ tier' = [t \in DOMAIN tier |-> IF t \in cleaned THEN KeptOf(t, when) ELSE tier[t]]
            /\ mark' \in IF whole /\ pass[p].full THEN {mark, when} ELSE {mark}
            /\ IF whole \/ skipped THEN UNCHANGED troubles ELSE Trouble
    /\ pass' = [pass EXCEPT ![p] = Over(p)] /\ counted' = counted \cap raw'
    /\ UNCHANGED <<now, up, noting, heldSince, rolled, lapsed>>

-----------------------------------------------------------------------------
(* The service.                                                            *)

\* It ends, whatever it is at.
Crash ==
    /\ Runs /\ Trouble
    /\ up' = FALSE
    /\ noting' = {} /\ heldSince' = Never
    /\ pass' = [p \in Passes |-> IF p = "loop" THEN NoPass("start", pass[p].now)
                                ELSE IF pass[p].at = "idle" THEN pass[p] ELSE Over(p)]
    /\ UNCHANGED <<now, raw, tier, mark, histories>>

Restart ==
    /\ ~up /\ ~lapsed /\ up' = TRUE
    /\ pass' = [pass EXCEPT !["loop"] = NoPass("start", now)]
    /\ rolled' = IF rolled = Never THEN Never ELSE now
    /\ UNCHANGED <<now, raw, tier, noting, heldSince, mark, counted, lapsed, troubles>>

Step(p) ==
    \/ RollsFive(p) \/ RollsHour(p) \/ Ends(p)
    \/ RollsDay(p, "day", "hour", "fine") \/ RollsDay(p, "fine", "five", "clean")
Loop == BeginsCatchingUp \/ BeginsRoutine \/ Step("loop")

RollupsNext ==
    \/ Tick \/ Crash \/ Restart \/ Loop
    \/ \E p \in Requests : Asked(p) \/ Step(p)
    \/ \E p \in Passes : PassFails(p)
    \/ \E s \in Slots : StoreHeld(s) \/ Note(s)

RollupsSpec == RollupsInit /\ [][RollupsNext]_rollupsVars

\* The loop goes on, a result stored late is noted, and the service is started again.
RollupsFairSpec ==
    /\ RollupsSpec
    /\ WF_rollupsVars(Loop) /\ WF_rollupsVars(Restart)
    /\ WF_rollupsVars(\E s \in Slots : Note(s))

-----------------------------------------------------------------------------
(* Properties.                                                             *)

RollTypeOK ==
    /\ now \in Slots /\ up \in BOOLEAN /\ raw \subseteq 0..now
    /\ tier \in [{"five", "hour", "day"} -> SUBSET (0..now)]
    /\ noting \subseteq 0..now /\ heldSince \in Slots \cup {Never} /\ mark \in (0..now) \cup {Never}
    /\ pass \in [Passes -> [at : {"idle", "start", "five", "hour", "day", "fine", "clean", "over"},
                            now : 0..now, from5 : 0..now, from1 : 0..now, full : BOOLEAN]]
    /\ counted \subseteq raw /\ rolled \in (0..now) \cup {Never} /\ lapsed \in BOOLEAN

\* The retention settings that keep results longer than they may be held back, with a
\* start that goes back as far.  (The defaults are 30 days and 72 hours; a setting of one
\* or two days of results is accepted, manage.go:478, and is not among them.)
KeptLongEnough == Keep["raw"] >= HeldFor + Five - 1 /\ CatchUp >= HeldFor

\* And those that keep the 5-minute summaries longer than the results, and both them and
\* the hourly ones until nothing new comes into the larger bucket.  (The default is 180
\* days; a setting of a few days is accepted, manage.go:484, and is not among them.)
SummariesKeptLongEnough ==
    /\ KeptLongEnough
    /\ Keep["five"] # 0 => Keep["five"] >= Keep["raw"] + Five - 1
    /\ Keep["five"] # 0 => Keep["five"] >= HeldFor + Day - 1
    /\ Keep["hour"] # 0 => Keep["hour"] >= HeldFor + Day - 1

\* "rows older than the configured retention were rolled up and deleted"
\* (jobs.go:354): no result is deleted before a summary has counted it, though passes
\* fail, the service crashes and results come two days late, as long as the loop begins
\* its passes in time, the first of a start does not fail (lapsed), and results are kept
\* longer than they may be held back (not with RawDays 1 or 2).
RolledUpBeforeDeleted ==
    [][KeptLongEnough /\ ~lapsed => raw \ raw' \subseteq counted]_rollupsVars

\* "Never replace a retained complete aggregate with that fragment" (store/history.go:30):
\* a summary that counted a result counts it until the whole bucket is deleted.  That is
\* true of a 5-minute one if results are kept long enough, and of an hourly or a daily
\* one if summaries are too and the loop's passes have not failed for so long that they
\* left out some of a bucket: of an equal number of results the fragment wins.
Keeps(t, size) ==
    \A s \in tier[t] : s \in tier'[t] \/ \A x \in tier'[t] : Floor(x, size) # Floor(s, size)
FiveKept == KeptLongEnough => Keeps("five", Five)
NeverShrinks ==
    [][/\ FiveKept
       /\ SummariesKeptLongEnough /\ rolled # Never => Keeps("hour", Hour) /\ Keeps("day", Day)
      ]_rollupsVars

\* Every result that is to be kept, recorded in time or late, comes to be counted: again
\* and again there is a moment when the hourly and the daily summaries have them all,
\* whatever fails.
Summarised ==
    []<>(\/ {s \in raw : s >= now - Keep["raw"]} \subseteq tier["hour"] \cap tier["day"]
         \/ lapsed)
=============================================================================
