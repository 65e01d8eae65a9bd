---------------------------- MODULE AgentQueue -----------------------------
(***************************************************************************)
(* What the agent does with readings it cannot deliver.                    *)
(*                                                                         *)
(* A spool (cmd/gwatch-agent/spool.go) holds readings, oldest first, in    *)
(* memory and in a file beside agent.json; one loop owns it (the report    *)
(* loop of main.go, or the collector's sendLoop): it adds what was taken,  *)
(* sends from the front, and makes the file match the queue.  The agent    *)
(* may be stopped, which syncs the file, or end anywhere (a power cut),    *)
(* which keeps the file as far as it was written.                          *)
(*                                                                         *)
(* A reading is the number of its turn, so a set of readings has an order  *)
(* and the oldest is its least.  The size limit works as the count limit   *)
(* does and is left out, and with it the most load reads of a file; time   *)
(* only makes the oldest readings too old.                                 *)
(* A line of the file is its reading, or counted as garbage if it does not *)
(* parse; tail says how the file ends.                                     *)
(***************************************************************************)
EXTENDS Integers, FiniteSets

CONSTANTS
    QReadings,  \* bound: readings taken
    QMax,       \* spool.max, or 1
    QBatch,     \* readings sent by one request: 1, or a batch of results
    QCrashes    \* bound: times the agent ends without a word

ASSUME QueueAssumption ==
    /\ {QReadings, QCrashes} \subseteq Nat
    /\ {QMax, QBatch} \subseteq Nat \ {0}

\* How many pushed-out lines the file may keep before it is rewritten.
Slack == IF QMax \div 10 > 1 THEN QMax \div 10 ELSE 1

Tails == {"newline", "part", "whole"}
Files == [lines : SUBSET Nat, garbage : Nat, tail : Tails]
NoFile == [lines |-> {}, garbage |-> 0, tail |-> "newline"]

VARIABLES
    held,       \* spool.held
    disk,       \* the held readings the file has (spool.disk counts them)
    dropped,    \* lines of readings a limit pushed out (spool.dropped)
    stale,      \* spool.stale
    file,       \* the queue file: the readings with a line of their own, the
                \* lines that do not parse, and whether its last line is a "part"
                \* of one, or "whole" but for its newline
    pc,         \* where the loop stands, or "down"
    batch,      \* the readings of the request under way
    made,       \* readings taken so far
    crashes,    \* times the agent ended without a word
    hidden,     \* history: the file may have lines that no counter knows of, left
                \* there by a start that could not open it
    answered,   \* history: readings the agent knows GWatch has taken, as long as it
                \* has not ended without a successful sync
    owed,       \* history: readings that a successful sync has left in the file
                \* and that neither GWatch's answer, nor a limit, nor a start that
                \* could not read them has discharged
    unclean,    \* history: the agent has ended without a successful sync
    joined      \* history: something was written after a line without newline

spool == <<held, disk, dropped, stale>>
past == <<answered, owed>>
queueVars == <<spool, file, pc, batch, made, crashes, hidden, past, unclean, joined>>

QueueInit ==
    /\ held = {} /\ disk = {} /\ dropped = {} /\ stale = FALSE
    /\ file = NoFile
    /\ pc = "idle" /\ batch = {} /\ made = 0 /\ crashes = 0
    /\ hidden = FALSE
    /\ answered = {} /\ owed = {}
    /\ unclean = FALSE /\ joined = FALSE

\* The n newest, the n oldest of a set of readings.
Newest(S, n) == {x \in S : Cardinality({y \in S : y > x}) < n}
Oldest(S, n) == {x \in S : Cardinality({y \in S : y < x}) < n}

-----------------------------------------------------------------------------
(* The loop: take a reading, send, make the file match.                    *)

\* (A fault: the queue is not trimmed.)
AddUntrimmed ==
    /\ pc = "idle"
    /\ made < QReadings
    /\ made' = made + 1
    /\ held' = held \cup {made'}
    /\ pc' \in {"idle", "send", "sync"}
    /\ UNCHANGED <<dropped, disk, owed, stale, file, batch, crashes, hidden, answered,
                   unclean, joined>>

\* add: a reading goes to the back, and trim pushes the oldest out.  The loop
\* goes on to send, or to sync because a failed attempt is being waited out,
\* or back to wait for more results.
Add ==
    /\ pc = "idle"
    /\ made < QReadings
    /\ made' = made + 1
    /\ held' = Newest(held \cup {made'}, QMax)
    /\ LET out == (held \cup {made'}) \ held'
       IN  /\ dropped' = dropped \cup (out \cap disk)
           /\ disk' = disk \ out
           /\ owed' = owed \ out
    /\ pc' \in {"idle", "send", "sync"}
    /\ UNCHANGED <<stale, file, batch, crashes, hidden, answered, unclean, joined>>

\* Time goes by: the next attempt is due, or still waited for.
Attempt ==
    /\ pc = "idle"
    /\ pc' = "send"
    /\ UNCHANGED <<spool, file, batch, made, crashes, hidden, past, unclean, joined>>
Wait ==
    /\ pc = "idle"
    /\ pc' = "sync"
    /\ UNCHANGED <<spool, file, batch, made, crashes, hidden, past, unclean, joined>>

\* A request with the oldest readings goes out.
Send ==
    /\ pc = "send"
    /\ held # {}
    /\ batch' = Oldest(held, QBatch)
    /\ pc' = "sending"
    /\ UNCHANGED <<spool, file, made, crashes, hidden, past, unclean, joined>>

SendNothing ==
    /\ pc = "send"
    /\ held = {}
    /\ pc' = "sync"
    /\ UNCHANGED <<spool, file, batch, made, crashes, hidden, past, unclean, joined>>

\* GWatch takes the batch; whether its answer arrives is another matter.
Taken ==
    /\ pc = "sending"
    /\ pc' = "taken"
    /\ UNCHANGED <<spool, file, batch, made, crashes, hidden, past, unclean, joined>>

\* (A fault: one reading too few leaves.)
LeaveButLast(B) ==
    LET gone == Oldest(B, Cardinality(B) - 1)
    IN  /\ held' = held \ gone /\ disk' = disk \ gone
        /\ stale' = (stale \/ disk \cap gone # {})
        /\ owed' = owed \ gone
        /\ batch' = {}
        /\ pc' \in {"send", "sync"}
        /\ UNCHANGED <<dropped, file, made, crashes, hidden, unclean, joined>>

\* (A fault: the file is not marked for rewriting.)
LeaveUnmarked(B) ==
    /\ held' = held \ B /\ disk' = disk \ B
    /\ owed' = owed \ B
    /\ batch' = {}
    /\ pc' \in {"send", "sync"}
    /\ UNCHANGED <<stale, dropped, file, made, crashes, hidden, unclean, joined>>

\* delivered: the readings at the front leave the queue, and the file must
\* stop offering those it has.  Then the next batch, or enough for this time.
Leave(B) ==
    /\ held' = held \ B /\ disk' = disk \ B
    /\ stale' = (stale \/ disk \cap B # {})
    /\ owed' = owed \ B
    /\ batch' = {}
    /\ pc' \in {"send", "sync"}
    /\ UNCHANGED <<dropped, file, made, crashes, hidden, unclean, joined>>

\* The batch was taken, and its answer says so.
Delivered ==
    /\ pc = "taken"
    /\ Leave(batch)
    /\ answered' = answered \cup (IF unclean THEN {} ELSE batch)

\* Refused for good: dropped, so that it does not block what is behind it.
RefusedForGood ==
    /\ pc = "sending"
    /\ Leave(batch)
    /\ UNCHANGED answered

\* No answer, a busy server, a rejected token: tried again later.
TryLater ==
    /\ pc \in {"sending", "taken"}
    /\ batch' = {}
    /\ pc' = "sync"
    /\ UNCHANGED <<spool, file, made, crashes, hidden, past, unclean, joined>>

-----------------------------------------------------------------------------
(* What a write does to the file.                                          *)

\* The reading whose line has no newline yet.
Unended(f) == IF f.tail = "whole" THEN Newest(f.lines, 1) ELSE {}

\* The readings in ls are written at the end, a line each.  An unended line
\* swallows the first of them.
WithLines(f, ls) ==
    CASE ls = {} -> f
      [] ls # {} /\ f.tail = "newline" -> [f EXCEPT !.lines = @ \cup ls]
      [] OTHER ->
            [lines |-> (f.lines \ Unended(f)) \cup (ls \ Oldest(ls, 1)),
             garbage |-> f.garbage + Cardinality(Unended(f)), tail |-> "newline"]

\* A part of one more line is written, or all of it but the newline.
WithPart(f) ==
    IF f.tail = "part" THEN f
    ELSE [lines |-> f.lines \ Unended(f), garbage |-> f.garbage + 1, tail |-> "part"]
WithWhole(f, r) ==
    IF f.tail = "newline" THEN [f EXCEPT !.lines = @ \cup r, !.tail = "whole"]
    ELSE WithPart(f)

\* What an append of ls may have written when it is cut short, or when it is
\* all written but not known to be on the disk.
CutShort(f, ls) ==
    {WithLines(f, ls)} \cup
    UNION {LET g == WithLines(f, Oldest(ls, n))
               next == Oldest(ls \ Oldest(ls, n), 1)
           IN  {g, WithPart(g), WithWhole(g, next)} :
           n \in 0..Cardinality(ls) - 1}

Joins(f) == joined' = (joined \/ (file.tail # "newline" /\ f # file))

-----------------------------------------------------------------------------
(* sync.                                                                   *)

Syncing == pc \in {"sync", "leaving"}
MustRewrite == stale \/ Cardinality(dropped) > Slack
MayAppend == held # {} /\ ~MustRewrite /\ held # disk

\* Where the loop goes after it: the deferred sync of a stop is the last thing.
AfterSync(ok) ==
    /\ pc' = IF pc = "leaving" THEN "down" ELSE "idle"
    /\ unclean' = (unclean \/ (pc = "leaving" /\ ~ok))

\* (A fault: the new file has only what the old one lacked.)
ReplacedByNew ==
    /\ disk' = held /\ dropped' = {} /\ stale' = FALSE /\ hidden' = FALSE
    /\ file' = [NoFile EXCEPT !.lines = held \ disk]
    /\ owed' = owed \cup held

\* The file is as the queue is: removed, replaced by a new one, or in order.
Replaced ==
    /\ disk' = held /\ dropped' = {} /\ stale' = FALSE /\ hidden' = FALSE
    /\ file' = [NoFile EXCEPT !.lines = held]
    /\ owed' = owed \cup held

\* Nothing is held: the file is removed.
Remove ==
    /\ Syncing /\ held = {}
    /\ disk # {} \/ dropped # {} \/ stale
    /\ Replaced
    /\ AfterSync(TRUE)
    /\ UNCHANGED <<held, batch, made, crashes, answered, joined>>

\* The file is replaced whole (a temporary file, renamed).
Rewrite ==
    /\ Syncing /\ held # {} /\ MustRewrite
    /\ Replaced
    /\ AfterSync(TRUE)
    /\ UNCHANGED <<held, batch, made, crashes, answered, joined>>

\* The readings that are not in the file are added to its end.
Append ==
    /\ Syncing /\ MayAppend
    /\ file' = WithLines(file, held \ disk) /\ Joins(file')
    /\ disk' = held
    /\ owed' = owed \cup held
    /\ AfterSync(TRUE)
    /\ UNCHANGED <<held, dropped, stale, batch, made, crashes, hidden, answered>>

\* The file already matches.
NothingToSync ==
    /\ Syncing
    /\ IF held = {} THEN disk = {} /\ dropped = {} /\ ~stale
                    ELSE held = disk /\ ~MustRewrite
    /\ AfterSync(TRUE)
    /\ UNCHANGED <<spool, file, batch, made, crashes, hidden, past, joined>>

\* The file cannot be removed or replaced: nothing changes.
RewriteFails ==
    /\ Syncing
    /\ (held # {} /\ MustRewrite) \/ (held = {} /\ (disk # {} \/ dropped # {} \/ stale))
    /\ AfterSync(FALSE)
    /\ UNCHANGED <<spool, file, batch, made, crashes, hidden, past, joined>>

\* (A fault to compare with: after a failed append the next one appends too.)
AppendFailsUnmarked ==
    /\ Syncing /\ MayAppend
    /\ file' \in {file} \cup (IF file = NoFile THEN {} ELSE CutShort(file, held \ disk))
    /\ Joins(file')
    /\ AfterSync(FALSE)
    /\ UNCHANGED <<spool, batch, made, crashes, hidden, past>>

\* The append failed, part of it perhaps written (a new file is written the
\* careful way): the file is to be rewritten.
AppendFails ==
    /\ Syncing /\ MayAppend
    /\ file' \in {file} \cup (IF file = NoFile THEN {} ELSE CutShort(file, held \ disk))
    /\ Joins(file')
    /\ stale' = TRUE
    /\ AfterSync(FALSE)
    /\ UNCHANGED <<held, disk, dropped, batch, made, crashes, hidden, past>>

Sync == Remove \/ Rewrite \/ Append \/ NothingToSync
SyncFails == RewriteFails \/ AppendFails

-----------------------------------------------------------------------------
(* The process ends and starts again.                                      *)

\* The service is stopped: a request under way is given up.
Stop ==
    /\ pc \in {"idle", "sending", "taken"}
    /\ batch' = {}
    /\ pc' = "leaving"
    /\ UNCHANGED <<spool, file, made, crashes, hidden, past, unclean, joined>>

\* The process ends without a word, in the middle of an append perhaps: what
\* it knew is gone with it.
Crash ==
    /\ pc # "down" /\ crashes < QCrashes
    /\ crashes' = crashes + 1 /\ unclean' = TRUE
    /\ pc' = "down"
    /\ file' \in {file} \cup (IF Syncing /\ MayAppend /\ file # NoFile
                              THEN CutShort(file, held \ disk) ELSE {})
    /\ Joins(file')
    /\ held' = {} /\ disk' = {} /\ dropped' = {} /\ stale' = FALSE /\ batch' = {}
    /\ UNCHANGED <<made, hidden, past>>

\* The readings load takes up: of the first n lines, those that parse and are
\* not too old by now, and of them what the limits keep.
Loaded(old, n) ==
    LET scanned == Oldest(file.lines, n)
    IN  /\ pc = "down"
        /\ held' = Newest({r \in scanned : r > old}, QMax)
        /\ owed' = owed \ (file.lines \ held')
        /\ disk' = held' /\ dropped' = {}
        /\ pc' = "idle"
        /\ UNCHANGED <<file, batch, made, crashes, answered, unclean, joined>>

\* load: anything skipped or cut marks the file for rewriting, and so does a
\* read that fails, which leaves the lines after it unread.
Load ==
    \E old \in 0..made, n \in 0..Cardinality(file.lines), readable \in BOOLEAN :
        /\ readable => n = Cardinality(file.lines)
        /\ readable \/ file # NoFile
        /\ Loaded(old, n)
        /\ stale' = (~readable \/ held' # file.lines \/ file.garbage > 0)
        /\ hidden' = (hidden /\ stale')

\* The file is there and cannot be opened: the agent starts with nothing held,
\* and with counters that say there is no file.
LoadFails ==
    /\ pc = "down" /\ file # NoFile
    /\ held' = {} /\ disk' = {} /\ dropped' = {} /\ stale' = FALSE
    /\ owed' = owed \ file.lines
    /\ hidden' = TRUE
    /\ pc' = "idle"
    /\ UNCHANGED <<file, batch, made, crashes, answered, unclean, joined>>

-----------------------------------------------------------------------------

Answer == Delivered \/ RefusedForGood \/ TryLater
QueueNext ==
    \/ Add \/ Attempt \/ Wait \/ Send \/ SendNothing \/ Taken \/ Answer
    \/ Sync \/ SyncFails \/ Stop \/ Crash \/ Load \/ LoadFails

QueueSpec == QueueInit /\ [][QueueNext]_queueVars

\* The loop goes on, and the agent is started again when it has ended; a server
\* that is reached again and again takes what it is sent.
QueueFairness ==
    /\ SF_queueVars(Attempt)
    /\ WF_queueVars(Send \/ SendNothing \/ Answer \/ Sync \/ SyncFails)
    /\ SF_queueVars(Taken)
    /\ SF_queueVars(Delivered)
    /\ WF_queueVars(Load \/ LoadFails)

QueueFairSpec == QueueSpec /\ QueueFairness

-----------------------------------------------------------------------------
(* Properties.                                                             *)

\* "The file can run past it by at most a tenth before it is rewritten"
\* (spool.go:65-66), through failed writes and restarts as well.  Lines the agent
\* could not open (hidden) are outside it: after a failed open the counters start
\* at an empty file, and what is added comes on top of what is there.
FileBounded == ~hidden => Cardinality(file.lines) + file.garbage <= QMax + Slack

\* What a queue, its counters and its file can be, within their limits.
QueueTypeOK ==
    /\ held \subseteq 1..made /\ disk \subseteq held
    /\ dropped \subseteq 1..made /\ dropped \cap held = {}
    /\ stale \in BOOLEAN
    /\ file \in Files /\ file.lines \subseteq 1..made
    /\ pc \in {"idle", "send", "sending", "taken", "sync", "leaving", "down"}
    /\ batch \subseteq held
    /\ made \in 0..QReadings /\ crashes \in 0..QCrashes
    /\ answered \cup owed \subseteq 1..made
    /\ Cardinality(held) <= QMax /\ FileBounded
    /\ {hidden, unclean, joined} \subseteq BOOLEAN

\* Unless it is marked for rewriting, the file offers the held readings spool
\* counts in it and those a limit pushed out, and nothing else: the counters
\* disk and dropped tell the truth about a file that was appended to, torn,
\* read back and rewritten (spool.go:107-113).  It does not hold of a file that a
\* start could not open (hidden), until it is replaced or read whole, and of one with a
\* reading written onto the end of another line (joined).
FileMatches ==
    pc # "down" /\ ~stale /\ ~hidden /\ ~joined =>
        file.lines = disk \cup dropped /\ file.garbage = 0

\* A reading that was once in the file after a successful sync is held, or in
\* the file of an agent that is down, until GWatch has it or a limit gave it up, or
\* until a start fails to open the file, or to read it as far as its line
\* (spool.go:170-175, 198-199), after which the next rewrite may take it.
Durable == owed \subseteq IF pc = "down" THEN file.lines ELSE held

\* The file loses none of them otherwise, but by an append after a line without
\* its newline, which a power cut has taken.
DurableUnlessJoined == ~joined => Durable

\* Delivered readings "must not be sent twice after a restart" (spool.go:112-113):
\* as long as every stop ends with a successful sync, nothing that GWatch is
\* known to have taken is held again.
NotSentTwice == ~unclean => held \cap answered = {}

\* What is held is delivered, or given up, or lost with a process that ended.
HeldIsSent == \A r \in 1..QReadings : r \in held ~> r \notin held
=============================================================================
