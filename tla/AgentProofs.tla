---------------------------- MODULE AgentProofs -----------------------------
(***************************************************************************)
(* What is proved of the agent: of its queue and of its token.             *)
(*                                                                         *)
(* The queue (AgentQueue).  What it says of its file is true, what a       *)
(* successful sync left there is not lost, nothing delivered is sent       *)
(* again, and the file keeps within its limit: for any size of the queue,  *)
(* any number of readings, of failed reads and writes, stops and power     *)
(* cuts.  A start that cannot open the file is an exception to the first   *)
(* and the last until the file is replaced (hidden), and it, or one that   *)
(* cannot read the file to its end, gives up the lines it did not read;    *)
(* nothing delivered is sent again even then, since a held reading that    *)
(* the file has is one the counters know of (Known).  The first three rest *)
(* on each other and on how the file ends: a partial line is garbage, and  *)
(* garbage has the file rewritten before anything else is written at its   *)
(* end (Torn), and a line without newline is left by a power cut, or by a  *)
(* failed write after which the file is rewritten (Clean).  The last       *)
(* counts lines: an append, cut short or not, adds no more lines than the  *)
(* queue lacks in its file (Sized).                                        *)
(*                                                                         *)
(* The token (AgentToken).  A rotation locks no machine out: for any       *)
(* number of tokens issued and of requests under way.  NotLockedOut is not *)
(* inductive.  The only step that makes a token useless without            *)
(* withdrawing it is the promotion of the replacement, and that it does    *)
(* not cut off the agent rests on the order in which tokens come: a        *)
(* replacement is the last one issued (PendIsLast), and the agent goes     *)
(* from a token to later ones only (Forward), so that once a request was   *)
(* made with the replacement the agent holds it (Asking).                  *)
(***************************************************************************)
EXTENDS AgentQueue, AgentToken, FiniteSetTheorems, TLAPS

-----------------------------------------------------------------------------
(* The queue.                                                              *)

\* The types, but for the size of the queue.
Typed ==
    /\ held \subseteq 1..made /\ disk \subseteq held
    /\ dropped \subseteq 1..made /\ dropped \cap held = {}
    /\ stale \in BOOLEAN
    /\ file \in Files /\ file.lines \subseteq 1..made
    /\ pc \in {"idle", "send", "sending", "taken", "sync", "leaving", "down"}
    /\ batch \subseteq held /\ (pc \notin {"sending", "taken"} => batch = {})
    /\ made \in Nat
    /\ answered \cup owed \subseteq 1..made
    /\ {hidden, unclean, joined} \subseteq BOOLEAN

Torn == file.tail = "part" => file.garbage > 0

\* What is owed is in the file, too, while the agent runs.
Kept == ~joined => owed \subseteq file.lines /\ (pc # "down" => owed \subseteq held)

\* Unless the file is to be rewritten, a held reading is in it as disk says, even
\* if the file has lines that no counter knows of.
Known ==
    pc # "down" /\ ~stale =>
        /\ file.lines \cap held \subseteq disk
        /\ ~joined => disk \subseteq file.lines

\* As long as every stop has ended with a successful sync.
Clean ==
    ~unclean =>
        /\ ~joined
        /\ file.tail # "newline" => pc # "down" /\ stale
        /\ held \cap answered = {}
        /\ pc = "down" \/ ~stale => file.lines \cap answered = {}

QueueInv == Typed /\ FileMatches /\ Torn /\ Kept /\ Known /\ Clean

-----------------------------------------------------------------------------
(* What a write does to the file.                                          *)

\* The newest and the oldest of a set are among it.
LEMMA SomeOfThem ==
    \A S, n : Newest(S, n) \subseteq S /\ Oldest(S, n) \subseteq S
BY DEF Newest, Oldest

\* A file with lines and garbage, and their number.
LEMMA UnendedFinite ==
    ASSUME NEW f \in Files, NEW k \in Nat, f.lines \subseteq 1..k
    PROVE  Unended(f) \subseteq f.lines /\ Cardinality(Unended(f)) \in Nat
<1>1. Unended(f) \subseteq f.lines
  BY SomeOfThem DEF Unended
<1>2. IsFiniteSet(1..k)
  BY FS_Interval
<1>3. IsFiniteSet(Unended(f))
  BY <1>1, <1>2, FS_Subset
<1> QED
  BY <1>1, <1>3, FS_CardinalityType

\* Lines that are written whole.
LEMMA Written ==
    ASSUME NEW f \in Files, NEW k \in Nat, f.lines \subseteq 1..k, NEW ls \in SUBSET (1..k)
    PROVE  /\ WithLines(f, ls) \in Files
           /\ WithLines(f, ls).lines \subseteq f.lines \cup ls
           /\ f.tail # "whole" => f.lines \subseteq WithLines(f, ls).lines
           /\ f.tail = "newline" => /\ WithLines(f, ls).lines = f.lines \cup ls
                                    /\ WithLines(f, ls).garbage = f.garbage
           /\ ls # {} => WithLines(f, ls).tail = "newline"
           /\ ls = {} => WithLines(f, ls) = f
<1>1. /\ f = [lines |-> f.lines, garbage |-> f.garbage, tail |-> f.tail]
      /\ f.lines \in SUBSET Nat /\ f.garbage \in Nat /\ f.tail \in Tails
  BY DEF Files
<1>2. Unended(f) \subseteq f.lines /\ Cardinality(Unended(f)) \in Nat
  BY UnendedFinite
<1>3. f.tail # "whole" => Unended(f) = {}
  BY DEF Unended
<1>4. CASE ls = {}
  BY <1>4 DEF WithLines
<1>5. CASE ls # {} /\ f.tail = "newline"
  <2>1. WithLines(f, ls) = [f EXCEPT !.lines = @ \cup ls]
    BY <1>5 DEF WithLines
  <2>2. [f EXCEPT !.lines = @ \cup ls] = [lines |-> f.lines \cup ls, garbage |-> f.garbage, tail |-> f.tail]
    BY <1>1
  <2> QED
    BY <1>1, <1>5, <2>1, <2>2 DEF Files, Tails
<1>6. CASE ls # {} /\ f.tail # "newline"
  <2> DEFINE l == (f.lines \ Unended(f)) \cup (ls \ Oldest(ls, 1))
             g == f.garbage + Cardinality(Unended(f))
  <2>1. WithLines(f, ls) = [lines |-> l, garbage |-> g, tail |-> "newline"]
    BY <1>6 DEF WithLines
  <2>2. l \in SUBSET Nat /\ g \in Nat /\ l \subseteq f.lines \cup ls
    BY <1>1, <1>2
  <2>3. f.tail # "whole" => f.lines \subseteq l
    BY <1>3
  <2> HIDE DEF l, g
  <2>4. WithLines(f, ls) \in Files /\ WithLines(f, ls).lines = l /\ WithLines(f, ls).tail = "newline"
    BY <2>1, <2>2 DEF Files, Tails
  <2> QED
    BY <1>6, <2>2, <2>3, <2>4
<1> QED
  BY <1>4, <1>5, <1>6

\* And a part of one more, or all of it but the newline.
LEMMA PartWritten ==
    ASSUME NEW f \in Files, NEW k \in Nat, f.lines \subseteq 1..k, NEW r \in SUBSET (1..k)
    PROVE  /\ WithPart(f) \in Files /\ WithWhole(f, r) \in Files
           /\ WithPart(f).lines \subseteq f.lines /\ WithWhole(f, r).lines \subseteq f.lines \cup r
           /\ f.tail # "whole" => f.lines \subseteq WithPart(f).lines /\ f.lines \subseteq WithWhole(f, r).lines
           /\ (f.tail = "part" => f.garbage > 0) =>
                /\ WithPart(f).tail = "part" => WithPart(f).garbage > 0
                /\ WithWhole(f, r).tail = "part" => WithWhole(f, r).garbage > 0
<1>1. /\ f = [lines |-> f.lines, garbage |-> f.garbage, tail |-> f.tail]
      /\ f.lines \in SUBSET Nat /\ f.garbage \in Nat /\ f.tail \in Tails
  BY DEF Files
<1>2. Unended(f) \subseteq f.lines
  BY UnendedFinite
<1>3. f.tail # "whole" => Unended(f) = {}
  BY DEF Unended
<1>4. /\ WithPart(f) \in Files /\ WithPart(f).lines \subseteq f.lines
      /\ f.tail # "whole" => f.lines \subseteq WithPart(f).lines
      /\ (f.tail = "part" => f.garbage > 0) => WithPart(f).garbage > 0
  BY <1>1, <1>2, <1>3 DEF WithPart, Files, Tails
<1>5. CASE f.tail = "newline"
  <2> DEFINE l == f.lines \cup r
             w == [f EXCEPT !.lines = l, !.tail = "whole"]
  <2>1. WithWhole(f, r) = w
    BY <1>5 DEF WithWhole
  <2>l. l \in SUBSET Nat /\ l = f.lines \cup r
    BY <1>1
  <2> HIDE DEF l
  <2>2. w \in Files /\ w.lines = f.lines \cup r /\ w.tail = "whole"
    BY <2>l DEF Files, Tails
  <2> HIDE DEF w
  <2> QED
    BY <1>4, <2>1, <2>2
<1>6. CASE f.tail # "newline"
  BY <1>4, <1>6 DEF WithWhole
<1> QED
  BY <1>4, <1>5, <1>6

\* What an append that was cut short may have left.
LEMMA ShortWritten ==
    ASSUME NEW f \in Files, NEW k \in Nat, f.lines \subseteq 1..k, NEW ls \in SUBSET (1..k),
           f.tail = "part" => f.garbage > 0, NEW g \in CutShort(f, ls)
    PROVE  /\ g \in Files /\ g.lines \subseteq 1..k
           /\ f.tail # "whole" => f.lines \subseteq g.lines
           /\ g.tail = "part" => g.garbage > 0
<1>0. CASE g = WithLines(f, ls)
  BY <1>0, Written
<1> SUFFICES ASSUME g # WithLines(f, ls)
             PROVE  /\ g \in Files /\ g.lines \subseteq 1..k
                    /\ f.tail # "whole" => f.lines \subseteq g.lines
                    /\ g.tail = "part" => g.garbage > 0
  BY <1>0
<1>1. PICK n \in 0..Cardinality(ls) - 1 :
        LET h == WithLines(f, Oldest(ls, n))
            next == Oldest(ls \ Oldest(ls, n), 1)
        IN  g \in {h, WithPart(h), WithWhole(h, next)}
  BY DEF CutShort
<1> DEFINE h == WithLines(f, Oldest(ls, n))
           next == Oldest(ls \ Oldest(ls, n), 1)
<1>2. Oldest(ls, n) \in SUBSET (1..k) /\ next \in SUBSET (1..k)
  BY SomeOfThem
<1>3. /\ h \in Files /\ h.lines \subseteq 1..k
      /\ f.tail # "whole" => f.lines \subseteq h.lines /\ h.tail # "whole"
      /\ h.tail = "part" => h.garbage > 0
  BY <1>2, Written
<1>4. g \in {h, WithPart(h), WithWhole(h, next)}
  BY <1>1
<1> HIDE DEF h, next
<1> QED
  BY <1>2, <1>3, <1>4, PartWritten

-----------------------------------------------------------------------------
(* The steps.                                                              *)

\* What holds of the file when it may be added to.
LEMMA AddedTo ==
    ASSUME QueueInv, Syncing, MayAppend
    PROVE  /\ ~stale /\ held # {} /\ held \ disk # {} /\ pc # "down"
           /\ ~joined => disk \subseteq file.lines
           /\ ~joined /\ ~hidden => file.lines = disk \cup dropped /\ file.garbage = 0
           /\ ~unclean => ~joined /\ file.tail = "newline" /\ file.lines \cap answered = {}
           /\ held \ disk \in SUBSET (1..made)
<1>1. /\ ~stale /\ held # {} /\ held \ disk # {} /\ pc # "down"
      /\ held \ disk \in SUBSET (1..made)
  BY DEF MayAppend, MustRewrite, Syncing, QueueInv, Typed
<1>2. /\ ~joined => disk \subseteq file.lines
      /\ ~joined /\ ~hidden => file.lines = disk \cup dropped /\ file.garbage = 0
  BY <1>1 DEF QueueInv, FileMatches, Known
<1>3. file.tail \in Tails
  BY DEF QueueInv, Typed, Files
<1> QED
  BY <1>1, <1>2, <1>3 DEF QueueInv, Clean, Tails

\* A step that moves the loop alone.
LEMMA LoopMoves ==
    ASSUME QueueInv, UNCHANGED <<spool, file, hidden, past, joined>>, made' = made,
           pc' \in {"idle", "send", "sending", "taken", "sync", "leaving"}, pc # "down",
           unclean' = unclean, batch' \subseteq held,
           pc' \notin {"sending", "taken"} => batch' = {}
    PROVE  QueueInv'
BY DEF QueueInv, Typed, FileMatches, Torn, Kept, Known, Clean, spool, past

\* What is added is in nobody's file; what it pushes out of the queue is, or is not.
LEMMA QueueInvAdds ==
    ASSUME QueueInv, Add
    PROVE  QueueInv'
<1> DEFINE all == held \cup {made'}
           out == all \ held'
<1>1. /\ made' = made + 1 /\ held' \subseteq all /\ dropped' = dropped \cup (out \cap disk)
      /\ disk' = disk \ out /\ owed' = owed \ out /\ pc = "idle"
      /\ pc' \in {"idle", "send", "sync"} /\ UNCHANGED <<stale, file, batch, hidden, answered, unclean, joined>>
  BY SomeOfThem DEF Add
<1>2. made \in Nat /\ made' \in Nat /\ 1..made \subseteq 1..made' /\ made' \in 1..made' /\ made' \notin 1..made
  BY <1>1 DEF QueueInv, Typed
<1>3. Typed /\ FileMatches /\ Torn /\ Kept /\ Known /\ Clean
  BY DEF QueueInv
<1> HIDE DEF all, out
<1>4. all \subseteq 1..made' /\ all = held \cup {made'} /\ out = all \ held'
  BY <1>2, <1>3 DEF Typed, all, out
<1>5. dropped' \cap held' = {}
  BY <1>1, <1>2, <1>3, <1>4 DEF Typed
<1>6. Typed'
  BY <1>1, <1>2, <1>3, <1>4, <1>5 DEF Typed
<1>7. FileMatches' /\ Torn'
  BY <1>1, <1>3 DEF FileMatches, Torn
<1>8. Kept' /\ Known'
  BY <1>1, <1>2, <1>3, <1>4 DEF Kept, Known, Typed
<1>9. Clean'
  BY <1>1, <1>2, <1>3, <1>4 DEF Typed, Clean
<1> QED
  BY <1>6, <1>7, <1>8, <1>9 DEF QueueInv

\* Readings that leave are held no more, and the file that has one is rewritten.
LEMMA QueueInvLeaves ==
    ASSUME QueueInv, pc # "down", Leave(batch),
           answered' = answered \/ answered' = answered \cup batch
    PROVE  QueueInv'
<1>1. /\ held' = held \ batch /\ disk' = disk \ batch /\ owed' = owed \ batch /\ batch' = {}
      /\ stale' = (stale \/ disk \cap batch # {}) /\ pc' \in {"send", "sync"}
      /\ UNCHANGED <<dropped, file, made, hidden, unclean, joined>>
  BY DEF Leave
<1>2. Typed /\ FileMatches /\ Torn /\ Kept /\ Known /\ Clean
  BY DEF QueueInv
<1>3. ~stale' => ~stale /\ disk' = disk
  BY <1>1
<1>4. Typed'
  BY <1>1, <1>2 DEF Typed
<1>5. FileMatches' /\ Torn'
  BY <1>1, <1>2, <1>3 DEF FileMatches, Torn
<1>6. Kept' /\ Known'
  BY <1>1, <1>2, <1>3 DEF Kept, Known
<1>7. Clean'
  BY <1>1, <1>2 DEF Typed, Known, Clean
<1> QED
  BY <1>4, <1>5, <1>6, <1>7 DEF QueueInv

\* A sync that succeeds: the file is what is held, and the counters say so.
LEMMA QueueInvSyncs ==
    ASSUME QueueInv, Sync
    PROVE  QueueInv'
<1>0. Typed /\ FileMatches /\ Torn /\ Kept /\ Known /\ Clean /\ stale' \in BOOLEAN /\ pc # "down"
  BY DEF QueueInv, Typed, Sync, Remove, Rewrite, Replaced, Append, NothingToSync, spool, Syncing
<1>1. ASSUME Replaced, AfterSync(TRUE), UNCHANGED <<held, batch, made, answered, joined>>, Syncing
      PROVE  QueueInv'
  <2> DEFINE f == [NoFile EXCEPT !.lines = held]
  <2>1. f \in Files /\ f.lines = held /\ f.garbage = 0 /\ f.tail = "newline"
    BY <1>0 DEF NoFile, Files, Tails, Typed
  <2>2. /\ file' = f /\ disk' = held /\ dropped' = {} /\ ~stale' /\ owed' = owed \cup held
        /\ pc' \in {"idle", "down"} /\ unclean' = unclean /\ pc \in {"sync", "leaving"}
        /\ hidden' = FALSE
    BY <1>1, <1>0 DEF Replaced, AfterSync, Syncing, Typed
  <2> HIDE DEF f
  <2>3. Typed'
    BY <1>0, <1>1, <2>1, <2>2 DEF Typed
  <2>4. FileMatches' /\ Torn'
    BY <2>1, <2>2 DEF FileMatches, Torn
  <2>5. Kept' /\ Known'
    BY <1>0, <1>1, <2>1, <2>2 DEF Kept, Known
  <2>6. Clean'
    BY <1>0, <1>1, <2>1, <2>2 DEF Clean
  <2> QED
    BY <2>3, <2>4, <2>5, <2>6 DEF QueueInv
<1>2. ASSUME Append PROVE QueueInv'
  <2> DEFINE ls == held \ disk
             f == WithLines(file, ls)
  <2>1. /\ ~stale /\ ls # {} /\ ls \in SUBSET (1..made) /\ pc \in {"sync", "leaving"}
        /\ ~joined => disk \subseteq file.lines
        /\ ~joined /\ ~hidden => file.lines = disk \cup dropped /\ file.garbage = 0
        /\ ~unclean => ~joined /\ file.tail = "newline" /\ file.lines \cap answered = {}
    BY <1>2, AddedTo DEF Append, Syncing
  <2>2. /\ f \in Files /\ f.lines \subseteq file.lines \cup ls /\ f.tail = "newline"
        /\ file.tail = "newline" => f.lines = file.lines \cup ls /\ f.garbage = file.garbage
    BY <1>0, <2>1, Written DEF Typed
  <2>3. /\ file' = f /\ disk' = held /\ owed' = owed \cup held /\ pc' \in {"idle", "down"}
        /\ unclean' = unclean /\ UNCHANGED <<held, dropped, stale, batch, made, hidden, answered>>
        /\ joined' = (joined \/ (file.tail # "newline" /\ f # file)) /\ joined' \in BOOLEAN
    BY <1>0, <1>2 DEF Append, AfterSync, Syncing, Joins, Typed
  <2> HIDE DEF f
  <2>4. f # file \/ file.tail = "newline"
    BY <2>2
  <2>5. ~joined' => ~joined /\ file.tail = "newline"
    BY <2>3, <2>4
  <2>6. Typed'
    BY <1>0, <2>1, <2>2, <2>3 DEF Typed
  <2>7. FileMatches' /\ Torn'
    BY <1>0, <2>1, <2>2, <2>3, <2>5 DEF FileMatches, Torn, Typed
  <2>8. Kept' /\ Known'
    BY <1>0, <2>1, <2>2, <2>3, <2>5 DEF Kept, Known, Typed
  <2>9. Clean'
    BY <1>0, <2>1, <2>2, <2>3 DEF Clean, Typed
  <2> QED
    BY <2>6, <2>7, <2>8, <2>9 DEF QueueInv
<1>3. ASSUME NothingToSync PROVE QueueInv'
  <2>1. /\ pc \in {"sync", "leaving"} /\ pc' \in {"idle", "down"} /\ unclean' = unclean
        /\ UNCHANGED <<held, disk, dropped, stale, file, batch, made, hidden, answered, owed, joined>>
        /\ held = {} => disk = {} /\ dropped = {} /\ ~stale
        /\ held # {} => ~stale
    BY <1>0, <1>3 DEF NothingToSync, AfterSync, Syncing, spool, past, MustRewrite, Typed
  <2>2. Typed'
    BY <1>0, <2>1 DEF Typed
  <2>3. FileMatches' /\ Torn' /\ Kept' /\ Known'
    BY <1>0, <2>1 DEF FileMatches, Torn, Kept, Known
  <2>5. Clean'
    BY <1>0, <2>1 DEF Clean
  <2> QED
    BY <2>2, <2>3, <2>5 DEF QueueInv
<1> QED
  BY <1>1, <1>2, <1>3 DEF Sync, Remove, Rewrite

\* A write that fails, or is cut off: the file keeps what it had, unless it goes on
\* after a line without its newline.
LEMMA QueueInvFails ==
    ASSUME QueueInv, SyncFails
    PROVE  QueueInv'
<1>0. Typed /\ FileMatches /\ Torn /\ Kept /\ Known /\ Clean
  BY DEF QueueInv
<1>1. CASE RewriteFails
  <2>1. /\ pc \in {"sync", "leaving"} /\ pc' \in {"idle", "down"} /\ (unclean => unclean')
        /\ unclean' \in BOOLEAN /\ (pc' = "down" => unclean')
        /\ UNCHANGED <<held, disk, dropped, stale, file, batch, made, hidden, answered, owed, joined>>
    BY <1>0, <1>1 DEF RewriteFails, AfterSync, Syncing, spool, past, Typed
  <2>2. Typed'
    BY <1>0, <2>1 DEF Typed
  <2>3. FileMatches' /\ Torn' /\ Kept' /\ Known'
    BY <1>0, <2>1 DEF FileMatches, Torn, Kept, Known
  <2>4. Clean'
    BY <1>0, <2>1 DEF Clean
  <2> QED
    BY <2>2, <2>3, <2>4 DEF QueueInv
<1>2. CASE AppendFails
  <2>1. /\ pc \in {"sync", "leaving"} /\ pc' \in {"idle", "down"} /\ (unclean => unclean')
        /\ unclean' \in BOOLEAN /\ (pc' = "down" => unclean') /\ stale'
        /\ UNCHANGED <<held, disk, dropped, batch, made, hidden, answered, owed>>
        /\ file' \in {file} \cup CutShort(file, held \ disk)
        /\ joined' = (joined \/ (file.tail # "newline" /\ file' # file)) /\ joined' \in BOOLEAN
        /\ stale' \in BOOLEAN
    BY <1>0, <1>2 DEF AppendFails, AfterSync, Syncing, past, Typed, Joins
  <2>2. ~unclean => ~joined /\ file.tail = "newline"
    BY <1>2, AddedTo DEF AppendFails
  <2>3. /\ file' \in Files /\ file'.lines \subseteq 1..made
        /\ file' = file \/ (file.tail # "whole" => file.lines \subseteq file'.lines)
        /\ file'.tail = "part" => file'.garbage > 0
    <3>1. held \ disk \in SUBSET (1..made)
      BY <1>0 DEF Typed
    <3> QED
      BY <1>0, <2>1, <3>1, ShortWritten DEF Typed, Torn
  <2>4. Typed'
    BY <1>0, <2>1, <2>3 DEF Typed
  <2>5. FileMatches' /\ Torn'
    BY <2>1, <2>3 DEF FileMatches, Torn
  <2>6. Kept' /\ Known'
    BY <1>0, <2>1, <2>3 DEF Kept, Known
  <2>7. Clean'
    BY <1>0, <2>1, <2>2 DEF Clean
  <2> QED
    BY <2>4, <2>5, <2>6, <2>7 DEF QueueInv
<1> QED
  BY <1>1, <1>2 DEF SyncFails

\* A crash, in the middle of an append perhaps: a whole line is never lost to it.
LEMMA QueueInvCrashes ==
    ASSUME QueueInv, Crash
    PROVE  QueueInv'
<1>0. Typed /\ FileMatches /\ Torn /\ Kept /\ Known /\ Clean
  BY DEF QueueInv
<1>1. /\ pc # "down" /\ pc' = "down" /\ unclean' = TRUE /\ stale' = FALSE
      /\ held' = {} /\ disk' = {} /\ dropped' = {} /\ batch' = {}
      /\ UNCHANGED <<made, hidden, answered, owed>>
      /\ file' \in {file} \cup CutShort(file, held \ disk)
      /\ joined' = (joined \/ (file.tail # "newline" /\ file' # file)) /\ joined' \in BOOLEAN
  BY <1>0 DEF Crash, Joins, past, Typed
<1>2. /\ file' \in Files /\ file'.lines \subseteq 1..made
      /\ file' = file \/ (file.tail # "whole" => file.lines \subseteq file'.lines)
      /\ file'.tail = "part" => file'.garbage > 0
  <2>1. held \ disk \in SUBSET (1..made)
    BY <1>0 DEF Typed
  <2> QED
    BY <1>0, <1>1, <2>1, ShortWritten DEF Typed, Torn
<1>3. Typed'
  BY <1>0, <1>1, <1>2 DEF Typed
<1>4. FileMatches' /\ Torn' /\ Known' /\ Clean'
  BY <1>1, <1>2 DEF FileMatches, Torn, Known, Clean
<1>5. Kept'
  BY <1>0, <1>1, <1>2 DEF Kept
<1> QED
  BY <1>3, <1>4, <1>5 DEF QueueInv

\* A start: what load does not take over unread is marked for rewriting.
LEMMA QueueInvLoads ==
    ASSUME QueueInv, Load
    PROVE  QueueInv'
<1>0. Typed /\ FileMatches /\ Torn /\ Kept /\ Known /\ Clean
  BY DEF QueueInv
<1>1. PICK old \in 0..made, n \in 0..Cardinality(file.lines), readable \in BOOLEAN :
        Loaded(old, n) /\ stale' = (~readable \/ held' # file.lines \/ file.garbage > 0)
        /\ hidden' = (hidden /\ stale')
  BY DEF Load
<1>2. /\ pc = "down" /\ held' \subseteq file.lines /\ owed' = owed \ (file.lines \ held')
      /\ disk' = held' /\ dropped' = {} /\ pc' = "idle"
      /\ UNCHANGED <<file, batch, made, answered, unclean, joined>>
  <2>1. held' = Newest({r \in Oldest(file.lines, n) : r > old}, QMax)
    BY <1>1 DEF Loaded
  <2>2. held' \subseteq file.lines
    BY <2>1, SomeOfThem
  <2> QED
    BY <1>1, <2>2 DEF Loaded
<1>3. file.garbage \in Nat /\ {stale', hidden'} \subseteq BOOLEAN /\ (~stale' => held' = file.lines /\ file.garbage = 0)
  <2>1. file.garbage \in Nat
    BY <1>0 DEF Typed, Files
  <2>2. ~stale' => held' = file.lines /\ ~(file.garbage > 0)
    BY <1>1
  <2>3. {stale', hidden'} \subseteq BOOLEAN
    BY <1>1
  <2> QED
    BY <2>1, <2>2, <2>3
<1>4. Typed'
  BY <1>0, <1>2, <1>3 DEF Typed
<1>5. FileMatches' /\ Torn'
  BY <1>0, <1>2, <1>3 DEF FileMatches, Torn
<1>6. Kept' /\ Known'
  BY <1>0, <1>2, <1>3 DEF Kept, Known
<1>7. Clean'
  BY <1>0, <1>2 DEF Clean
<1> QED
  BY <1>4, <1>5, <1>6, <1>7 DEF QueueInv

\* A start that cannot open the file knows nothing of it.
LEMMA QueueInvMisses ==
    ASSUME QueueInv, LoadFails
    PROVE  QueueInv'
<1>0. Typed /\ FileMatches /\ Torn /\ Kept /\ Known /\ Clean
  BY DEF QueueInv
<1>1. /\ pc = "down" /\ pc' = "idle" /\ held' = {} /\ disk' = {} /\ dropped' = {}
      /\ stale' = FALSE /\ hidden' = TRUE /\ owed' = owed \ file.lines
      /\ UNCHANGED <<file, batch, made, answered, unclean, joined>>
  BY DEF LoadFails
<1>2. Typed'
  BY <1>0, <1>1 DEF Typed
<1>3. FileMatches' /\ Torn' /\ Kept' /\ Known'
  BY <1>0, <1>1 DEF FileMatches, Torn, Kept, Known
<1>4. Clean'
  BY <1>0, <1>1 DEF Clean
<1> QED
  BY <1>2, <1>3, <1>4 DEF QueueInv

\* The invariant holds at first.
LEMMA QueueInvInit == QueueInit => QueueInv
<1> SUFFICES ASSUME QueueInit PROVE QueueInv
  OBVIOUS
<1>1. file \in Files /\ file.lines = {} /\ file.garbage = 0 /\ file.tail = "newline"
  BY DEF QueueInit, NoFile, Files, Tails
<1>2. stale \in BOOLEAN /\ {hidden, unclean, joined} \subseteq BOOLEAN
  BY DEF QueueInit
<1>3. Typed
  BY <1>1, <1>2 DEF QueueInit, Typed
<1> QED
  BY <1>1, <1>3 DEF QueueInit, QueueInv, FileMatches, Torn, Kept, Known, Clean

\* Every step keeps the invariant.
LEMMA QueueInvNext == QueueInv /\ [QueueNext]_queueVars => QueueInv'
<1> SUFFICES ASSUME QueueInv, [QueueNext]_queueVars PROVE QueueInv'
  OBVIOUS
<1>0. batch \subseteq held /\ (pc \notin {"sending", "taken"} => batch = {})
  BY DEF QueueInv, Typed
<1>1. CASE Attempt \/ Wait \/ SendNothing
  BY <1>0, <1>1, LoopMoves DEF Attempt, Wait, SendNothing
<1>2. CASE Send
  BY <1>2, LoopMoves, SomeOfThem DEF Send
<1>3. CASE Taken \/ TryLater \/ Stop
  BY <1>0, <1>3, LoopMoves DEF Taken, TryLater, Stop
<1>4. CASE Delivered \/ RefusedForGood
  BY <1>4, QueueInvLeaves DEF Delivered, RefusedForGood
<1>5. CASE UNCHANGED queueVars
  BY <1>5 DEF queueVars, spool, past, QueueInv, Typed, FileMatches, Torn, Kept, Known, Clean
<1> QED
  BY <1>1, <1>2, <1>3, <1>4, <1>5, QueueInvAdds, QueueInvSyncs, QueueInvFails, QueueInvCrashes,
     QueueInvLoads, QueueInvMisses
  DEF QueueNext, Answer

\* The inductive invariant holds in every state the agent can reach.
THEOREM QueueInvariant == QueueSpec => []QueueInv
<1>1. QueueInit => QueueInv
  BY QueueInvInit
<1>2. QueueInv /\ [QueueNext]_queueVars => QueueInv'
  BY QueueInvNext
<1> QED
  BY <1>1, <1>2, PTL DEF QueueSpec

\* The counters of the queue tell the truth about its file (spool.go sync), unless
\* it is marked for rewriting, or a start could not open it and it has not been
\* replaced or read whole since, or a reading went onto the end of another line.
THEOREM QueueFileMatches == QueueSpec => []FileMatches
<1>1. QueueInv => FileMatches
  BY DEF QueueInv
<1> QED
  BY <1>1, QueueInvariant, PTL

\* What a successful sync left in the file is held, or there to be read, until it is
\* delivered or given up, or a start could not read as far as its line, unless a
\* line without newline was added to (spool.go load).
THEOREM QueueKeeps == QueueSpec => []DurableUnlessJoined
<1>1. QueueInv => DurableUnlessJoined
  BY DEF QueueInv, Kept, DurableUnlessJoined, Durable
<1> QED
  BY <1>1, QueueInvariant, PTL

\* As long as every stop ends with a successful sync, no reading that GWatch is known
\* to have is held again (spool.go delivered).
THEOREM QueueSendsOnce == QueueSpec => []NotSentTwice
<1>1. QueueInv => NotSentTwice
  BY DEF QueueInv, Clean, NotSentTwice
<1> QED
  BY <1>1, QueueInvariant, PTL

-----------------------------------------------------------------------------
(* The sizes of the queue and of its file.                                 *)

\* The lines of a file, those that do not parse included.
Lines(f) == Cardinality(f.lines) + f.garbage

\* What bounds them: the file has no more lines than the queue knows of, unless
\* it is to be rewritten, or was not opened.
Sized ==
    /\ made <= QReadings /\ crashes \in 0..QCrashes
    /\ Cardinality(held) <= QMax
    /\ FileBounded
    /\ pc # "down" /\ ~stale /\ ~hidden => Lines(file) <= Cardinality(disk) + Cardinality(dropped)

\* A set of numbers has a least one.
LEMMA LeastOf ==
    ASSUME NEW S \in SUBSET Nat, S # {}
    PROVE  \E m \in S : \A x \in S : m <= x
<1>1. \E m \in S : \A x \in S : ~(<<x, m>> \in OpToRel(<, Nat))
  BY NatLessThanWellFounded, WFMin
<1>2. PICK m \in S : \A x \in S : ~(<<x, m>> \in OpToRel(<, Nat))
  BY <1>1
<1>3. \A x \in S : ~(x < m)
  BY <1>2 DEF OpToRel
<1> QED
  BY <1>3

\* One up to a bound has a greatest one.
LEMMA GreatestOf ==
    ASSUME NEW k \in Nat, NEW S \in SUBSET (1..k), S # {}
    PROVE  \E m \in S : \A x \in S : x <= m
<1> DEFINE T == {k - x : x \in S}
<1>1. T \in SUBSET Nat /\ T # {}
  <2>1. \A x \in S : k - x \in Nat
    OBVIOUS
  <2> QED
    BY <2>1
<1>2. PICK d \in T : \A y \in T : d <= y
  BY <1>1, LeastOf
<1>3. PICK m \in S : d = k - m
  BY <1>2
<1>4. \A x \in S : k - m <= k - x
  BY <1>2, <1>3
<1> QED
  BY <1>4

\* The n newest, or oldest, of some readings are at most n: all but one of
\* them are newer, or older, than that one.
LEMMA AtMost ==
    ASSUME NEW k \in Nat, NEW S \in SUBSET (1..k), NEW n \in Nat
    PROVE  /\ IsFiniteSet(S)
           /\ Cardinality(Newest(S, n)) <= n
           /\ Cardinality(Oldest(S, n)) <= n
<1>1. IsFiniteSet(1..k)
  BY FS_Interval
<1>2. \A T \in SUBSET S : IsFiniteSet(T) /\ Cardinality(T) \in Nat
  BY <1>1, FS_Subset, FS_CardinalityType
<1>3. ASSUME NEW T \in SUBSET S, NEW m \in T, NEW U \in SUBSET S,
             T \ {m} \subseteq U, Cardinality(U) < n
      PROVE  Cardinality(T) <= n
  <2>1. Cardinality(T \ {m}) = Cardinality(T) - 1
    BY <1>2, FS_RemoveElement
  <2>2. Cardinality(T \ {m}) <= Cardinality(U)
    BY <1>2, <1>3, FS_Subset
  <2> QED
    BY <1>2, <1>3, <2>1, <2>2
<1>4. Cardinality({}) = 0
  BY FS_EmptySet
<1>5. Cardinality(Newest(S, n)) <= n
  <2> DEFINE T == Newest(S, n)
  <2>1. T \in SUBSET S /\ T \in SUBSET Nat
    <3>1. T \subseteq S
      BY SomeOfThem
    <3>2. 1..k \subseteq Nat
      OBVIOUS
    <3> HIDE DEF T
    <3> QED
      BY <3>1, <3>2
  <2>2. CASE T = {}
    BY <1>4, <2>2
  <2>3. CASE T # {}
    <3>1. PICK m \in T : \A x \in T : m <= x
      BY <2>1, <2>3, LeastOf
    <3> DEFINE U == {y \in S : y > m}
    <3>2. Cardinality(U) < n
      BY DEF Newest
    <3>3. U \in SUBSET S /\ T \ {m} \subseteq U
      BY <2>1, <3>1
    <3>4. Cardinality(T) <= n
      <4> HIDE DEF T, U
      <4> QED
        BY <1>3, <2>1, <3>1, <3>2, <3>3
    <3> QED
      BY <3>4
  <2> QED
    BY <2>2, <2>3
<1>6. Cardinality(Oldest(S, n)) <= n
  <2> DEFINE T == Oldest(S, n)
  <2>1. T \in SUBSET S /\ T \in SUBSET (1..k)
    <3>1. T \subseteq S
      BY SomeOfThem
    <3> QED
      BY <3>1
  <2>2. CASE T = {}
    BY <1>4, <2>2
  <2>3. CASE T # {}
    <3>1. PICK m \in T : \A x \in T : x <= m
      BY <2>1, <2>3, GreatestOf
    <3> DEFINE U == {y \in S : y < m}
    <3>2. Cardinality(U) < n
      BY DEF Oldest
    <3>3. U \in SUBSET S /\ T \ {m} \subseteq U
      BY <2>1, <3>1
    <3>4. Cardinality(T) <= n
      <4> HIDE DEF T, U
      <4> QED
        BY <1>3, <2>1, <3>1, <3>2, <3>3
    <3> QED
      BY <3>4
  <2> QED
    BY <2>2, <2>3
<1> QED
  BY <1>2, <1>5, <1>6

\* Two sets of readings together, and one without another.
LEMMA Counts ==
    ASSUME NEW k \in Nat, NEW S \in SUBSET (1..k), NEW T \in SUBSET (1..k)
    PROVE  /\ Cardinality(S) \in Nat
           /\ Cardinality(S \cup T) <= Cardinality(S) + Cardinality(T)
           /\ S \cap T = {} => Cardinality(S \cup T) = Cardinality(S) + Cardinality(T)
           /\ S \subseteq T => /\ Cardinality(S) <= Cardinality(T)
                               /\ Cardinality(T \ S) = Cardinality(T) - Cardinality(S)
<1>1. IsFiniteSet(S) /\ IsFiniteSet(T)
  <2>1. IsFiniteSet(1..k)
    BY FS_Interval
  <2> QED
    BY <2>1, FS_Subset
<1>2. Cardinality(S) \in Nat /\ Cardinality(T) \in Nat /\ Cardinality(S \cap T) \in Nat
  BY <1>1, FS_CardinalityType, FS_Intersection
<1>3. Cardinality(S \cup T) = Cardinality(S) + Cardinality(T) - Cardinality(S \cap T)
  BY <1>1, FS_Union
<1>4. S \cap T = {} => Cardinality(S \cap T) = 0
  BY FS_EmptySet
<1>5. S \subseteq T => Cardinality(S) <= Cardinality(T)
  BY <1>1, FS_Subset
<1>6. S \subseteq T => Cardinality(T \ S) = Cardinality(T) - Cardinality(S)
  <2> SUFFICES ASSUME S \subseteq T PROVE Cardinality(T \ S) = Cardinality(T) - Cardinality(S)
    OBVIOUS
  <2>1. T \cap S = S
    OBVIOUS
  <2> QED
    BY <1>1, <2>1, FS_Difference
<1> QED
  BY <1>2, <1>3, <1>4, <1>5, <1>6

\* Writing lines adds at most as many, whole or not.
LEMMA WrittenCounts ==
    ASSUME NEW f \in Files, NEW k \in Nat, f.lines \subseteq 1..k, NEW ls \in SUBSET (1..k)
    PROVE  Lines(f) \in Nat /\ Lines(WithLines(f, ls)) <= Lines(f) + Cardinality(ls)
<1>1. /\ f = [lines |-> f.lines, garbage |-> f.garbage, tail |-> f.tail]
      /\ f.lines \in SUBSET (1..k) /\ f.garbage \in Nat
  BY DEF Files
<1>2. Unended(f) \subseteq f.lines /\ Cardinality(Unended(f)) \in Nat
  BY UnendedFinite
<1>3. Cardinality(f.lines) \in Nat /\ Cardinality(ls) \in Nat
  BY <1>1, Counts
<1>4. CASE ls = {}
  BY <1>1, <1>3, <1>4 DEF WithLines, Lines
<1>5. CASE ls # {} /\ f.tail = "newline"
  <2>1. WithLines(f, ls).lines = f.lines \cup ls /\ WithLines(f, ls).garbage = f.garbage
    BY <1>5, Written
  <2>2. Cardinality(f.lines \cup ls) <= Cardinality(f.lines) + Cardinality(ls)
    BY <1>1, Counts
  <2>3. Cardinality(f.lines \cup ls) \in Nat
    BY <1>1, Counts
  <2> QED
    BY <1>1, <1>3, <2>1, <2>2, <2>3 DEF Lines
<1>6. CASE ls # {} /\ f.tail # "newline"
  <2> DEFINE a == f.lines \ Unended(f)
             b == ls \ Oldest(ls, 1)
  <2>1. /\ WithLines(f, ls).lines = a \cup b
        /\ WithLines(f, ls).garbage = f.garbage + Cardinality(Unended(f))
    BY <1>6 DEF WithLines
  <2>2. a \in SUBSET (1..k) /\ b \in SUBSET (1..k) /\ Unended(f) \in SUBSET (1..k)
    BY <1>1, <1>2
  <2>3. Cardinality(a) = Cardinality(f.lines) - Cardinality(Unended(f))
    BY <1>1, <1>2, <2>2, Counts
  <2>4. Cardinality(b) <= Cardinality(ls)
    BY <2>2, Counts
  <2> HIDE DEF a, b
  <2>5. /\ Cardinality(a) \in Nat /\ Cardinality(b) \in Nat /\ Cardinality(a \cup b) \in Nat
        /\ Cardinality(a \cup b) <= Cardinality(a) + Cardinality(b)
    <3>1. a \cup b \in SUBSET (1..k)
      BY <2>2
    <3> QED
      BY <2>2, <3>1, Counts
  <2> QED
    BY <1>1, <1>2, <1>3, <2>1, <2>3, <2>4, <2>5 DEF Lines
<1> QED
  BY <1>1, <1>3, <1>4, <1>5, <1>6 DEF Lines

\* And so does writing that is cut short: with the part of a line it comes to
\* no more than was to be written.
LEMMA ShortCounts ==
    ASSUME NEW f \in Files, NEW k \in Nat, f.lines \subseteq 1..k, NEW ls \in SUBSET (1..k),
           NEW g \in CutShort(f, ls)
    PROVE  Lines(g) <= Lines(f) + Cardinality(ls)
<1>0. CASE g = WithLines(f, ls)
  BY <1>0, WrittenCounts
<1> SUFFICES ASSUME g # WithLines(f, ls) PROVE Lines(g) <= Lines(f) + Cardinality(ls)
  BY <1>0
<1>1. PICK n \in 0..Cardinality(ls) - 1 :
        LET h == WithLines(f, Oldest(ls, n))
            next == Oldest(ls \ Oldest(ls, n), 1)
        IN  g \in {h, WithPart(h), WithWhole(h, next)}
  BY DEF CutShort
<1> DEFINE o == Oldest(ls, n)
           h == WithLines(f, o)
           next == Oldest(ls \ o, 1)
<1>2. o \in SUBSET (1..k) /\ next \in SUBSET (1..k) /\ ls \ o \in SUBSET (1..k)
  BY SomeOfThem
<1>3. Cardinality(ls) \in Nat /\ n \in Nat /\ n + 1 <= Cardinality(ls)
  <2>1. Cardinality(ls) \in Nat
    BY Counts
  <2> QED
    BY <2>1
<1>4. Cardinality(o) \in Nat /\ Cardinality(o) <= n
  BY <1>2, <1>3, AtMost, Counts
<1>5. Cardinality(next) \in Nat /\ Cardinality(next) <= 1
  BY <1>2, AtMost, Counts
<1>6. h \in Files /\ h.lines \subseteq 1..k /\ Lines(h) <= Lines(f) + Cardinality(o)
  BY <1>2, Written, WrittenCounts
<1>7. g \in {h, WithPart(h), WithWhole(h, next)}
  BY <1>1
<1> HIDE DEF o, h, next
<1>8. Lines(f) \in Nat /\ Lines(h) \in Nat
  BY <1>6, WrittenCounts
<1>9. h = [lines |-> h.lines, garbage |-> h.garbage, tail |-> h.tail] /\ h.garbage \in Nat
      /\ h.lines \in SUBSET (1..k) /\ Cardinality(h.lines) \in Nat
  <2>1. h.lines \in SUBSET (1..k)
    BY <1>6
  <2> QED
    BY <1>6, <2>1, Counts DEF Files
<1>10. Lines(WithPart(h)) <= Lines(h) + 1
  <2>1. Unended(h) \subseteq h.lines /\ Cardinality(Unended(h)) \in Nat
    BY <1>6, UnendedFinite
  <2>2. h.lines \ Unended(h) \in SUBSET (1..k)
    BY <1>9
  <2>3. /\ Cardinality(h.lines \ Unended(h)) \in Nat
        /\ Cardinality(h.lines \ Unended(h)) <= Cardinality(h.lines)
    BY <1>9, <2>2, Counts
  <2> QED
    BY <1>9, <2>3 DEF WithPart, Lines
<1>11. Lines(WithWhole(h, next)) <= Lines(h) + 1
  <2>1. CASE h.tail = "newline"
    <3> DEFINE l == h.lines \cup next
    <3>1. Cardinality(l) <= Cardinality(h.lines) + Cardinality(next)
      BY <1>2, <1>9, Counts
    <3>2. Cardinality(l) \in Nat
      <4>1. l \in SUBSET (1..k)
        BY <1>2, <1>9
      <4> HIDE DEF l
      <4> QED
        BY <4>1, Counts
    <3>3. WithWhole(h, next).lines = l /\ WithWhole(h, next).garbage = h.garbage
      BY <1>9, <2>1 DEF WithWhole
    <3> HIDE DEF l
    <3> QED
      BY <1>5, <1>9, <3>1, <3>2, <3>3 DEF Lines
  <2>2. CASE h.tail # "newline"
    BY <1>10, <2>2 DEF WithWhole
  <2> QED
    BY <2>1, <2>2
<1>12. Lines(WithPart(h)) \in Nat /\ Lines(WithWhole(h, next)) \in Nat
  <2>1. /\ WithPart(h) \in Files /\ WithPart(h).lines \subseteq 1..k
        /\ WithWhole(h, next) \in Files /\ WithWhole(h, next).lines \subseteq 1..k
    BY <1>2, <1>6, PartWritten
  <2> QED
    BY <2>1, WrittenCounts
<1> QED
  BY <1>3, <1>4, <1>6, <1>7, <1>8, <1>10, <1>11, <1>12

\* The types give the sets that are counted.
LEMMA Counted ==
    ASSUME QueueInv
    PROVE  /\ made \in Nat /\ file \in Files /\ file.lines \subseteq 1..made
           /\ held \in SUBSET (1..made) /\ disk \in SUBSET (1..made) /\ dropped \in SUBSET (1..made)
           /\ held \ disk \in SUBSET (1..made)
           /\ Cardinality(held) \in Nat /\ Cardinality(disk) \in Nat /\ Cardinality(dropped) \in Nat
           /\ Cardinality(held \ disk) = Cardinality(held) - Cardinality(disk)
           /\ Lines(file) \in Nat
<1>1. /\ made \in Nat /\ file \in Files /\ file.lines \subseteq 1..made
      /\ held \in SUBSET (1..made) /\ disk \in SUBSET (1..made) /\ dropped \in SUBSET (1..made)
      /\ held \ disk \in SUBSET (1..made) /\ disk \subseteq held
  BY DEF QueueInv, Typed
<1>2. Lines(file) \in Nat
  BY <1>1, WrittenCounts
<1> QED
  BY <1>1, <1>2, Counts

\* The limits are numbers.
LEMMA Limits == QMax \in Nat /\ QMax > 0 /\ Slack \in Nat /\ QReadings \in Nat /\ QCrashes \in Nat
<1>1. QMax \in Nat /\ QMax > 0 /\ QReadings \in Nat /\ QCrashes \in Nat
  BY QueueAssumption
<1>2. QMax \div 10 \in Nat
  BY <1>1
<1> QED
  BY <1>1, <1>2 DEF Slack

\* What an append may come to, cut short or not, is within the limit.
LEMMA AppendBounded ==
    ASSUME QueueInv, Sized, Syncing, MayAppend, ~hidden
    PROVE  /\ Lines(file) + Cardinality(held \ disk) <= Cardinality(held) + Cardinality(dropped)
           /\ Cardinality(held) + Cardinality(dropped) <= QMax + Slack
<1>1. pc # "down" /\ ~stale
  BY AddedTo
<1>2. Lines(file) <= Cardinality(disk) + Cardinality(dropped) /\ Cardinality(held) <= QMax
  BY <1>1 DEF Sized
<1>3. ~(Cardinality(dropped) > Slack)
  BY DEF MayAppend, MustRewrite
<1> QED
  BY <1>2, <1>3, Counted, Limits

\* A step that changes no set the sizes are about.
LEMMA SizedStays ==
    ASSUME Sized, UNCHANGED <<spool, file, made, crashes, hidden>>, pc # "down" \/ pc' = "down"
    PROVE  Sized'
BY DEF Sized, spool, FileBounded, Lines

\* What a limit pushes out is counted as dropped, if the file has it.
LEMMA SizedAdds ==
    ASSUME QueueInv, QueueInv', Sized, Add
    PROVE  Sized'
<1> DEFINE all == held \cup {made'}
           out == all \ held'
           both == out \cap disk
<1>1. /\ held' = Newest(all, QMax) /\ dropped' = dropped \cup both /\ disk' = disk \ out
      /\ pc = "idle" /\ made < QReadings /\ made' = made + 1
      /\ UNCHANGED <<stale, file, crashes, hidden>>
  BY DEF Add
<1>2. /\ made \in Nat /\ disk \in SUBSET (1..made) /\ dropped \in SUBSET (1..made)
      /\ held \in SUBSET (1..made) /\ Lines(file) \in Nat
  BY Counted
<1>3. Cardinality(held') <= QMax
  <2>1. made' \in Nat /\ 1..made \subseteq 1..made' /\ made' \in 1..made'
    BY <1>1, <1>2
  <2>2. all \in SUBSET (1..made')
    BY <1>2, <2>1
  <2> HIDE DEF all
  <2> QED
    BY <1>1, <2>1, <2>2, AtMost, Limits
<1>4. both \in SUBSET (1..made) /\ both \subseteq disk /\ disk' = disk \ both /\ dropped \cap both = {}
  <2>1. dropped \cap held = {} /\ disk \subseteq held
    BY DEF QueueInv, Typed
  <2> QED
    BY <1>1, <1>2, <2>1
<1> HIDE DEF all, out, both
<1>5. Cardinality(dropped') = Cardinality(dropped) + Cardinality(both)
  BY <1>1, <1>2, <1>4, Counts
<1>6. Cardinality(disk') = Cardinality(disk) - Cardinality(both)
  BY <1>2, <1>4, Counts
<1>7. Cardinality(both) \in Nat /\ Cardinality(disk) \in Nat /\ Cardinality(dropped) \in Nat
  BY <1>2, <1>4, Counts
<1>8. Lines(file') = Lines(file) /\ FileBounded'
  BY <1>1 DEF Sized, FileBounded, Lines
<1>9. made' <= QReadings /\ crashes' \in 0..QCrashes
  BY <1>1, <1>2, Limits DEF Sized
<1>10. ~stale' /\ ~hidden' => Lines(file') <= Cardinality(disk') + Cardinality(dropped')
  BY <1>1, <1>2, <1>5, <1>6, <1>7, <1>8 DEF Sized
<1> QED
  BY <1>3, <1>8, <1>9, <1>10 DEF Sized

\* What leaves the queue but not the file has the file rewritten.
LEMMA SizedLeaves ==
    ASSUME QueueInv, Sized, pc # "down", Leave(batch)
    PROVE  Sized'
<1>1. /\ held' = held \ batch /\ disk' = disk \ batch
      /\ stale' = (stale \/ disk \cap batch # {}) /\ pc' \in {"send", "sync"}
      /\ UNCHANGED <<dropped, file, made, crashes, hidden>>
  BY DEF Leave
<1>2. Cardinality(held') <= QMax
  <2>1. held' \in SUBSET (1..made) /\ held' \subseteq held
    BY <1>1, Counted
  <2>2. Cardinality(held') \in Nat /\ Cardinality(held') <= Cardinality(held)
    BY <2>1, Counted, Counts
  <2> QED
    BY <2>2, Counted, Limits DEF Sized
<1>3. ~stale' => ~stale /\ disk' = disk
  BY <1>1
<1>4. FileBounded' /\ Lines(file') = Lines(file)
  BY <1>1 DEF Sized, FileBounded, Lines
<1> QED
  BY <1>1, <1>2, <1>3, <1>4 DEF Sized

\* A file that is replaced has a line for each reading held, and one that is
\* added to no more lines than the queue knows of.
LEMMA SizedSyncs ==
    ASSUME QueueInv, Sized, Sync
    PROVE  Sized'
<1>1. ASSUME Replaced, UNCHANGED <<held, made, crashes>> PROVE Sized'
  <2>1. /\ disk' = held /\ dropped' = {} /\ file' = [NoFile EXCEPT !.lines = held]
    BY <1>1 DEF Replaced
  <2>2. file'.lines = held /\ file'.garbage = 0
    BY <2>1 DEF NoFile
  <2>3. Cardinality(dropped') = 0
    BY <2>1, FS_EmptySet
  <2>4. Lines(file') = Cardinality(held)
    BY <2>2, Counted DEF Lines
  <2>5. FileBounded'
    BY <2>2, Counted, Limits DEF Sized, FileBounded
  <2> QED
    BY <1>1, <2>1, <2>3, <2>4, <2>5, Counted DEF Sized
<1>2. ASSUME Append PROVE Sized'
  <2>1. /\ Syncing /\ MayAppend /\ file' = WithLines(file, held \ disk) /\ disk' = held
        /\ UNCHANGED <<held, dropped, stale, made, crashes, hidden>>
    BY <1>2 DEF Append
  <2>2. Lines(file') <= Lines(file) + Cardinality(held \ disk)
    BY <2>1, Counted, WrittenCounts
  <2>3. Lines(file') \in Nat /\ Cardinality(held \ disk) \in Nat
    <3>1. file' \in Files /\ file'.lines \subseteq 1..made
      BY <2>1, Counted, Written
    <3> QED
      BY <3>1, Counted, Counts, WrittenCounts
  <2>4. ~hidden => /\ Lines(file') <= Cardinality(held) + Cardinality(dropped)
                   /\ Lines(file') <= QMax + Slack
    BY <2>1, <2>2, <2>3, AppendBounded, Counted, Limits
  <2>5. FileBounded'
    BY <2>1, <2>4 DEF FileBounded, Lines
  <2> QED
    BY <2>1, <2>4, <2>5 DEF Sized
<1>3. ASSUME NothingToSync PROVE Sized'
  <2>1. pc # "down"
    BY <1>3 DEF NothingToSync, Syncing
  <2> QED
    BY <1>3, <2>1, SizedStays DEF NothingToSync
<1> QED
  BY <1>1, <1>2, <1>3 DEF Sync, Remove, Rewrite

\* What a write that is cut short leaves is within the limit.
LEMMA ShortBounded ==
    ASSUME QueueInv, Sized, hidden' = hidden,
           file' \in {file} \cup (IF Syncing /\ MayAppend /\ file # NoFile
                                  THEN CutShort(file, held \ disk) ELSE {})
    PROVE  FileBounded'
<1>1. CASE file' = file
  BY <1>1 DEF Sized, FileBounded
<1>2. CASE file' # file /\ ~hidden
  <2>1. Syncing /\ MayAppend /\ file' \in CutShort(file, held \ disk)
    BY <1>2
  <2>2. Lines(file') <= Lines(file) + Cardinality(held \ disk)
    BY <2>1, Counted, ShortCounts
  <2>3. file' \in Files /\ file'.lines \subseteq 1..made
    BY <2>1, Counted, ShortWritten DEF QueueInv, Torn
  <2>4. Lines(file') \in Nat /\ Cardinality(held \ disk) \in Nat
    BY <2>3, Counted, Counts, WrittenCounts
  <2>5. Lines(file') <= QMax + Slack
    BY <1>2, <2>1, <2>2, <2>4, AppendBounded, Counted, Limits
  <2> QED
    BY <2>5 DEF FileBounded, Lines
<1>3. CASE hidden
  BY <1>3 DEF FileBounded
<1> QED
  BY <1>1, <1>2, <1>3

\* After a failed write the file is to be rewritten.
LEMMA SizedFails ==
    ASSUME QueueInv, Sized, SyncFails
    PROVE  Sized'
<1>1. CASE RewriteFails
  <2>1. pc # "down"
    BY <1>1 DEF RewriteFails, Syncing
  <2> QED
    BY <1>1, <2>1, SizedStays DEF RewriteFails
<1>2. CASE AppendFails
  <2>1. FileBounded'
    BY <1>2, ShortBounded DEF AppendFails
  <2> QED
    BY <1>2, <2>1 DEF AppendFails, Sized
<1> QED
  BY <1>1, <1>2 DEF SyncFails

\* A crash leaves a file that was within the limit.
LEMMA SizedCrashes ==
    ASSUME QueueInv, Sized, Crash
    PROVE  Sized'
<1>1. FileBounded'
  BY ShortBounded DEF Crash
<1>2. made' = made /\ crashes' = crashes + 1 /\ crashes < QCrashes /\ held' = {} /\ pc' = "down"
  BY DEF Crash
<1>3. Cardinality(held') <= QMax
  BY <1>2, FS_EmptySet, Limits
<1>4. crashes' \in 0..QCrashes
  BY <1>2, Limits DEF Sized
<1> QED
  BY <1>1, <1>2, <1>3, <1>4 DEF Sized

\* A start takes up no more than the queue may hold.
LEMMA SizedLoads ==
    ASSUME QueueInv, Sized, Load
    PROVE  Sized'
<1>1. PICK old \in 0..made, n \in 0..Cardinality(file.lines), readable \in BOOLEAN :
        Loaded(old, n) /\ stale' = (~readable \/ held' # file.lines \/ file.garbage > 0)
        /\ hidden' = (hidden /\ stale')
  BY DEF Load
<1> DEFINE young == {r \in Oldest(file.lines, n) : r > old}
<1>2. /\ held' = Newest(young, QMax) /\ disk' = held' /\ dropped' = {}
      /\ UNCHANGED <<file, made, crashes>>
  BY <1>1 DEF Loaded
<1>3. Cardinality(held') <= QMax
  <2>1. young \in SUBSET (1..made)
    BY Counted, SomeOfThem
  <2> HIDE DEF young
  <2> QED
    BY <1>2, <2>1, Counted, AtMost, Limits
<1>5. ~stale' => Lines(file') <= Cardinality(disk') + Cardinality(dropped')
  <2> SUFFICES ASSUME ~stale' PROVE Lines(file') <= Cardinality(disk') + Cardinality(dropped')
    OBVIOUS
  <2>1. file.garbage \in Nat
    BY Counted DEF Files
  <2>2. held' = file.lines /\ ~(file.garbage > 0)
    BY <1>1
  <2>3. file.garbage = 0
    BY <2>1, <2>2
  <2>4. Cardinality(dropped') = 0
    BY <1>2, FS_EmptySet
  <2>5. file.lines \in SUBSET (1..made) /\ Cardinality(file.lines) \in Nat
    BY Counted, Counts
  <2>6. disk' = file.lines /\ file' = file
    BY <1>2, <2>2
  <2>7. Lines(file') = Cardinality(file.lines)
    BY <2>3, <2>5, <2>6 DEF Lines
  <2> HIDE DEF young
  <2> QED
    BY <2>4, <2>5, <2>6, <2>7
<1>6. FileBounded'
  <2>1. CASE ~hidden
    BY <1>2, <2>1 DEF Sized, FileBounded
  <2>2. CASE stale' /\ hidden
    BY <1>1, <2>2 DEF FileBounded
  <2>3. CASE ~stale'
    <3>1. held' = file.lines /\ ~(file.garbage > 0) /\ file.garbage \in Nat
      BY <1>1, <2>3, Counted DEF Files
    <3>2. file.garbage = 0 /\ file' = file /\ Cardinality(file.lines) <= QMax
      BY <1>2, <1>3, <3>1
    <3>3. Cardinality(file.lines) \in Nat
      BY Counted, Counts
    <3> QED
      BY <3>2, <3>3, Limits DEF FileBounded
  <2> QED
    BY <1>1, <2>1, <2>2, <2>3
<1> QED
  BY <1>2, <1>3, <1>5, <1>6 DEF Sized

\* A start that cannot open the file counts nothing of it.
LEMMA SizedMisses ==
    ASSUME Sized, LoadFails
    PROVE  Sized'
<1>1. hidden' = TRUE /\ held' = {} /\ UNCHANGED <<made, crashes>>
  BY DEF LoadFails
<1>2. Cardinality(held') <= QMax
  BY <1>1, FS_EmptySet, Limits
<1> QED
  BY <1>1, <1>2 DEF Sized, FileBounded

\* Every step keeps the sizes.
LEMMA SizedNext == QueueInv /\ QueueInv' /\ Sized /\ [QueueNext]_queueVars => Sized'
<1> SUFFICES ASSUME QueueInv, QueueInv', Sized, [QueueNext]_queueVars PROVE Sized'
  OBVIOUS
<1>1. CASE Attempt \/ Wait \/ SendNothing \/ Send \/ Taken \/ TryLater \/ Stop
  <2>1. pc # "down"
    BY <1>1 DEF Attempt, Wait, SendNothing, Send, Taken, TryLater, Stop
  <2> QED
    BY <1>1, <2>1, SizedStays DEF Attempt, Wait, SendNothing, Send, Taken, TryLater, Stop
<1>2. CASE Delivered \/ RefusedForGood
  BY <1>2, SizedLeaves DEF Delivered, RefusedForGood
<1>3. CASE UNCHANGED queueVars
  BY <1>3 DEF queueVars, spool, Sized, FileBounded, Lines
<1> QED
  BY <1>1, <1>2, <1>3, SizedAdds, SizedSyncs, SizedFails, SizedCrashes, SizedLoads,
     SizedMisses
  DEF QueueNext, Answer

\* The sizes hold at first: there is no file.
LEMMA SizedInit == QueueInit => Sized
<1> SUFFICES ASSUME QueueInit PROVE Sized
  OBVIOUS
<1>1. held = {} /\ file.lines = {} /\ file.garbage = 0 /\ disk = {} /\ dropped = {}
  BY DEF QueueInit, NoFile
<1>2. Cardinality({}) = 0
  BY FS_EmptySet
<1>3. FileBounded /\ Cardinality(held) <= QMax
  BY <1>1, <1>2, Limits DEF FileBounded
<1>4. Lines(file) = 0 /\ Cardinality(disk) = 0 /\ Cardinality(dropped) = 0
  BY <1>1, <1>2 DEF Lines
<1>5. made <= QReadings /\ crashes \in 0..QCrashes
  BY Limits DEF QueueInit
<1> QED
  BY <1>3, <1>4, <1>5 DEF Sized

\* The queue and its file keep their types and their limits: "the file can run past
\* it by at most a tenth before it is rewritten" (spool.go:65-66), through failed
\* writes, power cuts and starts as well, for every limit, unless a start could not
\* open the file, and it has not been replaced or read whole since.
THEOREM QueueTypes == QueueSpec => []QueueTypeOK
<1>1. QueueInit => Sized
  BY SizedInit
<1>2. QueueInv /\ QueueInv' /\ Sized /\ [QueueNext]_queueVars => Sized'
  BY SizedNext
<1>3. QueueInv /\ Sized => QueueTypeOK
  <2> SUFFICES ASSUME QueueInv, Sized PROVE QueueTypeOK
    OBVIOUS
  <2>1. made \in 0..QReadings
    BY Counted, Limits DEF Sized
  <2> QED
    BY <2>1 DEF Sized, QueueInv, Typed, QueueTypeOK
<1> QED
  BY <1>1, <1>2, <1>3, QueueInvariant, PTL DEF QueueSpec

-----------------------------------------------------------------------------
(* The token.                                                              *)

\* A token that works, or has been withdrawn.
Good(t) == t \in {cur, pend} \cup withdrawn \cup {None}

PendIsLast == pend # None => pend = issued /\ pend > cur

\* An agent that does not run waits for nothing; one that does would start with the
\* token it uses, or with the one it has just written.
AtRest == rt = None => taking = None /\ ~saved /\ \A q \in Requests : ~req[q].waiting
Homed == rt # None => home = IF saved THEN taking ELSE rt

\* What is being taken up is a later token, and no check-in is made meanwhile.
Forward ==
    /\ saved => taking # None
    /\ taking # None =>
        /\ taking > rt /\ taking <= issued /\ Good(taking)
        /\ \A q \in Requests : req[q].waiting => req[q].kind = "report"

\* A check-in that is waited for has been made with the token in use, and is given
\* later ones only.
CheckingIn(q) ==
    req[q].waiting /\ req[q].kind = "checkin" =>
        /\ req[q].token # None => req[q].token = rt
        /\ req[q].give => rt <= cur
        /\ req[q].gift # None => req[q].gift > rt /\ req[q].gift <= issued /\ Good(req[q].gift)
        /\ \A p \in Requests : req[p].waiting /\ req[p].kind = "checkin" => p = q

\* Only check-ins are given tokens; who has asked with the replacement keeps it.
Asking(q) ==
    /\ req[q].at \in {"sent", "pending"} => req[q].token # None
    /\ req[q].token <= issued
    /\ req[q].give \/ req[q].gift # None => req[q].kind = "checkin"
    /\ req[q].token # None /\ req[q].token = pend => home = pend /\ rt \in {None, pend}
    /\ CheckingIn(q)

TokenInv ==
    /\ TokenTypeOK /\ PendIsLast /\ AtRest /\ Homed /\ Forward
    /\ \A q \in Requests : Asking(q)
    /\ Good(rt) /\ Good(home) /\ home <= issued

Request == [kind : Kinds, token : Tokens \cup {None}, at : Stages,
            waiting : BOOLEAN, give : BOOLEAN, gift : Tokens \cup {None}]

-----------------------------------------------------------------------------

\* What a free request and an answered one are.
LEMMA FreeRequest ==
    /\ Free \in Request /\ Free.at = "free" /\ Free.token = None /\ ~Free.waiting /\ ~Free.give /\ Free.gift = None
    /\ \A r \in Request :
        /\ Answered(r) \in Request /\ Answered(r).at = "answered"
        /\ Answered(r).kind = r.kind /\ Answered(r).token = None
        /\ Answered(r).waiting = r.waiting /\ ~Answered(r).give /\ Answered(r).gift = r.gift
BY DEF Free, Answered, Request, Kinds, Stages

\* It is enough to look at the requests when no token changes, nor the agent.
LEMMA RequestMoves ==
    ASSUME TokenInv, NEW q \in Requests, UNCHANGED <<server, agent>>,
           req' = [req EXCEPT ![q] = req'[q]], req'[q] \in Request,
           req'[q].waiting => req[q].waiting /\ req'[q].kind = req[q].kind,
           req'[q].token \in {None, req[q].token},
           req'[q].at \in {"sent", "pending"} =>
                req[q].at \in {"sent", "pending"} /\ req'[q].token = req[q].token,
           req'[q].give => \/ req[q].give /\ req'[q].kind = req[q].kind
                           \/ req[q].kind = "checkin" /\ req'[q].kind = "checkin" /\ req[q].token = cur,
           req'[q].gift # None => \/ req'[q].gift = req[q].gift /\ req'[q].kind = req[q].kind
                                  \/ req[q].give /\ req'[q].kind = req[q].kind /\ req'[q].gift = pend
    PROVE  TokenInv'
<1> USE DEF None
<1>1. /\ \A p \in Requests : p # q => req'[p] = req[p]
      /\ \A p \in Requests : req'[p].waiting => req[p].waiting /\ req'[p].kind = req[p].kind
  BY DEF TokenInv, TokenTypeOK
<1>2. UNCHANGED <<cur, pend, status, issued, withdrawn, rt, home, fromFile, taking, saved>>
  BY DEF server, agent
<1>3. TokenTypeOK'
  BY <1>2 DEF TokenInv, TokenTypeOK, Request
<1>4. PendIsLast' /\ AtRest' /\ Homed' /\ Forward' /\ Good(rt)' /\ Good(home)' /\ (home <= issued)'
  BY <1>1, <1>2 DEF TokenInv, PendIsLast, AtRest, Homed, Forward, Good
<1>5. ASSUME NEW p \in Requests, p # q PROVE Asking(p)'
  <2>1. Asking(p)
    BY DEF TokenInv
  <2> QED
    BY <1>1, <1>2, <1>5, <2>1 DEF Asking, CheckingIn, Good
<1>6. Asking(q)'
  <2>1. Asking(q) /\ PendIsLast /\ cur \in Nat /\ issued \in Nat
    BY TokenAssumption DEF TokenInv, TokenTypeOK, Tokens
  <2>2. req[q].gift \in Int /\ rt \in Int /\ pend \in Int
    BY DEF TokenInv, TokenTypeOK, Tokens
  <2>3. /\ req'[q].token <= issued
        /\ req'[q].at \in {"sent", "pending"} => req'[q].token # None
    BY <2>1 DEF Asking
  <2>4. req'[q].give \/ req'[q].gift # None => req'[q].kind = "checkin"
    BY <2>1 DEF Asking
  <2>5. req'[q].token # None /\ req'[q].token = pend => home = pend /\ rt \in {None, pend}
    BY <2>1 DEF Asking
  <2>6. ASSUME req'[q].waiting, req'[q].kind = "checkin"
        PROVE  /\ req'[q].token # None => req'[q].token = rt
               /\ req'[q].give => rt <= cur
               /\ \A p \in Requests : req'[p].waiting /\ req'[p].kind = "checkin" => p = q
               /\ req'[q].gift # None => req'[q].gift > rt /\ req'[q].gift <= issued /\ Good(req'[q].gift)
    <3>1. req[q].waiting /\ req[q].kind = "checkin"
      BY <2>6
    <3>2. /\ req[q].token # None => req[q].token = rt
          /\ req[q].give => rt <= cur
          /\ req[q].gift # None => req[q].gift > rt /\ req[q].gift <= issued /\ Good(req[q].gift)
          /\ \A p \in Requests : req[p].waiting /\ req[p].kind = "checkin" => p = q
      BY <2>1, <3>1 DEF Asking, CheckingIn
    <3>3. cur # None
      BY DEF TokenInv, TokenTypeOK, Tokens
    <3>4. req'[q].give => rt <= cur
      BY <3>2, <3>3, <2>1, <2>2
    <3>5. req'[q].gift # None => req'[q].gift > rt /\ req'[q].gift <= issued /\ Good(req'[q].gift)
      BY <3>2, <2>1, <2>2 DEF PendIsLast, Good
    <3> QED
      BY <1>1, <3>2, <3>4, <3>5
  <2> QED
    BY <1>2, <2>3, <2>4, <2>5, <2>6 DEF Asking, CheckingIn, Good
<1> QED
  BY <1>3, <1>4, <1>5, <1>6 DEF TokenInv

-----------------------------------------------------------------------------
(* The steps.                                                              *)

\* The steps of a request that change no token.
LEMMA TokenInvServes ==
    ASSUME TokenInv, NEW q \in Requests, GiveUp(q) \/ Drop(q) \/ Lookup(q) \/ Settle(q) \/ ServerFails(q)
    PROVE  TokenInv'
<1> DEFINE r == req[q]
<1>r. r \in Request /\ req \in [Requests -> Request]
  BY DEF TokenInv, TokenTypeOK, Request
<1>u. UNCHANGED <<server, agent>>
  BY DEF GiveUp, Drop, Lookup, Settle, ServerFails
<1>1. CASE GiveUp(q)
  <2>1. req' = [req EXCEPT ![q] = [r EXCEPT !.waiting = FALSE]]
    BY <1>1 DEF GiveUp
  <2>2. /\ req'[q] = [r EXCEPT !.waiting = FALSE] /\ req' = [req EXCEPT ![q] = req'[q]]
    BY <2>1, <1>r
  <2>3. /\ req'[q] \in Request /\ ~req'[q].waiting /\ req'[q].kind = r.kind /\ req'[q].token = r.token
        /\ req'[q].at = r.at /\ req'[q].give = r.give /\ req'[q].gift = r.gift
    BY <2>2, <1>r DEF Request
  <2> QED
    BY <1>u, <2>2, <2>3, RequestMoves
<1>2. CASE Drop(q)
  <2>1. req' = [req EXCEPT ![q] = Free]
    BY <1>2 DEF Drop
  <2>2. req'[q] = Free /\ req' = [req EXCEPT ![q] = req'[q]]
    BY <2>1, <1>r
  <2> QED
    BY <1>u, <2>2, FreeRequest, RequestMoves
<1>3. CASE Lookup(q)
  <2>1. CASE /\ status = "enabled" /\ req[q].token = cur
             /\ req' = [req EXCEPT ![q].at = "accepted", ![q].token = None,
                                   ![q].give = (req[q].kind = "checkin" /\ pend # None)]
    <3> DEFINE g == req[q].kind = "checkin" /\ pend # None
               w == [r EXCEPT !.at = "accepted", !.token = None, !.give = g]
    <3>1. req' = [req EXCEPT ![q] = w]
      BY <2>1
    <3>g. g \in BOOLEAN /\ (g => r.kind = "checkin")
      OBVIOUS
    <3> HIDE DEF g
    <3>2. /\ w \in Request /\ w.kind = r.kind /\ w.token = None /\ w.waiting = r.waiting
          /\ w.at = "accepted" /\ (w.give => r.kind = "checkin") /\ w.gift = r.gift
      <4> HIDE DEF r
      <4> QED
        BY <1>r, <3>g DEF Request, Stages
    <3> HIDE DEF w
    <3>3. req'[q] = w /\ req' = [req EXCEPT ![q] = req'[q]]
      BY <3>1, <1>r
    <3> QED
      BY <1>u, <2>1, <3>2, <3>3, RequestMoves
  <2>2. CASE req' = [req EXCEPT ![q].at = "pending"]
    <3> DEFINE w == [r EXCEPT !.at = "pending"]
    <3>1. req' = [req EXCEPT ![q] = w] /\ r.at = "sent"
      BY <1>3, <2>2 DEF Lookup
    <3>2. /\ w \in Request /\ w.kind = r.kind /\ w.token = r.token /\ w.waiting = r.waiting
          /\ w.give = r.give /\ w.gift = r.gift
      BY <1>r DEF Request, Stages
    <3> HIDE DEF w
    <3>3. req'[q] = w /\ req' = [req EXCEPT ![q] = req'[q]]
      BY <3>1, <1>r
    <3> QED
      BY <1>u, <3>1, <3>2, <3>3, RequestMoves
  <2>3. CASE req' = [req EXCEPT ![q] = Answered(req[q])]
    <3>1. req' = [req EXCEPT ![q] = Answered(r)]
      BY <2>3
    <3>2. req'[q] = Answered(r) /\ req' = [req EXCEPT ![q] = req'[q]]
      BY <3>1, <1>r
    <3> QED
      BY <1>u, <1>r, <3>2, FreeRequest, RequestMoves
  <2> QED
    BY <1>3, <2>1, <2>2, <2>3 DEF Lookup
<1>4. CASE Settle(q)
  <2> DEFINE w == [Answered(r) EXCEPT !.gift = IF r.give THEN pend ELSE None]
  <2>1. req' = [req EXCEPT ![q] = w]
    BY <1>4 DEF Settle
  <2>2. Answered(r) \in Request /\ Answered(r).kind = r.kind /\ Answered(r).waiting = r.waiting
    BY <1>r, FreeRequest
  <2>p. pend \in Tokens \cup {None}
    BY DEF TokenInv, TokenTypeOK
  <2>3. /\ w \in Request /\ w.kind = r.kind /\ w.token = None /\ w.waiting = r.waiting
        /\ w.at = "answered" /\ ~w.give /\ w.gift = IF r.give THEN pend ELSE None
    <3>1. Answered(r).token = None /\ ~Answered(r).give /\ Answered(r).at = "answered"
      BY <1>r, FreeRequest
    <3> HIDE DEF r
    <3> QED
      BY <2>2, <2>p, <3>1 DEF Request
  <2> HIDE DEF w
  <2>4. req'[q] = w /\ req' = [req EXCEPT ![q] = req'[q]]
    BY <2>1, <1>r
  <2> QED
    BY <1>u, <2>3, <2>4, RequestMoves
<1>5. CASE ServerFails(q)
  <2> DEFINE w == [Answered(r) EXCEPT !.at = "failed"]
  <2>1. req' = [req EXCEPT ![q] = w]
    BY <1>5 DEF ServerFails
  <2>2. /\ Answered(r) \in Request /\ Answered(r).kind = r.kind /\ Answered(r).waiting = r.waiting
        /\ Answered(r).token = None /\ ~Answered(r).give /\ Answered(r).gift = r.gift
    BY <1>r, FreeRequest
  <2>3. /\ w \in Request /\ w.kind = r.kind /\ w.token = None /\ w.waiting = r.waiting
        /\ w.at = "failed" /\ ~w.give /\ w.gift = r.gift
    <3> HIDE DEF r
    <3> QED
      BY <2>2 DEF Request, Stages
  <2> HIDE DEF w
  <2>4. req'[q] = w /\ req' = [req EXCEPT ![q] = req'[q]]
    BY <2>1, <1>r
  <2> QED
    BY <1>u, <2>3, <2>4, RequestMoves
<1> QED
  BY <1>1, <1>2, <1>3, <1>4, <1>5

\* A request with the token in use, which is later than any that was given up.
LEMMA TokenInvAsks ==
    ASSUME TokenInv, NEW kind \in Kinds, Ask(kind)
    PROVE  TokenInv'
<1> USE DEF None
<1>1. PICK q \in Requests :
        /\ req[q] = Free
        /\ req' = [req EXCEPT ![q] = [Free EXCEPT !.kind = kind, !.token = rt,
                                                  !.at = "sent", !.waiting = TRUE]]
  BY DEF Ask
<1> DEFINE w == [Free EXCEPT !.kind = kind, !.token = rt, !.at = "sent", !.waiting = TRUE]
<1>2. UNCHANGED <<cur, pend, status, issued, withdrawn, rt, home, fromFile, taking, saved>>
  BY DEF Ask, server, agent
<1>3. rt \in Tokens /\ rt # None /\ ~Waits(kind) /\ (kind = "checkin" => taking = None)
  BY DEF Ask, TokenInv, TokenTypeOK
<1>4. /\ w \in Request /\ w.kind = kind /\ w.token = rt /\ w.waiting /\ ~w.give /\ w.gift = None
  BY <1>3 DEF Free, Request, Kinds, Stages
<1>5. req'[q] = w /\ \A p \in Requests : p # q => req'[p] = req[p]
  BY <1>1 DEF TokenInv, TokenTypeOK
<1>6. TokenTypeOK'
  <2>1. req' \in [Requests -> Request]
    BY <1>1, <1>4 DEF TokenInv, TokenTypeOK, Request
  <2> QED
    BY <1>2, <2>1 DEF TokenInv, TokenTypeOK, Request
<1> HIDE DEF w
<1>7. PendIsLast' /\ AtRest' /\ Homed' /\ Good(rt)' /\ Good(home)' /\ (home <= issued)'
  BY <1>2, <1>3 DEF TokenInv, PendIsLast, AtRest, Homed, Good
<1>8. Forward'
  <2>1. taking # None => kind = "report"
    BY <1>3 DEF Kinds
  <2> QED
    BY <1>2, <1>4, <1>5, <2>1 DEF TokenInv, Forward, Good
<1>9. ASSUME NEW p \in Requests, p # q PROVE Asking(p)'
  <2>1. Asking(p)
    BY DEF TokenInv
  <2>2. ~(kind = "checkin" /\ req[p].waiting /\ req[p].kind = "checkin")
    BY <1>3 DEF Waits
  <2> QED
    BY <1>2, <1>4, <1>5, <1>9, <2>1, <2>2 DEF Asking, CheckingIn, Good
<1>10. Asking(q)'
  \* What the agent uses is one of those issued; if it is the replacement, it is the last.
  <2>1. PendIsLast /\ Homed /\ Forward /\ home \in Tokens /\ home <= issued
    BY DEF TokenInv, TokenTypeOK
  <2>2. issued \in Nat /\ rt \in Nat /\ taking \in Nat /\ pend \in Nat
    BY <1>3, TokenAssumption DEF TokenInv, TokenTypeOK, Tokens
  <2>3. rt <= issued
    BY <2>1, <2>2, <1>3 DEF Homed, Forward, Tokens
  <2>4. rt = pend => home = pend
    BY <2>1, <2>2, <1>3 DEF Homed, Forward, PendIsLast
  <2>5. \A p \in Requests : req'[p].waiting /\ req'[p].kind = kind => p = q
    BY <1>3, <1>5 DEF Waits
  <2> QED
    BY <1>2, <1>3, <1>4, <1>5, <2>3, <2>4, <2>5 DEF Asking, CheckingIn
<1> QED
  BY <1>6, <1>7, <1>8, <1>9, <1>10 DEF TokenInv

\* What the agent hears is later than what it uses.
LEMMA TokenInvHears ==
    ASSUME TokenInv, NEW q \in Requests, Hear(q)
    PROVE  TokenInv'
<1> USE DEF None
<1> DEFINE g == req[q].gift
<1>1. UNCHANGED <<cur, pend, status, issued, withdrawn, rt, home, fromFile, saved>>
  BY DEF Hear, server
<1>2. req' = [req EXCEPT ![q] = Free] /\ taking' = (IF g # None THEN g ELSE taking) /\ req[q].waiting
  BY DEF Hear
<1>3. req'[q] = Free /\ \A p \in Requests : p # q => req'[p] = req[p]
  BY <1>2 DEF TokenInv, TokenTypeOK
<1>4. req[q] \in Request /\ g \in Tokens \cup {None}
  BY DEF TokenInv, TokenTypeOK, Request
<1>5. TokenTypeOK'
  <2>1. req' \in [Requests -> Request]
    BY <1>2, FreeRequest DEF TokenInv, TokenTypeOK, Request
  <2>2. taking' \in Tokens \cup {None}
    BY <1>2, <1>4 DEF TokenInv, TokenTypeOK
  <2> QED
    BY <1>1, <2>1, <2>2 DEF TokenInv, TokenTypeOK, Request
<1>6. \A p \in Requests : p # q => Asking(p)'
  <2> SUFFICES ASSUME NEW p \in Requests, p # q PROVE Asking(p)'
    OBVIOUS
  <2>1. Asking(p) /\ req'[p] = req[p] /\ ~Free.waiting
    BY <1>3, FreeRequest DEF TokenInv
  <2> QED
    BY <1>1, <1>3, <2>1 DEF Asking, CheckingIn, Good
<1>7. Asking(q)'
  <2>1. issued \in Nat
    BY TokenAssumption DEF TokenInv, TokenTypeOK, Tokens
  <2> QED
    BY <1>1, <1>3, <2>1, FreeRequest DEF Asking, CheckingIn
<1>8. PendIsLast' /\ AtRest' /\ Good(rt)' /\ Good(home)' /\ (home <= issued)'
  <2>1. rt # None
    BY <1>2 DEF TokenInv, AtRest
  <2> QED
    BY <1>1, <2>1 DEF TokenInv, PendIsLast, AtRest, Good
<1>9. CASE g = None
  BY <1>1, <1>2, <1>3, <1>5, <1>6, <1>7, <1>8, <1>9, FreeRequest DEF TokenInv, Homed, Forward, Good
<1>10. CASE g # None
  <2>1. req[q].kind = "checkin" /\ req[q].waiting
    BY <1>2, <1>10 DEF TokenInv, Asking
  <2>2. /\ g > rt /\ g <= issued /\ Good(g)
        /\ \A p \in Requests : req[p].waiting /\ req[p].kind = "checkin" => p = q
    BY <1>10, <2>1 DEF TokenInv, Asking, CheckingIn
  <2>3. ~saved
    BY <2>1 DEF TokenInv, Forward
  <2>4. \A p \in Requests : req'[p].waiting => req'[p].kind = "report"
    <3> SUFFICES ASSUME NEW p \in Requests, req'[p].waiting PROVE req'[p].kind = "report"
      OBVIOUS
    <3>1. p # q
      BY <1>3, FreeRequest
    <3>2. req'[p] = req[p] /\ req[p] \in Request
      BY <1>3, <3>1 DEF TokenInv, TokenTypeOK, Request
    <3> QED
      BY <2>2, <3>1, <3>2 DEF Request, Kinds
  <2>5. Forward' /\ Homed'
    BY <1>1, <1>2, <1>10, <2>2, <2>3, <2>4 DEF TokenInv, Forward, Homed, Good
  <2> QED
    BY <1>5, <1>6, <1>7, <1>8, <2>5 DEF TokenInv
<1> QED
  BY <1>9, <1>10

\* The agent takes the token up, ends and begins.
LEMMA TokenInvAgent ==
    ASSUME TokenInv, Decline \/ StoreToken \/ Switch \/ End \/ Begin \/ Install
    PROVE  TokenInv'
<1> USE DEF None
<1>1. UNCHANGED <<cur, pend, status, issued, withdrawn>>
  BY DEF Decline, StoreToken, Switch, End, Begin, Install, server
<1>t. /\ cur \in Nat /\ pend \in Nat /\ issued \in Nat /\ rt \in Nat /\ home \in Nat /\ taking \in Nat
      /\ cur # None /\ home # None
      /\ req \in [Requests -> Request] /\ \A q \in Requests : req[q].token \in Nat
  BY TokenAssumption DEF TokenInv, TokenTypeOK, Tokens, Request
<1>a. \A q \in Requests : Asking(q)
  BY DEF TokenInv
\* A request made with the replacement: the agent has it, and takes nothing up.
<1>k. ASSUME NEW q \in Requests, req[q].token # None, req[q].token = pend
      PROVE  home = pend /\ rt \in {None, pend} /\ taking = None /\ ~saved
  <2>1. home = pend /\ rt \in {None, pend} /\ pend # None
    BY <1>k, <1>a DEF Asking
  <2> QED
    BY <1>t, <2>1 DEF TokenInv, PendIsLast, AtRest, Forward
<1>2. CASE Decline
  BY <1>1, <1>2, <1>a DEF Decline, TokenInv, TokenTypeOK, PendIsLast, AtRest, Homed, Forward, Asking,
     CheckingIn, Good
<1>3. CASE StoreToken
  <2>1. /\ home' = taking /\ saved' /\ UNCHANGED <<req, rt, fromFile, taking>> /\ taking # None
        /\ saved' \in BOOLEAN
    BY <1>3 DEF StoreToken
  <2>2. \A q \in Requests : Asking(q)'
    BY <1>1, <1>a, <1>k, <2>1 DEF Asking, CheckingIn, Good
  <2>3. TokenTypeOK'
    BY <1>1, <2>1 DEF TokenInv, TokenTypeOK
  <2> QED
    BY <1>1, <1>t, <2>1, <2>2, <2>3 DEF TokenInv, PendIsLast, AtRest, Homed, Forward, Good
<1>4. CASE Switch
  <2>1. /\ rt' = taking /\ taking' = None /\ ~saved' /\ saved' \in BOOLEAN /\ saved
        /\ UNCHANGED <<req, home, fromFile>>
    BY <1>4 DEF Switch
  <2>2. taking # None /\ home = taking /\ \A q \in Requests : req[q].waiting => req[q].kind = "report"
    BY <2>1 DEF TokenInv, Forward, Homed, AtRest
  <2>3. \A q \in Requests : Asking(q)'
    BY <1>1, <1>a, <1>k, <2>1, <2>2 DEF Asking, CheckingIn
  <2>4. TokenTypeOK'
    BY <1>1, <2>1 DEF TokenInv, TokenTypeOK
  <2> QED
    BY <1>1, <1>t, <2>1, <2>2, <2>3, <2>4 DEF TokenInv, PendIsLast, AtRest, Homed, Forward, Good
<1>5. CASE End
  <2>1. /\ rt' = None /\ taking' = None /\ ~saved' /\ saved' \in BOOLEAN /\ UNCHANGED <<home, fromFile>>
        /\ req' = [q \in Requests |-> [req[q] EXCEPT !.waiting = FALSE]]
    BY <1>5 DEF End
  <2>2. ASSUME NEW q \in Requests
        PROVE  /\ req'[q] \in Request /\ ~req'[q].waiting /\ req'[q].token = req[q].token
               /\ req'[q].at = req[q].at /\ req'[q].give = req[q].give /\ req'[q].gift = req[q].gift /\ req'[q].kind = req[q].kind
    <3> DEFINE r == req[q]
    <3>1. req'[q] = [r EXCEPT !.waiting = FALSE] /\ r \in Request
      BY <1>t, <2>1
    <3> HIDE DEF r
    <3>2. /\ req'[q] \in Request /\ ~req'[q].waiting /\ req'[q].token = r.token
          /\ req'[q].at = r.at /\ req'[q].give = r.give /\ req'[q].gift = r.gift /\ req'[q].kind = r.kind
      BY <3>1 DEF Request
    <3> QED
      BY <3>2 DEF r
  <2>3. \A q \in Requests : Asking(q)'
    BY <1>1, <1>a, <2>1, <2>2 DEF Asking, CheckingIn
  <2>4. TokenTypeOK'
    <3>1. req' \in [Requests -> Request]
      BY <2>1, <2>2
    <3> QED
      BY <1>1, <2>1, <3>1 DEF TokenInv, TokenTypeOK, Request
  <2> QED
    BY <1>1, <1>t, <2>1, <2>2, <2>3, <2>4 DEF TokenInv, PendIsLast, AtRest, Homed, Forward, Good
<1>6. CASE Begin
  <2>1. rt = None /\ rt' = home /\ UNCHANGED <<req, home, fromFile, taking, saved>>
    BY <1>6 DEF Begin
  <2>2. taking = None /\ ~saved /\ \A q \in Requests : ~req[q].waiting
    BY <2>1 DEF TokenInv, AtRest
  <2>3. \A q \in Requests : Asking(q)'
    BY <1>1, <1>a, <1>k, <2>1, <2>2 DEF Asking, CheckingIn
  <2>4. TokenTypeOK'
    BY <1>1, <2>1 DEF TokenInv, TokenTypeOK
  <2> QED
    BY <1>1, <1>t, <2>1, <2>2, <2>3, <2>4 DEF TokenInv, PendIsLast, AtRest, Homed, Forward, Good
<1>7. CASE Install
  <2>1. /\ rt = None /\ home' # None /\ UNCHANGED <<req, rt, fromFile, taking, saved>>
        /\ home' = pend \/ (home \notin {cur, pend} /\ home' = cur)
    BY <1>7 DEF Install
  <2>2. taking = None /\ ~saved /\ \A q \in Requests : ~req[q].waiting
    BY <2>1 DEF TokenInv, AtRest
  <2>3. \A q \in Requests : Asking(q)'
    BY <1>1, <1>a, <1>k, <2>1, <2>2 DEF Asking, CheckingIn
  <2>4. TokenTypeOK'
    BY <1>1, <2>1 DEF TokenInv, TokenTypeOK
  <2> QED
    BY <1>1, <1>t, <2>1, <2>2, <2>3, <2>4 DEF TokenInv, TokenTypeOK, PendIsLast, AtRest, Homed, Forward, Good
<1> QED
  BY <1>2, <1>3, <1>4, <1>5, <1>6, <1>7

\* The replacement becomes the token: no one else's than the agent's that asked.
LEMMA TokenInvPromotes ==
    ASSUME TokenInv, NEW q \in Requests, Promote(q)
    PROVE  TokenInv'
<1> USE DEF None
<1> DEFINE r == req[q]
           w == [r EXCEPT !.at = "accepted", !.token = None]
<1>1. UNCHANGED <<status, issued, withdrawn, rt, home, fromFile, taking, saved>> /\ r.at = "pending"
  BY DEF Promote, agent
<1>2. req' = [req EXCEPT ![q] = w]
  BY DEF Promote
<1>3. r \in Request /\ req \in [Requests -> Request]
  BY DEF TokenInv, TokenTypeOK, Request
<1>4. /\ w \in Request /\ w.kind = r.kind /\ w.token = None /\ w.waiting = r.waiting
      /\ w.at = "accepted" /\ w.give = r.give /\ w.gift = r.gift
  <2> HIDE DEF r
  <2> QED
    BY <1>3 DEF Request, Stages
<1>5. req'[q] = w /\ \A p \in Requests : p # q => req'[p] = req[p]
  BY <1>2, <1>3
<1>6. \/ cur' = cur /\ pend' = pend
      \/ pend = r.token /\ cur' = pend /\ pend' = None
  BY DEF Promote
<1>t. /\ cur \in Nat /\ pend \in Nat /\ issued \in Nat /\ rt \in Nat /\ home \in Nat /\ taking \in Nat
      /\ cur # None /\ home # None /\ \A p \in Requests : req[p].token \in Nat /\ req[p].gift \in Nat
  BY TokenAssumption DEF TokenInv, TokenTypeOK, Tokens, Request
<1> HIDE DEF w
<1>7. \A p \in Requests :
        /\ req'[p].kind = req[p].kind /\ req'[p].token \in {None, req[p].token}
        /\ req'[p].at = "accepted" \/ req'[p] = req[p]
        /\ req'[p].waiting = req[p].waiting /\ req'[p].give = req[p].give /\ req'[p].gift = req[p].gift
  BY <1>4, <1>5
<1>8. req' \in [Requests -> Request]
  BY <1>2, <1>3, <1>4
<1> HIDE DEF r
<1>9. CASE cur' = cur /\ pend' = pend
  <2>1. \A p \in Requests : Asking(p)'
    BY <1>1, <1>7, <1>9, <1>t DEF TokenInv, Asking, CheckingIn, Good
  <2>2. TokenTypeOK'
    BY <1>1, <1>8, <1>9 DEF TokenInv, TokenTypeOK, Request
  <2> QED
    BY <1>1, <1>7, <1>9, <2>1, <2>2 DEF TokenInv, PendIsLast, AtRest, Homed, Forward, Good
<1>10. CASE pend = r.token /\ pend # None /\ cur' = pend /\ pend' = None
  <2>1. home = pend /\ rt \in {None, pend} /\ pend = issued /\ pend > cur
    BY <1>10 DEF TokenInv, Asking, PendIsLast, r
  <2>2. taking = None /\ ~saved
    BY <1>t, <1>10, <2>1 DEF TokenInv, AtRest, Forward
  <2>3. \A p \in Requests : req[p].waiting /\ req[p].kind = "checkin" => req[p].gift = None
    BY <1>t, <1>10, <2>1 DEF TokenInv, AtRest, Asking, CheckingIn
  <2>4. \A p \in Requests : Asking(p)'
    BY <1>1, <1>7, <1>10, <1>t, <2>1, <2>3 DEF TokenInv, Asking, CheckingIn
  <2>5. TokenTypeOK'
    BY <1>1, <1>8, <1>10, <1>t, <2>1 DEF TokenInv, TokenTypeOK, Request
  <2> QED
    BY <1>1, <1>7, <1>10, <1>t, <2>1, <2>2, <2>4, <2>5 DEF TokenInv, PendIsLast, AtRest, Homed, Forward, Good
<1>11. CASE pend = r.token /\ pend = None /\ cur' = pend /\ pend' = None
  <2>1. r.token # None
    BY <1>1 DEF TokenInv, Asking, r
  <2> QED
    BY <1>11, <2>1
<1> QED
  BY <1>6, <1>9, <1>10, <1>11

\* What an administrator makes useless has been withdrawn.
LEMMA TokenInvAdministers ==
    ASSUME TokenInv, Rotate \/ ReplaceNow \/ CancelRotation \/ SetStatus
    PROVE  TokenInv'
<1> USE DEF None
<1>1. UNCHANGED <<req, rt, home, fromFile, taking, saved>>
  BY DEF Rotate, ReplaceNow, CancelRotation, SetStatus, agent
<1>t. /\ cur \in Tokens /\ pend \in Tokens \cup {None} /\ issued \in Tokens /\ rt \in Nat /\ home \in Nat
      /\ cur \in Nat /\ pend \in Nat /\ issued \in Nat
      /\ taking \in Nat /\ \A p \in Requests : req[p].token \in Nat /\ req[p].gift \in Nat
  BY TokenAssumption DEF TokenInv, TokenTypeOK, Tokens, Request
<1>2. CASE Rotate
  <2>1. /\ issued' = issued + 1 /\ issued' \in Tokens /\ pend' = issued' /\ UNCHANGED <<cur, status>>
        /\ withdrawn' = withdrawn \cup ({pend} \ {None}) /\ pend' # None
    BY <1>2, <1>t DEF Rotate, Issue, Tokens
  <2>2. \A t : Good(t) => Good(t)'
    BY <2>1 DEF Good
  <2>3. \A p \in Requests : Asking(p)'
    BY <1>1, <1>t, <2>1, <2>2 DEF TokenInv, Asking, CheckingIn
  <2>4. TokenTypeOK'
    BY <1>1, <1>t, <2>1 DEF TokenInv, TokenTypeOK
  <2>5. PendIsLast'
    BY <1>1, <1>t, <2>1 DEF TokenInv, TokenTypeOK, PendIsLast
  <2> QED
    BY <1>1, <1>t, <2>1, <2>2, <2>3, <2>4, <2>5 DEF TokenInv, AtRest, Homed, Forward
<1>3. CASE ReplaceNow
  <2>1. /\ issued' = issued + 1 /\ issued' \in Tokens /\ cur' = issued' /\ pend' = None /\ UNCHANGED status
        /\ withdrawn' = withdrawn \cup ({cur, pend} \ {None})
    BY <1>3 DEF ReplaceNow, Issue
  <2>2. \A t : Good(t) => Good(t)'
    BY <2>1 DEF Good
  <2>c. cur <= issued
    BY DEF TokenInv, TokenTypeOK
  <2>3. \A p \in Requests : Asking(p)'
    BY <1>1, <1>t, <2>1, <2>2, <2>c DEF TokenInv, Asking, CheckingIn
  <2>4. TokenTypeOK'
    BY <1>1, <1>t, <2>1 DEF TokenInv, TokenTypeOK
  <2> QED
    BY <1>1, <1>t, <2>1, <2>2, <2>3, <2>4 DEF TokenInv, PendIsLast, AtRest, Homed, Forward
<1>4. CASE CancelRotation
  <2>1. pend # None /\ pend' = None /\ UNCHANGED <<cur, status, issued>> /\ withdrawn' = withdrawn \cup {pend}
    BY <1>4 DEF CancelRotation
  <2>2. \A t : Good(t) => Good(t)'
    BY <2>1 DEF Good
  <2>3. \A p \in Requests : Asking(p)'
    BY <1>1, <1>t, <2>1, <2>2 DEF TokenInv, Asking, CheckingIn
  <2>4. TokenTypeOK'
    BY <1>1, <1>t, <2>1 DEF TokenInv, TokenTypeOK, Tokens
  <2> QED
    BY <1>1, <1>t, <2>1, <2>2, <2>3, <2>4 DEF TokenInv, PendIsLast, AtRest, Homed, Forward
<1>5. CASE SetStatus
  <2>1. UNCHANGED <<cur, pend, issued, withdrawn>> /\ status' \in {"enabled", "disabled", "revoked"}
    BY <1>5 DEF SetStatus
  <2>2. TokenTypeOK'
    BY <1>1, <2>1 DEF TokenInv, TokenTypeOK
  <2> QED
    BY <1>1, <2>1, <2>2 DEF TokenInv, PendIsLast, AtRest, Homed, Forward, Asking, CheckingIn, Good
<1> QED
  BY <1>2, <1>3, <1>4, <1>5

\* The invariant holds at first.
LEMMA TokenInvInit == TokenInit => TokenInv
<1> SUFFICES ASSUME TokenInit PROVE TokenInv
  OBVIOUS
<1> USE DEF None
<1>1. \A q \in Requests : req[q] = Free
  BY DEF TokenInit
<1>2. 1 \in Tokens
  BY TokenAssumption DEF Tokens
<1>3. TokenTypeOK
  <2>1. req \in [Requests -> Request]
    BY FreeRequest DEF TokenInit
  <2>2. withdrawn \subseteq Tokens /\ fromFile \in BOOLEAN /\ saved \in BOOLEAN
    BY DEF TokenInit
  <2> QED
    BY <1>2, <2>1, <2>2 DEF TokenInit, TokenTypeOK, Request
<1>4. \A q \in Requests : Asking(q)
  BY <1>1, FreeRequest DEF TokenInit, Asking, CheckingIn
<1> QED
  BY <1>1, <1>3, <1>4, FreeRequest DEF TokenInit, TokenInv, PendIsLast, AtRest, Homed, Forward, Good

\* Every step keeps the invariant.
LEMMA TokenInvNext == TokenInv /\ [TokenNext]_tokenVars => TokenInv'
<1> SUFFICES ASSUME TokenInv, [TokenNext]_tokenVars PROVE TokenInv'
  OBVIOUS
<1>1. CASE UNCHANGED tokenVars
  BY <1>1 DEF tokenVars, server, agent, TokenInv, TokenTypeOK, PendIsLast, AtRest, Homed, Forward, Asking,
     CheckingIn, Good
<1> QED
  BY <1>1, TokenInvServes, TokenInvAsks, TokenInvHears, TokenInvAgent, TokenInvPromotes, TokenInvAdministers
  DEF TokenNext, Serve

\* The inductive invariant holds in every state that is reached.
THEOREM TokenInvariant == TokenSpec => []TokenInv
<1>1. TokenInit => TokenInv
  BY TokenInvInit
<1>2. TokenInv /\ [TokenNext]_tokenVars => TokenInv'
  BY TokenInvNext
<1> QED
  BY <1>1, <1>2, PTL DEF TokenSpec

\* Tokens and requests keep their types; the two tokens of a machine differ.
THEOREM TokenTypes == TokenSpec => []TokenTypeOK
<1>1. TokenInv => TokenTypeOK
  BY DEF TokenInv
<1> QED
  BY <1>1, TokenInvariant, PTL

\* However requests, rotations, cancellations and restarts interleave, the machine has
\* a token that works unless an administrator has withdrawn it (checkin.go takeToken,
\* store/hosts.go PromoteAgentToken).
THEOREM NoLockout == TokenSpec => []NotLockedOut
<1>1. TokenInv => NotLockedOut
  BY DEF TokenInv, Good, NotLockedOut
<1> QED
  BY <1>1, TokenInvariant, PTL
=============================================================================
