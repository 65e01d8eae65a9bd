---------------------------- MODULE NodesProofs -----------------------------
(***************************************************************************)
(* Proofs about the requests that change nodes, for any number of nodes,   *)
(* of people and machines at work, and of pairing codes.                   *)
(*                                                                         *)
(* None of the properties is inductive: what a request will write says     *)
(* nothing of its own, and so the invariant relates it to the store as     *)
(* long as nothing has been written since it read (FreshDeps, Completes).  *)
(***************************************************************************)
EXTENDS Nodes, TLAPS

\* What request r will write brings no loop: the parents there are, or one parent
\* that is not below any of the nodes.
FreshDeps(r) ==
    \/ \A n \in DOMAIN req[r].deps : req[r].deps[n] = dep[n]
    \/ \E p \in NodeIds \cup {NoNode} :
        /\ \A n \in DOMAIN req[r].deps : req[r].deps[n] = p
        /\ p \notin DOMAIN req[r].deps
        /\ p # NoNode => \A n \in DOMAIN req[r].deps : NoCycle(n, p)

Fresh ==
    \A r \in Requests : ~req[r].stale =>
        /\ req[r].at = "checked" => FreshDeps(r)
        /\ req[r].at = "open" /\ ~req[r].whole =>
            \A n \in DOMAIN req[r].deps : req[r].deps[n] = dep[n]

\* A code that has been claimed is some machine's, and its node has been there.
Claimed ==
    /\ \A c \in Codes : code[c].at # "none" => code[c].node \in used
    /\ \A m \in Machines :
        /\ paired[m] # NoCode => code[paired[m]].at = "redeemed"
        /\ req[m].at \in {"claimed", "checked", "done"} => paired[m] # NoCode
        /\ req[m].at # "open"

\* What machine m will write has all the checks of the node and its own.
Completes(m) ==
    /\ req[m].whole /\ DOMAIN req[m].deps = {NodeOf(m)} /\ m \in req[m].checks
    /\ ~req[m].stale => checks[NodeOf(m)] \subseteq req[m].checks \cup {Waiting}

Completing == \A m \in Machines : req[m].at = "checked" => Completes(m)

Watched ==
    \A m \in Machines : req[m].at = "done" /\ ~overlapped =>
        m \in checks[NodeOf(m)] \/ m \in removed \/ NodeOf(m) \notin there

NodesInv ==
    /\ NodesTypeOK /\ Fresh /\ NoLoopUnlessOverlapped
    /\ Claimed /\ OneMachineForACode /\ Completing /\ Watched

-----------------------------------------------------------------------------
(* What the requests have read.                                            *)

\* No request is a request of the type.
LEMMA IdleWritten == Idle \in Written
<1>1. [n \in {} |-> NoNode] \in Deps
  <2>1. [n \in {} |-> NoNode] \in [{} -> NodeIds \cup {NoNode}] /\ {} \in SUBSET NodeIds
    OBVIOUS
  <2> QED
    BY <2>1 DEF Deps
<1>2. {} \in Checks
  BY DEF Checks
<1> QED
  BY <1>1, <1>2 DEF Idle, Written

\* A request keeps all but the mark that what it has read is old.
LEMMA OutdatedKeeps ==
    ASSUME req \in [Requests -> Written], NEW q
    PROVE  /\ Outdated(q) \in [Requests -> Written]
           /\ \A r \in Requests :
                /\ Outdated(q)[r].at = req[r].at /\ Outdated(q)[r].deps = req[r].deps
                /\ Outdated(q)[r].checks = req[r].checks /\ Outdated(q)[r].whole = req[r].whole
                /\ Reading(r) /\ r # q => Outdated(q)[r].stale
<1> SUFFICES ASSUME NEW r \in Requests
             PROVE  /\ Outdated(q)[r] \in Written
                    /\ Outdated(q)[r].at = req[r].at /\ Outdated(q)[r].deps = req[r].deps
                    /\ Outdated(q)[r].checks = req[r].checks
                    /\ Outdated(q)[r].whole = req[r].whole
                    /\ Reading(r) /\ r # q => Outdated(q)[r].stale
  BY DEF Outdated
<1> DEFINE w == req[r]
<1>1. w \in Written
  OBVIOUS
<1>2. [w EXCEPT !.stale = TRUE] \in Written
  BY <1>1 DEF Written
<1>3. /\ [w EXCEPT !.stale = TRUE].at = w.at /\ [w EXCEPT !.stale = TRUE].deps = w.deps
      /\ [w EXCEPT !.stale = TRUE].checks = w.checks
      /\ [w EXCEPT !.stale = TRUE].whole = w.whole
      /\ [w EXCEPT !.stale = TRUE].stale = TRUE
  BY <1>1 DEF Written
<1>4. Outdated(q)[r] = IF Reading(r) /\ r # q THEN [w EXCEPT !.stale = TRUE] ELSE w
  BY DEF Outdated
<1> QED
  BY <1>1, <1>2, <1>3, <1>4

\* What a request is about to write as parents,
LEMMA DepsOf ==
    ASSUME NEW w \in Written
    PROVE  /\ DOMAIN w.deps \subseteq NodeIds
           /\ w.deps \in [DOMAIN w.deps -> NodeIds \cup {NoNode}]
<1>1. PICK S \in SUBSET NodeIds : w.deps \in [S -> NodeIds \cup {NoNode}]
  BY DEF Written, Deps
<1> QED
  BY <1>1

\* and that it is of the type.
LEMMA DepsMade ==
    ASSUME NEW S \in SUBSET NodeIds, NEW d \in [S -> NodeIds \cup {NoNode}]
    PROVE  d \in Deps
BY DEF Deps

-----------------------------------------------------------------------------
(* Loops.                                                                  *)

\* One parent p given to the nodes D, none of which is above p, closes no loop.  The
\* least set above p has no node of D, and so a set of nodes whose parents are all in
\* it would hold one without D.
LEMMA ReparentingMakesNoLoop ==
    ASSUME NodesTypeOK, NoLoop,
           NEW D \in SUBSET there, NEW p \in there \cup {NoNode}, p \notin D,
           p # NoNode => \A n \in D : NoCycle(n, p),
           NEW S \in SUBSET there, S # {}
    PROVE  \E n \in S : (IF n \in D THEN p ELSE dep[n]) \notin S
<1> SUFFICES ASSUME \A n \in S : (IF n \in D THEN p ELSE dep[n]) \in S
             PROVE  FALSE
  OBVIOUS
<1>1. NoNode \notin S
  BY NodesAssumption DEF NodesTypeOK
<1>2. PICK n0 \in S : n0 \in D
  BY DEF NoLoop
<1>3. p \in S /\ p # NoNode
  BY <1>1, <1>2
<1> DEFINE Closed(B) == p \in B /\ \A x \in B : dep[x] \in B \cup {NoNode}
           A == {x \in there : \A B \in SUBSET there : Closed(B) => x \in B}
<1>4. A \cap D = {}
  <2> SUFFICES ASSUME NEW n \in D, n \in A PROVE FALSE
    OBVIOUS
  <2>1. PICK above \in SUBSET there :
            /\ p \in above /\ n \notin above
            /\ \A x \in above : dep[x] \in above \cup {NoNode}
    BY <1>3 DEF NoCycle
  <2> QED
    BY <2>1
<1>5. p \in S \cap A
  BY <1>3
<1>6. \A x \in S \cap A : dep[x] \in S \cap A
  <2> SUFFICES ASSUME NEW x \in S \cap A PROVE dep[x] \in S \cap A
    OBVIOUS
  <2>1. x \notin D
    BY <1>4
  <2>2. dep[x] \in S
    BY <2>1
  <2>3. dep[x] \in there /\ dep[x] # NoNode
    BY <2>2, <1>1
  <2>4. ASSUME NEW B \in SUBSET there, Closed(B) PROVE dep[x] \in B
    BY <2>3, <2>4
  <2> QED
    BY <2>2, <2>3, <2>4
<1> HIDE DEF A
<1>7. S \cap A \in SUBSET there /\ S \cap A # {}
  BY <1>5
<1> QED
  BY <1>6, <1>7 DEF NoLoop

-----------------------------------------------------------------------------
(* Types.                                                                  *)

\* What is written has the right type.
LEMMA WriteTypes ==
    ASSUME NodesTypeOK, NEW r \in Requests, Write(r)
    PROVE  /\ dep' \in [NodeIds -> there \cup {NoNode}]
           /\ checks' \in [NodeIds -> Checks]
           /\ req' \in [Requests -> Written] /\ overlapped' \in BOOLEAN
<1>1. req[r] \in Written
  BY DEF NodesTypeOK
<1>2. dep' \in [NodeIds -> there \cup {NoNode}]
  BY DEF Write, Writable, NodesTypeOK
<1>3. checks' \in [NodeIds -> Checks]
  BY <1>1 DEF Write, NodesTypeOK, Written
<1>4. Outdated(r) \in [Requests -> Written]
  BY OutdatedKeeps DEF NodesTypeOK
<1>5. Idle \in Written /\ [Idle EXCEPT !.at = "done"] \in Written
  BY IdleWritten DEF Written
<1>6. req' \in [Requests -> Written]
  BY <1>4, <1>5 DEF Write
<1>7. overlapped' \in BOOLEAN
  BY <1>1 DEF Write, NodesTypeOK, Written
<1> QED
  BY <1>2, <1>3, <1>6, <1>7

\* Every step keeps the types: no parent outlives its deletion.
LEMMA NodesTypesHold == NodesTypeOK /\ [NodesNext]_nodesVars => NodesTypeOK'
<1> SUFFICES ASSUME NodesTypeOK, [NodesNext]_nodesVars PROVE NodesTypeOK'
  OBVIOUS
<1> USE DEF NodesTypeOK
<1>w. \A r \in Requests : req[r] \in Written
  OBVIOUS
<1>i. Idle \in Written /\ \A a \in {"done", "unbound"} : [Idle EXCEPT !.at = a] \in Written
  BY IdleWritten DEF Written
<1>m. Users \subseteq Requests /\ Machines \subseteq Requests
  BY DEF Requests
<1>1. ASSUME NEW u \in Users, Open(u) PROVE NodesTypeOK'
  <2>1. req' \in [Requests -> Written]
    <3>1. CASE \E n \in there :
                req' = [req EXCEPT ![u] = [at |-> "open", deps |-> [x \in {n} |-> dep[n]],
                                           checks |-> checks[n], whole |-> TRUE, stale |-> FALSE]]
      <4>1. PICK n \in there :
                req' = [req EXCEPT ![u] = [at |-> "open", deps |-> [x \in {n} |-> dep[n]],
                                           checks |-> checks[n], whole |-> TRUE, stale |-> FALSE]]
        BY <3>1
      <4>2. [x \in {n} |-> dep[n]] \in [{n} -> NodeIds \cup {NoNode}] /\ {n} \in SUBSET NodeIds
        OBVIOUS
      <4>3. [x \in {n} |-> dep[n]] \in Deps
        BY <4>2, DepsMade
      <4>4. [at |-> "open", deps |-> [x \in {n} |-> dep[n]], checks |-> checks[n],
             whole |-> TRUE, stale |-> FALSE] \in Written
        BY <4>3 DEF Written
      <4> QED
        BY <4>1, <4>4
    <3>2. CASE \E S \in SUBSET there :
                req' = [req EXCEPT ![u] = [at |-> "open", deps |-> [n \in S |-> dep[n]],
                                           checks |-> {}, whole |-> FALSE, stale |-> FALSE]]
      <4>1. PICK S \in SUBSET there :
                req' = [req EXCEPT ![u] = [at |-> "open", deps |-> [n \in S |-> dep[n]],
                                           checks |-> {}, whole |-> FALSE, stale |-> FALSE]]
        BY <3>2
      <4>2. [n \in S |-> dep[n]] \in [S -> NodeIds \cup {NoNode}] /\ S \in SUBSET NodeIds
        OBVIOUS
      <4>3. [n \in S |-> dep[n]] \in Deps
        BY <4>2, DepsMade
      <4>4. [at |-> "open", deps |-> [n \in S |-> dep[n]], checks |-> {},
             whole |-> FALSE, stale |-> FALSE] \in Written
        BY <4>3 DEF Written, Checks
      <4> QED
        BY <4>1, <4>4
    <3> QED
      BY <1>1, <3>1, <3>2 DEF Open
  <2> QED
    BY <1>1, <2>1 DEF Open
<1>2. ASSUME NEW u \in Users, Leave(u) PROVE NodesTypeOK'
  BY <1>2, <1>i DEF Leave
<1>3. ASSUME NEW u \in Users, SubmitNode(u) PROVE NodesTypeOK'
  <2>1. PICK n \in DOMAIN req[u].deps, p \in NodeIds \cup {NoNode}, kept \in SUBSET req[u].checks :
            /\ p # n
            /\ p # NoNode => NoCycle(n, p)
            /\ req' = [req EXCEPT ![u] = [at |-> "checked", deps |-> [x \in {n} |-> p],
                                          checks |-> kept, whole |-> TRUE, stale |-> FALSE]]
    BY <1>3, Zenon DEF SubmitNode
  <2>2. {n} \in SUBSET NodeIds
    BY <1>w, <1>m, DepsOf
  <2>3. [x \in {n} |-> p] \in Deps
    BY <2>2, DepsMade
  <2>4. kept \in Checks
    BY <1>w, <1>m DEF Written, Checks
  <2>5. [at |-> "checked", deps |-> [x \in {n} |-> p], checks |-> kept, whole |-> TRUE,
         stale |-> FALSE] \in Written
    BY <2>3, <2>4 DEF Written
  <2> QED
    BY <1>3, <2>1, <2>5 DEF SubmitNode
<1>4. ASSUME NEW u \in Users, SubmitBulk(u) PROVE NodesTypeOK'
  <2> DEFINE S == DOMAIN req[u].deps
  <2>1. S \in SUBSET NodeIds
    BY <1>w, <1>m, DepsOf
  <2>2. \A p \in NodeIds \cup {NoNode} : [n \in S |-> p] \in Deps
    BY <2>1, DepsMade
  <2>3. [req[u] EXCEPT !.at = "checked"] \in Written
    BY <1>w, <1>m DEF Written
  <2>4. \A p \in NodeIds \cup {NoNode} :
            [[req[u] EXCEPT !.at = "checked"] EXCEPT !.deps = [n \in S |-> p]] \in Written
    BY <2>2, <2>3 DEF Written
  <2>5. \/ req' = [req EXCEPT ![u].at = "checked"]
        \/ \E p \in NodeIds \cup {NoNode} :
            req' = [req EXCEPT ![u].at = "checked", ![u].deps = [n \in S |-> p]]
    BY <1>4 DEF SubmitBulk
  <2>6. req' \in [Requests -> Written]
    BY <2>3, <2>4, <2>5
  <2> QED
    BY <1>4, <2>6 DEF SubmitBulk
<1>5. ASSUME NEW u \in Users, Save(u) PROVE NodesTypeOK'
  BY <1>5, <1>m, WriteTypes DEF Save, Write
<1>6. ASSUME NEW c \in Codes, CreateCode(c) \/ EndCode(c) PROVE NodesTypeOK'
  BY <1>6 DEF CreateCode, EndCode
<1>7. ASSUME NEW m \in Machines, NEW c \in Codes, Redeem(m, c) PROVE NodesTypeOK'
  <2>1. [req[m] EXCEPT !.at = "claimed"] \in Written
    BY <1>w, <1>m DEF Written
  <2> QED
    BY <1>7, <2>1 DEF Redeem
<1>8. ASSUME NEW m \in Machines, RegisterFails(m) PROVE NodesTypeOK'
  BY <1>8, <1>i DEF RegisterFails
<1>9. ASSUME NEW m \in Machines, ReadToBind(m) PROVE NodesTypeOK'
  <2> DEFINE n == NodeOf(m)
             new == [at |-> "checked", deps |-> [x \in {n} |-> dep[n]],
                     checks |-> (checks[n] \ {Waiting}) \cup {m}, whole |-> TRUE, stale |-> FALSE]
  <2>1. n \in there /\ {n} \in SUBSET NodeIds
    BY <1>9 DEF ReadToBind
  <2>2. [x \in {n} |-> dep[n]] \in Deps
    BY <2>1, DepsMade
  <2>3. (checks[n] \ {Waiting}) \cup {m} \in Checks
    BY <2>1 DEF Checks
  <2>4. new \in Written
    BY <2>2, <2>3 DEF Written
  <2>5. req' = [req EXCEPT ![m] = new]
    BY <1>9 DEF ReadToBind
  <2> HIDE DEF new
  <2> QED
    BY <1>9, <2>4, <2>5 DEF ReadToBind
<1>10. ASSUME NEW m \in Machines, Bind(m) PROVE NodesTypeOK'
  BY <1>10, <1>m, WriteTypes DEF Bind, Write
<1>11. ASSUME NEW m \in Machines, BindFails(m) PROVE NodesTypeOK'
  BY <1>11, <1>i DEF BindFails
<1>12. ASSUME NEW n \in NodeIds, Delete(n) PROVE NodesTypeOK'
  <2>1. Outdated(n) \in [Requests -> Written]
    BY OutdatedKeeps
  <2> QED
    BY <1>12, <2>1 DEF Delete, Checks
<1>13. ASSUME NEW n \in NodeIds, NEW p \in NodeIds \cup {NoNode}, NEW cs \in SUBSET {Waiting},
              Create(n, p, cs)
       PROVE  NodesTypeOK'
  <2>1. Outdated(n) \in [Requests -> Written]
    BY OutdatedKeeps
  <2> QED
    BY <1>13, <2>1 DEF Create, Checks
<1>14. CASE UNCHANGED nodesVars
  BY <1>14 DEF nodesVars
<1>15. CASE Edit
  BY <1>15, <1>1, <1>2, <1>3, <1>4, <1>5 DEF Edit
<1>16. CASE Pair
  BY <1>16, <1>6, <1>7, <1>8, <1>9, <1>10, <1>11 DEF Pair
<1> QED
  BY <1>12, <1>13, <1>14, <1>15, <1>16 DEF NodesNext

-----------------------------------------------------------------------------
(* What has been read and is not old is so still.                          *)

\* After a write nobody else's reading is taken for new.
LEMMA NothingElseFresh ==
    ASSUME req \in [Requests -> Written], NEW q, NEW r \in Requests, r # q,
           ~Outdated(q)[r].stale
    PROVE  /\ Outdated(q)[r].at # "checked"
           /\ Outdated(q)[r].at = "open" => Outdated(q)[r].whole
BY OutdatedKeeps DEF Reading

\* A write makes whoever read what it changes stale.
LEMMA WriteLeavesFresh ==
    ASSUME NodesTypeOK, NEW q \in Requests, Write(q)
    PROVE  Fresh'
<1> SUFFICES ASSUME NEW r \in Requests, ~req'[r].stale
             PROVE  req'[r].at # "checked" /\ (req'[r].at = "open" => req'[r].whole)
  BY DEF Fresh
<1>1. CASE r = q
  <2>1. req'[q].at \in {"idle", "done"}
    BY OutdatedKeeps DEF Write, NodesTypeOK, Idle
  <2> QED
    BY <1>1, <2>1
<1>2. CASE r # q
  <2>1. req'[r] = Outdated(q)[r]
    BY <1>2, OutdatedKeeps DEF Write, NodesTypeOK
  <2> QED
    BY <1>2, <2>1, NothingElseFresh DEF NodesTypeOK
<1> QED
  BY <1>1, <1>2

\* As long as no parent changes, a request that is as it was, or idle, is fresh as it was.
LEMMA UnwrittenLeavesFresh ==
    ASSUME Fresh, UNCHANGED <<there, dep>>, NEW r \in Requests,
           req'[r] = req[r] \/ req'[r].at \notin {"open", "checked"}, ~req'[r].stale
    PROVE  /\ req'[r].at = "checked" => FreshDeps(r)'
           /\ req'[r].at = "open" /\ ~req'[r].whole =>
                \A n \in DOMAIN req'[r].deps : req'[r].deps[n] = dep'[n]
<1>1. CASE req'[r] = req[r]
  <2>1. \A n, p : NoCycle(n, p)' <=> NoCycle(n, p)
    BY DEF NoCycle
  <2> QED
    BY <1>1, <2>1 DEF Fresh, FreshDeps
<1>2. CASE req'[r].at \notin {"open", "checked"}
  BY <1>2
<1> QED
  BY <1>1, <1>2

\* Every step keeps what a request that is not stale knows of the store.
LEMMA FreshHolds == NodesTypeOK /\ Fresh /\ [NodesNext]_nodesVars => Fresh'
<1> SUFFICES ASSUME NodesTypeOK, Fresh, [NodesNext]_nodesVars PROVE Fresh'
  OBVIOUS
<1>m. Users \subseteq Requests /\ Machines \subseteq Requests
  BY DEF Requests
<1>w. \A r \in Requests : req[r] \in Written
  BY DEF NodesTypeOK
<1>f. req \in [Requests -> Written]
  BY DEF NodesTypeOK
\* It is enough to look at the request that moves.
<1>o. ASSUME NEW q \in Requests, NEW w, req' = [req EXCEPT ![q] = w], UNCHANGED <<there, dep>>,
             ~w.stale => /\ w.at = "checked" => FreshDeps(q)'
                         /\ w.at = "open" /\ ~w.whole => \A n \in DOMAIN w.deps : w.deps[n] = dep[n]
      PROVE  Fresh'
  <2> SUFFICES ASSUME NEW r \in Requests, ~req'[r].stale
               PROVE  /\ req'[r].at = "checked" => FreshDeps(r)'
                      /\ req'[r].at = "open" /\ ~req'[r].whole =>
                            \A n \in DOMAIN req'[r].deps : req'[r].deps[n] = dep'[n]
    BY DEF Fresh
  <2>1. CASE r = q
    <3>1. req'[q] = w
      BY <1>o, <1>f
    <3> QED
      BY <1>o, <2>1, <3>1
  <2>2. CASE r # q
    <3>1. req'[r] = req[r]
      BY <1>o, <2>2, <1>f
    <3> QED
      BY <1>o, <3>1, UnwrittenLeavesFresh
  <2> QED
    BY <2>1, <2>2
<1>c. ASSUME UNCHANGED <<there, dep>> PROVE \A n, p : NoCycle(n, p)' <=> NoCycle(n, p)
  BY <1>c DEF NoCycle
<1>1. ASSUME NEW u \in Users, Open(u) PROVE Fresh'
  <2>u. UNCHANGED <<there, dep>>
    BY <1>1 DEF Open
  <2>1. CASE \E n \in there :
                req' = [req EXCEPT ![u] = [at |-> "open", deps |-> [x \in {n} |-> dep[n]],
                                           checks |-> checks[n], whole |-> TRUE, stale |-> FALSE]]
    <3>1. PICK n \in there :
                req' = [req EXCEPT ![u] = [at |-> "open", deps |-> [x \in {n} |-> dep[n]],
                                           checks |-> checks[n], whole |-> TRUE, stale |-> FALSE]]
      BY <2>1, Zenon
    <3> DEFINE w == [at |-> "open", deps |-> [x \in {n} |-> dep[n]], checks |-> checks[n],
                     whole |-> TRUE, stale |-> FALSE]
    <3>2. req' = [req EXCEPT ![u] = w]
      BY <3>1, Zenon
    <3>3. w.at = "open" /\ w.whole
      OBVIOUS
    <3> HIDE DEF w
    <3> QED
      BY <1>o, <1>m, <2>u, <3>2, <3>3
  <2>2. CASE \E S \in SUBSET there :
                req' = [req EXCEPT ![u] = [at |-> "open", deps |-> [n \in S |-> dep[n]],
                                           checks |-> {}, whole |-> FALSE, stale |-> FALSE]]
    <3>1. PICK S \in SUBSET there :
                req' = [req EXCEPT ![u] = [at |-> "open", deps |-> [n \in S |-> dep[n]],
                                           checks |-> {}, whole |-> FALSE, stale |-> FALSE]]
      BY <2>2, Zenon
    <3> DEFINE d == [n \in S |-> dep[n]]
               w == [at |-> "open", deps |-> d, checks |-> {}, whole |-> FALSE, stale |-> FALSE]
    <3>2. req' = [req EXCEPT ![u] = w]
      BY <3>1, Zenon
    <3>3. \A n \in DOMAIN d : d[n] = dep[n]
      OBVIOUS
    <3>4. w.at = "open" /\ w.deps = d
      OBVIOUS
    <3> HIDE DEF d, w
    <3> QED
      BY <1>o, <1>m, <2>u, <3>2, <3>3, <3>4
  <2> QED
    BY <1>1, <2>1, <2>2 DEF Open
<1>2. ASSUME NEW u \in Users, Leave(u) PROVE Fresh'
  BY <1>2, <1>o, <1>m DEF Leave, Idle
<1>3. ASSUME NEW u \in Users, SubmitNode(u) PROVE Fresh'
  <2>1. PICK n \in DOMAIN req[u].deps, p \in NodeIds \cup {NoNode}, kept \in SUBSET req[u].checks :
            /\ p # n
            /\ p # NoNode => NoCycle(n, p)
            /\ req' = [req EXCEPT ![u] = [at |-> "checked", deps |-> [x \in {n} |-> p],
                                          checks |-> kept, whole |-> TRUE, stale |-> FALSE]]
    BY <1>3, Zenon DEF SubmitNode
  <2> DEFINE d == [x \in {n} |-> p]
             w == [at |-> "checked", deps |-> d, checks |-> kept, whole |-> TRUE, stale |-> FALSE]
  <2>2. DOMAIN d = {n} /\ d[n] = p
    OBVIOUS
  <2>3. w.deps = d /\ w.at = "checked"
    OBVIOUS
  <2>4. req' = [req EXCEPT ![u] = w]
    BY <2>1, Zenon
  <2> HIDE DEF d, w
  <2>5. UNCHANGED <<there, dep>>
    BY <1>3 DEF SubmitNode
  <2>6. req'[u].deps = d
    BY <2>3, <2>4, <1>m, <1>f
  <2>7. FreshDeps(u)'
    <3>1. p # NoNode => NoCycle(n, p)'
      BY <2>1, <2>5, <1>c
    <3> QED
      BY <2>1, <2>2, <2>6, <3>1 DEF FreshDeps
  <2> QED
    BY <1>o, <1>m, <2>3, <2>4, <2>5, <2>7
<1>4. ASSUME NEW u \in Users, SubmitBulk(u) PROVE Fresh'
  <2> DEFINE S == DOMAIN req[u].deps
  <2>1. UNCHANGED <<there, dep>>
    BY <1>4 DEF SubmitBulk
  <2>2. ASSUME NEW p \in NodeIds \cup {NoNode}, p \notin S,
               p # NoNode => \A n \in S : NoCycle(n, p),
               req' = [req EXCEPT ![u].at = "checked", ![u].deps = [n \in S |-> p]]
        PROVE  Fresh'
    <3> DEFINE d == [n \in S |-> p]
               w == [[req[u] EXCEPT !.at = "checked"] EXCEPT !.deps = d]
    <3>1. DOMAIN d = S /\ \A n \in S : d[n] = p
      OBVIOUS
    <3>2. req' = [req EXCEPT ![u] = w]
      BY <2>2
    <3> HIDE DEF d
    <3>3. w.deps = d /\ w.at = "checked"
      BY <1>w, <1>m DEF Written
    <3> HIDE DEF w
    <3>4. req'[u].deps = d
      BY <3>2, <3>3, <1>m, <1>f
    <3>5. p # NoNode => \A n \in S : NoCycle(n, p)'
      BY <2>2, <2>1, <1>c
    <3>6. FreshDeps(u)'
      BY <2>2, <3>1, <3>4, <3>5 DEF FreshDeps
    <3> QED
      BY <1>o, <1>m, <2>1, <3>2, <3>3, <3>6
  <2>3. ASSUME req' = [req EXCEPT ![u].at = "checked"] PROVE Fresh'
    <3> DEFINE w == [req[u] EXCEPT !.at = "checked"]
    <3>1. req' = [req EXCEPT ![u] = w]
      BY <2>3
    <3>2. w.deps = req[u].deps /\ w.at = "checked" /\ w.stale = req[u].stale
      BY <1>w, <1>m DEF Written
    <3> HIDE DEF w
    <3>3. ~w.stale => \A n \in DOMAIN w.deps : w.deps[n] = dep[n]
      BY <1>4, <1>m, <3>2 DEF SubmitBulk, Fresh
    <3>4. req'[u].deps = w.deps
      BY <3>1, <1>m, <1>f
    <3>5. ~w.stale => FreshDeps(u)'
      BY <2>1, <3>3, <3>4 DEF FreshDeps
    <3> QED
      BY <1>o, <1>m, <2>1, <3>1, <3>2, <3>5
  <2> QED
    BY <1>4, <2>2, <2>3 DEF SubmitBulk
<1>5. ASSUME NEW u \in Users, Save(u) PROVE Fresh'
  BY <1>5, <1>m, WriteLeavesFresh DEF Save
<1>6. ASSUME NEW c \in Codes, CreateCode(c) \/ EndCode(c) PROVE Fresh'
  <2>1. UNCHANGED <<req, there, dep>>
    BY <1>6 DEF CreateCode, EndCode
  <2> QED
    BY <2>1, UnwrittenLeavesFresh DEF Fresh
<1>7. ASSUME NEW m \in Machines, NEW c \in Codes, Redeem(m, c) PROVE Fresh'
  <2>1. req' = [req EXCEPT ![m] = [req[m] EXCEPT !.at = "claimed"]]
    BY <1>7 DEF Redeem
  <2>2. [req[m] EXCEPT !.at = "claimed"].at = "claimed"
    BY <1>w, <1>m DEF Written
  <2> QED
    BY <1>7, <1>o, <1>m, <2>1, <2>2 DEF Redeem
<1>8. ASSUME NEW m \in Machines, RegisterFails(m) PROVE Fresh'
  BY <1>8, <1>o, <1>m DEF RegisterFails, Idle
<1>9. ASSUME NEW m \in Machines, ReadToBind(m) PROVE Fresh'
  <2> DEFINE n == NodeOf(m)
             d == [x \in {n} |-> dep[n]]
             w == [at |-> "checked", deps |-> d, checks |-> (checks[n] \ {Waiting}) \cup {m},
                   whole |-> TRUE, stale |-> FALSE]
  <2>1. \A x \in DOMAIN d : d[x] = dep[x]
    OBVIOUS
  <2>2. w.deps = d /\ w.at = "checked"
    OBVIOUS
  <2>3. req' = [req EXCEPT ![m] = w] /\ UNCHANGED <<there, dep>>
    BY <1>9 DEF ReadToBind
  <2> HIDE DEF d, w
  <2>4. req'[m].deps = d
    BY <2>2, <2>3, <1>m, <1>f
  <2>5. FreshDeps(m)'
    BY <2>1, <2>3, <2>4 DEF FreshDeps
  <2> QED
    BY <1>o, <1>m, <2>2, <2>3, <2>5
<1>10. ASSUME NEW m \in Machines, Bind(m) PROVE Fresh'
  BY <1>10, <1>m, WriteLeavesFresh DEF Bind
<1>11. ASSUME NEW m \in Machines, BindFails(m) PROVE Fresh'
  <2>1. [Idle EXCEPT !.at = "unbound"].at = "unbound"
    BY DEF Idle
  <2> QED
    BY <1>11, <1>o, <1>m, <2>1 DEF BindFails
<1>12. ASSUME NEW n \in NodeIds, req' = Outdated(n) PROVE Fresh'
  <2>1. \A r \in Requests : r # n
    BY NodesAssumption DEF Requests
  <2> QED
    BY <1>12, <1>f, <2>1, NothingElseFresh DEF Fresh
<1>13. CASE UNCHANGED nodesVars
  BY <1>13, UnwrittenLeavesFresh DEF Fresh, nodesVars
<1>14. CASE Edit
  BY <1>14, <1>1, <1>2, <1>3, <1>4, <1>5 DEF Edit
<1>15. CASE Pair
  BY <1>15, <1>6, <1>7, <1>8, <1>9, <1>10, <1>11 DEF Pair
<1> QED
  BY <1>12, <1>13, <1>14, <1>15 DEF NodesNext, Delete, Create

-----------------------------------------------------------------------------
(* No loop.                                                                *)

\* A write that is not stale closes no loop.
LEMMA WriteMakesNoLoop ==
    ASSUME NodesTypeOK, Fresh, NoLoopUnlessOverlapped, NEW r \in Requests, Write(r)
    PROVE  NoLoopUnlessOverlapped'
<1> SUFFICES ASSUME ~overlapped', NEW S \in SUBSET there, S # {}
             PROVE  \E n \in S : dep'[n] \notin S
  BY DEF NoLoopUnlessOverlapped, NoLoop, Write
<1>1. ~overlapped /\ ~req[r].stale /\ NoLoop
  BY DEF Write, NoLoopUnlessOverlapped
<1>2. FreshDeps(r)
  BY <1>1 DEF Fresh, Write
<1> DEFINE D == DOMAIN req[r].deps
<1>3. D \in SUBSET there /\ S \subseteq NodeIds /\ \A n \in D : req[r].deps[n] \in there \cup {NoNode}
  BY DEF Write, Writable, NodesTypeOK
<1>4. \A n \in S : dep'[n] = IF n \in D THEN req[r].deps[n] ELSE dep[n]
  BY <1>3 DEF Write
<1>5. CASE \A n \in D : req[r].deps[n] = dep[n]
  BY <1>1, <1>4, <1>5 DEF NoLoop
<1>6. ASSUME NEW p \in NodeIds \cup {NoNode}, \A n \in D : req[r].deps[n] = p, p \notin D,
             p # NoNode => \A n \in D : NoCycle(n, p)
      PROVE  \E n \in S : dep'[n] \notin S
  <2>1. CASE D = {}
    BY <1>1, <1>4, <2>1 DEF NoLoop
  <2>2. CASE D # {}
    <3>1. p \in there \cup {NoNode}
      BY <1>3, <1>6, <2>2
    <3>2. \E n \in S : (IF n \in D THEN p ELSE dep[n]) \notin S
      BY <1>1, <1>3, <1>6, <3>1, ReparentingMakesNoLoop
    <3> QED
      BY <1>4, <1>6, <3>2
  <2> QED
    BY <2>1, <2>2
<1> QED
  BY <1>2, <1>5, <1>6 DEF FreshDeps

\* Every step keeps the nodes free of loops.
LEMMA LoopHolds ==
    NodesTypeOK /\ Fresh /\ NoLoopUnlessOverlapped /\ [NodesNext]_nodesVars
    => NoLoopUnlessOverlapped'
<1> SUFFICES ASSUME NodesTypeOK, Fresh, NoLoopUnlessOverlapped, [NodesNext]_nodesVars
             PROVE  NoLoopUnlessOverlapped'
  OBVIOUS
<1>m. Users \subseteq Requests /\ Machines \subseteq Requests
  BY DEF Requests
<1>u. ASSUME UNCHANGED <<there, dep, overlapped>> PROVE NoLoopUnlessOverlapped'
  BY <1>u DEF NoLoopUnlessOverlapped, NoLoop
<1>1. CASE Edit
  <2>1. PICK u \in Users : Open(u) \/ Leave(u) \/ SubmitNode(u) \/ SubmitBulk(u) \/ Save(u)
    BY <1>1 DEF Edit
  <2>2. CASE Save(u)
    BY <2>2, <1>m, WriteMakesNoLoop DEF Save
  <2>3. CASE Open(u) \/ Leave(u) \/ SubmitNode(u) \/ SubmitBulk(u)
    BY <2>3, <1>u DEF Open, Leave, SubmitNode, SubmitBulk
  <2> QED
    BY <2>1, <2>2, <2>3
<1>2. CASE Pair
  <2>1. ASSUME NEW m \in Machines, Bind(m) PROVE NoLoopUnlessOverlapped'
    BY <2>1, <1>m, WriteMakesNoLoop DEF Bind
  <2> QED
    BY <1>2, <1>u, <2>1 DEF Pair, CreateCode, EndCode, Redeem, RegisterFails, ReadToBind, BindFails
\* What is left of a set without the node deleted had a node whose parent is outside.
<1>3. ASSUME NEW n \in NodeIds, Delete(n) PROVE NoLoopUnlessOverlapped'
  <2> SUFFICES ASSUME NoLoop, NEW S \in SUBSET (there \ {n}), S # {}
               PROVE  \E x \in S : dep'[x] \notin S
    BY <1>3 DEF NoLoopUnlessOverlapped, NoLoop, Delete
  <2>1. PICK x \in S : dep[x] \notin S
    BY DEF NoLoop
  <2>2. x \in NodeIds /\ NoNode \notin S
    BY NodesAssumption DEF NodesTypeOK
  <2>3. dep'[x] = dep[x] \/ dep'[x] = NoNode
    BY <1>3, <2>2 DEF Delete
  <2> QED
    BY <2>1, <2>2, <2>3
\* No node has the new one for its parent.
<1>4. ASSUME NEW n \in NodeIds, NEW p \in NodeIds \cup {NoNode}, NEW cs \in SUBSET {Waiting},
             Create(n, p, cs)
      PROVE  NoLoopUnlessOverlapped'
  <2> SUFFICES ASSUME NoLoop, NEW S \in SUBSET (there \cup {n}), S # {}
               PROVE  \E x \in S : dep'[x] \notin S
    BY <1>4 DEF NoLoopUnlessOverlapped, NoLoop, Create
  <2>1. n \notin there /\ NoNode \notin S /\ \A x \in there : x \in NodeIds
    BY <1>4, NodesAssumption DEF Create, NodesTypeOK
  <2>2. CASE S \subseteq {n}
    <3>1. n \in S /\ dep'[n] = p /\ p # n
      BY <1>4, <2>1, <2>2, NodesAssumption DEF Create, NodesTypeOK
    <3> QED
      BY <2>2, <3>1
  <2>3. CASE ~(S \subseteq {n})
    <3>1. PICK x \in S \ {n} : dep[x] \notin S \ {n}
      BY <2>3 DEF NoLoop
    <3>2. dep'[x] = dep[x] /\ dep[x] # n
      BY <1>4, <2>1, <3>1, NodesAssumption DEF Create, NodesTypeOK
    <3> QED
      BY <3>1, <3>2
  <2> QED
    BY <2>2, <2>3
<1>5. CASE UNCHANGED nodesVars
  BY <1>5, <1>u DEF nodesVars
<1> QED
  BY <1>1, <1>2, <1>3, <1>4, <1>5 DEF NodesNext

-----------------------------------------------------------------------------
(* Codes.                                                                  *)

\* Every step keeps a code with the one machine that claimed it.
LEMMA ClaimedHolds ==
    NodesTypeOK /\ Claimed /\ OneMachineForACode /\ [NodesNext]_nodesVars
    => Claimed' /\ OneMachineForACode'
<1> SUFFICES ASSUME NodesTypeOK, Claimed, OneMachineForACode, [NodesNext]_nodesVars
             PROVE  Claimed' /\ OneMachineForACode'
  OBVIOUS
<1>m. Users \subseteq Requests /\ Machines \subseteq Requests /\ Users \cap Machines = {}
  BY NodesAssumption DEF Requests
<1>t. /\ req \in [Requests -> Written] /\ paired \in [Machines -> Codes \cup {NoCode}]
      /\ code \in [Codes -> [at : {"none", "pending", "over", "redeemed"}, node : NodeIds \cup {NoNode}]]
  BY DEF NodesTypeOK
\* Machines that stand where they stood, and codes that are as they were.
<1>u. ASSUME UNCHANGED <<code, paired>>, used \subseteq used',
             \A m \in Machines : req'[m].at = req[m].at \/ req'[m].at \notin {"claimed", "checked", "done", "open"}
      PROVE  Claimed' /\ OneMachineForACode'
  <2>1. Claimed'
    BY <1>u DEF Claimed
  <2> QED
    BY <1>u, <2>1 DEF OneMachineForACode
<1>o. ASSUME NEW r \in Requests, req' = [req EXCEPT ![r] = req'[r]], UNCHANGED <<code, paired, used>>,
             r \in Machines => /\ req'[r].at # "open"
                               /\ req'[r].at \in {"claimed", "checked", "done"} => paired[r] # NoCode
      PROVE  Claimed' /\ OneMachineForACode'
  <2>1. \A m \in Machines : m # r => req'[m] = req[m]
    BY <1>o, <1>m, <1>t
  <2>2. Claimed'
    BY <1>o, <2>1 DEF Claimed
  <2> QED
    BY <1>o, <2>2 DEF OneMachineForACode
<1>1. CASE Edit
  <2>1. PICK u \in Users : Open(u) \/ Leave(u) \/ SubmitNode(u) \/ SubmitBulk(u) \/ Save(u)
    BY <1>1 DEF Edit
  <2>2. UNCHANGED <<code, paired, used>>
    BY <2>1 DEF Open, Leave, SubmitNode, SubmitBulk, Save, Write
  <2>3. \A m \in Machines : req'[m].at = req[m].at
    <3> SUFFICES ASSUME NEW m \in Machines PROVE req'[m].at = req[m].at
      OBVIOUS
    <3>1. m # u /\ m \in Requests /\ u \in Requests
      BY <1>m
    <3>2. CASE Save(u)
      BY <3>1, <3>2, <1>t, OutdatedKeeps DEF Save, Write
    <3>3. CASE Open(u)
      BY <3>1, <3>3, <1>t DEF Open
    <3>4. CASE Leave(u)
      BY <3>1, <3>4, <1>t DEF Leave
    <3>5. CASE SubmitNode(u)
      BY <3>1, <3>5, <1>t DEF SubmitNode
    <3>6. CASE SubmitBulk(u)
      BY <3>1, <3>6, <1>t DEF SubmitBulk
    <3> QED
      BY <2>1, <3>2, <3>3, <3>4, <3>5, <3>6
  <2> QED
    BY <2>2, <2>3, <1>u
<1>2. ASSUME NEW c \in Codes, CreateCode(c) PROVE Claimed' /\ OneMachineForACode'
  <2>1. PICK n \in there : code' = [code EXCEPT ![c] = [at |-> "pending", node |-> n]]
    BY <1>2 DEF CreateCode
  <2>2. UNCHANGED <<used, req, paired>> /\ code[c].at = "none" /\ n \in used
    BY <1>2 DEF CreateCode, NodesTypeOK
  <2>3. code'[c].at = "pending" /\ code'[c].node = n /\ \A d \in Codes : d # c => code'[d] = code[d]
    BY <2>1, <1>t
  <2>4. \A m \in Machines : paired[m] # NoCode => paired[m] \in Codes /\ paired[m] # c
    BY <2>2, <1>t DEF Claimed
  <2>5. Claimed'
    BY <2>2, <2>3, <2>4 DEF Claimed
  <2> QED
    BY <2>2, <2>5 DEF OneMachineForACode
<1>3. ASSUME NEW c \in Codes, EndCode(c) PROVE Claimed' /\ OneMachineForACode'
  <2>1. UNCHANGED <<used, req, paired>> /\ code[c].at = "pending"
    BY <1>3 DEF EndCode
  <2>2. code'[c].at = "over" /\ code'[c].node = code[c].node /\ \A d \in Codes : d # c => code'[d] = code[d]
    BY <1>3, <1>t DEF EndCode
  <2>3. \A m \in Machines : paired[m] # NoCode => paired[m] \in Codes /\ paired[m] # c
    BY <2>1, <1>t DEF Claimed
  <2>4. Claimed'
    BY <2>1, <2>2, <2>3 DEF Claimed
  <2> QED
    BY <2>1, <2>4 DEF OneMachineForACode
\* A code that is pending is no machine's.
<1>4. ASSUME NEW m \in Machines, NEW c \in Codes, Redeem(m, c)
      PROVE  Claimed' /\ OneMachineForACode'
  <2>1. UNCHANGED used /\ code[c].at = "pending"
    BY <1>4 DEF Redeem
  <2>2. /\ code'[c].at = "redeemed" /\ code'[c].node = code[c].node
        /\ \A d \in Codes : d # c => code'[d] = code[d]
    BY <1>4, <1>t DEF Redeem
  <2>3. paired'[m] = c /\ \A x \in Machines : x # m => paired'[x] = paired[x]
    BY <1>4, <1>t DEF Redeem
  <2>4. req'[m].at = "claimed" /\ \A x \in Machines : x # m => req'[x] = req[x]
    <3>1. req[m] \in Written
      BY <1>m, <1>t
    <3> QED
      BY <1>4, <1>m, <1>t, <3>1 DEF Redeem, Written
  <2>5. \A x \in Machines : paired[x] # NoCode => paired[x] \in Codes /\ paired[x] # c
    BY <2>1, <1>t DEF Claimed
  <2>6. c # NoCode
    BY NodesAssumption
  <2>7. Claimed'
    BY <2>1, <2>2, <2>3, <2>4, <2>5, <2>6 DEF Claimed
  <2>8. OneMachineForACode'
    BY <2>3, <2>5, <2>6 DEF OneMachineForACode
  <2> QED
    BY <2>7, <2>8
<1>5. ASSUME NEW m \in Machines, RegisterFails(m) PROVE Claimed' /\ OneMachineForACode'
  <2>1. UNCHANGED <<used, code>>
    BY <1>5 DEF RegisterFails
  <2>2. paired'[m] = NoCode /\ \A x \in Machines : x # m => paired'[x] = paired[x]
    BY <1>5, <1>t DEF RegisterFails
  <2>3. req'[m].at = "idle" /\ \A x \in Machines : x # m => req'[x] = req[x]
    BY <1>5, <1>m, <1>t DEF RegisterFails, Idle
  <2>4. Claimed'
    BY <2>1, <2>2, <2>3 DEF Claimed
  <2> QED
    BY <2>2, <2>4 DEF OneMachineForACode
<1>6. ASSUME NEW m \in Machines, ReadToBind(m) PROVE Claimed' /\ OneMachineForACode'
  <2> DEFINE w == [at |-> "checked", deps |-> [x \in {NodeOf(m)} |-> dep[NodeOf(m)]],
                   checks |-> (checks[NodeOf(m)] \ {Waiting}) \cup {m}, whole |-> TRUE, stale |-> FALSE]
  <2>1. req' = [req EXCEPT ![m] = w] /\ UNCHANGED <<code, paired, used>> /\ req[m].at = "claimed"
    BY <1>6 DEF ReadToBind
  <2>2. w.at = "checked"
    OBVIOUS
  <2> HIDE DEF w
  <2>3. req'[m] = w
    BY <2>1, <1>m, <1>t
  <2> QED
    BY <1>o, <1>m, <2>1, <2>2, <2>3 DEF Claimed
<1>7. ASSUME NEW m \in Machines, Bind(m) PROVE Claimed' /\ OneMachineForACode'
  <2>1. UNCHANGED <<code, paired, used>> /\ paired[m] # NoCode
    BY <1>7 DEF Bind, Write, Claimed
  <2>2. m \in Requests /\ m \notin Users
    BY <1>m
  <2>3. req'[m].at = "done"
    BY <1>7, <2>2, <1>t, OutdatedKeeps DEF Bind, Write, Idle
  <2>4. \A x \in Machines : x # m => req'[x].at = req[x].at
    BY <1>7, <1>m, <2>2, <1>t, OutdatedKeeps DEF Bind, Write
  <2>5. Claimed'
    BY <2>1, <2>3, <2>4 DEF Claimed
  <2> QED
    BY <2>1, <2>5 DEF OneMachineForACode
<1>8. ASSUME NEW m \in Machines, BindFails(m) PROVE Claimed' /\ OneMachineForACode'
  <2>1. UNCHANGED <<code, paired, used>> /\ req' = [req EXCEPT ![m] = [Idle EXCEPT !.at = "unbound"]]
    BY <1>8 DEF BindFails
  <2>2. req'[m].at = "unbound" /\ \A x \in Machines : x # m => req'[x] = req[x]
    BY <2>1, <1>m, <1>t DEF Idle
  <2> QED
    BY <2>1, <2>2, <1>u
<1>9. CASE Pair
  BY <1>9, <1>2, <1>3, <1>4, <1>5, <1>6, <1>7, <1>8 DEF Pair
<1>10. ASSUME NEW n \in NodeIds, Delete(n) PROVE Claimed' /\ OneMachineForACode'
  BY <1>10, <1>m, <1>t, <1>u, OutdatedKeeps DEF Delete
<1>11. ASSUME NEW n \in NodeIds, NEW p \in NodeIds \cup {NoNode}, NEW cs \in SUBSET {Waiting},
              Create(n, p, cs)
       PROVE  Claimed' /\ OneMachineForACode'
  BY <1>11, <1>m, <1>t, <1>u, OutdatedKeeps DEF Create
<1>12. CASE UNCHANGED nodesVars
  BY <1>12, <1>u DEF nodesVars
<1> QED
  BY <1>1, <1>9, <1>10, <1>11, <1>12 DEF NodesNext

-----------------------------------------------------------------------------
(* What a machine writes, and what becomes of its check.                   *)

\* The node of a machine that has come in on a code.
LEMMA NodeOfPaired ==
    ASSUME NodesTypeOK, Claimed, NEW m \in Machines, paired[m] # NoCode
    PROVE  paired[m] \in Codes /\ code[paired[m]].at = "redeemed" /\ NodeOf(m) \in used /\ NodeOf(m) \in NodeIds
BY DEF NodesTypeOK, Claimed, NodeOf

\* It stays that machine's.
LEMMA NodeOfStays ==
    ASSUME NodesTypeOK, Claimed, [NodesNext]_nodesVars, NEW m \in Machines,
           paired[m] # NoCode, paired'[m] = paired[m]
    PROVE  NodeOf(m)' = NodeOf(m)
<1>1. paired[m] \in Codes /\ code[paired[m]].at = "redeemed"
  BY NodeOfPaired
<1>2. code' = code \/ \E c \in Codes : /\ code[c].at \in {"none", "pending"}
                                      /\ \A d \in Codes : d # c => code'[d] = code[d]
  <2>1. CASE Pair
    <3>1. ASSUME NEW c \in Codes, CreateCode(c)
          PROVE  code[c].at = "none" /\ \A d \in Codes : d # c => code'[d] = code[d]
      BY <3>1 DEF CreateCode, NodesTypeOK
    <3>2. ASSUME NEW c \in Codes, EndCode(c)
          PROVE  code[c].at = "pending" /\ \A d \in Codes : d # c => code'[d] = code[d]
      BY <3>2 DEF EndCode, NodesTypeOK
    <3>3. ASSUME NEW x \in Machines, NEW c \in Codes, Redeem(x, c)
          PROVE  code[c].at = "pending" /\ \A d \in Codes : d # c => code'[d] = code[d]
      BY <3>3 DEF Redeem, NodesTypeOK
    <3> QED
      BY <2>1, <3>1, <3>2, <3>3 DEF Pair, RegisterFails, ReadToBind, Bind, Write, BindFails
  <2>2. CASE Edit
    BY <2>2 DEF Edit, Open, Leave, SubmitNode, SubmitBulk, Save, Write
  <2> QED
    BY <2>1, <2>2 DEF NodesNext, Delete, Create, nodesVars
<1> QED
  BY <1>1, <1>2 DEF NodeOf

\* What a write by another leaves of a reading is old.
LEMMA OutdatedCompletes ==
    ASSUME NodesTypeOK, Completing, NEW q, NEW m \in Machines, m # q,
           req'[m] = Outdated(q)[m], req'[m].at = "checked", NodeOf(m)' = NodeOf(m)
    PROVE  Completes(m)'
<1>1. m \in Requests
  BY DEF Requests
<1>2. /\ req'[m].at = req[m].at /\ req'[m].deps = req[m].deps /\ req'[m].checks = req[m].checks
      /\ req'[m].whole = req[m].whole /\ (Reading(m) => req'[m].stale)
  BY <1>1, OutdatedKeeps DEF NodesTypeOK
<1> QED
  BY <1>2 DEF Completing, Completes, Reading

\* Every step keeps what a pairing that is not stale will write enough for its machine.
LEMMA CompletingHolds ==
    NodesTypeOK /\ Claimed /\ Completing /\ [NodesNext]_nodesVars => Completing'
<1> SUFFICES ASSUME NodesTypeOK, Claimed, Completing, [NodesNext]_nodesVars,
                    NEW m \in Machines, req'[m].at = "checked"
             PROVE  Completes(m)'
  BY DEF Completing
<1>m. Users \subseteq Requests /\ m \in Requests /\ m \notin Users /\ Machines \subseteq Requests
  BY NodesAssumption DEF Requests
<1>t. req \in [Requests -> Written]
  BY DEF NodesTypeOK
<1>n. ASSUME req[m].at = "checked", paired' = paired PROVE NodeOf(m)' = NodeOf(m)
  BY <1>n, NodeOfStays DEF Claimed
<1>u. ASSUME req'[m] = req[m], NodeOf(m)' = NodeOf(m), UNCHANGED checks PROVE Completes(m)'
  <2>1. Completes(m)
    BY <1>u DEF Completing
  <2> QED
    BY <1>u, <2>1 DEF Completes
<1>1. CASE Edit
  <2>1. PICK u \in Users : Open(u) \/ Leave(u) \/ SubmitNode(u) \/ SubmitBulk(u) \/ Save(u)
    BY <1>1 DEF Edit
  <2>2. m # u
    BY <1>m
  <2>3. CASE Save(u)
    <3>1. req'[m] = Outdated(u)[m] /\ paired' = paired
      BY <1>m, <2>2, <2>3, <1>t, OutdatedKeeps DEF Save, Write
    <3>2. req[m].at = "checked"
      BY <3>1, <1>m, <1>t, OutdatedKeeps
    <3> QED
      BY <2>2, <3>1, <3>2, <1>n, OutdatedCompletes
  <2>4. CASE Open(u) \/ Leave(u) \/ SubmitNode(u) \/ SubmitBulk(u)
    <3>1. UNCHANGED <<checks, paired>>
      BY <2>4 DEF Open, Leave, SubmitNode, SubmitBulk
    <3>2. CASE Open(u)
      BY <1>m, <1>n, <1>u, <2>2, <1>t, <3>1, <3>2 DEF Open
    <3>3. CASE Leave(u)
      BY <1>m, <1>n, <1>u, <2>2, <1>t, <3>1, <3>3 DEF Leave
    <3>4. CASE SubmitNode(u)
      BY <1>m, <1>n, <1>u, <2>2, <1>t, <3>1, <3>4 DEF SubmitNode
    <3>5. CASE SubmitBulk(u)
      BY <1>m, <1>n, <1>u, <2>2, <1>t, <3>1, <3>5 DEF SubmitBulk
    <3> QED
      BY <2>4, <3>2, <3>3, <3>4, <3>5
  <2> QED
    BY <2>1, <2>3, <2>4
<1>2. ASSUME NEW c \in Codes, CreateCode(c) \/ EndCode(c) PROVE Completes(m)'
  BY <1>2, <1>n, <1>u DEF CreateCode, EndCode
<1>3. ASSUME NEW x \in Machines, NEW c \in Codes, Redeem(x, c) PROVE Completes(m)'
  <2>1. x # m
    <3> SUFFICES ASSUME x = m PROVE FALSE
      OBVIOUS
    <3>1. req'[m] = [req[m] EXCEPT !.at = "claimed"] /\ req[m] \in Written
      BY <1>3, <1>m, <1>t DEF Redeem
    <3> QED
      BY <3>1 DEF Written
  <2>2. req'[m] = req[m] /\ paired'[m] = paired[m] /\ checks' = checks
    BY <1>3, <2>1, <1>m, <1>t DEF Redeem, NodesTypeOK
  <2> QED
    BY <2>2, <1>u, NodeOfStays DEF Claimed
<1>4. ASSUME NEW x \in Machines, RegisterFails(x) PROVE Completes(m)'
  <2>1. x # m
    BY <1>4, <1>m, <1>t DEF RegisterFails, Idle
  <2>2. req'[m] = req[m] /\ paired'[m] = paired[m] /\ checks' = checks
    BY <1>4, <2>1, <1>m, <1>t DEF RegisterFails, NodesTypeOK
  <2> QED
    BY <2>2, <1>u, NodeOfStays DEF Claimed
<1>5. ASSUME NEW x \in Machines, ReadToBind(x) PROVE Completes(m)'
  <2>1. CASE x # m
    BY <1>5, <2>1, <1>m, <1>t, <1>n, <1>u DEF ReadToBind
  <2>2. CASE x = m
    <3> DEFINE n == NodeOf(m)
               d == [y \in {n} |-> dep[n]]
               w == [at |-> "checked", deps |-> d, checks |-> (checks[n] \ {Waiting}) \cup {m},
                     whole |-> TRUE, stale |-> FALSE]
    <3>1. DOMAIN d = {n}
      OBVIOUS
    <3>2. w.deps = d /\ w.checks = (checks[n] \ {Waiting}) \cup {m} /\ w.whole
      OBVIOUS
    <3>3. req' = [req EXCEPT ![m] = w] /\ UNCHANGED <<checks, code, paired>>
      BY <1>5, <2>2 DEF ReadToBind
    <3> HIDE DEF d, w
    <3>4. req'[m] = w
      BY <3>3, <1>m, <1>t
    <3> QED
      BY <3>1, <3>2, <3>3, <3>4 DEF Completes, NodeOf
  <2> QED
    BY <2>1, <2>2
<1>6. ASSUME NEW x \in Machines, Bind(x) PROVE Completes(m)'
  <2>1. x # m
    BY <1>6, <1>m, <1>t, OutdatedKeeps DEF Bind, Write, Idle
  <2>2. req'[m] = Outdated(x)[m] /\ paired' = paired
    BY <1>6, <2>1, <1>m, <1>t, OutdatedKeeps DEF Bind, Write
  <2>3. req[m].at = "checked"
    BY <2>2, <1>m, <1>t, OutdatedKeeps
  <2> QED
    BY <2>1, <2>2, <2>3, <1>n, OutdatedCompletes
<1>7. ASSUME NEW x \in Machines, BindFails(x) PROVE Completes(m)'
  <2>1. x # m
    BY <1>7, <1>m, <1>t DEF BindFails, Idle
  <2> QED
    BY <1>7, <2>1, <1>m, <1>t, <1>n, <1>u DEF BindFails
<1>8. ASSUME NEW n \in NodeIds, req' = Outdated(n), paired' = paired PROVE Completes(m)'
  <2>1. m # n
    BY NodesAssumption
  <2>2. req[m].at = "checked"
    BY <1>8, <1>m, <1>t, OutdatedKeeps
  <2> QED
    BY <1>8, <2>1, <2>2, <1>n, OutdatedCompletes
<1>9. CASE UNCHANGED nodesVars
  BY <1>9, <1>n, <1>u DEF nodesVars
<1>10. CASE Pair
  BY <1>10, <1>2, <1>3, <1>4, <1>5, <1>6, <1>7 DEF Pair
<1> QED
  BY <1>1, <1>8, <1>9, <1>10 DEF NodesNext, Delete, Create

\* Every step keeps a paired machine watched.
LEMMA WatchedHolds ==
    NodesTypeOK /\ Claimed /\ Completing /\ Watched /\ [NodesNext]_nodesVars => Watched'
<1> SUFFICES ASSUME NodesTypeOK, Claimed, Completing, Watched, [NodesNext]_nodesVars,
                    NEW m \in Machines, req'[m].at = "done", ~overlapped'
             PROVE  m \in checks'[NodeOf(m)'] \/ m \in removed' \/ NodeOf(m)' \notin there'
  BY DEF Watched
<1>m. Users \subseteq Requests /\ m \in Requests /\ m \notin Users /\ Machines \subseteq Requests
  BY NodesAssumption DEF Requests
<1>t. req \in [Requests -> Written]
  BY DEF NodesTypeOK
\* A machine that was there before.
<1>d. ASSUME req[m].at = "done", ~overlapped, paired' = paired
      PROVE  /\ NodeOf(m)' = NodeOf(m) /\ NodeOf(m) \in used /\ NodeOf(m) \in NodeIds
             /\ m \in checks[NodeOf(m)] \/ m \in removed \/ NodeOf(m) \notin there
  BY <1>d, NodeOfStays, NodeOfPaired DEF Claimed, Watched
<1>u. ASSUME req[m].at = "done", UNCHANGED <<there, checks, overlapped, removed, paired>>
      PROVE  m \in checks'[NodeOf(m)'] \/ m \in removed' \/ NodeOf(m)' \notin there'
  BY <1>u, <1>d
<1>1. CASE Edit
  <2>1. PICK u \in Users : Open(u) \/ Leave(u) \/ SubmitNode(u) \/ SubmitBulk(u) \/ Save(u)
    BY <1>1 DEF Edit
  <2>2. m # u
    BY <1>m
  <2>3. CASE Save(u)
    <3>1. req'[m].at = req[m].at /\ ~overlapped /\ UNCHANGED <<paired, there>>
      BY <1>m, <2>2, <2>3, <1>t, OutdatedKeeps DEF Save, Write
    <3>2. removed' = removed \cup {x \in Machines :
                        \E n \in NodeIds : x \in checks[n] /\ x \notin checks'[n]}
      BY <2>3 DEF Save
    <3> QED
      BY <3>1, <3>2, <1>d
  <2>4. CASE Open(u) \/ Leave(u) \/ SubmitNode(u) \/ SubmitBulk(u)
    <3>1. UNCHANGED <<there, checks, overlapped, removed, paired>>
      BY <2>4 DEF Open, Leave, SubmitNode, SubmitBulk
    <3>2. CASE Open(u)
      BY <1>m, <1>u, <2>2, <1>t, <3>1, <3>2 DEF Open
    <3>3. CASE Leave(u)
      BY <1>m, <1>u, <2>2, <1>t, <3>1, <3>3 DEF Leave
    <3>4. CASE SubmitNode(u)
      BY <1>m, <1>u, <2>2, <1>t, <3>1, <3>4 DEF SubmitNode
    <3>5. CASE SubmitBulk(u)
      BY <1>m, <1>u, <2>2, <1>t, <3>1, <3>5 DEF SubmitBulk
    <3> QED
      BY <2>4, <3>2, <3>3, <3>4, <3>5
  <2> QED
    BY <2>1, <2>3, <2>4
<1>2. ASSUME NEW c \in Codes, CreateCode(c) \/ EndCode(c)
      PROVE  m \in checks'[NodeOf(m)'] \/ m \in removed' \/ NodeOf(m)' \notin there'
  BY <1>2, <1>u DEF CreateCode, EndCode
\* The others pair, or fail to: m is not one of them, for it is not done after that.
<1>3. ASSUME NEW x \in Machines, req' = [req EXCEPT ![x] = req'[x]], req'[x].at # "done",
             UNCHANGED <<there, checks, overlapped, removed>>,
             \A y \in Machines : y # x => paired'[y] = paired[y]
      PROVE  m \in checks'[NodeOf(m)'] \/ m \in removed' \/ NodeOf(m)' \notin there'
  <2>1. x # m
    BY <1>3
  <2>2. req[m].at = "done" /\ paired'[m] = paired[m]
    BY <1>3, <2>1, <1>m, <1>t
  <2>3. NodeOf(m)' = NodeOf(m)
    BY <2>2, NodeOfStays DEF Claimed
  <2> QED
    BY <1>3, <2>2, <2>3 DEF Watched
<1>4. ASSUME NEW x \in Machines, NEW c \in Codes, Redeem(x, c)
      PROVE  m \in checks'[NodeOf(m)'] \/ m \in removed' \/ NodeOf(m)' \notin there'
  <2>1. req[x] \in Written
    BY <1>m, <1>t
  <2>2. req'[x].at = "claimed"
    BY <1>4, <2>1, <1>m, <1>t DEF Redeem, Written
  <2>3. req' = [req EXCEPT ![x] = req'[x]]
    BY <1>4, <1>m, <1>t DEF Redeem
  <2>4. \A y \in Machines : y # x => paired'[y] = paired[y]
    BY <1>4 DEF Redeem, NodesTypeOK
  <2> QED
    BY <1>4, <1>3, <2>2, <2>3, <2>4 DEF Redeem
<1>5. ASSUME NEW x \in Machines, RegisterFails(x)
      PROVE  m \in checks'[NodeOf(m)'] \/ m \in removed' \/ NodeOf(m)' \notin there'
  <2>1. req'[x].at = "idle" /\ req' = [req EXCEPT ![x] = req'[x]]
    BY <1>5, <1>m, <1>t DEF RegisterFails, Idle
  <2>2. \A y \in Machines : y # x => paired'[y] = paired[y]
    BY <1>5 DEF RegisterFails, NodesTypeOK
  <2> QED
    BY <1>5, <1>3, <2>1, <2>2 DEF RegisterFails
<1>6. ASSUME NEW x \in Machines, ReadToBind(x)
      PROVE  m \in checks'[NodeOf(m)'] \/ m \in removed' \/ NodeOf(m)' \notin there'
  <2> DEFINE n == NodeOf(x)
             w == [at |-> "checked", deps |-> [y \in {n} |-> dep[n]],
                   checks |-> (checks[n] \ {Waiting}) \cup {x}, whole |-> TRUE, stale |-> FALSE]
  <2>1. req' = [req EXCEPT ![x] = w]
    BY <1>6 DEF ReadToBind
  <2>2. w.at = "checked"
    OBVIOUS
  <2> HIDE DEF w
  <2>3. req'[x].at = "checked" /\ req' = [req EXCEPT ![x] = req'[x]]
    BY <2>1, <2>2, <1>m, <1>t
  <2> QED
    BY <1>6, <1>3, <2>3 DEF ReadToBind
<1>7. ASSUME NEW x \in Machines, BindFails(x)
      PROVE  m \in checks'[NodeOf(m)'] \/ m \in removed' \/ NodeOf(m)' \notin there'
  <2>1. req'[x].at = "unbound" /\ req' = [req EXCEPT ![x] = req'[x]]
    BY <1>7, <1>m, <1>t DEF BindFails, Idle
  <2> QED
    BY <1>7, <1>3, <2>1 DEF BindFails
\* One writes what it has read of its node, and its own check; nothing was written since.
<1>8. ASSUME NEW x \in Machines, Bind(x)
      PROVE  m \in checks'[NodeOf(m)'] \/ m \in removed' \/ NodeOf(m)' \notin there'
  <2>1. /\ req[x].at = "checked" /\ ~overlapped /\ ~req[x].stale
        /\ UNCHANGED <<there, removed, paired>>
    BY <1>8 DEF Bind, Write
  <2>2. /\ req[x].whole /\ DOMAIN req[x].deps = {NodeOf(x)} /\ x \in req[x].checks
        /\ checks[NodeOf(x)] \subseteq req[x].checks \cup {Waiting}
    BY <2>1 DEF Completing, Completes
  <2>3. \A n \in NodeIds : checks'[n] = IF n = NodeOf(x) THEN req[x].checks ELSE checks[n]
    BY <1>8, <2>2 DEF Bind, Write
  <2>4. m # Waiting
    BY NodesAssumption
  <2>5. CASE x = m
    <3>1. NodeOf(m)' = NodeOf(m) /\ NodeOf(m) \in NodeIds
      BY <2>1, <2>5, NodeOfStays, NodeOfPaired DEF Claimed
    <3> QED
      BY <2>2, <2>3, <2>5, <3>1
  <2>6. CASE x # m
    <3>1. req[m].at = "done"
      BY <1>8, <2>6, <1>m, <1>t, OutdatedKeeps DEF Bind, Write
    <3> QED
      BY <2>1, <2>2, <2>3, <2>4, <3>1, <1>d
  <2> QED
    BY <2>5, <2>6
<1>9. CASE Pair
  BY <1>9, <1>2, <1>4, <1>5, <1>6, <1>7, <1>8 DEF Pair
<1>10. ASSUME NEW n \in NodeIds, Delete(n)
       PROVE  m \in checks'[NodeOf(m)'] \/ m \in removed' \/ NodeOf(m)' \notin there'
  <2>1. req[m].at = "done" /\ ~overlapped /\ UNCHANGED <<paired, removed>>
    BY <1>10, <1>m, <1>t, OutdatedKeeps DEF Delete
  <2>2. there' = there \ {n} /\ \A y \in NodeIds : y # n => checks'[y] = checks[y]
    BY <1>10 DEF Delete, NodesTypeOK
  <2> QED
    BY <2>1, <2>2, <1>d
<1>11. ASSUME NEW n \in NodeIds, NEW p \in NodeIds \cup {NoNode}, NEW cs \in SUBSET {Waiting},
              Create(n, p, cs)
       PROVE  m \in checks'[NodeOf(m)'] \/ m \in removed' \/ NodeOf(m)' \notin there'
  <2>1. req[m].at = "done" /\ ~overlapped /\ UNCHANGED <<paired, removed>>
    BY <1>11, <1>m, <1>t, OutdatedKeeps DEF Create
  <2>2. n \notin used /\ there' = there \cup {n} /\ \A y \in NodeIds : y # n => checks'[y] = checks[y]
    BY <1>11 DEF Create, NodesTypeOK
  <2> QED
    BY <2>1, <2>2, <1>d
<1>12. CASE UNCHANGED nodesVars
  BY <1>12, <1>u DEF nodesVars
<1> QED
  BY <1>1, <1>9, <1>10, <1>11, <1>12 DEF NodesNext

-----------------------------------------------------------------------------
(* The invariant, and what follows.                                        *)

\* The invariant holds at first.
LEMMA NodesInvInit == NodesInit => NodesInv
<1> SUFFICES ASSUME NodesInit PROVE NodesInv
  OBVIOUS
<1>1. \A r \in Requests : req[r] = Idle
  BY DEF NodesInit
<1>2. Idle.at = "idle"
  BY DEF Idle
<1>3. NodesTypeOK
  BY IdleWritten DEF NodesInit, NodesTypeOK, Checks
<1>4. Fresh
  BY <1>1, <1>2 DEF Fresh
<1>5. NoLoopUnlessOverlapped
  BY DEF NodesInit, NoLoopUnlessOverlapped, NoLoop
<1>6. \A m \in Machines : req[m].at = "idle" /\ paired[m] = NoCode
  BY <1>1, <1>2 DEF Requests, NodesInit
<1>7. Claimed
  BY <1>6 DEF Claimed, NodesInit
<1>8. OneMachineForACode /\ Completing /\ Watched
  BY <1>6 DEF OneMachineForACode, Completing, Watched
<1> QED
  BY <1>3, <1>4, <1>5, <1>7, <1>8 DEF NodesInv

\* Every step keeps the invariant.
LEMMA NodesInvNext == NodesInv /\ [NodesNext]_nodesVars => NodesInv'
BY NodesTypesHold, FreshHolds, LoopHolds, ClaimedHolds, CompletingHolds, WatchedHolds DEF NodesInv

\* What the invariant says of a machine whose pairing is over.
LEMMA WatchedImplies == NodesInv => WatchedUnlessOverlapped
<1> SUFFICES ASSUME NodesInv, NEW m \in Machines, req[m].at = "done", ~overlapped
             PROVE  (\E n \in there : m \in checks[n]) \/ m \in removed \/ NodeOf(m) \notin there
  BY DEF WatchedUnlessOverlapped
<1>1. m \in checks[NodeOf(m)] \/ m \in removed \/ NodeOf(m) \notin there
  BY DEF NodesInv, Watched
<1> QED
  BY <1>1

\* The inductive invariant holds in every state the requests can reach.
THEOREM NodesInvariant == NodesSpec => []NodesInv
<1>1. NodesInit => NodesInv
  BY NodesInvInit
<1>2. NodesInv /\ [NodesNext]_nodesVars => NodesInv'
  BY NodesInvNext
<1> QED
  BY <1>1, <1>2, PTL DEF NodesSpec

\* Nodes, parents, checks, requests and codes keep their types; a parent is a node
\* there is (store.go: foreign keys are on).
THEOREM NodesTypes == NodesSpec => []NodesTypeOK
<1>1. NodesInv => NodesTypeOK
  BY DEF NodesInv
<1> QED
  BY <1>1, NodesInvariant, PTL

\* Whatever saves, bulk edits, deletions, creations and pairings there are, and in any
\* order, no node comes to be above itself, unless one wrote after something it had not
\* read (api.go checkDependencyCycle).
THEOREM NoLoops == NodesSpec => []NoLoopUnlessOverlapped
<1>1. NodesInv => NoLoopUnlessOverlapped
  BY DEF NodesInv
<1> QED
  BY <1>1, NodesInvariant, PTL

\* A machine paired with a node has its check there, until a person takes it out or
\* deletes the node, unless writes overlapped (api/hosts.go bindMachineCheck).
THEOREM MachinesWatched == NodesSpec => []WatchedUnlessOverlapped
<1>1. NodesInv => WatchedUnlessOverlapped
  BY WatchedImplies
<1> QED
  BY <1>1, NodesInvariant, PTL

\* No two machines come in on the same code (store/hosts.go RedeemPairingCode).
THEOREM CodesAreOnce == NodesSpec => []OneMachineForACode
<1>1. NodesInv => OneMachineForACode
  BY DEF NodesInv
<1> QED
  BY <1>1, NodesInvariant, PTL
=============================================================================
