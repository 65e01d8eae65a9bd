------------------------------- MODULE Nodes --------------------------------
(***************************************************************************)
(* Who may change a node, and how: the requests that save one node whole   *)
(* (api.go handleUpdateNode), or the columns of several (bulk.go), delete  *)
(* and create them, and the pairing of a machine, which ends by pointing a *)
(* hardware check of its node at it (api/hosts.go handlePair).             *)
(*                                                                         *)
(* Each of them reads the store, decides, and writes in a transaction of   *)
(* its own what it has made of what it read; requests are served side by   *)
(* side.  Of a node only its parent and its hardware checks are kept, and  *)
(* of a check whom it reads.                                               *)
(***************************************************************************)
EXTENDS FiniteSets

CONSTANTS
    NodeIds,    \* nodes there are or may be
    Users,      \* bound: requests of people under way at one time
    Codes,      \* pairing codes
    Machines    \* machines that may be paired

CONSTANTS NoNode, Waiting, NoCode   \* no parent; a check that waits for a machine

ASSUME NodesAssumption ==
    /\ NoNode \notin NodeIds
    /\ Waiting \notin Machines /\ NoCode \notin Codes
    /\ Users \cap Machines = {} /\ NodeIds \cap (Users \cup Machines) = {}

Requests == Users \cup Machines
Checks == SUBSET (Machines \cup {Waiting})
Deps == UNION {[S -> NodeIds \cup {NoNode}] : S \in SUBSET NodeIds}
Written == [at : {"idle", "open", "checked", "claimed", "done", "unbound"},
            deps : Deps, checks : Checks, whole : BOOLEAN, stale : BOOLEAN]
Idle == [at |-> "idle", deps |-> [n \in {} |-> NoNode], checks |-> {}, whole |-> FALSE, stale |-> FALSE]

VARIABLES
    there,      \* the nodes there are
    used,       \* ids given out so far (AUTOINCREMENT gives none out again)
    dep,        \* nodes.depends_on_node_id, NoNode for none
    checks,     \* whom the hardware checks of each node read
    req,        \* the requests: where each stands, and what it is going to write:
                \* parents, and all the checks if it is a whole node
    code,       \* the pairing codes: how each stands, and its node
    paired,     \* machines registered, with the code each came in on
    overlapped, \* history: a request wrote after something it had not read
    removed     \* history: machines whose check a person's save left out

nodesVars == <<there, used, dep, checks, req, code, paired, overlapped, removed>>

NodesInit ==
    /\ there = {} /\ used = {}
    /\ dep = [n \in NodeIds |-> NoNode] /\ checks = [n \in NodeIds |-> {}]
    /\ req = [r \in Requests |-> Idle]
    /\ code = [c \in Codes |-> [at |-> "none", node |-> NoNode]]
    /\ paired = [m \in Machines |-> NoCode]
    /\ overlapped = FALSE /\ removed = {}

-----------------------------------------------------------------------------
(* What the requests read.                                                 *)

\* (A fault: only the parent itself is looked at.)
NoCycleParent(n, p) == p \in there /\ p # n /\ dep[p] # n

\* checkDependencyCycle(n, p): the walk from p to the top neither meets n nor comes
\* by a node twice, and so the nodes it visits are all there is above p.
NoCycle(n, p) ==
    \E above \in SUBSET there :
        /\ p \in above /\ n \notin above
        /\ \A x \in above : dep[x] \in above \cup {NoNode}

\* A person opens a node, or selects several.
Open(u) ==
    /\ req[u] = Idle
    /\ \/ \E n \in there :
            req' = [req EXCEPT ![u] = [at |-> "open", deps |-> [x \in {n} |-> dep[n]],
                                       checks |-> checks[n], whole |-> TRUE,
                                       stale |-> FALSE]]
       \/ \E S \in SUBSET there :
            /\ S # {}
            /\ req' = [req EXCEPT ![u] = [at |-> "open", deps |-> [n \in S |-> dep[n]],
                                          checks |-> {}, whole |-> FALSE,
                                          stale |-> FALSE]]
    /\ UNCHANGED <<there, used, dep, checks, code, paired, overlapped, removed>>

\* The screen is left, or the request refused.
Leave(u) ==
    /\ req[u].at \in {"open", "checked"}
    /\ req' = [req EXCEPT ![u] = Idle]
    /\ UNCHANGED <<there, used, dep, checks, code, paired, overlapped, removed>>

\* handleUpdateNode, as far as the save: the parent, whether or not it is another one,
\* must not bring a loop; checks may have been taken out.
SubmitNode(u) ==
    /\ req[u].at = "open" /\ req[u].whole
    /\ \E n \in DOMAIN req[u].deps, p \in NodeIds \cup {NoNode}, kept \in SUBSET req[u].checks :
        /\ p # n
        /\ p # NoNode => NoCycle(n, p)
        /\ req' = [req EXCEPT ![u] = [at |-> "checked", deps |-> [x \in {n} |-> p],
                                      checks |-> kept, whole |-> TRUE, stale |-> FALSE]]
    /\ UNCHANGED <<there, used, dep, checks, code, paired, overlapped, removed>>

\* handleBulkUpdateNodes, as far as the save: one parent for every selected node,
\* each of which is checked against the nodes as they are; or the parents as read.
SubmitBulk(u) ==
    /\ req[u].at = "open" /\ ~req[u].whole
    /\ LET S == DOMAIN req[u].deps
       IN  \/ \E p \in NodeIds \cup {NoNode} :
                /\ p \notin S
                /\ p # NoNode => \A n \in S : NoCycle(n, p)
                /\ req' = [req EXCEPT ![u].at = "checked", ![u].deps = [n \in S |-> p]]
           \/ req' = [req EXCEPT ![u].at = "checked"]
    /\ UNCHANGED <<there, used, dep, checks, code, paired, overlapped, removed>>

-----------------------------------------------------------------------------
(* What they write.                                                        *)

\* Whatever has been read by those that have yet to write is old now.  (A form that
\* is open is not: what is in it is checked when it is submitted.)
Reading(r) == req[r].at = "checked" \/ (req[r].at = "open" /\ ~req[r].whole)
Outdated(q) == [r \in Requests |-> IF Reading(r) /\ r # q THEN [req[r] EXCEPT !.stale = TRUE]
                                   ELSE req[r]]

\* The nodes are all there, and so are the parents (a foreign key).
Writable(r) ==
    /\ DOMAIN req[r].deps \subseteq there
    /\ \A n \in DOMAIN req[r].deps : req[r].deps[n] \in there \cup {NoNode}

\* UpdateNode and BulkUpdate: one transaction writes everything.
Write(r) ==
    /\ req[r].at = "checked" /\ Writable(r)
    /\ dep' = [n \in NodeIds |-> IF n \in DOMAIN req[r].deps THEN req[r].deps[n] ELSE dep[n]]
    /\ checks' = [n \in NodeIds |-> IF req[r].whole /\ n \in DOMAIN req[r].deps
                                   THEN req[r].checks ELSE checks[n]]
    /\ overlapped' = (overlapped \/ req[r].stale)
    /\ req' = [Outdated(r) EXCEPT ![r] = IF r \in Users THEN Idle ELSE [Idle EXCEPT !.at = "done"]]
    /\ UNCHANGED <<there, used, code, paired>>

\* A person's save.
Save(u) ==
    /\ Write(u)
    /\ removed' = removed \cup {m \in Machines :
                    \E n \in NodeIds : m \in checks[n] /\ m \notin checks'[n]}

\* (A fault: the nodes below it keep a parent there is not.)
DeleteKeepingBelow(n) ==
    /\ n \in there
    /\ there' = there \ {n}
    /\ dep' = [dep EXCEPT ![n] = NoNode]
    /\ checks' = [checks EXCEPT ![n] = {}]
    /\ req' = Outdated(n)
    /\ UNCHANGED <<used, code, paired, overlapped, removed>>

\* DeleteNode: the nodes below it lose their parent (ON DELETE SET NULL).
Delete(n) ==
    /\ n \in there
    /\ there' = there \ {n}
    /\ dep' = [x \in NodeIds |-> IF dep[x] = n \/ x = n THEN NoNode ELSE dep[x]]
    /\ checks' = [checks EXCEPT ![n] = {}]
    /\ req' = Outdated(n)
    /\ UNCHANGED <<used, code, paired, overlapped, removed>>

\* CreateNode: by a person, or for a machine to be paired.  (A duplicated node may
\* have checks that read machines as well: left out, they would only add to those
\* who watch.)
Create(n, p, cs) ==
    /\ n \notin used /\ p \in there \cup {NoNode}
    /\ there' = there \cup {n} /\ used' = used \cup {n}
    /\ dep' = [dep EXCEPT ![n] = p] /\ checks' = [checks EXCEPT ![n] = cs]
    /\ req' = Outdated(n)
    /\ UNCHANGED <<code, paired, overlapped, removed>>

-----------------------------------------------------------------------------
(* Pairing.                                                                *)

\* handleCreatePairing: a code for a node, which may have just been created.
CreateCode(c) ==
    /\ code[c].at = "none"
    /\ \E n \in there : code' = [code EXCEPT ![c] = [at |-> "pending", node |-> n]]
    /\ UNCHANGED <<there, used, dep, checks, req, paired, overlapped, removed>>

\* It is cancelled (RevokePairingCode), or its time is up.
EndCode(c) ==
    /\ code[c].at = "pending"
    /\ code' = [code EXCEPT ![c].at = "over"]
    /\ UNCHANGED <<there, used, dep, checks, req, paired, overlapped, removed>>

\* (A fault: the claim looks at the code without marking it in one step.)
RedeemUnmarked(m, c) ==
    /\ req[m].at = "idle" /\ paired[m] = NoCode
    /\ code[c].at = "pending"
    /\ paired' = [paired EXCEPT ![m] = c]
    /\ req' = [req EXCEPT ![m].at = "claimed"]
    /\ UNCHANGED <<there, used, dep, checks, code, overlapped, removed>>

\* handlePair: RedeemPairingCode claims the code in one transaction.
Redeem(m, c) ==
    /\ req[m].at = "idle" /\ paired[m] = NoCode
    /\ code[c].at = "pending"
    /\ code' = [code EXCEPT ![c].at = "redeemed"]
    /\ paired' = [paired EXCEPT ![m] = c]
    /\ req' = [req EXCEPT ![m].at = "claimed"]
    /\ UNCHANGED <<there, used, dep, checks, overlapped, removed>>

\* The machine cannot be registered: the code is spent all the same, and the machine
\* needs another one.
RegisterFails(m) ==
    /\ req[m].at = "claimed"
    /\ paired' = [paired EXCEPT ![m] = NoCode]
    /\ req' = [req EXCEPT ![m] = Idle]
    /\ UNCHANGED <<there, used, dep, checks, code, overlapped, removed>>

NodeOf(m) == code[paired[m]].node

\* (A fault: none is added.)
ReadToComplete(m) ==
    /\ req[m].at = "claimed"
    /\ NodeOf(m) \in there
    /\ LET n == NodeOf(m)
           cs == IF Waiting \in checks[n] THEN (checks[n] \ {Waiting}) \cup {m} ELSE checks[n]
       IN  req' = [req EXCEPT ![m] =
                    [at |-> "checked", deps |-> [x \in {n} |-> dep[n]], checks |-> cs,
                     whole |-> TRUE, stale |-> FALSE]]
    /\ UNCHANGED <<there, used, dep, checks, code, paired, overlapped, removed>>

\* bindMachineCheck reads the node: a check that waits is pointed at the machine, or
\* else one is added.
ReadToBind(m) ==
    /\ req[m].at = "claimed"
    /\ NodeOf(m) \in there
    /\ LET n == NodeOf(m)
       IN  req' = [req EXCEPT ![m] =
                    [at |-> "checked", deps |-> [x \in {n} |-> dep[n]],
                     checks |-> (checks[n] \ {Waiting}) \cup {m}, whole |-> TRUE,
                     stale |-> FALSE]]
    /\ UNCHANGED <<there, used, dep, checks, code, paired, overlapped, removed>>

\* And writes it.
Bind(m) == Write(m) /\ UNCHANGED removed

\* The node is gone, or cannot be written: the machine is registered nevertheless.
BindFails(m) ==
    /\ req[m].at \in {"claimed", "checked"}
    /\ req' = [req EXCEPT ![m] = [Idle EXCEPT !.at = "unbound"]]
    /\ UNCHANGED <<there, used, dep, checks, code, paired, overlapped, removed>>

-----------------------------------------------------------------------------

Edit == \E u \in Users : Open(u) \/ Leave(u) \/ SubmitNode(u) \/ SubmitBulk(u) \/ Save(u)
Pair ==
    \/ \E c \in Codes : CreateCode(c) \/ EndCode(c)
    \/ \E m \in Machines :
        \/ \E c \in Codes : Redeem(m, c)
        \/ RegisterFails(m) \/ ReadToBind(m) \/ Bind(m) \/ BindFails(m)
NodesNext ==
    \/ Edit \/ Pair
    \/ \E n \in NodeIds : Delete(n)
    \/ \E n \in NodeIds, p \in NodeIds \cup {NoNode}, cs \in SUBSET {Waiting} : Create(n, p, cs)

NodesSpec == NodesInit /\ [][NodesNext]_nodesVars

-----------------------------------------------------------------------------
(* Properties.                                                             *)

NodesTypeOK ==
    /\ there \subseteq used /\ used \subseteq NodeIds
    /\ dep \in [NodeIds -> there \cup {NoNode}]
    /\ checks \in [NodeIds -> Checks]
    /\ req \in [Requests -> Written]
    /\ code \in [Codes -> [at : {"none", "pending", "over", "redeemed"},
                           node : NodeIds \cup {NoNode}]]
    /\ paired \in [Machines -> Codes \cup {NoCode}]
    /\ overlapped \in BOOLEAN /\ removed \subseteq Machines

\* No node is above itself: among any nodes there is one whose parent is not among
\* them.  Two nodes that depended on each other would each explain the other's outage,
\* and neither would be told (process.go parentDownLocked).
NoLoop == \A S \in SUBSET there : S # {} => \E n \in S : dep[n] \notin S

\* Saves, bulk edits, deletions and pairings make no loop of dependencies, in any
\* order, unless one writes after something it has not read.
NoLoopUnlessOverlapped == ~overlapped => NoLoop

\* "Choosing 'add the machine to this node' has to end with the node watching the
\* machine" (api/hosts.go:829-831): it does, until a person takes the check out or
\* deletes the node, and unless two writes of the node overlap.
WatchedUnlessOverlapped ==
    \A m \in Machines :
        req[m].at = "done" /\ ~overlapped =>
            (\E n \in there : m \in checks[n]) \/ m \in removed \/ NodeOf(m) \notin there

\* A code is good for one machine, once (model/pairing.go:11-12).
OneMachineForACode ==
    \A m1, m2 \in Machines : paired[m1] = paired[m2] /\ m1 # m2 => paired[m1] = NoCode
=============================================================================
