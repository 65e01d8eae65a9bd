SPECIFICATION NodesSpec
CONSTANTS
    NodeIds = {n1, n2, n3}
    Users = {u1}
    Codes = {c1}
    Machines = {m1, m2}
    NoNode = NoNode
    Waiting = Waiting
    NoCode = NoCode
SYMMETRY Symmetry
INVARIANTS NodesTypeOK NoLoopUnlessOverlapped WatchedUnlessOverlapped OneMachineForACode
\* Every code may be spent and every id used.
CHECK_DEADLOCK FALSE
