---------------------------- MODULE AgentToken -----------------------------
(***************************************************************************)
(* One machine's token, and its replacement.                               *)
(*                                                                         *)
(* GWatch keeps the token it knows the machine by, and during a rotation a *)
(* second one beside it (store/hosts.go).  An agent that checks in with    *)
(* the first is handed the second, writes it to agent.json, switches over  *)
(* (checkin.go), and the first request made with it retires the old one    *)
(* (authenticateAgent).  Reports and check-ins are sent by loops of their  *)
(* own, a request the agent has given up may still be served, and an       *)
(* administrator may rotate, cancel, replace, revoke and disable at any    *)
(* point.  Tokens are numbered in the order in which they are issued.      *)
(***************************************************************************)
EXTENDS Integers

CONSTANTS
    TIssued,    \* bound: tokens ever issued
    Requests    \* bound: requests at GWatch or on their way, at one time

ASSUME TokenAssumption == TIssued \in Nat \ {0}

Tokens == 1..TIssued

None == 0
Kinds == {"report", "checkin"}
Free == [kind |-> "report", token |-> None, at |-> "free", waiting |-> FALSE,
         give |-> FALSE, gift |-> None]
Answered(r) == [r EXCEPT !.at = "answered", !.token = None, !.give = FALSE]
Stages == {"free", "sent", "pending", "accepted", "answered", "failed"}
Over == {"answered", "failed"}

VARIABLES
    cur,        \* agents.token_hash
    pend,       \* agents.pending_token_hash, or None
    status,     \* agents.enabled and revoked_at
    issued,     \* tokens issued so far
    req,        \* the requests: where GWatch stands with each, the token to be
                \* looked up or promoted, whether the agent still waits, whether
                \* there is a replacement to give (RotationPending and usedCurrent of
                \* a check-in), and the one in the answer
    rt,         \* agentRuntime.token, or None while the agent is not running
    home,       \* the token where the agent finds it when it starts
    fromFile,   \* that is agent.json
    taking,     \* the replacement that takeToken is taking up, or None
    saved,      \* takeToken has written it to agent.json
    withdrawn   \* history: tokens that an administrator has made useless

server == <<cur, pend, status, issued, withdrawn>>
agent == <<rt, home, fromFile, taking, saved>>
tokenVars == <<server, req, agent>>

TokenInit ==
    /\ cur = 1 /\ pend = None /\ status = "enabled" /\ issued = 1
    /\ req = [q \in Requests |-> Free]
    /\ rt = None /\ home = 1 /\ fromFile \in BOOLEAN
    /\ taking = None /\ saved = FALSE
    /\ withdrawn = {}

-----------------------------------------------------------------------------
(* The agent's loops.                                                      *)

Waits(kind) == \E q \in Requests : req[q].waiting /\ req[q].kind = kind

\* report and checkInOnce: the token is read under rt.mu and the request is made
\* with it.
Ask(kind) ==
    /\ rt # None /\ ~Waits(kind)
    /\ kind = "checkin" => taking = None
    /\ \E q \in Requests :
        /\ req[q] = Free
        /\ req' = [req EXCEPT ![q] = [Free EXCEPT !.kind = kind, !.token = rt,
                                                  !.at = "sent", !.waiting = TRUE]]
    /\ UNCHANGED <<server, agent>>

\* No answer within requestTimeout; GWatch may be at work on it all the same.
GiveUp(q) ==
    /\ req[q].waiting
    /\ req' = [req EXCEPT ![q].waiting = FALSE]
    /\ UNCHANGED <<server, agent>>

\* The answer: a settings reply may bring a replacement, which apply passes on to
\* takeToken.
Hear(q) ==
    /\ req[q].at \in Over /\ req[q].waiting
    /\ req' = [req EXCEPT ![q] = Free]
    /\ taking' = IF req[q].gift # None THEN req[q].gift ELSE taking
    /\ UNCHANGED <<server, rt, home, fromFile, saved>>

\* takeToken leaves things as they are: it is the same one, it could not be kept
\* (the token lives elsewhere), or could not be written.
Decline ==
    /\ taking # None /\ ~saved
    /\ taking' = None
    /\ UNCHANGED <<server, req, rt, home, fromFile, saved>>

\* (A fault: the token is used before it is written, whatever comes of that.)
SwitchEarly ==
    /\ taking \notin {None, rt} /\ fromFile
    /\ rt' = taking /\ taking' = None /\ saved' = FALSE
    /\ UNCHANGED <<server, req, home, fromFile>>

\* takeToken writes it to agent.json.
StoreToken ==
    /\ taking \notin {None, rt} /\ fromFile /\ ~saved
    /\ home' = taking /\ saved' = TRUE
    /\ UNCHANGED <<server, req, rt, fromFile, taking>>

\* And uses it from then on.
Switch ==
    /\ saved
    /\ rt' = taking /\ taking' = None /\ saved' = FALSE
    /\ UNCHANGED <<server, req, home, fromFile>>

\* The agent ends, anywhere, and starts with the token it finds.
End ==
    /\ rt # None
    /\ rt' = None /\ taking' = None /\ saved' = FALSE
    /\ req' = [q \in Requests |-> [req[q] EXCEPT !.waiting = FALSE]]
    /\ UNCHANGED <<server, home, fromFile>>

Begin ==
    /\ rt = None
    /\ rt' = home
    /\ UNCHANGED <<server, req, home, fromFile, taking, saved>>

\* A person puts a token there that GWatch shows: the replacement, where the agent
\* cannot, or one that works, where it has none.
Install ==
    /\ rt = None
    /\ \/ ~fromFile /\ home' = pend
       \/ home \notin {cur, pend} /\ home' = cur
    /\ home' # None
    /\ UNCHANGED <<server, req, rt, fromFile, taking, saved>>

-----------------------------------------------------------------------------
(* GWatch serves a request.                                                *)

\* It never arrives, or nobody waits for its answer any more.
Drop(q) ==
    /\ req[q].at \in Over \cup {"sent"} /\ ~req[q].waiting
    /\ req' = [req EXCEPT ![q] = Free]
    /\ UNCHANGED <<server, agent>>

\* authenticateAgent: AgentByAnyTokenHash, one read of the row.
Lookup(q) ==
    /\ req[q].at = "sent"
    /\ \/ /\ status = "enabled" /\ req[q].token = cur
          /\ req' = [req EXCEPT ![q].at = "accepted", ![q].token = None,
                                ![q].give = (req[q].kind = "checkin" /\ pend # None)]
       \/ /\ status = "enabled" /\ req[q].token = pend /\ pend # cur
          /\ req' = [req EXCEPT ![q].at = "pending"]
       \/ /\ status # "enabled" \/ req[q].token \notin {cur, pend}
          /\ req' = [req EXCEPT ![q] = Answered(@)]
    /\ UNCHANGED <<server, agent>>

\* (A fault: the replacement stays beside the token it has become.)
PromoteKeeping(q) ==
    /\ req[q].at = "pending"
    /\ IF pend = req[q].token THEN cur' = pend ELSE UNCHANGED cur
    /\ UNCHANGED pend
    /\ req' = [req EXCEPT ![q].at = "accepted", ![q].token = None]
    /\ UNCHANGED <<status, issued, withdrawn, agent>>

\* PromoteAgentToken: one statement, with its condition on the digest.
Promote(q) ==
    /\ req[q].at = "pending"
    /\ IF pend = req[q].token THEN cur' = pend /\ pend' = None ELSE UNCHANGED <<cur, pend>>
    /\ req' = [req EXCEPT ![q].at = "accepted", ![q].token = None]
    /\ UNCHANGED <<status, issued, withdrawn, agent>>

\* (A fault: a check-in is never told.)
SettleSilently(q) ==
    /\ req[q].at = "accepted"
    /\ req' = [req EXCEPT ![q] = Answered(@)]
    /\ UNCHANGED <<server, agent>>

\* The rest of the handler: a check-in made with the token that is being replaced
\* is given what RevealAgentToken finds by now.
Settle(q) ==
    /\ req[q].at = "accepted"
    /\ req' = [req EXCEPT ![q] = [Answered(@) EXCEPT !.gift = IF req[q].give THEN pend ELSE None]]
    /\ UNCHANGED <<server, agent>>

\* Any of its statements fails: an error, and nothing in it.
ServerFails(q) ==
    /\ req[q].at \in {"sent", "pending", "accepted"}
    /\ req' = [req EXCEPT ![q] = [Answered(@) EXCEPT !.at = "failed"]]
    /\ UNCHANGED <<server, agent>>

-----------------------------------------------------------------------------
(* The administrator.                                                      *)

Issue ==
    /\ status # "revoked"
    /\ issued + 1 \in Tokens
    /\ issued' = issued + 1

\* StartAgentRotation: the old token keeps working.
Rotate ==
    /\ Issue
    /\ pend' = issued'
    /\ withdrawn' = withdrawn \cup ({pend} \ {None})
    /\ UNCHANGED <<cur, status, req, agent>>

\* The same with retireOld: the new token is the only one.
ReplaceNow ==
    /\ Issue
    /\ cur' = issued' /\ pend' = None
    /\ withdrawn' = withdrawn \cup ({cur, pend} \ {None})
    /\ UNCHANGED <<status, req, agent>>

\* CancelAgentRotation.
CancelRotation ==
    /\ pend # None
    /\ pend' = None
    /\ withdrawn' = withdrawn \cup {pend}
    /\ UNCHANGED <<cur, status, issued, req, agent>>

\* UpdateAgent's switch, and RevokeAgent.
SetStatus ==
    /\ status # "revoked"
    /\ status' \in {"enabled", "disabled", "revoked"} \ {status}
    /\ UNCHANGED <<cur, pend, issued, withdrawn, req, agent>>

-----------------------------------------------------------------------------

Serve(q) == Lookup(q) \/ Promote(q) \/ Settle(q) \/ ServerFails(q)
TokenNext ==
    \/ \E kind \in Kinds : Ask(kind)
    \/ \E q \in Requests : GiveUp(q) \/ Hear(q) \/ Drop(q) \/ Serve(q)
    \/ Decline \/ StoreToken \/ Switch \/ End \/ Begin \/ Install
    \/ Rotate \/ ReplaceNow \/ CancelRotation \/ SetStatus

TokenSpec == TokenInit /\ [][TokenNext]_tokenVars

\* The loops go on, requests are served and answered, and at some point the trouble
\* is over: no request or write fails any more, and the agent is not ended.
Trouble ==
    \/ End \/ (Decline /\ fromFile /\ taking # rt)
    \/ \E q \in Requests : GiveUp(q) \/ ServerFails(q)
TokenFairness ==
    /\ <>[][~Trouble]_tokenVars
    /\ WF_tokenVars(Begin)
    /\ \A kind \in Kinds : SF_tokenVars(Ask(kind))
    /\ \A q \in Requests : WF_tokenVars(Serve(q) \/ Hear(q) \/ Drop(q))
    /\ WF_tokenVars(StoreToken) /\ WF_tokenVars(Switch)

TokenFairSpec == TokenSpec /\ TokenFairness

-----------------------------------------------------------------------------
(* Properties.                                                             *)

TokenTypeOK ==
    /\ cur \in Tokens /\ pend \in Tokens \cup {None} /\ cur # pend
    /\ status \in {"enabled", "disabled", "revoked"}
    /\ issued \in Tokens /\ cur <= issued /\ pend <= issued
    /\ req \in [Requests -> [kind : Kinds, token : Tokens \cup {None}, at : Stages,
                             waiting : BOOLEAN, give : BOOLEAN,
                             gift : Tokens \cup {None}]]
    /\ rt \in Tokens \cup {None} /\ home \in Tokens /\ fromFile \in BOOLEAN
    /\ taking \in Tokens \cup {None} /\ saved \in BOOLEAN
    /\ withdrawn \subseteq Tokens

\* The token the agent uses, and the one it would start with, are accepted unless an
\* administrator has withdrawn them: a rotation by itself locks no machine out,
\* however its requests are lost, delayed or cut off by a restart ("a restart or
\* power cut in between leaves the agent holding the token GWatch is waiting for",
\* docs/HARDWARE.md:191-193).
NotLockedOut == {rt, home} \subseteq {cur, pend} \cup withdrawn \cup {None}

\* A rotation that is left alone ends with the machine on its new token: "an agent
\* that is offline during the rotation simply picks the new token up when it is
\* back" (docs/HARDWARE.md:196), unless it was about to take up the token of an earlier
\* rotation, which no longer works.
TakesUpOnly(t) == {taking} \cup {req[q].gift : q \in Requests} \subseteq {None, t}
RotationEnds ==
    \A t \in Tokens :
        (pend = t /\ fromFile /\ home \in {cur, pend} /\ TakesUpOnly(t))
            ~> (cur = t \/ t \in withdrawn \/ cur \in withdrawn \/ status # "enabled")
=============================================================================
