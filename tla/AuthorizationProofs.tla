------------------------ MODULE AuthorizationProofs ------------------------
(***************************************************************************)
(* Proofs about Authorization for any number of requests, clicks and keys, *)
(* any lifetimes and any time: its invariants and the action property.     *)
(***************************************************************************)
EXTENDS Authorization, TLAPS

----------------------------------------------------------------------------
(***************************************************************************)
(* The inductive invariant.                                                *)
(***************************************************************************)

\* What the handler's program counter says about the rest of a request.
HandlerInv(r) ==
  /\ req[r].pc = "new" => channel[r] = "empty" /\ verdict[r] = "none"
  /\ req[r].pc \in {"new", "waiting", "timed_out"} => req[r].decision = "none"
  /\ req[r].pc # "done" => req[r].result = "none" /\ ~session[r].open
  /\ req[r].pc \in {"waiting", "timed_out", "decided"} => "requested" \in log[r]

\* A queued prompt is undecided, and its channel is empty or closed.
PromptInv(r) ==
  r \in prompts => /\ req[r].pc \in {"waiting", "timed_out"}
                   /\ verdict[r] = "none"

\* A decision on its way, or received, is the user's.
DecisionInv(r) ==
  /\ channel[r] \in {"Approved", "Denied"} => verdict[r] = channel[r]
  /\ req[r].decision \in {"Approved", "Denied"} => verdict[r] = req[r].decision

\* What a row of the table sessions stands for.
SessionInv(r) ==
  session[r].open => /\ req[r].decision = "Approved"
                     /\ req[r].result \in {"token", "error"}
                     /\ session[r].grants = req[r].grants

\* A token is the name of a row and has both audit entries behind it.
TokenInv(r) ==
  req[r].result = "token" => /\ session[r].open
                             /\ {"requested", "approved"} \subseteq log[r]

\* Values went to a token only, one row each.
ReadInv(r) ==
  \A k \in Slot : /\ got[r][k] <= readRows[r][k]
                  /\ got[r][k] > 0 => req[r].result = "token" /\ k \in req[r].grants

RequestInv(r) ==
  /\ HandlerInv(r)
  /\ PromptInv(r)
  /\ DecisionInv(r)
  /\ SessionInv(r)
  /\ TokenInv(r)
  /\ ReadInv(r)

IInv == TypeOK /\ \A r \in Request : RequestInv(r)

\* With the presence check always on, a click that may approve has made it, and
\* so has the one that did.
PresenceInv ==
  /\ presence_on_approve = TRUE
  /\ \A c \in Click : click[c].pc = "approve" => click[c].verified
  /\ \A r \in Request : verdict[r] = "Approved" => present[r]

----------------------------------------------------------------------------
(***************************************************************************)
(* Type correctness.                                                       *)
(***************************************************************************)
LEMMA ClampType == \A t \in Ttl \cup {0} : clamp_ttl(t) \in Nat
<1>1. \A t \in Nat : clamp_ttl(t) \in Nat
  BY AuthAssumption DEF clamp_ttl
<1>2. 0 \in Nat
  OBVIOUS
<1> QED
  BY <1>1, <1>2, AuthAssumption

LEMMA InitType == Init => TypeOK
<1> SUFFICES ASSUME Init PROVE TypeOK
  OBVIOUS
<1>1. NewReq \in Req /\ NoClick \in ClickState /\ NoSession \in Session
  BY DEF NewReq, Req, NoClick, ClickState, NoSession, Session, Decision
<1>2. /\ initialized \in BOOLEAN /\ unlocked \in BOOLEAN
      /\ store \in [Slot -> Value \cup {NoValue}]
      /\ presence_on_approve \in BOOLEAN
  BY AuthAssumption DEF Init, V!Init
<1> QED
  BY <1>1, <1>2 DEF Init, TypeOK

LEMMA VaultType ==
  ASSUME TypeOK, V!Next
  PROVE  /\ initialized' \in BOOLEAN /\ unlocked' \in BOOLEAN
         /\ store' \in [Slot -> Value \cup {NoValue}]
BY DEF TypeOK, V!Next, V!Create, V!Unlock, V!Lock, V!Put, V!Delete

\* What the actions write into a request, a click or a session row is one.
LEMMA ReqMoves ==
  ASSUME NEW f \in [Request -> Req], NEW r \in Request
  PROVE  /\ [f EXCEPT ![r].pc = "timed_out"] \in [Request -> Req]
         /\ \A d \in Decision :
              [f EXCEPT ![r].pc = "decided", ![r].decision = d] \in [Request -> Req]
         /\ \A a \in {"token", "denied", "timeout", "error"} :
              /\ [f EXCEPT ![r].pc = "done", ![r].result = a] \in [Request -> Req]
              /\ [f[r] EXCEPT !.pc = "done", !.result = a] \in Req
         /\ \A g \in SUBSET Slot, t \in Ttl :
              [f EXCEPT ![r] = [@ EXCEPT !.pc = "waiting", !.grants = g, !.ttl = t]]
                \in [Request -> Req]
<1>1. ASSUME NEW x \in Req
      PROVE  [x EXCEPT !.pc = "timed_out"] \in Req
  BY DEF Req
<1>2. ASSUME NEW x \in Req, NEW d \in Decision
      PROVE  [x EXCEPT !.pc = "decided", !.decision = d] \in Req
  BY DEF Req
<1>3. ASSUME NEW x \in Req, NEW a \in {"token", "denied", "timeout", "error"}
      PROVE  [x EXCEPT !.pc = "done", !.result = a] \in Req
  BY DEF Req
<1>4. ASSUME NEW x \in Req, NEW g \in SUBSET Slot, NEW t \in Ttl
      PROVE  [x EXCEPT !.pc = "waiting", !.grants = g, !.ttl = t] \in Req
  BY DEF Req
<1>5. ASSUME NEW x \in Req PROVE [f EXCEPT ![r] = x] \in [Request -> Req]
  OBVIOUS
<1> HIDE DEF Req
<1> QED
  BY <1>1, <1>2, <1>3, <1>4, <1>5

LEMMA ClickMoves ==
  ASSUME NEW f \in [Click -> ClickState], NEW c \in Click
  PROVE  /\ [f EXCEPT ![c] = NoClick] \in [Click -> ClickState]
         /\ [f EXCEPT ![c].pc = "approve", ![c].verified = TRUE] \in [Click -> ClickState]
<1>1. NoClick \in ClickState
  BY DEF NoClick, ClickState
<1>2. ASSUME NEW x \in ClickState
      PROVE  [x EXCEPT !.pc = "approve", !.verified = TRUE] \in ClickState
  BY DEF ClickState
<1>3. ASSUME NEW x \in ClickState PROVE [f EXCEPT ![c] = x] \in [Click -> ClickState]
  OBVIOUS
<1> HIDE DEF ClickState, NoClick
<1> QED
  BY <1>1, <1>2, <1>3

LEMMA SessionMoves ==
  ASSUME NEW f \in [Request -> Session], NEW r \in Request
  PROVE  /\ [f EXCEPT ![r].reads = @ + 1] \in [Request -> Session]
         /\ [f EXCEPT ![r].revoked = TRUE] \in [Request -> Session]
         /\ [f[r] EXCEPT !.revoked = TRUE] \in Session
<1>1. ASSUME NEW x \in Session
      PROVE  [x EXCEPT !.reads = @ + 1] \in Session /\ [x EXCEPT !.revoked = TRUE] \in Session
  <2>1. ASSUME NEW n \in Nat PROVE [x EXCEPT !.reads = n] \in Session
    BY DEF Session
  <2>2. x.reads + 1 \in Nat
    BY DEF Session
  <2>3. [x EXCEPT !.revoked = TRUE] \in Session
    BY DEF Session
  <2> HIDE DEF Session
  <2> QED
    BY <2>1, <2>2, <2>3
<1>2. ASSUME NEW x \in Session PROVE [f EXCEPT ![r] = x] \in [Request -> Session]
  OBVIOUS
<1> HIDE DEF Session
<1> QED
  BY <1>1, <1>2

LEMMA CountMoves ==
  ASSUME NEW f \in [Request -> [Slot -> Nat]], NEW r \in Request, NEW k \in Slot,
         NEW g, g = f \/ g = [f EXCEPT ![r][k] = @ + 1]
  PROVE  g \in [Request -> [Slot -> Nat]]
<1>1. [f[r] EXCEPT ![k] = @ + 1] \in [Slot -> Nat]
  OBVIOUS
<1> QED
  BY <1>1

\* A request whose answer is given is still a request.
LEMMA AnswerType ==
  ASSUME TypeOK, NEW r \in Request,
         NEW result \in {"token", "denied", "timeout", "error"}, Answer(r, result)
  PROVE  req' \in [Request -> Req]
BY ReqMoves DEF TypeOK, Answer

LEMMA AuditType ==
  ASSUME TypeOK, NEW r \in Request,
         NEW e \in {"requested", "approved", "denied"}, Audit(r, e)
  PROVE  log' \in [Request -> SUBSET {"requested", "approved", "denied"}]
BY DEF TypeOK, Audit

LEMMA ResolveType ==
  ASSUME TypeOK, NEW r, NEW d \in {"Approved", "Denied"}, resolve(r, d)
  PROVE  /\ prompts' \in SUBSET Request
         /\ channel' \in [Request -> {"empty", "Approved", "Denied", "closed"}]
         /\ verdict' \in [Request -> {"none", "Approved", "Denied"}]
BY DEF TypeOK, resolve

LEMMA StepType == TypeOK /\ [Next]_vars => TypeOK'
<1> SUFFICES ASSUME TypeOK, [Next]_vars PROVE TypeOK'
  OBVIOUS
<1>1. ASSUME NEW r \in Request, NEW g \in SUBSET Slot, NEW t \in Ttl, RequestArrives(r, g, t)
      PROVE  TypeOK'
  <2>1. req' \in [Request -> Req]
    <3>1. CASE req' = [req EXCEPT ![r] = [@ EXCEPT !.pc = "waiting", !.grants = g, !.ttl = t]]
      BY <3>1, ReqMoves DEF TypeOK
    <3>2. CASE Answer(r, "error")
      BY <3>2, AnswerType
    <3> QED
      BY <1>1, <3>1, <3>2 DEF RequestArrives
  <2>2. log' \in [Request -> SUBSET {"requested", "approved", "denied"}]
    BY <1>1, AuditType DEF RequestArrives, TypeOK
  <2>3. prompts' \in SUBSET Request
    BY <1>1 DEF RequestArrives, push, TypeOK
  <2> QED
    BY <1>1, <2>1, <2>2, <2>3 DEF RequestArrives, TypeOK, vaultVars, historyVars
<1>2. ASSUME NEW r \in Request, ReceiveDecision(r)
      PROVE  TypeOK'
  <2>1. req' \in [Request -> Req]
    BY <1>2, ReqMoves DEF ReceiveDecision, TypeOK, Decision
  <2> QED
    BY <1>2, <2>1 DEF ReceiveDecision, TypeOK, vaultVars, agentVars, historyVars
<1>3. ASSUME NEW r \in Request, TimeoutFires(r)
      PROVE  TypeOK'
  <2>1. req' \in [Request -> Req]
    BY <1>3, ReqMoves DEF TimeoutFires, TypeOK
  <2> QED
    BY <1>3, <2>1 DEF TimeoutFires, TypeOK, vaultVars, agentVars, historyVars
<1>4. ASSUME NEW r \in Request, TimeoutRemove(r)
      PROVE  TypeOK'
  <2>1. req' \in [Request -> Req]
    BY <1>4, ReqMoves DEF TimeoutRemove, TypeOK, Decision
  <2> QED
    BY <1>4, <2>1 DEF TimeoutRemove, TypeOK, vaultVars, agentVars, historyVars
<1>5. ASSUME NEW r \in Request, Refuse(r)
      PROVE  TypeOK'
  <2>1. req' \in [Request -> Req]
    BY <1>5, AnswerType DEF Refuse
  <2>2. log' \in [Request -> SUBSET {"requested", "approved", "denied"}]
    BY <1>5, AuditType DEF Refuse, TypeOK
  <2> QED
    BY <1>5, <2>1, <2>2 DEF Refuse, TypeOK, vaultVars, historyVars
<1>6. ASSUME NEW r \in Request, create_session(r)
      PROVE  TypeOK'
  <2>1. req' \in [Request -> Req]
    BY <1>6, AnswerType DEF create_session
  <2>2. log' \in [Request -> SUBSET {"requested", "approved", "denied"}]
    BY <1>6, AuditType DEF create_session, TypeOK
  <2>3. session' \in [Request -> Session]
    <3>1. req[r].ttl \in Ttl \cup {0} /\ req[r].grants \in SUBSET Slot /\ now \in Nat
      <4>1. req[r] \in Req /\ now \in Nat
        BY DEF TypeOK
      <4> QED
        BY ONLY <4>1 DEF Req
    <3>2. now + clamp_ttl(req[r].ttl) \in Nat
      BY <3>1, ClampType
    <3>3. [open |-> TRUE, grants |-> req[r].grants,
           expires |-> now + clamp_ttl(req[r].ttl),
           revoked |-> FALSE, reads |-> 0] \in Session
      BY <3>1, <3>2 DEF Session
    <3> QED
      BY <1>6, <3>3 DEF create_session, TypeOK
  <2> QED
    BY <1>6, <2>1, <2>2, <2>3 DEF create_session, TypeOK, vaultVars, historyVars
<1>7. ASSUME NEW c \in Click, NEW r \in Request, NEW a \in BOOLEAN, DecideStart(c, r, a)
      PROVE  TypeOK'
  <2>1. click' \in [Click -> ClickState]
    BY <1>7 DEF DecideStart, TypeOK, ClickState
  <2> QED
    BY <1>7, <2>1 DEF DecideStart, TypeOK, vaultVars, agentVars, historyVars
<1>8. ASSUME NEW c \in Click, DecideUnlock(c)
      PROVE  TypeOK'
  <2>1. click' \in [Click -> ClickState]
    BY <1>8, ClickMoves DEF DecideUnlock, TypeOK
  <2> QED
    BY <1>8, <2>1 DEF DecideUnlock, V!Unlock, TypeOK, agentVars, historyVars
<1>9. ASSUME NEW c \in Click, DecidePresence(c)
      PROVE  TypeOK'
  <2>1. click' \in [Click -> ClickState]
    BY <1>9, ClickMoves DEF DecidePresence, TypeOK
  <2> QED
    BY <1>9, <2>1 DEF DecidePresence, TypeOK, vaultVars, agentVars, historyVars
<1>10. ASSUME NEW c \in Click, DecideFails(c)
      PROVE  TypeOK'
  <2>1. click' \in [Click -> ClickState]
    BY <1>10, ClickMoves DEF DecideFails, TypeOK
  <2> QED
    BY <1>10, <2>1 DEF DecideFails, TypeOK, vaultVars, agentVars, historyVars
<1>11. ASSUME NEW c \in Click, DecideDeny(c)
      PROVE  TypeOK'
  <2>1. click' \in [Click -> ClickState]
    BY <1>11, ClickMoves DEF DecideDeny, TypeOK
  <2> QED
    BY <1>11, <2>1, ResolveType DEF DecideDeny, TypeOK, vaultVars, agentVars
<1>12. ASSUME NEW c \in Click, DecideApprove(c)
      PROVE  TypeOK'
  <2>1. click' \in [Click -> ClickState]
    BY <1>12, ClickMoves DEF DecideApprove, TypeOK
  <2>2. present' \in [Request -> BOOLEAN]
    BY <1>12 DEF DecideApprove, TypeOK, ClickState
  <2> QED
    BY <1>12, <2>1, <2>2, ResolveType DEF DecideApprove, TypeOK, vaultVars, agentVars
<1>13. ASSUME NEW r \in Request, NEW k \in Slot, GetKey(r, k)
      PROVE  TypeOK'
  <2>1. session' \in [Request -> Session]
    BY <1>13, SessionMoves DEF GetKey, TypeOK
  <2>2. readRows' \in [Request -> [Slot -> Nat]] /\ got' \in [Request -> [Slot -> Nat]]
    <3>1. /\ readRows \in [Request -> [Slot -> Nat]] /\ got \in [Request -> [Slot -> Nat]]
          /\ readRows' = [readRows EXCEPT ![r][k] = @ + 1] \/ readRows' = readRows
          /\ got' = [got EXCEPT ![r][k] = @ + 1] \/ got' = got
      BY <1>13 DEF GetKey, TypeOK
    <3> QED
      BY <3>1, CountMoves
  <2> QED
    BY <1>13, <2>1, <2>2 DEF GetKey, TypeOK, vaultVars, historyVars
<1>14. ASSUME NEW r \in Request, revoke_session(r)
      PROVE  TypeOK'
  <2>1. session' \in [Request -> Session]
    BY <1>14, SessionMoves DEF revoke_session, TypeOK
  <2> QED
    BY <1>14, <2>1 DEF revoke_session, TypeOK, vaultVars, agentVars, historyVars
<1>15. CASE revoke_all_sessions
  <2>1. \A r \in Request : [session[r] EXCEPT !.revoked = TRUE] \in Session
    BY SessionMoves DEF TypeOK
  <2>2. session' \in [Request -> Session]
    BY <1>15, <2>1 DEF revoke_all_sessions, TypeOK
  <2> QED
    BY <1>15, <2>2 DEF revoke_all_sessions, TypeOK, vaultVars, agentVars, historyVars
<1>16. CASE VaultCommand
  BY <1>16, VaultType DEF VaultCommand, TypeOK, agentVars, historyVars
<1>17. ASSUME NEW b \in PresenceSettings, settings_set(b)
      PROVE  TypeOK'
  BY <1>17, AuthAssumption DEF settings_set, TypeOK, vaultVars, agentVars, historyVars
<1>18. CASE Tick
  BY <1>18 DEF Tick, TypeOK, vaultVars, agentVars, historyVars
<1>19. CASE Restart
  <2>1. req' \in [Request -> Req]
    <3>1. \A r \in Request : [req[r] EXCEPT !.pc = "done", !.result = "error"] \in Req
      BY ReqMoves DEF TypeOK
    <3> QED
      BY <1>19, <3>1 DEF Restart, TypeOK
  <2>2. click' \in [Click -> ClickState]
    BY <1>19 DEF Restart, NoClick, ClickState
  <2>3. channel' \in [Request -> {"empty", "Approved", "Denied", "closed"}]
    BY <1>19 DEF Restart, TypeOK
  <2> QED
    BY <1>19, <2>1, <2>2, <2>3 DEF Restart, V!Lock, TypeOK, agentVars, historyVars
<1>20. CASE UNCHANGED vars
  BY <1>20 DEF vars, TypeOK, vaultVars, agentVars, historyVars
<1> QED
  BY <1>1, <1>2, <1>3, <1>4, <1>5, <1>6, <1>7, <1>8, <1>9, <1>10, <1>11, <1>12,
     <1>13, <1>14, <1>15, <1>16, <1>17, <1>18, <1>19, <1>20
     DEF Next, HandlerNext, ClickNext

----------------------------------------------------------------------------
(***************************************************************************)
(* The invariant is inductive.                                             *)
(***************************************************************************)
LEMMA InitIInv == Init => IInv
<1> SUFFICES ASSUME Init PROVE IInv
  OBVIOUS
<1>1. TypeOK
  BY InitType
<1>2. ASSUME NEW r \in Request PROVE RequestInv(r)
  BY DEF Init, NewReq, NoSession, RequestInv, HandlerInv, PromptInv, DecisionInv,
         SessionInv, TokenInv, ReadInv
<1> QED
  BY <1>1, <1>2 DEF IInv

\* A step that leaves a request's own state alone, and does not queue it,
\* preserves what is known of it.
LEMMA RequestFrame ==
  ASSUME NEW q \in Request, RequestInv(q),
         req'[q] = req[q], channel'[q] = channel[q], verdict'[q] = verdict[q],
         log'[q] = log[q], readRows'[q] = readRows[q], got'[q] = got[q],
         session'[q].open = session[q].open, session'[q].grants = session[q].grants,
         q \in prompts' => q \in prompts
  PROVE  RequestInv(q)'
BY DEF RequestInv, HandlerInv, PromptInv, DecisionInv, SessionInv, TokenInv, ReadInv

LEMMA StepRequestInv ==
  ASSUME IInv, [Next]_vars, NEW q \in Request
  PROVE  RequestInv(q)'
<1>t. TypeOK /\ RequestInv(q) /\ TypeOK'
  BY StepType DEF IInv
<1> USE DEF vaultVars, agentVars, historyVars
<1>1. ASSUME NEW r \in Request, NEW g \in SUBSET Slot, NEW t \in Ttl, RequestArrives(r, g, t)
      PROVE  RequestInv(q)'
  <2>1. CASE q # r
    BY <1>1, <1>t, <2>1, RequestFrame DEF RequestArrives, Answer, Audit, push, TypeOK
  <2>2. CASE q = r
    <3>1. /\ req[q] \in Req /\ req[q].pc = "new"
          /\ UNCHANGED <<channel, verdict, session, readRows, got>>
      BY <1>1, <2>2, <1>t DEF RequestArrives, TypeOK
    <3>2. CASE /\ Audit(r, "requested") /\ push(r)
               /\ req' = [req EXCEPT ![r] = [@ EXCEPT !.pc = "waiting", !.grants = g, !.ttl = t]]
      <4>1. req'[q] = [req[q] EXCEPT !.pc = "waiting", !.grants = g, !.ttl = t]
        BY <3>2, <2>2, <1>t DEF TypeOK
      <4>2. req'[q].pc = "waiting" /\ req'[q].decision = req[q].decision
              /\ req'[q].result = req[q].result
        BY <3>1, <4>1 DEF Req
      <4>3. "requested" \in log'[q]
        BY <3>2, <2>2, <1>t DEF Audit, TypeOK
      <4> QED
        BY <3>1, <4>2, <4>3, <1>t DEF TypeOK, RequestInv, HandlerInv, PromptInv, DecisionInv, SessionInv, TokenInv, ReadInv
    <3>3. CASE Answer(r, "error") /\ UNCHANGED prompts
      <4>1. req'[q] = [req[q] EXCEPT !.pc = "done", !.result = "error"]
        BY <3>3, <2>2, <1>t DEF Answer, TypeOK
      <4>2. req'[q].pc = "done" /\ req'[q].decision = req[q].decision
              /\ req'[q].result = "error"
        BY <3>1, <4>1 DEF Req
      <4> QED
        BY <3>1, <3>3, <4>2, <1>t DEF TypeOK, RequestInv, HandlerInv, PromptInv, DecisionInv, SessionInv, TokenInv, ReadInv
    <3> QED
      BY <1>1, <3>2, <3>3 DEF RequestArrives
  <2> QED
    BY <2>1, <2>2
<1>2. ASSUME NEW r \in Request, ReceiveDecision(r)
      PROVE  RequestInv(q)'
  <2>1. CASE q # r
    BY <1>2, <1>t, <2>1, RequestFrame DEF ReceiveDecision, TypeOK
  <2>2. CASE q = r
    BY <1>2, <1>t, <2>2 DEF ReceiveDecision, TypeOK, Req, RequestInv,
       HandlerInv, PromptInv, DecisionInv, SessionInv, TokenInv, ReadInv
  <2> QED
    BY <2>1, <2>2
<1>3. ASSUME NEW r \in Request, TimeoutFires(r)
      PROVE  RequestInv(q)'
  <2>1. CASE q # r
    BY <1>3, <1>t, <2>1, RequestFrame DEF TimeoutFires, TypeOK
  <2>2. CASE q = r
    BY <1>3, <1>t, <2>2 DEF TimeoutFires, TypeOK, Req, RequestInv,
       HandlerInv, PromptInv, DecisionInv, SessionInv, TokenInv, ReadInv
  <2> QED
    BY <2>1, <2>2
<1>4. ASSUME NEW r \in Request, TimeoutRemove(r)
      PROVE  RequestInv(q)'
  <2>1. CASE q # r
    BY <1>4, <1>t, <2>1, RequestFrame DEF TimeoutRemove, TypeOK
  <2>2. CASE q = r
    BY <1>4, <1>t, <2>2 DEF TimeoutRemove, TypeOK, Req, RequestInv,
       HandlerInv, PromptInv, DecisionInv, SessionInv, TokenInv, ReadInv
  <2> QED
    BY <2>1, <2>2
<1>5. ASSUME NEW r \in Request, Refuse(r)
      PROVE  RequestInv(q)'
  <2>1. CASE q # r
    BY <1>5, <1>t, <2>1, RequestFrame DEF Refuse, Answer, Audit, TypeOK
  <2>2. CASE q = r
    BY <1>5, <1>t, <2>2 DEF Refuse, Answer, Audit, TypeOK, Req, RequestInv,
       HandlerInv, PromptInv, DecisionInv, SessionInv, TokenInv, ReadInv
  <2> QED
    BY <2>1, <2>2
<1>6. ASSUME NEW r \in Request, create_session(r)
      PROVE  RequestInv(q)'
  <2>1. CASE q # r
    BY <1>6, <1>t, <2>1, RequestFrame DEF create_session, Answer, Audit, TypeOK
  <2>2. CASE q = r
    BY <1>6, <1>t, <2>2 DEF create_session, Answer, Audit, TypeOK, Req, RequestInv,
       HandlerInv, PromptInv, DecisionInv, SessionInv, TokenInv, ReadInv
  <2> QED
    BY <2>1, <2>2
<1>7. ASSUME NEW c \in Click, NEW r \in Request, NEW a \in BOOLEAN, DecideStart(c, r, a)
      PROVE  RequestInv(q)'
  BY <1>7, <1>t, RequestFrame DEF DecideStart
<1>8. ASSUME NEW c \in Click, DecideUnlock(c)
      PROVE  RequestInv(q)'
  BY <1>8, <1>t, RequestFrame DEF DecideUnlock
<1>9. ASSUME NEW c \in Click, DecidePresence(c) \/ DecideFails(c)
      PROVE  RequestInv(q)'
  BY <1>9, <1>t, RequestFrame DEF DecidePresence, DecideFails
<1>10. ASSUME NEW c \in Click, NEW d \in {"Approved", "Denied"}, resolve(click[c].id, d),
              UNCHANGED <<req, session, agentVars>>
      PROVE  RequestInv(q)'
  <2>1. CASE q # click[c].id \/ click[c].id \notin prompts
    BY <1>10, <1>t, <2>1, RequestFrame DEF resolve, TypeOK
  <2>2. CASE q = click[c].id /\ q \in prompts
    BY <1>10, <1>t, <2>2 DEF resolve, TypeOK, RequestInv,
       HandlerInv, PromptInv, DecisionInv, SessionInv, TokenInv, ReadInv
  <2> QED
    BY <2>1, <2>2
<1>11. ASSUME NEW r \in Request, NEW k \in Slot, GetKey(r, k)
      PROVE  RequestInv(q)'
  <2>1. CASE q # r
    BY <1>11, <1>t, <2>1, RequestFrame DEF GetKey, TypeOK
  <2>2. CASE q = r
    <3>1. /\ req[q].result = "token" /\ k \in session[q].grants /\ session[q].open
          /\ UNCHANGED <<req, prompts, channel, log, verdict>>
          /\ session[q] \in Session
          /\ session' = [session EXCEPT ![q].reads = @ + 1]
          /\ session \in [Request -> Session]
      BY <1>11, <2>2, <1>t DEF GetKey, CanRead, is_active, TypeOK
    <3>2. session'[q].open = session[q].open /\ session'[q].grants = session[q].grants
      BY ONLY <3>1, q \in Request DEF Session
    <3>3. /\ HandlerInv(q)' /\ PromptInv(q)' /\ DecisionInv(q)' /\ SessionInv(q)'
          /\ TokenInv(q)'
      BY <1>t, <3>1, <3>2 DEF RequestInv, HandlerInv, PromptInv, DecisionInv, SessionInv,
         TokenInv
    <3>4. ASSUME NEW l \in Slot
          PROVE  /\ got'[q][l] <= readRows'[q][l]
                 /\ got'[q][l] > 0 => req[q].result = "token" /\ l \in req[q].grants
      <4>1. /\ got[q][l] \in Nat /\ readRows[q][l] \in Nat
            /\ got[q][l] <= readRows[q][l]
            /\ got[q][l] > 0 => l \in req[q].grants
            /\ k \in req[q].grants
        BY <1>t, <3>1 DEF TypeOK, RequestInv, ReadInv, SessionInv
      <4>2. /\ l # k => got'[q][l] = got[q][l] /\ readRows'[q][l] = readRows[q][l]
            /\ \/ got'[q][k] = got[q][k] + 1 /\ readRows'[q][k] = readRows[q][k] + 1
               \/ got'[q][k] = got[q][k] /\ readRows'[q][k] = readRows[q][k] + 1
               \/ got'[q][k] = got[q][k] /\ readRows'[q][k] = readRows[q][k]
        BY <1>11, <2>2, <1>t DEF GetKey, TypeOK
      <4> QED
        BY <3>1, <4>1, <4>2
    <3> QED
      BY <3>1, <3>3, <3>4 DEF RequestInv, ReadInv
  <2> QED
    BY <2>1, <2>2
<1>12. ASSUME NEW r \in Request, revoke_session(r)
      PROVE  RequestInv(q)'
  <2>1. /\ session'[q] = session[q] \/ session'[q] = [session[q] EXCEPT !.revoked = TRUE]
        /\ session[q] \in Session
    BY <1>12, <1>t DEF revoke_session, TypeOK
  <2>2. session'[q].open = session[q].open /\ session'[q].grants = session[q].grants
    BY ONLY <2>1 DEF Session
  <2> QED
    BY <1>12, <1>t, <2>2, RequestFrame DEF revoke_session
<1>13. CASE revoke_all_sessions
  BY <1>13, <1>t, RequestFrame DEF revoke_all_sessions, TypeOK, Session
<1>14. CASE VaultCommand
  BY <1>14, <1>t, RequestFrame DEF VaultCommand
<1>15. ASSUME NEW b \in PresenceSettings, settings_set(b)
      PROVE  RequestInv(q)'
  BY <1>15, <1>t, RequestFrame DEF settings_set
<1>16. CASE Tick
  BY <1>16, <1>t, RequestFrame DEF Tick
<1>17. CASE Restart
  <2>1. /\ prompts' = {} /\ UNCHANGED <<session, log, readRows, got, verdict>>
        /\ req[q] \in Req
    BY <1>17, <1>t DEF Restart, TypeOK
  <2>3. channel'[q] = channel[q] \/ (channel'[q] = "closed" /\ req[q].pc # "new")
    BY <1>17 DEF Restart
  <2>4. \/ req'[q] = req[q]
        \/ /\ req[q].pc \notin {"new", "done"}
           /\ req'[q] = [req[q] EXCEPT !.pc = "done", !.result = "error"]
    BY <1>17 DEF Restart
  <2>2. \/ req'[q] = req[q]
        \/ /\ req[q].pc \notin {"new", "done"}
           /\ req'[q].pc = "done" /\ req'[q].result = "error"
           /\ req'[q].decision = req[q].decision /\ req'[q].grants = req[q].grants
    BY ONLY <2>1, <2>4 DEF Req
  <2> QED
    BY <1>t, <2>1, <2>2, <2>3 DEF TypeOK, RequestInv, HandlerInv, PromptInv, DecisionInv, SessionInv, TokenInv, ReadInv
<1>18. CASE UNCHANGED vars
  BY <1>18, <1>t, RequestFrame DEF vars
<1> QED
  BY <1>1, <1>2, <1>3, <1>4, <1>5, <1>6, <1>7, <1>8, <1>9, <1>10, <1>11, <1>12,
     <1>13, <1>14, <1>15, <1>16, <1>17, <1>18
     DEF Next, HandlerNext, ClickNext, DecideDeny, DecideApprove

LEMMA StepIInv == IInv /\ [Next]_vars => IInv'
BY StepType, StepRequestInv DEF IInv

----------------------------------------------------------------------------
(***************************************************************************)
(* Presence.                                                               *)
(***************************************************************************)
LEMMA StepPresence ==
  ASSUME PresenceSettings = {TRUE}, IInv, PresenceInv, [Next]_vars
  PROVE  PresenceInv'
<1>t. TypeOK /\ \A r \in Request : PromptInv(r)
  BY DEF IInv, RequestInv
<1>1. ASSUME NEW c \in Click, NEW r \in Request, NEW a \in BOOLEAN, DecideStart(c, r, a)
      PROVE  PresenceInv'
  BY <1>1, <1>t DEF DecideStart, PresenceInv, TypeOK, ClickState, historyVars
<1>2. ASSUME NEW c \in Click, DecideUnlock(c) \/ DecidePresence(c)
      PROVE  PresenceInv'
  <2>1. /\ click' = [click EXCEPT ![c].pc = "approve", ![c].verified = TRUE]
        /\ click \in [Click -> ClickState]
        /\ UNCHANGED <<presence_on_approve, verdict, present>>
    BY <1>2, <1>t DEF DecideUnlock, DecidePresence, TypeOK, historyVars
  <2>2. ASSUME NEW d \in Click PROVE click'[d].verified \/ click'[d] = click[d]
    BY ONLY <2>1, c \in Click, d \in Click DEF ClickState
  <2> QED
    BY <2>1, <2>2 DEF PresenceInv
<1>3. ASSUME NEW c \in Click, DecideFails(c)
      PROVE  PresenceInv'
  BY <1>3, <1>t DEF DecideFails, NoClick, PresenceInv, TypeOK, historyVars
<1>4. ASSUME NEW c \in Click, DecideDeny(c)
      PROVE  PresenceInv'
  BY <1>4, <1>t DEF DecideDeny, resolve, NoClick, PresenceInv, TypeOK
<1>5. ASSUME NEW c \in Click, DecideApprove(c)
      PROVE  PresenceInv'
  <2>1. \A d \in Click : click'[d].pc = "approve" => click'[d].verified
    BY <1>5, <1>t DEF DecideApprove, NoClick, PresenceInv, TypeOK
  <2>2. ASSUME NEW r \in Request, verdict'[r] = "Approved" PROVE present'[r]
    <3>1. CASE r = click[c].id /\ r \in prompts
      BY <1>5, <1>t, <3>1 DEF DecideApprove, PresenceInv, TypeOK
    <3>2. CASE r # click[c].id \/ r \notin prompts
      BY <1>5, <1>t, <2>2, <3>2 DEF DecideApprove, resolve, PresenceInv, TypeOK
    <3> QED
      BY <3>1, <3>2
  <2> QED
    BY <1>5, <2>1, <2>2 DEF DecideApprove, PresenceInv
<1>6. ASSUME NEW b \in PresenceSettings, settings_set(b)
      PROVE  PresenceInv'
  BY <1>6 DEF settings_set, PresenceInv, historyVars
<1>7. CASE Restart
  BY <1>7 DEF Restart, NoClick, PresenceInv, historyVars
<1>8. CASE UNCHANGED <<presence_on_approve, click, historyVars>>
  BY <1>8 DEF PresenceInv, historyVars
<1>9. ASSUME NEW r \in Request, NEW g \in SUBSET Slot, NEW t \in Ttl, RequestArrives(r, g, t)
      PROVE  UNCHANGED <<presence_on_approve, click, historyVars>>
  BY <1>9 DEF RequestArrives
<1>10. ASSUME NEW r \in Request, HandlerNext(r)
      PROVE  UNCHANGED <<presence_on_approve, click, historyVars>>
  BY <1>10 DEF HandlerNext, ReceiveDecision, TimeoutFires, TimeoutRemove, Refuse, create_session
<1>11. ASSUME NEW r \in Request, NEW k \in Slot, GetKey(r, k)
      PROVE  UNCHANGED <<presence_on_approve, click, historyVars>>
  BY <1>11 DEF GetKey
<1>12. ASSUME (\E r \in Request : revoke_session(r)) \/ revoke_all_sessions \/ VaultCommand
                \/ Tick \/ UNCHANGED vars
      PROVE  UNCHANGED <<presence_on_approve, click, historyVars>>
  BY <1>12 DEF revoke_session, revoke_all_sessions, VaultCommand, Tick, vars
<1> QED
  BY <1>1, <1>2, <1>3, <1>4, <1>5, <1>6, <1>7, <1>8, <1>9, <1>10, <1>11, <1>12
     DEF Next, ClickNext

----------------------------------------------------------------------------
(***************************************************************************)
(* The theorems.                                                           *)
(***************************************************************************)
LEMMA Invariance == Spec => []IInv
BY InitIInv, StepIInv, PTL DEF Spec

\* Every session row belongs to a request whose own prompt the user approved,
\* and grants what that prompt listed (ipc_handler.rs ask_user, prompt.rs
\* resolve, vault.rs create_session).
THEOREM OnlyApprovedSessions == Spec => []SessionWasApproved
<1>1. IInv => SessionWasApproved
  BY DEF IInv, RequestInv, DecisionInv, SessionInv, SessionWasApproved
<1> QED
  BY <1>1, Invariance, PTL

\* With the presence check at its default every session has a check behind it
\* (commands.rs prompt_decide).
THEOREM PresenceAlwaysBehind ==
  ASSUME PresenceSettings = {TRUE}
  PROVE  Spec => []PresenceBehindSession
<1>1. Init => PresenceInv
  BY DEF Init, NoClick, PresenceInv
<1>2. IInv /\ PresenceInv /\ [Next]_vars => PresenceInv'
  BY StepPresence
<1>3. IInv /\ PresenceInv => PresenceBehindSession
  BY DEF IInv, RequestInv, DecisionInv, SessionInv, PresenceInv, PresenceBehindSession
<1> QED
  BY <1>1, <1>2, <1>3, Invariance, PTL DEF Spec

\* Every value an agent received was granted and is in the audit log
\* (vault.rs read_key_for_session).
THEOREM EveryReadAccounted == Spec => []ReadsGrantedAndAudited
<1>1. IInv => ReadsGrantedAndAudited
  BY DEF IInv, RequestInv, TokenInv, ReadInv, ReadsGrantedAndAudited
<1> QED
  BY <1>1, Invariance, PTL

\* The state is well typed and no prompt outlives its handler (prompt.rs).
THEOREM NoPromptOrphaned == Spec => []NoOrphanPrompt
<1>1. IInv => NoOrphanPrompt
  BY DEF IInv, TypeOK, RequestInv, PromptInv, NoOrphanPrompt
<1> QED
  BY <1>1, Invariance, PTL

\* A revoked or expired session gets no value and never becomes usable again
\* (vault.rs resolve_session, create_session).
THEOREM RevocationIsFinal == Spec => DeadSessionsStayDead
<1> DEFINE Dead(r) == session[r].open /\ (session[r].revoked \/ session[r].expires <= now)
           StaysDead == \A r \in Request :
             Dead(r) => /\ got'[r] = got[r]
                        /\ session'[r].revoked \/ session'[r].expires <= now'
<1>1. IInv /\ [Next]_vars => StaysDead
  <2> SUFFICES ASSUME IInv, [Next]_vars, NEW q \in Request, Dead(q)
               PROVE  /\ got'[q] = got[q]
                      /\ session'[q].revoked \/ session'[q].expires <= now'
    OBVIOUS
  <2>t. TypeOK /\ req[q].pc = "done" /\ session[q] \in Session /\ now \in Nat
    BY DEF IInv, RequestInv, HandlerInv, TypeOK, Req
  <2>1. CASE UNCHANGED <<session, got>> /\ now' \in {now, now + 1}
    BY <2>1, <2>t DEF Session
  <2>2. ASSUME NEW r \in Request, create_session(r)
        PROVE  UNCHANGED got /\ session'[q] = session[q] /\ now' = now
    BY <2>2, <2>t DEF create_session, TypeOK
  <2>3. ASSUME NEW r \in Request, NEW k \in Slot, GetKey(r, k)
        PROVE  got'[q] = got[q] /\ session'[q] = session[q] /\ now' = now
    BY <2>3, <2>t DEF GetKey, is_active, TypeOK, Session
  <2>4. ASSUME NEW r \in Request, revoke_session(r)
        PROVE  /\ got' = got /\ now' = now
               /\ session'[q] \in {session[q], [session[q] EXCEPT !.revoked = TRUE]}
    BY <2>4, <2>t DEF revoke_session, TypeOK, agentVars
  <2>5. ASSUME revoke_all_sessions
        PROVE  /\ got' = got /\ now' = now
               /\ session'[q] \in {session[q], [session[q] EXCEPT !.revoked = TRUE]}
    BY <2>5, <2>t DEF revoke_all_sessions, agentVars
  <2>6. CASE /\ got'[q] = got[q] /\ now' = now
             /\ session'[q] \in {session[q], [session[q] EXCEPT !.revoked = TRUE]}
    BY <2>6, <2>t DEF Session
  <2>7. ASSUME NEW r \in Request, NEW g \in SUBSET Slot, NEW t \in Ttl, RequestArrives(r, g, t)
        PROVE  UNCHANGED <<session, got>> /\ now' \in {now, now + 1}
    BY <2>7 DEF RequestArrives
  <2>8. ASSUME NEW r \in Request, HandlerNext(r), ~create_session(r)
        PROVE  UNCHANGED <<session, got>> /\ now' \in {now, now + 1}
    BY <2>8 DEF HandlerNext, ReceiveDecision, TimeoutFires, TimeoutRemove, Refuse, agentVars
  <2>9. ASSUME NEW c \in Click, ClickNext(c)
        PROVE  UNCHANGED <<session, got>> /\ now' \in {now, now + 1}
    BY <2>9 DEF ClickNext, DecideStart, DecideUnlock, DecidePresence, DecideFails,
                DecideDeny, DecideApprove, agentVars
  <2>10. ASSUME VaultCommand \/ (\E b \in PresenceSettings : settings_set(b)) \/ Tick
                 \/ Restart \/ UNCHANGED vars
        PROVE  UNCHANGED <<session, got>> /\ now' \in {now, now + 1}
    BY <2>10 DEF VaultCommand, settings_set, Tick, Restart, vars, agentVars
  <2> QED
    BY <2>1, <2>2, <2>3, <2>4, <2>5, <2>6, <2>7, <2>8, <2>9, <2>10 DEF Next
<1> QED
  BY <1>1, Invariance, PTL DEF Spec, DeadSessionsStayDead

============================================================================
