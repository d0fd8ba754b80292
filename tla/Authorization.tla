--------------------------- MODULE Authorization ---------------------------
(***************************************************************************)
(* From an agent's permission request to the value it reads.               *)
(*                                                                         *)
(* An IPC handler task validates the manifest, queues a prompt and waits   *)
(* on a oneshot channel with a timeout; the prompt window's command        *)
(* prompt_decide answers it, possibly after unlocking the vault or a       *)
(* presence check, during which the prompt can time out or be denied by    *)
(* another click.  An approval becomes a session row, and get_key checks   *)
(* that row on every read.  Handlers, clicks, the user's other commands    *)
(* and the clock interleave; a call under the vault mutex is one step.     *)
(*                                                                         *)
(* Sources: apps/desktop/src-tauri/src/{ipc_handler,prompt,commands}.rs,   *)
(* crates/passvalet-core/src/{vault,manifest,model}.rs.  The vault itself  *)
(* is used through what VaultStore promises, which Vault implements.       *)
(***************************************************************************)
EXTENDS Integers

CONSTANTS
  Request,    \* request_permissions calls; also names the session it creates
  Click,      \* invocations of the command prompt_decide
  NoRequest,  \* no request
  Slot, Value, NoValue,
  Ttl,        \* values a manifest may ask for
  MinTtl,     \* manifest::MIN_TTL
  MaxTtl,     \* manifest::MAX_TTL
  PresenceSettings, \* values the user gives Settings.presence_on_approve
  MaxTime,    \* bound on the clock
  MaxReads    \* bound on reads per session

ASSUME AuthAssumption ==
  /\ NoValue \notin Value
  /\ NoRequest \notin Request
  /\ Ttl \subseteq Nat
  /\ MinTtl \in Nat \ {0} /\ MaxTtl \in Nat /\ MinTtl <= MaxTtl
  /\ PresenceSettings \subseteq BOOLEAN /\ PresenceSettings # {}
  /\ MaxTime \in Nat /\ MaxReads \in Nat

VARIABLES
  initialized, unlocked, store,  \* the vault, see VaultStore
  now,                           \* the clock
  presence_on_approve,           \* Settings.presence_on_approve
  req,                           \* the handler tasks
  prompts,                       \* PromptQueue.entries
  channel,                       \* the oneshot channel of each prompt
  click,                         \* the prompt_decide calls
  session,                       \* rows of the table sessions
  log,                           \* session_* rows of audit_log per request
  readRows,                      \* number of key_read rows per session and key
  got,                           \* values that reached the agent
  verdict,                       \* history: what the user's click resolved
  present                        \* history: the approving click proved presence

vaultVars == <<initialized, unlocked, store>>
agentVars == <<log, readRows, got>>
historyVars == <<verdict, present>>
vars == <<vaultVars, now, presence_on_approve, req, prompts, channel, click,
          session, agentVars, historyVars>>

V == INSTANCE VaultStore

----------------------------------------------------------------------------
Decision == {"Approved", "Denied", "TimedOut"}

Req == [pc : {"new", "waiting", "timed_out", "decided", "done"},
        grants : SUBSET Slot, ttl : Ttl \cup {0},
        decision : Decision \cup {"none"},
        result : {"none", "token", "denied", "timeout", "error"}]

\* A request carries its manifest's key requests and ttl_seconds.
NewReq == [pc |-> "new", grants |-> {}, ttl |-> 0, decision |-> "none",
           result |-> "none"]

ClickState == [pc : {"idle", "deny", "unlock", "presence", "approve"},
               id : Request \cup {NoRequest}, verified : BOOLEAN]

NoClick == [pc |-> "idle", id |-> NoRequest, verified |-> FALSE]

Session == [open : BOOLEAN, grants : SUBSET Slot, expires : Nat,
            revoked : BOOLEAN, reads : Nat]

\* The fields of Session that decide a read; agent and purpose are only shown.
NoSession == [open |-> FALSE, grants |-> {}, expires |-> 0,
              revoked |-> FALSE, reads |-> 0]

clamp_ttl(t) == IF t < MinTtl THEN MinTtl ELSE IF t > MaxTtl THEN MaxTtl ELSE t

\* Mutant: a revoked row is still honoured.
is_active_ignoresRevoked(r) == session[r].open /\ session[r].expires > now

\* resolve_session: the row exists, is not revoked and has not expired.
is_active(r) ==
  session[r].open /\ ~session[r].revoked /\ session[r].expires > now

Answer(r, result) ==
  req' = [req EXCEPT ![r].pc = "done", ![r].result = result]

Audit(r, event) == log' = [log EXCEPT ![r] = @ \cup {event}]

----------------------------------------------------------------------------
Init ==
  /\ V!Init
  /\ now = 0
  /\ presence_on_approve \in PresenceSettings
  /\ req = [r \in Request |-> NewReq]
  /\ prompts = {}
  /\ channel = [r \in Request |-> "empty"]
  /\ click = [c \in Click |-> NoClick]
  /\ session = [r \in Request |-> NoSession]
  /\ log = [r \in Request |-> {}]
  /\ readRows = [r \in Request |-> [k \in Slot |-> 0]]
  /\ got = [r \in Request |-> [k \in Slot |-> 0]]
  /\ verdict = [r \in Request |-> "none"]
  /\ present = [r \in Request |-> FALSE]

----------------------------------------------------------------------------
(***************************************************************************)
(* The handler: request_permissions and ask_user.                          *)
(***************************************************************************)

\* A manifest is what it asks for; one that asks for nothing stands for all
\* that validate refuses (names, lengths, duplicates).
validate(g) == g # {}

\* PromptQueue::push, with a fresh oneshot channel.
push(r) == prompts' = prompts \cup {r}

\* validate, audit_session_requested, the is_initialized check, ask_user up to
\* its wait.
RequestArrives(r, g, t) ==
  /\ req[r].pc = "new"
  /\ \/ /\ validate(g)
        /\ Audit(r, "requested")
        /\ IF initialized
           THEN /\ req' = [req EXCEPT ![r] = [@ EXCEPT !.pc = "waiting",
                                                       !.grants = g, !.ttl = t]]
                /\ push(r)
           ELSE Answer(r, "error") /\ UNCHANGED prompts
     \/ \* refused by validate, or the audit row cannot be written
        Answer(r, "error") /\ UNCHANGED <<log, prompts>>
  /\ UNCHANGED <<vaultVars, now, presence_on_approve, channel, click, session,
                 readRows, got, historyVars>>

\* timeout(rx) polls the channel first: a decision that was sent wins.
ReceiveDecision(r) ==
  /\ req[r].pc = "waiting"
  /\ channel[r] \in {"Approved", "Denied"}
  /\ req' = [req EXCEPT ![r].pc = "decided", ![r].decision = channel[r]]
  /\ UNCHANGED <<vaultVars, now, presence_on_approve, prompts, channel, click,
                 session, agentVars, historyVars>>

\* The timer fires on an empty channel; the receiver is dropped.
TimeoutFires(r) ==
  /\ req[r].pc = "waiting"
  /\ channel[r] = "empty"
  /\ channel' = [channel EXCEPT ![r] = "closed"]
  /\ req' = [req EXCEPT ![r].pc = "timed_out"]
  /\ UNCHANGED <<vaultVars, now, presence_on_approve, prompts, click, session,
                 agentVars, historyVars>>

\* Mutant: the entry of a timed-out prompt stays in the queue.
TimeoutRemove_leaks(r) ==
  /\ req[r].pc = "timed_out"
  /\ req' = [req EXCEPT ![r].pc = "decided", ![r].decision = "TimedOut"]
  /\ UNCHANGED <<vaultVars, now, presence_on_approve, prompts, channel, click,
                 session, agentVars, historyVars>>

\* ... and only then is the entry removed from the queue.
TimeoutRemove(r) ==
  /\ req[r].pc = "timed_out"
  /\ prompts' = prompts \ {r}
  /\ req' = [req EXCEPT ![r].pc = "decided", ![r].decision = "TimedOut"]
  /\ UNCHANGED <<vaultVars, now, presence_on_approve, channel, click, session,
                 agentVars, historyVars>>

\* audit_session_denied, whose failure turns the answer into an error.
Refuse(r) ==
  /\ req[r].pc = "decided"
  /\ req[r].decision \in {"Denied", "TimedOut"}
  /\ \/ /\ Audit(r, "denied")
        /\ Answer(r, IF req[r].decision = "Denied" THEN "denied" ELSE "timeout")
     \/ Answer(r, "error") /\ UNCHANGED log
  /\ UNCHANGED <<vaultVars, now, presence_on_approve, prompts, channel, click,
                 session, readRows, got, historyVars>>

\* create_session: the row, then the audit entry, then the token.  It does
\* not ask whether the vault is unlocked.  A failing insert answers an error;
\* a failing audit entry leaves a row whose token nobody has.
create_session(r) ==
  /\ req[r].pc = "decided"
  /\ req[r].decision = "Approved"
  /\ \/ /\ session' = [session EXCEPT ![r] =
             [open |-> TRUE, grants |-> req[r].grants,
              expires |-> now + clamp_ttl(req[r].ttl),
              revoked |-> FALSE, reads |-> 0]]
        /\ \/ Audit(r, "approved") /\ Answer(r, "token")
           \/ Answer(r, "error") /\ UNCHANGED log
     \/ Answer(r, "error") /\ UNCHANGED <<session, log>>
  /\ UNCHANGED <<vaultVars, now, presence_on_approve, prompts, channel, click,
                 readRows, got, historyVars>>

----------------------------------------------------------------------------
(***************************************************************************)
(* The prompt window: prompt_decide.                                       *)
(***************************************************************************)

\* Mutant: an unlocked vault makes the presence check unnecessary.
DecideStart_noPresence(c, r, approve) ==
  /\ click[c] = NoClick
  /\ r \in prompts
  /\ click' = [click EXCEPT ![c] =
       [pc |-> IF ~approve THEN "deny" ELSE IF unlocked THEN "approve" ELSE "unlock",
        id |-> r, verified |-> FALSE]]
  /\ UNCHANGED <<vaultVars, now, presence_on_approve, req, prompts, channel,
                 session, agentVars, historyVars>>

\* get(id), and for an approval the lock state and the setting as they are
\* now; then the command may wait for the user.
DecideStart(c, r, approve) ==
  /\ click[c] = NoClick
  /\ r \in prompts
  /\ click' = [click EXCEPT ![c] =
       [pc |-> IF ~approve THEN "deny"
               ELSE IF ~unlocked THEN "unlock"
               ELSE IF presence_on_approve THEN "presence" ELSE "approve",
        id |-> r, verified |-> FALSE]]
  /\ UNCHANGED <<vaultVars, now, presence_on_approve, req, prompts, channel,
                 session, agentVars, historyVars>>

\* unlock::unlock succeeds: it proves presence and leaves the vault unlocked.
DecideUnlock(c) ==
  /\ click[c].pc = "unlock"
  /\ V!Unlock
  /\ click' = [click EXCEPT ![c].pc = "approve", ![c].verified = TRUE]
  /\ UNCHANGED <<now, presence_on_approve, req, prompts, channel, session,
                 agentVars, historyVars>>

DecidePresence(c) ==
  /\ click[c].pc = "presence"
  /\ click' = [click EXCEPT ![c].pc = "approve", ![c].verified = TRUE]
  /\ UNCHANGED <<vaultVars, now, presence_on_approve, req, prompts, channel,
                 session, agentVars, historyVars>>

\* Touch ID refused or cancelled, wrong key: the prompt stays queued.
DecideFails(c) ==
  /\ click[c].pc \in {"unlock", "presence"}
  /\ click' = [click EXCEPT ![c] = NoClick]
  /\ UNCHANGED <<vaultVars, now, presence_on_approve, req, prompts, channel,
                 session, agentVars, historyVars>>

\* Mutant: the entry is not removed, so a later click replaces the decision.
resolve_keepsEntry(r, d) ==
  IF r \in prompts
  THEN /\ channel' = [channel EXCEPT ![r] = IF @ = "closed" THEN @ ELSE d]
       /\ verdict' = [verdict EXCEPT ![r] = IF @ = "none" THEN d ELSE @]
       /\ UNCHANGED prompts
  ELSE UNCHANGED <<prompts, channel, verdict>>

\* PromptQueue::resolve: whoever removes the entry sends the decision; if the
\* receiver is gone the send fails silently.
resolve(r, d) ==
  IF r \in prompts
  THEN /\ prompts' = prompts \ {r}
       /\ channel' = [channel EXCEPT ![r] = IF @ = "empty" THEN d ELSE @]
       /\ verdict' = [verdict EXCEPT ![r] = d]
  ELSE UNCHANGED <<prompts, channel, verdict>>

DecideDeny(c) ==
  /\ click[c].pc = "deny"
  /\ resolve(click[c].id, "Denied")
  /\ click' = [click EXCEPT ![c] = NoClick]
  /\ UNCHANGED <<vaultVars, now, presence_on_approve, req, session, agentVars,
                 present>>

DecideApprove(c) ==
  /\ click[c].pc = "approve"
  /\ resolve(click[c].id, "Approved")
  /\ present' = [present EXCEPT ![click[c].id] =
       IF click[c].id \in prompts THEN click[c].verified ELSE @]
  /\ click' = [click EXCEPT ![c] = NoClick]
  /\ UNCHANGED <<vaultVars, now, presence_on_approve, req, session, agentVars>>

----------------------------------------------------------------------------
(***************************************************************************)
(* Reads: read_key_for_session, under the vault mutex, each statement an   *)
(* autocommit of its own.                                                  *)
(***************************************************************************)

CanRead(r, k) == k \in session[r].grants /\ unlocked /\ store[k] # NoValue

\* Mutant: a failing audit entry does not keep the value back.
GetKey_unaudited(r, k) ==
  /\ req[r].result = "token"
  /\ is_active(r)
  /\ CanRead(r, k)
  /\ session[r].reads < MaxReads
  /\ session' = [session EXCEPT ![r].reads = @ + 1]
  /\ \/ readRows' = [readRows EXCEPT ![r][k] = @ + 1]
     \/ UNCHANGED readRows
  /\ got' = [got EXCEPT ![r][k] = @ + 1]
  /\ UNCHANGED <<vaultVars, now, presence_on_approve, req, prompts, channel,
                 click, log, historyVars>>

\* The value is decrypted, read_count is updated, the read is audited, and
\* only then does the value leave.  A refused read changes nothing but the
\* key_denied rows, which are left out.
GetKey(r, k) ==
  /\ req[r].result = "token"
  /\ is_active(r)
  /\ CanRead(r, k)
  /\ session[r].reads < MaxReads
  /\ session' = [session EXCEPT ![r].reads = @ + 1]
  /\ \/ /\ readRows' = [readRows EXCEPT ![r][k] = @ + 1]
        /\ \/ got' = [got EXCEPT ![r][k] = @ + 1]
           \/ UNCHANGED got     \* the connection is gone
     \/ UNCHANGED <<readRows, got>>
  /\ UNCHANGED <<vaultVars, now, presence_on_approve, req, prompts, channel,
                 click, log, historyVars>>

----------------------------------------------------------------------------
(***************************************************************************)
(* The user's other commands, the clock and a restart.                     *)
(***************************************************************************)
revoke_session(r) ==
  /\ session[r].open
  /\ session' = [session EXCEPT ![r].revoked = TRUE]
  /\ UNCHANGED <<vaultVars, now, presence_on_approve, req, prompts, channel,
                 click, agentVars, historyVars>>

revoke_all_sessions ==
  /\ \E r \in Request : is_active(r)
  /\ session' = [r \in Request |->
       IF is_active(r) THEN [session[r] EXCEPT !.revoked = TRUE] ELSE session[r]]
  /\ UNCHANGED <<vaultVars, now, presence_on_approve, req, prompts, channel,
                 click, agentVars, historyVars>>

\* Setup, unlock, lock (by hand or idle), put and delete of a secret.
VaultCommand ==
  /\ V!Next
  /\ UNCHANGED <<now, presence_on_approve, req, prompts, channel, click,
                 session, agentVars, historyVars>>

settings_set(b) ==
  /\ presence_on_approve' = b
  /\ UNCHANGED <<vaultVars, now, req, prompts, channel, click, session,
                 agentVars, historyVars>>

\* Utc::now, which is taken not to be set back.
Tick ==
  /\ now < MaxTime
  /\ now' = now + 1
  /\ UNCHANGED <<vaultVars, presence_on_approve, req, prompts, channel, click,
                 session, agentVars, historyVars>>

\* The app is restarted: handlers, prompts and clicks are gone, the vault is
\* locked, sessions and the audit log are in the database.
Restart ==
  /\ V!Lock
  /\ req' = [r \in Request |->
       IF req[r].pc \in {"new", "done"} THEN req[r]
       ELSE [req[r] EXCEPT !.pc = "done", !.result = "error"]]
  /\ prompts' = {}
  /\ channel' = [r \in Request |-> IF channel[r] = "empty" /\ req[r].pc # "new"
                                   THEN "closed" ELSE channel[r]]
  /\ click' = [c \in Click |-> NoClick]
  /\ UNCHANGED <<now, presence_on_approve, session, agentVars, historyVars>>

----------------------------------------------------------------------------
HandlerNext(r) ==
  \/ ReceiveDecision(r)
  \/ TimeoutFires(r)
  \/ TimeoutRemove(r)
  \/ Refuse(r)
  \/ create_session(r)

ClickNext(c) ==
  \/ \E r \in Request, approve \in BOOLEAN : DecideStart(c, r, approve)
  \/ DecideUnlock(c)
  \/ DecidePresence(c)
  \/ DecideFails(c)
  \/ DecideDeny(c)
  \/ DecideApprove(c)

Next ==
  \/ \E r \in Request, g \in SUBSET Slot, t \in Ttl : RequestArrives(r, g, t)
  \/ \E r \in Request : HandlerNext(r)
  \/ \E c \in Click : ClickNext(c)
  \/ \E r \in Request, k \in Slot : GetKey(r, k)
  \/ \E r \in Request : revoke_session(r)
  \/ revoke_all_sessions
  \/ VaultCommand
  \/ \E b \in PresenceSettings : settings_set(b)
  \/ Tick
  \/ Restart

Spec == Init /\ [][Next]_vars

----------------------------------------------------------------------------
\* Types of the handlers' local state, the prompt queue, the session rows and
\* the audit counters.
TypeOK ==
  /\ initialized \in BOOLEAN /\ unlocked \in BOOLEAN
  /\ store \in [Slot -> Value \cup {NoValue}]
  /\ now \in Nat
  /\ presence_on_approve \in BOOLEAN
  /\ req \in [Request -> Req]
  /\ prompts \in SUBSET Request
  /\ channel \in [Request -> {"empty", "Approved", "Denied", "closed"}]
  /\ click \in [Click -> ClickState]
  /\ session \in [Request -> Session]
  /\ log \in [Request -> SUBSET {"requested", "approved", "denied"}]
  /\ readRows \in [Request -> [Slot -> Nat]]
  /\ got \in [Request -> [Slot -> Nat]]
  /\ verdict \in [Request -> {"none", "Approved", "Denied"}]
  /\ present \in [Request -> BOOLEAN]

\* A session exists only for a request whose own prompt the user approved, and
\* it grants what that prompt listed: no session after a denial, after a
\* timeout, or from the approval of another request, whatever clicks were
\* still waiting for Touch ID (ipc_handler.rs ask_user, prompt.rs resolve).
SessionWasApproved ==
  \A r \in Request : session[r].open =>
    /\ verdict[r] = "Approved"
    /\ req[r].decision = "Approved"
    /\ session[r].grants = req[r].grants
    /\ req[r].result \notin {"denied", "timeout"}

\* With the default setting every session has a presence check behind it, made
\* by the very click that approved it (commands.rs prompt_decide; README.md
\* line 76).
PresenceBehindSession ==
  \A r \in Request : session[r].open => present[r]

\* Every value an agent received was granted to its session, and every receipt
\* has its key_read row: a failing audit insert keeps the value back
\* (vault.rs read_key_for_session; README.md line 79).
ReadsGrantedAndAudited ==
  \A r \in Request, k \in Slot :
    /\ got[r][k] <= readRows[r][k]
    /\ got[r][k] > 0 => /\ k \in req[r].grants
                        /\ {"requested", "approved"} \subseteq log[r]

\* The state is well typed, and a prompt in the queue has a handler that is
\* still going to take it out, so the window never shows, or stays open for, a
\* request nobody waits for (prompt.rs close_prompt_window_if_idle).
NoOrphanPrompt ==
  TypeOK /\ \A r \in prompts : req[r].pc \in {"waiting", "timed_out"}

\* Revocation and expiry take effect at once and for good: no step gives a
\* value to a session that is revoked or past its time, and no step makes
\* such a session usable again (vault.rs resolve_session; README.md line 76).
DeadSessionsStayDead ==
  [][\A r \in Request :
       session[r].open /\ (session[r].revoked \/ session[r].expires <= now) =>
         /\ got'[r] = got[r]
         /\ session'[r].revoked \/ session'[r].expires <= now']_vars

============================================================================
