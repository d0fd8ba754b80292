------------------------------ MODULE AskUser ------------------------------
(***************************************************************************)
(* What an agent's call sets off in the app while it waits for the user:   *)
(* the prompt window, the answer, the rotation run behind a report, and    *)
(* the auto-lock loop that runs beside them.                               *)
(*                                                                         *)
(* request_permissions and report_key_invalid both go through ask_user: a  *)
(* queue entry, the window, a wait with a timeout, and the window again.   *)
(* Whoever takes an entry out looks whether the queue is empty and then    *)
(* hides the window, so that prompts and hides can overtake each other.    *)
(* The auto-lock loop reads the idle time, then the run registry, and then *)
(* locks; unlocking and touching the idle clock are two steps as well.     *)
(* (Authorization has the sessions and reads behind a permission request,  *)
(* Runs the registry with several callers and connections.)                *)
(*                                                                         *)
(* Sources: apps/desktop/src-tauri/src/{ipc_handler,prompt,commands,lib,   *)
(* settings,state}.rs.                                                     *)
(***************************************************************************)
CONSTANTS
  Call,      \* calls of request_permissions and report_key_invalid
  Report,    \* those of report_key_invalid
  NoCall,    \* no call
  Click      \* invocations of the command prompt_decide

ASSUME AskAssumption ==
  NoCall \notin Call /\ Report \subseteq Call

VARIABLES
  call,      \* the handler tasks
  run,       \* the rotation run of each report
  prompts,   \* PromptQueue.entries
  channel,   \* the oneshot channel of each prompt
  window,    \* the window "prompt": not built yet, hidden or shown
  click,     \* the prompt_decide calls
  locked,    \* whether the vault is locked
  collect,   \* a collection the user has started is not finished
  overdue,   \* last_activity is longer ago than auto_lock_minutes, which is not 0
  loop,      \* the auto-lock loop
  excused,   \* history: prompts the user has hidden, or no window was built for
  raced      \* history: prompts that were queued while a hide was due

callVars == <<call, run>>
promptVars == <<prompts, channel>>
windowVars == <<window, excused, raced>>
vars == <<callVars, promptVars, windowVars, click, locked, collect, overdue, loop>>

----------------------------------------------------------------------------
CallState == [pc : {"new", "push", "show", "build", "waiting", "timed_out", "close",
                    "hide", "decided", "start", "wait", "done"},
              decision : {"none", "Approved", "Denied", "TimedOut"},
              result : {"none", "token", "error", "unsupported", "denied", "failed"}]

NewCall == [pc |-> "new", decision |-> "none", result |-> "none"]

ClickState == [pc : {"idle", "deny", "unlock", "presence", "approve", "touch",
                     "close", "hide"},
               id : Call \cup {NoCall}]

NoClick == [pc |-> "idle", id |-> NoCall]

\* RunRegistry::active: a run that has not finished.
Active == collect \/ \E c \in Call : run[c] = "active"

\* The app has just started: the vault is locked and nothing is asked.
Init ==
  /\ call = [c \in Call |-> NewCall]
  /\ run = [c \in Call |-> "none"]
  /\ prompts = {} /\ channel = [c \in Call |-> "empty"]
  /\ window = "none"
  /\ click = [k \in Click |-> NoClick]
  /\ locked = TRUE
  /\ collect = FALSE /\ overdue = FALSE /\ loop = "sleep"
  /\ excused = {} /\ raced = {}

Goes(c, pc) == call' = [call EXCEPT ![c].pc = pc]
Answer(c, result) == call' = [call EXCEPT ![c].pc = "done", ![c].result = result]

Remove(c) ==
  prompts' = prompts \ {c} /\ excused' = excused \ {c} /\ raced' = raced \ {c}

\* AppState::touch.
touch == overdue' = FALSE

----------------------------------------------------------------------------
(***************************************************************************)
(* ask_user.                                                               *)
(***************************************************************************)

\* The checks before the prompt: a bad manifest, a dead session, a key that
\* was not granted, no playbook that rotates it.
CallArrives(c) ==
  /\ call[c].pc = "new"
  /\ \/ Goes(c, "push")
     \/ Answer(c, "error")
     \/ c \in Report /\ Answer(c, "unsupported")
  /\ UNCHANGED <<run, promptVars, windowVars, click, locked, collect, overdue, loop>>

\* Whether some hide is due, by a task that found the queue empty before.
HideDue == (\E c \in Call : call[c].pc = "hide") \/ (\E k \in Click : click[k].pc = "hide")

push(c) ==
  /\ call[c].pc = "push"
  /\ Goes(c, "show")
  /\ prompts' = prompts \cup {c}
  /\ raced' = IF HideDue THEN raced \cup {c} ELSE raced
  /\ UNCHANGED <<run, channel, window, excused, click, locked, collect, overdue, loop>>

\* The window comes up with every queued prompt in it.
Appears ==
  /\ window' = "shown"
  /\ excused' = {}
  /\ raced' = IF HideDue THEN raced ELSE {}

Disappears == window' = IF window = "none" THEN window ELSE "hidden"

\* show_prompt_window: a window that exists is shown (show and hide only post
\* to the event loop, which lives as long as the app) ...
show_prompt_window(c) ==
  /\ call[c].pc = "show"
  /\ IF window # "none" THEN Appears /\ Goes(c, "waiting")
                        ELSE Goes(c, "build") /\ UNCHANGED windowVars
  /\ UNCHANGED <<run, promptVars, click, locked, collect, overdue, loop>>

\* ... or it is built, which may fail, and does if another call has built it
\* meanwhile.  The error is logged and the prompt waited for all the same.
BuildWindow(c) ==
  /\ call[c].pc = "build"
  /\ Goes(c, "waiting")
  /\ \/ window = "none" /\ Appears
     \/ /\ excused' = IF window = "shown" THEN excused ELSE excused \cup {c}
        /\ UNCHANGED <<window, raced>>
  /\ UNCHANGED <<run, promptVars, click, locked, collect, overdue, loop>>

\* timeout(rx) polls the channel first: a decision that was sent wins.
ReceiveDecision(c) ==
  /\ call[c].pc = "waiting" /\ channel[c] \in {"Approved", "Denied"}
  /\ call' = [call EXCEPT ![c].pc = "close", ![c].decision = channel[c]]
  /\ UNCHANGED <<run, promptVars, windowVars, click, locked, collect, overdue, loop>>

TimeoutFires(c) ==
  /\ call[c].pc = "waiting" /\ channel[c] = "empty"
  /\ Goes(c, "timed_out")
  /\ channel' = [channel EXCEPT ![c] = "closed"]
  /\ UNCHANGED <<run, prompts, windowVars, click, locked, collect, overdue, loop>>

\* Mutant: a timeout returns before the window is looked at.
TimeoutRemove_returnsEarly(c) ==
  /\ call[c].pc = "timed_out"
  /\ call' = [call EXCEPT ![c].pc = "decided", ![c].decision = "TimedOut"]
  /\ Remove(c)
  /\ UNCHANGED <<run, channel, window, click, locked, collect, overdue, loop>>

TimeoutRemove(c) ==
  /\ call[c].pc = "timed_out"
  /\ call' = [call EXCEPT ![c].pc = "close", ![c].decision = "TimedOut"]
  /\ Remove(c)
  /\ UNCHANGED <<run, channel, window, click, locked, collect, overdue, loop>>

\* Mutant: the window is closed with every answer.
CloseCheck_always(c) ==
  /\ call[c].pc = "close"
  /\ Goes(c, "hide")
  /\ UNCHANGED <<run, promptVars, windowVars, click, locked, collect, overdue, loop>>

\* close_prompt_window_if_idle: is_empty, with the queue's lock released again,
CloseCheck(c) ==
  /\ call[c].pc = "close"
  /\ Goes(c, IF prompts = {} THEN "hide" ELSE "decided")
  /\ UNCHANGED <<run, promptVars, windowVars, click, locked, collect, overdue, loop>>

\* ... and then hide.
CloseHide(c) ==
  /\ call[c].pc = "hide"
  /\ Goes(c, "decided")
  /\ Disappears
  /\ UNCHANGED <<run, promptVars, excused, raced, click, locked, collect, overdue, loop>>

----------------------------------------------------------------------------
(***************************************************************************)
(* After the prompt.                                                       *)
(***************************************************************************)

\* request_permissions: refused, or a session and a touch.
Authorize(c) ==
  /\ call[c].pc = "decided" /\ c \notin Report
  /\ \/ call[c].decision = "Approved" /\ Answer(c, "token") /\ touch
     \/ Answer(c, "error") /\ UNCHANGED overdue
     \/ call[c].decision # "Approved" /\ Answer(c, "denied") /\ UNCHANGED overdue
  /\ UNCHANGED <<run, promptVars, windowVars, click, locked, collect, loop>>

\* Mutant: only an explicit denial is one.
Rotate_deniedOnly(c) ==
  /\ call[c].pc = "decided" /\ c \in Report
  /\ IF call[c].decision = "Denied" THEN Answer(c, "denied")
     ELSE IF locked THEN Answer(c, "failed")
     ELSE Goes(c, "start")
  /\ UNCHANGED <<run, promptVars, windowVars, click, locked, collect, overdue, loop>>

\* report_key_invalid: whatever is not an approval is "denied"; start_run_inner
\* begins with the lock.
Rotate(c) ==
  /\ call[c].pc = "decided" /\ c \in Report
  /\ IF call[c].decision # "Approved" THEN Answer(c, "denied")
     ELSE IF locked THEN Answer(c, "failed")
     ELSE Goes(c, "start")
  /\ UNCHANGED <<run, promptVars, windowVars, click, locked, collect, overdue, loop>>

\* The rest of start_run_inner and runs::start: no extension, no model key, a
\* run is active; or the run is inserted.
StartRun(c) ==
  /\ call[c].pc = "start"
  /\ \/ Answer(c, "failed") /\ UNCHANGED run
     \/ /\ ~Active
        /\ Goes(c, "wait")
        /\ run' = [run EXCEPT ![c] = "active"]
  /\ UNCHANGED <<promptVars, windowVars, click, locked, collect, overdue, loop>>

\* Runner::run refuses to rotate and publishes Finished(Failed) at once.
RunRefused(c) ==
  /\ run[c] = "active"
  /\ run' = [run EXCEPT ![c] = "finished"]
  /\ UNCHANGED <<call, promptVars, windowVars, click, locked, collect, overdue, loop>>

\* runs.wait answers, finds the run cleared, or times out (and aborts the run):
\* "failed" in every case, as the run is never a success.
RunAnswered(c) ==
  /\ call[c].pc = "wait"
  /\ Answer(c, "failed")
  /\ UNCHANGED <<run, promptVars, windowVars, click, locked, collect, overdue, loop>>

----------------------------------------------------------------------------
(***************************************************************************)
(* prompt_decide.                                                          *)
(***************************************************************************)
ClickGoes(k, pc) == click' = [click EXCEPT ![k].pc = pc]

\* get(id), and the lock as it is now.  The presence check is skipped if the
\* user has turned it off.
DecideStart(k, c, approve) ==
  /\ click[k] = NoClick /\ c \in prompts
  /\ \E pc \in IF ~approve THEN {"deny"} ELSE IF locked THEN {"unlock"}
               ELSE {"presence", "approve"} :
       click' = [click EXCEPT ![k] = [pc |-> pc, id |-> c]]
  /\ UNCHANGED <<callVars, promptVars, windowVars, locked, collect, overdue, loop>>

\* vault_unlock: the same unlock and touch with no prompt.
VaultUnlock(k) ==
  /\ click[k] = NoClick /\ locked
  /\ ClickGoes(k, "unlock")
  /\ UNCHANGED <<callVars, promptVars, windowVars, locked, collect, overdue, loop>>

DecideUnlock(k) ==
  /\ click[k].pc = "unlock"
  /\ ClickGoes(k, IF click[k].id = NoCall THEN "touch" ELSE "approve")
  /\ locked' = FALSE
  /\ UNCHANGED <<callVars, promptVars, windowVars, collect, overdue, loop>>

DecidePresence(k) ==
  /\ click[k].pc = "presence"
  /\ ClickGoes(k, "approve")
  /\ UNCHANGED <<callVars, promptVars, windowVars, locked, collect, overdue, loop>>

\* Touch ID is refused: the prompt stays queued.
DecideFails(k) ==
  /\ click[k].pc \in {"unlock", "presence"}
  /\ click' = [click EXCEPT ![k] = NoClick]
  /\ UNCHANGED <<callVars, promptVars, windowVars, locked, collect, overdue, loop>>

\* PromptQueue::resolve: the entry goes, and with it the sender.
resolve(c, d) ==
  IF c \in prompts
  THEN /\ Remove(c)
       /\ channel' = [channel EXCEPT ![c] = IF @ = "empty" THEN d ELSE @]
  ELSE UNCHANGED <<promptVars, excused, raced>>

DecideDeny(k) ==
  /\ click[k].pc = "deny"
  /\ resolve(click[k].id, "Denied")
  /\ ClickGoes(k, "close")
  /\ UNCHANGED <<callVars, window, locked, collect, overdue, loop>>

DecideApprove(k) ==
  /\ click[k].pc = "approve"
  /\ resolve(click[k].id, "Approved")
  /\ ClickGoes(k, "touch")
  /\ UNCHANGED <<callVars, window, locked, collect, overdue, loop>>

DecideTouch(k) ==
  /\ click[k].pc = "touch"
  /\ touch
  /\ click' = [click EXCEPT ![k] = IF @.id = NoCall THEN NoClick ELSE [@ EXCEPT !.pc = "close"]]
  /\ UNCHANGED <<callVars, promptVars, windowVars, locked, collect, loop>>

DecideCloseCheck(k) ==
  /\ click[k].pc = "close"
  /\ click' = [click EXCEPT ![k] = IF prompts = {} THEN [@ EXCEPT !.pc = "hide"] ELSE NoClick]
  /\ UNCHANGED <<callVars, promptVars, windowVars, locked, collect, overdue, loop>>

DecideCloseHide(k) ==
  /\ click[k].pc = "hide"
  /\ click' = [click EXCEPT ![k] = NoClick]
  /\ Disappears
  /\ UNCHANGED <<callVars, promptVars, excused, raced, locked, collect, overdue, loop>>

----------------------------------------------------------------------------
(***************************************************************************)
(* The auto-lock loop, every 30 seconds.                                   *)
(***************************************************************************)

\* settings().auto_lock_minutes and last_activity; if the vault is not overdue
\* the loop sleeps on.
LoopLooks ==
  /\ loop = "sleep" /\ overdue
  /\ loop' = "runs"
  /\ UNCHANGED <<callVars, promptVars, windowVars, click, locked, collect, overdue>>

\* Mutant: runs that have finished and were not cleared count as well.
LoopChecksRuns_anyRun ==
  /\ loop = "runs"
  /\ loop' = IF collect \/ (\E c \in Call : run[c] # "none") THEN "sleep" ELSE "lock"
  /\ UNCHANGED <<callVars, promptVars, windowVars, click, locked, collect, overdue>>

\* runs.active(), with the registry's lock released again.
LoopChecksRuns ==
  /\ loop = "runs"
  /\ loop' = IF Active THEN "sleep" ELSE "lock"
  /\ UNCHANGED <<callVars, promptVars, windowVars, click, locked, collect, overdue>>

LoopLocks ==
  /\ loop = "lock"
  /\ locked' = TRUE
  /\ loop' = "sleep"
  /\ UNCHANGED <<callVars, promptVars, windowVars, click, collect, overdue>>

----------------------------------------------------------------------------
(***************************************************************************)
(* The user, other agents and the clock.                                   *)
(***************************************************************************)

\* Time goes by.
MinutesPass ==
  /\ ~overdue
  /\ overdue' = TRUE
  /\ UNCHANGED <<callVars, promptVars, windowVars, click, locked, collect, loop>>

\* GET_KEY touches before it looks at the token.
GetKey ==
  /\ overdue
  /\ touch
  /\ UNCHANGED <<callVars, promptVars, windowVars, click, locked, collect, loop>>

\* settings_set: other minutes, or 0 for never.
settings_set ==
  /\ overdue' \in BOOLEAN \ {overdue}
  /\ UNCHANGED <<callVars, promptVars, windowVars, click, locked, collect, loop>>

vault_lock ==
  /\ ~locked
  /\ locked' = TRUE
  /\ UNCHANGED <<callVars, promptVars, windowVars, click, collect, overdue, loop>>

\* A collection is inserted: whether the vault is locked was looked at before.
CollectStarts ==
  /\ ~Active
  /\ collect' = TRUE
  /\ UNCHANGED <<callVars, promptVars, windowVars, click, locked, overdue, loop>>

CollectEnds ==
  /\ collect
  /\ collect' = FALSE
  /\ UNCHANGED <<callVars, promptVars, windowVars, click, locked, overdue, loop>>

\* CloseRequested of the prompt window: hidden, its prompts stay queued.
UserHides ==
  /\ window = "shown"
  /\ Disappears
  /\ excused' = excused \cup prompts
  /\ UNCHANGED <<callVars, promptVars, raced, click, locked, collect, overdue, loop>>

----------------------------------------------------------------------------
Handler(c) ==
  \/ push(c) \/ show_prompt_window(c) \/ BuildWindow(c)
  \/ ReceiveDecision(c) \/ TimeoutFires(c) \/ TimeoutRemove(c)
  \/ CloseCheck(c) \/ CloseHide(c)
  \/ Authorize(c) \/ Rotate(c) \/ StartRun(c) \/ RunAnswered(c)

\* What prompt_decide does by itself, once the user has confirmed.
ClickRuns(k) ==
  \/ DecideDeny(k) \/ DecideApprove(k) \/ DecideTouch(k)
  \/ DecideCloseCheck(k) \/ DecideCloseHide(k)

Loop == LoopLooks \/ LoopChecksRuns \/ LoopLocks

Next ==
  \/ \E c \in Call : CallArrives(c) \/ Handler(c) \/ RunRefused(c)
  \/ \E k \in Click, c \in Call, approve \in BOOLEAN : DecideStart(k, c, approve)
  \/ \E k \in Click : VaultUnlock(k) \/ DecideUnlock(k) \/ DecidePresence(k)
  \/ \E k \in Click : DecideFails(k) \/ ClickRuns(k)
  \/ Loop
  \/ MinutesPass
  \/ GetKey
  \/ settings_set
  \/ vault_lock
  \/ CollectStarts \/ CollectEnds
  \/ UserHides

Spec == Init /\ [][Next]_vars

\* The runtime runs the handlers, the commands and the loop, timers included;
\* nothing is assumed of the user, the agents and the collections.
FairSpec ==
  /\ Spec
  /\ \A c \in Call : WF_vars(Handler(c)) /\ WF_vars(RunRefused(c))
  /\ \A k \in Click : WF_vars(ClickRuns(k))
  /\ WF_vars(Loop)

----------------------------------------------------------------------------
\* Types of the handlers, the prompts, the clicks and the loop.
TypeOK ==
  /\ call \in [Call -> CallState]
  /\ run \in [Call -> {"none", "active", "finished"}]
  /\ prompts \subseteq Call
  /\ channel \in [Call -> {"empty", "Approved", "Denied", "closed"}]
  /\ window \in {"none", "hidden", "shown"} /\ locked \in BOOLEAN
  /\ click \in [Click -> ClickState]
  /\ collect \in BOOLEAN /\ overdue \in BOOLEAN
  /\ loop \in {"sleep", "runs", "lock"}
  /\ excused \subseteq Call /\ raced \subseteq Call

\* A rotation run exists only for a report whose own prompt the user approved
\* in time, an agent that was told "denied" has none, and one that was told
\* "failed" had the user's approval (ipc_handler.rs report_key_invalid).
RotationsApproved ==
  TypeOK /\ \A c \in Call :
    /\ run[c] # "none" => channel[c] = "Approved" /\ call[c].decision = "Approved"
    /\ call[c].result = "denied" => run[c] = "none"
    /\ call[c].result = "failed" => channel[c] = "Approved"

\* A prompt somebody waits for is on the screen ("shown in the `prompt`
\* window", prompt.rs line 1), unless since the window last came up the user
\* closed it over the prompt, or it could not be built for it (the error arm of
\* show_prompt_window), or the prompt was queued between another task's look at
\* the empty queue and its hide.
PromptsShown ==
  \A c \in prompts : call[c].pc = "waiting" => window = "shown" \/ c \in excused \cup raced

\* Every call that has come is answered, and the window does not stay without a
\* prompt in it, even if the user never looks: whoever removes the last prompt hides the window (ipc_handler.rs
\* ask_user; prompt.rs close_prompt_window_if_idle).
PromptsEnd ==
  /\ \A c \in Call : []<>(call[c].pc \in {"new", "done"})
  /\ []<>(window # "shown" \/ prompts # {})

\* A vault that stays idle beyond the minutes set, with no active run, does not
\* stay unlocked, whatever ran, was unlocked or was set before (lib.rs, the
\* auto-lock loop; settings.rs line 12).
IdleVaultLocks ==
  <>[](overdue /\ ~Active) => []<>locked

============================================================================
