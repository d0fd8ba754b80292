------------------------------- MODULE Runner -------------------------------
(***************************************************************************)
(* One run of the collection agent: Runner::run and run_inner, the control *)
(* handles RunControl, the ModelLadder and the sink into the vault.        *)
(*                                                                         *)
(* The model, the page and the user are the environment: which tool the    *)
(* model calls, what the extension answers and when the user clicks are    *)
(* free.  The abort flag and the Notify it shares with `resume` are        *)
(* touched by other threads between any two steps of the run; the task     *)
(* holds at most one registered Notified future at a time (`waiter`).      *)
(*                                                                         *)
(* Sources: crates/passvalet-agent/src/{run,ladder}.rs and                 *)
(* apps/desktop/src-tauri/src/{runs,extension}.rs.                         *)
(***************************************************************************)
EXTENDS Integers

CONSTANTS
  Wanted,      \* key types of the request
  Foreign,     \* other key types the model may name
  NoKeyType,   \* no key type
  MaxSteps,    \* Playbook.max_steps
  Models,      \* length of the model ladder
  FailuresBeforeEscalation,
  IdleLimit    \* rounds without a tool call

ASSUME RunnerAssumption ==
  /\ Wanted \cap Foreign = {}
  /\ NoKeyType \notin Wanted \cup Foreign
  /\ MaxSteps \in Nat
  /\ Models \in Nat \ {0}
  /\ FailuresBeforeEscalation \in Nat \ {0}
  /\ IdleLimit \in Nat \ {0}

VARIABLES
  kind,        \* RunKind
  task,        \* the locals of run and run_inner
  ladder,      \* ModelLadder
  abort,       \* RunControl.abort
  notifying,   \* a thread has set the flag and not yet notified
  waiter,      \* the task's Notified future
  unlocked,    \* the vault
  stored,      \* key types this run put into the vault
  outcome,     \* the RunOutcome run_inner returned
  browser,     \* what the extension was asked to do
  replied,     \* history: "Continue" was clicked since the pause was shown
  stale,       \* history: the value in hand came back after the abort
  late         \* history: browser calls sent after the abort, at most 2

control == <<abort, notifying>>
history == <<replied, stale, late>>
vars == <<kind, task, ladder, control, waiter, unlocked, stored, outcome,
          browser, history>>

----------------------------------------------------------------------------
Task == [pc : {"start", "begin", "top", "check", "model", "sleep", "batch",
               "dispatch", "ask", "asked", "paused", "capture", "captured",
               "store", "browse", "more", "end", "ending", "emit", "finished"},
         step : 0..MaxSteps, idle : 0..IdleLimit, captured : SUBSET Wanted,
         erred : BOOLEAN, key : Wanted \cup {NoKeyType},
         answer : {"none", "value", "error", "aborted"}]

Init ==
  /\ kind \in {"collect", "rotate"}
  /\ task = [pc |-> "start", step |-> 0, idle |-> 0, captured |-> {},
             erred |-> FALSE, key |-> NoKeyType, answer |-> "none"]
  /\ ladder = [index |-> 1, failures |-> 0]
  /\ abort = FALSE
  /\ notifying = FALSE
  /\ waiter = "none"
  /\ unlocked = TRUE
  /\ stored = {}
  /\ outcome = "none"
  /\ browser = "untouched"
  /\ replied = FALSE
  /\ stale = FALSE
  /\ late = 0

At(pc) == task.pc = pc
Goto(pc) == task' = [task EXCEPT !.pc = pc]

\* run_inner returns: session_end comes next, whatever the outcome.
Return(o) == Goto("end") /\ outcome' = o

\* partial(): nothing captured is a failure.
partial == IF task.captured = {} THEN "Failed" ELSE "Partial"

\* notified() and enable(): from here on notify_waiters is not missed.
Register == waiter' = "armed"

\* notify_waiters wakes a registered future and leaves no permit behind.
notify_waiters == waiter' = IF waiter = "armed" THEN "woken" ELSE waiter

----------------------------------------------------------------------------
(***************************************************************************)
(* ModelLadder.                                                            *)
(***************************************************************************)
is_top == ladder.index >= Models

escalated == [index |-> ladder.index + 1, failures |-> 0]

note_failure ==
  IF ladder.failures + 1 >= FailuresBeforeEscalation /\ ~is_top
  THEN escalated ELSE [ladder EXCEPT !.failures = @ + 1]

note_success == [ladder EXCEPT !.failures = 0]

----------------------------------------------------------------------------
(***************************************************************************)
(* Start, and the top of the loop up to the model's answer.                *)
(***************************************************************************)

\* run: a rotation ends here; a collection sends session_begin.
Start ==
  /\ At("start")
  /\ IF kind = "rotate"
     THEN Goto("emit") /\ outcome' = "Failed" /\ UNCHANGED browser
     ELSE Goto("begin") /\ browser' = "begun" /\ UNCHANGED outcome
  /\ UNCHANGED <<kind, ladder, control, waiter, unlocked, stored, history>>

\* Mutant: a failed session_begin needs no session_end.
SessionBegan_noEnd ==
  /\ At("begin")
  /\ \/ Goto("top") /\ UNCHANGED outcome
     \/ Goto("emit") /\ outcome' \in {"Aborted", "Failed"}
  /\ UNCHANGED <<kind, ladder, control, waiter, unlocked, stored, browser, history>>

SessionBegan ==
  /\ At("begin")
  /\ \/ Goto("top") /\ UNCHANGED outcome
     \/ \E o \in {"Aborted", "Failed"} : Return(o)
  /\ UNCHANGED <<kind, ladder, control, waiter, unlocked, stored, browser, history>>

\* Abort flag, step budget, then cancelled() registers itself.
LoopTop ==
  /\ At("top")
  /\ \/ abort /\ Return("Aborted") /\ UNCHANGED waiter
     \/ ~abort /\ task.step >= MaxSteps /\ Return(partial) /\ UNCHANGED waiter
     \/ ~abort /\ task.step < MaxSteps /\ Goto("check") /\ Register
        /\ UNCHANGED outcome
  /\ UNCHANGED <<kind, ladder, control, unlocked, stored, browser, history>>

\* cancelled(): the flag is read after the registration.
CheckCancelled ==
  /\ At("check")
  /\ IF abort THEN Return("Aborted") ELSE Goto("model") /\ UNCHANGED outcome
  /\ UNCHANGED <<kind, ladder, control, waiter, unlocked, stored, browser, history>>

\* A notification reaches cancelled() while the model is thinking.
Cancelled ==
  /\ At("model")
  /\ waiter = "woken"
  /\ Goto("check")
  /\ Register
  /\ UNCHANGED <<kind, ladder, control, unlocked, stored, outcome, browser, history>>

\* Rate limit, 5xx or a transport error: the next model, or a pause that
\* costs a step.
ModelRetryable ==
  /\ At("model")
  /\ IF is_top THEN Goto("sleep") /\ UNCHANGED ladder
               ELSE Goto("top") /\ ladder' = escalated
  /\ waiter' = "none"
  /\ UNCHANGED <<kind, control, unlocked, stored, outcome, browser, history>>

\* Mutant: the pause is free.
Slept_free ==
  /\ At("sleep")
  /\ Goto("top")
  /\ UNCHANGED <<kind, ladder, control, waiter, unlocked, stored, outcome,
                 browser, history>>

Slept ==
  /\ At("sleep")
  /\ task' = [task EXCEPT !.pc = "top", !.step = @ + 1]
  /\ UNCHANGED <<kind, ladder, control, waiter, unlocked, stored, outcome,
                 browser, history>>

ModelFails ==
  /\ At("model")
  /\ Return(partial)
  /\ waiter' = "none"
  /\ UNCHANGED <<kind, ladder, control, unlocked, stored, browser, history>>

\* No tool call: the third such round in a row ends the run.
ModelIdle ==
  /\ At("model")
  /\ \/ /\ task.idle + 1 >= IdleLimit
        /\ Return(partial)
     \/ /\ task.idle + 1 < IdleLimit
        /\ task' = [task EXCEPT !.pc = "top", !.idle = @ + 1, !.step = @ + 1]
        /\ UNCHANGED outcome
  /\ waiter' = "none"
  /\ UNCHANGED <<kind, ladder, control, unlocked, stored, browser, history>>

ModelCallsTools ==
  /\ At("model")
  /\ task' = [task EXCEPT !.pc = "batch", !.idle = 0, !.erred = FALSE]
  /\ waiter' = "none"
  /\ UNCHANGED <<kind, ladder, control, unlocked, stored, outcome, browser, history>>

----------------------------------------------------------------------------
(***************************************************************************)
(* The tool calls of one answer.                                           *)
(***************************************************************************)

\* Mutant: the abort flag is read once per answer, not once per call.
NextCall_noCheck ==
  /\ At("batch") \/ At("more")
  /\ \/ task.step >= MaxSteps /\ Return(partial)
     \/ /\ task.step < MaxSteps
        /\ task' = [task EXCEPT !.pc = "dispatch", !.step = @ + 1]
        /\ UNCHANGED outcome
  /\ UNCHANGED <<kind, ladder, control, waiter, unlocked, stored, browser, history>>

NextCall ==
  /\ At("batch") \/ At("more")
  /\ \/ task.step >= MaxSteps /\ Return(partial)
     \/ /\ task.step < MaxSteps
        /\ task' = [task EXCEPT !.pc = IF abort THEN "end" ELSE "dispatch",
                                !.step = @ + 1]
        /\ outcome' = IF abort THEN "Aborted" ELSE outcome
  /\ UNCHANGED <<kind, ladder, control, waiter, unlocked, stored, browser, history>>

\* Mutant: the model's word is taken for it.
Done_unchecked ==
  /\ At("dispatch")
  /\ Return("Success")
  /\ UNCHANGED <<kind, ladder, control, waiter, unlocked, stored, browser, history>>

Done ==
  /\ At("dispatch")
  /\ Return(IF Wanted \subseteq task.captured THEN "Success" ELSE "Partial")
  /\ UNCHANGED <<kind, ladder, control, waiter, unlocked, stored, browser, history>>

FailCall ==
  /\ At("dispatch")
  /\ Return(partial)
  /\ UNCHANGED <<kind, ladder, control, waiter, unlocked, stored, browser, history>>

\* Mutant: the pause is published before the task listens for the reply.
NeedUser_late ==
  /\ At("dispatch")
  /\ Goto("ask")
  /\ UNCHANGED <<kind, ladder, control, waiter, unlocked, stored, outcome,
                 browser, history>>

\* need_user registers before it publishes.
NeedUser ==
  /\ At("dispatch")
  /\ Goto("ask")
  /\ Register
  /\ UNCHANGED <<kind, ladder, control, unlocked, stored, outcome, browser, history>>

\* RunEvent::NeedUser reaches the window.
PublishPause ==
  /\ At("ask")
  /\ Goto("asked")
  /\ replied' = FALSE
  /\ UNCHANGED <<kind, ladder, control, waiter, unlocked, stored, outcome,
                 browser, stale, late>>

\* Mutant: the task waits without looking at the flag.
Pause_noCheck ==
  /\ At("asked")
  /\ Goto("paused")
  /\ UNCHANGED <<kind, ladder, control, waiter, unlocked, stored, outcome,
                 browser, history>>

Pause ==
  /\ At("asked")
  /\ IF abort THEN Return("Aborted") ELSE Goto("paused") /\ UNCHANGED outcome
  /\ UNCHANGED <<kind, ladder, control, waiter, unlocked, stored, browser, history>>

Resumed ==
  /\ At("paused")
  /\ waiter = "woken"
  /\ waiter' = "none"
  /\ IF abort THEN Return("Aborted") ELSE Goto("more") /\ UNCHANGED outcome
  /\ UNCHANGED <<kind, ladder, control, unlocked, stored, browser, history>>

\* The bridge sends a tool call to the extension.
SendCall ==
  /\ late' = IF abort /\ late < 2 THEN late + 1 ELSE late

\* capture_secret of a key type the request does not want is not sent.
CaptureForeign ==
  /\ At("dispatch")
  /\ Foreign # {}
  /\ IF abort
     THEN Return("Aborted")
     ELSE task' = [task EXCEPT !.pc = "more", !.erred = TRUE] /\ UNCHANGED outcome
  /\ UNCHANGED <<kind, ladder, control, waiter, unlocked, stored, browser, history>>

CaptureSecret(k) ==
  /\ At("dispatch")
  /\ task' = [task EXCEPT !.pc = "capture", !.key = k, !.answer = "none"]
  /\ SendCall
  /\ stale' = FALSE
  /\ UNCHANGED <<kind, ladder, control, waiter, unlocked, stored, outcome,
                 browser, replied>>

\* The extension answers, refuses or is gone, or the call times out.
CaptureReturns ==
  /\ At("capture")
  /\ \E a \in {"value", "error", "aborted"} :
       task' = [task EXCEPT !.pc = "captured", !.answer = a]
  /\ stale' = abort
  /\ UNCHANGED <<kind, ladder, control, waiter, unlocked, stored, outcome,
                 browser, replied, late>>

\* Mutant: a value that came back is stored even after an abort.
CheckCapture_noCheck ==
  /\ At("captured")
  /\ CASE task.answer = "aborted" -> Return("Aborted")
       [] task.answer = "error" ->
            /\ task' = [task EXCEPT !.pc = "more", !.erred = TRUE]
            /\ UNCHANGED outcome
       [] OTHER -> Goto("store") /\ UNCHANGED outcome
  /\ UNCHANGED <<kind, ladder, control, waiter, unlocked, stored, browser, history>>

\* The flag is read again before the answer is looked at.
CheckCapture ==
  /\ At("captured")
  /\ CASE abort \/ task.answer = "aborted" -> Return("Aborted")
       [] ~abort /\ task.answer = "error" ->
            /\ task' = [task EXCEPT !.pc = "more", !.erred = TRUE]
            /\ UNCHANGED outcome
       [] OTHER -> Goto("store") /\ UNCHANGED outcome
  /\ UNCHANGED <<kind, ladder, control, waiter, unlocked, stored, browser, history>>

\* Mutant: a value the sink rejected still counts as captured.
Store_countsRejected ==
  /\ At("store")
  /\ task' = [task EXCEPT !.pc = "more", !.captured = @ \cup {task.key}]
  /\ \/ unlocked /\ stored' = stored \cup {task.key}
     \/ UNCHANGED stored
  /\ UNCHANGED <<kind, ladder, control, waiter, unlocked, outcome, browser, history>>

\* VaultSink::store: the pattern of the key type, then put_secret, which
\* needs an unlocked vault.  An error of put_secret may come after its row is
\* committed (the audit entry failed): the value is stored, not captured.
Store ==
  /\ At("store")
  /\ \/ /\ unlocked
        /\ stored' = stored \cup {task.key}
        /\ task' = [task EXCEPT !.pc = "more", !.captured = @ \cup {task.key}]
     \/ /\ task' = [task EXCEPT !.pc = "more", !.erred = TRUE]
        /\ \/ unlocked /\ stored' = stored \cup {task.key}
           \/ UNCHANGED stored
  /\ UNCHANGED <<kind, ladder, control, waiter, unlocked, outcome, browser, history>>

BrowserTool ==
  /\ At("dispatch")
  /\ Goto("browse")
  /\ SendCall
  /\ UNCHANGED <<kind, ladder, control, waiter, unlocked, stored, outcome,
                 browser, replied, stale>>

BrowserReturns ==
  /\ At("browse")
  /\ \/ Return("Aborted")
     \/ \E failed \in BOOLEAN :
          /\ task' = [task EXCEPT !.pc = "more", !.erred = @ \/ failed]
          /\ UNCHANGED outcome
  /\ UNCHANGED <<kind, ladder, control, waiter, unlocked, stored, browser, history>>

UnknownTool ==
  /\ At("dispatch")
  /\ task' = [task EXCEPT !.pc = "more", !.erred = TRUE]
  /\ UNCHANGED <<kind, ladder, control, waiter, unlocked, stored, outcome,
                 browser, history>>

\* After the last call of the answer.
EndBatch ==
  /\ At("more")
  /\ ladder' = IF task.erred THEN note_failure ELSE note_success
  /\ Goto("top")
  /\ UNCHANGED <<kind, control, waiter, unlocked, stored, outcome, browser, history>>

----------------------------------------------------------------------------
(***************************************************************************)
(* The end of run: session_end, whose error is only logged, then Finished. *)
(***************************************************************************)
SessionEnd ==
  /\ At("end")
  /\ Goto("ending")
  /\ browser' = "ended"
  /\ waiter' = "none"
  /\ UNCHANGED <<kind, ladder, control, unlocked, stored, outcome, history>>

SessionEnded ==
  /\ At("ending")
  /\ Goto("emit")
  /\ UNCHANGED <<kind, ladder, control, waiter, unlocked, stored, outcome,
                 browser, history>>

EmitFinished ==
  /\ At("emit")
  /\ Goto("finished")
  /\ UNCHANGED <<kind, ladder, control, waiter, unlocked, stored, outcome,
                 browser, history>>

----------------------------------------------------------------------------
(***************************************************************************)
(* Other threads: the user's clicks, the extension's events, the vault.    *)
(***************************************************************************)

\* RunControl::abort sets the flag ...
AbortFlag ==
  /\ ~abort
  /\ abort' = TRUE
  /\ notifying' = TRUE
  /\ UNCHANGED <<kind, task, ladder, waiter, unlocked, stored, outcome,
                 browser, history>>

\* ... and then wakes the task.
AbortNotify ==
  /\ notifying
  /\ notifying' = FALSE
  /\ notify_waiters
  /\ UNCHANGED <<kind, task, ladder, abort, unlocked, stored, outcome,
                 browser, history>>

\* RunControl::resume, at any time: nothing ties a click to a pause.
Resume ==
  /\ notify_waiters
  /\ replied' = (replied \/ At("asked") \/ At("paused"))
  /\ UNCHANGED <<kind, task, ladder, control, unlocked, stored, outcome,
                 browser, stale, late>>

VaultChanges ==
  /\ unlocked' = ~unlocked
  /\ UNCHANGED <<kind, task, ladder, control, waiter, stored, outcome, browser,
                 history>>

----------------------------------------------------------------------------
\* complete(): a retryable error, another error, or a response with or without
\* tool calls.
ModelAnswers ==
  \/ ModelRetryable
  \/ ModelFails
  \/ ModelIdle
  \/ ModelCallsTools

\* The tools all_tools offers: done, fail, need_user, capture_secret, the others
\* that the extension executes; and a name the model makes up.
Dispatch ==
  \/ Done
  \/ FailCall
  \/ NeedUser
  \/ CaptureForeign
  \/ \E k \in Wanted : CaptureSecret(k)
  \/ BrowserTool
  \/ UnknownTool

\* Everything the task does without waiting for the model or the user; calls
\* to the extension return because call_value has a timeout.
TaskStep ==
  \/ Start
  \/ SessionBegan
  \/ LoopTop
  \/ CheckCancelled
  \/ Cancelled
  \/ Slept
  \/ NextCall
  \/ Dispatch
  \/ PublishPause
  \/ Pause
  \/ Resumed
  \/ CaptureReturns
  \/ CheckCapture
  \/ Store
  \/ BrowserReturns
  \/ EndBatch
  \/ SessionEnd
  \/ SessionEnded
  \/ EmitFinished

Next ==
  \/ TaskStep
  \/ ModelAnswers
  \/ AbortFlag
  \/ AbortNotify
  \/ Resume
  \/ VaultChanges

Spec == Init /\ [][Next]_vars

\* The runtime runs the task, and the aborting thread reaches its next line.
FairSpec == Spec /\ WF_vars(TaskStep) /\ WF_vars(AbortNotify)

\* The HTTP client gives up on a model after 180 seconds, and a notification
\* that turns out not to be an abort leaves the pending answer alone.
ModelIsFair == SF_vars(ModelAnswers)

----------------------------------------------------------------------------
\* Types of the run's locals, with the step budget and the length of the model
\* ladder (an index past its end is a panic, ladder.rs current).
TypeOK ==
  /\ kind \in {"collect", "rotate"}
  /\ task \in Task
  /\ ladder \in [index : 1..Models, failures : Nat]
  /\ abort \in BOOLEAN /\ notifying \in BOOLEAN /\ unlocked \in BOOLEAN
  /\ waiter \in {"none", "armed", "woken"}
  /\ stored \in SUBSET Wanted
  /\ outcome \in {"none", "Success", "Partial", "Failed", "Aborted"}
  /\ browser \in {"untouched", "begun", "ended"}
  /\ replied \in BOOLEAN /\ stale \in BOOLEAN
  /\ late \in 0..2

\* The state is well typed (the ladder's index included), and a run reports
\* success only if every key it was asked for was put into the vault, and
\* everything it reports as captured was: a value the sink rejected or could
\* not store is never counted, and a rotation touches neither the vault nor the
\* browser (run.rs DONE and run, runs.rs VaultSink::store).
OutcomeHonest ==
  /\ TypeOK
  /\ task.captured \subseteq stored
  /\ outcome = "Success" => stored = Wanted
  /\ kind = "rotate" => stored = {} /\ browser = "untouched"

\* A value that comes back from the browser after the user aborted never
\* reaches the vault, and nothing does once the run has an outcome (run.rs
\* capture_secret, the second look at the abort flag).
NothingStoredAfterAbort ==
  [][stale \/ outcome # "none" => stored' = stored]_vars

\* After an abort at most the one call that had already passed its check still
\* goes to the browser, however many calls the model's answer holds (run.rs
\* run_inner, the check at each call).
AtMostOneLateCall == late <= 1

\* "Continue" is never lost: once the user has answered a pause that was shown
\* to them, the task has been woken, even if the click came before the task
\* began to wait (run.rs NEED_USER, registration before the event).
ReplyNotLost == At("paused") /\ replied => waiter = "woken"

\* Whatever the outcome, a run that opened a browser session, or may have
\* (session_begin timed out), asked the extension to end it before Finished is
\* published (run.rs run).
BrowserReleased == At("finished") => browser # "begun"

\* An abort ends the run, whatever it was waiting for: the model, the user, the
\* extension or the vault (run.rs cancelled, NEED_USER; runs.rs abort).
AbortEnds == abort ~> At("finished")

\* A run the user does not leave paused comes to an end by itself: retries,
\* idle rounds and tool calls all use up the step budget or the ladder.  Unlike
\* AbortEnds it needs a model that answers or fails in the end.
RunEnds == ModelIsFair /\ []<>(~At("paused")) => <>At("finished")

\* The run as the rest of the app sees it.
phase ==
  CASE At("start") -> "queued"
    [] At("end") \/ At("ending") -> "ending"
    [] At("emit") -> "released"
    [] At("finished") -> "finished"
    [] OTHER -> "driving"

Lifecycle == INSTANCE RunLifecycle

\* A run behaves as RunLifecycle says: stores only while it drives the browser,
\* an outcome fixed once, the browser released before Finished.
ImplementsLifecycle == Lifecycle!Spec

=============================================================================
