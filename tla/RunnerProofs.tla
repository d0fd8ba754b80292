---------------------------- MODULE RunnerProofs ----------------------------
(***************************************************************************)
(* Proofs about Runner for any key types, step budget, ladder and idle     *)
(* limit: its invariants, its action property, and that it implements      *)
(* RunLifecycle.                                                           *)
(***************************************************************************)
EXTENDS Runner, TLAPS

----------------------------------------------------------------------------
(***************************************************************************)
(* The inductive invariant.                                                *)
(***************************************************************************)
Over == {"end", "ending", "emit", "finished"}

\* A step of the budget is left where one is used up, and a capture that is
\* under way has a wanted key type.
LocalsInv ==
  /\ task.pc \in {"check", "model", "sleep"} => task.step < MaxSteps
  /\ task.pc \in {"capture", "captured", "store"} => task.key \in Wanted

\* run_inner has returned exactly when there is an outcome, what it captured is
\* in the vault, and a rotation never got as far as the loop.
OutcomeInv ==
  /\ outcome = "none" <=> task.pc \notin Over
  /\ task.captured \subseteq stored
  /\ outcome = "Success" => stored = Wanted
  /\ kind = "rotate" => /\ task.pc \in {"start", "emit", "finished"}
                        /\ stored = {} /\ browser = "untouched"

\* The session is open until session_end is sent.
SessionInv == browser = "begun" => task.pc \notin {"start", "ending", "emit", "finished"}

\* A call sent after the abort is the last: the next look at the flag ends the
\* run.  A value that came back after the abort goes no further than the check.
AbortInv ==
  /\ late \in {0, 1}
  /\ late = 1 => abort /\ task.pc \in {"capture", "captured", "browse", "more", "top"} \cup Over
  /\ stale => abort /\ task.pc \in {"captured"} \cup Over

\* The task listens before the pause is shown, until it is woken.
WaiterInv ==
  /\ task.pc \in {"ask", "asked", "paused"} => waiter \in {"armed", "woken"}
  /\ task.pc \in {"asked", "paused"} /\ replied => waiter = "woken"

IInv ==
  /\ TypeOK
  /\ LocalsInv
  /\ OutcomeInv
  /\ SessionInv
  /\ AbortInv
  /\ WaiterInv

----------------------------------------------------------------------------
(***************************************************************************)
(* The ways in which the task's locals and the ladder change.              *)
(***************************************************************************)
Places == {"start", "begin", "top", "check", "model", "sleep", "batch", "dispatch", "ask",
           "asked", "paused", "capture", "captured", "store", "browse", "more", "end",
           "ending", "emit", "finished"}

\* The task is at pc with the key and the captures it had; MovedOnly: and no
\* step of the budget was used.
Moved(pc) ==
  /\ task' \in Task /\ task'.pc = pc
  /\ task'.key = task.key /\ task'.captured = task.captured
MovedOnly(pc) == Moved(pc) /\ task'.step = task.step

Erring(pc, b) == task' = [task EXCEPT !.pc = pc, !.erred = b]
Spending(pc) == task' = [task EXCEPT !.pc = pc, !.step = @ + 1]
Idling == task' = [task EXCEPT !.pc = "top", !.idle = @ + 1, !.step = @ + 1]
Batching == task' = [task EXCEPT !.pc = "batch", !.idle = 0, !.erred = FALSE]
Asking(k) == task' = [task EXCEPT !.pc = "capture", !.key = k, !.answer = "none"]
Answered(a) == task' = [task EXCEPT !.pc = "captured", !.answer = a]
Capturing == task' = [task EXCEPT !.pc = "more", !.captured = @ \cup {task.key}]

LEMMA TaskGoes ==
  ASSUME task \in Task, NEW pc \in Places, Goto(pc)
  PROVE  MovedOnly(pc)
BY DEF Goto, Task, Places, Moved, MovedOnly

LEMMA TaskErrs ==
  ASSUME task \in Task, NEW pc \in Places, NEW b \in BOOLEAN, Erring(pc, b)
  PROVE  MovedOnly(pc)
BY DEF Erring, Task, Places, Moved, MovedOnly

LEMMA TaskSpends ==
  ASSUME task \in Task, NEW pc \in Places, task.step < MaxSteps, Spending(pc)
  PROVE  Moved(pc)
<1> DEFINE n == task.step + 1
<1>1. n \in 0..MaxSteps
  BY RunnerAssumption DEF Task
<1>2. task' = [task EXCEPT !.pc = pc, !.step = n]
  BY DEF Spending
<1> HIDE DEF n
<1> QED
  BY <1>1, <1>2 DEF Task, Places, Moved

LEMMA TaskIdles ==
  ASSUME task \in Task, task.step < MaxSteps, task.idle + 1 < IdleLimit, Idling
  PROVE  Moved("top")
<1> DEFINE n == task.step + 1
           i == task.idle + 1
<1>1. n \in 0..MaxSteps /\ i \in 0..IdleLimit
  BY RunnerAssumption DEF Task
<1>2. task' = [task EXCEPT !.pc = "top", !.idle = i, !.step = n]
  BY DEF Idling
<1> HIDE DEF n, i
<1> QED
  BY <1>1, <1>2 DEF Task, Moved

LEMMA TaskBatches ==
  ASSUME task \in Task, Batching
  PROVE  Moved("batch")
<1>1. 0 \in 0..IdleLimit
  BY RunnerAssumption
<1> QED
  BY <1>1 DEF Task, Moved, Batching

LEMMA TaskAsks ==
  ASSUME task \in Task, NEW k \in Wanted, Asking(k)
  PROVE  /\ task' \in Task /\ task'.pc = "capture" /\ task'.key = k
         /\ task'.captured = task.captured
BY DEF Task, Asking

LEMMA TaskAnswered ==
  ASSUME task \in Task, NEW a \in {"value", "error", "aborted"}, Answered(a)
  PROVE  MovedOnly("captured")
BY DEF Task, Answered, Moved, MovedOnly

LEMMA TaskCaptures ==
  ASSUME task \in Task, task.key \in Wanted, Capturing
  PROVE  /\ task' \in Task /\ task'.pc = "more" /\ task'.key = task.key
         /\ task'.captured = task.captured \cup {task.key}
BY DEF Task, Capturing

Ladder == [index : 1..Models, failures : Nat]

LEMMA LadderMoves ==
  ASSUME ladder \in Ladder
  PROVE  (~is_top => escalated \in Ladder) /\ note_failure \in Ladder /\ note_success \in Ladder
<1>1. ladder.index \in 1..Models /\ ladder.failures \in Nat
  BY DEF Ladder
<1>2. ASSUME ~is_top PROVE escalated \in Ladder
  <2>1. ladder.index + 1 \in 1..Models
    BY <1>1, <1>2, RunnerAssumption DEF is_top
  <2> QED
    BY <2>1 DEF escalated, Ladder
<1>3. [ladder EXCEPT !.failures = @ + 1] \in Ladder
  <2>1. ladder.failures + 1 \in Nat
    BY <1>1
  <2> QED
    BY <2>1 DEF Ladder
<1>4. note_success \in Ladder
  BY DEF note_success, Ladder
<1>5. note_failure \in Ladder
  BY <1>2, <1>3 DEF note_failure
<1> QED
  BY <1>2, <1>4, <1>5

----------------------------------------------------------------------------
(***************************************************************************)
(* What the rest of the app sees of a step.                                *)
(***************************************************************************)
Driving(pc) == pc \notin {"start"} \cup Over

SeenStep ==
  \/ task.pc = "start" /\ Driving(task'.pc) /\ UNCHANGED <<stored, outcome>>
  \/ task.pc = "start" /\ task'.pc = "emit" /\ outcome' = "Failed" /\ UNCHANGED stored
  \/ Driving(task.pc) /\ Driving(task'.pc) /\ UNCHANGED <<stored, outcome>>
  \/ /\ task.pc = "store" /\ Driving(task'.pc) /\ UNCHANGED outcome
     /\ task.key \in Wanted /\ stored' = stored \cup {task.key}
  \/ /\ Driving(task.pc) /\ task'.pc = "end" /\ UNCHANGED stored
     /\ outcome' \in {"Success", "Partial", "Failed", "Aborted"}
     /\ outcome' = "Success" => stored = Wanted
  \/ task.pc = "end" /\ task'.pc = "ending" /\ UNCHANGED <<stored, outcome>>
  \/ task.pc = "ending" /\ task'.pc = "emit" /\ UNCHANGED <<stored, outcome>>
  \/ task.pc = "emit" /\ task'.pc = "finished" /\ UNCHANGED <<stored, outcome>>
  \/ UNCHANGED <<task, stored, outcome>>

----------------------------------------------------------------------------
(***************************************************************************)
(* Preservation, one lemma for each action of the task.                    *)
(***************************************************************************)

LEMMA StartStep ==
  ASSUME IInv, Start
  PROVE  IInv' /\ SeenStep
<1>t. TypeOK
  BY DEF IInv
<1>1. \/ kind = "rotate" /\ MovedOnly("emit") /\ outcome' = "Failed" /\ browser' = browser
      \/ kind # "rotate" /\ MovedOnly("begin") /\ outcome' = outcome /\ browser' = "begun"
  BY <1>t, TaskGoes DEF Start, At, TypeOK, Places
<1>2. TypeOK'
  BY <1>t, <1>1 DEF Start, TypeOK, Moved, MovedOnly, control, history
<1>3. LocalsInv' /\ OutcomeInv' /\ SessionInv' /\ AbortInv' /\ WaiterInv'
  BY <1>t, <1>1 DEF Start, At, TypeOK, Moved, MovedOnly, control, history, IInv,
                    LocalsInv, OutcomeInv, SessionInv, AbortInv, WaiterInv, Over
<1>4. SeenStep
  BY <1>1 DEF Start, At, Moved, MovedOnly, IInv, OutcomeInv, Over, Driving, SeenStep
<1> QED
  BY <1>2, <1>3, <1>4 DEF IInv

LEMMA SessionBeganStep ==
  ASSUME IInv, SessionBegan
  PROVE  IInv' /\ SeenStep
<1>t. TypeOK
  BY DEF IInv
<1>1. \/ MovedOnly("top") /\ UNCHANGED outcome
      \/ MovedOnly("end") /\ outcome' \in {"Aborted", "Failed"}
  BY <1>t, TaskGoes DEF SessionBegan, At, Return, TypeOK, Places
<1>2. TypeOK'
  BY <1>t, <1>1 DEF SessionBegan, TypeOK, Moved, MovedOnly, control, history
<1>3. LocalsInv' /\ OutcomeInv' /\ SessionInv' /\ AbortInv' /\ WaiterInv'
  BY <1>t, <1>1 DEF SessionBegan, At, TypeOK, Moved, MovedOnly, control, history, IInv,
                    LocalsInv, OutcomeInv, SessionInv, AbortInv, WaiterInv, Over
<1>4. SeenStep
  BY <1>1 DEF SessionBegan, At, Moved, MovedOnly, IInv, OutcomeInv, Over, Driving, SeenStep
<1> QED
  BY <1>2, <1>3, <1>4 DEF IInv

LEMMA LoopTopStep ==
  ASSUME IInv, LoopTop
  PROVE  IInv' /\ SeenStep
<1>t. TypeOK
  BY DEF IInv
<1>1. \/ abort /\ MovedOnly("end") /\ outcome' = "Aborted" /\ UNCHANGED waiter
      \/ ~abort /\ MovedOnly("end") /\ outcome' \in {"Partial", "Failed"} /\ UNCHANGED waiter
      \/ /\ ~abort /\ task.step < MaxSteps
         /\ MovedOnly("check") /\ UNCHANGED outcome /\ waiter' = "armed"
  BY <1>t, TaskGoes DEF LoopTop, At, Return, Register, partial, TypeOK, Places
<1>2. TypeOK'
  BY <1>t, <1>1 DEF LoopTop, Register, TypeOK, Moved, MovedOnly, control, history
<1>3. LocalsInv' /\ OutcomeInv' /\ SessionInv' /\ AbortInv' /\ WaiterInv'
  BY <1>t, <1>1 DEF LoopTop, At, Register, TypeOK, Moved, MovedOnly, control, history, IInv,
                    LocalsInv, OutcomeInv, SessionInv, AbortInv, WaiterInv, Over
<1>4. SeenStep
  BY <1>1 DEF LoopTop, At, Moved, MovedOnly, IInv, OutcomeInv, Over, Driving, SeenStep
<1> QED
  BY <1>2, <1>3, <1>4 DEF IInv

LEMMA CheckCancelledStep ==
  ASSUME IInv, CheckCancelled
  PROVE  IInv' /\ SeenStep
<1>t. TypeOK
  BY DEF IInv
<1>1. \/ abort /\ MovedOnly("end") /\ outcome' = "Aborted"
      \/ ~abort /\ MovedOnly("model") /\ UNCHANGED outcome
  BY <1>t, TaskGoes DEF CheckCancelled, At, Return, TypeOK, Places
<1>2. TypeOK'
  BY <1>t, <1>1 DEF CheckCancelled, TypeOK, Moved, MovedOnly, control, history
<1>3. LocalsInv' /\ OutcomeInv' /\ SessionInv' /\ AbortInv' /\ WaiterInv'
  BY <1>t, <1>1 DEF CheckCancelled, At, TypeOK, Moved, MovedOnly, control, history, IInv,
                    LocalsInv, OutcomeInv, SessionInv, AbortInv, WaiterInv, Over
<1>4. SeenStep
  BY <1>1 DEF CheckCancelled, At, Moved, MovedOnly, IInv, OutcomeInv, Over, Driving, SeenStep
<1> QED
  BY <1>2, <1>3, <1>4 DEF IInv

LEMMA CancelledStep ==
  ASSUME IInv, Cancelled
  PROVE  IInv' /\ SeenStep
<1>t. TypeOK
  BY DEF IInv
<1>1. MovedOnly("check") /\ UNCHANGED outcome
  BY <1>t, TaskGoes DEF Cancelled, At, Register, TypeOK, Places
<1>2. TypeOK'
  BY <1>t, <1>1 DEF Cancelled, Register, TypeOK, Moved, MovedOnly, control, history
<1>3. LocalsInv' /\ OutcomeInv' /\ SessionInv' /\ AbortInv' /\ WaiterInv'
  BY <1>t, <1>1 DEF Cancelled, At, Register, TypeOK, Moved, MovedOnly, control, history, IInv,
                    LocalsInv, OutcomeInv, SessionInv, AbortInv, WaiterInv, Over
<1>4. SeenStep
  BY <1>1 DEF Cancelled, At, Moved, MovedOnly, IInv, OutcomeInv, Over, Driving, SeenStep
<1> QED
  BY <1>2, <1>3, <1>4 DEF IInv

LEMMA ModelRetryableStep ==
  ASSUME IInv, ModelRetryable
  PROVE  IInv' /\ SeenStep
<1>t. TypeOK
  BY DEF IInv
<1>1. \/ MovedOnly("sleep") /\ UNCHANGED outcome
      \/ MovedOnly("top") /\ UNCHANGED outcome
  BY <1>t, TaskGoes DEF ModelRetryable, At, TypeOK, Places
<1>2. ladder' \in Ladder
  BY <1>t, LadderMoves DEF ModelRetryable, TypeOK, Ladder
<1>3. TypeOK'
  BY <1>t, <1>1, <1>2 DEF ModelRetryable, TypeOK, Moved, MovedOnly, Ladder, control, history
<1>4. LocalsInv' /\ OutcomeInv' /\ SessionInv' /\ AbortInv' /\ WaiterInv'
  BY <1>t, <1>1 DEF ModelRetryable, At, TypeOK, Moved, MovedOnly, control, history, IInv,
                    LocalsInv, OutcomeInv, SessionInv, AbortInv, WaiterInv, Over
<1>5. SeenStep
  BY <1>1 DEF ModelRetryable, At, Moved, MovedOnly, IInv, OutcomeInv, Over, Driving, SeenStep
<1> QED
  BY <1>3, <1>4, <1>5 DEF IInv

LEMMA SleptStep ==
  ASSUME IInv, Slept
  PROVE  IInv' /\ SeenStep
<1>t. TypeOK /\ LocalsInv
  BY DEF IInv
<1>1. Moved("top") /\ UNCHANGED outcome
  BY <1>t, TaskSpends DEF Slept, At, Spending, TypeOK, LocalsInv, Places
<1>2. TypeOK'
  BY <1>t, <1>1 DEF Slept, TypeOK, Moved, MovedOnly, control, history
<1>3. LocalsInv' /\ OutcomeInv' /\ SessionInv' /\ AbortInv' /\ WaiterInv'
  BY <1>t, <1>1 DEF Slept, At, TypeOK, Moved, MovedOnly, control, history, IInv,
                    LocalsInv, OutcomeInv, SessionInv, AbortInv, WaiterInv, Over
<1>4. SeenStep
  BY <1>1 DEF Slept, At, Moved, MovedOnly, IInv, OutcomeInv, Over, Driving, SeenStep
<1> QED
  BY <1>2, <1>3, <1>4 DEF IInv

LEMMA ModelFailsStep ==
  ASSUME IInv, ModelFails
  PROVE  IInv' /\ SeenStep
<1>t. TypeOK
  BY DEF IInv
<1>1. MovedOnly("end") /\ outcome' \in {"Partial", "Failed"}
  BY <1>t, TaskGoes DEF ModelFails, At, Return, partial, TypeOK, Places
<1>2. TypeOK'
  BY <1>t, <1>1 DEF ModelFails, TypeOK, Moved, MovedOnly, control, history
<1>3. LocalsInv' /\ OutcomeInv' /\ SessionInv' /\ AbortInv' /\ WaiterInv'
  BY <1>t, <1>1 DEF ModelFails, At, TypeOK, Moved, MovedOnly, control, history, IInv,
                    LocalsInv, OutcomeInv, SessionInv, AbortInv, WaiterInv, Over
<1>4. SeenStep
  BY <1>1 DEF ModelFails, At, Moved, MovedOnly, IInv, OutcomeInv, Over, Driving, SeenStep
<1> QED
  BY <1>2, <1>3, <1>4 DEF IInv

LEMMA ModelIdleStep ==
  ASSUME IInv, ModelIdle
  PROVE  IInv' /\ SeenStep
<1>t. TypeOK /\ LocalsInv
  BY DEF IInv
<1>1. \/ MovedOnly("end") /\ outcome' \in {"Partial", "Failed"}
      \/ Moved("top") /\ UNCHANGED outcome
  BY <1>t, TaskGoes, TaskIdles DEF ModelIdle, At, Return, partial, Idling, TypeOK, LocalsInv, Places
<1>2. TypeOK'
  BY <1>t, <1>1 DEF ModelIdle, TypeOK, Moved, MovedOnly, control, history
<1>3. LocalsInv' /\ OutcomeInv' /\ SessionInv' /\ AbortInv' /\ WaiterInv'
  BY <1>t, <1>1 DEF ModelIdle, At, TypeOK, Moved, MovedOnly, control, history, IInv,
                    LocalsInv, OutcomeInv, SessionInv, AbortInv, WaiterInv, Over
<1>4. SeenStep
  BY <1>1 DEF ModelIdle, At, Moved, MovedOnly, IInv, OutcomeInv, Over, Driving, SeenStep
<1> QED
  BY <1>2, <1>3, <1>4 DEF IInv

LEMMA ModelCallsToolsStep ==
  ASSUME IInv, ModelCallsTools
  PROVE  IInv' /\ SeenStep
<1>t. TypeOK
  BY DEF IInv
<1>1. Moved("batch") /\ UNCHANGED outcome
  BY <1>t, TaskBatches DEF ModelCallsTools, At, Batching, TypeOK
<1>2. TypeOK'
  BY <1>t, <1>1 DEF ModelCallsTools, TypeOK, Moved, MovedOnly, control, history
<1>3. LocalsInv' /\ OutcomeInv' /\ SessionInv' /\ AbortInv' /\ WaiterInv'
  BY <1>t, <1>1 DEF ModelCallsTools, At, TypeOK, Moved, MovedOnly, control, history, IInv,
                    LocalsInv, OutcomeInv, SessionInv, AbortInv, WaiterInv, Over
<1>4. SeenStep
  BY <1>1 DEF ModelCallsTools, At, Moved, MovedOnly, IInv, OutcomeInv, Over, Driving, SeenStep
<1> QED
  BY <1>2, <1>3, <1>4 DEF IInv

LEMMA NextCallStep ==
  ASSUME IInv, NextCall
  PROVE  IInv' /\ SeenStep
<1>t. TypeOK
  BY DEF IInv
<1>1. \/ MovedOnly("end") /\ outcome' \in {"Partial", "Failed"}
      \/ abort /\ Moved("end") /\ outcome' = "Aborted"
      \/ ~abort /\ Moved("dispatch") /\ UNCHANGED outcome
  BY <1>t, TaskGoes, TaskSpends DEF NextCall, At, Return, partial, Spending, TypeOK, Places
<1>2. TypeOK'
  BY <1>t, <1>1 DEF NextCall, TypeOK, Moved, MovedOnly, control, history
<1>3. LocalsInv' /\ OutcomeInv' /\ SessionInv' /\ AbortInv' /\ WaiterInv'
  BY <1>t, <1>1 DEF NextCall, At, TypeOK, Moved, MovedOnly, control, history, IInv,
                    LocalsInv, OutcomeInv, SessionInv, AbortInv, WaiterInv, Over
<1>4. SeenStep
  BY <1>1 DEF NextCall, At, Moved, MovedOnly, IInv, OutcomeInv, Over, Driving, SeenStep
<1> QED
  BY <1>2, <1>3, <1>4 DEF IInv

LEMMA DoneStep ==
  ASSUME IInv, Done
  PROVE  IInv' /\ SeenStep
<1>t. TypeOK
  BY DEF IInv
<1>1. \/ MovedOnly("end") /\ outcome' = "Success" /\ Wanted \subseteq task.captured
      \/ MovedOnly("end") /\ outcome' = "Partial"
  BY <1>t, TaskGoes DEF Done, At, Return, TypeOK, Places
<1>2. TypeOK'
  BY <1>t, <1>1 DEF Done, TypeOK, Moved, MovedOnly, control, history
<1>3. LocalsInv' /\ OutcomeInv' /\ SessionInv' /\ AbortInv' /\ WaiterInv'
  BY <1>t, <1>1 DEF Done, At, TypeOK, Moved, MovedOnly, control, history, IInv,
                    LocalsInv, OutcomeInv, SessionInv, AbortInv, WaiterInv, Over
<1>4. SeenStep
  BY <1>t, <1>1 DEF Done, At, TypeOK, Moved, MovedOnly, IInv, OutcomeInv, Over, Driving, SeenStep
<1> QED
  BY <1>2, <1>3, <1>4 DEF IInv

LEMMA FailCallStep ==
  ASSUME IInv, FailCall
  PROVE  IInv' /\ SeenStep
<1>t. TypeOK
  BY DEF IInv
<1>1. MovedOnly("end") /\ outcome' \in {"Partial", "Failed"}
  BY <1>t, TaskGoes DEF FailCall, At, Return, partial, TypeOK, Places
<1>2. TypeOK'
  BY <1>t, <1>1 DEF FailCall, TypeOK, Moved, MovedOnly, control, history
<1>3. LocalsInv' /\ OutcomeInv' /\ SessionInv' /\ AbortInv' /\ WaiterInv'
  BY <1>t, <1>1 DEF FailCall, At, TypeOK, Moved, MovedOnly, control, history, IInv,
                    LocalsInv, OutcomeInv, SessionInv, AbortInv, WaiterInv, Over
<1>4. SeenStep
  BY <1>1 DEF FailCall, At, Moved, MovedOnly, IInv, OutcomeInv, Over, Driving, SeenStep
<1> QED
  BY <1>2, <1>3, <1>4 DEF IInv

LEMMA NeedUserStep ==
  ASSUME IInv, NeedUser
  PROVE  IInv' /\ SeenStep
<1>t. TypeOK
  BY DEF IInv
<1>1. MovedOnly("ask") /\ UNCHANGED outcome
  BY <1>t, TaskGoes DEF NeedUser, At, Register, TypeOK, Places
<1>2. TypeOK'
  BY <1>t, <1>1 DEF NeedUser, Register, TypeOK, Moved, MovedOnly, control, history
<1>3. LocalsInv' /\ OutcomeInv' /\ SessionInv' /\ AbortInv' /\ WaiterInv'
  BY <1>t, <1>1 DEF NeedUser, At, Register, TypeOK, Moved, MovedOnly, control, history, IInv,
                    LocalsInv, OutcomeInv, SessionInv, AbortInv, WaiterInv, Over
<1>4. SeenStep
  BY <1>1 DEF NeedUser, At, Moved, MovedOnly, IInv, OutcomeInv, Over, Driving, SeenStep
<1> QED
  BY <1>2, <1>3, <1>4 DEF IInv

LEMMA PublishPauseStep ==
  ASSUME IInv, PublishPause
  PROVE  IInv' /\ SeenStep
<1>t. TypeOK
  BY DEF IInv
<1>1. MovedOnly("asked") /\ UNCHANGED outcome
  BY <1>t, TaskGoes DEF PublishPause, At, TypeOK, Places
<1>2. TypeOK'
  BY <1>t, <1>1 DEF PublishPause, TypeOK, Moved, MovedOnly, control, history
<1>3. LocalsInv' /\ OutcomeInv' /\ SessionInv' /\ AbortInv' /\ WaiterInv'
  BY <1>t, <1>1 DEF PublishPause, At, TypeOK, Moved, MovedOnly, control, history, IInv,
                    LocalsInv, OutcomeInv, SessionInv, AbortInv, WaiterInv, Over
<1>4. SeenStep
  BY <1>1 DEF PublishPause, At, Moved, MovedOnly, IInv, OutcomeInv, Over, Driving, SeenStep
<1> QED
  BY <1>2, <1>3, <1>4 DEF IInv

LEMMA PauseStep ==
  ASSUME IInv, Pause
  PROVE  IInv' /\ SeenStep
<1>t. TypeOK
  BY DEF IInv
<1>1. \/ MovedOnly("end") /\ outcome' = "Aborted"
      \/ MovedOnly("paused") /\ UNCHANGED outcome
  BY <1>t, TaskGoes DEF Pause, At, Return, TypeOK, Places
<1>2. TypeOK'
  BY <1>t, <1>1 DEF Pause, TypeOK, Moved, MovedOnly, control, history
<1>3. LocalsInv' /\ OutcomeInv' /\ SessionInv' /\ AbortInv' /\ WaiterInv'
  BY <1>t, <1>1 DEF Pause, At, TypeOK, Moved, MovedOnly, control, history, IInv,
                    LocalsInv, OutcomeInv, SessionInv, AbortInv, WaiterInv, Over
<1>4. SeenStep
  BY <1>1 DEF Pause, At, Moved, MovedOnly, IInv, OutcomeInv, Over, Driving, SeenStep
<1> QED
  BY <1>2, <1>3, <1>4 DEF IInv

LEMMA ResumedStep ==
  ASSUME IInv, Resumed
  PROVE  IInv' /\ SeenStep
<1>t. TypeOK
  BY DEF IInv
<1>1. \/ MovedOnly("end") /\ outcome' = "Aborted"
      \/ MovedOnly("more") /\ UNCHANGED outcome
  BY <1>t, TaskGoes DEF Resumed, At, Return, TypeOK, Places
<1>2. TypeOK'
  BY <1>t, <1>1 DEF Resumed, TypeOK, Moved, MovedOnly, control, history
<1>3. LocalsInv' /\ OutcomeInv' /\ SessionInv' /\ AbortInv' /\ WaiterInv'
  BY <1>t, <1>1 DEF Resumed, At, TypeOK, Moved, MovedOnly, control, history, IInv,
                    LocalsInv, OutcomeInv, SessionInv, AbortInv, WaiterInv, Over
<1>4. SeenStep
  BY <1>1 DEF Resumed, At, Moved, MovedOnly, IInv, OutcomeInv, Over, Driving, SeenStep
<1> QED
  BY <1>2, <1>3, <1>4 DEF IInv

LEMMA CaptureForeignStep ==
  ASSUME IInv, CaptureForeign
  PROVE  IInv' /\ SeenStep
<1>t. TypeOK
  BY DEF IInv
<1>1. \/ MovedOnly("end") /\ outcome' = "Aborted"
      \/ ~abort /\ MovedOnly("more") /\ UNCHANGED outcome
  BY <1>t, TaskGoes, TaskErrs DEF CaptureForeign, At, Return, Erring, TypeOK, Places
<1>2. TypeOK'
  BY <1>t, <1>1 DEF CaptureForeign, TypeOK, Moved, MovedOnly, control, history
<1>3. LocalsInv' /\ OutcomeInv' /\ SessionInv' /\ AbortInv' /\ WaiterInv'
  BY <1>t, <1>1 DEF CaptureForeign, At, TypeOK, Moved, MovedOnly, control, history, IInv,
                    LocalsInv, OutcomeInv, SessionInv, AbortInv, WaiterInv, Over
<1>4. SeenStep
  BY <1>1 DEF CaptureForeign, At, Moved, MovedOnly, IInv, OutcomeInv, Over, Driving, SeenStep
<1> QED
  BY <1>2, <1>3, <1>4 DEF IInv

LEMMA CaptureSecretStep ==
  ASSUME IInv, NEW k \in Wanted, CaptureSecret(k)
  PROVE  IInv' /\ SeenStep
<1>t. TypeOK
  BY DEF IInv
<1>1. /\ task' \in Task /\ task'.pc = "capture" /\ task'.key = k
      /\ task'.captured = task.captured /\ UNCHANGED outcome
  BY <1>t, TaskAsks DEF CaptureSecret, At, Asking, TypeOK
<1>2. late' \in 0..2
  BY <1>t DEF CaptureSecret, SendCall, TypeOK
<1>3. TypeOK'
  BY <1>t, <1>1, <1>2 DEF CaptureSecret, SendCall, TypeOK, Moved, MovedOnly, control, history
<1>4. LocalsInv' /\ OutcomeInv' /\ SessionInv' /\ AbortInv' /\ WaiterInv'
  BY <1>t, <1>1 DEF CaptureSecret, At, SendCall, TypeOK, Moved, MovedOnly, control, history, IInv,
                    LocalsInv, OutcomeInv, SessionInv, AbortInv, WaiterInv, Over
<1>5. SeenStep
  BY <1>1 DEF CaptureSecret, At, Moved, MovedOnly, IInv, OutcomeInv, Over, Driving, SeenStep
<1> QED
  BY <1>3, <1>4, <1>5 DEF IInv

LEMMA CaptureReturnsStep ==
  ASSUME IInv, CaptureReturns
  PROVE  IInv' /\ SeenStep
<1>t. TypeOK
  BY DEF IInv
<1>1. MovedOnly("captured") /\ UNCHANGED outcome
  BY <1>t, TaskAnswered DEF CaptureReturns, At, Answered, TypeOK
<1>2. TypeOK'
  BY <1>t, <1>1 DEF CaptureReturns, TypeOK, Moved, MovedOnly, control, history
<1>3. LocalsInv' /\ OutcomeInv' /\ SessionInv' /\ AbortInv' /\ WaiterInv'
  BY <1>t, <1>1 DEF CaptureReturns, At, TypeOK, Moved, MovedOnly, control, history, IInv,
                    LocalsInv, OutcomeInv, SessionInv, AbortInv, WaiterInv, Over
<1>4. SeenStep
  BY <1>1 DEF CaptureReturns, At, Moved, MovedOnly, IInv, OutcomeInv, Over, Driving, SeenStep
<1> QED
  BY <1>2, <1>3, <1>4 DEF IInv

LEMMA CheckCaptureStep ==
  ASSUME IInv, CheckCapture
  PROVE  IInv' /\ SeenStep
<1>t. TypeOK
  BY DEF IInv
<1>1. \/ MovedOnly("end") /\ outcome' = "Aborted"
      \/ ~abort /\ MovedOnly("more") /\ UNCHANGED outcome
      \/ ~abort /\ MovedOnly("store") /\ UNCHANGED outcome
  BY <1>t, TaskGoes, TaskErrs DEF CheckCapture, At, Return, Erring, TypeOK, Places
<1>2. TypeOK'
  BY <1>t, <1>1 DEF CheckCapture, TypeOK, Moved, MovedOnly, control, history
<1>3. LocalsInv' /\ OutcomeInv' /\ SessionInv' /\ AbortInv' /\ WaiterInv'
  BY <1>t, <1>1 DEF CheckCapture, At, TypeOK, Moved, MovedOnly, control, history, IInv,
                    LocalsInv, OutcomeInv, SessionInv, AbortInv, WaiterInv, Over
<1>4. SeenStep
  BY <1>1 DEF CheckCapture, At, Moved, MovedOnly, IInv, OutcomeInv, Over, Driving, SeenStep
<1> QED
  BY <1>2, <1>3, <1>4 DEF IInv

LEMMA StoreStep ==
  ASSUME IInv, Store
  PROVE  IInv' /\ SeenStep
<1>t. TypeOK /\ LocalsInv
  BY DEF IInv
<1>1. \/ task' \in Task /\ task'.pc = "more" /\ task'.key = task.key
         /\ task'.captured = task.captured \cup {task.key}
         /\ stored' = stored \cup {task.key}
      \/ MovedOnly("more") /\ stored' \in {stored, stored \cup {task.key}}
  BY <1>t, TaskErrs, TaskCaptures DEF Store, At, Erring, Capturing, TypeOK, LocalsInv, Places
<1>2. TypeOK'
  BY <1>t, <1>1 DEF Store, TypeOK, Moved, MovedOnly, At, LocalsInv, control, history
<1>3. LocalsInv' /\ OutcomeInv' /\ SessionInv' /\ AbortInv' /\ WaiterInv'
  BY <1>t, <1>1 DEF Store, At, TypeOK, Moved, MovedOnly, control, history, IInv,
                    LocalsInv, OutcomeInv, SessionInv, AbortInv, WaiterInv, Over
<1>4. SeenStep
  BY <1>1 DEF Store, At, Moved, MovedOnly, IInv, OutcomeInv, LocalsInv, Over, Driving, SeenStep
<1> QED
  BY <1>2, <1>3, <1>4 DEF IInv

LEMMA BrowserToolStep ==
  ASSUME IInv, BrowserTool
  PROVE  IInv' /\ SeenStep
<1>t. TypeOK
  BY DEF IInv
<1>1. MovedOnly("browse") /\ UNCHANGED outcome
  BY <1>t, TaskGoes DEF BrowserTool, At, TypeOK, Places
<1>2. TypeOK'
  BY <1>t, <1>1 DEF BrowserTool, SendCall, TypeOK, Moved, MovedOnly, control, history
<1>3. LocalsInv' /\ OutcomeInv' /\ SessionInv' /\ AbortInv' /\ WaiterInv'
  BY <1>t, <1>1 DEF BrowserTool, At, SendCall, TypeOK, Moved, MovedOnly, control, history, IInv,
                    LocalsInv, OutcomeInv, SessionInv, AbortInv, WaiterInv, Over
<1>4. SeenStep
  BY <1>1 DEF BrowserTool, At, Moved, MovedOnly, IInv, OutcomeInv, Over, Driving, SeenStep
<1> QED
  BY <1>2, <1>3, <1>4 DEF IInv

LEMMA BrowserReturnsStep ==
  ASSUME IInv, BrowserReturns
  PROVE  IInv' /\ SeenStep
<1>t. TypeOK
  BY DEF IInv
<1>1. \/ MovedOnly("end") /\ outcome' = "Aborted"
      \/ MovedOnly("more") /\ UNCHANGED outcome
  BY <1>t, TaskGoes, TaskErrs DEF BrowserReturns, At, Return, Erring, TypeOK, Places
<1>2. UNCHANGED <<kind, ladder, abort, notifying, waiter, unlocked, stored, browser,
                  replied, stale, late>>
  BY DEF BrowserReturns, control, history
<1>3. TypeOK'
  BY <1>t, <1>1, <1>2 DEF TypeOK, Moved, MovedOnly
<1>4. LocalsInv' /\ OutcomeInv' /\ SessionInv' /\ AbortInv' /\ WaiterInv'
  BY <1>t, <1>1 DEF BrowserReturns, At, TypeOK, Moved, MovedOnly, control, history, IInv,
                    LocalsInv, OutcomeInv, SessionInv, AbortInv, WaiterInv, Over
<1>5. SeenStep
  BY <1>1 DEF BrowserReturns, At, Moved, MovedOnly, IInv, OutcomeInv, Over, Driving, SeenStep
<1> QED
  BY <1>3, <1>4, <1>5 DEF IInv

LEMMA UnknownToolStep ==
  ASSUME IInv, UnknownTool
  PROVE  IInv' /\ SeenStep
<1>t. TypeOK
  BY DEF IInv
<1>1. MovedOnly("more") /\ UNCHANGED outcome
  BY <1>t, TaskErrs DEF UnknownTool, At, Erring, TypeOK, Places
<1>2. TypeOK'
  BY <1>t, <1>1 DEF UnknownTool, TypeOK, Moved, MovedOnly, control, history
<1>3. LocalsInv' /\ OutcomeInv' /\ SessionInv' /\ AbortInv' /\ WaiterInv'
  BY <1>t, <1>1 DEF UnknownTool, At, TypeOK, Moved, MovedOnly, control, history, IInv,
                    LocalsInv, OutcomeInv, SessionInv, AbortInv, WaiterInv, Over
<1>4. SeenStep
  BY <1>1 DEF UnknownTool, At, Moved, MovedOnly, IInv, OutcomeInv, Over, Driving, SeenStep
<1> QED
  BY <1>2, <1>3, <1>4 DEF IInv

LEMMA EndBatchStep ==
  ASSUME IInv, EndBatch
  PROVE  IInv' /\ SeenStep
<1>t. TypeOK
  BY DEF IInv
<1>1. MovedOnly("top") /\ UNCHANGED outcome
  BY <1>t, TaskGoes DEF EndBatch, At, TypeOK, Places
<1>2. ladder' \in Ladder
  BY <1>t, LadderMoves DEF EndBatch, TypeOK, Ladder
<1>3. TypeOK'
  BY <1>t, <1>1, <1>2 DEF EndBatch, TypeOK, Moved, MovedOnly, Ladder, control, history
<1>4. LocalsInv' /\ OutcomeInv' /\ SessionInv' /\ AbortInv' /\ WaiterInv'
  BY <1>t, <1>1 DEF EndBatch, At, TypeOK, Moved, MovedOnly, control, history, IInv,
                    LocalsInv, OutcomeInv, SessionInv, AbortInv, WaiterInv, Over
<1>5. SeenStep
  BY <1>1 DEF EndBatch, At, Moved, MovedOnly, IInv, OutcomeInv, Over, Driving, SeenStep
<1> QED
  BY <1>3, <1>4, <1>5 DEF IInv

LEMMA SessionEndStep ==
  ASSUME IInv, SessionEnd
  PROVE  IInv' /\ SeenStep
<1>t. TypeOK
  BY DEF IInv
<1>1. MovedOnly("ending") /\ UNCHANGED outcome
  BY <1>t, TaskGoes DEF SessionEnd, At, TypeOK, Places
<1>2. TypeOK'
  BY <1>t, <1>1 DEF SessionEnd, TypeOK, Moved, MovedOnly, control, history
<1>3. LocalsInv' /\ OutcomeInv' /\ SessionInv' /\ AbortInv' /\ WaiterInv'
  BY <1>t, <1>1 DEF SessionEnd, At, TypeOK, Moved, MovedOnly, control, history, IInv,
                    LocalsInv, OutcomeInv, SessionInv, AbortInv, WaiterInv, Over
<1>4. SeenStep
  BY <1>1 DEF SessionEnd, At, Moved, MovedOnly, IInv, OutcomeInv, Over, Driving, SeenStep
<1> QED
  BY <1>2, <1>3, <1>4 DEF IInv

LEMMA SessionEndedStep ==
  ASSUME IInv, SessionEnded
  PROVE  IInv' /\ SeenStep
<1>t. TypeOK
  BY DEF IInv
<1>1. MovedOnly("emit") /\ UNCHANGED outcome
  BY <1>t, TaskGoes DEF SessionEnded, At, TypeOK, Places
<1>2. TypeOK'
  BY <1>t, <1>1 DEF SessionEnded, TypeOK, Moved, MovedOnly, control, history
<1>3. LocalsInv' /\ OutcomeInv' /\ SessionInv' /\ AbortInv' /\ WaiterInv'
  BY <1>t, <1>1 DEF SessionEnded, At, TypeOK, Moved, MovedOnly, control, history, IInv,
                    LocalsInv, OutcomeInv, SessionInv, AbortInv, WaiterInv, Over
<1>4. SeenStep
  BY <1>1 DEF SessionEnded, At, Moved, MovedOnly, IInv, OutcomeInv, Over, Driving, SeenStep
<1> QED
  BY <1>2, <1>3, <1>4 DEF IInv

LEMMA EmitFinishedStep ==
  ASSUME IInv, EmitFinished
  PROVE  IInv' /\ SeenStep
<1>t. TypeOK
  BY DEF IInv
<1>1. MovedOnly("finished") /\ UNCHANGED outcome
  BY <1>t, TaskGoes DEF EmitFinished, At, TypeOK, Places
<1>2. TypeOK'
  BY <1>t, <1>1 DEF EmitFinished, TypeOK, Moved, MovedOnly, control, history
<1>3. LocalsInv' /\ OutcomeInv' /\ SessionInv' /\ AbortInv' /\ WaiterInv'
  BY <1>t, <1>1 DEF EmitFinished, At, TypeOK, Moved, MovedOnly, control, history, IInv,
                    LocalsInv, OutcomeInv, SessionInv, AbortInv, WaiterInv, Over
<1>4. SeenStep
  BY <1>1 DEF EmitFinished, At, Moved, MovedOnly, IInv, OutcomeInv, Over, Driving, SeenStep
<1> QED
  BY <1>2, <1>3, <1>4 DEF IInv

\* The other threads touch the flag, the task's future and the vault's lock.
LEMMA OtherThreads ==
  ASSUME IInv, AbortFlag \/ AbortNotify \/ Resume \/ VaultChanges \/ UNCHANGED vars
  PROVE  IInv' /\ SeenStep
<1>t. TypeOK
  BY DEF IInv
<1>1. SeenStep
  BY DEF AbortFlag, AbortNotify, Resume, VaultChanges, vars, SeenStep
<1>2. TypeOK'
  <2>1. UNCHANGED <<kind, task, ladder, stored, outcome, browser, stale, late>>
    BY DEF AbortFlag, AbortNotify, Resume, VaultChanges, vars, control, history
  <2>2. /\ abort' \in BOOLEAN /\ notifying' \in BOOLEAN /\ unlocked' \in BOOLEAN
        /\ replied' \in BOOLEAN
    BY <1>t, Zenon DEF AbortFlag, AbortNotify, Resume, VaultChanges, vars, control, history, TypeOK
  <2>3. waiter' \in {"none", "armed", "woken"}
    BY <1>t DEF AbortFlag, AbortNotify, Resume, VaultChanges, notify_waiters, vars, control,
                history, TypeOK
  <2> QED
    BY <1>t, <2>1, <2>2, <2>3 DEF TypeOK
<1>3. LocalsInv' /\ OutcomeInv' /\ SessionInv' /\ AbortInv'
  BY <1>t DEF AbortFlag, AbortNotify, Resume, VaultChanges, vars, control, history, TypeOK,
              IInv, LocalsInv, OutcomeInv, SessionInv, AbortInv, Over
<1>4. WaiterInv'
  BY <1>t DEF AbortFlag, AbortNotify, Resume, VaultChanges, notify_waiters, At, vars, control,
              history, TypeOK, IInv, WaiterInv
<1> QED
  BY <1>1, <1>2, <1>3, <1>4 DEF IInv

LEMMA NextStep ==
  ASSUME IInv, [Next]_vars
  PROVE  IInv' /\ SeenStep
<1>1. CASE Dispatch
  BY <1>1, DoneStep, FailCallStep, NeedUserStep, CaptureForeignStep, CaptureSecretStep,
     BrowserToolStep, UnknownToolStep DEF Dispatch
<1>2. CASE TaskStep
  BY <1>1, <1>2, StartStep, SessionBeganStep, LoopTopStep, CheckCancelledStep, CancelledStep,
     SleptStep, NextCallStep, PublishPauseStep, PauseStep, ResumedStep, CaptureReturnsStep,
     CheckCaptureStep, StoreStep, BrowserReturnsStep, EndBatchStep, SessionEndStep,
     SessionEndedStep, EmitFinishedStep DEF TaskStep
<1>3. CASE ModelAnswers
  BY <1>3, ModelRetryableStep, ModelFailsStep, ModelIdleStep, ModelCallsToolsStep
     DEF ModelAnswers
<1>4. CASE AbortFlag \/ AbortNotify \/ Resume \/ VaultChanges \/ UNCHANGED vars
  BY <1>4, OtherThreads
<1> QED
  BY <1>2, <1>3, <1>4 DEF Next

LEMMA Initially ==
  ASSUME Init
  PROVE  IInv
<1>0. 0 \in 0..MaxSteps /\ 0 \in 0..IdleLimit /\ 1 \in 1..Models
  BY RunnerAssumption
<1>1. TypeOK
  <2>1. task \in Task
    BY <1>0 DEF Init, Task
  <2>2. ladder \in Ladder
    BY <1>0 DEF Init, Ladder
  <2>3. kind \in {"collect", "rotate"} /\ stored \in SUBSET Wanted /\ late \in 0..2
    BY DEF Init
  <2>4. /\ abort = FALSE /\ notifying = FALSE /\ waiter = "none" /\ unlocked = TRUE
        /\ outcome = "none" /\ browser = "untouched" /\ replied = FALSE /\ stale = FALSE
    BY DEF Init
  <2> QED
    BY <2>1, <2>2, <2>3, <2>4 DEF TypeOK, Ladder
<1>2. LocalsInv /\ OutcomeInv /\ SessionInv /\ AbortInv /\ WaiterInv
  BY DEF Init, LocalsInv, OutcomeInv, SessionInv, AbortInv, WaiterInv, Over
<1> QED
  BY <1>1, <1>2 DEF IInv

LEMMA Invariance == Spec => []IInv
<1>1. Init => IInv
  BY Initially
<1>2. IInv /\ [Next]_vars => IInv'
  BY NextStep
<1> QED
  BY <1>1, <1>2, PTL DEF Spec

----------------------------------------------------------------------------
\* A run that reports success has put every key it was asked for into the
\* vault, what it counts as captured was stored, a rotation touches nothing,
\* and the locals stay within the step budget and the ladder (run.rs run_inner,
\* ladder.rs, runs.rs VaultSink::store).
THEOREM SuccessIsReal == Spec => []OutcomeHonest
<1>1. IInv => OutcomeHonest
  BY DEF IInv, OutcomeInv, OutcomeHonest
<1> QED
  BY <1>1, Invariance, PTL

\* Of the calls in one answer of the model, however many, at most one goes to
\* the browser after the user's abort (run.rs run_inner).
THEOREM OneLateCall == Spec => []AtMostOneLateCall
<1>1. IInv => AtMostOneLateCall
  BY DEF IInv, AbortInv, AtMostOneLateCall
<1> QED
  BY <1>1, Invariance, PTL

\* A click on "Continue" after the pause was shown wakes the task, whenever it
\* comes (run.rs NEED_USER).
THEOREM NoReplyLost == Spec => []ReplyNotLost
<1>1. IInv => ReplyNotLost
  BY DEF IInv, WaiterInv, ReplyNotLost, At
<1> QED
  BY <1>1, Invariance, PTL

\* Finished is published only after session_end was sent, if session_begin was
\* (run.rs run).
THEOREM SessionAlwaysEnded == Spec => []BrowserReleased
<1>1. IInv => BrowserReleased
  BY DEF IInv, SessionInv, BrowserReleased, At
<1> QED
  BY <1>1, Invariance, PTL

\* No step stores a value that came back after the abort, or anything at all
\* once the run has its outcome (run.rs capture_secret).
THEOREM NoLateStore == Spec => NothingStoredAfterAbort
<1>1. IInv /\ [Next]_vars => [stale \/ outcome # "none" => stored' = stored]_vars
  <2> SUFFICES ASSUME IInv, [Next]_vars, stale \/ outcome # "none"
               PROVE  stored' = stored
    OBVIOUS
  <2>1. SeenStep
    BY NextStep
  <2>2. task.pc # "store"
    BY DEF IInv, AbortInv, OutcomeInv, Over
  <2> QED
    BY <2>1, <2>2 DEF SeenStep
<1> QED
  BY <1>1, Invariance, PTL DEF Spec, NothingStoredAfterAbort

----------------------------------------------------------------------------
(***************************************************************************)
(* Runner implements RunLifecycle.                                         *)
(***************************************************************************)
PhaseAt(pc) ==
  CASE pc = "start" -> "queued"
    [] pc = "end" \/ pc = "ending" -> "ending"
    [] pc = "emit" -> "released"
    [] pc = "finished" -> "finished"
    [] OTHER -> "driving"

LEMMA PhaseValues ==
  /\ PhaseAt("start") = "queued" /\ PhaseAt("end") = "ending" /\ PhaseAt("ending") = "ending"
  /\ PhaseAt("emit") = "released" /\ PhaseAt("finished") = "finished"
  /\ \A pc : Driving(pc) => PhaseAt(pc) = "driving"
BY DEF PhaseAt, Driving, Over

\* To the rest of the app a run is what RunLifecycle promises and Runs relies
\* on: it stores wanted keys only while it drives the browser, its outcome is
\* fixed once, success means everything was stored, and Finished comes after the
\* release of the browser (run.rs run, run_inner).
THEOREM RunnerImplementsLifecycle == Spec => ImplementsLifecycle
<1>1. Init => Lifecycle!Init
  BY DEF Init, Lifecycle!Init, phase, At
<1>2. IInv /\ [Next]_vars => [Lifecycle!Next]_(Lifecycle!runVars)
  <2> SUFFICES ASSUME IInv, [Next]_vars
               PROVE  [Lifecycle!Next]_(Lifecycle!runVars)
    OBVIOUS
  <2>1. phase = PhaseAt(task.pc) /\ phase' = PhaseAt(task'.pc)
    BY DEF phase, PhaseAt, At
  <2>2. CASE task.pc = "start" /\ Driving(task'.pc) /\ UNCHANGED <<stored, outcome>>
    <3>1. Lifecycle!Begin
      BY <2>1, <2>2, PhaseValues DEF Lifecycle!Begin
    <3> QED
      BY <3>1 DEF Lifecycle!Next
  <2>3. CASE task.pc = "start" /\ task'.pc = "emit" /\ outcome' = "Failed" /\ UNCHANGED stored
    <3>1. Lifecycle!Refuse
      BY <2>1, <2>3, PhaseValues DEF Lifecycle!Refuse
    <3> QED
      BY <3>1 DEF Lifecycle!Next
  <2>4. CASE Driving(task.pc) /\ Driving(task'.pc) /\ UNCHANGED <<stored, outcome>>
    BY <2>1, <2>4, PhaseValues DEF Lifecycle!runVars
  <2>5. CASE /\ task.pc = "store" /\ Driving(task'.pc) /\ UNCHANGED outcome
             /\ task.key \in Wanted /\ stored' = stored \cup {task.key}
    <3>1. Driving(task.pc)
      BY <2>5 DEF Driving, Over
    <3>2. Lifecycle!Store(task.key)
      BY <2>1, <2>5, <3>1, PhaseValues DEF Lifecycle!Store
    <3> QED
      BY <2>5, <3>2 DEF Lifecycle!Next
  <2>6. CASE /\ Driving(task.pc) /\ task'.pc = "end" /\ UNCHANGED stored
             /\ outcome' \in {"Success", "Partial", "Failed", "Aborted"}
             /\ outcome' = "Success" => stored = Wanted
    <3>1. Lifecycle!Stop(outcome')
      BY <2>1, <2>6, PhaseValues DEF Lifecycle!Stop
    <3> QED
      BY <2>6, <3>1 DEF Lifecycle!Next, Lifecycle!Outcome
  <2>7. CASE task.pc = "end" /\ task'.pc = "ending" /\ UNCHANGED <<stored, outcome>>
    BY <2>1, <2>7, PhaseValues DEF Lifecycle!runVars
  <2>8. CASE task.pc = "ending" /\ task'.pc = "emit" /\ UNCHANGED <<stored, outcome>>
    <3>1. Lifecycle!Release
      BY <2>1, <2>8, PhaseValues DEF Lifecycle!Release
    <3> QED
      BY <3>1 DEF Lifecycle!Next
  <2>9. CASE task.pc = "emit" /\ task'.pc = "finished" /\ UNCHANGED <<stored, outcome>>
    <3>1. Lifecycle!Finish
      BY <2>1, <2>9, PhaseValues DEF Lifecycle!Finish
    <3> QED
      BY <3>1 DEF Lifecycle!Next
  <2>10. CASE UNCHANGED <<task, stored, outcome>>
    BY <2>1, <2>10 DEF Lifecycle!runVars
  <2>11. SeenStep
    BY NextStep
  <2> QED
    BY <2>2, <2>3, <2>4, <2>5, <2>6, <2>7, <2>8, <2>9, <2>10, <2>11 DEF SeenStep
<1> QED
  BY <1>1, <1>2, Invariance, PTL DEF Spec, ImplementsLifecycle, Lifecycle!Spec

=============================================================================
