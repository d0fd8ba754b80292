---------------------------- MODULE AskUserProofs ----------------------------
(***************************************************************************)
(* Proofs about AskUser for any number of calls and of clicks: its two     *)
(* invariants.                                                             *)
(***************************************************************************)
EXTENDS AskUser, TLAPS

----------------------------------------------------------------------------
(***************************************************************************)
(* The inductive invariant.                                                *)
(***************************************************************************)

\* How a call's place, its decision, its channel, its run and its result hang
\* together.
CallInv(c) ==
  /\ call[c].pc \in {"new", "push", "show", "build", "waiting", "timed_out"} =>
       call[c].decision = "none"
  /\ call[c].pc # "done" => call[c].result = "none"
  /\ call[c].decision = "Approved" => channel[c] = "Approved"
  /\ call[c].pc \in {"start", "wait"} => call[c].decision = "Approved"
  /\ run[c] # "none" => call[c].decision = "Approved"
  /\ call[c].result = "denied" => call[c].decision # "Approved"
  /\ call[c].result = "failed" => call[c].decision = "Approved"

\* A hide is due only after an empty queue was seen: what is queued by now came
\* later.
HideInv == HideDue => prompts \subseteq raced

IInv ==
  /\ TypeOK
  /\ \A c \in Call : CallInv(c)
  /\ HideInv
  /\ PromptsShown

----------------------------------------------------------------------------
(***************************************************************************)
(* The ways in which a call and a click move on.                           *)
(***************************************************************************)
CallPlaces == {"new", "push", "show", "build", "waiting", "timed_out", "close", "hide",
               "decided", "start", "wait", "done"}
Results == {"none", "token", "error", "unsupported", "denied", "failed"}
ClickPlaces == {"idle", "deny", "unlock", "presence", "approve", "touch", "close", "hide"}

\* Call c is at pc with decision d and result e, and no other call has moved.
CallIs(c, pc, d, e) ==
  /\ call' \in [Call -> CallState]
  /\ call'[c].pc = pc /\ call'[c].decision = d /\ call'[c].result = e
  /\ \A q \in Call : q # c => call'[q] = call[q]

Decides(c, d) == call' = [call EXCEPT ![c].pc = "close", ![c].decision = d]

LEMMA CallGoes ==
  ASSUME call \in [Call -> CallState], NEW c \in Call, NEW pc \in CallPlaces, Goes(c, pc)
  PROVE  CallIs(c, pc, call[c].decision, call[c].result)
<1> DEFINE x == [call[c] EXCEPT !.pc = pc]
<1>1. call[c] \in CallState
  OBVIOUS
<1>2. /\ x \in CallState
      /\ x.pc = pc /\ x.decision = call[c].decision /\ x.result = call[c].result
  BY <1>1 DEF CallState, CallPlaces
<1>3. call' = [call EXCEPT ![c] = x]
  BY DEF Goes
<1> HIDE DEF x, CallState
<1> QED
  BY <1>2, <1>3 DEF CallIs

LEMMA CallAnswered ==
  ASSUME call \in [Call -> CallState], NEW c \in Call, NEW e \in Results, Answer(c, e)
  PROVE  CallIs(c, "done", call[c].decision, e)
<1> DEFINE x == [call[c] EXCEPT !.pc = "done", !.result = e]
<1>1. call[c] \in CallState
  OBVIOUS
<1>2. x \in CallState /\ x.pc = "done" /\ x.decision = call[c].decision /\ x.result = e
  BY <1>1 DEF CallState, Results
<1>3. call' = [call EXCEPT ![c] = x]
  BY DEF Answer
<1> HIDE DEF x, CallState
<1> QED
  BY <1>2, <1>3 DEF CallIs

LEMMA CallDecided ==
  ASSUME call \in [Call -> CallState], NEW c \in Call,
         NEW d \in {"Approved", "Denied", "TimedOut"}, Decides(c, d)
  PROVE  CallIs(c, "close", d, call[c].result)
<1> DEFINE x == [call[c] EXCEPT !.pc = "close", !.decision = d]
<1>1. call[c] \in CallState
  OBVIOUS
<1>2. x \in CallState /\ x.pc = "close" /\ x.decision = d /\ x.result = call[c].result
  BY <1>1 DEF CallState
<1>3. call' = [call EXCEPT ![c] = x]
  BY DEF Decides
<1> HIDE DEF x, CallState
<1> QED
  BY <1>2, <1>3 DEF CallIs

\* Click k is at pc, and no other click has moved.
ClickIs(k, pc) ==
  /\ click' \in [Click -> ClickState]
  /\ click'[k].pc = pc
  /\ \A j \in Click : j # k => click'[j] = click[j]

LEMMA ClickMoves ==
  ASSUME click \in [Click -> ClickState], NEW k \in Click
  PROVE  /\ \A pc \in ClickPlaces : ClickGoes(k, pc) => ClickIs(k, pc)
         /\ click' = [click EXCEPT ![k] = NoClick] => ClickIs(k, "idle")
         /\ \A pc \in ClickPlaces, c \in Call :
              click' = [click EXCEPT ![k] = [pc |-> pc, id |-> c]] => ClickIs(k, pc)
<1>1. click[k] \in ClickState
  OBVIOUS
<1>2. ASSUME NEW pc \in ClickPlaces, ClickGoes(k, pc) PROVE ClickIs(k, pc)
  <2> DEFINE x == [click[k] EXCEPT !.pc = pc]
  <2>1. x \in ClickState /\ x.pc = pc
    BY <1>1 DEF ClickState, ClickPlaces
  <2>2. click' = [click EXCEPT ![k] = x]
    BY <1>2 DEF ClickGoes
  <2> HIDE DEF x, ClickState
  <2> QED
    BY <2>1, <2>2 DEF ClickIs
<1>3. ASSUME click' = [click EXCEPT ![k] = NoClick] PROVE ClickIs(k, "idle")
  <2>1. NoClick \in ClickState /\ NoClick.pc = "idle"
    BY DEF NoClick, ClickState
  <2> QED
    BY <1>3, <2>1 DEF ClickIs
<1>4. ASSUME NEW pc \in ClickPlaces, NEW c \in Call,
             click' = [click EXCEPT ![k] = [pc |-> pc, id |-> c]]
      PROVE  ClickIs(k, pc)
  <2> DEFINE x == [pc |-> pc, id |-> c]
  <2>1. x \in ClickState /\ x.pc = pc
    BY DEF ClickState, ClickPlaces
  <2> HIDE DEF x, ClickState
  <2> QED
    BY <1>4, <2>1 DEF ClickIs, x
<1> QED
  BY <1>2, <1>3, <1>4

----------------------------------------------------------------------------
(***************************************************************************)
(* Preservation.                                                           *)
(***************************************************************************)

\* Steps of the loop, the clock, the user and the commands that touch neither a
\* call nor the queue nor the window, and leave no click about to hide it.
Aside ==
  /\ UNCHANGED <<call, run, prompts, channel, window, excused, raced>>
  /\ \/ UNCHANGED click
     \/ \E k \in Click, pc \in ClickPlaces \ {"hide"} : ClickIs(k, pc)

LEMMA AsideStep ==
  ASSUME IInv, Aside, locked' \in BOOLEAN, collect' \in BOOLEAN, overdue' \in BOOLEAN,
         loop' \in {"sleep", "runs", "lock"}
  PROVE  IInv'
<1>1. click' \in [Click -> ClickState]
  BY DEF IInv, TypeOK, Aside, ClickIs
<1>2. TypeOK'
  BY <1>1 DEF IInv, TypeOK, Aside
<1>3. \A c \in Call : CallInv(c)'
  BY DEF IInv, Aside, CallInv
<1>4. HideDue' => HideDue
  BY DEF Aside, HideDue, ClickIs
<1>5. HideInv' /\ PromptsShown'
  BY <1>4 DEF IInv, Aside, HideInv, PromptsShown
<1> QED
  BY <1>2, <1>3, <1>5 DEF IInv

LEMMA LoopSteps ==
  ASSUME IInv, Loop \/ MinutesPass \/ GetKey \/ settings_set \/ vault_lock
               \/ CollectStarts \/ CollectEnds
  PROVE  IInv'
<1>t. TypeOK
  BY DEF IInv
<1>1. Aside
  BY DEF Loop, LoopLooks, LoopChecksRuns, LoopLocks, MinutesPass, GetKey, settings_set,
         vault_lock, CollectStarts, CollectEnds, callVars, promptVars, windowVars, Aside
<1>2. locked' \in BOOLEAN /\ collect' \in BOOLEAN /\ overdue' \in BOOLEAN
  BY <1>t DEF Loop, LoopLooks, LoopChecksRuns, LoopLocks, MinutesPass, GetKey, settings_set,
              vault_lock, CollectStarts, CollectEnds, touch, TypeOK
<1>3. loop' \in {"sleep", "runs", "lock"}
  BY <1>t DEF Loop, LoopLooks, LoopChecksRuns, LoopLocks, MinutesPass, GetKey, settings_set,
              vault_lock, CollectStarts, CollectEnds, TypeOK
<1> QED
  BY <1>1, <1>2, <1>3, AsideStep

LEMMA ClickSteps ==
  ASSUME IInv, NEW k \in Click,
         \/ \E c \in Call, approve \in BOOLEAN : DecideStart(k, c, approve)
         \/ VaultUnlock(k) \/ DecideUnlock(k) \/ DecidePresence(k) \/ DecideFails(k)
         \/ DecideTouch(k)
  PROVE  IInv'
<1>t. TypeOK
  BY DEF IInv
<1>1. /\ UNCHANGED <<call, run, prompts, channel, window, excused, raced, collect, loop>>
      /\ locked' \in BOOLEAN /\ overdue' \in BOOLEAN
  BY <1>t DEF DecideStart, VaultUnlock, DecideUnlock, DecidePresence, DecideFails, DecideTouch,
              callVars, promptVars, windowVars, touch, TypeOK
<1>2. \E pc \in ClickPlaces \ {"hide"} : ClickIs(k, pc)
  <2>1. CASE \E c \in Call, approve \in BOOLEAN : DecideStart(k, c, approve)
    <3>1. PICK c \in Call, pc \in {"deny", "unlock", "presence", "approve"} :
            click' = [click EXCEPT ![k] = [pc |-> pc, id |-> c]]
      BY <2>1 DEF DecideStart
    <3> QED
      BY <1>t, <3>1, ClickMoves DEF TypeOK, ClickPlaces
  <2>2. CASE VaultUnlock(k)
    BY <1>t, <2>2, ClickMoves DEF VaultUnlock, TypeOK, ClickPlaces
  <2>3. CASE DecideUnlock(k)
    BY <1>t, <2>3, ClickMoves DEF DecideUnlock, TypeOK, ClickPlaces
  <2>4. CASE DecidePresence(k)
    BY <1>t, <2>4, ClickMoves DEF DecidePresence, TypeOK, ClickPlaces
  <2>5. CASE DecideFails(k)
    BY <1>t, <2>5, ClickMoves DEF DecideFails, TypeOK, ClickPlaces
  <2>6. CASE DecideTouch(k)
    <3>1. \/ click' = [click EXCEPT ![k] = NoClick]
          \/ ClickGoes(k, "close")
      BY <2>6 DEF DecideTouch, ClickGoes
    <3> QED
      BY <1>t, <3>1, ClickMoves DEF TypeOK, ClickPlaces
  <2> QED
    BY <2>1, <2>2, <2>3, <2>4, <2>5, <2>6
<1>3. Aside
  BY <1>1, <1>2 DEF Aside
<1>4. collect' \in BOOLEAN /\ loop' \in {"sleep", "runs", "lock"}
  BY <1>t, <1>1 DEF TypeOK
<1> QED
  BY <1>1, <1>3, <1>4, AsideStep

\* The decision goes into the channel of a prompt that is still queued, and a
\* channel that has one keeps it.
LEMMA ResolveStep ==
  ASSUME IInv, NEW k \in Click, DecideDeny(k) \/ DecideApprove(k)
  PROVE  IInv'
<1>t. TypeOK
  BY DEF IInv
<1>1. UNCHANGED <<call, run, window, locked, collect, overdue, loop>>
  BY DEF DecideDeny, DecideApprove, callVars
<1>2. PICK d \in {"Approved", "Denied"} : resolve(click[k].id, d)
  BY DEF DecideDeny, DecideApprove
<1>3. ClickIs(k, "close") \/ ClickIs(k, "touch")
  BY <1>t, ClickMoves DEF DecideDeny, DecideApprove, TypeOK, ClickPlaces
<1>4. /\ channel' \in [Call -> {"empty", "Approved", "Denied", "closed"}]
      /\ \A c \in Call : channel[c] = "Approved" => channel'[c] = "Approved"
      /\ prompts' \subseteq prompts /\ excused' \subseteq excused /\ raced' \subseteq raced
      /\ \A c \in prompts' : (c \in excused => c \in excused') /\ (c \in raced => c \in raced')
  BY <1>t, <1>2 DEF resolve, Remove, promptVars, TypeOK
<1>5. TypeOK'
  BY <1>t, <1>1, <1>3, <1>4 DEF TypeOK, ClickIs
<1>6. \A c \in Call : CallInv(c)'
  BY <1>1, <1>4 DEF IInv, CallInv
<1>7. HideDue' => HideDue
  BY <1>1, <1>3 DEF HideDue, ClickIs
<1>8. HideInv' /\ PromptsShown'
  BY <1>1, <1>4, <1>7 DEF IInv, HideInv, PromptsShown
<1> QED
  BY <1>5, <1>6, <1>8 DEF IInv

LEMMA CloseCheckSteps ==
  ASSUME IInv, NEW k \in Click, DecideCloseCheck(k)
  PROVE  IInv'
<1>t. TypeOK
  BY DEF IInv
<1>1. UNCHANGED <<call, run, prompts, channel, window, excused, raced, locked, collect, overdue, loop>>
  BY DEF DecideCloseCheck, callVars, promptVars, windowVars
<1>2. (prompts = {} /\ ClickIs(k, "hide")) \/ ClickIs(k, "idle")
  <2>1. \/ prompts = {} /\ ClickGoes(k, "hide")
        \/ click' = [click EXCEPT ![k] = NoClick]
    BY DEF DecideCloseCheck, ClickGoes
  <2> QED
    BY <1>t, <2>1, ClickMoves DEF TypeOK, ClickPlaces
<1>3. TypeOK'
  BY <1>t, <1>1, <1>2 DEF TypeOK, ClickIs
<1>4. \A c \in Call : CallInv(c)'
  BY <1>1 DEF IInv, CallInv
<1>5. HideDue' => HideDue \/ prompts = {}
  BY <1>1, <1>2 DEF HideDue, ClickIs
<1>6. HideInv' /\ PromptsShown'
  BY <1>1, <1>5 DEF IInv, HideInv, PromptsShown
<1> QED
  BY <1>3, <1>4, <1>6 DEF IInv

\* Whoever hides the window: the user over the queued prompts, or a task under
\* whose hide they were queued.
LEMMA HideSteps ==
  ASSUME IInv, (\E k \in Click : DecideCloseHide(k)) \/ UserHides
  PROVE  IInv'
<1>t. TypeOK
  BY DEF IInv
<1>1. /\ UNCHANGED <<call, run, prompts, channel, locked, collect, overdue, loop>>
      /\ window' \in {"none", "hidden"} /\ UNCHANGED raced
  BY <1>t DEF DecideCloseHide, UserHides, Disappears, callVars, promptVars, TypeOK
<1>2. UNCHANGED click \/ \E k \in Click : click[k].pc = "hide" /\ ClickIs(k, "idle")
  BY <1>t, ClickMoves DEF DecideCloseHide, UserHides, TypeOK
<1>3. excused' \subseteq Call /\ prompts \subseteq excused' \cup raced
  BY <1>t DEF DecideCloseHide, UserHides, IInv, HideInv, HideDue, TypeOK
<1>4. click' \in [Click -> ClickState]
  BY <1>t, <1>2 DEF TypeOK, ClickIs
<1>5. TypeOK'
  BY <1>t, <1>1, <1>3, <1>4 DEF TypeOK
<1>6. \A c \in Call : CallInv(c)'
  BY <1>1 DEF IInv, CallInv
<1>7. HideDue' => HideDue
  BY <1>1, <1>2 DEF HideDue, ClickIs
<1>8. HideInv' /\ PromptsShown'
  BY <1>1, <1>3, <1>7 DEF IInv, HideInv, PromptsShown
<1> QED
  BY <1>5, <1>6, <1>8 DEF IInv

\* A call that only moves on, or is answered, and leaves the queue and the
\* window alone; it goes to hide the window only if the queue is empty.
Moves(c, pc, e) ==
  /\ CallIs(c, pc, call[c].decision, e)
  /\ UNCHANGED <<run, prompts, channel, window, excused, raced, click, locked, collect, loop>>
  /\ overdue' \in BOOLEAN
  /\ pc = "hide" => prompts = {}
  /\ pc # "waiting"

LEMMA MovesStep ==
  ASSUME IInv, NEW c \in Call, NEW pc, NEW e, Moves(c, pc, e), CallInv(c)'
  PROVE  IInv'
<1>1. TypeOK'
  BY DEF IInv, TypeOK, Moves, CallIs
<1>2. \A q \in Call : q # c => CallInv(q)'
  BY DEF IInv, Moves, CallIs, CallInv
<1>3. HideDue' => HideDue \/ prompts = {}
  BY DEF Moves, CallIs, HideDue
<1>4. HideInv' /\ PromptsShown'
  BY <1>3 DEF IInv, TypeOK, Moves, CallIs, HideInv, PromptsShown
<1> QED
  BY <1>1, <1>2, <1>4 DEF IInv

LEMMA CallMoves ==
  ASSUME IInv, NEW c \in Call,
         CallArrives(c) \/ CloseCheck(c) \/ Authorize(c) \/ Rotate(c) \/ RunAnswered(c)
  PROVE  IInv'
<1>t. TypeOK /\ CallInv(c)
  BY DEF IInv
<1>1. /\ UNCHANGED <<run, prompts, channel, window, excused, raced, click, locked, collect, loop>>
      /\ overdue' \in BOOLEAN
  BY <1>t DEF CallArrives, CloseCheck, Authorize, Rotate, RunAnswered, promptVars, windowVars,
              touch, TypeOK
<1>2. /\ \A pc \in CallPlaces : Goes(c, pc) => CallIs(c, pc, call[c].decision, call[c].result)
      /\ \A e \in Results : Answer(c, e) => CallIs(c, "done", call[c].decision, e)
  BY <1>t, CallGoes, CallAnswered DEF TypeOK
<1>3. CASE CallArrives(c)
  <2>1. \/ CallIs(c, "push", call[c].decision, call[c].result)
        \/ CallIs(c, "done", call[c].decision, "error")
        \/ CallIs(c, "done", call[c].decision, "unsupported")
    BY <1>2, <1>3 DEF CallArrives, CallPlaces, Results
  <2>2. \E pc, e : Moves(c, pc, e)
    BY <1>1, <2>1 DEF Moves
  <2>3. CallInv(c)'
    BY <1>t, <1>1, <1>3, <2>1 DEF CallArrives, CallIs, CallInv
  <2> QED
    BY <2>2, <2>3, MovesStep
<1>4. CASE CloseCheck(c)
  <2>1. \/ prompts = {} /\ CallIs(c, "hide", call[c].decision, call[c].result)
        \/ CallIs(c, "decided", call[c].decision, call[c].result)
    BY <1>2, <1>4 DEF CloseCheck, CallPlaces
  <2>2. \E pc, e : Moves(c, pc, e)
    BY <1>1, <2>1 DEF Moves
  <2>3. CallInv(c)'
    BY <1>t, <1>1, <1>4, <2>1 DEF CloseCheck, CallIs, CallInv
  <2> QED
    BY <2>2, <2>3, MovesStep
<1>5. CASE Authorize(c)
  <2>1. \/ CallIs(c, "done", call[c].decision, "token")
        \/ CallIs(c, "done", call[c].decision, "error")
        \/ call[c].decision # "Approved" /\ CallIs(c, "done", call[c].decision, "denied")
    BY <1>2, <1>5 DEF Authorize, Results
  <2>2. \E pc, e : Moves(c, pc, e)
    BY <1>1, <2>1 DEF Moves
  <2>3. CallInv(c)'
    BY <1>t, <1>1, <1>5, <2>1 DEF Authorize, CallIs, CallInv
  <2> QED
    BY <2>2, <2>3, MovesStep
<1>6. CASE Rotate(c)
  <2>1. \/ call[c].decision # "Approved" /\ CallIs(c, "done", call[c].decision, "denied")
        \/ call[c].decision = "Approved" /\ CallIs(c, "done", call[c].decision, "failed")
        \/ /\ call[c].decision = "Approved"
           /\ CallIs(c, "start", call[c].decision, call[c].result)
    BY <1>2, <1>6 DEF Rotate, CallPlaces, Results
  <2>2. \E pc, e : Moves(c, pc, e)
    BY <1>1, <2>1 DEF Moves
  <2>3. CallInv(c)'
    BY <1>t, <1>1, <1>6, <2>1 DEF Rotate, CallIs, CallInv
  <2> QED
    BY <2>2, <2>3, MovesStep
<1>7. CASE RunAnswered(c)
  <2>1. CallIs(c, "done", call[c].decision, "failed")
    BY <1>2, <1>7 DEF RunAnswered, Results
  <2>2. \E pc, e : Moves(c, pc, e)
    BY <1>1, <2>1 DEF Moves
  <2>3. CallInv(c)'
    BY <1>t, <1>1, <1>7, <2>1 DEF RunAnswered, CallIs, CallInv
  <2> QED
    BY <2>2, <2>3, MovesStep
<1> QED
  BY <1>3, <1>4, <1>5, <1>6, <1>7

\* A prompt that is queued while a hide is due is marked.
LEMMA PushStep ==
  ASSUME IInv, NEW c \in Call, push(c)
  PROVE  IInv'
<1>t. TypeOK
  BY DEF IInv
<1>1. /\ UNCHANGED <<run, channel, window, excused, click, locked, collect, overdue, loop>>
      /\ prompts' = prompts \cup {c}
      /\ raced' = IF HideDue THEN raced \cup {c} ELSE raced
      /\ call[c].pc = "push"
  BY DEF push
<1>2. CallIs(c, "show", call[c].decision, call[c].result)
  BY <1>t, CallGoes DEF push, TypeOK, CallPlaces
<1>3. TypeOK'
  BY <1>t, <1>1, <1>2 DEF TypeOK, CallIs
<1>4. \A q \in Call : CallInv(q)'
  BY <1>1, <1>2 DEF IInv, CallIs, CallInv
<1>5. HideDue' => HideDue
  BY <1>1, <1>2 DEF HideDue, CallIs
<1>6. HideInv'
  BY <1>1, <1>5 DEF IInv, HideInv
<1>7. PromptsShown'
  BY <1>t, <1>1, <1>2 DEF IInv, TypeOK, CallIs, PromptsShown
<1> QED
  BY <1>3, <1>4, <1>6, <1>7 DEF IInv

\* The window comes up, is still to be built, or could not be built.
LEMMA ShowSteps ==
  ASSUME IInv, NEW c \in Call, show_prompt_window(c) \/ BuildWindow(c)
  PROVE  IInv'
<1>t. TypeOK
  BY DEF IInv
<1>1. /\ UNCHANGED <<run, prompts, channel, click, locked, collect, overdue, loop>>
      /\ call[c].pc \in {"show", "build"}
  BY DEF show_prompt_window, BuildWindow, promptVars
<1>2. PICK pc \in {"build", "waiting"} : CallIs(c, pc, call[c].decision, call[c].result)
  BY <1>t, CallGoes DEF show_prompt_window, BuildWindow, TypeOK, CallPlaces
<1>3. \/ Appears
      \/ UNCHANGED <<window, excused, raced>> /\ call'[c].pc = "build"
      \/ UNCHANGED <<window, raced>> /\ excused' \in {excused, excused \cup {c}}
         /\ (window # "shown" => c \in excused')
  <2>1. CASE show_prompt_window(c)
    <3>1. Goes(c, "build") => call'[c].pc = "build"
      BY <1>t, CallGoes DEF TypeOK, CallPlaces, CallIs
    <3> QED
      BY <2>1, <3>1 DEF show_prompt_window, windowVars
  <2>2. CASE BuildWindow(c)
    BY <2>2 DEF BuildWindow
  <2> QED
    BY <2>1, <2>2
<1>4. /\ window' \in {"none", "hidden", "shown"} /\ excused' \subseteq Call /\ raced' \subseteq Call
      /\ HideDue => raced' = raced
  BY <1>t, <1>3 DEF TypeOK, Appears
<1>5. TypeOK'
  BY <1>t, <1>1, <1>2, <1>4 DEF TypeOK, CallIs
<1>6. \A q \in Call : CallInv(q)'
  BY <1>1, <1>2 DEF IInv, CallIs, CallInv
<1>7. HideDue' => HideDue
  BY <1>1, <1>2 DEF HideDue, CallIs
<1>8. HideInv'
  BY <1>1, <1>4, <1>7 DEF IInv, HideInv
<1>9. PromptsShown'
  BY <1>t, <1>1, <1>2, <1>3 DEF IInv, TypeOK, CallIs, PromptsShown, Appears
<1> QED
  BY <1>5, <1>6, <1>8, <1>9 DEF IInv

\* The decision is taken from the channel, or the timeout closes it.
LEMMA DecisionSteps ==
  ASSUME IInv, NEW c \in Call, ReceiveDecision(c) \/ TimeoutFires(c) \/ TimeoutRemove(c)
  PROVE  IInv'
<1>t. TypeOK
  BY DEF IInv
<1>1. UNCHANGED <<run, window, click, locked, collect, overdue, loop>>
  BY DEF ReceiveDecision, TimeoutFires, TimeoutRemove, windowVars
<1>2. \/ /\ CallIs(c, "close", channel[c], call[c].result)
         /\ UNCHANGED <<channel, prompts, excused, raced>>
      \/ /\ CallIs(c, "timed_out", call[c].decision, call[c].result)
         /\ channel' = [channel EXCEPT ![c] = "closed"]
         /\ UNCHANGED <<prompts, excused, raced>>
      \/ /\ CallIs(c, "close", "TimedOut", call[c].result)
         /\ prompts' = prompts \ {c} /\ excused' = excused \ {c} /\ raced' = raced \ {c}
         /\ UNCHANGED channel
  <2>1. CASE ReceiveDecision(c)
    <3>1. Decides(c, channel[c]) /\ channel[c] \in {"Approved", "Denied"}
      BY <2>1 DEF ReceiveDecision, Decides
    <3>2. CallIs(c, "close", channel[c], call[c].result)
      BY <1>t, <3>1, CallDecided DEF TypeOK
    <3> QED
      BY <2>1, <3>2 DEF ReceiveDecision, promptVars, windowVars
  <2>2. CASE TimeoutFires(c)
    <3>1. CallIs(c, "timed_out", call[c].decision, call[c].result)
      BY <1>t, <2>2, CallGoes DEF TimeoutFires, TypeOK, CallPlaces
    <3> QED
      BY <2>2, <3>1 DEF TimeoutFires, windowVars
  <2>3. CASE TimeoutRemove(c)
    <3>1. Decides(c, "TimedOut")
      BY <2>3 DEF TimeoutRemove, Decides
    <3>2. CallIs(c, "close", "TimedOut", call[c].result)
      BY <1>t, <3>1, CallDecided DEF TypeOK
    <3> QED
      BY <2>3, <3>2 DEF TimeoutRemove, Remove
  <2> QED
    BY <2>1, <2>2, <2>3
<1>3. call[c].pc \in {"waiting", "timed_out"}
  BY DEF ReceiveDecision, TimeoutFires, TimeoutRemove
<1>4. TypeOK'
  BY <1>t, <1>1, <1>2 DEF TypeOK, CallIs
<1>5. CallInv(c)'
  BY <1>t, <1>1, <1>2, <1>3 DEF IInv, TypeOK, CallIs, CallInv
<1>6. \A q \in Call : q # c => CallInv(q)'
  BY <1>t, <1>1, <1>2 DEF IInv, TypeOK, CallIs, CallInv
<1>7. HideDue' => HideDue
  BY <1>1, <1>2 DEF HideDue, CallIs
<1>8. HideInv' /\ PromptsShown'
  BY <1>t, <1>1, <1>2, <1>7 DEF IInv, TypeOK, CallIs, HideInv, PromptsShown
<1> QED
  BY <1>4, <1>5, <1>6, <1>8 DEF IInv

LEMMA CloseHideStep ==
  ASSUME IInv, NEW c \in Call, CloseHide(c)
  PROVE  IInv'
<1>t. TypeOK
  BY DEF IInv
<1>1. /\ UNCHANGED <<run, prompts, channel, excused, raced, click, locked, collect, overdue, loop>>
      /\ window' \in {"none", "hidden"} /\ call[c].pc = "hide"
  BY <1>t DEF CloseHide, Disappears, promptVars, TypeOK
<1>2. CallIs(c, "decided", call[c].decision, call[c].result)
  BY <1>t, CallGoes DEF CloseHide, TypeOK, CallPlaces
<1>3. TypeOK'
  BY <1>t, <1>1, <1>2 DEF TypeOK, CallIs
<1>4. \A q \in Call : CallInv(q)'
  BY <1>1, <1>2 DEF IInv, CallIs, CallInv
<1>5. prompts \subseteq raced
  BY <1>1 DEF IInv, HideInv, HideDue
<1>6. HideInv' /\ PromptsShown'
  BY <1>1, <1>5 DEF HideInv, PromptsShown
<1> QED
  BY <1>3, <1>4, <1>6 DEF IInv

\* The run of an approved report starts, is refused, or never starts.
LEMMA RunSteps ==
  ASSUME IInv, NEW c \in Call, StartRun(c) \/ RunRefused(c)
  PROVE  IInv'
<1>t. TypeOK
  BY DEF IInv
<1>1. UNCHANGED <<prompts, channel, window, excused, raced, click, locked, collect, overdue, loop>>
  BY DEF StartRun, RunRefused, promptVars, windowVars
<1>2. /\ run' \in [Call -> {"none", "active", "finished"}]
      /\ \A q \in Call : q # c => run'[q] = run[q]
  BY <1>t DEF StartRun, RunRefused, TypeOK
<1>3. \/ call[c].pc = "start" /\ CallIs(c, "done", call[c].decision, "failed")
      \/ call[c].pc = "start" /\ CallIs(c, "wait", call[c].decision, call[c].result)
      \/ run[c] = "active" /\ UNCHANGED call
  BY <1>t, CallGoes, CallAnswered DEF StartRun, RunRefused, TypeOK, CallPlaces, Results
<1>4. TypeOK'
  BY <1>t, <1>1, <1>2, <1>3 DEF TypeOK, CallIs
<1>5. CallInv(c)'
  BY <1>1, <1>3 DEF IInv, CallIs, CallInv
<1>6. \A q \in Call : q # c => CallInv(q)'
  BY <1>1, <1>2, <1>3 DEF IInv, CallIs, CallInv
<1>7. HideDue' => HideDue
  BY <1>1, <1>3 DEF HideDue, CallIs
<1>8. HideInv' /\ PromptsShown'
  BY <1>t, <1>1, <1>3, <1>7 DEF IInv, TypeOK, CallIs, HideInv, PromptsShown
<1> QED
  BY <1>4, <1>5, <1>6, <1>8 DEF IInv

----------------------------------------------------------------------------
LEMMA Initially ==
  ASSUME Init
  PROVE  IInv
<1>1. NewCall \in CallState /\ NoClick \in ClickState
  BY DEF NewCall, CallState, NoClick, ClickState
<1>2. /\ call = [c \in Call |-> NewCall] /\ click = [k \in Click |-> NoClick]
      /\ run = [c \in Call |-> "none"] /\ prompts = {} /\ channel = [c \in Call |-> "empty"]
      /\ window = "none" /\ locked = TRUE /\ collect = FALSE /\ overdue = FALSE
      /\ loop = "sleep" /\ excused = {} /\ raced = {}
  BY DEF Init
<1>3. TypeOK
  BY <1>1, <1>2 DEF TypeOK
<1>4. \A c \in Call : CallInv(c)
  BY <1>2 DEF CallInv, NewCall
<1>5. HideInv /\ PromptsShown
  BY <1>2 DEF HideInv, PromptsShown
<1> QED
  BY <1>3, <1>4, <1>5 DEF IInv

LEMMA Invariance == Spec => []IInv
<1>1. Init => IInv
  BY Initially
<1>2. IInv /\ [Next]_vars => IInv'
  <2> SUFFICES ASSUME IInv, [Next]_vars
               PROVE  IInv'
    OBVIOUS
  <2>1. ASSUME NEW c \in Call, CallArrives(c) \/ Handler(c) \/ RunRefused(c)
        PROVE  IInv'
    BY <2>1, CallMoves, PushStep, ShowSteps, DecisionSteps, CloseHideStep, RunSteps DEF Handler
  <2>2. ASSUME NEW k \in Click, NEW c \in Call, NEW approve \in BOOLEAN, DecideStart(k, c, approve)
        PROVE  IInv'
    BY <2>2, ClickSteps
  <2>3. ASSUME NEW k \in Click,
               VaultUnlock(k) \/ DecideUnlock(k) \/ DecidePresence(k) \/ DecideFails(k)
        PROVE  IInv'
    BY <2>3, ClickSteps
  <2>4. ASSUME NEW k \in Click, ClickRuns(k)
        PROVE  IInv'
    BY <2>4, ResolveStep, ClickSteps, CloseCheckSteps, HideSteps DEF ClickRuns
  <2>5. CASE Loop \/ MinutesPass \/ GetKey \/ settings_set \/ vault_lock
             \/ CollectStarts \/ CollectEnds
    BY <2>5, LoopSteps
  <2>6. CASE UserHides
    BY <2>6, HideSteps
  <2>7. CASE UNCHANGED vars
    BY <2>7 DEF vars, callVars, promptVars, windowVars, IInv, TypeOK, CallInv, HideInv,
                HideDue, PromptsShown
  <2> QED
    BY <2>1, <2>2, <2>3, <2>4, <2>5, <2>6, <2>7 DEF Next
<1> QED
  BY <1>1, <1>2, PTL DEF Spec

----------------------------------------------------------------------------
\* No rotation without the user: a run exists only for a report whose own
\* prompt was approved in time, "denied" is never said of one that has a run and
\* "failed" never without an approval, whatever clicks, timeouts and locks meet
\* (ipc_handler.rs ask_user, report_key_invalid; commands.rs prompt_decide).
THEOREM NoRotationUnasked == Spec => []RotationsApproved
<1>1. IInv => RotationsApproved
  BY DEF IInv, CallInv, RotationsApproved
<1> QED
  BY <1>1, Invariance, PTL

\* A prompt that is waited for is on the screen, unless since the window last came
\* up the user closed it, no window could be built for the prompt, or the prompt
\* was queued under a hide that was already decided on: these are the only ways
\* to lose it (prompt.rs show_prompt_window, close_prompt_window_if_idle).
THEOREM NoPromptHidden == Spec => []PromptsShown
<1>1. IInv => PromptsShown
  BY DEF IInv
<1> QED
  BY <1>1, Invariance, PTL

=============================================================================
