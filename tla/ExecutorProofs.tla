--------------------------- MODULE ExecutorProofs ---------------------------
(***************************************************************************)
(* Proofs about Executor for any number of runs and of messages that are   *)
(* worked on at a time: its four invariants.                               *)
(***************************************************************************)
EXTENDS Executor, TLAPS

----------------------------------------------------------------------------
(***************************************************************************)
(* The inductive invariant.                                                *)
(***************************************************************************)

\* The steps of each handler.
PlacesOf(op) ==
  CASE op = "begin" -> {"start", "grouping", "loading", "attach", "hook", "ok", "error"}
    [] op = "tool" -> {"start", "state", "attach", "act", "after", "ok", "error"}
    [] op = "end" -> {"start", "detach", "loop", "close", "delete", "ok", "error"}
    [] OTHER -> {"idle"}

HandlerInv(k) ==
  /\ task[k].pc \in PlacesOf(task[k].op)
  /\ task[k].op = "none" => task[k] = Idle
  /\ task[k].op # "none" => task[k].run \in Run

Of(k, r, op) == task[k].run = r /\ task[k].op = op

Finished(k) == task[k].pc \in {"ok", "error"}

\* The app waits for one call of a run at a time; what else the extension works
\* on for that run are calls the app gave up on.  Tools are called only after
\* session_begin was answered, and session_end once, after all other calls.
CallsInv(r) ==
  /\ app[r].pc = "queued" => \A k \in Task : task[k].run # r
  /\ app[r].pc \in {"begin", "tool", "end"} <=> app[r].waits # NoTask
  /\ app[r].waits # NoTask => Of(app[r].waits, r, app[r].pc)
  /\ app[r].overlap => app[r].pc \in {"end", "over"}
  /\ \A k \in Task : Of(k, r, "begin") =>
       /\ app[r].pc \in {"begin", "stop", "end", "over"}
       /\ \A j \in Task : task[j].run = r /\ j # k => task[j].op = "end"
  /\ \A k \in Task : Of(k, r, "tool") => app[r].pc \notin {"begin", "stop"}
  /\ \A k \in Task : Of(k, r, "end") =>
       /\ app[r].pc \in {"end", "over"} /\ ~app[r].clean
       /\ \A j \in Task : Of(j, r, "end") => j = k
  /\ app[r].clean => app[r].pc = "over"

\* The session's record is right, and before sessions.set there is nothing to
\* record.
SessionInv(r) ==
  /\ r \in live => (sess[r].attached <=> r \in dbg)
  /\ app[r].pc = "queued" => r \notin live \cup dbg \cup stopped /\ tab[r] = "none"
  /\ \A k \in Task : Of(k, r, "begin") =>
       /\ task[k].pc \in {"start", "grouping"} => r \notin live \cup dbg
       /\ task[k].pc = "start" => r \notin stopped /\ tab[r] = "none"
       /\ task[k].pc = "grouping" /\ r \in stopped => tab[r] = "closed"

\* A stopped run's session is marked, unless the user closed the tab before the
\* session was registered: then its session_begin fails and no tool is called.
\* A tool that is called late finds the mark or no session.
StoppedInv(r) ==
  /\ r \in stopped /\ r \in live /\ ~sess[r].aborted =>
       /\ tab[r] = "closed"
       /\ app[r].pc \notin {"drive", "tool"}
       /\ \A k \in Task : task[k].run = r =>
            \/ task[k].op = "begin" /\ task[k].pc \in {"loading", "error"}
            \/ task[k].op = "end"
  /\ \A k \in Task : Of(k, r, "tool") /\ task[k].late =>
       /\ task[k].pc \in {"start", "error"}
       /\ r \notin live \/ sess[r].aborted
  /\ r \in reported => r \in stopped \/ app[r].overlap

\* No call overlaps with session_end, and the worker has kept the session.
Whole(r) == ~app[r].overlap /\ r \notin lost

\* The way to a clean end: until session_end is sent a session that was begun is
\* there, and from then on sessionEnd works alone.
EndInv(r) ==
  Whole(r) =>
    /\ r \in dbg => r \in live
    /\ app[r].pc \in {"drive", "tool"} => r \in live
    /\ \A k \in Task : Of(k, r, "begin") =>
         /\ task[k].pc \in {"loading", "attach", "hook"} => r \in live
         /\ task[k].pc = "ok" /\ app[r].pc = "begin" => r \in live
    /\ app[r].pc \in {"end", "over"} =>
         \A k \in Task : task[k].run = r => task[k].op = "end" \/ Finished(k)
    /\ \A k \in Task : Of(k, r, "end") =>
         /\ task[k].pc = "start" => r \in live \/ app[r].keep_tabs
         /\ task[k].pc \in {"detach", "loop", "close", "delete"} => r \in live
         /\ task[k].pc \in {"close", "delete"} => r \notin dbg
         /\ task[k].pc = "delete" => ~Open(r)
         /\ task[k].pc = "ok" => Destroyed(r)
    /\ app[r].clean => Destroyed(r)

\* A run that is lost has sent its session_end elsewhere, or has no session any
\* more and gets none, so that a session_end that comes here finds nothing.
LostInv(r) ==
  r \in lost =>
    /\ app[r].pc # "queued"
    /\ \/ app[r].pc = "over" /\ \A k \in Task : ~Of(k, r, "end")
       \/ /\ r \notin live
          /\ \A k \in Task : /\ Of(k, r, "begin") => Finished(k)
                             /\ Of(k, r, "end") => Finished(k) \/ task[k].pc = "start"

RunInv(r) == CallsInv(r) /\ SessionInv(r) /\ StoppedInv(r) /\ EndInv(r) /\ LostInv(r)

IInv ==
  /\ TypeOK
  /\ \A k \in Task : HandlerInv(k)
  /\ \A r \in Run : RunInv(r)

----------------------------------------------------------------------------
(***************************************************************************)
(* The ways in which tasks and runs move on.                               *)
(***************************************************************************)
AppPlaces == {"queued", "begin", "drive", "tool", "stop", "end", "over"}

\* Task k has gone to pc, and nothing else of any task has changed.
TaskAt(k, pc) ==
  /\ task' \in [Task -> TaskState]
  /\ task'[k].pc = pc /\ task'[k].op = task[k].op
  /\ task'[k].run = task[k].run /\ task'[k].late = task[k].late
  /\ \A j \in Task : j # k => task'[j] = task[j]

LEMMA TaskGoes ==
  ASSUME task \in [Task -> TaskState], NEW k \in Task, NEW op \in {"begin", "tool", "end"},
         NEW pc \in PlacesOf(op), Goto(k, pc)
  PROVE  TaskAt(k, pc)
<1> DEFINE x == [task[k] EXCEPT !.pc = pc]
<1>1. task[k] \in TaskState
  OBVIOUS
<1>2. x \in TaskState /\ x.pc = pc /\ x.op = task[k].op /\ x.run = task[k].run /\ x.late = task[k].late
  BY <1>1 DEF TaskState, PlacesOf
<1>3. task' = [task EXCEPT ![k] = x]
  BY DEF Goto
<1> HIDE DEF x, TaskState
<1> QED
  BY <1>2, <1>3 DEF TaskAt

LEMMA TaskEnds ==
  ASSUME task \in [Task -> TaskState], NEW k \in Task, task' = [task EXCEPT ![k] = Idle]
  PROVE  /\ task' \in [Task -> TaskState]
         /\ task'[k] = Idle
         /\ \A j \in Task : j # k => task'[j] = task[j]
<1>1. Idle \in TaskState
  BY DEF Idle, TaskState
<1> HIDE DEF TaskState
<1> QED
  BY <1>1

LEMMA TaskBegins ==
  ASSUME task \in [Task -> TaskState], NEW k \in Task, NEW r \in Run,
         NEW op \in {"begin", "tool", "end"}, NEW b \in BOOLEAN,
         task' = [task EXCEPT ![k] = [op |-> op, run |-> r, pc |-> "start", late |-> b]]
  PROVE  /\ task' \in [Task -> TaskState]
         /\ task'[k].op = op /\ task'[k].run = r /\ task'[k].pc = "start" /\ task'[k].late = b
         /\ \A j \in Task : j # k => task'[j] = task[j]
<1> DEFINE x == [op |-> op, run |-> r, pc |-> "start", late |-> b]
<1>1. x \in TaskState /\ x.op = op /\ x.run = r /\ x.pc = "start" /\ x.late = b
  BY DEF TaskState
<1> HIDE DEF x, TaskState
<1> QED
  BY <1>1 DEF x

\* The app calls, is answered, or gives up.
Calling(r, k, op, keep, g) ==
  app' = [app EXCEPT ![r].pc = op, ![r].waits = k, ![r].keep_tabs = keep, ![r].overlap = g]
Getting(r, pc, c) ==
  app' = [app EXCEPT ![r].waits = NoTask, ![r].pc = pc, ![r].clean = c]
Giving(r, pc) ==
  app' = [app EXCEPT ![r].waits = NoTask, ![r].pc = pc]

AppIs(r, pc, w, keep, c, g) ==
  /\ app' \in [Run -> AppRun]
  /\ app'[r].pc = pc /\ app'[r].waits = w /\ app'[r].keep_tabs = keep
  /\ app'[r].clean = c /\ app'[r].overlap = g
  /\ \A q \in Run : q # r => app'[q] = app[q]

LEMMA AppCalls ==
  ASSUME app \in [Run -> AppRun], NEW r \in Run, NEW k \in Task,
         NEW op \in {"begin", "tool", "end"}, NEW keep \in BOOLEAN, NEW g \in BOOLEAN,
         Calling(r, k, op, keep, g)
  PROVE  AppIs(r, op, k, keep, app[r].clean, g)
<1> DEFINE x == [app[r] EXCEPT !.pc = op, !.waits = k, !.keep_tabs = keep, !.overlap = g]
<1>1. app[r] \in AppRun
  OBVIOUS
<1>2. /\ x \in AppRun
      /\ x.pc = op /\ x.waits = k /\ x.keep_tabs = keep
      /\ x.clean = app[r].clean /\ x.overlap = g
  BY <1>1 DEF AppRun
<1>3. app' = [app EXCEPT ![r] = x]
  BY DEF Calling
<1> HIDE DEF x, AppRun
<1> QED
  BY <1>2, <1>3 DEF AppIs

LEMMA AppGets ==
  ASSUME app \in [Run -> AppRun], NEW r \in Run, NEW pc \in AppPlaces,
         NEW c \in BOOLEAN, Getting(r, pc, c)
  PROVE  AppIs(r, pc, NoTask, app[r].keep_tabs, c, app[r].overlap)
<1> DEFINE x == [app[r] EXCEPT !.waits = NoTask, !.pc = pc, !.clean = c]
<1>1. app[r] \in AppRun
  OBVIOUS
<1>2. /\ x \in AppRun
      /\ x.pc = pc /\ x.waits = NoTask /\ x.keep_tabs = app[r].keep_tabs
      /\ x.clean = c /\ x.overlap = app[r].overlap
  BY <1>1 DEF AppRun, AppPlaces
<1>3. app' = [app EXCEPT ![r] = x]
  BY DEF Getting
<1> HIDE DEF x, AppRun
<1> QED
  BY <1>2, <1>3 DEF AppIs

LEMMA AppGives ==
  ASSUME app \in [Run -> AppRun], NEW r \in Run, NEW pc \in AppPlaces, Giving(r, pc)
  PROVE  AppIs(r, pc, NoTask, app[r].keep_tabs, app[r].clean, app[r].overlap)
<1> DEFINE x == [app[r] EXCEPT !.waits = NoTask, !.pc = pc]
<1>1. app[r] \in AppRun
  OBVIOUS
<1>2. /\ x \in AppRun
      /\ x.pc = pc /\ x.waits = NoTask /\ x.keep_tabs = app[r].keep_tabs
      /\ x.clean = app[r].clean /\ x.overlap = app[r].overlap
  BY <1>1 DEF AppRun, AppPlaces
<1>3. app' = [app EXCEPT ![r] = x]
  BY DEF Giving
<1> HIDE DEF x, AppRun
<1> QED
  BY <1>2, <1>3 DEF AppIs

\* What changes of a session: nothing, the record, or both fields.
SessIs(r, a, b) ==
  /\ sess' \in [Run -> RunSession]
  /\ sess'[r].attached = a /\ sess'[r].aborted = b
  /\ \A q \in Run : q # r => sess'[q] = sess[q]

LEMMA SessChanges ==
  ASSUME sess \in [Run -> RunSession], NEW r \in Run
  PROVE  /\ \A a \in BOOLEAN : sess' = [sess EXCEPT ![r].attached = a]
              => SessIs(r, a, sess[r].aborted)
         /\ \A a, b \in BOOLEAN : sess' = [sess EXCEPT ![r] = [attached |-> a, aborted |-> b]]
              => SessIs(r, a, b)
         /\ sess' = sess => SessIs(r, sess[r].attached, sess[r].aborted)
<1>1. sess[r] \in RunSession
  OBVIOUS
<1>2. ASSUME NEW a \in BOOLEAN, sess' = [sess EXCEPT ![r].attached = a]
      PROVE  SessIs(r, a, sess[r].aborted)
  <2> DEFINE x == [sess[r] EXCEPT !.attached = a]
  <2>1. x \in RunSession /\ x.attached = a /\ x.aborted = sess[r].aborted
    BY <1>1 DEF RunSession
  <2>2. sess' = [sess EXCEPT ![r] = x]
    BY <1>2
  <2> HIDE DEF x, RunSession
  <2> QED
    BY <2>1, <2>2 DEF SessIs
<1>3. ASSUME NEW a \in BOOLEAN, NEW b \in BOOLEAN,
             sess' = [sess EXCEPT ![r] = [attached |-> a, aborted |-> b]]
      PROVE  SessIs(r, a, b)
  <2> DEFINE x == [attached |-> a, aborted |-> b]
  <2>1. x \in RunSession /\ x.attached = a /\ x.aborted = b
    BY DEF RunSession
  <2> HIDE DEF x, RunSession
  <2> QED
    BY <1>3, <2>1 DEF SessIs, x
<1>4. sess' = sess => SessIs(r, sess[r].attached, sess[r].aborted)
  BY DEF SessIs
<1> QED
  BY <1>2, <1>3, <1>4

----------------------------------------------------------------------------
(***************************************************************************)
(* What concerns one run is not touched by the steps of another.           *)
(***************************************************************************)
Untouched(q) ==
  /\ app'[q] = app[q] /\ sess'[q] = sess[q] /\ tab'[q] = tab[q]
  /\ (q \in live') = (q \in live) /\ (q \in dbg') = (q \in dbg)
  /\ (q \in stopped') = (q \in stopped) /\ (q \in reported') = (q \in reported)
  /\ (q \in lost') = (q \in lost)
  /\ \A k \in Task : task'[k] = task[k] \/ (task[k].run # q /\ task'[k].run # q)

LEMMA Frame ==
  ASSUME TypeOK, NEW q \in Run, RunInv(q), Untouched(q)
  PROVE  RunInv(q)'
<1>1. app[q].waits \in Task \cup {NoTask}
  BY DEF TypeOK, AppRun
<1>2. CallsInv(q)'
  BY <1>1 DEF RunInv, CallsInv, Untouched, Of
<1>3. SessionInv(q)'
  BY DEF RunInv, SessionInv, Untouched, Of
<1>4. StoppedInv(q)'
  BY DEF RunInv, StoppedInv, Untouched, Of
<1>5. EndInv(q)'
  BY DEF RunInv, EndInv, Whole, Untouched, Of, Destroyed, Open, Finished
<1>6. LostInv(q)'
  BY DEF RunInv, LostInv, Untouched, Of, Finished
<1> QED
  BY <1>2, <1>3, <1>4, <1>5, <1>6 DEF RunInv

----------------------------------------------------------------------------
(***************************************************************************)
(* Preservation: the handlers.                                             *)
(***************************************************************************)

\* Of the other runs nothing has changed.
Beside(r) ==
  \A q \in Run : q # r =>
    /\ sess'[q] = sess[q] /\ tab'[q] = tab[q]
    /\ (q \in live') = (q \in live) /\ (q \in dbg') = (q \in dbg)
    /\ (q \in reported') = (q \in reported)

\* A step of task k to pc, by the code that handles op for run r.
Step(k, r, op, pc) ==
  /\ r \in Run /\ Of(k, r, op) /\ op \in {"begin", "tool", "end"} /\ pc \in PlacesOf(op)
  /\ ~Finished(k)
  /\ TaskAt(k, pc)
  /\ UNCHANGED <<app, stopped, lost>>

LEMMA StepFrame ==
  ASSUME IInv, NEW k \in Task, NEW r, NEW op, NEW pc, Step(k, r, op, pc), Beside(r), TypeOK',
         SessionInv(r)', StoppedInv(r)', EndInv(r)',
         op # "begin" /\ r \in live' => r \in live,
         op = "end" /\ task[k].pc = "start" /\ r \notin live => pc = "ok"
  PROVE  IInv'
<1>t. TypeOK /\ RunInv(r)
  BY DEF IInv, Step
<1>1. \A j \in Task : HandlerInv(j)'
  <2> SUFFICES ASSUME NEW j \in Task
               PROVE  HandlerInv(j)'
    OBVIOUS
  <2>1. CASE j # k
    BY <2>1 DEF IInv, HandlerInv, Step, TaskAt
  <2>2. CASE j = k
    BY <2>2 DEF HandlerInv, Step, TaskAt, Of
  <2> QED
    BY <2>1, <2>2
<1>2. CallsInv(r)'
  <2>1. app[r].waits \in Task \cup {NoTask}
    BY <1>t DEF TypeOK, AppRun, Step
  <2>2. \A j \in Task : task'[j].run = task[j].run /\ task'[j].op = task[j].op
    BY DEF Step, TaskAt
  <2> QED
    BY <1>t, <2>1, <2>2 DEF RunInv, CallsInv, Step, Of
<1>3. LostInv(r)'
  <2>1. CASE app[r].pc = "over" /\ \A j \in Task : ~Of(j, r, "end")
    BY <2>1 DEF LostInv, Step, TaskAt, Of
  <2>2. CASE /\ r \notin live
             /\ \A j \in Task : /\ Of(j, r, "begin") => Finished(j)
                                /\ Of(j, r, "end") => Finished(j) \/ task[j].pc = "start"
    <3>1. op # "begin" /\ (op = "end" => pc = "ok") /\ r \notin live'
      <4>1. Of(k, r, op) /\ ~Finished(k) /\ op \in {"begin", "tool", "end"}
        BY DEF Step
      <4>2. op # "begin"
        BY <2>2, <4>1 DEF Of, Finished
      <4>3. op = "end" => pc = "ok"
        BY <2>2, <4>1 DEF Of, Finished
      <4> QED
        BY <2>2, <4>2, <4>3
    <3> QED
      BY <1>t, <2>2, <3>1 DEF RunInv, LostInv, Step, TaskAt, Of, Finished
  <2> QED
    BY <1>t, <2>1, <2>2 DEF RunInv, LostInv, Step
<1>4. \A q \in Run : q # r => Untouched(q)
  BY DEF Untouched, Beside, Step, TaskAt, Of
<1>5. \A q \in Run : q # r => RunInv(q)'
  BY <1>t, <1>4, Frame DEF IInv
<1> QED
  BY <1>1, <1>2, <1>3, <1>5 DEF IInv, RunInv

\* Steps that change nothing but the task's place.  A tool that gets on was not
\* late; a session_begin that succeeds has a session and an open tab.
LEMMA QuietStep ==
  ASSUME IInv, NEW k \in Task, NEW r, NEW op, NEW pc, Step(k, r, op, pc),
         UNCHANGED <<live, sess, tab, dbg, reported, lost>>,
         pc # "start" /\ pc # "grouping",
         op # "end",
         op = "tool" /\ pc # "error" => ~task[k].late,
         op = "begin" /\ pc # "error" =>
           /\ task[k].pc \in {"loading", "attach", "hook"}
           /\ pc \in {"attach", "hook"} /\ task[k].pc = "loading" => tab[r] # "closed"
           /\ task[k].pc = "loading" => pc \in {"attach", "hook"}
  PROVE  IInv'
<1>t. TypeOK /\ RunInv(r)
  BY DEF IInv, Step
<1>1. TypeOK'
  BY <1>t DEF TypeOK, Step, TaskAt
<1>2. Beside(r)
  BY DEF Beside
<1>3. SessionInv(r)'
  BY <1>t DEF RunInv, SessionInv, Step, TaskAt, Of
<1>4. StoppedInv(r)'
  BY <1>t DEF RunInv, StoppedInv, Step, TaskAt, Of
<1>5. EndInv(r)'
  BY <1>t DEF RunInv, EndInv, Whole, Step, TaskAt, Of, Destroyed, Open
<1> QED
  BY <1>1, <1>2, <1>3, <1>4, <1>5, StepFrame

\* The step that an action takes.
LEMMA StepIntro ==
  ASSUME IInv, NEW k \in Task, NEW op \in {"begin", "tool", "end"}, task[k].op = op,
         task[k].pc \notin {"ok", "error"},
         NEW pc \in PlacesOf(op), Goto(k, pc), UNCHANGED <<app, stopped, lost>>
  PROVE  \E r \in Run : task[k].run = r /\ RunInv(r) /\ Step(k, r, op, pc)
<1>1. TypeOK /\ HandlerInv(k)
  BY DEF IInv
<1>2. TaskAt(k, pc)
  BY <1>1, TaskGoes DEF TypeOK
<1>3. PICK r \in Run : task[k].run = r
  BY <1>1 DEF HandlerInv
<1>4. RunInv(r) /\ Step(k, r, op, pc)
  BY <1>2, <1>3 DEF IInv, Step, Of, Finished
<1> QED
  BY <1>3, <1>4

\* No other handler works on a whole run that sessionEnd works on.
LEMMA OnlyTask ==
  ASSUME NEW r \in Run, RunInv(r), NEW k \in Task, NEW op \in {"begin", "tool", "end"},
         Of(k, r, op), ~Finished(k), Whole(r)
  PROVE  /\ ~app[r].clean
         /\ op # "end" => /\ app[r].pc \notin {"end", "over"}
                          /\ \A j \in Task : ~Of(j, r, "end")
         /\ op = "end" => /\ app[r].pc \in {"end", "over"}
                          /\ \A j \in Task : task[j].run = r /\ j # k =>
                               task[j].op # "end" /\ Finished(j)
BY DEF RunInv, CallsInv, EndInv, Whole, Of

LEMMA CreateTabStep ==
  ASSUME IInv, NEW k \in Task, CreateTab(k)
  PROVE  IInv'
<1>t. TypeOK
  BY DEF IInv
<1>1. /\ UNCHANGED <<app, live, sess, dbg, stopped, reported, lost>>
      /\ task[k].op = "begin" /\ task[k].pc = "start"
  BY DEF CreateTab, At
<1>2. CASE Goto(k, "error") /\ UNCHANGED tab
  <2>1. PICK r \in Run : Step(k, r, "begin", "error")
    BY <1>1, <1>2, StepIntro DEF PlacesOf
  <2> QED
    BY <1>1, <1>2, <2>1, QuietStep
<1>3. CASE /\ \E u \in {"origin", "foreign"} : tab' = [tab EXCEPT ![task[k].run] = u]
           /\ Goto(k, "grouping")
  <2>1. PICK r \in Run : task[k].run = r /\ RunInv(r) /\ Step(k, r, "begin", "grouping")
    BY <1>1, <1>3, StepIntro DEF PlacesOf
  <2>2. /\ tab' \in [Run -> TabState] /\ tab'[r] \in {"origin", "foreign"}
        /\ \A q \in Run : q # r => tab'[q] = tab[q]
    BY <1>t, <1>3, <2>1 DEF TypeOK, TabState
  <2>3. TypeOK'
    BY <1>t, <1>1, <2>1, <2>2 DEF TypeOK, Step, TaskAt
  <2>4. Beside(r)
    BY <1>1, <2>2 DEF Beside
  <2>5. SessionInv(r)'
    BY <1>1, <2>1 DEF RunInv, SessionInv, CallsInv, Step, TaskAt, Of
  <2>6. StoppedInv(r)'
    BY <1>1, <2>1 DEF RunInv, StoppedInv, SessionInv, Step, TaskAt, Of
  <2>7. EndInv(r)'
    <3>1. Whole(r) => /\ ~app[r].clean /\ app[r].pc \notin {"end", "over"}
                      /\ \A j \in Task : ~Of(j, r, "end")
      BY <2>1, OnlyTask DEF Step
    <3> QED
      BY <1>1, <2>1, <3>1 DEF RunInv, EndInv, Whole, Step, TaskAt, Of
  <2> QED
    BY <2>1, <2>3, <2>4, <2>5, <2>6, <2>7, StepFrame
<1> QED
  BY <1>2, <1>3 DEF CreateTab

\* sessions.set: a run the user has stopped by now has lost its tab.
LEMMA RegisterStep ==
  ASSUME IInv, NEW k \in Task, Register(k)
  PROVE  IInv'
<1>t. TypeOK
  BY DEF IInv
<1>1. UNCHANGED <<app, tab, dbg, stopped, reported, lost>> /\ task[k].op = "begin" /\ task[k].pc = "grouping"
  BY DEF Register, At
<1>2. PICK r \in Run : task[k].run = r /\ RunInv(r) /\ Step(k, r, "begin", "loading")
  BY <1>1, StepIntro DEF Register, PlacesOf
<1>3. live' = live \cup {r} /\ SessIs(r, FALSE, FALSE)
  BY <1>t, <1>2, SessChanges DEF Register, TypeOK
<1>4. TypeOK'
  BY <1>t, <1>1, <1>2, <1>3 DEF TypeOK, Step, TaskAt, SessIs
<1>5. Beside(r)
  BY <1>1, <1>3 DEF Beside, SessIs
<1>6. SessionInv(r)'
  BY <1>1, <1>2, <1>3 DEF RunInv, SessionInv, CallsInv, Step, TaskAt, Of, SessIs
<1>7. StoppedInv(r)'
  BY <1>1, <1>2, <1>3 DEF RunInv, StoppedInv, SessionInv, CallsInv, Step, TaskAt, Of, SessIs
<1>8. EndInv(r)'
  <2>1. Whole(r) => /\ ~app[r].clean /\ app[r].pc \notin {"end", "over"}
                    /\ \A j \in Task : ~Of(j, r, "end")
    BY <1>2, OnlyTask DEF Step
  <2> QED
    BY <1>1, <1>2, <1>3, <2>1 DEF RunInv, EndInv, Whole, Step, TaskAt, Of
<1> QED
  BY <1>2, <1>4, <1>5, <1>6, <1>7, <1>8, StepFrame

\* The checks, the commands to the tab and the tools that change only the page.
LEMMA CheckSteps ==
  ASSUME IInv, NEW k \in Task,
         ToolStart(k) \/ CheckOrigin(k) \/ Prepare(k) \/ LocalTool(k) \/ ToolFails(k)
         \/ ToolEnds(k)
  PROVE  IInv'
<1>t. TypeOK /\ HandlerInv(k)
  BY DEF IInv
<1>0. UNCHANGED <<app, live, sess, tab, dbg, stopped, reported, lost>>
  BY DEF ToolStart, CheckOrigin, Prepare, LocalTool, ToolFails, ToolEnds
<1>1. CASE ToolStart(k)
  <2>1. PICK pc \in {"state", "error"} :
          /\ Goto(k, pc)
          /\ pc = "state" => task[k].run \in live /\ ~sess[task[k].run].aborted
    BY <1>1 DEF ToolStart
  <2>2. PICK r \in Run : task[k].run = r /\ RunInv(r) /\ Step(k, r, "tool", pc)
    BY <1>0, <1>1, <2>1, StepIntro DEF ToolStart, At, PlacesOf
  <2>3. pc # "error" => ~task[k].late
    BY <2>1, <2>2 DEF RunInv, StoppedInv, Step
  <2> QED
    BY <1>0, <2>2, <2>3, QuietStep
<1>2. CASE CheckOrigin(k)
  <2>1. CASE task[k].op = "begin"
    <3>0. \/ Goto(k, "error")
          \/ tab[task[k].run] = "origin" /\ (Goto(k, "attach") \/ Goto(k, "hook"))
      BY <1>2, <2>1 DEF CheckOrigin, At
    <3>1. PICK pc \in {"error", "attach", "hook"} :
            Goto(k, pc) /\ (pc # "error" => tab[task[k].run] = "origin")
      BY <3>0
    <3>2. PICK r \in Run : task[k].run = r /\ RunInv(r) /\ Step(k, r, "begin", pc)
      BY <1>0, <1>2, <2>1, <3>1, StepIntro DEF PlacesOf, CheckOrigin, At
    <3> QED
      BY <1>0, <1>2, <2>1, <3>1, <3>2, QuietStep DEF CheckOrigin, At
  <2>2. CASE task[k].op = "tool"
    <3>1. PICK pc \in {"error", "attach", "act"} : Goto(k, pc)
      BY <1>2, <2>2 DEF CheckOrigin, At
    <3>2. PICK r \in Run : task[k].run = r /\ RunInv(r) /\ Step(k, r, "tool", pc)
      BY <1>0, <1>2, <2>2, <3>1, StepIntro DEF PlacesOf, CheckOrigin, At
    <3>3. ~task[k].late
      BY <1>2, <2>2, <3>2 DEF CheckOrigin, At, RunInv, StoppedInv, Step
    <3> QED
      BY <1>0, <3>2, <3>3, QuietStep
  <2> QED
    BY <1>2, <2>1, <2>2 DEF CheckOrigin, At
<1>3. CASE Prepare(k)
  <2>1. PICK pc \in {"ok", "error"} : Goto(k, pc)
    BY <1>3 DEF Prepare
  <2>2. PICK r \in Run : task[k].run = r /\ RunInv(r) /\ Step(k, r, "begin", pc)
    BY <1>0, <1>3, <2>1, StepIntro DEF Prepare, At, PlacesOf
  <2> QED
    BY <1>0, <1>3, <2>2, QuietStep DEF Prepare, At
<1>4. CASE LocalTool(k) \/ ToolFails(k) \/ ToolEnds(k)
  <2>1. PICK pc \in {"after", "ok", "error"} : Goto(k, pc)
    BY <1>4 DEF LocalTool, ToolFails, ToolEnds
  <2>2. task[k].op = "tool" /\ task[k].pc \in {"act", "after"}
    BY <1>4 DEF LocalTool, ToolFails, ToolEnds, At
  <2>3. PICK r \in Run : task[k].run = r /\ RunInv(r) /\ Step(k, r, "tool", pc)
    BY <1>0, <2>1, <2>2, StepIntro DEF PlacesOf
  <2>4. ~task[k].late
    BY <2>2, <2>3 DEF RunInv, StoppedInv, Step
  <2> QED
    BY <1>0, <2>3, <2>4, QuietStep
<1> QED
  BY <1>1, <1>2, <1>3, <1>4

\* chrome.debugger.attach, and the record of it.
LEMMA AttachStep ==
  ASSUME IInv, NEW k \in Task, attach(k)
  PROVE  IInv'
<1>t. TypeOK /\ HandlerInv(k)
  BY DEF IInv
<1>0. /\ UNCHANGED <<app, live, tab, stopped, reported, lost>>
      /\ task[k].pc = "attach" /\ task[k].op \in {"begin", "tool"}
  BY <1>t DEF attach, HandlerInv, PlacesOf, TypeOK, TaskState
<1>1. CASE Goto(k, "error") /\ UNCHANGED <<dbg, sess>>
  <2>1. PICK op \in {"begin", "tool"}, r \in Run : Step(k, r, op, "error")
    BY <1>0, <1>1, StepIntro DEF PlacesOf
  <2> QED
    BY <1>0, <1>1, <2>1, QuietStep
<1>2. CASE /\ task[k].run \notin dbg /\ dbg' = dbg \cup {task[k].run}
           /\ sess' = [sess EXCEPT ![task[k].run].attached = TRUE]
           /\ Goto(k, IF task[k].op = "begin" THEN "hook" ELSE "act")
  <2>1. PICK op \in {"begin", "tool"}, pc \in {"hook", "act"} :
          task[k].op = op /\ pc \in PlacesOf(op) /\ Goto(k, pc)
    BY <1>0, <1>2 DEF PlacesOf
  <2>2. PICK r \in Run : task[k].run = r /\ RunInv(r) /\ Step(k, r, op, pc)
    BY <1>0, <2>1, StepIntro
  <2>3. SessIs(r, TRUE, sess[r].aborted) /\ dbg' = dbg \cup {r}
    BY <1>t, <1>2, <2>2, SessChanges DEF TypeOK
  <2>4. TypeOK'
    BY <1>t, <1>0, <2>2, <2>3 DEF TypeOK, Step, TaskAt, SessIs
  <2>5. Beside(r)
    BY <1>0, <2>3 DEF Beside, SessIs
  <2>6. SessionInv(r)'
    <3>1. app[r].pc # "queued"
      BY <2>2 DEF RunInv, CallsInv, Step, Of
    <3>2. \A j \in Task : Of(j, r, "begin") => j = k
      BY <2>1, <2>2 DEF RunInv, CallsInv, Step, Of
    <3> QED
      BY <1>0, <2>1, <2>2, <2>3, <3>1, <3>2 DEF RunInv, SessionInv, Step, TaskAt, Of, SessIs
  <2>7. StoppedInv(r)'
    <3>1. op = "tool" => ~task[k].late
      BY <1>0, <2>2 DEF RunInv, StoppedInv, Step, Of
    <3> QED
      BY <1>0, <2>1, <2>2, <2>3, <3>1 DEF RunInv, StoppedInv, Step, TaskAt, Of, SessIs
  <2>8. EndInv(r)'
    <3>1. Whole(r) => /\ ~app[r].clean /\ app[r].pc \notin {"end", "over"}
                      /\ \A j \in Task : ~Of(j, r, "end")
      BY <2>2, OnlyTask DEF Step
    <3>2. Whole(r) => r \in live
      <4>1. CASE op = "begin"
        BY <1>0, <2>2, <4>1 DEF RunInv, EndInv, Whole, Step
      <4>2. CASE op = "tool"
        <5>1. app[r].pc \in AppPlaces
          BY <1>t DEF TypeOK, AppRun, AppPlaces
        <5>2. app[r].pc \notin {"queued", "begin", "stop"}
          BY <2>2, <4>2 DEF RunInv, CallsInv, Step, Of
        <5>3. Whole(r) => app[r].pc \in {"drive", "tool"}
          BY <3>1, <5>1, <5>2 DEF AppPlaces
        <5> QED
          BY <2>2, <5>3 DEF RunInv, EndInv, Whole
      <4> QED
        BY <2>1, <4>1, <4>2
    <3> QED
      BY <1>0, <2>1, <2>2, <2>3, <3>1, <3>2 DEF RunInv, EndInv, Whole, Step, TaskAt, Of
  <2> QED
    BY <1>0, <2>1, <2>2, <2>4, <2>5, <2>6, <2>7, <2>8, StepFrame
<1> QED
  BY <1>1, <1>2 DEF attach

\* A tool that leaves the page where it is or moves it, in an open tab.
LEMMA PageStep ==
  ASSUME IInv, NEW k \in Task, task[k].op = "tool", task[k].pc = "act",
         NEW pc \in {"after", "error"}, Goto(k, pc),
         NEW u \in {"origin", "foreign"}, tab' = [tab EXCEPT ![task[k].run] = u],
         UNCHANGED <<app, live, sess, dbg, stopped, reported, lost>>
  PROVE  IInv'
<1>t. TypeOK
  BY DEF IInv
<1>1. PICK r \in Run : task[k].run = r /\ RunInv(r) /\ Step(k, r, "tool", pc)
  BY StepIntro DEF PlacesOf
<1>2. /\ tab' \in [Run -> TabState] /\ tab'[r] = u
      /\ \A q \in Run : q # r => tab'[q] = tab[q]
  BY <1>t, <1>1 DEF TypeOK, TabState
<1>3. TypeOK'
  BY <1>t, <1>1, <1>2 DEF TypeOK, Step, TaskAt
<1>4. Beside(r)
  BY <1>2 DEF Beside
<1>5. SessionInv(r)'
  BY <1>1 DEF RunInv, SessionInv, CallsInv, Step, TaskAt, Of
<1>6. StoppedInv(r)'
  BY <1>1 DEF RunInv, StoppedInv, Step, TaskAt, Of
<1>7. EndInv(r)'
  <2>1. Whole(r) => /\ ~app[r].clean /\ app[r].pc \notin {"end", "over"}
                    /\ \A j \in Task : ~Of(j, r, "end")
    BY <1>1, OnlyTask DEF Step
  <2> QED
    BY <1>1, <2>1 DEF RunInv, EndInv, Whole, Step, TaskAt, Of
<1> QED
  BY <1>1, <1>3, <1>4, <1>5, <1>6, <1>7, StepFrame

LEMMA DispatchStep ==
  ASSUME IInv, NEW k \in Task, dispatch(k)
  PROVE  IInv'
<1>1. ASSUME NEW moves, cdp(k, moves) PROVE IInv'
  <2>1. UNCHANGED <<app, live, sess, dbg, stopped, reported, lost>>
        /\ task[k].op = "tool" /\ task[k].pc = "act"
    BY <1>1 DEF cdp, At
  <2>2. CASE Goto(k, "error") /\ UNCHANGED tab
    <3>1. PICK r \in Run : Step(k, r, "tool", "error")
      BY <2>1, <2>2, StepIntro DEF PlacesOf
    <3> QED
      BY <2>1, <2>2, <3>1, QuietStep
  <2>3. CASE Goto(k, "after") /\ \E u \in {"origin", "foreign"} :
                                   tab' = [tab EXCEPT ![task[k].run] = u]
    BY <2>1, <2>3, PageStep
  <2> QED
    BY <1>1, <2>2, <2>3 DEF cdp
<1>2. CASE navigate(k)
  BY <1>2, PageStep DEF navigate, At
<1>3. CASE LocalTool(k) \/ ToolFails(k)
  BY <1>3, CheckSteps
<1> QED
  BY <1>1, <1>2, <1>3 DEF dispatch, ReadsPage, ActsOnPage, captureSecret

\* sessionEnd between two awaits.  What must hold at its next place, unless calls
\* overlap, is what EndInv says of it.
LEMMA EndStep ==
  ASSUME IInv, NEW k \in Task, NEW r \in Run, NEW pc, RunInv(r), Step(k, r, "end", pc),
         pc # "start", task[k].pc = "start" /\ r \notin live => pc = "ok",
         live' \in {live, live \ {r}}, dbg' \in {dbg, dbg \ {r}},
         NEW a \in BOOLEAN, NEW b \in BOOLEAN, SessIs(r, a, b),
         r \in live' => (a <=> r \in dbg'),
         sess[r].aborted => b,
         tab' \in [Run -> TabState], \A q \in Run : q # r => tab'[q] = tab[q],
         tab'[r] \in {tab[r], "closed"}, tab[r] = "none" => tab'[r] = "none",
         reported' \in {reported, reported \cup {r}},
         r \in reported' => r \in reported \/ app[r].overlap,
         Whole(r) =>
           /\ r \in dbg' => r \in live'
           /\ pc # "ok" => r \in live'
           /\ pc \in {"close", "delete"} => r \notin dbg'
           /\ pc = "delete" => tab'[r] \notin {"origin", "foreign"}
           /\ pc = "ok" => /\ r \notin live' /\ r \notin dbg'
                           /\ app[r].keep_tabs \/ tab'[r] \notin {"origin", "foreign"}
  PROVE  IInv'
<1>t. TypeOK
  BY DEF IInv
<1>1. TypeOK'
  BY <1>t DEF TypeOK, Step, TaskAt, SessIs
<1>2. Beside(r)
  BY DEF Beside, SessIs
<1>3. SessionInv(r)'
  <2>1. app[r].pc # "queued"
    BY DEF RunInv, CallsInv, Step, Of
  <2> QED
    BY <2>1 DEF RunInv, SessionInv, Step, TaskAt, Of, SessIs
<1>4. StoppedInv(r)'
  BY DEF RunInv, StoppedInv, Step, TaskAt, Of, SessIs
<1>5. EndInv(r)'
  <2>1. Whole(r) => /\ ~app[r].clean /\ app[r].pc \in {"end", "over"}
                    /\ \A j \in Task : task[j].run = r /\ j # k =>
                         task[j].op # "end" /\ Finished(j)
    BY OnlyTask DEF Step
  <2> QED
    BY <2>1 DEF RunInv, EndInv, Whole, Step, TaskAt, Of, Destroyed, Open, Finished
<1> QED
  BY <1>1, <1>2, <1>3, <1>4, <1>5, StepFrame

LEMMA EndGoesOnStep ==
  ASSUME IInv, NEW k \in Task, EndStart(k) \/ EndLoop(k)
  PROVE  IInv'
<1>t. TypeOK /\ HandlerInv(k)
  BY DEF IInv
<1>1. /\ UNCHANGED <<app, sess, tab, dbg, stopped, reported, lost>>
      /\ task[k].op = "end" /\ task[k].pc \in {"start", "loop"}
  BY DEF EndStart, EndLoop, At
<1>2. PICK r \in Run : task[k].run = r /\ RunInv(r)
  BY <1>t, <1>1 DEF HandlerInv, IInv
<1>3. /\ sess[r].attached \in BOOLEAN /\ sess[r].aborted \in BOOLEAN
      /\ SessIs(r, sess[r].attached, sess[r].aborted)
      /\ tab' \in [Run -> TabState]
  BY <1>t, <1>1, <1>2, SessChanges DEF TypeOK, RunSession
<1>4. r \in live => (sess[r].attached <=> r \in dbg)
  BY <1>2 DEF RunInv, SessionInv
<1>5. Whole(r) => /\ r \in dbg => r \in live
                  /\ task[k].pc = "loop" => r \in live
                  /\ task[k].pc = "start" => r \in live \/ app[r].keep_tabs
  BY <1>1, <1>2 DEF RunInv, EndInv, Whole, Of
<1>7. CASE EndGoesOn(k) /\ (task[k].pc = "start" => r \in live)
  <2>1. CASE sess[r].attached /\ Goto(k, "detach") /\ UNCHANGED live
    <3>1. Step(k, r, "end", "detach")
      BY <1>1, <1>2, <2>1, StepIntro DEF PlacesOf
    <3>2. Whole(r) => r \in live
      BY <1>1, <1>5, <1>7
    <3>3. PICK a \in BOOLEAN, b \in BOOLEAN :
            SessIs(r, a, b) /\ (r \in live => (a <=> r \in dbg)) /\ (sess[r].aborted => b)
      BY <1>3, <1>4
    <3>4. task[k].pc = "start" => r \in live
      BY <1>7
    <3> QED
      BY <1>1, <1>2, <1>3, <2>1, <3>1, <3>2, <3>3, <3>4, EndStep
  <2>2. CASE ~sess[r].attached /\ app[r].keep_tabs /\ Goto(k, "ok") /\ live' = live \ {r}
    <3>1. Step(k, r, "end", "ok")
      BY <1>1, <1>2, <2>2, StepIntro DEF PlacesOf
    <3>2. Whole(r) => r \notin dbg
      BY <1>1, <1>4, <1>5, <1>7, <2>2
    <3> QED
      BY <1>1, <1>2, <1>3, <1>4, <2>2, <3>1, <3>2, EndStep
  <2>3. CASE ~sess[r].attached /\ ~app[r].keep_tabs /\ Goto(k, "close") /\ UNCHANGED live
    <3>1. Step(k, r, "end", "close")
      BY <1>1, <1>2, <2>3, StepIntro DEF PlacesOf
    <3>2. Whole(r) => r \notin dbg
      BY <1>1, <1>4, <1>5, <1>7, <2>3
    <3> QED
      BY <1>1, <1>2, <1>3, <1>4, <1>5, <1>7, <2>3, <3>1, <3>2, EndStep
  <2> QED
    BY <1>2, <1>7, <2>1, <2>2, <2>3 DEF EndGoesOn
<1>8. CASE task[k].pc = "start" /\ r \notin live /\ Goto(k, "ok") /\ UNCHANGED live
  <2>1. Step(k, r, "end", "ok")
    BY <1>1, <1>2, <1>8, StepIntro DEF PlacesOf
  <2> QED
    BY <1>1, <1>2, <1>3, <1>4, <1>5, <1>8, <2>1, EndStep
<1> QED
  BY <1>1, <1>2, <1>7, <1>8 DEF EndStart, EndLoop, At

LEMMA EndDetachStep ==
  ASSUME IInv, NEW k \in Task, EndDetach(k)
  PROVE  IInv'
<1>t. TypeOK
  BY DEF IInv
<1>1. /\ UNCHANGED <<app, live, tab, stopped, reported, lost>>
      /\ task[k].op = "end" /\ task[k].pc = "detach"
  BY DEF EndDetach, At
<1>2. PICK r \in Run : task[k].run = r /\ RunInv(r) /\ Step(k, r, "end", "loop")
  BY <1>1, StepIntro DEF EndDetach, PlacesOf
<1>3. /\ SessIs(r, FALSE, sess[r].aborted) /\ sess[r].aborted \in BOOLEAN
      /\ dbg' = dbg \ {r} /\ tab' \in [Run -> TabState]
  BY <1>t, <1>1, <1>2, SessChanges DEF EndDetach, TypeOK, RunSession
<1>4. Whole(r) => r \in live
  BY <1>1, <1>2 DEF RunInv, EndInv, Whole, Of
<1>5. PICK a \in BOOLEAN, b \in BOOLEAN : SessIs(r, a, b) /\ ~a /\ (sess[r].aborted => b)
  BY <1>3
<1>6. dbg' \in {dbg, dbg \ {r}} /\ r \notin dbg'
  BY <1>3
<1> QED
  BY <1>1, <1>2, <1>3, <1>4, <1>5, <1>6, EndStep

\* The run's tab is closed: the debugger is gone with it, and only a call the
\* app gave up on can have attached it since the loop.
LEMMA EndCloseStep ==
  ASSUME IInv, NEW k \in Task, EndClose(k)
  PROVE  IInv'
<1>t. TypeOK
  BY DEF IInv
<1>1. /\ UNCHANGED <<app, live, stopped, lost>>
      /\ task[k].op = "end" /\ task[k].pc = "close"
  BY DEF EndClose, At
<1>2. PICK r \in Run : task[k].run = r /\ RunInv(r) /\ Step(k, r, "end", "delete")
  BY <1>1, StepIntro DEF EndClose, PlacesOf
<1>3. /\ dbg' = dbg \ {r}
      /\ tab' \in [Run -> TabState] /\ \A q \in Run : q # r => tab'[q] = tab[q]
      /\ tab'[r] \in {tab[r], "closed"} /\ tab'[r] \notin {"origin", "foreign"}
      /\ tab[r] = "none" => tab'[r] = "none"
  BY <1>t, <1>2 DEF EndClose, TabGone, TypeOK, TabState, Open
<1>4. Whole(r) => r \in live /\ r \notin dbg
  BY <1>1, <1>2 DEF RunInv, EndInv, Whole, Of
<1>5. /\ reported' \in {reported, reported \cup {r}}
      /\ r \in reported' => r \in reported \/ app[r].overlap
  <2>1. r \notin lost
    BY <1>1, <1>2 DEF RunInv, LostInv, Of, Finished
  <2> QED
    BY <1>2, <1>4, <2>1 DEF EndClose, TabGone, Whole
<1>6. PICK a \in BOOLEAN, b \in BOOLEAN :
        SessIs(r, a, b) /\ (r \in live => ~a) /\ (sess[r].aborted => b)
  <2>1. CASE r \in live
    <3>1. sess' = [sess EXCEPT ![r] = [attached |-> FALSE, aborted |-> TRUE]]
      BY <1>2, <2>1 DEF EndClose, TabGone
    <3>2. SessIs(r, FALSE, TRUE)
      BY <1>t, <1>2, <3>1, SessChanges DEF TypeOK
    <3> QED
      BY <3>2
  <2>2. CASE r \notin live
    <3>1. sess' = sess
      BY <1>t, <1>2, <2>2 DEF EndClose, TabGone, TypeOK
    <3>2. SessIs(r, sess[r].attached, sess[r].aborted)
      BY <1>t, <1>2, <3>1, SessChanges DEF TypeOK
    <3>3. sess[r].attached \in BOOLEAN /\ sess[r].aborted \in BOOLEAN
      BY <1>t, <1>2 DEF TypeOK, RunSession
    <3> QED
      BY <2>2, <3>2, <3>3
  <2> QED
    BY <2>1, <2>2
<1> QED
  BY <1>1, <1>2, <1>3, <1>4, <1>5, <1>6, EndStep

LEMMA EndDeleteStep ==
  ASSUME IInv, NEW k \in Task, EndDelete(k)
  PROVE  IInv'
<1>t. TypeOK
  BY DEF IInv
<1>1. /\ UNCHANGED <<app, sess, tab, dbg, stopped, reported, lost>>
      /\ task[k].op = "end" /\ task[k].pc = "delete"
  BY DEF EndDelete, At
<1>2. PICK r \in Run : task[k].run = r /\ RunInv(r) /\ Step(k, r, "end", "ok")
  BY <1>1, StepIntro DEF EndDelete, PlacesOf
<1>3. /\ sess[r].attached \in BOOLEAN /\ sess[r].aborted \in BOOLEAN
      /\ SessIs(r, sess[r].attached, sess[r].aborted)
      /\ tab' \in [Run -> TabState] /\ live' = live \ {r}
  BY <1>t, <1>1, <1>2, SessChanges DEF EndDelete, TypeOK, RunSession
<1>4. Whole(r) => r \notin dbg /\ tab[r] \notin {"origin", "foreign"}
  BY <1>1, <1>2 DEF RunInv, EndInv, Whole, Of, Open
<1> QED
  BY <1>1, <1>2, <1>3, <1>4, EndStep

----------------------------------------------------------------------------
(***************************************************************************)
(* Preservation: the app.                                                  *)
(***************************************************************************)

\* The app's steps and the dropping of an answer change a run's state in the
\* app and one task, and nothing of the browser.
LEMMA AppFrame ==
  ASSUME IInv, NEW r \in Run, NEW k \in Task,
         app' \in [Run -> AppRun], \A q \in Run : q # r => app'[q] = app[q],
         task' \in [Task -> TaskState], \A j \in Task : j # k => task'[j] = task[j],
         \A q \in Run : q # r => task[k].run # q /\ task'[k].run # q,
         HandlerInv(k)',
         UNCHANGED <<live, sess, tab, dbg, stopped, reported, lost>>,
         RunInv(r)'
  PROVE  IInv'
<1>t. TypeOK
  BY DEF IInv
<1>1. TypeOK'
  BY <1>t DEF TypeOK
<1>2. \A j \in Task : HandlerInv(j)'
  BY DEF IInv, HandlerInv
<1>3. \A q \in Run : q # r => Untouched(q)
  BY DEF Untouched
<1>4. \A q \in Run : q # r => RunInv(q)'
  BY <1>t, <1>3, Frame DEF IInv
<1> QED
  BY <1>1, <1>2, <1>4 DEF IInv

\* When the app makes which call.
MayCall(r, op, keep) ==
  \/ op = "begin" /\ app[r].pc = "queued"
  \/ op = "tool" /\ app[r].pc = "drive"
  \/ op = "end" /\ MayEnd(r, keep)

LEMMA CallStep ==
  ASSUME IInv, NEW r \in Run, NEW k \in Task, NEW op \in {"begin", "tool", "end"},
         NEW keep \in BOOLEAN, Call(r, k, op, keep), MayCall(r, op, keep)
  PROVE  IInv'
<1>t. TypeOK /\ RunInv(r) /\ MayCall(r, op, keep)
  BY DEF IInv
<1>0. /\ UNCHANGED <<live, sess, tab, dbg, stopped, reported, lost>>
      /\ task[k].run = NoRun /\ task[k].op = "none"
  BY DEF Call, Idle
<1>1. PICK b \in BOOLEAN :
        /\ b = (r \in stopped)
        /\ task' = [task EXCEPT ![k] = [op |-> op, run |-> r, pc |-> "start", late |-> b]]
  <2>1. (r \in stopped) \in BOOLEAN
    OBVIOUS
  <2>2. task' = [task EXCEPT ![k] = [op |-> op, run |-> r, pc |-> "start",
                                    late |-> r \in stopped]]
    BY DEF Call
  <2> QED
    BY <2>1, <2>2, Zenon
<1>2. /\ task' \in [Task -> TaskState]
      /\ task'[k].op = op /\ task'[k].run = r /\ task'[k].pc = "start" /\ task'[k].late = b
      /\ \A j \in Task : j # k => task'[j] = task[j]
  BY <1>t, <1>1, TaskBegins DEF TypeOK
<1>3. PICK g \in BOOLEAN :
        /\ g <=> op = "end" /\ \E j \in Task : task[j].run = r /\ ~Finished(j)
        /\ Calling(r, k, op, keep, g)
  <2> DEFINE g == op = "end" /\ Working(r)
  <2>1. Calling(r, k, op, keep, g)
    BY DEF Call, Calling
  <2>2. g \in BOOLEAN /\ (g <=> op = "end" /\ \E j \in Task : task[j].run = r /\ ~Finished(j))
    BY DEF Working, Finished
  <2> HIDE DEF g
  <2> QED
    BY <2>1, <2>2
<1>4. AppIs(r, op, k, keep, app[r].clean, g)
  BY <1>t, <1>3, AppCalls DEF TypeOK
<1>5. /\ app[r].waits = NoTask /\ ~app[r].clean /\ ~app[r].overlap /\ k # NoTask
      /\ \A j \in Task : ~Of(j, r, "end")
  BY <1>t, ExecutorAssumption DEF RunInv, CallsInv, MayCall, MayEnd
<1>6. HandlerInv(k)'
  BY <1>2 DEF HandlerInv, PlacesOf
<1>7. CallsInv(r)'
  BY <1>t, <1>2, <1>3, <1>4, <1>5 DEF RunInv, CallsInv, AppIs, MayCall, MayEnd, Of
<1>8. SessionInv(r)'
  BY <1>t, <1>0, <1>2, <1>4 DEF RunInv, SessionInv, AppIs, MayCall, MayEnd, Of
<1>9. StoppedInv(r)'
  BY <1>t, <1>0, <1>1, <1>2, <1>4, <1>5 DEF RunInv, StoppedInv, SessionInv, AppIs, MayCall, MayEnd, Of
<1>10. EndInv(r)'
  <2>1. r \notin lost =>
          /\ r \in dbg => r \in live
          /\ app[r].pc = "drive" => r \in live
          /\ \A j \in Task : Of(j, r, "begin") /\ task[j].pc \in {"loading", "attach", "hook"}
               => r \in live
    BY <1>t, <1>5 DEF RunInv, EndInv, Whole
  <2>2. op # "end" => \A j \in Task : ~Of(j, r, "begin")
    BY <1>t DEF RunInv, CallsInv, MayCall, MayEnd, Of
  <2> QED
    BY <1>t, <1>0, <1>2, <1>3, <1>4, <1>5, <2>1, <2>2 DEF EndInv, Whole, AppIs, MayCall, MayEnd, Of, Finished
<1>11. LostInv(r)'
  BY <1>t, <1>0, <1>2, <1>4, <1>5 DEF RunInv, LostInv, AppIs, MayCall, MayEnd, Of, Finished
<1>12. \A q \in Run : q # r => task[k].run # q /\ task'[k].run # q
  BY <1>0, <1>2, ExecutorAssumption
<1> QED
  BY <1>0, <1>2, <1>4, <1>6, <1>7, <1>8, <1>9, <1>10, <1>11, <1>12, AppFrame DEF AppIs, RunInv

LEMMA AnsweredStep ==
  ASSUME IInv, NEW r \in Run, Answered(r)
  PROVE  IInv'
<1>t. TypeOK /\ RunInv(r)
  BY DEF IInv
<1>1. PICK k \in Task : app[r].waits = k
  BY <1>t DEF Answered, TypeOK, AppRun
<1>2. /\ UNCHANGED <<live, sess, tab, dbg, stopped, reported, lost>>
      /\ task[k].pc \in {"ok", "error"}
      /\ task' = [task EXCEPT ![k] = Idle]
  BY <1>1 DEF Answered
<1>3. Of(k, r, app[r].pc) /\ app[r].pc \in {"begin", "tool", "end"} /\ ~app[r].clean
  BY <1>t, <1>1, ExecutorAssumption DEF RunInv, CallsInv
<1>4. PICK pc \in {"over", "stop", "drive"}, c \in BOOLEAN :
        /\ Getting(r, pc, c)
        /\ app[r].pc = "end" => pc = "over" /\ (c => task[k].pc = "ok")
        /\ app[r].pc # "end" => ~c
        /\ app[r].pc = "begin" => pc = IF task[k].pc = "error" THEN "stop" ELSE "drive"
        /\ app[r].pc = "tool" => pc = "drive"
  <2> DEFINE pc == CASE app[r].pc = "end" -> "over"
                     [] app[r].pc = "begin" /\ task[k].pc = "error" -> "stop"
                     [] OTHER -> "drive"
             c == app[r].pc = "end" /\ task[k].pc = "ok"
  <2>1. Getting(r, pc, c)
    BY <1>1, <1>t DEF Answered, Getting, TypeOK, AppRun
  <2>2. /\ pc \in {"over", "stop", "drive"} /\ c \in BOOLEAN
        /\ app[r].pc = "end" => pc = "over" /\ (c => task[k].pc = "ok")
        /\ app[r].pc # "end" => ~c
        /\ app[r].pc = "begin" => pc = IF task[k].pc = "error" THEN "stop" ELSE "drive"
        /\ app[r].pc = "tool" => pc = "drive"
    BY <1>2, <1>3
  <2> HIDE DEF pc, c
  <2> QED
    BY <2>1, <2>2
<1>5. AppIs(r, pc, NoTask, app[r].keep_tabs, c, app[r].overlap)
  BY <1>t, <1>4, AppGets DEF TypeOK, AppPlaces
<1>6. /\ task' \in [Task -> TaskState] /\ task'[k] = Idle
      /\ \A j \in Task : j # k => task'[j] = task[j]
  BY <1>t, <1>2, TaskEnds DEF TypeOK
<1>7. task'[k].run = NoRun /\ task'[k].op = "none" /\ NoRun # r
  BY <1>6, ExecutorAssumption DEF Idle
<1>8. HandlerInv(k)'
  BY <1>6 DEF HandlerInv, PlacesOf, Idle
<1>9. CallsInv(r)'
  BY <1>t, <1>1, <1>3, <1>4, <1>5, <1>6, <1>7 DEF RunInv, CallsInv, AppIs, Of
<1>10. SessionInv(r)'
  BY <1>t, <1>2, <1>4, <1>5, <1>6, <1>7 DEF RunInv, SessionInv, AppIs, Of
<1>11. StoppedInv(r)'
  BY <1>t, <1>2, <1>3, <1>4, <1>5, <1>6, <1>7 DEF RunInv, StoppedInv, AppIs, Of
<1>12. EndInv(r)'
  <2>1. \A j \in Task : j # k /\ app[r].pc = "end" => ~Of(j, r, "end")
    BY <1>3, <1>t DEF RunInv, CallsInv
  <2> QED
    BY <1>t, <1>2, <1>3, <1>4, <1>5, <1>6, <1>7, <2>1
       DEF RunInv, EndInv, Whole, AppIs, Of, Destroyed, Open, Finished
<1>13. LostInv(r)'
  BY <1>t, <1>2, <1>3, <1>4, <1>5, <1>6, <1>7 DEF RunInv, LostInv, AppIs, Of, Finished
<1>14. \A q \in Run : q # r => task[k].run # q /\ task'[k].run # q
  BY <1>3, <1>7, ExecutorAssumption DEF Of
<1> QED
  BY <1>2, <1>5, <1>6, <1>8, <1>9, <1>10, <1>11, <1>12, <1>13, <1>14, AppFrame DEF AppIs, RunInv

\* The task goes on, and may overlap with session_end.
LEMMA TimesOutStep ==
  ASSUME IInv, NEW r \in Run, TimesOut(r)
  PROVE  IInv'
<1>t. TypeOK /\ RunInv(r)
  BY DEF IInv
<1>1. PICK k \in Task : app[r].waits = k
  BY <1>t DEF TimesOut, TypeOK, AppRun
<1>2. UNCHANGED <<task, live, sess, tab, dbg, stopped, reported, lost>>
  BY DEF TimesOut
<1>3. Of(k, r, app[r].pc) /\ app[r].pc \in {"begin", "tool", "end"} /\ ~app[r].clean
  BY <1>t, <1>1, ExecutorAssumption DEF RunInv, CallsInv
<1>4. PICK pc \in {"over", "stop", "drive"} :
        /\ Giving(r, pc)
        /\ app[r].pc = "end" => pc = "over"
        /\ app[r].pc = "begin" => pc = "stop"
        /\ app[r].pc = "tool" => pc = "drive"
  <2> DEFINE pc == CASE app[r].pc = "end" -> "over" [] app[r].pc = "begin" -> "stop"
                     [] OTHER -> "drive"
  <2>1. Giving(r, pc)
    BY <1>t DEF TimesOut, Giving, TypeOK, AppRun
  <2>2. /\ pc \in {"over", "stop", "drive"}
        /\ app[r].pc = "end" => pc = "over"
        /\ app[r].pc = "begin" => pc = "stop"
        /\ app[r].pc = "tool" => pc = "drive"
    BY <1>3
  <2> HIDE DEF pc
  <2> QED
    BY <2>1, <2>2
<1>5. AppIs(r, pc, NoTask, app[r].keep_tabs, app[r].clean, app[r].overlap)
  BY <1>t, <1>4, AppGives DEF TypeOK, AppPlaces
<1>6. CallsInv(r)'
  BY <1>t, <1>2, <1>3, <1>4, <1>5 DEF RunInv, CallsInv, AppIs, Of
<1>7. SessionInv(r)'
  BY <1>t, <1>2, <1>4, <1>5 DEF RunInv, SessionInv, AppIs, Of
<1>8. StoppedInv(r)'
  BY <1>t, <1>2, <1>3, <1>4, <1>5 DEF RunInv, StoppedInv, AppIs, Of
<1>9. EndInv(r)'
  BY <1>t, <1>2, <1>3, <1>4, <1>5 DEF RunInv, EndInv, Whole, AppIs, Of, Destroyed, Open, Finished
<1>10. HandlerInv(k)'
  BY <1>2 DEF IInv, HandlerInv
<1>11. \A q \in Run : q # r => task[k].run # q /\ task'[k].run # q
  BY <1>2, <1>3 DEF Of
<1>12. task' \in [Task -> TaskState] /\ \A j \in Task : j # k => task'[j] = task[j]
  BY <1>t, <1>2 DEF TypeOK
<1>13. LostInv(r)'
  BY <1>t, <1>2, <1>3, <1>4, <1>5 DEF RunInv, LostInv, AppIs, Of, Finished
<1> QED
  BY <1>2, <1>5, <1>6, <1>7, <1>8, <1>9, <1>10, <1>11, <1>12, <1>13, AppFrame DEF AppIs, RunInv

\* session_end is answered by another extension, or does not get through.
LEMMA AwayStep ==
  ASSUME IInv, NEW r \in Run, NEW keep \in BOOLEAN, NEW ok \in BOOLEAN,
         session_end_away(r, keep, ok)
  PROVE  IInv'
<1>t. TypeOK /\ RunInv(r)
  BY DEF IInv
<1>1. /\ UNCHANGED <<task, live, sess, tab, dbg, stopped, reported>>
      /\ lost' = lost \cup {r} /\ app[r].pc \in {"drive", "stop"}
  BY DEF session_end_away, MayEnd
<1>2. PICK g \in BOOLEAN : AppIs(r, "over", app[r].waits, keep, ok, g)
  <2> DEFINE g == Working(r)
             x == [app[r] EXCEPT !.pc = "over", !.keep_tabs = keep, !.clean = ok, !.overlap = g]
  <2>1. g \in BOOLEAN
    BY DEF Working
  <2>2. app' = [app EXCEPT ![r] = x]
    BY DEF session_end_away
  <2> HIDE DEF g
  <2>3. app[r] \in AppRun
    BY <1>t DEF TypeOK
  <2>4. /\ x \in AppRun
        /\ x.pc = "over" /\ x.waits = app[r].waits /\ x.keep_tabs = keep
        /\ x.clean = ok /\ x.overlap = g
    BY <2>1, <2>3 DEF AppRun
  <2> HIDE DEF x, AppRun
  <2> QED
    BY <1>t, <2>1, <2>2, <2>4 DEF AppIs, TypeOK
<1>3. \A k \in Task : ~Of(k, r, "end")
  BY <1>t, <1>1 DEF RunInv, CallsInv
<1>4. TypeOK'
  BY <1>t, <1>1, <1>2 DEF TypeOK, AppIs
<1>5. \A j \in Task : HandlerInv(j)'
  BY <1>1 DEF IInv, HandlerInv
<1>6. CallsInv(r)'
  BY <1>t, <1>1, <1>2, <1>3 DEF RunInv, CallsInv, AppIs, Of
<1>7. SessionInv(r)' /\ StoppedInv(r)'
  <2>1. SessionInv(r)'
    BY <1>t, <1>1, <1>2 DEF RunInv, SessionInv, AppIs, Of
  <2>2. StoppedInv(r)'
    BY <1>t, <1>1, <1>2 DEF RunInv, StoppedInv, CallsInv, AppIs, Of
  <2> QED
    BY <2>1, <2>2
<1>8. EndInv(r)' /\ LostInv(r)'
  BY <1>1, <1>2, <1>3 DEF EndInv, Whole, LostInv, AppIs, Of
<1>9. \A q \in Run : q # r => Untouched(q)
  BY <1>1, <1>2 DEF Untouched, AppIs
<1>10. \A q \in Run : q # r => RunInv(q)'
  BY <1>t, <1>9, Frame DEF IInv
<1> QED
  BY <1>4, <1>5, <1>6, <1>7, <1>8, <1>10 DEF IInv, RunInv

LEMMA ForgottenStep ==
  ASSUME IInv, NEW k \in Task, Forgotten(k)
  PROVE  IInv'
<1>t. TypeOK /\ HandlerInv(k)
  BY DEF IInv
<1>1. /\ UNCHANGED <<app, live, sess, tab, dbg, stopped, reported, lost>>
      /\ \A q \in Run : app[q].waits # k
  BY DEF Forgotten
<1>2. /\ task' \in [Task -> TaskState] /\ task'[k] = Idle
      /\ \A j \in Task : j # k => task'[j] = task[j]
  BY <1>t, TaskEnds DEF TypeOK, Forgotten
<1>3. PICK r \in Run : task[k].run = r /\ RunInv(r)
  <2>1. task[k].op # "none"
    BY <1>t DEF Forgotten, HandlerInv, Idle
  <2> QED
    BY <1>t, <2>1 DEF HandlerInv, IInv
<1>4. task'[k].run = NoRun /\ task'[k].op = "none" /\ NoRun # r
  BY <1>2, ExecutorAssumption DEF Idle
<1>5. HandlerInv(k)'
  BY <1>2 DEF HandlerInv, PlacesOf, Idle
<1>6. CallsInv(r)'
  <2>1. app[r].waits \in Task \cup {NoTask}
    BY <1>t DEF TypeOK, AppRun
  <2> QED
    BY <1>1, <1>2, <1>3, <1>4, <2>1 DEF RunInv, CallsInv, Of
<1>7. SessionInv(r)'
  BY <1>1, <1>2, <1>3, <1>4 DEF RunInv, SessionInv, Of
<1>8. StoppedInv(r)'
  BY <1>1, <1>2, <1>3, <1>4 DEF RunInv, StoppedInv, Of
<1>9. EndInv(r)'
  BY <1>1, <1>2, <1>3, <1>4 DEF RunInv, EndInv, Whole, Of, Destroyed, Open, Finished
<1>10. app' \in [Run -> AppRun] /\ \A q \in Run : q # r => app'[q] = app[q]
  BY <1>t, <1>1 DEF TypeOK
<1>11. \A q \in Run : q # r => task[k].run # q /\ task'[k].run # q
  BY <1>3, <1>4, ExecutorAssumption
<1>12. LostInv(r)'
  BY <1>1, <1>2, <1>3, <1>4 DEF RunInv, LostInv, Of, Finished
<1> QED
  BY <1>1, <1>2, <1>5, <1>6, <1>7, <1>8, <1>9, <1>10, <1>11, <1>12, AppFrame DEF RunInv

----------------------------------------------------------------------------
(***************************************************************************)
(* Preservation: the user, the page and Chrome.                            *)
(***************************************************************************)
LEMMA UserFrame ==
  ASSUME IInv, TypeOK', UNCHANGED <<app, task, live, lost>>,
         \A q \in Run : SessionInv(q)' /\ StoppedInv(q)' /\ EndInv(q)'
  PROVE  IInv'
<1>1. \A j \in Task : HandlerInv(j)'
  BY DEF IInv, HandlerInv
<1>2. \A q \in Run : CallsInv(q)' /\ LostInv(q)'
  BY DEF IInv, RunInv, CallsInv, LostInv, Of, Finished
<1> QED
  BY <1>1, <1>2 DEF IInv, RunInv

\* The user stops run r: the tab is closed or the debugger cancelled, and the
\* session, if there is one, is marked.
LEMMA UserStopsRun ==
  ASSUME IInv, NEW r \in Run, UNCHANGED <<app, task, live, lost>>,
         dbg' = dbg \ {r}, stopped' = stopped \cup {r},
         reported' \in {reported, reported \cup {r}},
         tab' \in [Run -> TabState], \A q \in Run : q # r => tab'[q] = tab[q],
         tab'[r] \in {tab[r], "closed"}, tab[r] # "none" \/ r \in dbg,
         r \notin dbg => tab'[r] = "closed",
         NEW a \in BOOLEAN, NEW b \in BOOLEAN, SessIs(r, a, b), r \in live => ~a /\ b
  PROVE  IInv'
<1>t. TypeOK /\ RunInv(r)
  BY DEF IInv
<1>1. TypeOK'
  BY <1>t DEF TypeOK, SessIs
<1>2. SessionInv(r)' /\ StoppedInv(r)'
  <2>1. SessionInv(r)'
    BY <1>t DEF RunInv, SessionInv, SessIs, Of
  <2>2. StoppedInv(r)'
    BY <1>t DEF RunInv, StoppedInv, SessIs, Of
  <2> QED
    BY <2>1, <2>2
<1>3. EndInv(r)'
  BY <1>t DEF RunInv, EndInv, Whole, Of, Destroyed, Open, Finished
<1>4. ASSUME NEW q \in Run, q # r
      PROVE  SessionInv(q)' /\ StoppedInv(q)' /\ EndInv(q)'
  <2>1. Untouched(q)
    BY <1>4 DEF Untouched, SessIs
  <2>2. RunInv(q)'
    BY <1>t, <2>1, Frame DEF IInv
  <2> QED
    BY <2>2 DEF RunInv
<1> QED
  BY <1>1, <1>2, <1>3, <1>4, UserFrame

LEMMA UserClosesStep ==
  ASSUME IInv, NEW r \in Run, UserCloses(r)
  PROVE  IInv'
<1>t. TypeOK /\ RunInv(r)
  BY DEF IInv
<1>1. /\ UNCHANGED <<app, task, live, lost>> /\ dbg' = dbg \ {r} /\ stopped' = stopped \cup {r}
      /\ reported' \in {reported, reported \cup {r}} /\ tab[r] # "none"
  BY DEF UserCloses, TabGone, Open
<1>2. /\ tab' \in [Run -> TabState] /\ tab'[r] = "closed"
      /\ \A q \in Run : q # r => tab'[q] = tab[q]
  BY <1>t DEF UserCloses, TabGone, TypeOK, TabState
<1>3. PICK a \in BOOLEAN, b \in BOOLEAN : SessIs(r, a, b) /\ (r \in live => ~a /\ b)
  <2>1. CASE r \in live
    <3>1. sess' = [sess EXCEPT ![r] = [attached |-> FALSE, aborted |-> TRUE]]
      BY <2>1 DEF UserCloses, TabGone
    <3>2. SessIs(r, FALSE, TRUE)
      BY <1>t, <3>1, SessChanges DEF TypeOK
    <3> QED
      BY <3>2
  <2>2. CASE r \notin live
    <3>1. sess' = sess
      BY <1>t, <2>2 DEF UserCloses, TabGone, TypeOK
    <3>2. SessIs(r, sess[r].attached, sess[r].aborted)
      BY <1>t, <3>1, SessChanges DEF TypeOK
    <3>3. sess[r].attached \in BOOLEAN /\ sess[r].aborted \in BOOLEAN
      BY <1>t DEF TypeOK, RunSession
    <3> QED
      BY <2>2, <3>2, <3>3
  <2> QED
    BY <2>1, <2>2
<1> QED
  BY <1>1, <1>2, <1>3, UserStopsRun

LEMMA UserCancelsStep ==
  ASSUME IInv, NEW r \in Run, UserCancels(r)
  PROVE  IInv'
<1>t. TypeOK /\ RunInv(r)
  BY DEF IInv
<1>1. /\ UNCHANGED <<app, task, live, tab, lost>> /\ dbg' = dbg \ {r} /\ stopped' = stopped \cup {r}
      /\ reported' \in {reported, reported \cup {r}} /\ r \in dbg
      /\ tab' \in [Run -> TabState]
  BY <1>t DEF UserCancels, TypeOK
<1>2. r \in live => sess[r].attached
  BY <1>t, <1>1 DEF RunInv, SessionInv
<1>3. PICK a \in BOOLEAN, b \in BOOLEAN : SessIs(r, a, b) /\ (r \in live => ~a /\ b)
  <2>1. CASE r \in live
    <3>1. sess' = [sess EXCEPT ![r] = [attached |-> FALSE, aborted |-> TRUE]]
      BY <1>2, <2>1 DEF UserCancels
    <3>2. SessIs(r, FALSE, TRUE)
      BY <1>t, <3>1, SessChanges DEF TypeOK
    <3> QED
      BY <3>2
  <2>2. CASE r \notin live
    <3>2. SessIs(r, sess[r].attached, sess[r].aborted)
      BY <1>t, <2>2, SessChanges DEF TypeOK, UserCancels
    <3>3. sess[r].attached \in BOOLEAN /\ sess[r].aborted \in BOOLEAN
      BY <1>t DEF TypeOK, RunSession
    <3> QED
      BY <2>2, <3>2, <3>3
  <2> QED
    BY <2>1, <2>2
<1> QED
  BY <1>1, <1>3, UserStopsRun

LEMMA AbortAllStep ==
  ASSUME IInv, abortAll
  PROVE  IInv'
<1>t. TypeOK
  BY DEF IInv
<1>1. /\ UNCHANGED <<app, task, live, tab, dbg, lost>>
      /\ stopped' = stopped \cup live /\ reported' = reported \cup live
  BY DEF abortAll
<1>2. /\ sess' \in [Run -> RunSession]
      /\ \A q \in Run : sess'[q].attached = sess[q].attached
      /\ \A q \in live : sess'[q].aborted
      /\ \A q \in Run \ live : sess'[q] = sess[q]
  <2> DEFINE x(q) == [sess[q] EXCEPT !.aborted = TRUE]
  <2>1. \A q \in Run : /\ x(q) \in RunSession
                       /\ x(q).attached = sess[q].attached /\ x(q).aborted = TRUE
    BY <1>t DEF TypeOK, RunSession
  <2>2. sess' = [q \in Run |-> IF q \in live THEN x(q) ELSE sess[q]]
    BY DEF abortAll
  <2> HIDE DEF x
  <2> QED
    BY <1>t, <2>1, <2>2 DEF TypeOK
<1>3. TypeOK'
  BY <1>t, <1>1, <1>2 DEF TypeOK
<1>4. ASSUME NEW q \in Run
      PROVE  SessionInv(q)' /\ StoppedInv(q)' /\ EndInv(q)'
  <2>t. RunInv(q)
    BY DEF IInv
  <2>1. SessionInv(q)'
    BY <2>t, <1>1, <1>2 DEF RunInv, SessionInv, Of
  <2>2. StoppedInv(q)'
    BY <2>t, <1>1, <1>2 DEF RunInv, StoppedInv, Of
  <2>3. EndInv(q)'
    BY <2>t, <1>1 DEF RunInv, EndInv, Whole, Of, Destroyed, Open, Finished
  <2> QED
    BY <2>1, <2>2, <2>3
<1> QED
  BY <1>1, <1>3, <1>4, UserFrame

LEMMA PageMovesStep ==
  ASSUME IInv, NEW r \in Run, PageMoves(r)
  PROVE  IInv'
<1>t. TypeOK /\ RunInv(r)
  BY DEF IInv
<1>1. UNCHANGED <<app, task, live, sess, dbg, stopped, reported, lost>> /\ Open(r)
  BY DEF PageMoves
<1>2. /\ tab' \in [Run -> TabState] /\ tab'[r] \in {"origin", "foreign"}
      /\ \A q \in Run : q # r => tab'[q] = tab[q]
  BY <1>t DEF PageMoves, TypeOK, TabState
<1>3. TypeOK'
  BY <1>t, <1>1, <1>2 DEF TypeOK
<1>4. SessionInv(r)'
  BY <1>t, <1>1, <1>2 DEF RunInv, SessionInv, Of, Open
<1>5. StoppedInv(r)'
  BY <1>t, <1>1, <1>2 DEF RunInv, StoppedInv, Of, Open
<1>6. EndInv(r)'
  BY <1>t, <1>1, <1>2 DEF RunInv, EndInv, Whole, Of, Destroyed, Open, Finished
<1>7. ASSUME NEW q \in Run, q # r
      PROVE  SessionInv(q)' /\ StoppedInv(q)' /\ EndInv(q)'
  <2>1. Untouched(q)
    BY <1>1, <1>2, <1>7 DEF Untouched
  <2>2. RunInv(q)'
    BY <1>t, <2>1, Frame DEF IInv
  <2> QED
    BY <2>2 DEF RunInv
<1> QED
  BY <1>1, <1>3, <1>4, <1>5, <1>6, <1>7, UserFrame

\* What was in the worker is gone: every handler has ended, and every run that
\* had a session or a handler is lost.
LEMMA WorkerStopsStep ==
  ASSUME IInv, WorkerStops
  PROVE  IInv'
<1>t. TypeOK
  BY DEF IInv
<1>1. /\ UNCHANGED <<app, tab, stopped, reported>>
      /\ live' = {} /\ dbg' \subseteq dbg /\ lost' \subseteq Run
      /\ \A r \in Run : r \in lost' <=> r \in lost \/ r \in live \/ Working(r)
  BY <1>t DEF WorkerStops, TypeOK
<1>2. sess' \in [Run -> RunSession]
  <2>1. [attached |-> FALSE, aborted |-> FALSE] \in RunSession
    BY DEF RunSession
  <2> QED
    BY <2>1 DEF WorkerStops
<1>3. /\ task' \in [Task -> TaskState]
      /\ \A k \in Task : /\ task'[k].op = task[k].op /\ task'[k].run = task[k].run
                         /\ task'[k].late = task[k].late
                         /\ task[k].pc \in {"idle", "ok", "error"} => task'[k] = task[k]
                         /\ task[k].pc \notin {"idle", "ok", "error"} => task'[k].pc = "error"
  <2> DEFINE x(k) == [task[k] EXCEPT !.pc = "error"]
  <2>1. \A k \in Task : /\ x(k) \in TaskState
                        /\ x(k).op = task[k].op /\ x(k).run = task[k].run
                        /\ x(k).late = task[k].late /\ x(k).pc = "error"
    BY <1>t DEF TypeOK, TaskState
  <2>2. task' = [k \in Task |-> IF task[k].pc \in {"idle", "ok", "error"} THEN task[k]
                               ELSE x(k)]
    BY DEF WorkerStops
  <2> HIDE DEF x
  <2> QED
    BY <1>t, <2>1, <2>2 DEF TypeOK
<1>4. TypeOK'
  BY <1>t, <1>1, <1>2, <1>3 DEF TypeOK
<1>5. ASSUME NEW k \in Task
      PROVE  HandlerInv(k)' /\ (task[k].op # "none" => Finished(k)')
  <2>1. HandlerInv(k) /\ task[k].op \in {"none", "begin", "tool", "end"}
    BY <1>t DEF IInv, TypeOK, TaskState
  <2>2. CASE task[k].op = "none"
    BY <1>3, <2>1, <2>2 DEF HandlerInv, Idle, PlacesOf
  <2>3. CASE task[k].op # "none"
    <3>1. Finished(k)'
      BY <1>3, <2>1, <2>3 DEF HandlerInv, PlacesOf, Finished
    <3>2. task'[k].pc \in PlacesOf(task'[k].op)
      BY <1>3, <2>1, <2>3 DEF HandlerInv, PlacesOf
    <3> QED
      BY <1>3, <2>1, <2>3, <3>1, <3>2 DEF HandlerInv
  <2> QED
    BY <2>2, <2>3
<1>6. ASSUME NEW r \in Run
      PROVE  RunInv(r)'
  <2>t. RunInv(r) /\ app[r].waits \in Task \cup {NoTask}
    BY <1>t DEF IInv, TypeOK, AppRun
  <2>1. CallsInv(r)'
    BY <1>1, <1>3, <2>t DEF RunInv, CallsInv, Of
  <2>2. \A k \in Task : Of(k, r, "begin") \/ Of(k, r, "tool") \/ Of(k, r, "end") => Finished(k)'
    BY <1>5 DEF Of
  <2>3. SessionInv(r)'
    BY <1>1, <1>3, <2>t, <2>2 DEF RunInv, SessionInv, Of, Finished
  <2>4. StoppedInv(r)'
    BY <1>1, <1>3, <2>t DEF RunInv, StoppedInv, Of
  <2>5. EndInv(r)'
    <3> SUFFICES ASSUME r \notin lost, r \notin live, ~Working(r), ~app[r].overlap
                 PROVE  EndInv(r)'
      BY <1>1 DEF EndInv, Whole
    <3>1. \A k \in Task : task[k].run = r => Finished(k) /\ task'[k] = task[k]
      BY <1>3 DEF Working, Finished
    <3> QED
      BY <1>1, <1>3, <2>t, <3>1 DEF RunInv, EndInv, Whole, Of, Destroyed, Open, Finished
  <2>6. LostInv(r)'
    <3>1. app[r].pc = "queued" => r \notin lost'
      BY <1>1, <2>t DEF RunInv, CallsInv, SessionInv, LostInv, Working
    <3> QED
      BY <1>1, <1>3, <2>2, <3>1 DEF LostInv, Of
  <2> QED
    BY <2>1, <2>3, <2>4, <2>5, <2>6 DEF RunInv
<1> QED
  BY <1>4, <1>5, <1>6 DEF IInv

----------------------------------------------------------------------------
(***************************************************************************)
(* The theorems.                                                           *)
(***************************************************************************)
LEMMA Initially ==
  ASSUME Init
  PROVE  IInv
<1>1. TypeOK
  BY DEF Init, TypeOK, AppRun, TaskState, Idle, RunSession, TabState
<1>2. \A k \in Task : HandlerInv(k) /\ \A r \in Run : task[k].run # r
  BY ExecutorAssumption DEF Init, HandlerInv, Idle, PlacesOf
<1>3. \A r \in Run : RunInv(r)
  BY <1>2 DEF Init, RunInv, CallsInv, SessionInv, StoppedInv, EndInv, LostInv, Of
<1> QED
  BY <1>1, <1>2, <1>3 DEF IInv

LEMMA Stutter ==
  ASSUME IInv, UNCHANGED vars
  PROVE  IInv'
<1>t. TypeOK
  BY DEF IInv
<1>1. TypeOK'
  BY <1>t DEF TypeOK, vars
<1>2. \A j \in Task : HandlerInv(j)'
  BY DEF IInv, HandlerInv, vars
<1>3. ASSUME NEW q \in Run
      PROVE  RunInv(q)'
  <2>1. Untouched(q)
    BY DEF Untouched, vars
  <2> QED
    BY <1>t, <2>1, Frame DEF IInv
<1> QED
  BY <1>1, <1>2, <1>3 DEF IInv

LEMMA Invariance == Spec => []IInv
<1>1. Init => IInv
  BY Initially
<1>2. IInv /\ [Next]_vars => IInv'
  <2> SUFFICES ASSUME IInv, [Next]_vars
               PROVE  IInv'
    OBVIOUS
  <2>1. ASSUME NEW r \in Run, AppNext(r) PROVE IInv'
    <3>1. ASSUME NEW k \in Task, session_begin(r, k) PROVE IInv'
      BY <3>1, CallStep DEF session_begin, MayCall
    <3>2. ASSUME NEW k \in Task, CallTool(r, k) PROVE IInv'
      BY <3>2, CallStep DEF CallTool, MayCall
    <3>3. ASSUME NEW k \in Task, NEW keep \in BOOLEAN, session_end(r, k, keep) PROVE IInv'
      BY <3>3, CallStep DEF session_end, MayCall
    <3>4. ASSUME NEW keep \in BOOLEAN, NEW ok \in BOOLEAN, session_end_away(r, keep, ok)
          PROVE  IInv'
      BY <3>4, AwayStep
    <3> QED
      BY <2>1, <3>1, <3>2, <3>3, <3>4, AnsweredStep, TimesOutStep DEF AppNext
  <2>2. ASSUME NEW k \in Task, TaskNext(k) PROVE IInv'
    BY <2>2, CreateTabStep, RegisterStep, CheckSteps, AttachStep, DispatchStep,
       EndGoesOnStep, EndDetachStep, EndCloseStep, EndDeleteStep, ForgottenStep
       DEF TaskNext
  <2>3. CASE UserNext
    BY <2>3, UserClosesStep, UserCancelsStep, PageMovesStep, AbortAllStep, WorkerStopsStep DEF UserNext
  <2>4. CASE UNCHANGED vars
    BY <2>4, Stutter
  <2> QED
    BY <2>1, <2>2, <2>3, <2>4 DEF Next
<1> QED
  BY <1>1, <1>2, PTL DEF Spec

\* The extension's record of the tabs it debugs agrees with Chrome for every
\* session in the map, whichever handlers, listeners and user actions interleave
\* with attach and sessionEnd; the state is well typed.
THEOREM RecordIsRight == Spec => []AttachedExact
<1>1. IInv => AttachedExact
  BY DEF IInv, RunInv, SessionInv, AttachedExact
<1> QED
  BY <1>1, Invariance, PTL

\* After a session_end that was answered ok there is no session, no debugger and no
\* tab that was not to be kept, whatever calls timed out before, unless the
\* extension was still working on one of them when session_end was sent, its
\* worker was stopped under the run, or another extension gave the answer.
THEOREM EndLeavesNothing == Spec => []EverythingDestroyed
<1>1. IInv => EverythingDestroyed
  BY DEF IInv, RunInv, EndInv, Whole, EverythingDestroyed
<1> QED
  BY <1>1, Invariance, PTL

\* A tool call that arrives after the user has stopped the run does not get past
\* the check at its start, however many calls the app has given up on.
THEOREM StopIsRespected == Spec => []LaterCallsRefused
<1>1. IInv => LaterCallsRefused
  <2> SUFFICES ASSUME IInv, NEW k \in Task, task[k].op = "tool", task[k].late
               PROVE  task[k].pc \in {"start", "error"}
    BY DEF LaterCallsRefused
  <2>1. PICK r \in Run : task[k].run = r
    BY DEF IInv, HandlerInv
  <2> QED
    BY <2>1 DEF IInv, RunInv, StoppedInv, Of
<1> QED
  BY <1>1, Invariance, PTL

\* user_aborted is sent only for a run that its user stopped, or with one of whose
\* calls session_end overlapped: a sessionEnd that works alone is never taken for
\* an abort.
THEOREM NoFalseAbort == Spec => []AbortsAreReal
<1>1. IInv => AbortsAreReal
  BY DEF IInv, TypeOK, RunInv, StoppedInv, AbortsAreReal
<1> QED
  BY <1>1, Invariance, PTL

=============================================================================
