----------------------------- MODULE Executor -----------------------------
(***************************************************************************)
(* The browser side of a run: the extension's Executor.                    *)
(*                                                                         *)
(* Every message of the app is an async task of the extension; between two *)
(* awaits of a task other tasks run, the user closes the tab or cancels    *)
(* the debugger, and the page navigates.  The app sends one call of a run  *)
(* at a time and ends with session_end; it may stop waiting for a call     *)
(* that the extension is still working on.                                 *)
(*                                                                         *)
(* The sessions live in the memory of the service worker, and the app      *)
(* sends each call to the extension the bridge has at that moment: Chrome  *)
(* may stop the worker, and the bridge may have moved to the extension of  *)
(* another browser, so that session_end meets one without the session.     *)
(*                                                                         *)
(* A run has one tab: nothing but sessionBegin adds to tabIds.             *)
(*                                                                         *)
(* Sources: apps/extension/src/executor.ts,                                *)
(* apps/extension/entrypoints/background.ts; the app's side from           *)
(* apps/desktop/src-tauri/src/extension.rs and                             *)
(* crates/passvalet-agent/src/run.rs.                                      *)
(***************************************************************************)
CONSTANTS
  Run,          \* runs; also names the tab of each
  Task,         \* messages the extension is working on
  NoTask, NoRun

ASSUME ExecutorAssumption ==
  NoTask \notin Task /\ NoRun \notin Run

VARIABLES
  app,        \* the run's state in the app
  task,       \* the handlers of the extension
  live,       \* keys of Executor.sessions
  sess,       \* the RunSession objects, which tasks keep after the map has not
  tab,        \* Chrome: the tab of each run
  dbg,        \* Chrome: tabs the extension is attached to
  stopped,    \* history: runs whose user closed, cancelled or aborted
  reported,   \* history: runs for which user_aborted was sent
  lost        \* history: runs whose session ended with the worker, or whose
              \* session_end did not come here

vars == <<app, task, live, sess, tab, dbg, stopped, reported, lost>>

\* clean: session_end was answered ok; overlap: the extension was still working
\* on another call of the run when session_end was sent.
AppRun == [pc : {"queued", "begin", "drive", "tool", "stop", "end", "over"},
           waits : Task \cup {NoTask}, keep_tabs : BOOLEAN, clean : BOOLEAN,
           overlap : BOOLEAN]

\* late: the task began after its user had stopped the run.
TaskState == [op : {"none", "begin", "tool", "end"}, run : Run \cup {NoRun},
              pc : {"idle", "start", "grouping", "loading", "state", "attach", "act",
                    "hook", "after", "detach", "loop", "close", "delete", "ok", "error"},
              late : BOOLEAN]

Idle == [op |-> "none", run |-> NoRun, pc |-> "idle", late |-> FALSE]

RunSession == [attached : BOOLEAN, aborted : BOOLEAN]

TabState == {"none", "origin", "foreign", "closed"}

Init ==
  /\ app = [r \in Run |-> [pc |-> "queued", waits |-> NoTask, keep_tabs |-> FALSE,
                           clean |-> FALSE, overlap |-> FALSE]]
  /\ task = [k \in Task |-> Idle]
  /\ live = {}
  /\ sess = [r \in Run |-> [attached |-> FALSE, aborted |-> FALSE]]
  /\ tab = [r \in Run |-> "none"]
  /\ dbg = {} /\ stopped = {} /\ reported = {} /\ lost = {}

Open(r) == tab[r] \in {"origin", "foreign"}

----------------------------------------------------------------------------
(***************************************************************************)
(* The app.                                                                *)
(***************************************************************************)

\* The extension works on a call of the run, which the app has given up on.
Working(r) == \E k \in Task : task[k].run = r /\ task[k].pc \notin {"ok", "error"}

Call(r, k, op, keep) ==
  /\ task[k] = Idle
  /\ task' = [task EXCEPT ![k] = [op |-> op, run |-> r, pc |-> "start",
                                  late |-> r \in stopped]]
  /\ app' = [app EXCEPT ![r].pc = op, ![r].waits = k, ![r].keep_tabs = keep,
                        ![r].overlap = (op = "end" /\ Working(r))]
  /\ UNCHANGED <<live, sess, tab, dbg, stopped, reported, lost>>

\* The registry lets one run drive the browser at a time.
session_begin(r, k) ==
  /\ app[r].pc = "queued"
  /\ \A q \in Run : app[q].pc \in {"queued", "over"}
  /\ Call(r, k, "begin", FALSE)

CallTool(r, k) == app[r].pc = "drive" /\ Call(r, k, "tool", FALSE)

\* A failed or partial run keeps its tabs; without a session it has failed.
MayEnd(r, keep) == app[r].pc = "drive" \/ (app[r].pc = "stop" /\ keep)

session_end(r, k, keep) == MayEnd(r, keep) /\ Call(r, k, "end", keep)

Answered(r) ==
  LET k == app[r].waits IN
  /\ k # NoTask
  /\ task[k].pc \in {"ok", "error"}
  /\ app' = [app EXCEPT ![r].waits = NoTask,
       ![r].pc = CASE @ = "end" -> "over"
                   [] @ = "begin" /\ task[k].pc = "error" -> "stop"
                   [] OTHER -> "drive",
       ![r].clean = app[r].pc = "end" /\ task[k].pc = "ok"]
  /\ task' = [task EXCEPT ![k] = Idle]
  /\ UNCHANGED <<live, sess, tab, dbg, stopped, reported, lost>>

TimesOut(r) ==
  /\ app[r].waits # NoTask
  /\ app' = [app EXCEPT ![r].waits = NoTask,
       ![r].pc = CASE @ = "end" -> "over" [] @ = "begin" -> "stop" [] OTHER -> "drive"]
  /\ UNCHANGED <<task, live, sess, tab, dbg, stopped, reported, lost>>

\* The bridge has another browser's extension, which answers ok to a run it does
\* not know, or none at all.  (It refuses a tool, which changes nothing; a
\* session_begin that comes to it is a run of its own.)
session_end_away(r, keep, ok) ==
  /\ MayEnd(r, keep)
  /\ app' = [app EXCEPT ![r].pc = "over", ![r].keep_tabs = keep, ![r].clean = ok,
                        ![r].overlap = Working(r)]
  /\ lost' = lost \cup {r}
  /\ UNCHANGED <<task, live, sess, tab, dbg, stopped, reported>>

----------------------------------------------------------------------------
(***************************************************************************)
(* Steps of a task: the code between two awaits.                           *)
(***************************************************************************)
At(k, op, pc) == task[k].op = op /\ task[k].pc = pc

Goto(k, pc) == task' = [task EXCEPT ![k].pc = pc]

\* chrome.tabs.create
CreateTab(k) ==
  /\ At(k, "begin", "start")
  /\ \/ /\ \E u \in {"origin", "foreign"} : tab' = [tab EXCEPT ![task[k].run] = u]
        /\ Goto(k, "grouping")
     \/ Goto(k, "error") /\ UNCHANGED tab
  /\ UNCHANGED <<app, live, sess, dbg, stopped, reported, lost>>

\* The tab is grouped; sessions.set
Register(k) ==
  /\ At(k, "begin", "grouping")
  /\ live' = live \cup {task[k].run}
  /\ sess' = [sess EXCEPT ![task[k].run] = [attached |-> FALSE, aborted |-> FALSE]]
  /\ Goto(k, "loading")
  /\ UNCHANGED <<app, tab, dbg, stopped, reported, lost>>

\* Mutant: the flag is not looked at.
ToolStart_noAborted(k) ==
  /\ At(k, "tool", "start")
  /\ Goto(k, IF task[k].run \in live THEN "state" ELSE "error")
  /\ UNCHANGED <<app, live, sess, tab, dbg, stopped, reported, lost>>

\* session and tabOf
ToolStart(k) ==
  /\ At(k, "tool", "start")
  /\ Goto(k, IF task[k].run \in live /\ ~sess[task[k].run].aborted
             THEN "state" ELSE "error")
  /\ UNCHANGED <<app, live, sess, tab, dbg, stopped, reported, lost>>

\* checkOrigin of the state that was awaited, and the test at the top of
\* attach; a tab that is gone has no url and fails the check.
CheckOrigin(k) ==
  /\ At(k, "begin", "loading") \/ At(k, "tool", "state")
  /\ Goto(k, IF tab[task[k].run] # "origin" THEN "error"
             ELSE IF ~sess[task[k].run].attached THEN "attach"
             ELSE IF task[k].op = "begin" THEN "hook" ELSE "act")
  /\ UNCHANGED <<app, live, sess, tab, dbg, stopped, reported, lost>>

\* chrome.debugger.attach fails on a tab that is gone or already attached.
attach(k) ==
  LET r == task[k].run IN
  /\ task[k].pc = "attach"
  /\ IF Open(r) /\ r \notin dbg
     THEN /\ dbg' = dbg \cup {r}
          /\ sess' = [sess EXCEPT ![r].attached = TRUE]
          /\ Goto(k, IF task[k].op = "begin" THEN "hook" ELSE "act")
     ELSE Goto(k, "error") /\ UNCHANGED <<dbg, sess>>
  /\ UNCHANGED <<app, live, tab, stopped, reported, lost>>

\* The commands that prepare the tab.
Prepare(k) ==
  /\ At(k, "begin", "hook")
  /\ Goto(k, IF task[k].run \in dbg THEN "ok" ELSE "error")
  /\ UNCHANGED <<app, live, sess, tab, dbg, stopped, reported, lost>>

(***************************************************************************)
(* dispatch.  The element references and what is read or typed are data;   *)
(* a tool counts by what it needs and where it may leave the page.         *)
(***************************************************************************)

\* A tool of the debugger protocol, after which the page is as it was or has
\* moved (moves).
cdp(k, moves) ==
  LET r == task[k].run IN
  /\ At(k, "tool", "act")
  /\ IF r \in dbg
     THEN /\ Goto(k, "after")
          /\ \E u \in {"origin", "foreign"} :
               (moves \/ u = tab[r]) /\ tab' = [tab EXCEPT ![r] = u]
     ELSE Goto(k, "error") /\ UNCHANGED tab
  /\ UNCHANGED <<app, live, sess, dbg, stopped, reported, lost>>

\* read_page, find, get_page_text, screenshot
ReadsPage(k) == cdp(k, FALSE)

\* Clicks, keys, form input and scrolling.
ActsOnPage(k) == cdp(k, TRUE)

captureSecret(k) == cdp(k, FALSE)

\* navigate works through chrome.tabs and looks at where it arrived.
navigate(k) ==
  LET r == task[k].run IN
  /\ At(k, "tool", "act")
  /\ Open(r)
  /\ \E u \in {"origin", "foreign"} :
       /\ tab' = [tab EXCEPT ![r] = u]
       /\ Goto(k, IF u = "origin" THEN "after" ELSE "error")
  /\ UNCHANGED <<app, live, sess, dbg, stopped, reported, lost>>

\* wait, list_tabs and switch_tab need nothing of the page.
LocalTool(k) ==
  /\ At(k, "tool", "act")
  /\ Goto(k, "after")
  /\ UNCHANGED <<app, live, sess, tab, dbg, stopped, reported, lost>>

\* A stale reference, a bad parameter, an unknown tool, a page without a value.
ToolFails(k) ==
  /\ At(k, "tool", "act")
  /\ Goto(k, "error")
  /\ UNCHANGED <<app, live, sess, tab, dbg, stopped, reported, lost>>

dispatch(k) ==
  ReadsPage(k) \/ ActsOnPage(k) \/ captureSecret(k) \/ navigate(k)
  \/ LocalTool(k) \/ ToolFails(k)

\* The second checkOrigin keeps the output of a page that has moved away.
ToolEnds(k) ==
  /\ At(k, "tool", "after")
  /\ Goto(k, IF tab[task[k].run] = "origin" THEN "ok" ELSE "error")
  /\ UNCHANGED <<app, live, sess, tab, dbg, stopped, reported, lost>>

\* sessionEnd between two awaits: the loop over attached goes on while it
\* finds a tab (JavaScript's sets show what is added meanwhile), then tabs are
\* closed or the session is deleted.
EndGoesOn(k) ==
  LET r == task[k].run IN
  \/ sess[r].attached /\ Goto(k, "detach") /\ UNCHANGED live
  \/ ~sess[r].attached /\ app[r].keep_tabs /\ Goto(k, "ok") /\ live' = live \ {r}
  \/ ~sess[r].attached /\ ~app[r].keep_tabs /\ Goto(k, "close") /\ UNCHANGED live

EndStart(k) ==
  /\ At(k, "end", "start")
  /\ IF task[k].run \in live THEN EndGoesOn(k) ELSE Goto(k, "ok") /\ UNCHANGED live
  /\ UNCHANGED <<app, sess, tab, dbg, stopped, reported, lost>>

\* Mutant: the debugger is detached while attached still names the tab, so
\* the listener takes it for the user's cancel.
EndDetach_swapped(k) ==
  LET r == task[k].run IN
  /\ At(k, "end", "detach")
  /\ dbg' = dbg \ {r}
  /\ sess' = [sess EXCEPT ![r] = [attached |-> FALSE, aborted |-> TRUE]]
  /\ reported' = reported \cup {r}
  /\ Goto(k, "loop")
  /\ UNCHANGED <<app, live, tab, stopped, lost>>

\* The page's clipboard record is wiped, the tab leaves attached and is then
\* detached, so that the listener for onDetach finds nothing.
EndDetach(k) ==
  LET r == task[k].run IN
  /\ At(k, "end", "detach")
  /\ sess' = [sess EXCEPT ![r].attached = FALSE]
  /\ dbg' = dbg \ {r}
  /\ Goto(k, "loop")
  /\ UNCHANGED <<app, live, tab, stopped, reported, lost>>

EndLoop(k) ==
  /\ At(k, "end", "loop")
  /\ EndGoesOn(k)
  /\ UNCHANGED <<app, sess, tab, dbg, stopped, reported, lost>>

\* Mutant: a tab that was closed once is not marked.
TabGone_unmarked(r) ==
  /\ tab' = [tab EXCEPT ![r] = IF Open(r) THEN "closed" ELSE @]
  /\ dbg' = dbg \ {r}
  /\ UNCHANGED <<sess, reported>>

\* A tab disappears: onDetach (if it was attached) and onRemoved.
TabGone(r) ==
  /\ tab' = [tab EXCEPT ![r] = IF Open(r) THEN "closed" ELSE @]
  /\ dbg' = dbg \ {r}
  /\ sess' = [sess EXCEPT ![r] = IF r \in live THEN [attached |-> FALSE, aborted |-> TRUE]
                                               ELSE @]
  /\ reported' = IF r \in live \cap dbg /\ sess[r].attached
                 THEN reported \cup {r} ELSE reported

EndClose(k) ==
  /\ At(k, "end", "close")
  /\ TabGone(task[k].run)
  /\ Goto(k, "delete")
  /\ UNCHANGED <<app, live, stopped, lost>>

\* Mutant: the session stays in the map.
EndDelete_keeps(k) ==
  /\ At(k, "end", "delete")
  /\ Goto(k, "ok")
  /\ UNCHANGED <<app, live, sess, tab, dbg, stopped, reported, lost>>

EndDelete(k) ==
  /\ At(k, "end", "delete")
  /\ live' = live \ {task[k].run}
  /\ Goto(k, "ok")
  /\ UNCHANGED <<app, sess, tab, dbg, stopped, reported, lost>>

\* The answer to a call nobody waits for any more is dropped.
Forgotten(k) ==
  /\ task[k].pc \in {"ok", "error"}
  /\ \A r \in Run : app[r].waits # k
  /\ task' = [task EXCEPT ![k] = Idle]
  /\ UNCHANGED <<app, live, sess, tab, dbg, stopped, reported, lost>>

----------------------------------------------------------------------------
(***************************************************************************)
(* The user, the page, Chrome and the listeners.                           *)
(***************************************************************************)
UserCloses(r) ==
  /\ Open(r)
  /\ TabGone(r)
  /\ stopped' = stopped \cup {r}
  /\ UNCHANGED <<app, task, live, lost>>

\* onDetach after the user's cancel.
UserCancels(r) ==
  /\ r \in dbg
  /\ dbg' = dbg \ {r}
  /\ IF r \in live /\ sess[r].attached
     THEN /\ sess' = [sess EXCEPT ![r] = [attached |-> FALSE, aborted |-> TRUE]]
          /\ reported' = reported \cup {r}
     ELSE UNCHANGED <<sess, reported>>
  /\ stopped' = stopped \cup {r}
  /\ UNCHANGED <<app, task, live, tab, lost>>

\* The popup's stop button.
abortAll ==
  /\ live # {}
  /\ sess' = [r \in Run |-> IF r \in live THEN [sess[r] EXCEPT !.aborted = TRUE]
                                          ELSE sess[r]]
  /\ reported' = reported \cup live
  /\ stopped' = stopped \cup live
  /\ UNCHANGED <<app, task, live, tab, dbg, lost>>

PageMoves(r) ==
  /\ Open(r)
  /\ \E u \in {"origin", "foreign"} : tab' = [tab EXCEPT ![r] = u]
  /\ UNCHANGED <<app, task, live, sess, dbg, stopped, reported, lost>>

\* The service worker is stopped, or its extension reloaded: the map and the
\* handlers are gone, and the app's calls fail as the port closes.  The tabs
\* stay, and so does the debugger unless the extension was unloaded.
WorkerStops ==
  /\ \E r \in Run : r \in live \/ Working(r)
  /\ lost' = lost \cup {r \in Run : r \in live \/ Working(r)}
  /\ live' = {}
  /\ sess' = [r \in Run |-> [attached |-> FALSE, aborted |-> FALSE]]
  /\ dbg' \in {dbg, {}}
  /\ task' = [k \in Task |-> IF task[k].pc \in {"idle", "ok", "error"} THEN task[k]
                             ELSE [task[k] EXCEPT !.pc = "error"]]
  /\ UNCHANGED <<app, tab, stopped, reported>>

----------------------------------------------------------------------------
AppNext(r) ==
  \/ \E k \in Task : session_begin(r, k) \/ CallTool(r, k)
  \/ \E k \in Task, keep \in BOOLEAN : session_end(r, k, keep)
  \/ \E keep, ok \in BOOLEAN : session_end_away(r, keep, ok)
  \/ Answered(r)
  \/ TimesOut(r)

TaskNext(k) ==
  \/ CreateTab(k) \/ Register(k) \/ Prepare(k)
  \/ CheckOrigin(k) \/ attach(k)
  \/ ToolStart(k) \/ dispatch(k) \/ ToolEnds(k)
  \/ EndStart(k) \/ EndDetach(k) \/ EndLoop(k) \/ EndClose(k) \/ EndDelete(k)
  \/ Forgotten(k)

UserNext ==
  \/ \E r \in Run : UserCloses(r) \/ UserCancels(r) \/ PageMoves(r)
  \/ abortAll
  \/ WorkerStops

Next ==
  \/ \E r \in Run : AppNext(r)
  \/ \E k \in Task : TaskNext(k)
  \/ UserNext

Spec == Init /\ [][Next]_vars

----------------------------------------------------------------------------
\* Types of the app's runs, the tasks, the sessions and Chrome's state.
TypeOK ==
  /\ app \in [Run -> AppRun]
  /\ task \in [Task -> TaskState]
  /\ live \subseteq Run
  /\ sess \in [Run -> RunSession]
  /\ tab \in [Run -> TabState]
  /\ dbg \subseteq Run /\ stopped \subseteq Run /\ reported \subseteq Run
  /\ lost \subseteq Run

Destroyed(r) ==
  /\ r \notin live /\ r \notin dbg
  /\ app[r].keep_tabs \/ ~Open(r)

\* Once session_end has been answered ok, and for good, a run has no session, its
\* tab is not being debugged, and it is closed unless it was to be kept; also
\* if calls timed out, unless one of them was still being worked on when
\* session_end was sent, or the session was lost with its worker or session_end
\* was answered by another extension (executor.ts sessionEnd).
EverythingDestroyed ==
  \A r \in Run : app[r].clean /\ ~app[r].overlap /\ r \notin lost => Destroyed(r)

\* A call that arrives after the user closed the tab, cancelled the debugger
\* or pressed stop is refused before it touches the tab (executor.ts session
\* and the listeners; extension-safety.test.mjs line 129).
LaterCallsRefused ==
  \A k \in Task : task[k].op = "tool" /\ task[k].late =>
    task[k].pc \in {"start", "error"}

\* The cleanup of a run is never reported as the user's abort
\* (extension-safety.test.mjs line 135), unless a call the app gave up on and
\* the extension still works on attached the tab again while sessionEnd was
\* between its loop and the closing of the tabs (executor.ts lines 153-168).
AbortsAreReal == \A r \in reported : r \in stopped \/ app[r].overlap

\* The state is well typed, and the extension's record of what it debugs is
\* right, also when calls overlap:
\* a stale record would make every later tool fail or leave the debugger on the
\* tab when the session ends (executor.ts attach, sessionEnd, listeners).
AttachedExact ==
  TypeOK /\ \A r \in Run : r \in live => (sess[r].attached <=> r \in dbg)

============================================================================
