----------------------------- MODULE RunsProofs -----------------------------
(***************************************************************************)
(* Proofs about Runs for any number of runs, connections and calls: its    *)
(* three invariants.                                                       *)
(***************************************************************************)
EXTENDS Runs, FiniteSetTheorems, TLAPS

----------------------------------------------------------------------------
(***************************************************************************)
(* The inductive invariant.                                                *)
(***************************************************************************)

\* A run's entry and its runner task agree: no task before the entry, and no
\* end of the entry before the task's.
EntryInv ==
  \A r \in Run :
    /\ run[r].entry = "absent" => run[r].phase = "queued" /\ cutBy[r] = {}
    /\ run[r].entry \in {"finished", "cleared"} => run[r].phase = "finished"
    /\ run[r].phase \in {"ending", "released", "finished"} => run[r].outcome \in Outcome

\* start inserts an entry only into a registry without an unfinished one.
OneRunning ==
  \A r, s \in Run : run[r].entry = "running" /\ run[s].entry = "running" => r = s

\* A call names the run it waits for, and an answer is the outcome of a run
\* that is over.
CallerInv ==
  \A c \in Caller :
    /\ caller[c].pc # "done" => caller[c].answer = "none"
    /\ caller[c].pc \in {"wait", "waiting"} =>
         caller[c].run \in Run /\ run[caller[c].run].entry # "absent"
    /\ caller[c].pc = "waiting" =>
         run[caller[c].run].entry = "running" /\ c \in waiters[caller[c].run]
    /\ caller[c].answer \in Outcome =>
         /\ caller[c].run \in Run
         /\ run[caller[c].run].entry \in {"finished", "cleared"}
         /\ caller[c].answer = run[caller[c].run].outcome
    /\ \A r \in Run :
         c \in waiters[r] => caller[c].run = r /\ caller[c].pc \in {"waiting", "done"}

\* The bridge's connection is one of the unfinished run's, and so is the one a
\* callback has detached, if the run it noted is still unfinished.
BridgeInv ==
  \A r \in Run, p \in Conn :
    /\ run[r].entry = "running" /\ bridge = p => p \in peersOf[r]
    /\ drop[p].run = r => run[r].entry # "absent"
    /\ drop[p].pc = "detached" /\ drop[p].run = r /\ run[r].entry = "running"
         => p \in peersOf[r]

IInv ==
  /\ TypeOK
  /\ EntryInv
  /\ OneRunning
  /\ CallerInv
  /\ BridgeInv
  /\ DisconnectSparesNewRuns

----------------------------------------------------------------------------
(***************************************************************************)
(* The ways in which a call, a callback or a run moves on, and the fields  *)
(* after it.                                                               *)
(***************************************************************************)
Answers == Outcome \cup {"none", "started", "refused", "timeout", "vanished"}

LEMMA Replied ==
  ASSUME caller \in [Caller -> CallerState], NEW c \in Caller, NEW a \in Answers, Reply(c, a)
  PROVE  /\ caller' \in [Caller -> CallerState]
         /\ caller'[c].pc = "done" /\ caller'[c].run = caller[c].run /\ caller'[c].answer = a
         /\ \A d \in Caller : d # c => caller'[d] = caller[d]
<1> DEFINE x == [caller[c] EXCEPT !.op = "none", !.pc = "done", !.answer = a]
<1>1. caller[c] \in CallerState
  OBVIOUS
<1>2. x \in CallerState /\ x.pc = "done" /\ x.run = caller[c].run /\ x.answer = a
  BY <1>1 DEF CallerState, Answers
<1>3. caller' = [caller EXCEPT ![c] = x]
  BY DEF Reply
<1> HIDE DEF x, CallerState
<1> QED
  BY <1>2, <1>3

Goes(c, pc) == caller' = [caller EXCEPT ![c].pc = pc]

LEMMA CallerGoes ==
  ASSUME caller \in [Caller -> CallerState], NEW c \in Caller, NEW pc \in {"start", "waiting"},
         Goes(c, pc)
  PROVE  /\ caller' \in [Caller -> CallerState]
         /\ caller'[c].pc = pc /\ caller'[c].run = caller[c].run
         /\ caller'[c].answer = caller[c].answer
         /\ \A d \in Caller : d # c => caller'[d] = caller[d]
<1> DEFINE x == [caller[c] EXCEPT !.pc = pc]
<1>1. caller[c] \in CallerState
  OBVIOUS
<1>2. x \in CallerState /\ x.pc = pc /\ x.run = caller[c].run /\ x.answer = caller[c].answer
  BY <1>1 DEF CallerState
<1>3. caller' = [caller EXCEPT ![c] = x]
  BY DEF Goes
<1> HIDE DEF x, CallerState
<1> QED
  BY <1>2, <1>3

Calls(c, op) == caller' = [caller EXCEPT ![c].op = op, ![c].pc = "connected"]

LEMMA CallerCalls ==
  ASSUME caller \in [Caller -> CallerState], NEW c \in Caller, NEW op \in Op, Calls(c, op)
  PROVE  /\ caller' \in [Caller -> CallerState]
         /\ caller'[c].pc = "connected" /\ caller'[c].run = caller[c].run
         /\ caller'[c].answer = caller[c].answer
         /\ \A d \in Caller : d # c => caller'[d] = caller[d]
<1> DEFINE x == [caller[c] EXCEPT !.op = op, !.pc = "connected"]
<1>1. caller[c] \in CallerState
  OBVIOUS
<1>2. /\ x \in CallerState
      /\ x.pc = "connected" /\ x.run = caller[c].run /\ x.answer = caller[c].answer
  BY <1>1 DEF CallerState
<1>3. caller' = [caller EXCEPT ![c] = x]
  BY DEF Calls
<1> HIDE DEF x, CallerState
<1> QED
  BY <1>2, <1>3

\* What Insert does to the call and to the run.
Starts(c, r) == caller' = [caller EXCEPT ![c] =
                  IF @.op = "report"
                  THEN [@ EXCEPT !.run = r, !.pc = "wait"]
                  ELSE [op |-> "none", pc |-> "done", run |-> r, answer |-> "started"]]
Enters(r, k) == run' = [run EXCEPT ![r].entry = "running", ![r].kind = k]

LEMMA CallerStarts ==
  ASSUME caller \in [Caller -> CallerState], NEW c \in Caller, NEW r \in Run, Starts(c, r)
  PROVE  /\ caller' \in [Caller -> CallerState]
         /\ caller'[c].run = r
         /\ \/ caller'[c].pc = "wait" /\ caller'[c].answer = caller[c].answer
            \/ caller'[c].pc = "done" /\ caller'[c].answer = "started"
         /\ \A d \in Caller : d # c => caller'[d] = caller[d]
<1> DEFINE x == [caller[c] EXCEPT !.run = r, !.pc = "wait"]
           y == [op |-> "none", pc |-> "done", run |-> r, answer |-> "started"]
<1>1. caller[c] \in CallerState
  OBVIOUS
<1>2. x \in CallerState /\ x.pc = "wait" /\ x.run = r /\ x.answer = caller[c].answer
  BY <1>1 DEF CallerState
<1>3. y \in CallerState /\ y.pc = "done" /\ y.run = r /\ y.answer = "started"
  BY DEF CallerState
<1>4. caller' = [caller EXCEPT ![c] = x] \/ caller' = [caller EXCEPT ![c] = y]
  BY DEF Starts
<1> HIDE DEF x, y, CallerState
<1> QED
  BY <1>2, <1>3, <1>4

LEMMA RunEnters ==
  ASSUME run \in [Run -> RunState], NEW r \in Run, NEW k \in {"collect", "rotate"}, Enters(r, k)
  PROVE  /\ run' \in [Run -> RunState]
         /\ run'[r].entry = "running" /\ run'[r].phase = run[r].phase
         /\ run'[r].outcome = run[r].outcome
         /\ \A q \in Run : q # r => run'[q] = run[q]
<1> DEFINE x == [run[r] EXCEPT !.entry = "running", !.kind = k]
<1>1. run[r] \in RunState
  OBVIOUS
<1>2. /\ x \in RunState
      /\ x.entry = "running" /\ x.phase = run[r].phase /\ x.outcome = run[r].outcome
  BY <1>1 DEF RunState
<1>3. run' = [run EXCEPT ![r] = x]
  BY DEF Enters
<1> HIDE DEF x, RunState
<1> QED
  BY <1>2, <1>3

\* An abort touches the flag only.
LEMMA AbortedRuns ==
  ASSUME run \in [Run -> RunState], NEW r \in Run
  PROVE  /\ aborted(r) \in [Run -> RunState]
         /\ \A q \in Run : /\ aborted(r)[q].entry = run[q].entry
                           /\ aborted(r)[q].phase = run[q].phase
                           /\ aborted(r)[q].outcome = run[q].outcome
<1> DEFINE b == run[r].abort \/ run[r].entry \in {"running", "finished"}
           x == [run[r] EXCEPT !.abort = b]
<1>1. run[r] \in RunState
  OBVIOUS
<1>0. b \in BOOLEAN
  OBVIOUS
<1>3. aborted(r) = [run EXCEPT ![r] = x]
  BY DEF aborted
<1> HIDE DEF b
<1>2. /\ x \in RunState
      /\ x.entry = run[r].entry /\ x.phase = run[r].phase /\ x.outcome = run[r].outcome
  BY <1>0, <1>1 DEF RunState
<1> HIDE DEF x, RunState
<1> QED
  BY <1>2, <1>3

\* A step of the runner task.
Moves(r, ph, st, o) == run' = [run EXCEPT ![r].phase = ph, ![r].stored = st, ![r].outcome = o]

LEMMA RunMoves ==
  ASSUME run \in [Run -> RunState], NEW r \in Run, NEW ph \in Phase, NEW st \in SUBSET Wanted,
         NEW o \in Outcome \cup {"none"}, Moves(r, ph, st, o)
  PROVE  /\ run' \in [Run -> RunState]
         /\ run'[r].entry = run[r].entry /\ run'[r].phase = ph /\ run'[r].outcome = o
         /\ \A q \in Run : q # r => run'[q] = run[q]
<1> DEFINE x == [run[r] EXCEPT !.phase = ph, !.stored = st, !.outcome = o]
<1>1. run[r] \in RunState
  OBVIOUS
<1>2. x \in RunState /\ x.entry = run[r].entry /\ x.phase = ph /\ x.outcome = o
  BY <1>1 DEF RunState
<1>3. run' = [run EXCEPT ![r] = x]
  BY DEF Moves
<1> HIDE DEF x, RunState
<1> QED
  BY <1>2, <1>3

\* RunLifecycle's steps, as far as the registry sees them.
LEMMA LifecycleSteps ==
  ASSUME NEW r \in Run, Lifecycle(r)!Next
  PROVE  \/ run[r].phase = "queued" /\ run'[r].phase = "driving"
         \/ run[r].phase = "queued" /\ run'[r].phase = "released" /\ run'[r].outcome = "Failed"
         \/ run[r].phase = "driving" /\ run'[r].phase = "driving"
         \/ run[r].phase = "driving" /\ run'[r].phase = "ending" /\ run'[r].outcome \in Outcome
         \/ /\ run[r].phase = "ending" /\ run'[r].phase = "released"
            /\ run'[r].outcome = run[r].outcome
         \/ /\ run[r].phase = "released" /\ run'[r].phase = "finished"
            /\ run'[r].outcome = run[r].outcome
BY DEF Lifecycle!Next, Lifecycle!Begin, Lifecycle!Refuse, Lifecycle!Store, Lifecycle!Stop,
       Lifecycle!Release, Lifecycle!Finish, Lifecycle!Outcome, Outcome

\* The callback's last step.
Over(p) == drop' = [drop EXCEPT ![p].pc = "done", ![p].run = NoRun]

LEMMA DropOver ==
  ASSUME drop \in [Conn -> DropState], NEW p \in Conn, Over(p)
  PROVE  /\ drop' \in [Conn -> DropState]
         /\ drop'[p].pc = "done" /\ drop'[p].run = NoRun
         /\ \A q \in Conn : q # p => drop'[q] = drop[q]
<1> DEFINE x == [drop[p] EXCEPT !.pc = "done", !.run = NoRun]
<1>1. drop[p] \in DropState
  OBVIOUS
<1>2. x \in DropState /\ x.pc = "done" /\ x.run = NoRun
  BY <1>1 DEF DropState
<1>3. drop' = [drop EXCEPT ![p] = x]
  BY DEF Over
<1> HIDE DEF x, DropState
<1> QED
  BY <1>2, <1>3

----------------------------------------------------------------------------
(***************************************************************************)
(* Preservation.  Steps that leave every run's entry, phase and outcome    *)
(* alone preserve what is said of the registry.                            *)
(***************************************************************************)
SameRuns ==
  \A r \in Run : /\ run'[r].entry = run[r].entry
                 /\ run'[r].phase = run[r].phase
                 /\ run'[r].outcome = run[r].outcome

LEMMA ConnSteps ==
  ASSUME IInv, NEW p \in Conn, Connect(p) \/ HelloArrives(p) \/ Close(p)
  PROVE  IInv'
<1>t. TypeOK
  BY DEF IInv
<1>1. /\ UNCHANGED <<bridge, drop, caller, run, waiters, browserOf, peersOf, cutBy>>
      /\ \/ conn' = [conn EXCEPT ![p].link = "open"]
         \/ conn' = [conn EXCEPT ![p].hello = "spawned"]
         \/ conn' = [conn EXCEPT ![p].link = "closed"]
  BY DEF Connect, HelloArrives, Close, history
<1>2. conn[p] \in ConnState
  BY <1>t DEF TypeOK
<1>3. /\ [conn[p] EXCEPT !.link = "open"] \in ConnState
      /\ [conn[p] EXCEPT !.hello = "spawned"] \in ConnState
      /\ [conn[p] EXCEPT !.link = "closed"] \in ConnState
  BY <1>2 DEF ConnState
<1>4. conn' \in [Conn -> ConnState]
  BY <1>1, <1>3, <1>t DEF TypeOK
<1> QED
  BY <1>1, <1>4 DEF IInv, TypeOK, EntryInv, OneRunning, CallerInv, BridgeInv,
                    DisconnectSparesNewRuns

LEMMA AttachStep ==
  ASSUME IInv, NEW p \in Conn, Attach(p)
  PROVE  IInv'
<1>t. TypeOK
  BY DEF IInv
<1>1. /\ UNCHANGED <<drop, caller, run, waiters, browserOf, cutBy>>
      /\ bridge' = p
      /\ conn' = [conn EXCEPT ![p].hello = "handled"]
  BY DEF Attach
<1>2. \A r \in Run : /\ peersOf'[r] = IF run[r].entry = "running"
                                     THEN peersOf[r] \cup {p} ELSE peersOf[r]
                     /\ peersOf[r] \subseteq peersOf'[r]
  BY DEF Attach, active
<1>3. conn[p] \in ConnState
  BY <1>t DEF TypeOK
<1>4. [conn[p] EXCEPT !.hello = "handled"] \in ConnState
  BY <1>3 DEF ConnState
<1>5. conn' \in [Conn -> ConnState]
  BY <1>1, <1>4, <1>t DEF TypeOK
<1>6. peersOf' \in [Run -> SUBSET Conn]
  BY <1>t DEF Attach, active, TypeOK
<1>7. TypeOK'
  BY <1>1, <1>5, <1>6, <1>t DEF TypeOK
<1>8. EntryInv' /\ OneRunning' /\ CallerInv'
  BY <1>1 DEF IInv, EntryInv, OneRunning, CallerInv
<1>9. BridgeInv' /\ DisconnectSparesNewRuns'
  BY <1>1, <1>2 DEF IInv, BridgeInv, DisconnectSparesNewRuns
<1> QED
  BY <1>7, <1>8, <1>9 DEF IInv

LEMMA SnapshotStep ==
  ASSUME IInv, NEW p \in Conn, SnapshotActive(p)
  PROVE  IInv'
<1>t. TypeOK
  BY DEF IInv
<1>1. PICK r \in IF active = {} THEN {NoRun} ELSE active :
        drop' = [drop EXCEPT ![p] = [pc |-> "snapshot", run |-> r, hit |-> FALSE]]
  BY DEF SnapshotActive
<1>2. r = NoRun \/ (r \in Run /\ run[r].entry = "running")
  BY <1>1 DEF active
<1>3. UNCHANGED <<conn, bridge, caller, run, waiters, browserOf, peersOf, cutBy>>
  BY DEF SnapshotActive, history
<1>4. [pc |-> "snapshot", run |-> r, hit |-> FALSE] \in DropState
  BY <1>2 DEF DropState
<1>5. drop' \in [Conn -> DropState]
  BY <1>1, <1>4, <1>t DEF TypeOK
<1>6. /\ drop'[p].pc = "snapshot" /\ drop'[p].run = r
      /\ \A q \in Conn : q # p => drop'[q] = drop[q]
  BY <1>1, <1>t DEF TypeOK
<1>7. TypeOK' /\ EntryInv' /\ OneRunning' /\ CallerInv' /\ DisconnectSparesNewRuns'
  BY <1>3, <1>5 DEF IInv, TypeOK, EntryInv, OneRunning, CallerInv, DisconnectSparesNewRuns
<1>8. BridgeInv'
  BY <1>2, <1>3, <1>6, RunsAssumption DEF IInv, BridgeInv
<1> QED
  BY <1>7, <1>8 DEF IInv

LEMMA DetachStep ==
  ASSUME IInv, NEW p \in Conn, DetachIf(p)
  PROVE  IInv'
<1>t. TypeOK
  BY DEF IInv
<1> DEFINE x == [drop[p] EXCEPT !.pc = "detached", !.hit = TRUE]
           y == [drop[p] EXCEPT !.pc = "done", !.run = NoRun]
<1>1. drop[p] \in DropState
  BY <1>t DEF TypeOK
<1>2. x \in DropState /\ x.pc = "detached" /\ x.run = drop[p].run
  BY <1>1 DEF DropState
<1>3. y \in DropState /\ y.pc = "done" /\ y.run = NoRun
  BY <1>1 DEF DropState
<1>4. /\ UNCHANGED <<conn, caller, run, waiters, browserOf, peersOf, cutBy>>
      /\ bridge' = IF bridge = p THEN NoConn ELSE bridge
      /\ drop' = [drop EXCEPT ![p] = IF bridge = p THEN x ELSE y]
  BY DEF DetachIf, history
<1> HIDE DEF x, y
<1>5. /\ drop' \in [Conn -> DropState]
      /\ drop'[p] = IF bridge = p THEN x ELSE y
      /\ \A q \in Conn : q # p => drop'[q] = drop[q]
  BY <1>2, <1>3, <1>4, <1>t DEF TypeOK
<1>6. TypeOK' /\ EntryInv' /\ OneRunning' /\ CallerInv' /\ DisconnectSparesNewRuns'
  BY <1>4, <1>5 DEF IInv, TypeOK, EntryInv, OneRunning, CallerInv, DisconnectSparesNewRuns
<1>7. BridgeInv'
  BY <1>2, <1>3, <1>4, <1>5, RunsAssumption DEF IInv, BridgeInv
<1> QED
  BY <1>6, <1>7 DEF IInv

\* The run that is cut off is the one noted: if it is still unfinished, the
\* bridge held the lost connection during it.
LEMMA AbortSnapshotStep ==
  ASSUME IInv, NEW p \in Conn, AbortSnapshot(p)
  PROVE  IInv'
<1>t. TypeOK
  BY DEF IInv
<1> DEFINE r == drop[p].run
<1>0. /\ drop[p] \in DropState
      /\ r \in Run \cup {NoRun}
  BY <1>t DEF TypeOK, DropState
<1>1. Over(p) /\ UNCHANGED <<conn, bridge, caller, waiters, browserOf, peersOf>>
  BY DEF AbortSnapshot, AbortLost, Over
<1>2. /\ drop' \in [Conn -> DropState]
      /\ drop'[p].pc = "done" /\ drop'[p].run = NoRun
      /\ \A q \in Conn : q # p => drop'[q] = drop[q]
  BY <1>1, <1>t, DropOver DEF TypeOK
<1>3. run' \in [Run -> RunState] /\ SameRuns
  BY <1>0, <1>t, AbortedRuns DEF AbortSnapshot, AbortLost, SameRuns, TypeOK
<1>4. \A q \in Run : cutBy'[q] = IF q = r /\ run[q].entry = "running"
                                THEN cutBy[q] \cup {p} ELSE cutBy[q]
  BY DEF AbortSnapshot, AbortLost, active
<1>5. cutBy' \in [Run -> SUBSET Conn]
  BY <1>t DEF AbortSnapshot, AbortLost, active, TypeOK
<1>6. TypeOK'
  BY <1>1, <1>2, <1>3, <1>5, <1>t DEF TypeOK
<1>7. EntryInv' /\ OneRunning'
  <2>1. OneRunning'
    BY <1>3 DEF IInv, OneRunning, SameRuns
  <2>2. \A q \in Run : run[q].entry = "absent" => cutBy'[q] = cutBy[q]
    BY <1>4
  <2>3. EntryInv'
    BY <1>3, <2>2 DEF IInv, EntryInv, SameRuns
  <2> QED
    BY <2>1, <2>3
<1>8. CallerInv'
  BY <1>1, <1>3 DEF IInv, CallerInv, SameRuns
<1>9. BridgeInv'
  BY <1>1, <1>2, <1>3, RunsAssumption DEF IInv, BridgeInv, SameRuns
<1>10. DisconnectSparesNewRuns'
  BY <1>1, <1>4 DEF IInv, DisconnectSparesNewRuns, BridgeInv, AbortSnapshot
<1> QED
  BY <1>6, <1>7, <1>8, <1>9, <1>10 DEF IInv

\* A call that has not inserted a run moves on or is refused.
LEMMA CheckSteps ==
  ASSUME IInv, NEW c \in Caller,
         (\E op \in Op : CheckLocked(c, op)) \/ CheckConnected(c)
         \/ (caller[c].pc = "start" /\ Reply(c, "refused")
             /\ UNCHANGED <<conn, bridge, drop, run, waiters, browserOf, history>>)
  PROVE  IInv'
<1>t. TypeOK
  BY DEF IInv
<1>1. /\ UNCHANGED <<conn, bridge, drop, run, waiters, browserOf, peersOf, cutBy>>
      /\ caller[c].pc \in {"idle", "connected", "start"}
      /\ \/ \E op \in Op : Calls(c, op)
         \/ Goes(c, "start")
         \/ Reply(c, "refused")
  BY DEF CheckLocked, CheckConnected, Calls, Goes, history
<1>2. /\ caller' \in [Caller -> CallerState]
      /\ caller'[c].pc \in {"connected", "start", "done"} /\ caller'[c].run = caller[c].run
      /\ caller'[c].answer = caller[c].answer
         \/ (caller'[c].pc = "done" /\ caller'[c].answer = "refused")
      /\ caller'[c].pc # "done" => caller'[c].answer = caller[c].answer
      /\ \A d \in Caller : d # c => caller'[d] = caller[d]
  <2>1. CASE \E op \in Op : Calls(c, op)
    BY <2>1, <1>t, CallerCalls DEF TypeOK
  <2>2. CASE Goes(c, "start")
    BY <2>2, <1>t, CallerGoes DEF TypeOK
  <2>3. CASE Reply(c, "refused")
    BY <2>3, <1>t, Replied DEF TypeOK, Answers
  <2> QED
    BY <1>1, <2>1, <2>2, <2>3
<1>3. TypeOK' /\ EntryInv' /\ OneRunning' /\ BridgeInv' /\ DisconnectSparesNewRuns'
  BY <1>1, <1>2 DEF IInv, TypeOK, EntryInv, OneRunning, BridgeInv, DisconnectSparesNewRuns
<1>4. CallerInv'
  BY <1>1, <1>2 DEF IInv, CallerInv, Outcome
<1> QED
  BY <1>3, <1>4 DEF IInv

\* The new entry is the only unfinished one, and the bridge's connection is the
\* first of its connections.
LEMMA InsertStep ==
  ASSUME IInv, NEW c \in Caller, caller[c].pc = "start", active = {},
         NEW r \in Run, run[r].entry = "absent", Insert(c, r),
         UNCHANGED <<conn, bridge, drop, waiters, browserOf, cutBy>>
  PROVE  IInv'
<1>t. TypeOK
  BY DEF IInv
<1>1. \A q \in Run : run[q].entry # "running"
  BY DEF active
<1>2. PICK k \in {"collect", "rotate"} : Enters(r, k)
  BY DEF Insert, Enters
<1>3. /\ run' \in [Run -> RunState]
      /\ run'[r].entry = "running" /\ run'[r].phase = run[r].phase
      /\ run'[r].outcome = run[r].outcome
      /\ \A q \in Run : q # r => run'[q] = run[q]
  BY <1>2, <1>t, RunEnters DEF TypeOK
<1>4. Starts(c, r)
  BY DEF Insert, Starts
<1>5. /\ caller' \in [Caller -> CallerState]
      /\ caller'[c].run = r
      /\ \/ caller'[c].pc = "wait" /\ caller'[c].answer = caller[c].answer
         \/ caller'[c].pc = "done" /\ caller'[c].answer = "started"
      /\ \A d \in Caller : d # c => caller'[d] = caller[d]
  BY <1>4, <1>t, CallerStarts DEF TypeOK
<1>6. peersOf' = [peersOf EXCEPT ![r] = IF bridge = NoConn THEN {} ELSE {bridge}]
  BY DEF Insert
<1>7. /\ peersOf' \in [Run -> SUBSET Conn]
      /\ bridge \in Conn => bridge \in peersOf'[r]
      /\ \A q \in Run : q # r => peersOf'[q] = peersOf[q]
  BY <1>6, <1>t, RunsAssumption DEF TypeOK
<1>8. TypeOK'
  BY <1>3, <1>5, <1>7, <1>t DEF TypeOK
<1>9. EntryInv' /\ OneRunning'
  BY <1>1, <1>3 DEF IInv, EntryInv, OneRunning
<1>10. CallerInv'
  <2>1. \A q \in Run : c \notin waiters[q]
    BY DEF IInv, CallerInv
  <2> QED
    BY <1>1, <1>3, <1>5, <2>1 DEF IInv, CallerInv, Outcome
<1>11. BridgeInv'
  BY <1>1, <1>3, <1>7 DEF IInv, BridgeInv
<1>12. DisconnectSparesNewRuns'
  BY <1>7 DEF IInv, DisconnectSparesNewRuns, EntryInv
<1> QED
  BY <1>8, <1>9, <1>10, <1>11, <1>12 DEF IInv

\* RunRegistry::wait: a sender left with an unfinished entry, its outcome, or
\* nothing to wait for.
LEMMA WaitStep ==
  ASSUME IInv, NEW c \in Caller, RegistryWait(c)
  PROVE  IInv'
<1>t. TypeOK
  BY DEF IInv
<1> DEFINE r == caller[c].run
<1>1. /\ UNCHANGED <<conn, bridge, drop, run, browserOf, peersOf, cutBy>>
      /\ caller[c].pc = "wait"
  BY DEF RegistryWait, history
<1>2. r \in Run /\ run[r] \in RunState /\ caller[c].answer = "none" /\ run[r].entry # "absent"
  BY <1>1, <1>t DEF IInv, CallerInv, TypeOK
<1>3. EntryInv' /\ OneRunning' /\ BridgeInv' /\ DisconnectSparesNewRuns'
  BY <1>1 DEF IInv, EntryInv, OneRunning, BridgeInv, DisconnectSparesNewRuns
<1>4. CASE run[r].entry = "running"
  <2>1. Goes(c, "waiting") /\ waiters' = [waiters EXCEPT ![r] = @ \cup {c}]
    BY <1>4 DEF RegistryWait, Goes
  <2>2. /\ caller' \in [Caller -> CallerState]
        /\ caller'[c].pc = "waiting" /\ caller'[c].run = r /\ caller'[c].answer = "none"
        /\ \A d \in Caller : d # c => caller'[d] = caller[d]
    BY <2>1, <1>2, <1>t, CallerGoes DEF TypeOK
  <2>3. /\ waiters' \in [Run -> SUBSET Caller]
        /\ waiters'[r] = waiters[r] \cup {c}
        /\ \A q \in Run : q # r => waiters'[q] = waiters[q]
    BY <2>1, <1>2, <1>t DEF TypeOK
  <2>4. TypeOK'
    BY <1>1, <2>2, <2>3, <1>t DEF TypeOK
  <2>5. CallerInv'
    BY <1>1, <1>2, <1>4, <2>2, <2>3 DEF IInv, CallerInv, Outcome
  <2> QED
    BY <1>3, <2>4, <2>5 DEF IInv
<1>5. CASE run[r].entry # "running"
  <2> DEFINE a == IF run[r].entry = "finished" THEN run[r].outcome ELSE "vanished"
  <2>1. Reply(c, a) /\ UNCHANGED waiters
    BY <1>5 DEF RegistryWait
  <2>2. a \in Answers
    BY <1>2 DEF RunState, Answers
  <2>3. a \in Outcome => run[r].entry = "finished" /\ a = run[r].outcome
    BY DEF Outcome
  <2> HIDE DEF a
  <2>4. /\ caller' \in [Caller -> CallerState]
        /\ caller'[c].pc = "done" /\ caller'[c].run = r /\ caller'[c].answer = a
        /\ \A d \in Caller : d # c => caller'[d] = caller[d]
    BY <2>1, <2>2, <1>t, Replied DEF TypeOK
  <2>5. TypeOK'
    BY <1>1, <2>1, <2>4, <1>t DEF TypeOK
  <2>6. CallerInv'
    BY <1>1, <1>2, <2>1, <2>3, <2>4 DEF IInv, CallerInv
  <2> QED
    BY <1>3, <2>5, <2>6 DEF IInv
<1> QED
  BY <1>4, <1>5

LEMMA TimeoutStep ==
  ASSUME IInv, NEW c \in Caller, WaitTimesOut(c)
  PROVE  IInv'
<1>t. TypeOK
  BY DEF IInv
<1>1. /\ UNCHANGED <<conn, bridge, drop, waiters, browserOf, peersOf, cutBy>>
      /\ Reply(c, "timeout") /\ caller[c].pc = "waiting"
      /\ run' = aborted(caller[c].run)
  BY DEF WaitTimesOut, history
<1>2. caller[c].run \in Run
  BY <1>1 DEF IInv, CallerInv
<1>3. run' \in [Run -> RunState] /\ SameRuns
  BY <1>1, <1>2, <1>t, AbortedRuns DEF SameRuns, TypeOK
<1>4. /\ caller' \in [Caller -> CallerState]
      /\ caller'[c].pc = "done" /\ caller'[c].run = caller[c].run
      /\ caller'[c].answer = "timeout"
      /\ \A d \in Caller : d # c => caller'[d] = caller[d]
  BY <1>1, <1>t, Replied DEF TypeOK, Answers
<1>5. TypeOK'
  BY <1>1, <1>3, <1>4, <1>t DEF TypeOK
<1>6. EntryInv' /\ OneRunning' /\ BridgeInv' /\ DisconnectSparesNewRuns'
  BY <1>1, <1>3 DEF IInv, EntryInv, OneRunning, BridgeInv, DisconnectSparesNewRuns, SameRuns
<1>7. CallerInv'
  BY <1>1, <1>3, <1>4 DEF IInv, CallerInv, SameRuns, Outcome
<1> QED
  BY <1>5, <1>6, <1>7 DEF IInv

LEMMA UserAbortsStep ==
  ASSUME IInv, NEW r \in Run, UserAborts(r)
  PROVE  IInv'
<1>t. TypeOK
  BY DEF IInv
<1>1. /\ UNCHANGED <<conn, bridge, drop, caller, waiters, browserOf, peersOf, cutBy>>
      /\ run' = aborted(r)
  BY DEF UserAborts, history
<1>2. run' \in [Run -> RunState] /\ SameRuns
  BY <1>1, <1>t, AbortedRuns DEF SameRuns, TypeOK
<1>3. TypeOK'
  BY <1>1, <1>2, <1>t DEF TypeOK
<1>4. EntryInv' /\ OneRunning' /\ BridgeInv' /\ DisconnectSparesNewRuns'
  BY <1>1, <1>2 DEF IInv, EntryInv, OneRunning, BridgeInv, DisconnectSparesNewRuns, SameRuns
<1>5. CallerInv'
  BY <1>1, <1>2 DEF IInv, CallerInv, SameRuns
<1> QED
  BY <1>3, <1>4, <1>5 DEF IInv

\* A finished run takes no step, so the outcome that was reported stays.
LEMMA RunStepStep ==
  ASSUME IInv, NEW r \in Run, RunStep(r)
  PROVE  IInv'
<1>t. TypeOK
  BY DEF IInv
<1>1. /\ UNCHANGED <<conn, bridge, drop, caller, waiters, peersOf, cutBy>>
      /\ run[r].entry # "absent"
  BY DEF RunStep, history
<1>2. PICK ph \in Phase, st \in SUBSET Wanted, o \in Outcome \cup {"none"} : Moves(r, ph, st, o)
  BY DEF RunStep, Moves
<1>3. /\ run' \in [Run -> RunState]
      /\ run'[r].entry = run[r].entry /\ run'[r].phase = ph /\ run'[r].outcome = o
      /\ \A q \in Run : q # r => run'[q] = run[q]
  BY <1>2, <1>t, RunMoves DEF TypeOK
<1>4. Lifecycle(r)!Next
  BY DEF RunStep
<1>5. /\ run[r].phase # "finished"
      /\ run'[r].phase \in {"ending", "released", "finished"} => run'[r].outcome \in Outcome
  BY <1>4, LifecycleSteps DEF IInv, EntryInv, Outcome
<1>6. \A q \in Run : /\ run'[q].entry = run[q].entry
                     /\ run[q].entry \in {"finished", "cleared"} => run'[q] = run[q]
  BY <1>3, <1>5 DEF IInv, EntryInv
<1>7. browserOf' \in [Run -> Conn \cup {NoConn}]
  BY <1>t DEF RunStep, TypeOK
<1>8. TypeOK'
  BY <1>1, <1>3, <1>7, <1>t DEF TypeOK
<1>9. EntryInv'
  BY <1>1, <1>3, <1>5 DEF IInv, EntryInv
<1>10. OneRunning' /\ BridgeInv' /\ DisconnectSparesNewRuns'
  BY <1>1, <1>6 DEF IInv, OneRunning, BridgeInv, DisconnectSparesNewRuns
<1>11. CallerInv'
  BY <1>1, <1>6 DEF IInv, CallerInv
<1> QED
  BY <1>8, <1>9, <1>10, <1>11 DEF IInv

\* The entry ends and its waiting calls are told the outcome in one step.
LEMMA RecordStep ==
  ASSUME IInv, NEW r \in Run, Record(r)
  PROVE  IInv'
<1>t. TypeOK
  BY DEF IInv
<1>1. /\ UNCHANGED <<conn, bridge, drop, browserOf, peersOf, cutBy>>
      /\ run[r].entry = "running" /\ run[r].phase = "finished"
  BY DEF Record, history
<1> DEFINE x == [run[r] EXCEPT !.entry = "finished"]
<1>2. run[r] \in RunState /\ run[r].outcome \in Outcome
  BY <1>1, <1>t DEF IInv, EntryInv, TypeOK
<1>3. /\ x \in RunState
      /\ x.entry = "finished" /\ x.phase = run[r].phase /\ x.outcome = run[r].outcome
  BY <1>2 DEF RunState
<1>4. run' = [run EXCEPT ![r] = x]
  BY DEF Record
<1> HIDE DEF x
<1>5. /\ run' \in [Run -> RunState]
      /\ run'[r].entry = "finished" /\ run'[r].phase = "finished"
      /\ run'[r].outcome = run[r].outcome
      /\ \A q \in Run : q # r => run'[q] = run[q]
  BY <1>1, <1>3, <1>4, <1>t DEF TypeOK
<1>6. /\ waiters' \in [Run -> SUBSET Caller]
      /\ waiters'[r] = {}
      /\ \A q \in Run : q # r => waiters'[q] = waiters[q]
  BY <1>t DEF Record, TypeOK
<1>7. ASSUME NEW c \in Caller
      PROVE  /\ caller'[c] \in CallerState
             /\ \/ /\ caller'[c] = caller[c]
                   /\ ~(c \in waiters[r] /\ caller[c].pc = "waiting")
                \/ /\ c \in waiters[r] /\ caller[c].pc = "waiting"
                   /\ caller'[c].pc = "done" /\ caller'[c].run = caller[c].run
                   /\ caller'[c].answer = run[r].outcome
  <2> DEFINE y == [caller[c] EXCEPT !.op = "none", !.pc = "done", !.answer = run[r].outcome]
  <2>1. caller[c] \in CallerState
    BY <1>t DEF TypeOK
  <2>2. /\ y \in CallerState
        /\ y.pc = "done" /\ y.run = caller[c].run /\ y.answer = run[r].outcome
    BY <2>1, <1>2 DEF CallerState
  <2>3. caller'[c] = IF c \in waiters[r] /\ caller[c].pc = "waiting" THEN y ELSE caller[c]
    BY DEF Record
  <2> HIDE DEF y
  <2> QED
    BY <2>1, <2>2, <2>3
<1>8. caller' \in [Caller -> CallerState]
  <2>1. caller' = [c \in Caller |-> caller'[c]]
    BY DEF Record
  <2> QED
    BY <1>7, <2>1
<1>9. TypeOK'
  BY <1>1, <1>5, <1>6, <1>8, <1>t DEF TypeOK
<1>10. EntryInv' /\ OneRunning' /\ BridgeInv' /\ DisconnectSparesNewRuns'
  BY <1>1, <1>2, <1>5 DEF IInv, EntryInv, OneRunning, BridgeInv, DisconnectSparesNewRuns
<1>11. CallerInv'
  <2> SUFFICES ASSUME NEW c \in Caller
               PROVE  /\ caller'[c].pc # "done" => caller'[c].answer = "none"
                      /\ caller'[c].pc \in {"wait", "waiting"} =>
                           caller'[c].run \in Run /\ run'[caller'[c].run].entry # "absent"
                      /\ caller'[c].pc = "waiting" =>
                           /\ run'[caller'[c].run].entry = "running"
                           /\ c \in waiters'[caller'[c].run]
                      /\ caller'[c].answer \in Outcome =>
                           /\ caller'[c].run \in Run
                           /\ run'[caller'[c].run].entry \in {"finished", "cleared"}
                           /\ caller'[c].answer = run'[caller'[c].run].outcome
                      /\ \A q \in Run : c \in waiters'[q] =>
                           caller'[c].run = q /\ caller'[c].pc \in {"waiting", "done"}
    BY DEF CallerInv
  <2>1. CASE c \in waiters[r] /\ caller[c].pc = "waiting"
    <3>1. /\ caller'[c].pc = "done" /\ caller'[c].run = caller[c].run
          /\ caller'[c].answer = run[r].outcome
      BY <1>7, <2>1
    <3>2. caller[c].run = r
      BY <2>1 DEF IInv, CallerInv
    <3> QED
      BY <1>5, <1>6, <2>1, <3>1, <3>2 DEF IInv, CallerInv
  <2>2. CASE ~(c \in waiters[r] /\ caller[c].pc = "waiting")
    <3>1. caller'[c] = caller[c]
      BY <1>7, <2>2
    <3>2. caller[c].pc = "waiting" => caller[c].run # r
      BY <2>2 DEF IInv, CallerInv
    <3> QED
      BY <1>1, <1>5, <1>6, <3>1, <3>2 DEF IInv, CallerInv
  <2> QED
    BY <2>1, <2>2
<1> QED
  BY <1>9, <1>10, <1>11 DEF IInv

LEMMA ClearStep ==
  ASSUME IInv, clear_finished
  PROVE  IInv'
<1>t. TypeOK
  BY DEF IInv
<1>1. UNCHANGED <<conn, bridge, drop, caller, waiters, browserOf, peersOf, cutBy>>
  BY DEF clear_finished, history
<1>2. ASSUME NEW q \in Run
      PROVE  /\ run'[q] \in RunState
             /\ run'[q].phase = run[q].phase /\ run'[q].outcome = run[q].outcome
             /\ run'[q].entry = IF run[q].entry = "finished" THEN "cleared" ELSE run[q].entry
  <2> DEFINE y == [run[q] EXCEPT !.entry = "cleared"]
  <2>1. run[q] \in RunState
    BY <1>t DEF TypeOK
  <2>2. /\ y \in RunState
        /\ y.entry = "cleared" /\ y.phase = run[q].phase /\ y.outcome = run[q].outcome
    BY <2>1 DEF RunState
  <2>3. run'[q] = IF run[q].entry = "finished" THEN y ELSE run[q]
    BY DEF clear_finished
  <2> HIDE DEF y
  <2> QED
    BY <2>1, <2>2, <2>3
<1>3. run' \in [Run -> RunState]
  <2>1. run' = [q \in Run |-> run'[q]]
    BY DEF clear_finished
  <2> QED
    BY <1>2, <2>1
<1>4. TypeOK'
  BY <1>1, <1>3, <1>t DEF TypeOK
<1>5. EntryInv' /\ OneRunning' /\ BridgeInv' /\ DisconnectSparesNewRuns'
  BY <1>1, <1>2 DEF IInv, EntryInv, OneRunning, BridgeInv, DisconnectSparesNewRuns
<1>6. CallerInv'
  BY <1>1, <1>2 DEF IInv, CallerInv
<1> QED
  BY <1>4, <1>5, <1>6 DEF IInv

----------------------------------------------------------------------------
LEMMA Initially ==
  ASSUME Init
  PROVE  IInv
<1>1. TypeOK
  BY DEF Init, TypeOK, ConnState, DropState, CallerState, RunState, Phase
<1>2. EntryInv /\ OneRunning /\ BridgeInv /\ DisconnectSparesNewRuns
  BY RunsAssumption DEF Init, EntryInv, OneRunning, BridgeInv, DisconnectSparesNewRuns
<1>3. CallerInv
  BY DEF Init, CallerInv, Outcome
<1> QED
  BY <1>1, <1>2, <1>3 DEF IInv

LEMMA Invariance == Spec => []IInv
<1>1. Init => IInv
  BY Initially
<1>2. IInv /\ [Next]_vars => IInv'
  <2> SUFFICES ASSUME IInv, [Next]_vars
               PROVE  IInv'
    OBVIOUS
  <2>1. CASE \E p \in Conn : Connect(p) \/ HelloArrives(p) \/ Attach(p) \/ Close(p)
    BY <2>1, ConnSteps, AttachStep
  <2>2. CASE \E p \in Conn : DropStep(p)
    BY <2>2, SnapshotStep, DetachStep, AbortSnapshotStep DEF DropStep
  <2>3. CASE \E c \in Caller, op \in Op : CheckLocked(c, op)
    BY <2>3, CheckSteps
  <2>4. CASE \E c \in Caller : CallerStep(c)
    <3>1. PICK c \in Caller : CallerStep(c)
      BY <2>4
    <3>2. CASE CheckConnected(c)
      BY <3>2, CheckSteps
    <3>3. CASE StartRun(c)
      <4>1. CASE active = {} /\ \E r \in Run : run[r].entry = "absent" /\ Insert(c, r)
        BY <3>3, <4>1, InsertStep DEF StartRun
      <4>2. CASE Reply(c, "refused") /\ UNCHANGED <<run, peersOf>>
        BY <3>3, <4>2, CheckSteps DEF StartRun, history
      <4> QED
        BY <3>3, <4>1, <4>2 DEF StartRun
    <3>4. CASE RegistryWait(c)
      BY <3>4, WaitStep
    <3>5. CASE WaitTimesOut(c)
      BY <3>5, TimeoutStep
    <3> QED
      BY <3>1, <3>2, <3>3, <3>4, <3>5 DEF CallerStep
  <2>5. CASE \E r \in Run : RunStep(r) \/ Record(r) \/ UserAborts(r)
    BY <2>5, RunStepStep, RecordStep, UserAbortsStep
  <2>6. CASE clear_finished
    BY <2>6, ClearStep
  <2>7. CASE UNCHANGED vars
    BY <2>7 DEF vars, history, IInv, TypeOK, EntryInv, OneRunning, CallerInv, BridgeInv,
                DisconnectSparesNewRuns
  <2> QED
    BY <2>1, <2>2, <2>3, <2>4, <2>5, <2>6, <2>7 DEF Next
<1> QED
  BY <1>1, <1>2, PTL DEF Spec

----------------------------------------------------------------------------
\* The registry lock gives the browser to one run at a time: however many calls
\* pass the vault and the bridge checks together, at most one run is between
\* its session_begin and the answer to its session_end (runs.rs start, record).
THEOREM BrowserIsExclusive == Spec => []OneDriver
<1>1. IInv => OneDriver
  <2> SUFFICES ASSUME IInv
               PROVE  OneDriver
    OBVIOUS
  <2> DEFINE D == {r \in Run : run[r].phase \in {"driving", "ending"}}
  <2>1. \A r \in D : r \in Run /\ run[r].entry = "running"
    BY DEF IInv, EntryInv, TypeOK, RunState
  <2>2. \A r, s \in D : r = s
    BY <2>1 DEF IInv, OneRunning
  <2>3. CASE D = {}
    BY <2>3, FS_EmptySet DEF OneDriver
  <2>4. CASE D # {}
    <3>1. PICK r \in D : TRUE
      BY <2>4
    <3>2. D = {r}
      BY <2>2, <3>1
    <3>3. Cardinality(D) = 1
      BY <3>2, FS_Singleton
    <3> QED
      BY <3>3 DEF OneDriver
  <2> QED
    BY <2>3, <2>4
<1> QED
  BY <1>1, Invariance, PTL

\* The loss of a connection never aborts a run the bridge did not hold that
\* connection during, whatever runs and connections come and go between the
\* steps of the callback (ipc_handler.rs on_disconnect).
THEOREM LossAbortsItsOwnRun == Spec => []DisconnectSparesNewRuns
<1>1. IInv => DisconnectSparesNewRuns
  BY DEF IInv
<1> QED
  BY <1>1, Invariance, PTL

\* The state is well typed, a call that waits is registered with an unfinished
\* entry, and what a call is told is its own run's outcome (runs.rs wait,
\* record, clear_finished).
THEOREM WaitersAnswered == Spec => []WaitersServed
<1>1. IInv => WaitersServed
  BY DEF IInv, CallerInv, WaitersServed
<1> QED
  BY <1>1, Invariance, PTL

=============================================================================
