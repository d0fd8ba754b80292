------------------------------- MODULE Peer -------------------------------
(***************************************************************************)
(* One end of a JSON-RPC connection.                                       *)
(*                                                                         *)
(* Tasks of the program call the remote side; a reader task resolves their *)
(* answers and queues what the remote side asks, a writer task drains an   *)
(* unbounded queue of lines.  A call waits with a timeout.  Calls, timers, *)
(* the two tasks, the consumer of the inbound queue and the remote side    *)
(* interleave; a call's id may outlive the call.                           *)
(*                                                                         *)
(* The end is an IpcClient, which holds the inbound queue and reads        *)
(* nothing from it until it is dropped, or (not client) a connection of    *)
(* IpcServer::serve.                                                       *)
(*                                                                         *)
(* Sources: crates/passvalet-ipc/src/{peer,server,client}.rs.              *)
(***************************************************************************)
EXTENDS Integers, Sequences

CONSTANTS
  Call,      \* invocations of call_value
  NoCall,    \* no call
  MaxId,     \* bound on next_id
  InCap,     \* capacity of the inbound queue (256 in the code)
  MaxIn      \* bound on what the remote side sends of its own

ASSUME PeerAssumption ==
  /\ NoCall \notin Call
  /\ MaxId \in Nat /\ InCap \in Nat \ {0} /\ MaxIn \in Nat

VARIABLES
  client,    \* TRUE: IpcClient, FALSE: IpcServer::serve
  next_id,   \* Peer.next_id
  pending,   \* Peer.pending: the call whose sender is stored under an id
  call,      \* the local state of call_value
  chan,      \* the oneshot channel of each call
  out,       \* lines queued for the writer task
  writer,    \* the writer task
  reader,    \* the reader task
  queue,     \* number of requests in the inbound queue
  receiver,  \* who holds the other end of that queue
  handlers,  \* number of handler tasks that have not responded yet
  stream,    \* whether the remote side is there
  wire,      \* lines from the remote side that are not read yet
  asked,     \* requests the remote side has read and not answered
  sent       \* number of requests the remote side has sent

taskVars == <<writer, reader, out>>
inVars == <<client, queue, receiver, handlers>>
remoteVars == <<stream, wire, asked, sent>>
vars == <<next_id, pending, call, chan, taskVars, inVars, remoteVars>>

----------------------------------------------------------------------------
Id == 1..MaxId

\* What a call returns: the answer to the request of a call, RpcError
\* unavailable, IpcError::Closed, IpcError::Timeout.
Outcome == [kind : {"answer", "unavailable", "closed", "timeout"},
            of : Call \cup {NoCall}]

Answer(c) == [kind |-> "answer", of |-> c]
Plain(k) == [kind |-> k, of |-> NoCall]

\* A channel is empty, holds an outcome, or its receiver is gone.
Channel == Outcome \cup {Plain("empty"), Plain("gone")}

CallState == [pc : {"idle", "inserted", "waiting", "expired", "done"},
              id : Id \cup {0}, result : Outcome \cup {Plain("none")}]

\* Lines: a request of this side, or what a handler of this side responds.
OutLine == [kind : {"request"}, id : Id, of : Call]
           \cup {[kind |-> "response", id |-> 0, of |-> NoCall]}

\* Lines of the remote side: an answer to the request id, a request or
\* notification, a line above MAX_MESSAGE_BYTES.
InLine == [kind : {"answer"}, id : Id, of : Call]
          \cup [kind : {"request", "huge"}, id : {0}, of : {NoCall}]

Init ==
  /\ client \in BOOLEAN
  /\ next_id = 1
  /\ pending = [i \in Id |-> NoCall]
  /\ call = [c \in Call |-> [pc |-> "idle", id |-> 0, result |-> Plain("none")]]
  /\ chan = [c \in Call |-> Plain("empty")]
  /\ out = <<>> /\ writer = "running" /\ reader = "reading"
  /\ queue = 0 /\ receiver = "held" /\ handlers = 0
  /\ stream = "open" /\ wire = <<>> /\ asked = {} /\ sent = 0

----------------------------------------------------------------------------
(***************************************************************************)
(* call_value.                                                             *)
(***************************************************************************)

\* fetch_add, a new oneshot channel, insert.
Insert(c) ==
  /\ call[c].pc = "idle" /\ next_id <= MaxId
  /\ next_id' = next_id + 1
  /\ pending' = [pending EXCEPT ![next_id] = c]
  /\ call' = [call EXCEPT ![c].pc = "inserted", ![c].id = next_id]
  /\ UNCHANGED <<chan, taskVars, inVars, remoteVars>>

\* send_raw queues the line, unless the writer task is gone: then the entry
\* is taken out again and the call fails.
Send(c) ==
  /\ call[c].pc = "inserted"
  /\ IF writer = "running"
     THEN /\ out' = Append(out, [kind |-> "request", id |-> call[c].id, of |-> c])
          /\ call' = [call EXCEPT ![c].pc = "waiting"]
          /\ UNCHANGED pending
     ELSE /\ pending' = [pending EXCEPT ![call[c].id] = NoCall]
          /\ call' = [call EXCEPT ![c].pc = "done", ![c].result = Plain("closed")]
          /\ UNCHANGED out
  /\ UNCHANGED <<next_id, chan, writer, reader, inVars, remoteVars>>

\* timeout polls the channel before the timer.
Receive(c) ==
  /\ call[c].pc = "waiting"
  /\ chan[c] # Plain("empty")
  /\ call' = [call EXCEPT ![c].pc = "done", ![c].result = chan[c]]
  /\ UNCHANGED <<next_id, pending, chan, taskVars, inVars, remoteVars>>

\* Mutant: no timeout.
Expire_never(c) == FALSE /\ UNCHANGED vars

\* The timer fires on an empty channel and the receiver is dropped ...
Expire(c) ==
  /\ call[c].pc = "waiting"
  /\ chan[c] = Plain("empty")
  /\ chan' = [chan EXCEPT ![c] = Plain("gone")]
  /\ call' = [call EXCEPT ![c].pc = "expired"]
  /\ UNCHANGED <<next_id, pending, taskVars, inVars, remoteVars>>

\* Mutant: the entry of an expired call stays.
RemoveExpired_leaks(c) ==
  /\ call[c].pc = "expired"
  /\ call' = [call EXCEPT ![c].pc = "done", ![c].result = Plain("timeout")]
  /\ UNCHANGED <<next_id, pending, chan, taskVars, inVars, remoteVars>>

\* ... and then the entry is removed.
RemoveExpired(c) ==
  /\ call[c].pc = "expired"
  /\ pending' = [pending EXCEPT ![call[c].id] = NoCall]
  /\ call' = [call EXCEPT ![c].pc = "done", ![c].result = Plain("timeout")]
  /\ UNCHANGED <<next_id, chan, taskVars, inVars, remoteVars>>

----------------------------------------------------------------------------
(***************************************************************************)
(* The writer task.                                                        *)
(***************************************************************************)
WriteLine ==
  /\ writer = "running" /\ out # <<>>
  /\ IF stream = "open"
     THEN /\ out' = Tail(out)
          /\ asked' = IF Head(out).kind = "request" THEN asked \cup {Head(out)}
                                                    ELSE asked
          /\ UNCHANGED writer
     ELSE /\ writer' = "ended" /\ out' = <<>>
          /\ UNCHANGED asked
  /\ UNCHANGED <<next_id, pending, call, chan, reader, inVars, stream, wire, sent>>

----------------------------------------------------------------------------
(***************************************************************************)
(* The reader task.                                                        *)
(***************************************************************************)

\* A send on a oneshot channel whose receiver is gone is lost.
Sent(ch, v) == IF ch = Plain("empty") THEN v ELSE ch

\* Mutant: an answer goes to whichever call was made last.
resolve_last(id, v) ==
  /\ pending' = [pending EXCEPT ![id] = NoCall]
  /\ chan' = [c \in Call |-> IF call[c].id = next_id - 1 /\ next_id > 1
                             THEN Sent(chan[c], v) ELSE chan[c]]

\* resolve: whoever removes the entry sends.
resolve(id, v) ==
  /\ pending' = [pending EXCEPT ![id] = NoCall]
  /\ chan' = [c \in Call |-> IF c = pending[id] THEN Sent(chan[c], v) ELSE chan[c]]

\* dispatch of an answer.
ReadAnswer ==
  /\ reader = "reading" /\ wire # <<>> /\ Head(wire).kind = "answer"
  /\ resolve(Head(wire).id, Answer(Head(wire).of))
  /\ wire' = Tail(wire)
  /\ UNCHANGED <<next_id, call, taskVars, inVars, stream, asked, sent>>

\* dispatch of a request: in_tx.send waits while the queue is full, and is an
\* ignored error when nobody holds the queue.
Enqueue ==
  \/ receiver = "held" /\ queue < InCap /\ queue' = queue + 1
  \/ receiver = "dropped" /\ UNCHANGED queue

ReadRequest ==
  /\ reader = "reading" /\ wire # <<>> /\ Head(wire).kind = "request"
  /\ wire' = Tail(wire)
  /\ \/ Enqueue /\ UNCHANGED reader
     \/ receiver = "held" /\ queue = InCap /\ reader' = "blocked" /\ UNCHANGED queue
  /\ UNCHANGED <<next_id, pending, call, chan, writer, out, client, receiver,
                 handlers, stream, asked, sent>>

Unblock ==
  /\ reader = "blocked"
  /\ Enqueue
  /\ reader' = "reading"
  /\ UNCHANGED <<next_id, pending, call, chan, writer, out, client, receiver,
                 handlers, remoteVars>>

\* Mutant: the end of the stream is taken for an empty line.
LoopEnds_noEof ==
  \/ wire # <<>> /\ Head(wire).kind = "huge"
  \/ receiver = "dropped"

\* The loop ends at the end of the stream, at a line that is too large, or
\* when nobody holds the inbound queue.
LoopEnds ==
  \/ wire = <<>> /\ stream = "closed"
  \/ wire # <<>> /\ Head(wire).kind = "huge"
  \/ receiver = "dropped"

\* fail_all drains the table and sends an error to every call in it.
fail_all ==
  /\ reader = "reading" /\ LoopEnds
  /\ reader' = "failed"
  /\ pending' = [i \in Id |-> NoCall]
  /\ chan' = [c \in Call |->
       IF \E i \in Id : pending[i] = c THEN Sent(chan[c], Plain("unavailable"))
                                       ELSE chan[c]]
  /\ UNCHANGED <<next_id, call, writer, out, inVars, remoteVars>>

\* Mutant: the writer task is left alone.
AbortWriter_leaves ==
  /\ reader = "failed"
  /\ reader' = "ended"
  /\ UNCHANGED <<next_id, pending, call, chan, writer, out, inVars, remoteVars>>

\* The writer task is aborted and awaited; with it and the reader both halves
\* of the stream are gone, and with the reader the sender of the queue.
AbortWriter ==
  /\ reader = "failed"
  /\ reader' = "ended"
  /\ writer' = "ended" /\ out' = <<>>
  /\ stream' = "closed"
  /\ UNCHANGED <<next_id, pending, call, chan, inVars, wire, asked, sent>>

----------------------------------------------------------------------------
(***************************************************************************)
(* The other end of the inbound queue.                                     *)
(***************************************************************************)

\* serve: a task per request.
Consume ==
  /\ ~client /\ receiver = "held" /\ queue > 0
  /\ queue' = queue - 1 /\ handlers' = handlers + 1
  /\ UNCHANGED <<next_id, pending, call, chan, taskVars, client, receiver, remoteVars>>

\* respond: nothing happens when the writer task is gone.
Respond ==
  /\ handlers > 0
  /\ handlers' = handlers - 1
  /\ out' = IF writer = "running"
            THEN Append(out, [kind |-> "response", id |-> 0, of |-> NoCall])
            ELSE out
  /\ UNCHANGED <<next_id, pending, call, chan, writer, reader, client, queue,
                 receiver, remoteVars>>

\* serve: the queue is empty and its sender gone; on_disconnect runs.
on_disconnect ==
  /\ ~client /\ receiver = "held" /\ queue = 0 /\ reader = "ended"
  /\ receiver' = "disconnected"
  /\ UNCHANGED <<next_id, pending, call, chan, taskVars, client, queue, handlers, remoteVars>>

\* An IpcClient is dropped, and the queue with it.
DropClient ==
  /\ client /\ receiver = "held"
  /\ receiver' = "dropped" /\ queue' = 0
  /\ UNCHANGED <<next_id, pending, call, chan, taskVars, client, handlers, remoteVars>>

----------------------------------------------------------------------------
(***************************************************************************)
(* The remote side answers in any order, or not at all, and may go away.   *)
(***************************************************************************)
RemoteAnswers(r) ==
  /\ stream = "open"
  /\ asked' = asked \ {r}
  /\ wire' = Append(wire, [kind |-> "answer", id |-> r.id, of |-> r.of])
  /\ UNCHANGED <<next_id, pending, call, chan, taskVars, inVars, stream, sent>>

RemoteSends(k) ==
  /\ stream = "open" /\ sent < MaxIn
  /\ sent' = sent + 1
  /\ wire' = Append(wire, [kind |-> k, id |-> 0, of |-> NoCall])
  /\ UNCHANGED <<next_id, pending, call, chan, taskVars, inVars, stream, asked>>

RemoteCloses ==
  /\ stream = "open"
  /\ stream' = "closed"
  /\ UNCHANGED <<next_id, pending, call, chan, taskVars, inVars, wire, asked, sent>>

----------------------------------------------------------------------------
CallNext(c) == Send(c) \/ Receive(c) \/ Expire(c) \/ RemoveExpired(c)

ReaderNext == ReadAnswer \/ ReadRequest \/ Unblock \/ fail_all \/ AbortWriter

ConsumerNext == Consume \/ on_disconnect

Next ==
  \/ \E c \in Call : Insert(c) \/ CallNext(c)
  \/ WriteLine
  \/ ReaderNext
  \/ ConsumerNext
  \/ Respond
  \/ DropClient
  \/ \E r \in asked : RemoteAnswers(r)
  \/ \E k \in {"request", "huge"} : RemoteSends(k)
  \/ RemoteCloses

Spec == Init /\ [][Next]_vars

\* The runtime polls every task that can go on; nothing is assumed of the
\* remote side, or of when a client is dropped.
FairSpec ==
  /\ Spec
  /\ \A c \in Call : WF_vars(CallNext(c))
  /\ WF_vars(WriteLine) /\ WF_vars(ReaderNext) /\ WF_vars(ConsumerNext)

----------------------------------------------------------------------------
\* Types of the table, the calls, the channels, the queues and the tasks.
TypeOK ==
  /\ client \in BOOLEAN /\ next_id \in 1..(MaxId + 1)
  /\ pending \in [Id -> Call \cup {NoCall}]
  /\ call \in [Call -> CallState]
  /\ chan \in [Call -> Channel]
  /\ out \in Seq(OutLine) /\ writer \in {"running", "ended"}
  /\ reader \in {"reading", "blocked", "failed", "ended"}
  /\ queue \in 0..InCap /\ receiver \in {"held", "dropped", "disconnected"}
  /\ handlers \in Nat
  /\ stream \in {"open", "closed"} /\ wire \in Seq(InLine)
  /\ asked \subseteq OutLine /\ sent \in 0..MaxIn

\* A call that returns an answer returns the answer to its own request: not
\* one that came late for a call that gave up, and not that of another call
\* (peer.rs call_value, resolve).
AnswersMatch ==
  \A c \in Call : call[c].result.kind = "answer" => call[c].result.of = c

\* The state is well typed and the table of pending calls is exact: an entry belongs to a call that has
\* not returned, so nothing leaks, and a call whose channel is still empty has
\* its entry, so an answer or fail_all can reach it (peer.rs call_value,
\* resolve, fail_all).
PendingExact ==
  /\ TypeOK
  /\ \A i \in Id : pending[i] # NoCall =>
       /\ call[pending[i]].pc \in {"inserted", "waiting", "expired"}
       /\ call[pending[i]].id = i
  /\ \A c \in Call :
       call[c].pc = "waiting" /\ chan[c] = Plain("empty") => pending[call[c].id] = c

\* on_disconnect comes last: every request that was read has its handler, and
\* from then on no line reaches the remote side and no answer comes from it,
\* although calls still have the Peer (server.rs serve; the run registry's
\* cleanup relies on it).
DisconnectIsLast ==
  [][receiver = "disconnected" =>
       queue = 0 /\ asked' \subseteq asked /\ wire' = wire /\ stream = "closed"]_vars

\* Every call that was made returns, even if the remote side never answers and
\* even if it was made while fail_all drained the table (peer.rs call_value).
CallReturns == \A c \in Call : call[c].pc = "inserted" ~> call[c].pc = "done"

\* "Both reader and writer tasks end when the stream closes or the returned
\* receiver is dropped" (peer.rs lines 149-150).  The first half holds where
\* somebody reads the inbound queue, in serve; an IpcClient does not.
TasksEnd ==
  ((stream = "closed" /\ ~client) \/ receiver = "dropped")
    ~> (reader = "ended" /\ writer = "ended")

============================================================================
