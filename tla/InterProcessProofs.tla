------------------------- MODULE InterProcessProofs -------------------------
(***************************************************************************)
(* Proofs about what processes share through the operating system, for any *)
(* number of processes:                                                    *)
(*   - Peer, a connection: its invariants and its action property;         *)
(*   - Socket, the path of the app's socket: its invariant;                *)
(*   - EnvFile, a project's env file: that injections are serial.          *)
(* The three have nothing in common; the assumptions of the instance are   *)
(* hypotheses of its theorem.                                              *)
(***************************************************************************)
EXTENDS Peer, Socket, TLAPS

CONSTANTS Proc, NoProc, Key, Value, Quoted, OldValue, NoKey, NoValue, MaxLines

VARIABLES file, lock, inj, original, committed

Env == INSTANCE EnvFile

----------------------------------------------------------------------------
(***************************************************************************)
(* The inductive invariant.                                                *)
(***************************************************************************)

\* A call has an id from its insertion on, which no other call has, and drops
\* its receiver only when it expires.
IdInv ==
  /\ \A c \in Call : /\ call[c].pc = "idle" <=> call[c].id = 0
                     /\ call[c].id < next_id
                     /\ call[c].pc = "idle" => chan[c] = Plain("empty")
                     /\ call[c].pc \in {"inserted", "waiting"} => chan[c] # Plain("gone")
  /\ \A c, d \in Call : call[c].id = call[d].id /\ call[c].id # 0 => c = d

\* The table: an entry's call has not returned, has that id, and nothing was sent
\* to it; a call that can still be answered has its entry.
TableInv ==
  /\ \A i \in Id : pending[i] # NoCall =>
       /\ call[pending[i]].pc \in {"inserted", "waiting", "expired"}
       /\ call[pending[i]].id = i
       /\ call[pending[i]].pc # "expired" => chan[pending[i]] = Plain("empty")
  /\ \A c \in Call :
       call[c].pc \in {"inserted", "waiting"} /\ chan[c] = Plain("empty")
         => pending[call[c].id] = c

\* A request, or an answer, that is under way names a call and its id.
Names(line) == line.of \in Call /\ call[line.of].id = line.id

LineInv ==
  /\ \A n \in 1..Len(out) : out[n].kind = "request" => Names(out[n])
  /\ \A line \in asked : line.kind = "request" /\ Names(line)
  /\ \A n \in 1..Len(wire) : wire[n].kind = "answer" => Names(wire[n])

\* What is in a call's channel is its own answer.
ChannelInv == \A c \in Call : chan[c].kind = "answer" => chan[c].of = c

\* The tasks end in order: reader, writer and stream, queue, callback.
EndInv ==
  /\ reader = "ended" => writer = "ended" /\ stream = "closed"
  /\ receiver = "disconnected" => queue = 0 /\ reader = "ended"

IInv ==
  /\ TypeOK
  /\ IdInv
  /\ TableInv
  /\ LineInv
  /\ ChannelInv
  /\ AnswersMatch
  /\ EndInv

----------------------------------------------------------------------------
(***************************************************************************)
(* Lemmas about the operators.                                             *)
(***************************************************************************)
LEMMA PlainDistinct ==
  /\ \A k \in {"unavailable", "closed", "timeout"} : Plain(k) \in Outcome
  /\ \A c \in Call : Answer(c) \in Outcome
  /\ Plain("empty") \in Channel /\ Plain("gone") \in Channel
  /\ Plain("empty") # Plain("gone") /\ Plain("none") \notin Outcome
  /\ \A o \in Outcome : o \in Channel /\ o # Plain("empty") /\ o # Plain("gone")
  /\ \A k \in {"unavailable", "closed", "timeout", "empty", "gone", "none"} :
       Plain(k).kind # "answer"
  /\ \A c \in Call : Answer(c).kind = "answer" /\ Answer(c).of = c
BY DEF Plain, Answer, Outcome, Channel

\* The ways in which a call moves on, and the fields of the calls after it.
Goes(c, p) == call' = [call EXCEPT ![c].pc = p]
Numbered(c) == call' = [call EXCEPT ![c].pc = "inserted", ![c].id = next_id]
Returns(c, o) == call' = [call EXCEPT ![c].pc = "done", ![c].result = o]

LEMMA CallGoes ==
  ASSUME call \in [Call -> CallState], NEW c \in Call, NEW p \in {"waiting", "expired"}, Goes(c, p)
  PROVE  /\ call' \in [Call -> CallState]
         /\ call'[c].pc = p /\ call'[c].id = call[c].id /\ call'[c].result = call[c].result
         /\ \A d \in Call : d # c => call'[d] = call[d]
<1> DEFINE x == [call[c] EXCEPT !.pc = p]
<1>1. call[c] \in CallState
  OBVIOUS
<1>2. x \in CallState /\ x.pc = p /\ x.id = call[c].id /\ x.result = call[c].result
  BY <1>1 DEF CallState
<1>3. call' = [call EXCEPT ![c] = x]
  BY DEF Goes
<1> HIDE DEF x, CallState
<1> QED
  BY <1>2, <1>3

LEMMA CallNumbered ==
  ASSUME call \in [Call -> CallState], NEW c \in Call, next_id \in Id, Numbered(c)
  PROVE  /\ call' \in [Call -> CallState]
         /\ call'[c].pc = "inserted" /\ call'[c].id = next_id /\ call'[c].result = call[c].result
         /\ \A d \in Call : d # c => call'[d] = call[d]
<1> DEFINE x == [call[c] EXCEPT !.pc = "inserted", !.id = next_id]
<1>1. call[c] \in CallState
  OBVIOUS
<1>2. x \in CallState /\ x.pc = "inserted" /\ x.id = next_id /\ x.result = call[c].result
  BY <1>1 DEF CallState
<1>3. call' = [call EXCEPT ![c] = x]
  BY DEF Numbered
<1> HIDE DEF x, CallState
<1> QED
  BY <1>2, <1>3

LEMMA CallReturned ==
  ASSUME call \in [Call -> CallState], NEW c \in Call, NEW o \in Outcome, Returns(c, o)
  PROVE  /\ call' \in [Call -> CallState]
         /\ call'[c].pc = "done" /\ call'[c].id = call[c].id /\ call'[c].result = o
         /\ \A d \in Call : d # c => call'[d] = call[d]
<1> DEFINE x == [call[c] EXCEPT !.pc = "done", !.result = o]
<1>1. call[c] \in CallState
  OBVIOUS
<1>2. x \in CallState /\ x.pc = "done" /\ x.id = call[c].id /\ x.result = o
  BY <1>1 DEF CallState
<1>3. call' = [call EXCEPT ![c] = x]
  BY DEF Returns
<1> HIDE DEF x, CallState
<1> QED
  BY <1>2, <1>3

LEMMA AppendElements ==
  ASSUME NEW S, NEW s \in Seq(S), NEW x \in S
  PROVE  /\ Append(s, x) \in Seq(S)
         /\ \A n \in 1..Len(Append(s, x)) :
              Append(s, x)[n] = x \/ \E m \in 1..Len(s) : Append(s, x)[n] = s[m]
<1>1. ASSUME NEW n \in 1..Len(Append(s, x))
      PROVE  Append(s, x)[n] = x \/ \E m \in 1..Len(s) : Append(s, x)[n] = s[m]
  <2>1. CASE n \in 1..Len(s)
    BY <2>1
  <2>2. CASE n = Len(s) + 1
    BY <2>2
  <2> QED
    BY <2>1, <2>2
<1> QED
  BY <1>1

LEMMA TailElements ==
  ASSUME NEW S, NEW s \in Seq(S), s # <<>>
  PROVE  /\ Tail(s) \in Seq(S) /\ Head(s) \in S
         /\ \E m \in 1..Len(s) : Head(s) = s[m]
         /\ \A n \in 1..Len(Tail(s)) : \E m \in 1..Len(s) : Tail(s)[n] = s[m]
<1>1. 1 \in 1..Len(s) /\ Head(s) = s[1] /\ Tail(s) \in Seq(S) /\ Head(s) \in S
  OBVIOUS
<1>2. ASSUME NEW n \in 1..Len(Tail(s))
      PROVE  n + 1 \in 1..Len(s) /\ Tail(s)[n] = s[n + 1]
  OBVIOUS
<1> QED
  BY <1>1, <1>2

----------------------------------------------------------------------------
(***************************************************************************)
(* The invariant is inductive.                                             *)
(***************************************************************************)
LEMMA InitIInv == Init => IInv
<1> SUFFICES ASSUME Init PROVE IInv
  OBVIOUS
<1>1. TypeOK
  BY PeerAssumption, PlainDistinct DEF Init, TypeOK, CallState
<1>2. IdInv /\ TableInv /\ ChannelInv /\ AnswersMatch
  BY PlainDistinct DEF Init, IdInv, TableInv, ChannelInv, AnswersMatch
<1>3. LineInv /\ EndInv
  BY DEF Init, LineInv, EndInv
<1> QED
  BY <1>1, <1>2, <1>3 DEF IInv

\* Lines stay good if calls keep their ids and every line was there before or
\* names a call.
LEMMA LineFrame ==
  ASSUME TypeOK, LineInv,
         \A c \in Call : call[c].id # 0 => call'[c].id = call[c].id,
         \A n \in 1..Len(out') :
           (\E m \in 1..Len(out) : out'[n] = out[m])
             \/ (out[n].kind = "request" => Names(out[n]))',
         \A line \in asked' : line \in asked \/ (line.kind = "request" /\ Names(line)'),
         \A n \in 1..Len(wire') :
           (\E m \in 1..Len(wire) : wire'[n] = wire[m])
             \/ (wire[n].kind = "answer" => Names(wire[n]))'
  PROVE  LineInv'
<1>1. ASSUME NEW line, line.id \in Id, Names(line) PROVE Names(line)'
  BY <1>1, PeerAssumption DEF Names, Id
<1>2. \A m \in 1..Len(out) : out[m].kind = "request" => out[m].id \in Id
  BY DEF TypeOK, OutLine
<1>3. \A line \in asked : line.kind = "request" => line.id \in Id
  BY DEF TypeOK, OutLine
<1>4. \A m \in 1..Len(wire) : wire[m].kind = "answer" => wire[m].id \in Id
  BY DEF TypeOK, InLine
<1>5. (\A n \in 1..Len(out) : out[n].kind = "request" => Names(out[n]))'
  BY <1>1, <1>2 DEF LineInv
<1>6. \A line \in asked' : line.kind = "request" /\ Names(line)'
  BY <1>1, <1>3 DEF LineInv
<1>7. (\A n \in 1..Len(wire) : wire[n].kind = "answer" => Names(wire[n]))'
  BY <1>1, <1>4 DEF LineInv
<1> QED
  BY <1>5, <1>6, <1>7 DEF LineInv

LEMMA StepInsert ==
  ASSUME IInv, NEW c \in Call, Insert(c)
  PROVE  IInv'
<1>1. /\ TypeOK /\ IdInv /\ TableInv /\ LineInv /\ ChannelInv /\ AnswersMatch /\ EndInv
      /\ next_id \in Id /\ call[c].id = 0 /\ call[c].pc = "idle"
  BY DEF IInv, Insert, IdInv, TypeOK, Id
<1>2. /\ call \in [Call -> CallState] /\ call[c].result \in Outcome \cup {Plain("none")}
  BY <1>1 DEF TypeOK, CallState
<1>3. /\ call' \in [Call -> CallState]
      /\ call'[c].pc = "inserted" /\ call'[c].id = next_id /\ call'[c].result = call[c].result
      /\ \A d \in Call : d # c => call'[d] = call[d]
  <2>1. Numbered(c)
    BY DEF Insert, Numbered
  <2> QED
    BY <1>1, <1>2, <2>1, CallNumbered
<1>4. TypeOK'
  BY <1>1, <1>3, PeerAssumption DEF Insert, TypeOK, Id, taskVars, inVars, remoteVars
<1>5. IdInv'
  BY <1>1, <1>2, <1>3 DEF Insert, IdInv, Id, TypeOK, CallState
<1>6. TableInv'
  BY <1>1, <1>2, <1>3, PeerAssumption DEF Insert, TableInv, IdInv, Id, TypeOK, CallState
<1>7. LineInv'
  BY <1>1, <1>3, LineFrame DEF Insert, taskVars, remoteVars
<1>8. ChannelInv' /\ AnswersMatch' /\ EndInv'
  BY <1>1, <1>3 DEF Insert, ChannelInv, AnswersMatch, EndInv, taskVars, inVars, remoteVars
<1> QED
  BY <1>4, <1>5, <1>6, <1>7, <1>8 DEF IInv

LEMMA StepSend ==
  ASSUME IInv, NEW c \in Call, Send(c)
  PROVE  IInv'
<1>1. /\ TypeOK /\ IdInv /\ TableInv /\ LineInv /\ ChannelInv /\ AnswersMatch /\ EndInv
      /\ call \in [Call -> CallState] /\ call[c].pc = "inserted"
  BY DEF IInv, Send, TypeOK
<1>2. /\ call[c].id \in Id /\ call[c].result \in Outcome \cup {Plain("none")}
  BY <1>1 DEF IdInv, CallState
<1>3. CASE writer = "running"
  <2>1. /\ call' = [call EXCEPT ![c].pc = "waiting"]
        /\ out' = Append(out, [kind |-> "request", id |-> call[c].id, of |-> c])
        /\ UNCHANGED <<next_id, chan, pending, writer, reader, inVars, remoteVars>>
    BY <1>3 DEF Send
  <2>2. /\ call' \in [Call -> CallState]
        /\ call'[c].pc = "waiting" /\ call'[c].id = call[c].id /\ call'[c].result = call[c].result
        /\ \A d \in Call : d # c => call'[d] = call[d]
    <3>1. Goes(c, "waiting")
      BY <2>1 DEF Goes
    <3> QED
      BY <1>1, <3>1, CallGoes
  <2> DEFINE line == [kind |-> "request", id |-> call[c].id, of |-> c]
  <2>3. line \in OutLine /\ out \in Seq(OutLine) /\ out' = Append(out, line)
    BY <1>1, <1>2, <2>1 DEF OutLine, TypeOK
  <2>4. line.of = c /\ line.id = call[c].id
    OBVIOUS
  <2>5. TypeOK'
    BY <1>1, <2>1, <2>2, <2>3, AppendElements DEF TypeOK, inVars, remoteVars
  <2>6. IdInv'
    BY <1>1, <2>1, <2>2 DEF IdInv
  <2>7. TableInv'
    BY <1>1, <2>1, <2>2, PeerAssumption DEF TableInv, TypeOK
  <2>8. LineInv'
    <3>1. \A n \in 1..Len(out') : out'[n] = line \/ \E m \in 1..Len(out) : out'[n] = out[m]
      BY <2>3, AppendElements
    <3>2. line.of \in Call /\ call'[line.of].id = line.id
      BY <2>2, <2>4
    <3> HIDE DEF line
    <3>3. \A n \in 1..Len(out') :
            (\E m \in 1..Len(out) : out'[n] = out[m])
              \/ (out[n].kind = "request" => Names(out[n]))'
      BY <3>1, <3>2 DEF Names
    <3> QED
      BY <1>1, <2>1, <2>2, <3>3, LineFrame DEF remoteVars
  <2>9. ChannelInv' /\ AnswersMatch' /\ EndInv'
    BY <1>1, <2>1, <2>2 DEF ChannelInv, AnswersMatch, EndInv, inVars, remoteVars
  <2> QED
    BY <2>5, <2>6, <2>7, <2>8, <2>9 DEF IInv
<1>4. CASE writer # "running"
  <2>1. /\ call' = [call EXCEPT ![c].pc = "done", ![c].result = Plain("closed")]
        /\ pending' = [pending EXCEPT ![call[c].id] = NoCall]
        /\ UNCHANGED <<next_id, chan, out, writer, reader, inVars, remoteVars>>
    BY <1>4 DEF Send
  <2>2. /\ call' \in [Call -> CallState]
        /\ call'[c].pc = "done" /\ call'[c].id = call[c].id /\ call'[c].result = Plain("closed")
        /\ \A d \in Call : d # c => call'[d] = call[d]
    <3>1. Plain("closed") \in Outcome /\ Returns(c, Plain("closed"))
      BY <2>1, PlainDistinct DEF Returns
    <3> QED
      BY <1>1, <3>1, CallReturned
  <2>3. TypeOK'
    BY <1>1, <2>1, <2>2 DEF TypeOK, inVars, remoteVars
  <2>4. IdInv'
    BY <1>1, <2>1, <2>2 DEF IdInv
  <2>5. TableInv'
    BY <1>1, <1>2, <2>1, <2>2, PeerAssumption DEF TableInv, IdInv, TypeOK, CallState
  <2>6. LineInv'
    BY <1>1, <2>1, <2>2, LineFrame DEF remoteVars
  <2>7. ChannelInv' /\ AnswersMatch' /\ EndInv'
    BY <1>1, <2>1, <2>2, PlainDistinct DEF ChannelInv, AnswersMatch, EndInv, inVars, remoteVars
  <2> QED
    BY <2>3, <2>4, <2>5, <2>6, <2>7 DEF IInv
<1> QED
  BY <1>3, <1>4

LEMMA StepReceive ==
  ASSUME IInv, NEW c \in Call, Receive(c)
  PROVE  IInv'
<1>1. /\ TypeOK /\ IdInv /\ TableInv /\ LineInv /\ ChannelInv /\ AnswersMatch /\ EndInv
      /\ call \in [Call -> CallState] /\ call[c].pc = "waiting"
      /\ UNCHANGED <<next_id, pending, chan, taskVars, inVars, remoteVars>>
  BY DEF IInv, Receive, TypeOK
<1>2. chan[c] \in Outcome /\ Returns(c, chan[c])
  BY <1>1 DEF Receive, Returns, IdInv, TypeOK, Channel
<1>3. /\ call' \in [Call -> CallState]
      /\ call'[c].pc = "done" /\ call'[c].id = call[c].id /\ call'[c].result = chan[c]
      /\ \A d \in Call : d # c => call'[d] = call[d]
  BY <1>1, <1>2, CallReturned
<1>4. TypeOK'
  BY <1>1, <1>3 DEF TypeOK, taskVars, inVars, remoteVars
<1>5. IdInv'
  BY <1>1, <1>3 DEF IdInv
<1>6. TableInv'
  <2>1. chan[c] # Plain("empty")
    BY <1>2, PlainDistinct
  <2>2. \A i \in Id : pending[i] # c
    BY <1>1, <2>1, PeerAssumption DEF TableInv
  <2> QED
    BY <1>1, <1>3, <2>2, PeerAssumption DEF TableInv, TypeOK
<1>7. LineInv'
  BY <1>1, <1>3, LineFrame DEF taskVars, remoteVars
<1>8. ChannelInv' /\ AnswersMatch' /\ EndInv'
  BY <1>1, <1>3 DEF ChannelInv, AnswersMatch, EndInv, taskVars, inVars, remoteVars
<1> QED
  BY <1>4, <1>5, <1>6, <1>7, <1>8 DEF IInv

LEMMA StepExpire ==
  ASSUME IInv, NEW c \in Call, Expire(c)
  PROVE  IInv'
<1>1. /\ TypeOK /\ IdInv /\ TableInv /\ LineInv /\ ChannelInv /\ AnswersMatch /\ EndInv
      /\ call \in [Call -> CallState] /\ call[c].pc = "waiting"
      /\ chan' = [chan EXCEPT ![c] = Plain("gone")]
      /\ UNCHANGED <<next_id, pending, taskVars, inVars, remoteVars>>
  BY DEF IInv, Expire, TypeOK
<1>2. Goes(c, "expired")
  BY DEF Expire, Goes
<1>3. /\ call' \in [Call -> CallState]
      /\ call'[c].pc = "expired" /\ call'[c].id = call[c].id /\ call'[c].result = call[c].result
      /\ \A d \in Call : d # c => call'[d] = call[d]
  BY <1>1, <1>2, CallGoes
<1>4. /\ chan' \in [Call -> Channel] /\ chan'[c] = Plain("gone")
      /\ \A d \in Call : d # c => chan'[d] = chan[d]
  BY <1>1, PlainDistinct DEF TypeOK
<1>5. TypeOK'
  BY <1>1, <1>3, <1>4 DEF TypeOK, taskVars, inVars, remoteVars
<1>6. IdInv'
  BY <1>1, <1>3, <1>4 DEF IdInv
<1>7. TableInv'
  BY <1>1, <1>3, <1>4, PeerAssumption DEF TableInv, TypeOK
<1>8. LineInv'
  BY <1>1, <1>3, LineFrame DEF taskVars, remoteVars
<1>9. ChannelInv' /\ AnswersMatch' /\ EndInv'
  BY <1>1, <1>3, <1>4, PlainDistinct
     DEF ChannelInv, AnswersMatch, EndInv, taskVars, inVars, remoteVars
<1> QED
  BY <1>5, <1>6, <1>7, <1>8, <1>9 DEF IInv

LEMMA StepRemoveExpired ==
  ASSUME IInv, NEW c \in Call, RemoveExpired(c)
  PROVE  IInv'
<1>1. /\ TypeOK /\ IdInv /\ TableInv /\ LineInv /\ ChannelInv /\ AnswersMatch /\ EndInv
      /\ call \in [Call -> CallState] /\ call[c].pc = "expired"
      /\ pending' = [pending EXCEPT ![call[c].id] = NoCall]
      /\ UNCHANGED <<next_id, chan, taskVars, inVars, remoteVars>>
  BY DEF IInv, RemoveExpired, TypeOK
<1>2. Plain("timeout") \in Outcome /\ Returns(c, Plain("timeout"))
  BY PlainDistinct DEF RemoveExpired, Returns
<1>3. /\ call' \in [Call -> CallState]
      /\ call'[c].pc = "done" /\ call'[c].id = call[c].id /\ call'[c].result = Plain("timeout")
      /\ \A d \in Call : d # c => call'[d] = call[d]
  BY <1>1, <1>2, CallReturned
<1>4. call[c].id \in Id
  BY <1>1 DEF IdInv, CallState
<1>5. TypeOK'
  BY <1>1, <1>3 DEF TypeOK, taskVars, inVars, remoteVars
<1>6. IdInv'
  BY <1>1, <1>3 DEF IdInv
<1>7. TableInv'
  <2>1. ASSUME NEW i \in Id, pending'[i] # NoCall
        PROVE  pending'[i] = pending[i] /\ pending[i] \in Call /\ pending[i] # c
    BY <1>1, <1>4, <2>1 DEF TableInv, TypeOK
  <2>2. ASSUME NEW d \in Call, call'[d].pc \in {"inserted", "waiting"}, chan'[d] = Plain("empty")
        PROVE  pending'[call'[d].id] = d
    <3>1. d # c /\ call'[d] = call[d] /\ pending[call[d].id] = d
      BY <1>1, <1>3, <2>2 DEF TableInv
    <3>2. call[d].id # call[c].id /\ call[d].id \in Id
      BY <1>1, <2>2, <3>1 DEF IdInv, TypeOK, CallState
    <3> QED
      BY <1>1, <3>1, <3>2 DEF TypeOK
  <2>3. \A i \in Id : pending'[i] # NoCall =>
          /\ call'[pending'[i]] = call[pending[i]]
          /\ chan'[pending'[i]] = chan[pending[i]]
    BY <1>1, <1>3, <2>1
  <2> QED
    BY <1>1, <2>1, <2>2, <2>3 DEF TableInv
<1>8. LineInv'
  BY <1>1, <1>3, LineFrame DEF taskVars, remoteVars
<1>9. ChannelInv' /\ AnswersMatch' /\ EndInv'
  BY <1>1, <1>3, PlainDistinct
     DEF ChannelInv, AnswersMatch, EndInv, taskVars, inVars, remoteVars
<1> QED
  BY <1>5, <1>6, <1>7, <1>8, <1>9 DEF IInv

\* What is sent into the channels of some calls, whose entries go.
LEMMA ChannelsFilled ==
  ASSUME IInv, NEW S \in SUBSET Call, NEW T \in SUBSET Id, NEW v \in Outcome,
         v.kind = "answer" => S \subseteq {v.of},
         \A c \in Call : c \in S <=> \E i \in T : pending[i] = c,
         pending' = [i \in Id |-> IF i \in T THEN NoCall ELSE pending[i]],
         chan' = [c \in Call |-> IF c \in S THEN Sent(chan[c], v) ELSE chan[c]],
         UNCHANGED <<next_id, call>>
  PROVE  /\ chan' \in [Call -> Channel] /\ pending' \in [Id -> Call \cup {NoCall}]
         /\ IdInv' /\ TableInv' /\ ChannelInv'
<1>1. TypeOK /\ IdInv /\ TableInv /\ ChannelInv
  BY DEF IInv
<1>2. ASSUME NEW c \in Call
      PROVE  /\ chan[c] \in Channel
             /\ chan'[c] = IF c \in S /\ chan[c] = Plain("empty") THEN v ELSE chan[c]
  BY <1>1 DEF Sent, TypeOK
<1>3. v \in Channel /\ v # Plain("empty") /\ v # Plain("gone")
  BY PlainDistinct
<1>4. chan' \in [Call -> Channel]
  BY <1>2, <1>3
<1>5. pending' \in [Id -> Call \cup {NoCall}]
  BY <1>1 DEF TypeOK
<1>6. IdInv'
  <2>1. \A c \in S : call[c].pc # "idle"
    BY <1>1, PeerAssumption DEF TableInv
  <2> QED
    BY <1>1, <1>2, <1>3, <2>1 DEF IdInv
<1>7. \A i \in Id : pending'[i] # NoCall => pending'[i] = pending[i] /\ i \notin T
  OBVIOUS
<1>8. ASSUME NEW c \in Call, call[c].pc \in {"inserted", "waiting"}, chan'[c] = Plain("empty")
      PROVE  pending'[call[c].id] = c
  <2>1. chan[c] = Plain("empty") /\ c \notin S
    BY <1>2, <1>3, <1>8
  <2>2. pending[call[c].id] = c /\ call[c].id \in Id
    BY <1>1, <1>8, <2>1 DEF TableInv, IdInv, TypeOK, CallState
  <2> QED
    BY <2>1, <2>2
<1>9. TableInv'
  <2>1. ASSUME NEW i \in Id, pending'[i] # NoCall
        PROVE  pending'[i] = pending[i] /\ pending[i] \in Call /\ pending[i] \notin S
    BY <1>1, <1>7, <2>1 DEF TableInv, TypeOK
  <2>2. \A i \in Id : pending'[i] # NoCall => chan'[pending[i]] = chan[pending[i]]
    BY <1>2, <2>1
  <2> QED
    BY <1>1, <1>8, <2>1, <2>2 DEF TableInv
<1>10. ChannelInv'
  BY <1>1, <1>2 DEF ChannelInv
<1> QED
  BY <1>4, <1>5, <1>6, <1>9, <1>10

LEMMA StepReadAnswer ==
  ASSUME IInv, ReadAnswer
  PROVE  IInv'
<1> DEFINE line == Head(wire)
<1>1. /\ TypeOK /\ IdInv /\ TableInv /\ LineInv /\ AnswersMatch /\ EndInv
      /\ wire \in Seq(InLine) /\ wire # <<>> /\ wire' = Tail(wire) /\ line.kind = "answer"
      /\ reader = "reading"
      /\ resolve(line.id, Answer(line.of))
      /\ UNCHANGED <<next_id, call, taskVars, inVars, stream, asked, sent>>
  BY DEF IInv, ReadAnswer, TypeOK
<1>2. /\ wire' \in Seq(InLine) /\ line \in InLine
      /\ \E m \in 1..Len(wire) : line = wire[m]
      /\ \A n \in 1..Len(wire') : \E m \in 1..Len(wire) : wire'[n] = wire[m]
  BY <1>1, TailElements
<1> HIDE DEF line
<1>3. line.id \in Id /\ line.of \in Call
  BY <1>1, <1>2 DEF InLine
<1>4. call[line.of].id = line.id
  BY <1>1, <1>2 DEF LineInv, Names
<1>5. \A c \in Call : pending[line.id] = c => c = line.of
  <2> SUFFICES ASSUME NEW c \in Call, pending[line.id] = c PROVE c = line.of
    OBVIOUS
  <2>1. call[c].id = line.id
    BY <1>1, <1>3, PeerAssumption DEF TableInv
  <2>2. line.id # 0
    BY <1>3, PeerAssumption DEF Id
  <2> QED
    BY <1>1, <1>3, <1>4, <2>1, <2>2 DEF IdInv
<1> DEFINE v == Answer(line.of)
           S == {c \in Call : c = pending[line.id]}
<1>6. v \in Outcome /\ v.of = line.of
  BY <1>3, PlainDistinct
<1>7. /\ chan' = [c \in Call |-> IF c = pending[line.id] THEN Sent(chan[c], v) ELSE chan[c]]
      /\ pending' = [pending EXCEPT ![line.id] = NoCall]
  BY <1>1 DEF resolve
<1>8. pending' = [i \in Id |-> IF i \in {line.id} THEN NoCall ELSE pending[i]]
  BY <1>1, <1>7 DEF TypeOK
<1> HIDE DEF v
<1>9. chan' = [c \in Call |-> IF c \in S THEN Sent(chan[c], v) ELSE chan[c]]
  BY <1>7
<1>10. /\ S \in SUBSET Call /\ {line.id} \in SUBSET Id /\ S \subseteq {v.of}
       /\ \A c \in Call : c \in S <=> \E i \in {line.id} : pending[i] = c
  BY <1>3, <1>5, <1>6
<1> HIDE DEF S
<1>11. /\ chan' \in [Call -> Channel] /\ pending' \in [Id -> Call \cup {NoCall}]
       /\ IdInv' /\ TableInv' /\ ChannelInv'
  BY <1>1, <1>6, <1>8, <1>9, <1>10, ChannelsFilled
<1>12. TypeOK'
  BY <1>1, <1>2, <1>11 DEF TypeOK, taskVars, inVars
<1>13. LineInv'
  BY <1>1, <1>2, LineFrame DEF taskVars
<1>14. AnswersMatch' /\ EndInv'
  BY <1>1 DEF AnswersMatch, EndInv, taskVars, inVars
<1> QED
  BY <1>11, <1>12, <1>13, <1>14 DEF IInv

LEMMA StepFailAll ==
  ASSUME IInv, fail_all
  PROVE  IInv'
<1>1. /\ TypeOK /\ LineInv /\ AnswersMatch /\ EndInv
      /\ reader = "reading" /\ reader' = "failed"
      /\ pending' = [i \in Id |-> NoCall]
      /\ UNCHANGED <<next_id, call, writer, out, inVars, remoteVars>>
  BY DEF IInv, fail_all
<1> DEFINE v == Plain("unavailable")
           S == {c \in Call : \E i \in Id : pending[i] = c}
<1>2. v \in Outcome /\ v.kind # "answer"
  BY PlainDistinct
<1>3. chan' = [c \in Call |-> IF \E i \in Id : pending[i] = c THEN Sent(chan[c], v) ELSE chan[c]]
  BY DEF fail_all
<1> HIDE DEF v
<1>4. /\ chan' = [c \in Call |-> IF c \in S THEN Sent(chan[c], v) ELSE chan[c]]
      /\ pending' = [i \in Id |-> IF i \in Id THEN NoCall ELSE pending[i]]
  BY <1>1, <1>3
<1>5. S \in SUBSET Call /\ \A c \in Call : c \in S <=> \E i \in Id : pending[i] = c
  OBVIOUS
<1> HIDE DEF S
<1>6. /\ chan' \in [Call -> Channel] /\ pending' \in [Id -> Call \cup {NoCall}]
      /\ IdInv' /\ TableInv' /\ ChannelInv'
  BY <1>1, <1>2, <1>4, <1>5, Id \in SUBSET Id, ChannelsFilled
<1>7. TypeOK'
  BY <1>1, <1>6 DEF TypeOK, inVars, remoteVars
<1>8. LineInv'
  BY <1>1, LineFrame DEF remoteVars
<1>9. AnswersMatch' /\ EndInv'
  BY <1>1 DEF AnswersMatch, EndInv, inVars, remoteVars
<1> QED
  BY <1>6, <1>7, <1>8, <1>9 DEF IInv

\* The steps that leave the calls, the table and the channels alone.
LEMMA StepOther ==
  ASSUME IInv, UNCHANGED <<next_id, pending, call, chan>>,
         \/ WriteLine \/ ReadRequest \/ Unblock \/ AbortWriter \/ Consume \/ Respond
         \/ on_disconnect \/ DropClient \/ RemoteCloses
         \/ (\E r \in asked : RemoteAnswers(r))
         \/ (\E k \in {"request", "huge"} : RemoteSends(k))
         \/ UNCHANGED vars
  PROVE  IInv'
<1>1. /\ TypeOK /\ IdInv /\ TableInv /\ LineInv /\ ChannelInv /\ AnswersMatch /\ EndInv
      /\ out \in Seq(OutLine) /\ wire \in Seq(InLine)
  BY DEF IInv, TypeOK
<1>2. IdInv' /\ TableInv' /\ ChannelInv' /\ AnswersMatch'
  BY <1>1 DEF IdInv, TableInv, ChannelInv, AnswersMatch
<1> USE DEF taskVars, inVars, remoteVars
<1>3. CASE WriteLine
  <2>1. /\ out # <<>> /\ writer = "running"
        /\ UNCHANGED <<reader, inVars, stream, wire, sent>>
        /\ \/ out' = Tail(out) /\ asked' \subseteq asked \cup {Head(out)} /\ writer' = writer
              /\ (Head(out) \in asked' \ asked => Head(out).kind = "request")
           \/ writer' = "ended" /\ out' = <<>> /\ asked' = asked
    BY <1>3 DEF WriteLine
  <2>2. /\ Head(out) \in OutLine /\ Tail(out) \in Seq(OutLine)
        /\ \E m \in 1..Len(out) : Head(out) = out[m]
        /\ \A n \in 1..Len(Tail(out)) : \E m \in 1..Len(out) : Tail(out)[n] = out[m]
    BY <1>1, <2>1, TailElements
  <2>3. /\ out' \in Seq(OutLine) /\ asked' \subseteq OutLine
        /\ \A n \in 1..Len(out') : \E m \in 1..Len(out) : out'[n] = out[m]
    <3>1. CASE out' = Tail(out) /\ asked' \subseteq asked \cup {Head(out)}
      BY <1>1, <2>2, <3>1 DEF TypeOK
    <3>2. CASE out' = <<>> /\ asked' = asked
      BY <1>1, <3>2 DEF TypeOK
    <3> QED
      BY <2>1, <3>1, <3>2
  <2>4. TypeOK'
    BY <1>1, <2>1, <2>3 DEF TypeOK
  <2>5. \A line \in asked' : line \in asked \/ (line.kind = "request" /\ Names(line)')
    BY <1>1, <2>1, <2>2 DEF LineInv, Names
  <2>6. LineInv'
    BY <1>1, <2>1, <2>3, <2>5, LineFrame
  <2>7. EndInv'
    BY <1>1, <2>1 DEF EndInv
  <2> QED
    BY <1>2, <2>4, <2>6, <2>7 DEF IInv
<1>4. CASE ReadRequest \/ Unblock
  <2>1. /\ wire' = wire \/ (wire # <<>> /\ wire' = Tail(wire))
        /\ reader \in {"reading", "blocked"} /\ reader' \in {"reading", "blocked"}
        /\ queue' \in {queue, queue + 1} /\ (queue' = queue + 1 => queue < InCap /\ receiver = "held")
        /\ UNCHANGED <<writer, out, client, receiver, handlers, stream, asked, sent>>
    BY <1>1, <1>4 DEF ReadRequest, Unblock, Enqueue, TypeOK
  <2>2. /\ wire' \in Seq(InLine)
        /\ \A n \in 1..Len(wire') : \E m \in 1..Len(wire) : wire'[n] = wire[m]
    <3>1. CASE wire' = wire
      BY <1>1, <3>1
    <3>2. CASE wire # <<>> /\ wire' = Tail(wire)
      BY <1>1, <3>2, TailElements
    <3> QED
      BY <2>1, <3>1, <3>2
  <2>3. TypeOK'
    BY <1>1, <2>1, <2>2, PeerAssumption DEF TypeOK
  <2>4. LineInv'
    BY <1>1, <2>1, <2>2, LineFrame
  <2>5. EndInv'
    BY <1>1, <2>1 DEF EndInv
  <2> QED
    BY <1>2, <2>3, <2>4, <2>5 DEF IInv
<1>5. CASE Respond
  <2> DEFINE line == [kind |-> "response", id |-> 0, of |-> NoCall]
  <2>1. line \in OutLine /\ line.kind # "request"
    BY DEF OutLine
  <2>2. /\ out' = out \/ out' = Append(out, line)
        /\ handlers > 0 /\ handlers' = handlers - 1
        /\ UNCHANGED <<writer, reader, client, queue, receiver, remoteVars>>
    BY <1>5 DEF Respond
  <2> HIDE DEF line
  <2>3. /\ out' \in Seq(OutLine)
        /\ \A n \in 1..Len(out') : (\E m \in 1..Len(out) : out'[n] = out[m]) \/ out'[n] = line
    <3>1. CASE out' = out
      BY <1>1, <3>1
    <3>2. CASE out' = Append(out, line)
      BY <1>1, <2>1, <3>2, AppendElements
    <3> QED
      BY <2>2, <3>1, <3>2
  <2>4. TypeOK'
    BY <1>1, <2>2, <2>3 DEF TypeOK
  <2>5. LineInv'
    BY <1>1, <2>1, <2>2, <2>3, LineFrame
  <2>6. EndInv'
    BY <1>1, <2>2 DEF EndInv
  <2> QED
    BY <1>2, <2>4, <2>5, <2>6 DEF IInv
<1>6. ASSUME NEW r \in asked, RemoteAnswers(r)
      PROVE  IInv'
  <2> DEFINE line == [kind |-> "answer", id |-> r.id, of |-> r.of]
  <2>1. r \in OutLine /\ r.kind = "request" /\ r.of \in Call /\ call[r.of].id = r.id
    BY <1>1 DEF LineInv, Names, TypeOK
  <2>2. line \in InLine /\ line.of \in Call /\ call[line.of].id = line.id
    BY <2>1 DEF OutLine, InLine
  <2>3. /\ wire' = Append(wire, line) /\ asked' \subseteq asked
        /\ UNCHANGED <<taskVars, inVars, stream, sent>>
    BY <1>6 DEF RemoteAnswers
  <2> HIDE DEF line
  <2>4. /\ wire' \in Seq(InLine)
        /\ \A n \in 1..Len(wire') : (\E m \in 1..Len(wire) : wire'[n] = wire[m]) \/ wire'[n] = line
    BY <1>1, <2>2, <2>3, AppendElements
  <2>5. TypeOK'
    BY <1>1, <2>3, <2>4 DEF TypeOK
  <2>6. \A n \in 1..Len(wire') :
          (\E m \in 1..Len(wire) : wire'[n] = wire[m])
            \/ (wire[n].kind = "answer" => Names(wire[n]))'
    BY <2>2, <2>4 DEF Names
  <2>7. LineInv'
    BY <1>1, <2>3, <2>6, LineFrame
  <2>8. EndInv'
    BY <1>1, <2>3 DEF EndInv
  <2> QED
    BY <1>2, <2>5, <2>7, <2>8 DEF IInv
<1>7. ASSUME NEW k \in {"request", "huge"}, RemoteSends(k)
      PROVE  IInv'
  <2> DEFINE line == [kind |-> k, id |-> 0, of |-> NoCall]
  <2>1. line \in InLine /\ line.kind # "answer"
    BY DEF InLine
  <2>2. /\ wire' = Append(wire, line) /\ sent < MaxIn /\ sent' = sent + 1
        /\ UNCHANGED <<taskVars, inVars, stream, asked>>
    BY <1>7 DEF RemoteSends
  <2> HIDE DEF line
  <2>3. /\ wire' \in Seq(InLine)
        /\ \A n \in 1..Len(wire') : (\E m \in 1..Len(wire) : wire'[n] = wire[m]) \/ wire'[n] = line
    BY <1>1, <2>1, <2>2, AppendElements
  <2>4. TypeOK'
    BY <1>1, <2>2, <2>3, PeerAssumption DEF TypeOK
  <2>5. LineInv'
    BY <1>1, <2>1, <2>2, <2>3, LineFrame
  <2>6. EndInv'
    BY <1>1, <2>2 DEF EndInv
  <2> QED
    BY <1>2, <2>4, <2>5, <2>6 DEF IInv
<1>8. CASE AbortWriter
  <2>1. TypeOK' /\ EndInv'
    BY <1>1, <1>8 DEF AbortWriter, TypeOK, EndInv
  <2>2. LineInv'
    BY <1>1, <1>8 DEF AbortWriter, LineInv, Names
  <2> QED
    BY <1>2, <2>1, <2>2 DEF IInv
<1>9. CASE Consume \/ on_disconnect \/ DropClient \/ RemoteCloses \/ UNCHANGED vars
  <2>1. TypeOK'
    BY <1>1, <1>9, PeerAssumption DEF Consume, on_disconnect, DropClient, RemoteCloses, vars, TypeOK
  <2>2. EndInv'
    BY <1>1, <1>9 DEF Consume, on_disconnect, DropClient, RemoteCloses, vars, EndInv
  <2>3. UNCHANGED <<out, asked, wire>>
    BY <1>9 DEF Consume, on_disconnect, DropClient, RemoteCloses, vars
  <2>4. LineInv'
    BY <1>1, <2>3 DEF LineInv, Names
  <2> QED
    BY <1>2, <2>1, <2>2, <2>4 DEF IInv
<1> QED
  BY <1>3, <1>4, <1>5, <1>6, <1>7, <1>8, <1>9

LEMMA StepIInv == IInv /\ [Next]_vars => IInv'
<1> SUFFICES ASSUME IInv, [Next]_vars PROVE IInv'
  OBVIOUS
<1>1. ASSUME NEW c \in Call, Insert(c) \/ CallNext(c) PROVE IInv'
  BY <1>1, StepInsert, StepSend, StepReceive, StepExpire, StepRemoveExpired DEF CallNext
<1>2. CASE ReadAnswer \/ fail_all
  BY <1>2, StepReadAnswer, StepFailAll
<1>3. ASSUME \/ WriteLine \/ ReadRequest \/ Unblock \/ AbortWriter \/ Consume \/ Respond
             \/ on_disconnect \/ DropClient \/ RemoteCloses
             \/ (\E r \in asked : RemoteAnswers(r))
             \/ (\E k \in {"request", "huge"} : RemoteSends(k))
             \/ UNCHANGED vars
      PROVE  IInv'
  <2>1. UNCHANGED <<next_id, pending, call, chan>>
    BY <1>3 DEF WriteLine, ReadRequest, Unblock, AbortWriter, Consume, Respond, on_disconnect,
       DropClient, RemoteCloses, RemoteAnswers, RemoteSends, vars
  <2> QED
    BY <1>3, <2>1, StepOther
<1> QED
  BY <1>1, <1>2, <1>3 DEF Next, ReaderNext, ConsumerNext

----------------------------------------------------------------------------
(***************************************************************************)
(* The theorems.                                                           *)
(***************************************************************************)
LEMMA Invariance == Spec => []IInv
BY InitIInv, StepIInv, PTL DEF Spec

\* However late and in whatever order the remote side answers, a call that
\* returns an answer returns its own (peer.rs call_value, resolve).
THEOREM OwnAnswer == Spec => []AnswersMatch
<1>1. IInv => AnswersMatch
  BY DEF IInv
<1> QED
  BY <1>1, Invariance, PTL

\* The state is well typed, no entry of the table leaks, and no call that waits
\* is out of reach of an answer or of fail_all (peer.rs call_value, fail_all).
THEOREM TableIsExact == Spec => []PendingExact
<1>1. IInv => PendingExact
  BY DEF IInv, TableInv, PendingExact
<1> QED
  BY <1>1, Invariance, PTL

\* After on_disconnect nothing is read, written or left over (server.rs serve).
THEOREM NothingAfterDisconnect == Spec => DisconnectIsLast
<1>1. IInv /\ [Next]_vars =>
        (receiver = "disconnected" =>
           queue = 0 /\ asked' \subseteq asked /\ wire' = wire /\ stream = "closed")
  <2> SUFFICES ASSUME IInv, [Next]_vars, receiver = "disconnected"
               PROVE  queue = 0 /\ asked' \subseteq asked /\ wire' = wire /\ stream = "closed"
    OBVIOUS
  <2>1. queue = 0 /\ reader = "ended" /\ writer = "ended" /\ stream = "closed"
    BY DEF IInv, EndInv
  <2>2. asked' = asked /\ wire' = wire
    BY <2>1 DEF Next, Insert, CallNext, Send, Receive, Expire, RemoveExpired, WriteLine, ReaderNext,
       ReadAnswer, ReadRequest, Unblock, fail_all, AbortWriter, ConsumerNext, Consume,
       on_disconnect, Respond, DropClient, RemoteAnswers, RemoteSends, RemoteCloses,
       vars, remoteVars
  <2> QED
    BY <2>1, <2>2
<1> QED
  BY <1>1, Invariance, PTL DEF Spec, DisconnectIsLast

----------------------------------------------------------------------------
(***************************************************************************)
(* Socket: the inductive invariant.                                        *)
(***************************************************************************)

\* An instance holds a listener from bind(2) on, which accepts from listen(2) on.
Owns(a) == app[a].pc \in {"listen", "meta", "serving", "drop"}
Accepts(a) == app[a].pc \in {"meta", "serving", "drop"}

\* Files are numbered in the order of their creation.
FileInv ==
  /\ path <= files
  /\ \A a \in App : Owns(a) => /\ app[a].listener # 0
                               /\ Accepts(a) => app[a].listening

\* Without a race one instance starts at a time and one holds a listener, on the
\* file at the path; and the file that is about to be removed is no instance's.
OwnerInv ==
  /\ \A a, b \in App : Starting(a) /\ Starting(b) => a = b
  /\ \A a, b \in App : Owns(a) /\ Owns(b) => a = b
  /\ \A a \in App : Owns(a) => app[a].listener = path
  /\ \A a \in App : app[a].pc \in {"serving", "drop"} => app[a].file_id = path
  /\ \A a, b \in App : app[a].pc = "remove" => ~Owns(b)

SocketInv ==
  /\ SocketTypeOK
  /\ FileInv
  /\ ~raced => OwnerInv

\* The fields of an instance after a step of it; the other instances keep theirs.
Others(a) == \A b \in App : b # a => app'[b] = app[b]

LEMMA AppSet ==
  ASSUME SocketTypeOK, NEW a \in App, NEW x \in AppState,
         app' = [app EXCEPT ![a] = x]
  PROVE  app' \in [App -> AppState] /\ app'[a] = x /\ Others(a)
BY DEF SocketTypeOK, Others

LEMMA NewAppType ==
  /\ NewApp \in AppState
  /\ [NewApp EXCEPT !.pc = "failed"] \in AppState
  /\ [NewApp EXCEPT !.pc = "failed"].pc = "failed"
  /\ NewApp.pc = "off"
<1>1. 0 \in File
  BY SocketAssumption DEF File
<1> QED
  BY <1>1 DEF AppState, NewApp

LEMMA AppGoes ==
  ASSUME SocketTypeOK, NEW a \in App,
         NEW p \in {"off", "stat", "connect", "remove", "bind", "listen", "meta",
                    "serving", "drop", "failed", "gone"},
         app' = [app EXCEPT ![a].pc = p]
  PROVE  /\ app' \in [App -> AppState]
         /\ app'[a].pc = p
         /\ app'[a].listener = app[a].listener
         /\ app'[a].file_id = app[a].file_id
         /\ app'[a].listening = app[a].listening
         /\ Others(a)
<1> DEFINE x == [app[a] EXCEPT !.pc = p]
<1>1. x \in AppState /\ x.pc = p /\ x.listener = app[a].listener
      /\ x.listening = app[a].listening /\ x.file_id = app[a].file_id
  BY DEF SocketTypeOK, AppState
<1>2. app' = [app EXCEPT ![a] = x]
  BY DEF SocketTypeOK
<1> HIDE DEF x
<1> QED
  BY <1>1, <1>2, AppSet

LEMMA InitSocketInv == SocketInit => SocketInv
<1> SUFFICES ASSUME SocketInit PROVE SocketInv
  OBVIOUS
<1>0. files \in {0, 1} /\ path = files /\ raced = FALSE
  BY DEF SocketInit
<1>1. path \in File /\ files \in File /\ path <= files
  BY <1>0, SocketAssumption DEF File
<1>2. app \in [App -> AppState] /\ \A a \in App : app[a].pc = "off"
  BY NewAppType DEF SocketInit
<1>3. clients \in [Client -> [pc : {"connect", "retry", "connected", "not_running"},
                             tries : 0..MaxTries]]
  BY SocketAssumption DEF SocketInit
<1>4. SocketTypeOK
  BY <1>0, <1>1, <1>2, <1>3 DEF SocketTypeOK
<1> QED
  BY <1>1, <1>2, <1>4 DEF SocketInv, FileInv, OwnerInv, Owns, Accepts, Starting

----------------------------------------------------------------------------
(***************************************************************************)
(* Socket: the steps.                                                      *)
(***************************************************************************)

\* An instance that gives up or exits has no listener afterwards.
LEMMA StepEnds ==
  ASSUME SocketInv, NEW a \in App, NEW x \in AppState,
         x.pc \in {"off", "failed"}, app' = [app EXCEPT ![a] = x],
         UNCHANGED <<path, files, clients, raced>>
  PROVE  SocketInv'
<1>t. SocketTypeOK
  BY DEF SocketInv
<1>1. app' \in [App -> AppState] /\ app'[a] = x /\ Others(a)
  BY <1>t, AppSet
<1>2. SocketTypeOK'
  BY <1>t, <1>1 DEF SocketTypeOK
<1> QED
  BY <1>1, <1>2 DEF SocketInv, FileInv, OwnerInv, Others, Owns, Accepts, Starting

LEMMA StepFail ==
  ASSUME SocketInv, NEW a \in App,
         Fail(a), UNCHANGED <<path, files, clients, raced>>
  PROVE  SocketInv'
BY NewAppType, StepEnds DEF Fail

LEMMA StepStat ==
  ASSUME SocketInv, NEW a \in App, Stat(a)
  PROVE  SocketInv'
<1>t. SocketTypeOK
  BY DEF SocketInv
<1> PICK p \in {"bind", "connect"} : app' = [app EXCEPT ![a].pc = p]
  BY DEF Stat, Goto
<1>1. app' \in [App -> AppState] /\ app'[a].pc = p /\ Others(a)
  BY <1>t, AppGoes
<1>2. app[a].pc = "stat" /\ UNCHANGED <<path, files, clients, raced>>
  BY DEF Stat
<1>3. SocketTypeOK'
  BY <1>t, <1>1, <1>2 DEF SocketTypeOK
<1> QED
  BY <1>1, <1>2, <1>3 DEF SocketInv, FileInv, OwnerInv, Others, Owns, Accepts, Starting

\* The file is nobody's if nobody listens on it: an instance that holds it without
\* listening is starting, and so is this one.
LEMMA StepConnect ==
  ASSUME SocketInv, NEW a \in App, Connect(a)
  PROVE  SocketInv'
<1>t. SocketTypeOK
  BY DEF SocketInv
<1>1. app[a].pc = "connect" /\ UNCHANGED <<path, files, clients, raced>>
  BY DEF Connect
<1>2. CASE Fail(a)
  BY <1>1, <1>2, StepFail
<1>3. CASE ~Live(path) /\ app' = [app EXCEPT ![a].pc = "remove"]
  <2>1. app' \in [App -> AppState] /\ app'[a].pc = "remove" /\ Others(a)
    BY <1>t, <1>3, AppGoes
  <2>2. SocketTypeOK'
    BY <1>t, <1>1, <2>1 DEF SocketTypeOK
  <2>3. \A b \in App : ~raced => ~Owns(b)
    BY <1>1, <1>3 DEF SocketInv, FileInv, OwnerInv, Owns, Accepts, Starting, Live
  <2> QED
    BY <1>1, <2>1, <2>2, <2>3
    DEF SocketInv, FileInv, OwnerInv, Others, Owns, Accepts, Starting
<1> QED
  BY <1>2, <1>3 DEF Connect, Goto

LEMMA StepRemove ==
  ASSUME SocketInv, NEW a \in App, Remove(a)
  PROVE  SocketInv'
<1>t. SocketTypeOK
  BY DEF SocketInv
<1>1. app[a].pc = "remove" /\ path' = 0 /\ UNCHANGED <<files, clients, raced>>
  BY DEF Remove
<1>2. CASE path = 0 /\ Fail(a)
  BY <1>1, <1>2, StepFail
<1>3. CASE app' = [app EXCEPT ![a].pc = "bind"]
  <2>1. app' \in [App -> AppState] /\ app'[a].pc = "bind" /\ Others(a)
    BY <1>t, <1>3, AppGoes
  <2>2. path' <= files' /\ path' \in File
    BY <1>t, <1>1, SocketAssumption DEF SocketTypeOK, File
  <2>3. SocketTypeOK'
    BY <1>t, <1>1, <2>1, <2>2 DEF SocketTypeOK
  <2> QED
    BY <1>1, <2>1, <2>2, <2>3
    DEF SocketInv, FileInv, OwnerInv, Others, Owns, Accepts, Starting
<1> QED
  BY <1>2, <1>3 DEF Remove, Goto

\* bind(2) finds nothing at the path, so no instance holds a listener.
LEMMA StepBind ==
  ASSUME SocketInv, NEW a \in App, Bind(a)
  PROVE  SocketInv'
<1>t. SocketTypeOK
  BY DEF SocketInv
<1>1. app[a].pc = "bind" /\ files < MaxFile /\ UNCHANGED <<clients, raced>>
  BY DEF Bind
<1>2. CASE Fail(a) /\ UNCHANGED <<path, files>>
  BY <1>1, <1>2, StepFail
<1>3. CASE /\ path = 0 /\ files' = files + 1 /\ path' = files'
           /\ app' = [app EXCEPT ![a].pc = "listen", ![a].listener = files']
  <2>1. files' \in File /\ files' # 0 /\ path' <= files'
    BY <1>t, <1>1, <1>3, SocketAssumption DEF SocketTypeOK, File
  <2> PICK f \in File : f = files'
    BY <2>1
  <2> DEFINE x == [app[a] EXCEPT !.pc = "listen", !.listener = f]
  <2>2. x \in AppState /\ x.pc = "listen" /\ x.listener = f
    BY <1>t DEF SocketTypeOK, AppState
  <2>3. app' = [app EXCEPT ![a] = x]
    BY <1>t, <1>3 DEF SocketTypeOK
  <2> HIDE DEF x
  <2>4. app' \in [App -> AppState] /\ app'[a] = x /\ Others(a)
    BY <1>t, <2>2, <2>3, AppSet
  <2>5. SocketTypeOK'
    BY <1>t, <1>1, <1>3, <2>1, <2>4 DEF SocketTypeOK
  <2>6. \A b \in App : ~raced => ~Owns(b)
    BY <1>3 DEF SocketInv, FileInv, OwnerInv
  <2> QED
    BY <1>1, <1>3, <2>1, <2>2, <2>4, <2>5, <2>6
    DEF SocketInv, FileInv, OwnerInv, Others, Owns, Accepts, Starting
<1> QED
  BY <1>2, <1>3 DEF Bind

LEMMA StepListen ==
  ASSUME SocketInv, NEW a \in App, Listen(a)
  PROVE  SocketInv'
<1>t. SocketTypeOK
  BY DEF SocketInv
<1>1. /\ app[a].pc = "listen" /\ UNCHANGED <<path, files, clients, raced>>
      /\ app' = [app EXCEPT ![a].pc = "meta", ![a].listening = TRUE]
  BY DEF Listen
<1> DEFINE x == [app[a] EXCEPT !.pc = "meta", !.listening = TRUE]
<1>2. x \in AppState /\ x.pc = "meta" /\ x.listener = app[a].listener /\ x.listening
  BY <1>t DEF SocketTypeOK, AppState
<1>3. app' = [app EXCEPT ![a] = x]
  BY <1>t, <1>1 DEF SocketTypeOK
<1> HIDE DEF x
<1>4. app' \in [App -> AppState] /\ app'[a] = x /\ Others(a)
  BY <1>t, <1>2, <1>3, AppSet
<1>5. SocketTypeOK'
  BY <1>t, <1>1, <1>4 DEF SocketTypeOK
<1> QED
  BY <1>1, <1>2, <1>4, <1>5
  DEF SocketInv, FileInv, OwnerInv, Others, Owns, Accepts, Starting

LEMMA StepMeta ==
  ASSUME SocketInv, NEW a \in App, Meta(a)
  PROVE  SocketInv'
<1>t. SocketTypeOK
  BY DEF SocketInv
<1>1. app[a].pc = "meta" /\ UNCHANGED <<path, files, clients, raced>>
  BY DEF Meta
<1>2. CASE Fail(a)
  BY <1>1, <1>2, StepFail
<1>3. CASE app' = [app EXCEPT ![a].pc = "serving", ![a].file_id = path]
  <2> DEFINE x == [app[a] EXCEPT !.pc = "serving", !.file_id = path]
  <2>1. /\ x \in AppState /\ x.pc = "serving" /\ x.file_id = path
        /\ x.listener = app[a].listener /\ x.listening = app[a].listening
    BY <1>t DEF SocketTypeOK, AppState
  <2>2. app' = [app EXCEPT ![a] = x]
    BY <1>t, <1>3 DEF SocketTypeOK
  <2> HIDE DEF x
  <2>3. app' \in [App -> AppState] /\ app'[a] = x /\ Others(a)
    BY <1>t, <2>1, <2>2, AppSet
  <2>4. SocketTypeOK'
    BY <1>t, <1>1, <2>3 DEF SocketTypeOK
  <2> QED
    BY <1>1, <2>1, <2>3, <2>4
    DEF SocketInv, FileInv, OwnerInv, Others, Owns, Accepts, Starting
<1> QED
  BY <1>2, <1>3 DEF Meta

LEMMA StepDropStat ==
  ASSUME SocketInv, NEW a \in App, DropStat(a)
  PROVE  SocketInv'
<1>t. SocketTypeOK
  BY DEF SocketInv
<1> PICK p \in {"drop", "gone"} : app' = [app EXCEPT ![a].pc = p]
  BY DEF DropStat, Goto
<1>1. /\ app' \in [App -> AppState] /\ app'[a].pc = p /\ Others(a)
      /\ app'[a].listener = app[a].listener /\ app'[a].file_id = app[a].file_id
      /\ app'[a].listening = app[a].listening
  BY <1>t, AppGoes
<1>2. app[a].pc = "serving" /\ UNCHANGED <<path, files, clients, raced>>
  BY DEF DropStat
<1>3. SocketTypeOK'
  BY <1>t, <1>1, <1>2 DEF SocketTypeOK
<1> QED
  BY <1>1, <1>2, <1>3 DEF SocketInv, FileInv, OwnerInv, Others, Owns, Accepts, Starting

\* Drop removes the file of its own listener, which is the only one.
LEMMA StepDropRemove ==
  ASSUME SocketInv, NEW a \in App, DropRemove(a)
  PROVE  SocketInv'
<1>t. SocketTypeOK
  BY DEF SocketInv
<1>1. /\ app[a].pc = "drop" /\ path' = 0 /\ UNCHANGED <<files, clients, raced>>
      /\ app' = [app EXCEPT ![a].pc = "gone"]
  BY DEF DropRemove, Goto
<1>2. app' \in [App -> AppState] /\ app'[a].pc = "gone" /\ Others(a)
  BY <1>t, <1>1, AppGoes
<1>3. path' <= files' /\ path' \in File
  BY <1>t, <1>1, SocketAssumption DEF SocketTypeOK, File
<1>4. SocketTypeOK'
  BY <1>t, <1>1, <1>2, <1>3 DEF SocketTypeOK
<1>5. \A b \in App : ~raced /\ b # a => ~Owns(b)
  BY <1>1 DEF SocketInv, OwnerInv, Owns
<1> QED
  BY <1>1, <1>2, <1>3, <1>4, <1>5
  DEF SocketInv, FileInv, OwnerInv, Others, Owns, Accepts, Starting

LEMMA StepStartApp ==
  ASSUME SocketInv, NEW a \in App, StartApp(a), UNCHANGED <<path, files>>,
         clients' \in [Client -> [pc : {"connect", "retry", "connected", "not_running"},
                                  tries : 0..MaxTries]]
  PROVE  SocketInv'
<1>t. SocketTypeOK
  BY DEF SocketInv
<1>1. app[a].pc = "off" /\ app' = [app EXCEPT ![a].pc = "stat"]
  BY DEF StartApp
<1>2. app' \in [App -> AppState] /\ app'[a].pc = "stat" /\ Others(a)
  BY <1>t, <1>1, AppGoes
<1>3. raced' \in BOOLEAN /\ (~raced' => ~raced /\ \A b \in App : ~Starting(b))
  BY <1>t DEF StartApp, SocketTypeOK
<1>4. SocketTypeOK'
  BY <1>t, <1>2, <1>3 DEF SocketTypeOK
<1> QED
  BY <1>1, <1>2, <1>3, <1>4
  DEF SocketInv, FileInv, OwnerInv, Others, Owns, Accepts, Starting

\* The clients' steps change the clients, and start an instance at most.
LEMMA StepClient ==
  ASSUME SocketInv, NEW c \in Client, ClientNext(c)
  PROVE  SocketInv'
<1>t. SocketTypeOK
  BY DEF SocketInv
<1>1. clients' \in [Client -> [pc : {"connect", "retry", "connected", "not_running"},
                               tries : 0..MaxTries]]
  <2> DEFINE Rec == [pc : {"connect", "retry", "connected", "not_running"},
                     tries : 0..MaxTries]
  <2>1. clients \in [Client -> Rec]
    BY <1>t DEF SocketTypeOK
  <2>2. CASE \E p \in {"retry", "connected", "not_running"} :
               clients' = [clients EXCEPT ![c].pc = p]
    BY <2>1, <2>2
  <2>3. CASE /\ clients[c].tries < MaxTries
             /\ clients' = [clients EXCEPT ![c].tries = @ + 1]
    BY <2>1, <2>3, SocketAssumption
  <2> QED
    BY <2>2, <2>3 DEF ClientNext, ClientConnects, ClientLaunches,
       ClientRetries
<1>2. UNCHANGED <<path, files>>
  BY DEF ClientNext, ClientConnects, ClientLaunches, ClientRetries
<1>3. CASE \E a \in App : StartApp(a)
  BY <1>1, <1>2, <1>3, StepStartApp
<1>4. CASE UNCHANGED <<app, raced>>
  <2>1. SocketTypeOK'
    BY <1>t, <1>1, <1>2, <1>4 DEF SocketTypeOK
  <2> QED
    BY <1>2, <1>4, <2>1 DEF SocketInv, FileInv, OwnerInv, Owns, Accepts, Starting
<1> QED
  BY <1>3, <1>4 DEF ClientNext, ClientConnects, ClientLaunches, ClientRetries

LEMMA StepSocketInv == SocketInv /\ [SocketNext]_socketVars => SocketInv'
<1> SUFFICES ASSUME SocketInv, [SocketNext]_socketVars PROVE SocketInv'
  OBVIOUS
<1>1. ASSUME NEW a \in App, BindNext(a) PROVE SocketInv'
  BY <1>1, StepStat, StepConnect, StepRemove, StepBind, StepListen, StepMeta DEF BindNext
<1>2. ASSUME NEW a \in App, DropStat(a) PROVE SocketInv'
  BY <1>2, StepDropStat
<1>3. ASSUME NEW a \in App, DropRemove(a) PROVE SocketInv'
  BY <1>3, StepDropRemove
<1>4. ASSUME NEW a \in App, Exit(a) PROVE SocketInv'
  BY <1>4, NewAppType, StepEnds DEF Exit
<1>5. ASSUME NEW a \in App, UserStarts(a) PROVE SocketInv'
  BY <1>5, StepStartApp DEF UserStarts, SocketInv, SocketTypeOK
<1>6. ASSUME NEW c \in Client, ClientNext(c) PROVE SocketInv'
  BY <1>6, StepClient
<1>7. CASE UNCHANGED socketVars
  <2>1. UNCHANGED <<path, files, app, clients, raced>>
    BY <1>7 DEF socketVars
  <2> QED
    BY <2>1 DEF SocketInv, FileInv, OwnerInv, Owns, Accepts, Starting, SocketTypeOK
<1> QED
  BY <1>1, <1>2, <1>3, <1>4, <1>5, <1>6, <1>7 DEF SocketNext

----------------------------------------------------------------------------
\* However many instances start, die and are launched by clients, as long as no
\* two start together, an instance that serves is the one that is reached at the
\* path: replacing a stale file, and the removal in drop, never take it away
\* (server.rs bind, drop; launch.rs connect_or_launch).
THEOREM ServerIsReachable == SocketSpec => []ServingReachable
<1>1. SocketInv => ServingReachable
  BY DEF SocketInv, OwnerInv, Owns, ServingReachable
<1> QED
  BY <1>1, InitSocketInv, StepSocketInv, PTL DEF SocketSpec

----------------------------------------------------------------------------
(***************************************************************************)
(* EnvFile: what a process holds between the lock and the rename.          *)
(***************************************************************************)
Injector == [pc : {"idle", "lock", "read", "write", "done", "failed"},
             values : Env!Values \cup {<<>>}, text : {<<>>, file}]

\* A process between the lock and the end has the lock; the text that it is going
\* to merge into is the file, which it could read to its end.
LockInv ==
  /\ inj \in [Proc -> Injector]
  /\ \A p \in Proc : lock = p <=> inj[p].pc \in {"read", "write"}
  /\ \A p \in Proc : inj[p].text = IF inj[p].pc = "write" THEN file ELSE <<>>
  /\ \A p \in Proc : inj[p].pc = "write" => Env!Terminated(file)

\* The new state of the process that takes a step.
Becomes(p, pc, t) ==
  \E x \in Injector' : x.pc = pc /\ x.text = t /\ inj' = [inj EXCEPT ![p] = x]

LEMMA InjectorFields ==
  ASSUME LockInv, NEW p \in Proc,
         NEW pc \in {"lock", "read", "write", "done", "failed"},
         NEW t \in {<<>>, file'}
  PROVE  /\ inj' = [inj EXCEPT ![p].pc = pc] /\ inj[p].text = t => Becomes(p, pc, t)
         /\ \A v \in Env!Values :
              inj' = [inj EXCEPT ![p].pc = pc, ![p].values = v] /\ inj[p].text = t
                => Becomes(p, pc, t)
         /\ inj' = [inj EXCEPT ![p].pc = pc, ![p].text = t] => Becomes(p, pc, t)
<1>1. inj[p] \in Injector
  BY DEF LockInv
<1>2. ASSUME inj' = [inj EXCEPT ![p].pc = pc], inj[p].text = t PROVE Becomes(p, pc, t)
  <2> DEFINE x == [inj[p] EXCEPT !.pc = pc]
  <2>1. x \in Injector' /\ x.pc = pc /\ x.text = t
    BY <1>1, <1>2 DEF Injector
  <2>2. inj' = [inj EXCEPT ![p] = x]
    BY <1>2
  <2> HIDE DEF x
  <2> QED
    BY <2>1, <2>2 DEF Becomes
<1>3. ASSUME NEW v \in Env!Values, inj' = [inj EXCEPT ![p].pc = pc, ![p].values = v],
             inj[p].text = t
      PROVE  Becomes(p, pc, t)
  <2> DEFINE x == [inj[p] EXCEPT !.pc = pc, !.values = v]
  <2>1. x \in Injector' /\ x.pc = pc /\ x.text = t
    BY <1>1, <1>3 DEF Injector
  <2>2. inj' = [inj EXCEPT ![p] = x]
    BY <1>3
  <2> HIDE DEF x
  <2> QED
    BY <2>1, <2>2 DEF Becomes
<1>4. ASSUME inj' = [inj EXCEPT ![p].pc = pc, ![p].text = t] PROVE Becomes(p, pc, t)
  <2> DEFINE x == [inj[p] EXCEPT !.pc = pc, !.text = t]
  <2>1. x \in Injector' /\ x.pc = pc /\ x.text = t
    BY <1>1, <1>4 DEF Injector
  <2>2. inj' = [inj EXCEPT ![p] = x]
    BY <1>4
  <2> HIDE DEF x
  <2> QED
    BY <2>1, <2>2 DEF Becomes
<1> QED
  BY <1>2, <1>3, <1>4

\* A step of p that leaves the file alone, or of the lock's holder.
LEMMA InjectorStep ==
  ASSUME LockInv, NEW p \in Proc,
         NEW pc \in {"lock", "read", "write", "done", "failed"}, NEW t, Becomes(p, pc, t),
         file' = file \/ lock = p,
         t = IF pc = "write" THEN file' ELSE <<>>,
         pc = "write" => Env!Terminated(file'),
         \A q \in Proc : q # p => (lock' = q <=> lock = q),
         lock' = p <=> pc \in {"read", "write"}
  PROVE  LockInv'
<1> PICK x \in Injector' : x.pc = pc /\ x.text = t /\ inj' = [inj EXCEPT ![p] = x]
  BY DEF Becomes
<1>1. inj'[p] = x /\ \A q \in Proc : q # p => inj'[q] = inj[q]
  BY DEF LockInv
<1>2. \A q \in Proc : q # p => inj[q] \in Injector' /\ (inj[q].pc = "write" => file' = file)
  <2> SUFFICES ASSUME NEW q \in Proc, q # p
               PROVE  inj[q] \in Injector' /\ (inj[q].pc = "write" => file' = file)
    OBVIOUS
  <2>1. inj[q] \in Injector /\ (inj[q].pc = "write" => lock = q)
    BY DEF LockInv
  <2>2. inj[q].text = IF inj[q].pc = "write" THEN file ELSE <<>>
    BY DEF LockInv
  <2> QED
    BY <2>1, <2>2 DEF Injector
<1>3. inj' \in [Proc -> Injector']
  BY <1>1, <1>2 DEF LockInv
<1>4. \A q \in Proc : lock' = q <=> inj'[q].pc \in {"read", "write"}
  BY <1>1 DEF LockInv
<1>5. \A q \in Proc : inj'[q].text = IF inj'[q].pc = "write" THEN file' ELSE <<>>
  BY <1>1, <1>2 DEF LockInv
<1>6. \A q \in Proc : inj'[q].pc = "write" => Env!Terminated(file')
  <2> SUFFICES ASSUME NEW q \in Proc, inj'[q].pc = "write"
               PROVE  Env!Terminated(file')
    OBVIOUS
  <2>1. CASE q = p
    BY <1>1, <2>1
  <2>2. CASE q # p
    BY <1>1, <1>2, <2>2 DEF LockInv
  <2> QED
    BY <2>1, <2>2
<1> QED
  BY <1>3, <1>4, <1>5, <1>6 DEF LockInv

LEMMA StepLockInv ==
  ASSUME NoProc \notin Proc
  PROVE  LockInv /\ [Env!Next]_(Env!vars) => LockInv'
<1> SUFFICES ASSUME LockInv, [Env!Next]_(Env!vars) PROVE LockInv'
  OBVIOUS
<1>0. \A p \in Proc : /\ inj[p].pc # "write" => inj[p].text = <<>>
                      /\ inj[p].pc = "write" => inj[p].text = file
                      /\ inj[p].pc \in {"read", "write"} <=> lock = p
  BY DEF LockInv
<1>1. ASSUME NEW p \in Proc, NEW v \in Env!Values, Env!inject(p, v) PROVE LockInv'
  <2>1. inj[p].pc = "idle" /\ UNCHANGED <<file, lock>>
    BY <1>1 DEF Env!inject, Env!Idle
  <2>2. Becomes(p, "lock", <<>>)
    BY <1>0, <1>1, <2>1, InjectorFields DEF Env!inject
  <2> QED
    BY <1>0, <2>1, <2>2, InjectorStep
<1>2. ASSUME NEW p \in Proc, Env!Lock(p) PROVE LockInv'
  <2>1. inj[p].pc = "lock" /\ lock = NoProc /\ lock' = p /\ UNCHANGED file
    BY <1>2 DEF Env!Lock
  <2>2. Becomes(p, "read", <<>>)
    BY <1>0, <1>2, <2>1, InjectorFields DEF Env!Lock
  <2> QED
    BY <2>1, <2>2, InjectorStep
<1>3. ASSUME NEW p \in Proc, Env!Read(p) PROVE LockInv'
  <2>1. inj[p].pc = "read" /\ lock = p /\ UNCHANGED file
    BY <1>0, <1>3 DEF Env!Read
  <2>2. CASE Env!Terminated(file)
    <3>1. lock' = lock /\ Env!Terminated(file')
      BY <1>3, <2>1, <2>2 DEF Env!Read
    <3>2. Becomes(p, "write", file)
      BY <1>3, <2>1, <2>2, InjectorFields DEF Env!Read
    <3> QED
      BY <2>1, <3>1, <3>2, InjectorStep
  <2>3. CASE ~Env!Terminated(file)
    <3>1. lock' = NoProc
      BY <1>3, <2>1, <2>3 DEF Env!Read, Env!Unlocked
    <3>2. Becomes(p, "failed", <<>>)
      BY <1>0, <1>3, <2>1, <2>3, InjectorFields DEF Env!Read
    <3> QED
      BY <2>1, <3>1, <3>2, InjectorStep
  <2> QED
    BY <2>2, <2>3
<1>4. ASSUME NEW p \in Proc, Env!Write(p) PROVE LockInv'
  <2>1. inj[p].pc = "write" /\ lock = p /\ lock' = NoProc
    BY <1>0, <1>4 DEF Env!Write, Env!Unlocked
  <2>2. PICK pc \in {"done", "failed"} : Becomes(p, pc, <<>>)
    BY <1>4, InjectorFields DEF Env!Write
  <2> QED
    BY <2>1, <2>2, InjectorStep
<1>5. ASSUME NEW p \in Proc, Env!Fails(p) PROVE LockInv'
  <2>1. lock' = (IF lock = p THEN NoProc ELSE lock) /\ UNCHANGED file
    BY <1>5 DEF Env!Fails, Env!Unlocked
  <2>2. Becomes(p, "failed", <<>>)
    BY <1>5, InjectorFields DEF Env!Fails
  <2> QED
    BY <2>1, <2>2, InjectorStep
<1>6. CASE UNCHANGED Env!vars
  <2>1. UNCHANGED <<file, lock, inj>>
    BY <1>6 DEF Env!vars
  <2> QED
    BY <2>1 DEF LockInv, Injector
<1> QED
  BY <1>1, <1>2, <1>3, <1>4, <1>5, <1>6 DEF Env!Next

----------------------------------------------------------------------------
\* Whatever replaces the file is the merge of a process's values into the file as
\* it then is, never into a copy that another process has replaced since; and a
\* file with an unterminated value is not replaced at all.
SerialMerges ==
  [][file' # file => /\ Env!Terminated(file)
                     /\ \E p \in Proc : /\ inj[p].pc = "write"
                                        /\ file' = Env!Merge(file, inj[p].values)]_(Env!vars)

\* Whatever the file, the values and the number of processes, injections take
\* effect one after the other: no process merges into a copy of the file that
\* another has replaced, and no file is replaced that could not be read to its
\* end (project.rs merge_env_file, write_private).
THEOREM InjectionsAreSerial ==
  ASSUME NoProc \notin Proc
  PROVE  Env!Spec => SerialMerges
<1>1. Env!Init => LockInv
  <2> SUFFICES ASSUME Env!Init PROVE LockInv
    OBVIOUS
  <2>1. lock = NoProc /\ inj = [p \in Proc |-> Env!Idle]
    BY DEF Env!Init
  <2>2. Env!Idle \in Injector /\ Env!Idle.pc = "idle" /\ Env!Idle.text = <<>>
    BY DEF Env!Idle, Injector
  <2> QED
    BY <2>1, <2>2 DEF LockInv
<1>2. LockInv /\ [Env!Next]_(Env!vars) => LockInv'
  BY StepLockInv
<1>3. LockInv /\ [Env!Next]_(Env!vars) =>
        (file' # file => /\ Env!Terminated(file)
                         /\ \E p \in Proc : /\ inj[p].pc = "write"
                                            /\ file' = Env!Merge(file, inj[p].values))
  <2> SUFFICES ASSUME LockInv, [Env!Next]_(Env!vars), file' # file
               PROVE  /\ Env!Terminated(file)
                      /\ \E p \in Proc : /\ inj[p].pc = "write"
                                         /\ file' = Env!Merge(file, inj[p].values)
    OBVIOUS
  <2>1. PICK p \in Proc : Env!Write(p)
    BY DEF Env!Next, Env!vars, Env!inject, Env!Lock, Env!Read, Env!Fails
  <2>2. inj[p].pc = "write" /\ inj[p].text = file /\ Env!Terminated(file)
    BY <2>1 DEF Env!Write, LockInv
  <2>3. file' = Env!Merge(inj[p].text, inj[p].values)
    BY <2>1 DEF Env!Write
  <2> QED
    BY <2>2, <2>3
<1> QED
  BY <1>1, <1>2, <1>3, PTL DEF Env!Spec, SerialMerges

============================================================================
