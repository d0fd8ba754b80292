------------------------- MODULE ExtensionRpcProofs -------------------------
(***************************************************************************)
(* Proofs about ExtensionRpc for any number of calls and of ports: its two *)
(* invariants.                                                             *)
(***************************************************************************)
EXTENDS ExtensionRpc, TLAPS

----------------------------------------------------------------------------
(***************************************************************************)
(* The inductive invariant.                                                *)
(***************************************************************************)
Helloed(p) == \E i \in DOMAIN hellos : hellos[i] = p

\* The extension's port is the latest one and lives as long as the worker; a
\* worker without one has its timer; connected means that the app knows the port.
LinkInv ==
  /\ ~worker => port = 0 /\ ~timer /\ ~connected
  /\ worker /\ port = 0 => timer
  /\ port # 0 => port = opened
  /\ connected => port # 0 /\ Helloed(port)

\* The app knows only ports that were opened.
PortInv ==
  /\ \A p \in Port : host[p] # "none" => p <= opened
  /\ bridge <= opened

Made(c) == call[c].pc # "idle"

\* The calls of a connection have ids of their own.
NumberInv ==
  /\ \A c \in Call : Made(c) =>
       /\ call[c].conn \in Port /\ call[c].conn <= opened
       /\ call[c].id < next_id[call[c].conn]
  /\ \A c, d \in Call : Made(c) /\ Made(d) /\ call[c].conn = call[d].conn
                          /\ call[c].id = call[d].id => c = d

\* A request names a call that was made, and the answer to ext.hello shows that the
\* app has handled it.
AskOk(m, p) ==
  /\ m.kind = "request" => m.of \in Call /\ Made(m.of)
  /\ m.kind = "ok" => Helloed(p)

\* A response names its call's id and is on that call's connection or a later one.
TellOk(m, p) ==
  m.kind = "response" =>
    m.of \in Call /\ Made(m.of) /\ call[m.of].id = m.id /\ call[m.of].conn <= p

MessageInv ==
  /\ \A p \in Port : \A n \in 1..Len(toExt[p]) : AskOk(toExt[p][n], p)
  /\ \A p \in Port : \A n \in 1..Len(toApp[p]) : TellOk(toApp[p][n], p)
  /\ \A c \in Call : task[c] = "running" => Made(c)

AnswerInv ==
  \A c \in Call : call[c].pc = "answered" =>
    /\ call[c].answer \in Call /\ Made(call[c].answer)
    /\ call[c].answer = c \/ call[call[c].answer].conn < call[c].conn

IInv ==
  /\ TypeOK
  /\ LinkInv
  /\ PortInv
  /\ NumberInv
  /\ MessageInv
  /\ AnswerInv

----------------------------------------------------------------------------
(***************************************************************************)
(* Lemmas about queues and calls.                                          *)
(***************************************************************************)
LEMMA QueueAppend ==
  ASSUME NEW S, NEW s \in Seq(S), NEW x \in S
  PROVE  /\ Append(s, x) \in Seq(S)
         /\ \A n \in 1..Len(Append(s, x)) :
              Append(s, x)[n] = x \/ \E m \in 1..Len(s) : Append(s, x)[n] = s[m]
<1>1. ASSUME NEW n \in 1..Len(Append(s, x))
      PROVE  Append(s, x)[n] = x \/ \E m \in 1..Len(s) : Append(s, x)[n] = s[m]
  <2>1. n \in 1..Len(s) \/ n = Len(s) + 1
    OBVIOUS
  <2>2. CASE n \in 1..Len(s)
    BY <2>2
  <2>3. CASE n = Len(s) + 1
    BY <2>3
  <2> QED
    BY <2>1, <2>2, <2>3
<1> QED
  BY <1>1

LEMMA QueueTail ==
  ASSUME NEW S, NEW s \in Seq(S), s # <<>>
  PROVE  /\ Tail(s) \in Seq(S) /\ Head(s) \in S
         /\ \E m \in 1..Len(s) : Head(s) = s[m]
         /\ \A n \in 1..Len(Tail(s)) : \E m \in 1..Len(s) : Tail(s)[n] = s[m]
<1>1. 1 \in 1..Len(s) /\ Head(s) = s[1] /\ Tail(s) \in Seq(S) /\ Head(s) \in S
  OBVIOUS
<1>2. ASSUME NEW n \in 1..Len(Tail(s))
      PROVE  n + 1 \in 1..Len(s) /\ Tail(s)[n] = s[n + 1]
  OBVIOUS
<1> QED
  BY <1>1, <1>2

\* The queue of port p in a family of queues: one message more, or the first
\* one fewer, or none.
LEMMA QueueGrows ==
  ASSUME NEW S, NEW q \in [Port -> Seq(S)], NEW p \in Port, NEW x \in S
  PROVE  LET r == [q EXCEPT ![p] = Append(@, x)] IN
         /\ r \in [Port -> Seq(S)]
         /\ \A o \in Port : \A n \in 1..Len(r[o]) :
              (o = p /\ r[o][n] = x) \/ \E m \in 1..Len(q[o]) : r[o][n] = q[o][m]
<1> DEFINE y == Append(q[p], x)
<1>1. /\ y \in Seq(S)
      /\ \A n \in 1..Len(y) : y[n] = x \/ \E m \in 1..Len(q[p]) : y[n] = q[p][m]
  BY QueueAppend
<1> HIDE DEF y
<1>2. [q EXCEPT ![p] = Append(@, x)] = [q EXCEPT ![p] = y]
  BY DEF y
<1> QED
  BY <1>1, <1>2

LEMMA QueueShrinks ==
  ASSUME NEW S, NEW q \in [Port -> Seq(S)], NEW p \in Port, q[p] # <<>>
  PROVE  LET r == [q EXCEPT ![p] = Tail(@)] IN
         /\ r \in [Port -> Seq(S)]
         /\ \A o \in Port : \A n \in 1..Len(r[o]) : \E m \in 1..Len(q[o]) : r[o][n] = q[o][m]
<1> DEFINE y == Tail(q[p])
<1>1. /\ y \in Seq(S)
      /\ \A n \in 1..Len(y) : \E m \in 1..Len(q[p]) : y[n] = q[p][m]
  BY QueueTail
<1> HIDE DEF y
<1>2. [q EXCEPT ![p] = Tail(@)] = [q EXCEPT ![p] = y]
  BY DEF y
<1> QED
  BY <1>1, <1>2

LEMMA QueueEmpties ==
  ASSUME NEW S, NEW q \in [Port -> Seq(S)], NEW p \in Port
  PROVE  LET r == [q EXCEPT ![p] = <<>>] IN
         /\ r \in [Port -> Seq(S)]
         /\ \A o \in Port : \A n \in 1..Len(r[o]) : \E m \in 1..Len(q[o]) : r[o][n] = q[o][m]
<1> DEFINE y == <<>>
<1>1. y \in Seq(S) /\ Len(y) = 0
  OBVIOUS
<1> HIDE DEF y
<1>2. [q EXCEPT ![p] = <<>>] = [q EXCEPT ![p] = y]
  BY DEF y
<1>3. \A n \in 1..Len(y) : FALSE
  BY <1>1
<1> QED
  BY <1>1, <1>2, <1>3

LEMMA Messages ==
  /\ Hello \in Message /\ Ok \in Message /\ Hello.kind = "hello" /\ Ok.kind = "ok"
  /\ \A i \in Nat, c \in Call :
       /\ Request(i, c) \in Message /\ Response(i, c) \in Message
       /\ Request(i, c).kind = "request" /\ Response(i, c).kind = "response"
       /\ Request(i, c).of = c /\ Response(i, c).of = c
       /\ Response(i, c).id = i
BY DEF Hello, Ok, Request, Response, Message

\* Calls that were made stay made, on their connection and with their id.
Keep(c) ==
  Made(c) => call'[c].pc # "idle" /\ call'[c].conn = call[c].conn /\ call'[c].id = call[c].id

LEMMA NumberFrame ==
  ASSUME TypeOK, NumberInv, call' \in [Call -> CallState],
         \A c \in Call : Keep(c) /\ (~Made(c) => call'[c].pc = "idle"),
         opened' \in Nat, opened <= opened', UNCHANGED next_id
  PROVE  NumberInv'
<1>1. \A c \in Call : call[c].conn \in Int
  BY RpcAssumption DEF TypeOK, CallState
<1>2. opened \in Int
  BY DEF TypeOK
<1>3. \A c \in Call : Made(c)' => /\ Made(c) /\ call'[c].conn = call[c].conn
                                  /\ call'[c].id = call[c].id
  BY DEF Keep, Made
<1> QED
  BY <1>1, <1>2, <1>3 DEF NumberInv, Port

LEMMA MessageFrame ==
  ASSUME MessageInv, \A c \in Call : Keep(c),
         \A p \in Port : Helloed(p) => Helloed(p)',
         \A p \in Port : \A n \in 1..Len(toExt'[p]) :
           (\E m \in 1..Len(toExt[p]) : toExt'[p][n] = toExt[p][m])
             \/ AskOk(toExt[p][n], p)',
         \A p \in Port : \A n \in 1..Len(toApp'[p]) :
           (\E m \in 1..Len(toApp[p]) : toApp'[p][n] = toApp[p][m])
             \/ TellOk(toApp[p][n], p)',
         \A c \in Call : task'[c] = "running" => task[c] = "running" \/ Made(c)'
  PROVE  MessageInv'
<1>1. \A c \in Call : Made(c) => Made(c)'
  BY DEF Keep, Made
<1>2. ASSUME NEW m, NEW p \in Port, AskOk(m, p) PROVE AskOk(m, p)'
  BY <1>1, <1>2 DEF AskOk
<1>3. ASSUME NEW m, NEW p \in Port, TellOk(m, p) PROVE TellOk(m, p)'
  BY <1>1, <1>3 DEF TellOk, Keep
<1>4. ASSUME NEW p \in Port, NEW n \in 1..Len(toExt'[p]) PROVE AskOk(toExt[p][n], p)'
  <2>1. CASE \E m \in 1..Len(toExt[p]) : toExt'[p][n] = toExt[p][m]
    BY <1>2, <2>1 DEF MessageInv
  <2> QED
    BY <2>1
<1>5. ASSUME NEW p \in Port, NEW n \in 1..Len(toApp'[p]) PROVE TellOk(toApp[p][n], p)'
  <2>1. CASE \E m \in 1..Len(toApp[p]) : toApp'[p][n] = toApp[p][m]
    BY <1>3, <2>1 DEF MessageInv
  <2> QED
    BY <2>1
<1>6. \A c \in Call : task'[c] = "running" => Made(c)'
  BY <1>1 DEF MessageInv
<1> QED
  BY <1>4, <1>5, <1>6 DEF MessageInv

LEMMA AnswerFrame ==
  ASSUME TypeOK, AnswerInv, \A c \in Call : Keep(c),
         \A c \in Call : call'[c].pc = "answered" =>
           \/ call[c].pc = "answered" /\ call'[c].answer = call[c].answer
           \/ /\ call'[c].answer \in Call /\ Made(call[c].answer)'
              /\ call'[c].answer = c \/ call'[call'[c].answer].conn < call'[c].conn
  PROVE  AnswerInv'
<1> SUFFICES ASSUME NEW c \in Call, call'[c].pc = "answered"
             PROVE  /\ call'[c].answer \in Call /\ Made(call[c].answer)'
                    /\ call'[c].answer = c \/ call'[call'[c].answer].conn < call'[c].conn
  BY DEF AnswerInv
<1>1. CASE call[c].pc = "answered" /\ call'[c].answer = call[c].answer
  BY <1>1 DEF AnswerInv, Keep, Made
<1> QED
  BY <1>1

\* Steps that leave the app's calls alone.
LEMMA CallsFrame ==
  ASSUME TypeOK, NumberInv, AnswerInv, UNCHANGED <<call, next_id>>,
         opened' \in Nat, opened <= opened'
  PROVE  NumberInv' /\ AnswerInv' /\ \A c \in Call : Keep(c)
<1>1. \A c \in Call : Keep(c) /\ (~Made(c) => call'[c].pc = "idle")
  BY DEF Keep, Made
<1>2. call' \in [Call -> CallState]
  BY DEF TypeOK
<1>3. NumberInv'
  BY <1>1, <1>2, NumberFrame
<1>4. AnswerInv'
  BY DEF AnswerInv, Made
<1> QED
  BY <1>1, <1>3, <1>4

----------------------------------------------------------------------------
(***************************************************************************)
(* Preservation: the extension.                                            *)
(***************************************************************************)

\* Steps of the extension's own: the app, the hosts and what is sent to the app
\* are left alone, and what is sent to the extension is at most read.
LEMMA ExtensionStep ==
  ASSUME IInv, UNCHANGED <<opened, host, toApp, appVars>>,
         worker' \in BOOLEAN, connected' \in BOOLEAN, timer' \in BOOLEAN,
         port' \in {0, port}, pending' \subseteq Port, LinkInv',
         task' \in [Call -> {"none", "running", "done", "lost"}],
         \A c \in Call : task'[c] = "running" => task[c] = "running" \/ Made(c),
         toExt' \in [Port -> Seq(Message)],
         \A o \in Port : \A n \in 1..Len(toExt'[o]) :
           \E m \in 1..Len(toExt[o]) : toExt'[o][n] = toExt[o][m]
  PROVE  IInv'
<1>t. TypeOK
  BY DEF IInv
<1>1. TypeOK'
  BY <1>t, RpcAssumption DEF TypeOK, appVars
<1>2. PortInv'
  BY DEF IInv, PortInv, appVars
<1>3. NumberInv' /\ AnswerInv' /\ \A c \in Call : Keep(c)
  <2>1. opened' \in Nat /\ opened <= opened'
    BY <1>t DEF TypeOK
  <2> QED
    BY <1>t, <2>1, CallsFrame DEF IInv, appVars
<1>4. MessageInv'
  <2>1. \A p \in Port : Helloed(p) => Helloed(p)'
    BY DEF Helloed, appVars
  <2>2. \A c \in Call : Made(c) => Made(c)'
    BY DEF Made, appVars
  <2>3. \A c \in Call : task'[c] = "running" => task[c] = "running" \/ Made(c)'
    BY <2>2
  <2>4. \A p \in Port : \A n \in 1..Len(toApp'[p]) :
          \E m \in 1..Len(toApp[p]) : toApp'[p][n] = toApp[p][m]
    OBVIOUS
  <2> QED
    BY <1>3, <2>1, <2>3, <2>4, MessageFrame DEF IInv
<1> QED
  BY <1>1, <1>2, <1>3, <1>4 DEF IInv

LEMMA SameHellos ==
  ASSUME UNCHANGED hellos
  PROVE  \A p : Helloed(p)' <=> Helloed(p)
BY DEF Helloed

LEMMA WorkerStopsStep ==
  ASSUME IInv, WorkerStops
  PROVE  IInv'
<1>t. TypeOK
  BY DEF IInv
<1>1. LinkInv'
  BY DEF WorkerStops, LinkInv
<1>2. /\ task' \in [Call -> {"none", "running", "done", "lost"}]
      /\ \A c \in Call : task'[c] = "running" => task[c] = "running"
  BY <1>t DEF WorkerStops, TypeOK
<1>3. toExt' \in [Port -> Seq(Message)]
  BY <1>t DEF WorkerStops, TypeOK
<1> QED
  BY <1>1, <1>2, <1>3, ExtensionStep DEF WorkerStops

LEMMA TimerIdleStep ==
  ASSUME IInv, TimerIdle
  PROVE  IInv'
<1>t. TypeOK
  BY DEF IInv
<1>1. LinkInv'
  BY SameHellos DEF IInv, TimerIdle, LinkInv, appVars
<1> QED
  BY <1>t, <1>1, ExtensionStep DEF TimerIdle, TypeOK

LEMMA HelloTimesOutStep ==
  ASSUME IInv, HelloTimesOut
  PROVE  IInv'
<1>t. TypeOK
  BY DEF IInv
<1>1. LinkInv'
  BY SameHellos DEF IInv, HelloTimesOut, LinkInv, appVars
<1> QED
  BY <1>t, <1>1, ExtensionStep DEF HelloTimesOut, TypeOK

LEMMA PortDisconnectsStep ==
  ASSUME IInv, PortDisconnects
  PROVE  IInv'
<1>t. TypeOK
  BY DEF IInv
<1>1. port \in Port /\ worker
  BY <1>t DEF PortDisconnects, TypeOK, IInv, LinkInv, Port
<1>2. LinkInv'
  BY <1>1 DEF PortDisconnects, LinkInv
<1>3. /\ toExt' \in [Port -> Seq(Message)]
      /\ \A o \in Port : \A n \in 1..Len(toExt'[o]) :
           \E m \in 1..Len(toExt[o]) : toExt'[o][n] = toExt[o][m]
  BY <1>t, <1>1, QueueEmpties DEF PortDisconnects, TypeOK
<1> QED
  BY <1>t, <1>2, <1>3, ExtensionStep DEF PortDisconnects, TypeOK

\* markConnected: the app knows the port.
LEMMA OnHelloAnswerStep ==
  ASSUME IInv, OnHelloAnswer
  PROVE  IInv'
<1>t. TypeOK
  BY DEF IInv
<1>1. port \in Port /\ toExt[port] \in Seq(Message) /\ toExt[port] # <<>>
  BY <1>t DEF OnHelloAnswer, TypeOK, Port
<1>2. Helloed(port)
  <2>1. PICK m \in 1..Len(toExt[port]) : Head(toExt[port]) = toExt[port][m]
    BY <1>1, QueueTail
  <2>2. toExt[port][m].kind = "ok"
    BY <2>1, Messages DEF OnHelloAnswer
  <2> QED
    BY <1>1, <2>2 DEF IInv, MessageInv, AskOk
<1>3. LinkInv'
  BY <1>1, <1>2, SameHellos DEF IInv, OnHelloAnswer, LinkInv, appVars
<1>4. /\ toExt' \in [Port -> Seq(Message)]
      /\ \A o \in Port : \A n \in 1..Len(toExt'[o]) :
           \E m \in 1..Len(toExt[o]) : toExt'[o][n] = toExt[o][m]
  BY <1>t, <1>1, QueueShrinks DEF OnHelloAnswer, TypeOK
<1>5. connected' \in BOOLEAN /\ pending' \subseteq Port
  BY <1>t DEF OnHelloAnswer, TypeOK
<1> QED
  BY <1>t, <1>3, <1>4, <1>5, ExtensionStep DEF OnHelloAnswer, TypeOK

LEMMA OnRequestStep ==
  ASSUME IInv, OnRequest
  PROVE  IInv'
<1>t. TypeOK
  BY DEF IInv
<1>1. port \in Port /\ toExt[port] \in Seq(Message) /\ toExt[port] # <<>>
  BY <1>t DEF OnRequest, TypeOK, Port
<1>2. PICK c \in Call : c = Head(toExt[port]).of /\ Made(c)
  <2>1. PICK m \in 1..Len(toExt[port]) : Head(toExt[port]) = toExt[port][m]
    BY <1>1, QueueTail
  <2> QED
    BY <1>1, <2>1 DEF IInv, MessageInv, AskOk, OnRequest
<1>3. LinkInv'
  BY <1>1, <1>2, SameHellos DEF IInv, OnRequest, LinkInv, appVars
<1>4. /\ toExt' \in [Port -> Seq(Message)]
      /\ \A o \in Port : \A n \in 1..Len(toExt'[o]) :
           \E m \in 1..Len(toExt[o]) : toExt'[o][n] = toExt[o][m]
  BY <1>t, <1>1, QueueShrinks DEF OnRequest, TypeOK
<1>5. /\ task' \in [Call -> {"none", "running", "done", "lost"}]
      /\ \A d \in Call : task'[d] = "running" => task[d] = "running" \/ Made(d)
  BY <1>t, <1>2 DEF OnRequest, TypeOK
<1> QED
  BY <1>t, <1>3, <1>4, <1>5, ExtensionStep DEF OnRequest, TypeOK

\* connect() in a worker without a port.
LEMMA ConnectStep ==
  ASSUME IInv, Connecting
  PROVE  IInv'
<1>t. TypeOK
  BY DEF IInv
<1>1. /\ port = 0 /\ worker' = TRUE /\ ~connected
      /\ UNCHANGED <<connected, task, toExt, appVars>>
  BY <1>t DEF Connecting, WorkerStarts, TimerFires, Alarm, IInv, LinkInv, TypeOK
<1>2. CASE OpenFails
  <2>1. LinkInv'
    BY <1>1, <1>2 DEF OpenFails, LinkInv
  <2>2. UNCHANGED <<opened, host, toApp, pending>> /\ port' = 0 /\ timer' = TRUE
    BY <1>2 DEF OpenFails
  <2> QED
    BY <1>t, <1>1, <2>1, <2>2, ExtensionStep DEF TypeOK
<1>3. CASE OpenPort /\ (timer' = FALSE \/ UNCHANGED timer)
  <2>1. PICK p \in Port : p = opened + 1 /\ port' = p /\ opened' = p
    BY <1>t, <1>3, RpcAssumption DEF OpenPort, TypeOK, Port
  <2>2. /\ p \in Int /\ opened \in Int /\ opened <= opened' /\ opened' \in Nat
        /\ port' \in 0..MaxPort /\ opened' \in 0..MaxPort /\ port' # 0
    BY <1>t, <2>1, RpcAssumption DEF TypeOK, Port
  <2>3. /\ host' = [host EXCEPT ![p] = "starting"]
        /\ toApp' = [toApp EXCEPT ![p] = <<Hello>>]
        /\ pending' = pending \cup {p}
    BY <1>3, <2>1 DEF OpenPort
  <2>4. /\ toApp' \in [Port -> Seq(Message)]
        /\ \A o \in Port : \A n \in 1..Len(toApp'[o]) :
             (\E m \in 1..Len(toApp[o]) : toApp'[o][n] = toApp[o][m]) \/ toApp'[o][n] = Hello
    <3> DEFINE y == <<Hello>>
    <3>1. y \in Seq(Message) /\ \A n \in 1..Len(y) : y[n] = Hello
      BY Messages
    <3> HIDE DEF y
    <3>2. toApp' = [toApp EXCEPT ![p] = y]
      BY <2>3 DEF y
    <3> QED
      BY <1>t, <3>1, <3>2 DEF TypeOK
  <2>5. TypeOK'
    <3>1. timer' \in BOOLEAN
      BY <1>t, <1>3 DEF TypeOK
    <3>2. host' \in [Port -> {"none", "starting", "up", "gone"}] /\ pending' \subseteq Port
      BY <1>t, <2>3 DEF TypeOK
    <3> QED
      BY <1>t, <1>1, <2>2, <2>4, <3>1, <3>2 DEF TypeOK, appVars
  <2>6. LinkInv'
    BY <1>1, <2>1, <2>2 DEF LinkInv
  <2>7. PortInv'
    <3>1. \A o \in Port : host'[o] # "none" => o = p \/ host[o] # "none"
      BY <1>t, <2>3 DEF TypeOK
    <3>2. bridge \in Int /\ \A o \in Port : o \in Int
      BY <1>t DEF TypeOK, Port
    <3> QED
      BY <1>1, <2>1, <2>2, <3>1, <3>2 DEF IInv, PortInv, appVars
  <2>8. NumberInv' /\ AnswerInv' /\ \A c \in Call : Keep(c)
    BY <1>t, <1>1, <2>2, CallsFrame DEF IInv, appVars
  <2>9. MessageInv'
    <3>1. \A o \in Port : \A n \in 1..Len(toApp'[o]) :
            (\E m \in 1..Len(toApp[o]) : toApp'[o][n] = toApp[o][m])
              \/ TellOk(toApp[o][n], o)'
      BY <2>4, Messages DEF TellOk
    <3>2. /\ \A o \in Port : Helloed(o) => Helloed(o)'
          /\ \A o \in Port : \A n \in 1..Len(toExt'[o]) :
               \E m \in 1..Len(toExt[o]) : toExt'[o][n] = toExt[o][m]
          /\ \A c \in Call : task'[c] = "running" => task[c] = "running"
      BY <1>1, SameHellos DEF appVars
    <3> QED
      BY <2>8, <3>1, <3>2, MessageFrame DEF IInv
  <2> QED
    BY <2>5, <2>6, <2>7, <2>8, <2>9 DEF IInv
<1> QED
  BY <1>2, <1>3 DEF Connecting, WorkerStarts, TimerFires, Alarm

\* A response goes out on the port that is open now, which is that of the
\* request or a later one.
LEMMA HandlerEndsStep ==
  ASSUME IInv, NEW c \in Call, HandlerEnds(c)
  PROVE  IInv'
<1>t. TypeOK
  BY DEF IInv
<1>0. UNCHANGED <<worker, port, connected, timer, pending, opened, host, toExt, appVars>>
  BY DEF HandlerEnds
<1>1. /\ task' \in [Call -> {"none", "running", "done", "lost"}]
      /\ \A d \in Call : task'[d] = "running" => task[d] = "running"
  BY <1>t DEF HandlerEnds, TypeOK
<1>2. Made(c) /\ call[c].id \in Nat /\ call[c].conn \in Int /\ call[c].conn <= opened
  <2>1. Made(c)
    BY DEF HandlerEnds, IInv, MessageInv
  <2> QED
    BY <1>t, <2>1 DEF IInv, NumberInv, TypeOK, CallState
<1>3. /\ toApp' \in [Port -> Seq(Message)]
      /\ \A o \in Port : \A n \in 1..Len(toApp'[o]) :
           \/ \E m \in 1..Len(toApp[o]) : toApp'[o][n] = toApp[o][m]
           \/ o = opened /\ toApp'[o][n] = Response(call[c].id, c)
  <2>1. CASE toApp' = toApp
    BY <1>t, <2>1 DEF TypeOK
  <2>2. CASE port # 0 /\ toApp' = [toApp EXCEPT ![port] = Append(@, Response(call[c].id, c))]
    <3>1. port \in Port /\ port = opened
      BY <1>t, <2>2 DEF TypeOK, Port, IInv, LinkInv
    <3>2. Response(call[c].id, c) \in Message /\ toApp \in [Port -> Seq(Message)]
      BY <1>t, <1>2, Messages DEF TypeOK
    <3> QED
      BY <2>2, <3>1, <3>2, QueueGrows
  <2> QED
    BY <2>1, <2>2 DEF HandlerEnds, Send
<1>4. TypeOK'
  BY <1>t, <1>0, <1>1, <1>3 DEF TypeOK, appVars
<1>5. LinkInv' /\ PortInv'
  BY <1>0, SameHellos DEF IInv, LinkInv, PortInv, appVars
<1>6. NumberInv' /\ AnswerInv' /\ \A d \in Call : Keep(d)
  <2>1. opened' \in Nat /\ opened <= opened'
    BY <1>t, <1>0 DEF TypeOK
  <2> QED
    BY <1>t, <1>0, <2>1, CallsFrame DEF IInv, appVars
<1>7. MessageInv'
  <2>1. \A o \in Port : \A n \in 1..Len(toApp'[o]) :
          (\E m \in 1..Len(toApp[o]) : toApp'[o][n] = toApp[o][m]) \/ TellOk(toApp[o][n], o)'
    <3> SUFFICES ASSUME NEW o \in Port, NEW n \in 1..Len(toApp'[o]),
                        o = opened, toApp'[o][n] = Response(call[c].id, c)
                 PROVE  TellOk(toApp[o][n], o)'
      BY <1>3
    <3> QED
      BY <1>0, <1>2, Messages DEF TellOk, Made, appVars
  <2>2. /\ \A o \in Port : Helloed(o) => Helloed(o)'
        /\ \A o \in Port : \A n \in 1..Len(toExt'[o]) :
             \E m \in 1..Len(toExt[o]) : toExt'[o][n] = toExt[o][m]
    BY <1>0, SameHellos DEF appVars
  <2> QED
    BY <1>1, <1>6, <2>1, <2>2, MessageFrame DEF IInv
<1> QED
  BY <1>4, <1>5, <1>6, <1>7 DEF IInv

----------------------------------------------------------------------------
(***************************************************************************)
(* Preservation: the hosts and the app.                                    *)
(***************************************************************************)

\* The extension's state and the ports are left alone.
LEMMA AppStep ==
  ASSUME IInv, UNCHANGED <<extVars, opened>>,
         host' \in [Port -> {"none", "starting", "up", "gone"}],
         \A p \in Port : host'[p] # "none" => host[p] # "none",
         bridge' \in 0..MaxPort, bridge' <= opened,
         hellos' \in Seq(Port), \A p \in Port : Helloed(p) => Helloed(p)',
         call' \in [Call -> CallState], \A c \in Call : Keep(c),
         next_id' \in [Port -> Nat], NumberInv', AnswerInv',
         toApp' \in [Port -> Seq(Message)], toExt' \in [Port -> Seq(Message)],
         \A p \in Port : \A n \in 1..Len(toExt'[p]) :
           (\E m \in 1..Len(toExt[p]) : toExt'[p][n] = toExt[p][m])
             \/ AskOk(toExt[p][n], p)',
         \A p \in Port : \A n \in 1..Len(toApp'[p]) :
           \E m \in 1..Len(toApp[p]) : toApp'[p][n] = toApp[p][m]
  PROVE  IInv'
<1>t. TypeOK
  BY DEF IInv
<1>1. TypeOK'
  BY <1>t DEF TypeOK, extVars
<1>2. LinkInv'
  <2>1. port # 0 => port \in Port
    BY <1>t DEF TypeOK, Port
  <2> QED
    BY <2>1 DEF IInv, LinkInv, extVars
<1>3. PortInv'
  BY DEF IInv, PortInv
<1>4. MessageInv'
  <2>1. \A c \in Call : task'[c] = "running" => task[c] = "running"
    BY DEF extVars
  <2> QED
    BY <2>1, MessageFrame DEF IInv
<1> QED
  BY <1>1, <1>2, <1>3, <1>4 DEF IInv

LEMMA HostConnectsStep ==
  ASSUME IInv, NEW p \in Port, HostConnects(p)
  PROVE  IInv'
<1>t. TypeOK
  BY DEF IInv
<1>1. /\ host' \in [Port -> {"none", "starting", "up", "gone"}]
      /\ \A o \in Port : host'[o] # "none" => host[o] # "none"
  BY <1>t DEF HostConnects, TypeOK
<1>2. NumberInv' /\ AnswerInv' /\ \A c \in Call : Keep(c)
  <2>1. opened' \in Nat /\ opened <= opened'
    BY <1>t DEF TypeOK, HostConnects
  <2> QED
    BY <1>t, <2>1, CallsFrame DEF IInv, appVars, HostConnects
<1>3. bridge' \in 0..MaxPort /\ bridge' <= opened
  BY <1>t DEF HostConnects, appVars, TypeOK, IInv, PortInv
<1>4. hellos' \in Seq(Port) /\ \A o \in Port : Helloed(o) => Helloed(o)'
  BY <1>t, SameHellos DEF HostConnects, appVars, TypeOK
<1> QED
  BY <1>t, <1>1, <1>2, <1>3, <1>4, AppStep DEF HostConnects, appVars, TypeOK

\* Calls that come to an end keep their connection and id.
LEMMA CallsEnd ==
  ASSUME IInv, call' \in [Call -> CallState], NEW S \in SUBSET Call,
         \A c \in S : /\ Made(c) /\ call'[c].pc \in {"answered", "failed"}
                      /\ call'[c].conn = call[c].conn /\ call'[c].id = call[c].id,
         \A c \in Call \ S : call'[c] = call[c],
         UNCHANGED <<opened, next_id>>
  PROVE  NumberInv' /\ \A c \in Call : Keep(c)
<1>t. TypeOK
  BY DEF IInv
<1>1. \A c \in Call : Keep(c) /\ (~Made(c) => call'[c].pc = "idle")
  BY DEF Keep, Made
<1>2. opened' \in Nat /\ opened <= opened'
  BY <1>t DEF TypeOK
<1> QED
  BY <1>t, <1>1, <1>2, NumberFrame DEF IInv

LEMMA CallsFail ==
  ASSUME IInv, NEW S \in SUBSET Call, \A c \in S : call[c].pc = "waiting",
         call' = [c \in Call |-> IF c \in S THEN [call[c] EXCEPT !.pc = "failed"]
                                            ELSE call[c]],
         UNCHANGED <<opened, next_id>>
  PROVE  /\ call' \in [Call -> CallState] /\ \A c \in Call : Keep(c)
         /\ NumberInv' /\ AnswerInv'
<1>t. TypeOK
  BY DEF IInv
<1> DEFINE x(c) == [call[c] EXCEPT !.pc = "failed"]
<1>1. ASSUME NEW c \in Call
      PROVE  /\ x(c) \in CallState /\ x(c).pc = "failed"
             /\ x(c).conn = call[c].conn /\ x(c).id = call[c].id
  <2>1. call[c] \in CallState
    BY <1>t DEF TypeOK
  <2> QED
    BY <2>1 DEF CallState
<1>2. call' = [c \in Call |-> IF c \in S THEN x(c) ELSE call[c]]
  OBVIOUS
<1> HIDE DEF x
<1>3. /\ call' \in [Call -> CallState]
      /\ \A c \in S : call'[c] = x(c)
      /\ \A c \in Call \ S : call'[c] = call[c]
  <2>1. \A c \in Call : call[c] \in CallState /\ x(c) \in CallState
    BY <1>t, <1>1 DEF TypeOK
  <2> HIDE DEF CallState
  <2> QED
    BY <1>2, <2>1
<1>4. \A c \in S : /\ Made(c) /\ call'[c].pc = "failed"
                   /\ call'[c].conn = call[c].conn /\ call'[c].id = call[c].id
  BY <1>1, <1>3 DEF Made
<1>5. NumberInv' /\ \A c \in Call : Keep(c)
  BY <1>3, <1>4, CallsEnd
<1>6. AnswerInv'
  BY <1>t, <1>3, <1>4, <1>5, AnswerFrame DEF IInv
<1> QED
  BY <1>3, <1>5, <1>6

\* A response that names call a reaches the calls of S.
LEMMA CallsAnswered ==
  ASSUME IInv, NEW S \in SUBSET Call, NEW a \in Call, Made(a),
         \A c \in S : call[c].pc = "waiting" /\ (a = c \/ call[a].conn < call[c].conn),
         call' = [c \in Call |-> IF c \in S
                                 THEN [call[c] EXCEPT !.pc = "answered", !.answer = a]
                                 ELSE call[c]],
         UNCHANGED <<opened, next_id>>
  PROVE  /\ call' \in [Call -> CallState] /\ \A c \in Call : Keep(c)
         /\ NumberInv' /\ AnswerInv'
<1>t. TypeOK
  BY DEF IInv
<1> DEFINE x(c) == [call[c] EXCEPT !.pc = "answered", !.answer = a]
<1>1. ASSUME NEW c \in Call
      PROVE  /\ x(c) \in CallState /\ x(c).pc = "answered" /\ x(c).answer = a
             /\ x(c).conn = call[c].conn /\ x(c).id = call[c].id
  <2>1. call[c] \in CallState
    BY <1>t DEF TypeOK
  <2> QED
    BY <2>1 DEF CallState
<1>2. call' = [c \in Call |-> IF c \in S THEN x(c) ELSE call[c]]
  OBVIOUS
<1> HIDE DEF x
<1>3. /\ call' \in [Call -> CallState]
      /\ \A c \in S : call'[c] = x(c)
      /\ \A c \in Call \ S : call'[c] = call[c]
  <2>1. \A c \in Call : call[c] \in CallState /\ x(c) \in CallState
    BY <1>t, <1>1 DEF TypeOK
  <2> HIDE DEF CallState
  <2> QED
    BY <1>2, <2>1
<1>4. ASSUME NEW c \in S
      PROVE  /\ Made(c) /\ call'[c].pc = "answered" /\ call'[c].answer = a
             /\ call'[c].conn = call[c].conn /\ call'[c].id = call[c].id
  <2>1. c \in Call /\ call[c].pc = "waiting"
    OBVIOUS
  <2>2. Made(c)
    BY <2>1 DEF Made
  <2>3. call'[c] = x(c)
    BY <1>3
  <2> QED
    BY <1>1, <2>1, <2>2, <2>3
<1>5. NumberInv' /\ \A c \in Call : Keep(c)
  BY <1>3, <1>4, CallsEnd
<1>6. AnswerInv'
  <2>1. call'[a].conn = call[a].conn /\ call'[a].pc # "idle"
    BY <1>5 DEF Keep
  <2>2. ASSUME NEW c \in S
        PROVE  /\ call'[c].answer \in Call /\ Made(call[c].answer)'
               /\ call'[c].answer = c \/ call'[call'[c].answer].conn < call'[c].conn
    <3>1. call'[c].answer = a /\ Made(a)' /\ call'[c].conn = call[c].conn
      BY <1>4, <2>1 DEF Made
    <3>2. a = c \/ call'[a].conn < call'[c].conn
      BY <2>1, <3>1
    <3> QED
      BY <3>1, <3>2
  <2> QED
    BY <1>t, <1>3, <1>5, <2>2, AnswerFrame DEF IInv
<1> QED
  BY <1>3, <1>5, <1>6

LEMMA HostEndsStep ==
  ASSUME IInv, NEW p \in Port, HostEnds(p)
  PROVE  IInv'
<1>t. TypeOK
  BY DEF IInv
<1>0. UNCHANGED <<extVars, opened, toExt, next_id, hellos>>
  BY DEF HostEnds
<1>1. /\ host' \in [Port -> {"none", "starting", "up", "gone"}]
      /\ \A o \in Port : host'[o] # "none" => host[o] # "none"
  BY <1>t DEF HostEnds, TypeOK
<1>2. /\ call' \in [Call -> CallState] /\ \A c \in Call : Keep(c)
      /\ NumberInv' /\ AnswerInv'
  <2> DEFINE S == {c \in Call : call[c].pc = "waiting" /\ call[c].conn = p}
  <2>1. /\ S \in SUBSET Call /\ \A c \in S : call[c].pc = "waiting"
        /\ call' = [c \in Call |-> IF c \in S THEN [call[c] EXCEPT !.pc = "failed"]
                                              ELSE call[c]]
    BY DEF HostEnds
  <2> HIDE DEF S
  <2> QED
    BY <1>0, <2>1, CallsFail
<1>3. bridge' \in 0..MaxPort /\ bridge' <= opened
  <2>1. bridge' = 0 \/ bridge' = bridge
    BY DEF HostEnds
  <2>2. bridge \in 0..MaxPort /\ bridge <= opened /\ opened \in 0..MaxPort
    BY <1>t DEF TypeOK, IInv, PortInv
  <2> QED
    BY <2>1, <2>2, RpcAssumption
<1>4. hellos' \in Seq(Port) /\ \A o \in Port : Helloed(o) => Helloed(o)'
  BY <1>t, <1>0, SameHellos DEF TypeOK
<1>5. /\ toApp' \in [Port -> Seq(Message)]
      /\ \A o \in Port : \A n \in 1..Len(toApp'[o]) :
           \E m \in 1..Len(toApp[o]) : toApp'[o][n] = toApp[o][m]
  BY <1>t, QueueEmpties DEF HostEnds, TypeOK
<1>6. next_id' \in [Port -> Nat] /\ toExt' \in [Port -> Seq(Message)]
  BY <1>t, <1>0 DEF TypeOK
<1> QED
  BY <1>0, <1>1, <1>2, <1>3, <1>4, <1>5, <1>6, AppStep

LEMMA HelloHandledStep ==
  ASSUME IInv, NEW p \in Port, HelloHandled(p)
  PROVE  IInv'
<1>t. TypeOK
  BY DEF IInv
<1>0. UNCHANGED <<extVars, opened, host, next_id, call>>
  BY DEF HelloHandled
<1>1. NumberInv' /\ AnswerInv' /\ \A c \in Call : Keep(c)
  <2>1. opened' \in Nat /\ opened <= opened'
    BY <1>t, <1>0 DEF TypeOK
  <2> QED
    BY <1>t, <1>0, <2>1, CallsFrame DEF IInv
<1>2. bridge' \in 0..MaxPort /\ bridge' <= opened
  BY <1>t DEF HelloHandled, NextIs, TypeOK, IInv, PortInv, Port
<1>3. hellos' \in Seq(Port) /\ Helloed(p)' /\ \A o \in Port : Helloed(o) => Helloed(o)'
  <2>1. hellos \in Seq(Port) /\ hellos' = Append(hellos, p)
    BY <1>t DEF TypeOK, HelloHandled
  <2>2. /\ Len(hellos) + 1 \in DOMAIN hellos' /\ hellos'[Len(hellos) + 1] = p
        /\ \A i \in DOMAIN hellos : i \in DOMAIN hellos' /\ hellos'[i] = hellos[i]
    BY <2>1
  <2> QED
    BY <2>1, <2>2 DEF Helloed
<1>4. /\ toApp' \in [Port -> Seq(Message)]
      /\ \A o \in Port : \A n \in 1..Len(toApp'[o]) :
           \E m \in 1..Len(toApp[o]) : toApp'[o][n] = toApp[o][m]
  <2>1. /\ toApp \in [Port -> Seq(Message)] /\ toApp[p] # <<>>
        /\ toApp' = [toApp EXCEPT ![p] = Tail(@)]
    BY <1>t DEF HelloHandled, NextIs, TypeOK
  <2> QED
    BY <2>1, QueueShrinks
<1>5. /\ toExt' \in [Port -> Seq(Message)]
      /\ \A o \in Port : \A n \in 1..Len(toExt'[o]) :
           (o = p /\ toExt'[o][n] = Ok) \/ \E m \in 1..Len(toExt[o]) : toExt'[o][n] = toExt[o][m]
  <2>1. /\ toExt \in [Port -> Seq(Message)] /\ Ok \in Message
        /\ toExt' = [toExt EXCEPT ![p] = Append(@, Ok)]
    BY <1>t, Messages DEF HelloHandled, TypeOK
  <2> QED
    BY <2>1, QueueGrows
<1>6. \A o \in Port : \A n \in 1..Len(toExt'[o]) :
        (\E m \in 1..Len(toExt[o]) : toExt'[o][n] = toExt[o][m]) \/ AskOk(toExt[o][n], o)'
  <2>1. ASSUME NEW n \in 1..Len(toExt'[p]), toExt'[p][n] = Ok PROVE AskOk(toExt[p][n], p)'
    BY <1>3, <2>1, Messages DEF AskOk
  <2> QED
    BY <1>5, <2>1
<1>7. /\ next_id' \in [Port -> Nat] /\ call' \in [Call -> CallState]
      /\ host' \in [Port -> {"none", "starting", "up", "gone"}]
  BY <1>t, <1>0 DEF TypeOK
<1> QED
  BY <1>0, <1>1, <1>2, <1>3, <1>4, <1>5, <1>6, <1>7, AppStep

\* call_raw: the id is new on its connection.
LEMMA AppCallsStep ==
  ASSUME IInv, NEW c \in Call, AppCalls(c)
  PROVE  IInv'
<1>t. TypeOK
  BY DEF IInv
<1>0. UNCHANGED <<extVars, opened, host, toApp, bridge, hellos>> /\ ~Made(c)
  BY DEF AppCalls, Made
<1>1. PICK p \in Port, i \in Nat : p = bridge /\ i = next_id[p] /\ p <= opened
  <2>1. bridge \in Port /\ bridge <= opened
    BY <1>t DEF AppCalls, TypeOK, Port, IInv, PortInv
  <2> QED
    BY <1>t, <2>1 DEF TypeOK
<1>2. /\ call' \in [Call -> CallState]
      /\ call'[c].pc = "waiting" /\ call'[c].conn = p /\ call'[c].id = i
      /\ \A d \in Call : d # c => call'[d] = call[d]
  <2> DEFINE x == [pc |-> "waiting", conn |-> p, id |-> i, answer |-> NoCall]
  <2>1. x \in CallState /\ x.pc = "waiting" /\ x.conn = p /\ x.id = i
    BY RpcAssumption DEF CallState, Port
  <2>2. call' = [call EXCEPT ![c] = x] /\ call \in [Call -> CallState]
    BY <1>t, <1>1 DEF AppCalls, TypeOK
  <2> HIDE DEF x
  <2> QED
    BY <2>1, <2>2
<1>3. /\ next_id' \in [Port -> Nat] /\ next_id'[p] = i + 1
      /\ \A o \in Port : o # p => next_id'[o] = next_id[o]
  BY <1>t, <1>1 DEF AppCalls, TypeOK
<1>4. \A d \in Call : Keep(d)
  BY <1>0, <1>2 DEF Keep, Made
<1>5. \A d \in Call : Made(d)' => \/ d = c
                                  \/ Made(d) /\ d # c /\ call'[d] = call[d]
  BY <1>2 DEF Made
<1>6. NumberInv'
  <2>1. \A d \in Call : Made(d)' =>
          /\ call'[d].conn \in Port /\ call'[d].conn <= opened'
          /\ call'[d].id < next_id'[call'[d].conn]
    <3> SUFFICES ASSUME NEW d \in Call, Made(d)'
                 PROVE  /\ call'[d].conn \in Port /\ call'[d].conn <= opened'
                        /\ call'[d].id < next_id'[call'[d].conn]
      OBVIOUS
    <3>1. CASE d = c
      BY <1>0, <1>1, <1>2, <1>3, <3>1
    <3>2. CASE Made(d) /\ call'[d] = call[d]
      <4>1. /\ call[d].conn \in Port /\ call[d].conn <= opened
            /\ call[d].id < next_id[call[d].conn] /\ call[d].id \in Nat
        BY <1>t, <3>2 DEF IInv, NumberInv, TypeOK, CallState
      <4> QED
        BY <1>0, <1>1, <1>3, <3>2, <4>1
    <3> QED
      BY <1>5, <3>1, <3>2
  <2>2. \A d \in Call : Made(d) /\ call[d].conn = p => call[d].id # i
    BY <1>t, <1>1 DEF IInv, NumberInv, TypeOK, CallState
  <2>3. \A d, e \in Call : Made(d)' /\ Made(e)' /\ call'[d].conn = call'[e].conn
                             /\ call'[d].id = call'[e].id => d = e
    BY <1>2, <1>5, <2>2 DEF IInv, NumberInv
  <2> QED
    BY <2>1, <2>3 DEF NumberInv
<1>7. AnswerInv'
  BY <1>t, <1>2, <1>4, AnswerFrame DEF IInv
<1>8. /\ toExt' \in [Port -> Seq(Message)]
      /\ \A o \in Port : \A n \in 1..Len(toExt'[o]) :
           \/ o = p /\ toExt'[o][n] = Request(i, c)
           \/ \E m \in 1..Len(toExt[o]) : toExt'[o][n] = toExt[o][m]
  <2>1. /\ toExt \in [Port -> Seq(Message)] /\ Request(i, c) \in Message
        /\ toExt' = [toExt EXCEPT ![p] = Append(@, Request(i, c))]
    BY <1>t, <1>1, Messages DEF AppCalls, TypeOK
  <2> QED
    BY <2>1, QueueGrows
<1>9. \A o \in Port : \A n \in 1..Len(toExt'[o]) :
        (\E m \in 1..Len(toExt[o]) : toExt'[o][n] = toExt[o][m]) \/ AskOk(toExt[o][n], o)'
  <2>1. ASSUME NEW n \in 1..Len(toExt'[p]), toExt'[p][n] = Request(i, c)
        PROVE  AskOk(toExt[p][n], p)'
    BY <1>2, <2>1, Messages DEF AskOk, Made
  <2> QED
    BY <1>8, <2>1
<1>10. /\ host' \in [Port -> {"none", "starting", "up", "gone"}]
       /\ bridge' \in 0..MaxPort /\ bridge' <= opened
       /\ hellos' \in Seq(Port) /\ toApp' \in [Port -> Seq(Message)]
  BY <1>t, <1>0, <1>1 DEF TypeOK
<1>11. \A o \in Port : Helloed(o) => Helloed(o)'
  BY <1>0, SameHellos
<1> QED
  BY <1>0, <1>2, <1>3, <1>4, <1>6, <1>7, <1>8, <1>9, <1>10, <1>11, AppStep

\* Peer::resolve: the response names the id of a call of this connection, or of
\* an earlier one.
LEMMA AnswerReadStep ==
  ASSUME IInv, NEW p \in Port, AnswerRead(p)
  PROVE  IInv'
<1>t. TypeOK
  BY DEF IInv
<1>0. UNCHANGED <<extVars, opened, host, toExt, bridge, next_id, hellos>>
  BY DEF AnswerRead
<1>1. PICK m \in Message : m = Head(toApp[p]) /\ TellOk(m, p) /\ m.kind = "response"
  <2>1. toApp[p] \in Seq(Message) /\ toApp[p] # <<>> /\ Head(toApp[p]).kind = "response"
    BY <1>t DEF AnswerRead, NextIs, TypeOK
  <2>2. /\ Head(toApp[p]) \in Message
        /\ \E n \in 1..Len(toApp[p]) : Head(toApp[p]) = toApp[p][n]
    BY <2>1, QueueTail
  <2> QED
    BY <2>1, <2>2 DEF IInv, MessageInv
<1>2. PICK a \in Call : /\ a = m.of /\ Made(a) /\ call[a].id = m.id
                        /\ call[a].conn <= p
  BY <1>1 DEF TellOk
<1>3. /\ call' \in [Call -> CallState] /\ \A c \in Call : Keep(c)
      /\ NumberInv' /\ AnswerInv'
  <2> DEFINE S == {c \in Call : call[c].pc = "waiting" /\ call[c].conn = p
                                  /\ call[c].id = m.id}
  <2>1. call' = [c \in Call |-> IF c \in S
                                THEN [call[c] EXCEPT !.pc = "answered", !.answer = a]
                                ELSE call[c]]
    BY <1>1, <1>2 DEF AnswerRead
  <2>2. ASSUME NEW c \in S
        PROVE  call[c].pc = "waiting" /\ (a = c \/ call[a].conn < call[c].conn)
    <3>1. c \in Call /\ Made(c) /\ call[c].conn = p /\ call[c].id = call[a].id
      BY <1>2 DEF Made
    <3>2. call[a].conn \in Int /\ p \in Int
      BY <1>t DEF TypeOK, CallState, Port
    <3> QED
      BY <1>2, <3>1, <3>2 DEF IInv, NumberInv
  <2>3. S \in SUBSET Call
    OBVIOUS
  <2> HIDE DEF S
  <2> QED
    BY <1>0, <1>2, <2>1, <2>2, <2>3, CallsAnswered
<1>4. /\ toApp' \in [Port -> Seq(Message)]
      /\ \A o \in Port : \A n \in 1..Len(toApp'[o]) :
           \E k \in 1..Len(toApp[o]) : toApp'[o][n] = toApp[o][k]
  <2>1. /\ toApp \in [Port -> Seq(Message)] /\ toApp[p] # <<>>
        /\ toApp' = [toApp EXCEPT ![p] = Tail(@)]
    BY <1>t DEF AnswerRead, NextIs, TypeOK
  <2> QED
    BY <2>1, QueueShrinks
<1>5. /\ host' \in [Port -> {"none", "starting", "up", "gone"}]
      /\ bridge' \in 0..MaxPort /\ bridge' <= opened
      /\ hellos' \in Seq(Port) /\ toExt' \in [Port -> Seq(Message)]
      /\ next_id' \in [Port -> Nat]
  BY <1>t, <1>0 DEF TypeOK, IInv, PortInv
<1>6. \A o \in Port : Helloed(o) => Helloed(o)'
  BY <1>0, SameHellos
<1> QED
  BY <1>0, <1>3, <1>4, <1>5, <1>6, AppStep

LEMMA CallTimesOutStep ==
  ASSUME IInv, NEW c \in Call, CallTimesOut(c)
  PROVE  IInv'
<1>t. TypeOK
  BY DEF IInv
<1>0. UNCHANGED <<extVars, opened, host, toApp, toExt, bridge, next_id, hellos>>
  BY DEF CallTimesOut
<1>1. /\ call' \in [Call -> CallState] /\ \A d \in Call : Keep(d)
      /\ NumberInv' /\ AnswerInv'
  <2>1. PICK S \in SUBSET Call :
          /\ \A d \in S : call[d].pc = "waiting"
          /\ call' = [d \in Call |-> IF d \in S THEN [call[d] EXCEPT !.pc = "failed"]
                                               ELSE call[d]]
    <3> DEFINE S == {c}
    <3>1. call' = [d \in Call |-> IF d \in S THEN [call[d] EXCEPT !.pc = "failed"]
                                             ELSE call[d]]
      BY <1>t DEF CallTimesOut, TypeOK
    <3>2. S \in SUBSET Call /\ \A d \in S : call[d].pc = "waiting"
      BY DEF CallTimesOut
    <3> HIDE DEF S
    <3> QED
      BY <3>1, <3>2
  <2> QED
    BY <1>0, <2>1, CallsFail
<1>2. /\ host' \in [Port -> {"none", "starting", "up", "gone"}]
      /\ bridge' \in 0..MaxPort /\ bridge' <= opened
      /\ hellos' \in Seq(Port) /\ toExt' \in [Port -> Seq(Message)]
      /\ next_id' \in [Port -> Nat] /\ toApp' \in [Port -> Seq(Message)]
  BY <1>t, <1>0 DEF TypeOK, IInv, PortInv
<1>3. \A o \in Port : Helloed(o) => Helloed(o)'
  BY <1>0, SameHellos
<1> QED
  BY <1>0, <1>1, <1>2, <1>3, AppStep

----------------------------------------------------------------------------
(***************************************************************************)
(* The theorems.                                                           *)
(***************************************************************************)
LEMMA Initially ==
  ASSUME Init
  PROVE  IInv
<1>1. TypeOK
  <2>1. call \in [Call -> CallState]
    BY RpcAssumption DEF Init, CallState
  <2>2. hellos \in Seq(Port) /\ toApp \in [Port -> Seq(Message)]
        /\ toExt \in [Port -> Seq(Message)]
    BY DEF Init
  <2>3. 0 \in 0..MaxPort /\ next_id \in [Port -> Nat]
    BY RpcAssumption DEF Init
  <2> QED
    BY <2>1, <2>2, <2>3 DEF Init, TypeOK
<1>2. LinkInv /\ PortInv /\ NumberInv /\ AnswerInv
  BY DEF Init, LinkInv, PortInv, NumberInv, AnswerInv, Made
<1>3. MessageInv
  BY DEF Init, MessageInv
<1> QED
  BY <1>1, <1>2, <1>3 DEF IInv

LEMMA Invariance == Spec => []IInv
<1>1. Init => IInv
  BY Initially
<1>2. IInv /\ [Next]_vars => IInv'
  <2> SUFFICES ASSUME IInv, [Next]_vars
               PROVE  IInv'
    OBVIOUS
  <2>1. CASE \/ Connecting \/ WorkerStops \/ TimerIdle \/ PortDisconnects
             \/ OnHelloAnswer \/ HelloTimesOut \/ OnRequest
    BY <2>1, ConnectStep, WorkerStopsStep, TimerIdleStep, PortDisconnectsStep,
       OnHelloAnswerStep, HelloTimesOutStep, OnRequestStep
  <2>2. ASSUME NEW p \in Port, HostConnects(p) \/ HostEnds(p) \/ AppNext(p) PROVE IInv'
    BY <2>2, HostConnectsStep, HostEndsStep, HelloHandledStep, AnswerReadStep DEF AppNext
  <2>3. ASSUME NEW c \in Call, HandlerEnds(c) \/ AppCalls(c) \/ CallTimesOut(c) PROVE IInv'
    BY <2>3, HandlerEndsStep, AppCallsStep, CallTimesOutStep
  <2>4. CASE UNCHANGED vars
    <3>1. TypeOK' /\ LinkInv' /\ PortInv'
      BY <2>4 DEF IInv, TypeOK, LinkInv, PortInv, Helloed, vars, extVars, appVars
    <3>2. NumberInv' /\ MessageInv' /\ AnswerInv'
      BY <2>4 DEF IInv, NumberInv, MessageInv, AskOk, TellOk, AnswerInv, Made, Helloed,
                  vars, extVars, appVars
    <3> QED
      BY <3>1, <3>2 DEF IInv
  <2> QED
    BY <2>1, <2>2, <2>3, <2>4 DEF Next
<1> QED
  BY <1>1, <1>2, PTL DEF Spec

\* The extension shows "connected" only while it has a port whose hello the app
\* has handled, and a worker without a port has a reconnect scheduled, whatever
\* hosts, hellos, alarms and timers do; the state is well typed.
THEOREM LinkIsExact == Spec => []LinkExact
<1>1. IInv => LinkExact
  BY DEF IInv, LinkInv, Helloed, LinkExact
<1> QED
  BY <1>1, Invariance, PTL

\* What a call of the app returns is the result of its own request, or of one
\* from an earlier connection whose handler outlived it: two calls of one
\* connection are never confused.
THEOREM NeverMixedUp == Spec => []AnswersWithinConnection
<1>1. IInv => AnswersWithinConnection
  BY DEF IInv, AnswerInv, AnswersWithinConnection
<1> QED
  BY <1>1, Invariance, PTL

=============================================================================
