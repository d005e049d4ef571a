------------------------- MODULE LiveConsoleProofs -------------------------
(***************************************************************************)
(* What the hub and the console promise for any number of threads,         *)
(* sockets, requests, alerts and messages, whatever goes wrong.            *)
(*                                                                         *)
(* The console handles a replay, and the answer to a poll, by folding a    *)
(* handler over a sequence.  What a fold returns is shown here by looking  *)
(* at the shortest prefix on which it might return something else.         *)
(***************************************************************************)
EXTENDS LiveConsole, FiniteSetTheorems, WellFoundedInduction, TLAPS

Places == {"idle", "detect", "read", "publish", "look", "schedule"}
Stages == {"free", "dialing", "accepted", "open", "refused", "denied", "cut"}
Greeting == [kind : {"hello"}, replay : Seq(Message)]
Frame == Message \cup Greeting

\* The threads: one that is about to write or to read a row knows which.
ThreadTypes ==
    /\ db \in [Alerts -> Statuses \cup {"none"}]
    /\ pc \in [Workers -> Places]
    /\ about \in [Workers -> 0..NumAlerts]
    /\ item \in [Workers -> Message]
    /\ \A w \in Workers : pc[w] \in {"detect", "read"} => about[w] # NoAlert

\* The hub and what is on its way.
HubTypes ==
    /\ published \in Nat
    /\ recent \in Seq(Message) /\ scheduled \in Seq(Message)
    /\ sending \in Seq([msg : Message, todo : SUBSET Socks])
    /\ conns \subseteq Socks
    /\ awaited \in [Socks -> SUBSET Nat]

WireTypes ==
    /\ sock \in [Socks -> Stages]
    /\ chan \in [Socks -> Seq(Frame)]

\* What the server answers to a poll is a list.
PollTypes ==
    /\ DOMAIN poll = Polls
    /\ \A p \in Polls : poll[p].at = "answered" =>
         \E n \in Nat : DOMAIN poll[p].items = 1..n

Types == ThreadTypes /\ HubTypes /\ WireTypes /\ PollTypes

\* A socket that was greeted and is not known to be gone is registered.
Registered == \A s \in Socks : sock[s] \in {"accepted", "open"} => s \in conns

\* An alert that was announced has been seen, and was announced then.
Earned(shown, known) ==
    /\ shown \in [Alerts -> Nat]
    /\ \A a \in Alerts : shown[a] <= IF a \in known THEN 1 ELSE 0

-----------------------------------------------------------------------------
(* Sequences. *)

\* Taking the first of a queue leaves the rest of it.
LEMMA QueueTail ==
    ASSUME NEW S, NEW q \in Seq(S), q # <<>>
    PROVE  /\ Head(q) \in S /\ Tail(q) \in Seq(S)
           /\ \A x \in Range(q) : x = Head(q) \/ x \in Range(Tail(q))
<1>1. Len(q) \in Nat /\ Len(q) > 0
  OBVIOUS
<1>2. Head(q) = q[1] /\ Head(q) \in S /\ Tail(q) \in Seq(S) /\ Len(Tail(q)) = Len(q) - 1
  BY <1>1
<1>3. ASSUME NEW i \in 1..Len(q) PROVE q[i] = Head(q) \/ q[i] \in Range(Tail(q))
  <2>1. CASE i = 1
    BY <2>1, <1>2
  <2>2. CASE i # 1
    <3>1. i - 1 \in 1..Len(Tail(q)) /\ Tail(q)[i - 1] = q[i]
      BY <2>2, <1>1, <1>2
    <3>2. i - 1 \in DOMAIN Tail(q)
      BY <3>1, <1>2
    <3> QED BY <3>1, <3>2 DEF Range
  <2> QED BY <2>1, <2>2
<1> QED BY <1>2, <1>3 DEF Range

\* Appending keeps what is there.
LEMMA QueueAppend ==
    ASSUME NEW S, NEW q \in Seq(S), NEW x \in S
    PROVE  /\ Append(q, x) \in Seq(S)
           /\ Range(Append(q, x)) = Range(q) \cup {x}
<1>1. /\ Append(q, x) \in Seq(S) /\ Len(Append(q, x)) = Len(q) + 1 /\ Len(q) \in Nat
      /\ \A i \in 1..Len(q) : Append(q, x)[i] = q[i]
      /\ Append(q, x)[Len(q) + 1] = x
  OBVIOUS
<1>2. DOMAIN q = 1..Len(q) /\ DOMAIN Append(q, x) = 1..(Len(q) + 1)
  BY <1>1
<1>3. \A i \in 1..(Len(q) + 1) : i \in 1..Len(q) \/ i = Len(q) + 1
  BY <1>1
<1>4. Range(Append(q, x)) \subseteq Range(q) \cup {x}
  BY <1>1, <1>2, <1>3 DEF Range
<1>5. Range(q) \subseteq Range(Append(q, x)) /\ x \in Range(Append(q, x))
  BY <1>1, <1>2 DEF Range
<1> QED BY <1>1, <1>4, <1>5

\* Taking one out of the middle leaves the others.
LEMMA QueueRemove ==
    ASSUME NEW S, NEW q \in Seq(S), NEW k \in DOMAIN q
    PROVE  /\ RemoveAt(q, k) \in Seq(S)
           /\ \A i \in DOMAIN q \ {k} : q[i] \in Range(RemoveAt(q, k))
<1> DEFINE a == SubSeq(q, 1, k - 1)
           b == SubSeq(q, k + 1, Len(q))
           r == RemoveAt(q, k)
<1>1. k \in 1..Len(q) /\ Len(q) \in Nat
  OBVIOUS
<1>2. /\ a \in Seq(S) /\ Len(a) = k - 1
      /\ \A i \in 1..(k - 1) : a[i] = q[i]
  BY <1>1
<1>3. /\ b \in Seq(S) /\ Len(b) = Len(q) - k
      /\ \A i \in 1..(Len(q) - k) : b[i] = q[k + i]
  BY <1>1
<1>4. r = a \o b
  BY DEF RemoveAt
<1> HIDE DEF a, b, r
<1>5. r \in Seq(S) /\ Len(r) = Len(q) - 1 /\ DOMAIN r = 1..(Len(q) - 1)
  BY <1>1, <1>2, <1>3, <1>4
<1>6. ASSUME NEW i \in DOMAIN q \ {k} PROVE q[i] \in Range(r)
  <2>1. i \in 1..Len(q) /\ i # k
    BY <1>1
  <2>2. CASE i < k
    <3>1. i \in 1..(k - 1) /\ i \in 1..Len(a) /\ i \in DOMAIN r
      BY <2>1, <2>2, <1>1, <1>2, <1>5
    <3>2. r[i] = a[i]
      BY <3>1, <1>2, <1>3, <1>4
    <3> QED BY <3>1, <3>2, <1>2 DEF Range
  <2>3. CASE i > k
    <3> DEFINE j == i - 1
               d == i - k
    <3>1. j \in 1..(Len(q) - 1) /\ d \in 1..(Len(q) - k) /\ j = Len(a) + d /\ k + d = i
      BY <2>1, <2>3, <1>1, <1>2
    <3> HIDE DEF j, d
    <3>2. r[j] = b[d]
      <4>1. d \in 1..Len(b)
        BY <3>1, <1>1, <1>3
      <4>2. (a \o b)[Len(a) + d] = b[d]
        <5>1. a \in Seq(S) /\ b \in Seq(S)
          BY <1>2, <1>3
        <5> QED BY <4>1, <5>1
      <4> QED BY <4>2, <3>1, <1>4
    <3>3. r[j] = q[i]
      BY <3>1, <3>2, <1>3
    <3> QED BY <3>1, <3>3, <1>5 DEF Range
  <2> QED BY <2>1, <2>2, <2>3, <1>1
<1> QED BY <1>5, <1>6 DEF r

-----------------------------------------------------------------------------
(* Types. *)

\* What the threads publish are messages.
LEMMA MessageTypes ==
    ASSUME ThreadTypes
    PROVE  /\ LogMessage \in Message
           /\ \A w \in Workers : about[w] # NoAlert => AlertMessage(about[w]) \in Message
           /\ \A w \in Workers, n \in Nat : [item[w] EXCEPT !.n = n] \in Message
<1>1. LogMessage \in Message
  BY SizeAssumption DEF LogMessage, Message, NoAlert
<1>2. ASSUME NEW w \in Workers, about[w] # NoAlert
      PROVE  AlertMessage(about[w]) \in Message
  BY <1>2, SizeAssumption DEF ThreadTypes, AlertMessage, Message, NoAlert, Alerts
<1>3. ASSUME NEW w \in Workers, NEW n \in Nat
      PROVE  [item[w] EXCEPT !.n = n] \in Message
  <2>1. item[w] \in Message
    BY DEF ThreadTypes
  <2> QED BY <2>1 DEF Message
<1> QED BY <1>1, <1>2, <1>3

LEMMA CasesAreAlerts == Cases \subseteq Alerts
BY SizeAssumption

LEMMA ThreadTypesInitially == Init => ThreadTypes
BY SizeAssumption DEF Init, ThreadTypes, Places, LogMessage, Message, NoAlert, Alerts, Statuses

\* A thread that is done, or goes on to detection.
LEMMA ContinueTypes ==
    ASSUME ThreadTypes, NEW w \in Workers, Continue(w), UNCHANGED db
    PROVE  ThreadTypes'
<1> LogMessage \in Message
  BY MessageTypes
<1>1. CASE item[w].kind = "log" /\ about[w] # NoAlert
  BY <1>1 DEF Continue, ThreadTypes, Places
<1>2. CASE ~(item[w].kind = "log" /\ about[w] # NoAlert)
  <2>1. Done(w)
    BY <1>2 DEF Continue
  <2>2. NoAlert \in 0..NumAlerts
    BY SizeAssumption DEF NoAlert
  <2> QED BY <2>1, <2>2 DEF Done, ThreadTypes, Places
<1> QED BY <1>1, <1>2

LEMMA ThreadTypesStep ==
    ASSUME ThreadTypes, HubTypes, [Next]_vars PROVE ThreadTypes'
<1> USE DEF ThreadTypes
<1> NoAlert \notin Alerts /\ Alerts \subseteq 0..NumAlerts /\ NoAlert \in 0..NumAlerts
  BY SizeAssumption DEF Alerts, NoAlert
<1> LogMessage \in Message
  BY MessageTypes
<1>1. ASSUME NEW w \in Workers, NEW a \in Alerts \cup {NoAlert}, Ingest(w, a)
      PROVE  ThreadTypes'
  BY <1>1 DEF Ingest, Places
<1>2. ASSUME NEW w \in Workers, NEW a \in Alerts, NEW s \in Verdicts, Triage(w, a, s)
      PROVE  ThreadTypes'
  <2>1. s \in Statuses
    BY SizeAssumption
  <2> QED BY <1>2, <2>1 DEF Triage, Committed, Places
<1>3. ASSUME NEW w \in Workers, Detect(w) PROVE ThreadTypes'
  <2>1. "new" \in Statuses
    BY DEF Statuses
  <2>2. about[w] # NoAlert
    BY <1>3 DEF Detect
  <2> QED BY <1>3, <2>1, <2>2 DEF Detect, Committed, Places
<1>4. ASSUME NEW w \in Workers, Read(w) PROVE ThreadTypes'
  <2>1. AlertMessage(about[w]) \in Message
    BY <1>4, MessageTypes DEF Read
  <2> QED BY <1>4, <2>1 DEF Read, Places
<1>5. ASSUME NEW w \in Workers, Publish(w) PROVE ThreadTypes'
  <2>1. published + 1 \in Nat
    BY DEF HubTypes
  <2>2. Numbered(w) \in Message
    BY <2>1, MessageTypes DEF Numbered
  <2>3. item' = [item EXCEPT ![w] = Numbered(w)]
    BY <1>5 DEF Publish
  <2>4. item' \in [Workers -> Message]
    BY <2>2, <2>3
  <2> QED BY <1>5, <2>4 DEF Publish, Places
<1>15. ASSUME NEW w \in Workers, Look(w) PROVE ThreadTypes'
  <2>1. CASE conns = {}
    BY <1>15, <2>1, ContinueTypes DEF Look
  <2>2. CASE conns # {}
    BY <1>15, <2>2 DEF Look, Places
  <2> QED BY <2>1, <2>2
<1>6. ASSUME NEW w \in Workers, Schedule(w) PROVE ThreadTypes'
  BY <1>6, ContinueTypes DEF Schedule
<1>7. ASSUME SiemRestart PROVE ThreadTypes'
  BY <1>7 DEF SiemRestart, Places
<1>8. ASSUME UNCHANGED <<db, threads>> PROVE ThreadTypes'
  BY <1>8 DEF threads
<1> HIDE DEF ThreadTypes
<1>9. CASE UNCHANGED vars
  BY <1>9, <1>8 DEF vars
<1>10. CASE Broadcast
  BY <1>10, <1>8 DEF Broadcast
<1>11. ASSUME NEW k \in DOMAIN sending, NEW s \in Socks, SendNext(k, s) \/ SendFails(k, s)
       PROVE  ThreadTypes'
  BY <1>11, <1>8 DEF SendNext, SendFails
<1>12. ASSUME NEW s \in Socks,
              \/ Handshake(s) \/ Disconnect(s) \/ Open(s) \/ Receive(s) \/ OnClose(s)
              \/ Reconnect(s) \/ MissFrame(s) \/ Drop(s)
       PROVE  ThreadTypes'
  BY <1>12, <1>8 DEF Handshake, Register, Greet, Refuse, Disconnect, Open, Receive, OnClose, Reconnect,
                     MissFrame, Drop
<1>13. ASSUME NEW p \in Polls, Polling(p) \/ PollFails(p) PROVE ThreadTypes'
  BY <1>13, <1>8 DEF Polling, PollRead, PollAnswered, PollFails
<1>14. CASE Revoke
  BY <1>14, <1>8 DEF Revoke
<1> QED
  BY <1>1, <1>2, <1>3, <1>4, <1>5, <1>6, <1>7, <1>9, <1>10, <1>11, <1>12, <1>13, <1>14, <1>15,
     CasesAreAlerts DEF Next, Requests, Thread, Sends, Coroutine, Handler, Failures

LEMMA HubTypesInitially == Init => HubTypes
BY DEF Init, HubTypes

LEMMA BufferTypes ==
    ASSUME recent \in Seq(Message), NEW m \in Message
    PROVE  Buffered(recent, m) \in Seq(Message)
<1> DEFINE all == Append(recent, m)
<1>1. all \in Seq(Message) /\ all # <<>>
  <2>1. Len(all) = Len(recent) + 1 /\ Len(recent) \in Nat
    OBVIOUS
  <2> QED BY <2>1
<1>2. Tail(all) \in Seq(Message)
  <2> HIDE DEF all
  <2> QED BY <1>1
<1> QED BY <1>1, <1>2 DEF Buffered

\* A broadcast that goes on, or ends, after one more socket.
LEMMA ServedTypes ==
    ASSUME sending \in Seq([msg : Message, todo : SUBSET Socks]), NEW k \in DOMAIN sending,
           NEW s \in Socks, Served(k, s)
    PROVE  sending' \in Seq([msg : Message, todo : SUBSET Socks])
<1> DEFINE T == [msg : Message, todo : SUBSET Socks]
           rest == sending[k].todo \ {s}
<1>1. sending[k] \in T
  <2> HIDE DEF T
  <2>1. sending \in Seq(T)
    BY DEF T
  <2> QED BY <2>1
<1>2. [sending[k] EXCEPT !.todo = rest] \in T
  BY <1>1
<1>3. CASE rest = {}
  <2>1. sending' = RemoveAt(sending, k)
    BY <1>3 DEF Served
  <2> HIDE DEF T
  <2> QED BY <2>1, QueueRemove
<1>4. CASE rest # {}
  <2>1. sending' = [sending EXCEPT ![k] = [sending[k] EXCEPT !.todo = rest]]
    BY <1>4 DEF Served
  <2> DEFINE x == [sending[k] EXCEPT !.todo = rest]
  <2>2. x \in T
    BY <1>2
  <2>3. sending \in Seq(T)
    OBVIOUS
  <2>4. sending' \in Seq(T)
    <3> HIDE DEF T
    <3>1. sending' = [sending EXCEPT ![k] = x]
      BY <2>1
    <3> HIDE DEF x
    <3> QED BY <2>2, <2>3, <3>1
  <2> QED BY <2>4
<1> QED BY <1>3, <1>4

\* What is noted as written to a socket was awaited by it.
LEMMA WriteTypes ==
    ASSUME awaited \in [Socks -> SUBSET Nat], NEW s, NEW m, Write(s, m)
    PROVE  awaited' \in [Socks -> SUBSET Nat]
BY DEF Write

LEMMA HubTypesStep ==
    ASSUME ThreadTypes, HubTypes, WireTypes, [Next]_vars PROVE HubTypes'
<1> USE DEF HubTypes
<1>1. ASSUME UNCHANGED <<published, recent, scheduled, sending, awaited>>,
             conns' \subseteq Socks
      PROVE  HubTypes'
  BY <1>1
<1>2. ASSUME NEW w \in Workers, Publish(w) PROVE HubTypes'
  <2> DEFINE n == published + 1
  <2>1. n \in Nat
    OBVIOUS
  <2>2. Numbered(w) \in Message
    BY <2>1, MessageTypes DEF Numbered
  <2>3. recent' \in Seq(Message)
    BY <1>2, <2>2, BufferTypes DEF Publish, Buffers
  <2>4. published' = n /\ UNCHANGED <<scheduled, sending, conns>>
    BY <1>2 DEF Publish, Buffers, loop
  <2>5. awaited' = [s \in Socks |-> IF sock[s] \in {"accepted", "open"}
                                    THEN awaited[s] \cup {n} ELSE awaited[s]]
    BY <1>2 DEF Publish, Buffers
  <2> HIDE DEF n
  <2>6. awaited' \in [Socks -> SUBSET Nat]
    BY <2>1, <2>5
  <2> QED BY <2>1, <2>3, <2>4, <2>6
<1>3. ASSUME NEW w \in Workers, Schedule(w) PROVE HubTypes'
  <2>1. item[w] \in Message
    BY DEF ThreadTypes
  <2>2. scheduled' \in Seq(Message)
    BY <1>3, <2>1, QueueAppend DEF Schedule
  <2> QED BY <1>3, <2>2 DEF Schedule, history
<1>4. CASE Broadcast
  <2> DEFINE T == [msg : Message, todo : SUBSET Socks]
             m == Head(scheduled)
  <2>1. scheduled' \in Seq(Message) /\ m \in Message
    BY <1>4, QueueTail DEF Broadcast
  <2>2. UNCHANGED <<published, recent>>
    BY <1>4 DEF Broadcast
  <2>3. CASE conns = {} /\ UNCHANGED <<sending, conns, awaited>>
    BY <2>1, <2>2, <2>3
  <2>4. ASSUME NEW s \in conns,
               \/ Write(s, m) /\ UNCHANGED conns
               \/ conns' = conns \ {s} /\ UNCHANGED awaited,
               sending' = IF conns = {s} THEN sending
                          ELSE Append(sending, [msg |-> m, todo |-> conns \ {s}])
        PROVE  HubTypes'
    <3> DEFINE x == [msg |-> m, todo |-> conns \ {s}]
    <3>1. x \in T
      BY <2>1
    <3>2. sending' \in Seq(T)
      <4>1. sending' = IF conns = {s} THEN sending ELSE Append(sending, x)
        BY <2>4
      <4>2. sending \in Seq(T)
        OBVIOUS
      <4> HIDE DEF x, T
      <4> QED BY <3>1, <4>1, <4>2, QueueAppend
    <3>3. awaited' \in [Socks -> SUBSET Nat] /\ conns' \subseteq Socks
      <4>1. CASE Write(s, m) /\ UNCHANGED conns
        BY <4>1, WriteTypes
      <4>2. CASE conns' = conns \ {s} /\ UNCHANGED awaited
        BY <4>2
      <4> QED BY <2>4, <4>1, <4>2
    <3> QED BY <2>1, <2>2, <3>2, <3>3
  <2> HIDE DEF HubTypes
  <2>5. \/ conns = {} /\ UNCHANGED <<sending, conns, awaited>>
        \/ \E s \in conns :
             /\ \/ Write(s, m) /\ UNCHANGED conns
                \/ conns' = conns \ {s} /\ UNCHANGED awaited
             /\ sending' = IF conns = {s} THEN sending
                           ELSE Append(sending, [msg |-> m, todo |-> conns \ {s}])
    BY <1>4, Zenon DEF Broadcast
  <2> HIDE DEF m
  <2>6. CASE conns = {} /\ UNCHANGED <<sending, conns, awaited>>
    BY <2>3, <2>6
  <2>7. CASE \E s \in conns :
                /\ \/ Write(s, m) /\ UNCHANGED conns
                   \/ conns' = conns \ {s} /\ UNCHANGED awaited
                /\ sending' = IF conns = {s} THEN sending
                              ELSE Append(sending, [msg |-> m, todo |-> conns \ {s}])
    <3>1. PICK s \in conns :
                /\ \/ Write(s, m) /\ UNCHANGED conns
                   \/ conns' = conns \ {s} /\ UNCHANGED awaited
                /\ sending' = IF conns = {s} THEN sending
                              ELSE Append(sending, [msg |-> m, todo |-> conns \ {s}])
      BY <2>7
    <3> QED BY <3>1, <2>4
  <2> QED BY <2>5, <2>6, <2>7
<1>5. ASSUME NEW k \in DOMAIN sending, NEW s \in Socks, SendNext(k, s) PROVE HubTypes'
  <2>1. sending' \in Seq([msg : Message, todo : SUBSET Socks])
    BY <1>5, ServedTypes DEF SendNext
  <2>2. awaited' \in [Socks -> SUBSET Nat]
    BY <1>5, WriteTypes DEF SendNext
  <2> QED BY <1>5, <2>1, <2>2 DEF SendNext
<1>6. ASSUME NEW k \in DOMAIN sending, NEW s \in Socks, SendFails(k, s) PROVE HubTypes'
  <2>1. sending' \in Seq([msg : Message, todo : SUBSET Socks])
    BY <1>6, ServedTypes DEF SendFails
  <2> QED BY <1>6, <2>1 DEF SendFails, history
<1>7. ASSUME NEW s \in Socks, Register(s) PROVE HubTypes'
  BY <1>7 DEF Register
<1>17. ASSUME NEW s \in Socks, Greet(s) PROVE HubTypes'
  <2> DEFINE replayed == {m.n : m \in Range(recent)}
  <2>1. awaited' = [awaited EXCEPT ![s] = @ \ replayed]
    BY <1>17 DEF Greet
  <2> HIDE DEF replayed
  <2>2. awaited' \in [Socks -> SUBSET Nat]
    BY <2>1
  <2> QED BY <1>17, <2>2 DEF Greet
<1>18. ASSUME NEW s \in Socks, Drop(s) PROVE HubTypes'
  BY <1>18 DEF Drop, loop
<1>8. CASE SiemRestart
  BY <1>8 DEF SiemRestart
<1> HIDE DEF HubTypes
<1>9. conns \subseteq Socks
  BY DEF HubTypes
<1>10. CASE UNCHANGED vars
  BY <1>10, <1>1, <1>9 DEF vars, loop, history
<1>11. ASSUME NEW w \in Workers, NEW a, Ingest(w, a) PROVE HubTypes'
  BY <1>11, <1>1, <1>9 DEF Ingest, loop, history
<1>12. ASSUME NEW w \in Workers, NEW a, NEW s, Triage(w, a, s) PROVE HubTypes'
  BY <1>12, <1>1, <1>9 DEF Triage, loop
<1>13. ASSUME NEW w \in Workers, Detect(w) \/ Read(w) \/ Look(w) PROVE HubTypes'
  BY <1>13, <1>1, <1>9 DEF Detect, Read, Look, loop, history
<1>14. ASSUME NEW s \in Socks,
              \/ Refuse(s) \/ Disconnect(s) \/ Open(s) \/ Receive(s) \/ OnClose(s)
              \/ Reconnect(s) \/ MissFrame(s)
       PROVE  HubTypes'
  BY <1>14, <1>1, <1>9 DEF Refuse, Disconnect, Open, Receive, OnClose, Reconnect, MissFrame,
                           loop, history
<1>15. ASSUME NEW p \in Polls, Polling(p) \/ PollFails(p) PROVE HubTypes'
  BY <1>15, <1>1, <1>9 DEF Polling, PollRead, PollAnswered, PollFails, loop, history
<1>16. CASE Revoke
  BY <1>16, <1>1, <1>9 DEF Revoke, loop, history
<1> QED
  BY <1>2, <1>3, <1>4, <1>5, <1>6, <1>7, <1>8, <1>10, <1>11, <1>12, <1>13, <1>14, <1>15, <1>16,
     <1>17, <1>18 DEF Next, Requests, Thread, Sends, Handshake, Coroutine, Handler, Failures

LEMMA WireTypesInitially == Init => WireTypes
<1> SUFFICES ASSUME Init PROVE WireTypes OBVIOUS
<1>1. sock \in [Socks -> Stages]
  BY DEF Init, Stages
<1>2. <<>> \in Seq(Frame)
  OBVIOUS
<1>3. chan \in [Socks -> Seq(Frame)]
  BY <1>2 DEF Init
<1> QED BY <1>1, <1>3 DEF WireTypes

LEMMA PollTypesInitially == Init => PollTypes
BY DEF Init, PollTypes, NoPoll

\* A frame is written to one socket at a time.
LEMMA WriteWireTypes ==
    ASSUME WireTypes, NEW s \in Socks, NEW m \in Message, Write(s, m), UNCHANGED sock
    PROVE  WireTypes'
<1>1. m \in Frame /\ chan[s] \in Seq(Frame)
  BY DEF WireTypes, Frame
<1>2. Append(chan[s], m) \in Seq(Frame)
  BY <1>1
<1>3. chan' \in [Socks -> Seq(Frame)]
  BY <1>2 DEF Write, WireTypes
<1> QED BY <1>3 DEF WireTypes

\* The next frame is taken.
LEMMA TakeWireTypes ==
    ASSUME WireTypes, NEW s \in Socks, chan[s] # <<>>,
           chan' = [chan EXCEPT ![s] = Tail(@)], UNCHANGED sock
    PROVE  WireTypes'
<1>1. Tail(chan[s]) \in Seq(Frame)
  BY QueueTail DEF WireTypes
<1> QED BY <1>1 DEF WireTypes

LEMMA WireTypesStep ==
    ASSUME HubTypes, WireTypes, [Next]_vars PROVE WireTypes'
<1> USE DEF WireTypes, Stages
<1>1. CASE Broadcast
  <2> DEFINE m == Head(scheduled)
  <2>1. m \in Message
    BY <1>1, QueueTail DEF Broadcast, HubTypes
  <2>2. UNCHANGED sock
    BY <1>1 DEF Broadcast
  <2>3. UNCHANGED chan \/ \E s \in Socks : Write(s, m)
    <3>1. conns \subseteq Socks
      BY DEF HubTypes
    <3> QED BY <1>1, <3>1 DEF Broadcast
  <2> HIDE DEF m
  <2> QED BY <2>1, <2>2, <2>3, WriteWireTypes
<1>2. ASSUME NEW k \in DOMAIN sending, NEW s \in Socks, SendNext(k, s) PROVE WireTypes'
  <2>1. sending[k].msg \in Message
    <3> DEFINE T == [msg : Message, todo : SUBSET Socks]
    <3>1. sending[k] \in T
      <4>1. sending \in Seq(T)
        BY DEF HubTypes
      <4> HIDE DEF T
      <4> QED BY <4>1
    <3> QED BY <3>1
  <2> QED BY <1>2, <2>1, WriteWireTypes DEF SendNext
<1>21. ASSUME NEW s \in Socks, Register(s) PROVE WireTypes'
  BY <1>21 DEF Register
<1>3. ASSUME NEW s \in Socks, Greet(s) PROVE WireTypes'
  <2>1. Hello \in Frame
    BY DEF Hello, Frame, Greeting, HubTypes
  <2>2. <<Hello>> \in Seq(Frame)
    BY <2>1
  <2> QED BY <1>3, <2>2 DEF Greet
<1>4. ASSUME NEW s \in Socks, Refuse(s) PROVE WireTypes'
  BY <1>4 DEF Refuse
<1>5. ASSUME NEW s \in Socks, Open(s) PROVE WireTypes'
  BY <1>5 DEF Open
<1>6. ASSUME NEW s \in Socks, Receive(s) PROVE WireTypes'
  BY <1>6, TakeWireTypes DEF Receive
<1>7. ASSUME NEW s \in Socks, OnClose(s) PROVE WireTypes'
  BY <1>7 DEF OnClose
<1>8. ASSUME NEW s \in Socks, Reconnect(s) PROVE WireTypes'
  BY <1>8 DEF Reconnect
<1>9. ASSUME NEW s \in Socks, MissFrame(s) PROVE WireTypes'
  BY <1>9, TakeWireTypes DEF MissFrame
<1>10. ASSUME NEW s \in Socks, Drop(s) PROVE WireTypes'
  BY <1>10 DEF Drop
<1>11. CASE SiemRestart
  BY <1>11 DEF SiemRestart
<1>12. ASSUME UNCHANGED network PROVE WireTypes'
  BY <1>12 DEF network
<1> HIDE DEF WireTypes
<1>13. CASE UNCHANGED vars
  BY <1>13, <1>12 DEF vars
<1>14. ASSUME NEW w \in Workers, NEW a, Ingest(w, a) PROVE WireTypes'
  BY <1>14, <1>12 DEF Ingest
<1>15. ASSUME NEW w \in Workers, NEW a, NEW s, Triage(w, a, s) PROVE WireTypes'
  BY <1>15, <1>12 DEF Triage
<1>16. ASSUME NEW w \in Workers, Thread(w) PROVE WireTypes'
  BY <1>16, <1>12 DEF Thread, Detect, Read, Publish, Look, Schedule
<1>17. ASSUME NEW k \in DOMAIN sending, NEW s \in Socks, SendFails(k, s) PROVE WireTypes'
  BY <1>17, <1>12 DEF SendFails
<1>18. ASSUME NEW s \in Socks, Disconnect(s) PROVE WireTypes'
  BY <1>18, <1>12 DEF Disconnect
<1>19. ASSUME NEW p \in Polls, Polling(p) \/ PollFails(p) PROVE WireTypes'
  BY <1>19, <1>12 DEF Polling, PollRead, PollAnswered, PollFails
<1>20. CASE Revoke
  BY <1>20, <1>12 DEF Revoke
<1> QED
  BY <1>1, <1>2, <1>3, <1>4, <1>5, <1>6, <1>7, <1>8, <1>9, <1>10, <1>11, <1>13, <1>14, <1>15,
     <1>16, <1>17, <1>18, <1>19, <1>20, <1>21
     DEF Next, Requests, Sends, Handshake, Coroutine, Handler, Failures

\* The listing is a list, however many alerts there are.
LEMMA ListingIsAList == \E n \in Nat : DOMAIN Listing = 1..n
<1> DEFINE listed == {a \in Raised : Cardinality(Before(a)) < PollLimit}
<1>1. IsFiniteSet(Alerts)
  BY SizeAssumption, FS_Interval DEF Alerts
<1>2. IsFiniteSet(listed)
  <2>1. listed \subseteq Alerts
    BY DEF Raised
  <2> HIDE DEF listed
  <2> QED BY <1>1, <2>1, FS_Subset
<1>3. Cardinality(listed) \in Nat
  <2> HIDE DEF listed
  <2> QED BY <1>2, FS_CardinalityType
<1>4. DOMAIN Listing = 1..Cardinality(listed)
  BY DEF Listing
<1> QED BY <1>3, <1>4

LEMMA PollTypesStep ==
    ASSUME PollTypes, [Next]_vars PROVE PollTypes'
<1> USE DEF PollTypes
<1>1. ASSUME NEW p \in Polls, PollRead(p) PROVE PollTypes'
  <2> DEFINE answer == [at |-> "answered", items |-> Listing]
  <2>1. poll' = [poll EXCEPT ![p] = answer]
    BY <1>1 DEF PollRead
  <2>2. \E n \in Nat : DOMAIN answer.items = 1..n
    BY ListingIsAList
  <2> HIDE DEF answer
  <2> QED BY <2>1, <2>2
<1>2. ASSUME NEW p \in Polls, PollAnswered(p) \/ PollFails(p) PROVE PollTypes'
  BY <1>2 DEF PollAnswered, PollFails, NoPoll
<1>3. CASE SiemRestart
  BY <1>3 DEF SiemRestart, NoPoll
<1>4. ASSUME UNCHANGED poll PROVE PollTypes'
  BY <1>4
<1> HIDE DEF PollTypes
<1>5. CASE UNCHANGED vars
  BY <1>5, <1>4 DEF vars
<1>6. ASSUME NEW w \in Workers, NEW a, Ingest(w, a) PROVE PollTypes'
  BY <1>6, <1>4 DEF Ingest
<1>7. ASSUME NEW w \in Workers, NEW a, NEW s, Triage(w, a, s) PROVE PollTypes'
  BY <1>7, <1>4 DEF Triage
<1>8. ASSUME NEW w \in Workers, Thread(w) PROVE PollTypes'
  BY <1>8, <1>4 DEF Thread, Detect, Read, Publish, Look, Schedule
<1>9. CASE Broadcast
  BY <1>9, <1>4 DEF Broadcast
<1>10. ASSUME NEW k \in DOMAIN sending, NEW s \in Socks, SendNext(k, s) \/ SendFails(k, s)
       PROVE  PollTypes'
  BY <1>10, <1>4 DEF SendNext, SendFails
<1>11. ASSUME NEW s \in Socks,
              \/ Handshake(s) \/ Disconnect(s) \/ Open(s) \/ Receive(s) \/ OnClose(s)
              \/ Reconnect(s) \/ MissFrame(s) \/ Drop(s)
       PROVE  PollTypes'
  BY <1>11, <1>4 DEF Handshake, Register, Greet, Refuse, Disconnect, Open, Receive, OnClose, Reconnect,
                     MissFrame, Drop
<1>12. CASE Revoke
  BY <1>12, <1>4 DEF Revoke
<1> QED
  BY <1>1, <1>2, <1>3, <1>5, <1>6, <1>7, <1>8, <1>9, <1>10, <1>11, <1>12
     DEF Next, Requests, Sends, Polling, Coroutine, Handler, Failures

-----------------------------------------------------------------------------
(* No gap between replay and live. *)

\* A socket leaves the hub's connections when the browser has left it.
LEMMA RegisteredStep ==
    ASSUME WireTypes, Registered, [Next]_vars PROVE Registered'
<1> USE DEF Registered
<1>1. CASE Broadcast
  BY <1>1 DEF Broadcast, Lost
<1>2. ASSUME NEW k \in DOMAIN sending, NEW s \in Socks, SendNext(k, s) PROVE Registered'
  BY <1>2 DEF SendNext
<1>3. ASSUME NEW k \in DOMAIN sending, NEW s \in Socks, SendFails(k, s) PROVE Registered'
  BY <1>3 DEF SendFails, network, Lost
<1>4. ASSUME NEW s \in Socks, Register(s) PROVE Registered'
  BY <1>4 DEF Register, WireTypes
<1>20. ASSUME NEW s \in Socks, Greet(s) PROVE Registered'
  BY <1>20 DEF Greet
<1>5. ASSUME NEW s \in Socks, Refuse(s) PROVE Registered'
  BY <1>5 DEF Refuse, WireTypes, loop
<1>6. ASSUME NEW s \in Socks, Disconnect(s) PROVE Registered'
  BY <1>6 DEF Disconnect, network, Lost
<1>7. ASSUME NEW s \in Socks, Open(s) PROVE Registered'
  BY <1>7 DEF Open, WireTypes, loop
<1>8. ASSUME NEW s \in Socks, OnClose(s) PROVE Registered'
  BY <1>8 DEF OnClose, WireTypes, loop
<1>9. ASSUME NEW s \in Socks, Reconnect(s) PROVE Registered'
  BY <1>9 DEF Reconnect, WireTypes, loop
<1>10. ASSUME NEW s \in Socks, Drop(s) PROVE Registered'
  BY <1>10 DEF Drop, WireTypes, loop
<1>11. CASE SiemRestart
  BY <1>11 DEF SiemRestart
<1>12. ASSUME UNCHANGED <<sock, conns>> PROVE Registered'
  BY <1>12
<1> HIDE DEF Registered
<1>13. CASE UNCHANGED vars
  BY <1>13, <1>12 DEF vars, network, loop
<1>14. ASSUME NEW w \in Workers, NEW a, Ingest(w, a) PROVE Registered'
  BY <1>14, <1>12 DEF Ingest, network, loop
<1>15. ASSUME NEW w \in Workers, NEW a, NEW s, Triage(w, a, s) PROVE Registered'
  BY <1>15, <1>12 DEF Triage, network, loop
<1>16. ASSUME NEW w \in Workers, Thread(w) PROVE Registered'
  BY <1>16, <1>12 DEF Thread, Detect, Read, Publish, Look, Schedule, network, loop
<1>17. ASSUME NEW s \in Socks, Receive(s) \/ MissFrame(s) PROVE Registered'
  BY <1>17, <1>12 DEF Receive, MissFrame, loop
<1>18. ASSUME NEW p \in Polls, Polling(p) \/ PollFails(p) PROVE Registered'
  BY <1>18, <1>12 DEF Polling, PollRead, PollAnswered, PollFails, network, loop
<1>19. CASE Revoke
  BY <1>19, <1>12 DEF Revoke, network, loop
<1> QED
  BY <1>1, <1>2, <1>3, <1>4, <1>5, <1>6, <1>7, <1>8, <1>9, <1>10, <1>11, <1>13, <1>14, <1>15,
     <1>16, <1>17, <1>18, <1>19, <1>20
     DEF Next, Requests, Sends, Handshake, Coroutine, Handler, Failures

\* What is on its way to a socket stays on its way, or has been written to it.
\* A message moves from a thread to the loop's queue, from there to a broadcast,
\* and from there to one socket after the other.
LEMMA ScheduleKeeps ==
    ASSUME ThreadTypes, HubTypes, NEW w \in Workers, Schedule(w), NEW s, s \in conns',
           NEW n, Underway(s, n)
    PROVE  Underway(s, n)'
<1>1. /\ scheduled' = Append(scheduled, item[w]) /\ UNCHANGED sending
      /\ pc[w] = "schedule"
  BY DEF Schedule
<1>2. item[w] \in Message /\ scheduled \in Seq(Message)
  BY DEF ThreadTypes, HubTypes
<1>3. Range(scheduled') = Range(scheduled) \cup {item[w]}
  BY <1>1, <1>2, QueueAppend
<1>4. ASSUME NEW v \in Workers, v # w
      PROVE  pc'[v] = pc[v] /\ item'[v] = item[v]
  BY <1>4 DEF Schedule, Continue, Done, ThreadTypes
<1> QED BY <1>1, <1>3, <1>4 DEF Underway

\* A broadcast that has served one socket still has the others to serve.
LEMMA ServedKeeps ==
    ASSUME HubTypes, NEW k \in DOMAIN sending, NEW s \in Socks, s \in sending[k].todo,
           Served(k, s), NEW t \in Range(sending), NEW r \in t.todo,
           t # sending[k] \/ r # s
    PROVE  \E u \in Range(sending') : u.msg = t.msg /\ r \in u.todo
<1> DEFINE T == [msg : Message, todo : SUBSET Socks]
           rest == sending[k].todo \ {s}
<1>1. sending \in Seq(T)
  BY DEF HubTypes
<1>2. PICK i \in DOMAIN sending : t = sending[i]
  BY DEF Range
<1>3. CASE i # k /\ rest = {}
  <2>1. sending' = RemoveAt(sending, k)
    BY <1>3 DEF Served
  <2>2. sending[i] \in Range(sending')
    <3> HIDE DEF T
    <3> QED BY <1>1, <1>3, <2>1, QueueRemove
  <2> QED BY <1>2, <2>2
<1>4. CASE rest # {}
  <2> DEFINE x == [sending[k] EXCEPT !.todo = rest]
  <2>1. sending' = [sending EXCEPT ![k] = x]
    BY <1>4 DEF Served
  <2>2. sending[k] \in T
    <3> HIDE DEF T
    <3> QED BY <1>1
  <2>3. x.msg = sending[k].msg /\ x.todo = rest
    BY <2>2
  <2>4. DOMAIN sending' = DOMAIN sending
    <3> HIDE DEF x
    <3> QED BY <2>1
  <2>5. i \in DOMAIN sending' /\ sending'[i] \in Range(sending')
    BY <1>2, <2>4 DEF Range
  <2>6. CASE i # k
    <3>1. sending'[i] = sending[i]
      <4> HIDE DEF x
      <4> QED BY <2>1, <2>6, <1>2
    <3> QED BY <3>1, <2>5, <1>2
  <2>7. CASE i = k
    <3>1. sending'[i] = x
      <4> HIDE DEF x
      <4> QED BY <2>1, <2>7, <1>2
    <3>2. r \in rest
      BY <1>2, <2>7
    <3> QED BY <3>1, <3>2, <2>3, <2>5, <2>7, <1>2
  <2> QED BY <2>6, <2>7
<1>5. CASE i = k /\ rest = {}
  BY <1>2, <1>5
<1> QED BY <1>3, <1>4, <1>5

\* A broadcast that starts has all connections to serve but the first.
LEMMA BroadcastKeeps ==
    ASSUME HubTypes, Broadcast, NEW s \in conns, s \in conns', NEW n, Underway(s, n)
    PROVE  \/ Underway(s, n)'
           \/ Lost(s)
           \/ awaited' = [awaited EXCEPT ![s] = @ \ {n}]
<1> DEFINE T == [msg : Message, todo : SUBSET Socks]
           m == Head(scheduled)
<1>1. /\ m \in Message /\ scheduled' = Tail(scheduled)
      /\ \A q \in Range(scheduled) : q = m \/ q \in Range(scheduled')
  BY QueueTail DEF Broadcast, HubTypes
<1>2. UNCHANGED threads
  BY DEF Broadcast
<1>3. PICK c \in conns :
        /\ Write(c, m) \/ Lost(c)
        /\ sending' = IF conns = {c} THEN sending
                      ELSE Append(sending, [msg |-> m, todo |-> conns \ {c}])
  BY DEF Broadcast
<1> DEFINE x == [msg |-> m, todo |-> conns \ {c}]
<1>4. sending \in Seq(T) /\ x \in T
  BY <1>1 DEF HubTypes
<1>5. /\ Range(sending) \subseteq Range(sending')
      /\ conns # {c} => x \in Range(sending')
  <2>1. sending' = IF conns = {c} THEN sending ELSE Append(sending, x)
    BY <1>3
  <2> HIDE DEF x, T
  <2> QED BY <2>1, <1>4, QueueAppend
<1>6. CASE \E w \in Workers : item[w].n = n /\ pc[w] \in {"look", "schedule"}
  BY <1>6, <1>2 DEF Underway, threads
<1>7. CASE \E t \in Range(sending) : t.msg.n = n /\ s \in t.todo
  BY <1>7, <1>5 DEF Underway
<1>8. ASSUME NEW q \in Range(scheduled), q.n = n
      PROVE  \/ Underway(s, n)' \/ Lost(s)
             \/ awaited' = [awaited EXCEPT ![s] = @ \ {n}]
  <2>1. CASE q \in Range(scheduled')
    BY <2>1, <1>8 DEF Underway
  <2>2. CASE q = m /\ s = c
    BY <2>2, <1>3, <1>8 DEF Write
  <2>3. CASE q = m /\ s # c
    <3>1. x \in Range(sending')
      <4> HIDE DEF x
      <4> QED BY <1>5, <2>3
    <3>2. x.msg.n = n /\ s \in x.todo
      BY <2>3, <1>8
    <3> HIDE DEF x
    <3> QED BY <3>1, <3>2 DEF Underway
  <2> QED BY <1>1, <1>8, <2>1, <2>2, <2>3
<1> QED BY <1>6, <1>7, <1>8 DEF Underway

\* As long as the threads that hand over a message, the queue and the broadcasts
\* are as they were, what is under way is.
LEMMA UnderwayStays ==
    ASSUME UNCHANGED <<scheduled, sending>>, NEW s, s \in conns', NEW n, Underway(s, n),
           \A w \in Workers : pc[w] \in {"look", "schedule"} =>
                pc'[w] \in {pc[w], "schedule"} /\ item'[w] = item[w]
    PROVE  Underway(s, n)'
BY DEF Underway

\* Sockets may be lost; none awaits more than it did.
LEMMA NothingMore ==
    ASSUME NothingSkipped,
           \A s \in Socks : sock'[s] \in {"accepted", "open"} =>
                \A n \in awaited[s] : Underway(s, n) => Underway(s, n)',
           \A s \in Socks : sock'[s] \in {"accepted", "open"} =>
                awaited'[s] \subseteq awaited[s] /\ sock[s] \in {"accepted", "open"}
    PROVE  NothingSkipped'
BY DEF NothingSkipped

LEMMA NothingSkippedStep ==
    ASSUME ThreadTypes, HubTypes, WireTypes, Registered, Registered', NothingSkipped,
           [Next]_vars
    PROVE  NothingSkipped'
<1> USE DEF NothingSkipped
<1>25. ASSUME NEW s \in Socks, sock'[s] \in {"accepted", "open"} PROVE s \in conns'
  BY <1>25 DEF Registered
<1>1. ASSUME NEW w \in Workers, Publish(w) PROVE NothingSkipped'
  <2> SUFFICES ASSUME NEW s \in Socks, sock'[s] \in {"accepted", "open"},
                      NEW n \in awaited'[s]
               PROVE  Underway(s, n)'
    OBVIOUS
  <2>1. sock' = sock /\ UNCHANGED <<scheduled, sending>> /\ s \in conns'
    BY <1>1, <1>25 DEF Publish, network, loop
  <2>2. /\ pc[w] = "publish" /\ pc' = [pc EXCEPT ![w] = "look"]
        /\ item' = [item EXCEPT ![w] = Numbered(w)]
    BY <1>1 DEF Publish
  <2>3. awaited'[s] = awaited[s] \cup {published + 1}
    BY <1>1, <2>1 DEF Publish, Buffers
  <2>4. CASE n \in awaited[s]
    <3>1. Underway(s, n)
      BY <2>1, <2>4
    <3>2. \A v \in Workers : pc[v] \in {"look", "schedule"} =>
             pc'[v] = pc[v] /\ item'[v] = item[v]
      BY <2>2 DEF ThreadTypes
    <3> QED BY <2>1, <3>1, <3>2, UnderwayStays
  <2>5. CASE n = published + 1
    <3>1. item[w] \in Message
      BY DEF ThreadTypes
    <3>2. Numbered(w).n = n
      BY <3>1, <2>5 DEF Message, Numbered
    <3>3. pc'[w] = "look" /\ item'[w].n = n
      BY <2>2, <3>2 DEF ThreadTypes
    <3> QED BY <2>1, <3>3 DEF Underway
  <2> QED BY <2>3, <2>4, <2>5
<1>26. ASSUME NEW w \in Workers, Look(w) PROVE NothingSkipped'
  <2> SUFFICES ASSUME NEW s \in Socks, sock'[s] \in {"accepted", "open"},
                      NEW n \in awaited'[s]
               PROVE  Underway(s, n)'
    OBVIOUS
  <2>1. /\ UNCHANGED <<scheduled, sending, conns, sock, awaited>> /\ s \in conns'
        /\ pc[w] = "look"
    BY <1>25, <1>26 DEF Look, network, loop
  <2>2. pc' = [pc EXCEPT ![w] = "schedule"] /\ UNCHANGED item
    BY <1>26, <2>1 DEF Look
  <2>3. Underway(s, n)
    BY <2>1
  <2>4. \A v \in Workers : pc[v] \in {"look", "schedule"} =>
           pc'[v] \in {pc[v], "schedule"} /\ item'[v] = item[v]
    BY <2>2 DEF ThreadTypes
  <2> QED BY <2>1, <2>3, <2>4, UnderwayStays
<1> HIDE DEF NothingSkipped
<1>2. ASSUME NEW w \in Workers, Schedule(w) PROVE NothingSkipped'
  <2>1. UNCHANGED <<sock, awaited>>
    BY <1>2 DEF Schedule, network, history
  <2>2. ASSUME NEW s \in Socks, sock'[s] \in {"accepted", "open"}, NEW n, Underway(s, n)
        PROVE  Underway(s, n)'
    BY <1>2, <1>25, <2>2, ScheduleKeeps
  <2> QED BY <2>1, <2>2, NothingMore
<1>3. ASSUME NEW w \in Workers, pc[w] \notin {"look", "schedule"},
             \A v \in Workers \ {w} : pc'[v] = pc[v] /\ item'[v] = item[v],
             UNCHANGED <<scheduled, sending, sock, awaited>>
      PROVE  NothingSkipped'
  <2>1. \A v \in Workers : pc[v] \in {"look", "schedule"} =>
           pc'[v] = pc[v] /\ item'[v] = item[v]
    BY <1>3
  <2>2. ASSUME NEW s \in Socks, sock'[s] \in {"accepted", "open"}, NEW n, Underway(s, n)
        PROVE  Underway(s, n)'
    BY <1>3, <1>25, <2>1, <2>2, UnderwayStays
  <2> QED BY <1>3, <2>2, NothingMore
<1>4. ASSUME NEW w \in Workers, NEW a, Ingest(w, a) PROVE NothingSkipped'
  BY <1>4, <1>3 DEF Ingest, loop, network, history, ThreadTypes
<1>5. ASSUME NEW w \in Workers, NEW a, NEW s, Triage(w, a, s) PROVE NothingSkipped'
  BY <1>5, <1>3 DEF Triage, Committed, loop, network, ThreadTypes
<1>6. ASSUME NEW w \in Workers, Detect(w) PROVE NothingSkipped'
  BY <1>6, <1>3 DEF Detect, Committed, loop, network, ThreadTypes
<1>7. ASSUME NEW w \in Workers, Read(w) PROVE NothingSkipped'
  BY <1>7, <1>3 DEF Read, loop, network, history, ThreadTypes
<1>8. CASE Broadcast
  <2>1. UNCHANGED sock
    BY <1>8 DEF Broadcast
  <2>2. ASSUME NEW s \in Socks PROVE awaited'[s] \subseteq awaited[s]
    BY <1>8 DEF Broadcast, Write, HubTypes
  <2>3. ASSUME NEW s \in Socks, sock'[s] \in {"accepted", "open"}, NEW n \in awaited'[s]
        PROVE  Underway(s, n)'
    <3>1. s \in conns /\ s \in conns' /\ ~Lost(s) /\ Underway(s, n)
      BY <1>25, <2>1, <2>2, <2>3 DEF Registered, Lost, NothingSkipped
    <3>2. awaited' # [awaited EXCEPT ![s] = @ \ {n}]
      BY <2>3 DEF HubTypes
    <3> QED BY <1>8, <3>1, <3>2, BroadcastKeeps
  <2> QED BY <2>3 DEF NothingSkipped
<1>9. ASSUME NEW k \in DOMAIN sending, NEW s \in Socks, s \in sending[k].todo, Served(k, s),
             UNCHANGED <<threads, scheduled, sock>>,
             \/ awaited' = [awaited EXCEPT ![s] = @ \ {sending[k].msg.n}]
             \/ Lost(s) /\ UNCHANGED awaited
      PROVE  NothingSkipped'
  <2> SUFFICES ASSUME NEW r \in Socks, sock'[r] \in {"accepted", "open"},
                      NEW n \in awaited'[r]
               PROVE  Underway(r, n)'
    BY DEF NothingSkipped
  <2>1. n \in awaited[r] /\ Underway(r, n)
    BY <1>9 DEF NothingSkipped, HubTypes
  <2>2. r # s \/ n # sending[k].msg.n
    BY <1>9 DEF HubTypes, Lost
  <2>3. CASE \E t \in Range(sending) : t.msg.n = n /\ r \in t.todo
    <3>1. PICK t \in Range(sending) : t.msg.n = n /\ r \in t.todo
      BY <2>3
    <3>2. t # sending[k] \/ r # s
      BY <3>1, <2>2
    <3>3. \E u \in Range(sending') : u.msg = t.msg /\ r \in u.todo
      BY <1>9, <3>1, <3>2, ServedKeeps
    <3> QED BY <3>1, <3>3 DEF Underway
  <2>4. CASE \/ \E w \in Workers : item[w].n = n /\ pc[w] \in {"look", "schedule"}
             \/ \E m \in Range(scheduled) : m.n = n
    BY <1>9, <1>25, <2>4 DEF Underway, threads
  <2> QED BY <2>1, <2>3, <2>4 DEF Underway
<1>10. ASSUME NEW k \in DOMAIN sending, NEW s \in Socks, SendNext(k, s) PROVE NothingSkipped'
  BY <1>10, <1>9 DEF SendNext, Write
<1>11. ASSUME NEW k \in DOMAIN sending, NEW s \in Socks, SendFails(k, s) PROVE NothingSkipped'
  BY <1>11, <1>9 DEF SendFails, network, history
<1>12. ASSUME UNCHANGED <<threads, scheduled, sending>>,
              \A s \in Socks : sock'[s] \in {"accepted", "open"} =>
                \/ awaited'[s] = {}
                \/ awaited'[s] \subseteq awaited[s] /\ sock[s] \in {"accepted", "open"}
       PROVE  NothingSkipped'
  <2>1. ASSUME NEW s \in Socks, sock'[s] \in {"accepted", "open"}, NEW n, Underway(s, n)
        PROVE  Underway(s, n)'
    BY <1>12, <1>25, <2>1, UnderwayStays DEF threads
  <2> QED BY <1>12, <2>1 DEF NothingSkipped
<1>13. ASSUME NEW s \in Socks, Register(s) PROVE NothingSkipped'
  BY <1>13, <1>12 DEF Register, HubTypes, WireTypes
<1>27. ASSUME NEW s \in Socks, Greet(s) PROVE NothingSkipped'
  BY <1>27, <1>12 DEF Greet, HubTypes
<1>14. ASSUME NEW s \in Socks, Refuse(s) PROVE NothingSkipped'
  BY <1>14, <1>12 DEF Refuse, WireTypes, loop, history
<1>15. ASSUME NEW s \in Socks, Disconnect(s) PROVE NothingSkipped'
  BY <1>15, <1>12 DEF Disconnect, network, history
<1>16. ASSUME NEW s \in Socks, Open(s) PROVE NothingSkipped'
  BY <1>16, <1>12 DEF Open, WireTypes, loop, history
<1>17. ASSUME NEW s \in Socks, Receive(s) \/ MissFrame(s) PROVE NothingSkipped'
  BY <1>17, <1>12 DEF Receive, MissFrame, loop
<1>18. ASSUME NEW s \in Socks, OnClose(s) PROVE NothingSkipped'
  BY <1>18, <1>12 DEF OnClose, WireTypes, loop, history
<1>19. ASSUME NEW s \in Socks, Reconnect(s) PROVE NothingSkipped'
  BY <1>19, <1>12 DEF Reconnect, WireTypes, loop, history
<1>20. ASSUME NEW s \in Socks, Drop(s) PROVE NothingSkipped'
  BY <1>20, <1>12 DEF Drop, HubTypes, WireTypes, loop
<1>21. CASE SiemRestart
  BY <1>21 DEF SiemRestart, NothingSkipped, WireTypes
<1>22. ASSUME NEW p \in Polls, Polling(p) \/ PollFails(p) PROVE NothingSkipped'
  BY <1>22, <1>12 DEF Polling, PollRead, PollAnswered, PollFails, network, loop, history
<1>23. CASE Revoke
  BY <1>23, <1>12 DEF Revoke, network, loop, history
<1>24. CASE UNCHANGED vars
  BY <1>24, <1>12 DEF vars, network, loop, history
<1> QED
  BY <1>1, <1>2, <1>4, <1>5, <1>6, <1>7, <1>8, <1>10, <1>11, <1>13, <1>14, <1>15, <1>16, <1>17,
     <1>18, <1>19, <1>20, <1>21, <1>22, <1>23, <1>24, <1>26, <1>27
     DEF Next, Requests, Thread, Sends, Handshake, Coroutine, Handler, Failures

LEMMA HubInitially == Init => Types /\ Registered /\ NothingSkipped
<1> SUFFICES ASSUME Init PROVE Registered /\ NothingSkipped
  BY ThreadTypesInitially, HubTypesInitially, WireTypesInitially, PollTypesInitially DEF Types
<1>1. \A s \in Socks : sock[s] \in {"free", "dialing"}
  BY DEF Init
<1> QED BY <1>1 DEF Registered, NothingSkipped

\* No gap between replay and live, for any number of threads, sockets and
\* messages: what is published after a socket was accepted is in the replay that
\* greets it, or on its way to it until it is written to it, wherever between
\* the append and the look at the connections a handshake falls (hub.py publish
\* and broadcast, stream.py).
THEOREM NoGap == Spec => []NothingSkipped
<1> DEFINE Inv == Types /\ Registered /\ NothingSkipped
<1>1. Init => Inv
  BY HubInitially
<1>2. Inv /\ [Next]_vars => Inv'
  BY ThreadTypesStep, HubTypesStep, WireTypesStep, PollTypesStep, RegisteredStep,
     NothingSkippedStep DEF Types
<1>3. Inv => NothingSkipped
  OBVIOUS
<1> QED BY <1>1, <1>2, <1>3, PTL DEF Spec

-----------------------------------------------------------------------------
(* What a fold returns. *)

\* Every set of natural numbers that is not empty has a least element.
LEMMA LeastElement ==
    ASSUME NEW S, S \subseteq Nat, S # {}
    PROVE  \E n \in S : \A m \in S : n <= m
<1> DEFINE R == OpToRel(<, Nat)
<1>1. IsWellFoundedOn(R, Nat)
  BY NatLessThanWellFounded
<1>2. \A m, k \in Nat : m < k => <<m, k>> \in R
  BY DEF OpToRel
<1> HIDE DEF R
<1>3. PICK n \in S : \A m \in S : ~ (<<m, n>> \in R)
  BY <1>1, WFMin
<1>4. ASSUME NEW m \in S PROVE n <= m
  <2>1. m \in Nat /\ n \in Nat
    OBVIOUS
  <2>2. ~(m < n)
    BY <1>2, <1>3, <2>1
  <2> QED BY <2>1, <2>2
<1> QED BY <1>4

\* What a later answer to a poll does with one alert.
HandleUnseen(v, e) == IF e.id \in v.seen THEN v ELSE HandleAlert(v, e)

\* The two handlers that are folded.
Handled(kind, v, e) == IF kind = "message" THEN HandleMessage(v, e) ELSE HandleUnseen(v, e)

\* g[s] is what handling the elements of ms at the places of s comes to.
Unfolds(g, kind, v, ms, s) ==
    g[s] = IF s = {} THEN v ELSE Handled(kind, g[s \ {Max(s)}], ms[Max(s)])

LEMMA LastPlace ==
    ASSUME NEW k \in Nat, NEW s \in SUBSET (1..k), k \in s
    PROVE  Max(s) = k
<1>1. k \in s /\ \A y \in s : k >= y
  OBVIOUS
<1>2. \A x \in s : (\A y \in s : x >= y) => x = k
  OBVIOUS
<1> QED BY <1>1, <1>2 DEF Max

\* There is such a g, for the shortest prefix on which there was none would
\* have one: that of the prefix without its last element, and one step more.
LEMMA FoldIsDefined ==
    ASSUME NEW N \in Nat, NEW ms, NEW kind, NEW v
    PROVE  \E g : \A s \in SUBSET (1..N) : Unfolds(g, kind, v, ms, s)
<1> DEFINE Upto(k) == \E g : \A s \in SUBSET (1..k) : Unfolds(g, kind, v, ms, s)
           Bad == {k \in 0..N : ~Upto(k)}
<1> SUFFICES ASSUME Bad # {} PROVE FALSE
  <2>1. N \in 0..N
    OBVIOUS
  <2> QED BY <2>1
<1>1. Bad \subseteq Nat
  OBVIOUS
<1>2. PICK k \in Bad : \A m \in Bad : k <= m
  <2> HIDE DEF Bad
  <2> QED BY <1>1, LeastElement
<1>3. k \in 0..N /\ ~Upto(k)
  OBVIOUS
<1>4. k # 0
  <2> DEFINE g == [s \in {{}} |-> v]
  <2>1. \A s \in SUBSET (1..0) : s = {} /\ g[s] = v
    OBVIOUS
  <2> HIDE DEF g
  <2>2. \A s \in SUBSET (1..0) : Unfolds(g, kind, v, ms, s)
    BY <2>1 DEF Unfolds
  <2>3. Upto(0)
    BY <2>2
  <2> QED BY <1>3, <2>3
<1>5. k \in Nat /\ k - 1 \in 0..N /\ k - 1 < k
  BY <1>3, <1>4
<1>6. Upto(k - 1)
  <2>1. k - 1 \notin Bad
    <3> HIDE DEF Bad
    <3> QED BY <1>2, <1>5
  <2> QED BY <2>1, <1>5
<1>7. PICK f : \A s \in SUBSET (1..(k - 1)) : Unfolds(f, kind, v, ms, s)
  BY <1>6
<1> DEFINE g == [s \in SUBSET (1..k) |->
                   IF k \in s THEN Handled(kind, f[s \ {k}], ms[k]) ELSE f[s]]
<1>8. \A s \in SUBSET (1..k) :
         g[s] = IF k \in s THEN Handled(kind, f[s \ {k}], ms[k]) ELSE f[s]
  OBVIOUS
<1> HIDE DEF g
<1>9. ASSUME NEW s \in SUBSET (1..k) PROVE Unfolds(g, kind, v, ms, s)
  <2>1. CASE k \in s
    <3>1. Max(s) = k
      BY <1>5, <2>1, LastPlace
    <3>2. s \ {k} \in SUBSET (1..k) /\ k \notin s \ {k} /\ s # {}
      BY <2>1
    <3>3. g[s \ {k}] = f[s \ {k}]
      BY <3>2, <1>8
    <3>4. g[s] = Handled(kind, f[s \ {k}], ms[k])
      BY <2>1, <1>8
    <3> QED BY <3>1, <3>2, <3>3, <3>4 DEF Unfolds
  <2>2. CASE k \notin s
    <3>1. s \in SUBSET (1..(k - 1))
      BY <1>5, <2>2
    <3>2. Unfolds(f, kind, v, ms, s)
      BY <3>1, <1>7
    <3>3. \A r \in SUBSET s : g[r] = f[r]
      BY <2>2, <1>8
    <3>4. g[s] = f[s] /\ g[s \ {Max(s)}] = f[s \ {Max(s)}]
      <4>1. s \in SUBSET s /\ s \ {Max(s)} \in SUBSET s
        OBVIOUS
      <4> QED BY <3>3, <4>1
    <3> QED BY <3>2, <3>4 DEF Unfolds
  <2> QED BY <2>1, <2>2
<1>10. Upto(k)
  BY <1>9
<1> QED BY <1>3, <1>10

\* An alert is announced when it is seen, and never again.
LEMMA HandledOnce ==
    ASSUME NEW kind, NEW v, NEW e, Earned(v.shown, v.seen)
    PROVE  Earned(Handled(kind, v, e).shown, Handled(kind, v, e).seen)
<1>1. ASSUME NEW x PROVE Earned(HandleAlert(v, x).shown, HandleAlert(v, x).seen)
  <2> DEFINE shown == IF x.status = "new" /\ x.id \notin v.seen
                      THEN [v.shown EXCEPT ![x.id] = @ + 1] ELSE v.shown
             known == v.seen \cup {x.id}
  <2>1. HandleAlert(v, x).shown = shown /\ HandleAlert(v, x).seen = known
    BY DEF HandleAlert
  <2>2. ASSUME x.status = "new", x.id \notin v.seen
        PROVE  Earned(shown, known)
    <3>1. shown = [v.shown EXCEPT ![x.id] = @ + 1]
      BY <2>2
    <3> DEFINE was == v.shown
    <3>2. \A a \in Alerts : shown[a] = IF a = x.id THEN was[a] + 1 ELSE was[a]
      BY <3>1 DEF Earned
    <3>3. shown \in [Alerts -> Nat]
      <4>1. \A a \in Alerts : (IF a = x.id THEN was[a] + 1 ELSE was[a]) \in Nat
        BY DEF Earned
      <4>2. shown = [a \in Alerts |-> IF a = x.id THEN was[a] + 1 ELSE was[a]]
        BY <3>1 DEF Earned
      <4> HIDE DEF was, shown
      <4> QED BY <4>1, <4>2
    <3>4. \A a \in Alerts : was[a] \in Nat /\ (a \notin v.seen => was[a] <= 0) /\ was[a] <= 1
      BY DEF Earned
    <3> HIDE DEF shown, was
    <3>5. \A a \in Alerts : shown[a] <= IF a \in known THEN 1 ELSE 0
      BY <2>2, <3>2, <3>4
    <3> QED BY <3>3, <3>5 DEF Earned
  <2>3. ASSUME ~(x.status = "new" /\ x.id \notin v.seen)
        PROVE  Earned(shown, known)
    <3>1. shown = v.shown
      BY <2>3
    <3> HIDE DEF shown
    <3> QED BY <3>1 DEF Earned
  <2>4. Earned(shown, known)
    <3> HIDE DEF shown, known
    <3> QED BY <2>2, <2>3
  <2> HIDE DEF shown, known
  <2> QED BY <2>1, <2>4
<1> QED BY <1>1 DEF Handled, HandleMessage, HandleUnseen

\* Hence it stays so along every prefix.
LEMMA FoldOnce ==
    ASSUME NEW N \in Nat, NEW ms, NEW kind, NEW v, Earned(v.shown, v.seen),
           NEW g, \A s \in SUBSET (1..N) : Unfolds(g, kind, v, ms, s)
    PROVE  Earned(g[1..N].shown, g[1..N].seen)
<1> DEFINE Good(s) == Earned(g[s].shown, g[s].seen)
           Upto(k) == \A s \in SUBSET (1..k) : Good(s)
           Bad == {k \in 0..N : ~Upto(k)}
<1> SUFFICES ASSUME Bad # {} PROVE FALSE
  <2>1. N \in 0..N /\ 1..N \in SUBSET (1..N)
    OBVIOUS
  <2> HIDE DEF Good
  <2>2. Upto(N)
    BY <2>1
  <2>3. Good(1..N)
    BY <2>1, <2>2
  <2> QED BY <2>3 DEF Good
<1>1. Bad \subseteq Nat
  OBVIOUS
<1>2. PICK k \in Bad : \A m \in Bad : k <= m
  <2> HIDE DEF Bad
  <2> QED BY <1>1, LeastElement
<1>3. k \in 0..N /\ k \in Nat /\ ~Upto(k)
  OBVIOUS
<1>4. PICK s \in SUBSET (1..k) : ~Good(s)
  <2> HIDE DEF Good
  <2> QED BY <1>3
<1>5. Unfolds(g, kind, v, ms, s) /\ s \in SUBSET (1..N)
  BY <1>3
<1>6. s # {}
  BY <1>4, <1>5 DEF Unfolds
<1>7. k # 0
  <2>1. 1..0 = {}
    OBVIOUS
  <2> QED BY <1>6, <2>1
<1>8. Upto(k - 1)
  <2>1. k - 1 \in 0..N /\ k - 1 < k
    BY <1>3, <1>7
  <2>2. k - 1 \notin Bad
    <3> HIDE DEF Bad
    <3> QED BY <1>2, <1>3, <2>1
  <2> HIDE DEF Good
  <2> QED BY <2>1, <2>2
<1>9. k \in s
  <2>1. CASE k \notin s
    <3>1. s \in SUBSET (1..(k - 1))
      BY <2>1, <1>3
    <3> HIDE DEF Good
    <3> QED BY <3>1, <1>4, <1>8
  <2> QED BY <2>1
<1>10. Max(s) = k
  BY <1>3, <1>9, LastPlace
<1>11. Good(s \ {k})
  <2>1. s \ {k} \in SUBSET (1..(k - 1))
    BY <1>3
  <2> HIDE DEF Good
  <2> QED BY <2>1, <1>8
<1>12. g[s] = Handled(kind, g[s \ {k}], ms[k])
  BY <1>5, <1>6, <1>10 DEF Unfolds
<1> QED BY <1>4, <1>11, <1>12, HandledOnce

\* What the library's fold returns is such a g at the set of all places.
LEMMA FoldMessages ==
    ASSUME NEW N \in Nat, NEW ms, DOMAIN ms = 1..N, NEW v
    PROVE  \E g : /\ \A s \in SUBSET (1..N) : Unfolds(g, "message", v, ms, s)
                  /\ FoldLeft(HandleMessage, v, ms) = g[1..N]
<1> DEFINE Solves(g) == g = [s \in SUBSET (1..N) |->
                               IF s = {} THEN v
                               ELSE HandleMessage(g[s \ {Max(s)}], ms[Max(s)])]
           result == CHOOSE g : Solves(g)
<1>1. FoldLeft(HandleMessage, v, ms) = result[1..N]
  BY Zenon DEF FoldLeft, MapThenFoldSet
<1>2. \E g : Solves(g)
  <2>1. PICK f : \A s \in SUBSET (1..N) : Unfolds(f, "message", v, ms, s)
    BY FoldIsDefined
  <2> DEFINE g == [s \in SUBSET (1..N) |-> f[s]]
  <2>2. ASSUME NEW s \in SUBSET (1..N)
        PROVE  g[s] = IF s = {} THEN v ELSE HandleMessage(g[s \ {Max(s)}], ms[Max(s)])
    <3>1. s \ {Max(s)} \in SUBSET (1..N)
      OBVIOUS
    <3>2. g[s] = f[s] /\ g[s \ {Max(s)}] = f[s \ {Max(s)}]
      BY <3>1
    <3> HIDE DEF g
    <3> QED BY <2>1, <3>2 DEF Unfolds, Handled
  <2>3. g = [s \in SUBSET (1..N) |-> g[s]]
    OBVIOUS
  <2> HIDE DEF g
  <2>4. Solves(g)
    BY <2>2, <2>3
  <2> QED BY <2>4
<1>3. Solves(result)
  <2> HIDE DEF Solves
  <2> QED BY <1>2
<1> HIDE DEF result
<1>4. ASSUME NEW s \in SUBSET (1..N) PROVE Unfolds(result, "message", v, ms, s)
  BY <1>3 DEF Unfolds, Handled
<1> QED BY <1>1, <1>4

LEMMA FoldUnseen ==
    ASSUME NEW N \in Nat, NEW ms, DOMAIN ms = 1..N
    PROVE  \E g : /\ \A s \in SUBSET (1..N) : Unfolds(g, "unseen", Screen, ms, s)
                  /\ CatchUp(ms) = g[1..N]
<1> DEFINE v == Screen
           Solves(g) == g = [s \in SUBSET (1..N) |->
                               IF s = {} THEN v
                               ELSE HandleUnseen(g[s \ {Max(s)}], ms[Max(s)])]
           result == CHOOSE g : Solves(g)
<1>1. CatchUp(ms) = result[1..N]
  BY Zenon DEF CatchUp, FoldLeft, MapThenFoldSet, HandleUnseen
<1> HIDE DEF v
<1>2. \E g : Solves(g)
  <2>1. PICK f : \A s \in SUBSET (1..N) : Unfolds(f, "unseen", v, ms, s)
    BY FoldIsDefined
  <2> DEFINE g == [s \in SUBSET (1..N) |-> f[s]]
  <2>2. ASSUME NEW s \in SUBSET (1..N)
        PROVE  g[s] = IF s = {} THEN v ELSE HandleUnseen(g[s \ {Max(s)}], ms[Max(s)])
    <3>1. s \ {Max(s)} \in SUBSET (1..N)
      OBVIOUS
    <3>2. g[s] = f[s] /\ g[s \ {Max(s)}] = f[s \ {Max(s)}]
      BY <3>1
    <3> HIDE DEF g
    <3> QED BY <2>1, <3>2 DEF Unfolds, Handled
  <2>3. g = [s \in SUBSET (1..N) |-> g[s]]
    OBVIOUS
  <2> HIDE DEF g
  <2>4. Solves(g)
    BY <2>2, <2>3
  <2> QED BY <2>4
<1>3. Solves(result)
  <2> HIDE DEF Solves
  <2> QED BY <1>2
<1> HIDE DEF result
<1>4. ASSUME NEW s \in SUBSET (1..N) PROVE Unfolds(result, "unseen", v, ms, s)
  BY <1>3 DEF Unfolds, Handled
<1> QED BY <1>1, <1>4 DEF v

LEMMA EarnedStep ==
    ASSUME Types, Earned(announced, seen), [Next]_vars
    PROVE  Earned(announced, seen)'
<1>1. ASSUME UNCHANGED <<announced, seen>> PROVE Earned(announced, seen)'
  BY <1>1
<1>2. Earned(Screen.shown, Screen.seen)
  BY DEF Screen
<1>3. ASSUME NEW s \in Socks, Receive(s) PROVE Earned(announced, seen)'
  <2> DEFINE ms == Messages(Head(chan[s]))
  <2>1. Head(chan[s]) \in Frame
    BY <1>3, QueueTail DEF Receive, Types, WireTypes
  <2>2. PICK N \in Nat : DOMAIN ms = 1..N
    <3>1. CASE Head(chan[s]).kind = "hello"
      <4>1. Head(chan[s]) \in Greeting
        BY <2>1, <3>1 DEF Frame, Message
      <4>2. ms \in Seq(Message)
        BY <3>1, <4>1 DEF Messages, Greeting
      <4> HIDE DEF ms
      <4> QED BY <4>2
    <3>2. CASE Head(chan[s]).kind # "hello"
      <4>1. ms = <<Head(chan[s])>>
        BY <3>2 DEF Messages
      <4>2. DOMAIN ms = 1..1
        BY <4>1
      <4> QED BY <4>2
    <3> QED BY <3>1, <3>2
  <2> DEFINE r == FoldLeft(HandleMessage, Screen, ms)
  <2>3. announced' = r.shown /\ seen' = r.seen
    BY <1>3 DEF Receive, Show
  <2> HIDE DEF ms
  <2>4. PICK g : /\ \A t \in SUBSET (1..N) : Unfolds(g, "message", Screen, ms, t)
                 /\ r = g[1..N]
    BY <2>2, FoldMessages
  <2>5. Earned(g[1..N].shown, g[1..N].seen)
    BY <1>2, <2>4, FoldOnce
  <2> HIDE DEF r
  <2> QED BY <2>3, <2>4, <2>5
<1>4. ASSUME NEW p \in Polls, PollAnswered(p) PROVE Earned(announced, seen)'
  <2> DEFINE ms == poll[p].items
  <2>1. CASE primed
    <3>1. PICK N \in Nat : DOMAIN ms = 1..N
      BY <1>4 DEF PollAnswered, Types, PollTypes
    <3>2. announced' = CatchUp(ms).shown /\ seen' = CatchUp(ms).seen
      BY <1>4, <2>1 DEF PollAnswered, Show
    <3> HIDE DEF ms
    <3>3. PICK g : /\ \A t \in SUBSET (1..N) : Unfolds(g, "unseen", Screen, ms, t)
                   /\ CatchUp(ms) = g[1..N]
      BY <3>1, FoldUnseen
    <3>4. Earned(g[1..N].shown, g[1..N].seen)
      BY <1>2, <3>3, FoldOnce
    <3> QED BY <3>2, <3>3, <3>4
  <2>2. CASE ~primed
    <3>1. announced' = announced /\ seen \subseteq seen'
      BY <1>4, <2>2 DEF PollAnswered, Show, Prime
    <3> QED BY <3>1 DEF Earned
  <2> QED BY <2>1, <2>2
<1>5. CASE UNCHANGED vars
  BY <1>5, <1>1 DEF vars, screen, history
<1>6. ASSUME NEW w \in Workers, NEW a, Ingest(w, a) PROVE Earned(announced, seen)'
  BY <1>6, <1>1 DEF Ingest, screen, history
<1>7. ASSUME NEW w \in Workers, NEW a, NEW s, Triage(w, a, s) PROVE Earned(announced, seen)'
  BY <1>7, <1>1 DEF Triage, screen
<1>8. ASSUME NEW w \in Workers, Thread(w) PROVE Earned(announced, seen)'
  BY <1>8, <1>1 DEF Thread, Detect, Read, Publish, Look, Schedule, screen, history
<1>9. CASE Broadcast
  BY <1>9, <1>1 DEF Broadcast, screen
<1>10. ASSUME NEW k \in DOMAIN sending, NEW s \in Socks, SendNext(k, s) \/ SendFails(k, s)
       PROVE  Earned(announced, seen)'
  BY <1>10, <1>1 DEF SendNext, SendFails, screen, history
<1>11. ASSUME NEW s \in Socks,
              \/ Handshake(s) \/ Disconnect(s) \/ Open(s) \/ OnClose(s)
              \/ Reconnect(s) \/ MissFrame(s) \/ Drop(s)
       PROVE  Earned(announced, seen)'
  BY <1>11, <1>1 DEF Handshake, Register, Greet, Refuse, Disconnect, Open, OnClose, Reconnect,
                     MissFrame, Drop, screen, history
<1>12. ASSUME NEW p \in Polls, PollRead(p) \/ PollFails(p) PROVE Earned(announced, seen)'
  BY <1>12, <1>1 DEF PollRead, PollFails, screen, history
<1>13. CASE SiemRestart \/ Revoke
  BY <1>13, <1>1 DEF SiemRestart, Revoke, screen, history
<1> QED
  BY <1>3, <1>4, <1>5, <1>6, <1>7, <1>8, <1>9, <1>10, <1>11, <1>12, <1>13
     DEF Next, Requests, Sends, Polling, Coroutine, Handler, Failures

\* An alert is announced at most once, however often sockets, replays and polls
\* bring it, in whatever order (LiveContext.tsx handleAlert and the poll).
THEOREM AnnouncedOnlyOnce == Spec => []AnnouncedOnce
<1> DEFINE Inv == Types /\ Earned(announced, seen)
<1>1. Init => Inv
  <2>1. Init => Earned(announced, seen)
    BY DEF Init, Earned
  <2> QED BY <2>1, HubInitially
<1>2. Inv /\ [Next]_vars => Inv'
  BY ThreadTypesStep, HubTypesStep, WireTypesStep, PollTypesStep, EarnedStep DEF Types
<1>3. Inv => AnnouncedOnce
  BY DEF Earned, AnnouncedOnce
<1> QED BY <1>1, <1>2, <1>3, PTL DEF Spec
=============================================================================
