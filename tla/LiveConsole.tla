---------------------------- MODULE LiveConsole ----------------------------
(***************************************************************************)
(* From a committed row to an analyst's screen: server threads publish     *)
(* events on the hub, the event loop broadcasts them to the WebSockets,    *)
(* and the console keeps its list of alerts current from the socket, from  *)
(* the replay that greets each new socket and from polling /api/alerts.    *)
(*                                                                         *)
(*   backend/app/realtime/hub.py               publish, broadcast          *)
(*   backend/app/api/routes/stream.py          handshake, replay           *)
(*   backend/app/ingestion/service.py, api/routes/alerts.py  publishers    *)
(*   frontend/src/context/LiveContext.tsx      the console                 *)
(*                                                                         *)
(* Threads interleave at every commit and at every call of the hub.  The   *)
(* event loop runs one coroutine at a time, which may be suspended where   *)
(* it awaits a slow socket.  One console is modelled; it may leave several *)
(* sockets behind on the server, which notices later than the browser.     *)
(***************************************************************************)
EXTENDS Integers, SequencesExt

CONSTANTS
    Workers,        \* threads of the server
    Socks,          \* WebSockets that exist at once, those left behind included
    Polls,          \* requests for /api/alerts that can be open at once
    OldAlerts,      \* alerts 1..OldAlerts were raised before the page was loaded
    NumAlerts,      \* bound: alerts ever raised
    Cases,          \* bound: alerts the analysts of the run take up
    Verdicts,       \* statuses they may choose
    BufferSize,     \* REPLAY_BUFFER_SIZE
    MaxConnections, \* MAX_CONNECTIONS
    FeedMax,        \* MAX_LIVE_ALERTS
    PollLimit,      \* the limit the console asks for
    Stamps,         \* the times that logs may carry
    Now,            \* the time that those of the old alerts carry
    MaxEvents,      \* bound: events ingested
    MaxTriage,      \* bound: changes of status
    Trouble,        \* what may go wrong: "miss", "drop", "restart", "revoke", "full"
    MaxTrouble      \* bound: how often anything goes wrong

Alerts == 1..NumAlerts
Statuses == {"new", "investigating", "resolved", "false_positive"}
NoAlert == 0

ASSUME SizeAssumption ==
    /\ OldAlerts \in 0..NumAlerts /\ NumAlerts \in Nat
    /\ BufferSize \in Nat \ {0} /\ FeedMax \in Nat \ {0} /\ PollLimit \in Nat \ {0}
    /\ MaxConnections \in Nat /\ Verdicts \subseteq Statuses 
    /\ Stamps \subseteq Nat /\ Now \in Stamps /\ Cases \subseteq Alerts
    /\ Trouble \subseteq {"miss", "drop", "restart", "revoke", "full"}
    /\ MaxEvents \in Nat /\ MaxTriage \in Nat /\ MaxTrouble \in Nat

VARIABLES
    db,           \* the status of each alert, "none" before it is raised
    stamp,        \* the time its log carries, which is the alert's timestamp
    valid,        \* the session the console holds is still accepted
    pc,           \* where each thread is
    about,        \* the alert it is raising or triaging, NoAlert for none
    item,         \* the message it is publishing
    published,    \* messages published so far
    recent,       \* the replay buffer
    conns,        \* the sockets registered with the hub
    greeting,     \* the socket the event loop has registered and not yet greeted
    scheduled,    \* broadcasts handed to the event loop
    sending,      \* broadcasts under way, each with the sockets it has yet to serve
    chan,         \* frames on their way to the browser
    sock,         \* each socket as the browser sees it
    connection,   \* what the console says of its connection
    timers,       \* reconnect timers set
    active,       \* activeRef: the provider is mounted
    feed,         \* liveAlerts, newest first
    seen,         \* seenAlertIds
    primed,       \* the first poll has been answered
    poll,         \* each open request, with its answer once the server has read
    budget,       \* events, changes and troubles so far
    awaited,      \* history: messages published since a socket was accepted,
                  \* neither in its greeting nor written to it since
    owed,         \* history: messages about alerts the console has not handled
    announced,    \* history: how often an alert was announced
    fresh,        \* history: alerts raised after the first poll was answered
    triaged,      \* history: alerts whose status has been changed
    crossed,      \* history: alerts with two messages that may have crossed
    lost          \* history: the console can no longer get some message

threads == <<pc, about, item>>
loop    == <<conns, greeting, scheduled, sending>>
network == <<chan, sock>>
session == <<connection, timers, active>>
screen  == <<feed, seen, primed>>
history == <<awaited, owed, announced, fresh, triaged, crossed, lost>>
vars == <<db, stamp, valid, threads, published, recent, loop, network, session, screen, poll,
          budget, history>>

Message == [kind : {"log", "alert"}, id : 0..NumAlerts, status : Statuses \cup {"none"},
            n : Nat]
Entry   == [id : Alerts, status : Statuses]
Limits  == [events |-> MaxEvents, triage |-> MaxTriage, trouble |-> MaxTrouble]

LogMessage      == [kind |-> "log", id |-> NoAlert, status |-> "none", n |-> 0]
AlertMessage(a) == [kind |-> "alert", id |-> a, status |-> db[a], n |-> 0]
Hello           == [kind |-> "hello", replay |-> recent]

Spend(b) == budget[b] < Limits[b] /\ budget' = [budget EXCEPT ![b] = @ + 1]

Happens(kind) == kind \in Trouble /\ Spend("trouble")

NoPoll == [at |-> "idle", items |-> <<>>]

\* A server that has been up for a while, and a page that has just opened its
\* first socket.  What is left of old messages in the replay buffer is nothing.
Init ==
    /\ db = [a \in Alerts |-> IF a <= OldAlerts THEN "new" ELSE "none"]
    /\ stamp = [a \in Alerts |-> Now]
    /\ valid = TRUE
    /\ pc = [w \in Workers |-> "idle"]
    /\ about = [w \in Workers |-> NoAlert]
    /\ item = [w \in Workers |-> LogMessage]
    /\ published = 0 /\ recent = <<>>
    /\ conns = {} /\ greeting = {} /\ scheduled = <<>> /\ sending = <<>>
    /\ chan = [s \in Socks |-> <<>>]
    /\ sock = [[s \in Socks |-> "free"] EXCEPT ![CHOOSE s \in Socks : TRUE] = "dialing"]
    /\ connection = "connecting" /\ timers = 0 /\ active = TRUE
    /\ feed = <<>> /\ seen = {} /\ primed = FALSE
    /\ poll = [p \in Polls |-> NoPoll]
    /\ budget = [b \in DOMAIN Limits |-> 0]
    /\ awaited = [s \in Socks |-> {}] /\ owed = {} /\ announced = [a \in Alerts |-> 0]
    /\ fresh = {} /\ triaged = {} /\ crossed = {} /\ lost = FALSE

-----------------------------------------------------------------------------
(* The threads. *)

\* An event is stored and announced; a may be the alert detection raises on it.
Ingest(w, a) ==
    /\ pc[w] = "idle" /\ Spend("events")
    /\ a # NoAlert =>
         /\ db[a] = "none" /\ \A b \in 1..(a - 1) : db[b] # "none"
         /\ \A v \in Workers : about[v] # a
    /\ pc' = [pc EXCEPT ![w] = "publish"]
    /\ about' = [about EXCEPT ![w] = a]
    /\ item' = [item EXCEPT ![w] = LogMessage]
    /\ UNCHANGED <<db, stamp, valid, published, recent, loop, network, session, screen,
                   poll, history>>

\* Another thread has a message about a in the making.
Crossing(w, a) == 
    \E v \in Workers \ {w} :
        about[v] = a /\ pc[v] \in {"read", "publish", "look", "schedule"}

Committed(w, a, s) ==
    /\ db' = [db EXCEPT ![a] = s]
    /\ pc' = [pc EXCEPT ![w] = "read"]
    /\ crossed' = IF Crossing(w, a) THEN crossed \cup {a} ELSE crossed

\* An alert carries the time of its log, which need not be that of its arrival.
Detect(w) ==
    /\ pc[w] = "detect" /\ Committed(w, about[w], "new")
    /\ \E t \in Stamps : stamp' = [stamp EXCEPT ![about[w]] = t]
    /\ fresh' = IF primed THEN fresh \cup {about[w]} ELSE fresh
    /\ UNCHANGED <<valid, about, item, published, recent, loop, network, session, screen,
                   poll, budget, awaited, owed, announced, triaged, lost>>

Triage(w, a, s) ==
    /\ pc[w] = "idle" /\ db[a] \notin {"none", s} /\ Spend("triage")
    /\ Committed(w, a, s)
    /\ about' = [about EXCEPT ![w] = a]
    /\ triaged' = triaged \cup {a}
    /\ UNCHANGED <<stamp, valid, item, published, recent, loop, network, session, screen,
                   poll, awaited, owed, announced, fresh, lost>>

\* The row is read again after the commit, and serialized.
Read(w) ==
    /\ pc[w] = "read"
    /\ item' = [item EXCEPT ![w] = AlertMessage(about[w])]
    /\ pc' = [pc EXCEPT ![w] = "publish"]
    /\ UNCHANGED <<db, stamp, valid, about, published, recent, loop, network, session,
                   screen, poll, budget, history>>

Done(w) ==
    /\ pc' = [pc EXCEPT ![w] = "idle"]
    /\ about' = [about EXCEPT ![w] = NoAlert]
    /\ item' = [item EXCEPT ![w] = LogMessage]

\* After the log's broadcast comes detection; after the alert's nothing.
Continue(w) ==
    IF item[w].kind = "log" /\ about[w] # NoAlert
    THEN /\ pc' = [pc EXCEPT ![w] = "detect"]
         /\ item' = [item EXCEPT ![w] = LogMessage]
         /\ UNCHANGED about
    ELSE Done(w)

\* deque(maxlen): the oldest message makes room.
Buffered(buffer, m) ==
    LET all == Append(buffer, m) IN
    IF Len(all) > BufferSize THEN Tail(all) ELSE all

\* Nobody is connected, and an older message about the same alert is queued: a
\* console that connects now is greeted with m and then sent the older one.
Unheard(m) ==
    conns = {} /\ m.kind = "alert" /\ \E q \in Range(scheduled) : q.id = m.id

\* The message is numbered in the order in which it enters the buffer.
Numbered(w) == [item[w] EXCEPT !.n = published + 1]

Buffers(w) ==
    /\ published' = published + 1
    /\ recent' = Buffered(recent, Numbered(w))
    /\ awaited' = [s \in Socks |-> IF sock[s] \in {"accepted", "open"}
                                   THEN awaited[s] \cup {published + 1} ELSE awaited[s]]
    /\ owed' = IF item[w].kind = "alert" THEN owed \cup {published + 1} ELSE owed

\* Slip: whether anybody is connected is looked up first, the message is
\* buffered afterwards.
PublishLate(w) ==
    /\ \/ /\ pc[w] = "publish"
          /\ pc' = [pc EXCEPT ![w] = IF conns = {} THEN "late" ELSE "look"]
          /\ UNCHANGED <<about, item, published, recent, awaited, owed>>
       \/ pc[w] = "late" /\ Buffers(w) /\ Continue(w)
    /\ UNCHANGED <<db, stamp, valid, loop, network, session, screen, poll, budget,
                   announced, fresh, triaged, crossed, lost>>

\* A thread puts the message into the replay buffer, while the event loop goes
\* on with whatever it is at, a handshake included ...
Publish(w) ==
    /\ pc[w] = "publish"
    /\ Buffers(w)
    /\ pc' = [pc EXCEPT ![w] = "look"]
    /\ item' = [item EXCEPT ![w] = Numbered(w)]
    /\ UNCHANGED <<db, stamp, valid, about, loop, network, session, screen, poll, budget,
                   announced, fresh, triaged, crossed, lost>>

\* ... and then looks whether anybody is connected.
Look(w) ==
    /\ pc[w] = "look"
    /\ IF conns = {} THEN Continue(w)
       ELSE pc' = [pc EXCEPT ![w] = "schedule"] /\ UNCHANGED <<about, item>>
    /\ crossed' = IF Unheard(item[w]) THEN crossed \cup {item[w].id} ELSE crossed
    /\ UNCHANGED <<db, stamp, valid, published, recent, loop, network, session, screen,
                   poll, budget, awaited, owed, announced, fresh, triaged, lost>>

Schedule(w) ==
    /\ pc[w] = "schedule"
    /\ scheduled' = Append(scheduled, item[w])
    /\ Continue(w)
    /\ UNCHANGED <<db, stamp, valid, published, recent, conns, greeting, sending, network,
                   session, screen, poll, budget, history>>

-----------------------------------------------------------------------------
(* The event loop. *)

\* A frame for a connection that has broken vanishes.
Write(s, m) ==
    /\ chan' = IF sock[s] \in {"accepted", "open"} THEN [chan EXCEPT ![s] = Append(@, m)]
               ELSE chan
    /\ awaited' = [awaited EXCEPT ![s] = @ \ {m.n}]

\* The browser's end of s is gone.
Lost(s) == sock[s] \in {"cut", "free"}

\* A broadcast starts: it takes a copy of the connections and serves one at
\* once; a failing send takes the socket out.  A message that starts while
\* another about its alert is still being sent may overtake it.
Broadcast ==
    /\ greeting = {} /\ scheduled # <<>>
    /\ scheduled' = Tail(scheduled)
    /\ LET m == Head(scheduled) IN
         \/ /\ conns = {}
            /\ UNCHANGED <<sending, conns, chan, awaited, crossed>>
         \/ \E s \in conns :
              /\ \/ Write(s, m) /\ UNCHANGED conns
                 \/ Lost(s) /\ conns' = conns \ {s} /\ UNCHANGED <<chan, awaited>>
              /\ sending' = IF conns = {s} THEN sending
                            ELSE Append(sending, [msg |-> m, todo |-> conns \ {s}])
              /\ crossed' = IF m.kind = "alert" /\ \E t \in Range(sending) : t.msg.id = m.id
                            THEN crossed \cup {m.id} ELSE crossed
    /\ UNCHANGED <<db, stamp, valid, threads, published, recent, greeting, sock, session,
                   screen, poll, budget, owed, announced, fresh, triaged, lost>>

\* Broadcast k is done with s.
Served(k, s) ==
    LET rest == sending[k].todo \ {s} IN
    sending' = IF rest = {} THEN RemoveAt(sending, k) ELSE [sending EXCEPT ![k].todo = rest]

\* A broadcast that awaited a slow socket goes on to the next.
SendNext(k, s) ==
    /\ greeting = {} /\ s \in sending[k].todo
    /\ Write(s, sending[k].msg) /\ Served(k, s)
    /\ UNCHANGED <<db, stamp, valid, threads, published, recent, conns, greeting, scheduled,
                   sock, session, screen, poll, budget, owed, announced, fresh, triaged,
                   crossed, lost>>

\* A failing send takes the socket out and does not stop the rest.
SendFails(k, s) ==
    /\ greeting = {} /\ s \in sending[k].todo /\ Lost(s)
    /\ conns' = conns \ {s} /\ Served(k, s)
    /\ UNCHANGED <<db, stamp, valid, threads, published, recent, greeting, scheduled,
                   network, session, screen, poll, budget, history>>

\* There is room for s, whose session is accepted.
Admitted(s) ==
    greeting = {} /\ sock[s] = "dialing" /\ valid /\ Cardinality(conns) < MaxConnections

\* Slip: a socket is greeted first and registered afterwards.
RegisterLate(s) ==
    /\ \/ /\ Admitted(s)
          /\ chan' = [chan EXCEPT ![s] = <<Hello>>]
          /\ sock' = [sock EXCEPT ![s] = "accepted"]
          /\ awaited' = [awaited EXCEPT ![s] = {}]
          /\ greeting' = {s} /\ UNCHANGED conns
       \/ /\ s \in greeting
          /\ conns' = conns \cup {s} /\ greeting' = {}
          /\ UNCHANGED <<chan, sock, awaited>>
    /\ UNCHANGED <<db, stamp, valid, threads, published, recent, scheduled, sending,
                   session, screen, poll, budget, owed, announced, fresh, triaged, crossed,
                   lost>>

\* The handshake: the event loop registers the socket ...
Register(s) ==
    /\ Admitted(s)
    /\ sock' = [sock EXCEPT ![s] = "accepted"]
    /\ conns' = conns \cup {s} /\ greeting' = {s}
    /\ awaited' = [awaited EXCEPT ![s] = {}]
    /\ UNCHANGED <<db, stamp, valid, threads, published, recent, scheduled, sending, chan,
                   session, screen, poll, budget, owed, announced, fresh, triaged, crossed,
                   lost>>

\* ... and greets it with what the buffer then holds.  No other coroutine runs in
\* between, but the threads do.  A message that is neither in the buffer nor with
\* the console is taken to be out of its reach.
Greet(s) ==
    /\ s \in greeting /\ greeting' = {}
    /\ chan' = IF Lost(s) THEN chan ELSE [chan EXCEPT ![s] = <<Hello>>]
    /\ awaited' = [awaited EXCEPT ![s] = @ \ {m.n : m \in Range(recent)}]
    /\ lost' = (lost \/ \E n \in owed : \A m \in Range(recent) : m.n # n)
    /\ UNCHANGED <<db, stamp, valid, threads, published, recent, conns, scheduled, sending,
                   sock, session, screen, poll, budget, owed, announced, fresh, triaged,
                   crossed>>

\* Closed with 1013 at capacity, to which other consoles' sockets may bring the
\* hub, and with 1008 when the session is not accepted.
Refuse(s) ==
    /\ greeting = {} /\ sock[s] = "dialing"
    /\ IF valid /\ Cardinality(conns) < MaxConnections THEN Happens("full")
                                                     ELSE UNCHANGED budget
    /\ sock' = [sock EXCEPT ![s] = IF valid THEN "refused" ELSE "denied"]
    /\ UNCHANGED <<db, stamp, valid, threads, published, recent, loop, chan, session,
                   screen, poll, history>>

\* The server notices that the browser is gone.
Disconnect(s) ==
    /\ greeting = {} /\ s \in conns /\ Lost(s)
    /\ conns' = conns \ {s}
    /\ UNCHANGED <<db, stamp, valid, threads, published, recent, greeting, scheduled,
                   sending, network, session, screen, poll, budget, history>>

-----------------------------------------------------------------------------
(* The console. *)

Capped(list) == SubSeq(list, 1, IF Len(list) < FeedMax THEN Len(list) ELSE FeedMax)

\* Slip: every alert that is new is announced, seen before or not.
HandleAlertAnew(v, e) ==
    [feed  |-> Capped(<<e>> \o SelectSeq(v.feed, LAMBDA f : f.id # e.id)),
     seen  |-> v.seen \cup {e.id},
     shown |-> IF e.status = "new" THEN [v.shown EXCEPT ![e.id] = @ + 1] ELSE v.shown]

\* What handleAlert does with one alert, to the parts of the console it touches.
HandleAlert(v, e) ==
    [feed  |-> Capped(<<e>> \o SelectSeq(v.feed, LAMBDA f : f.id # e.id)),
     seen  |-> v.seen \cup {e.id},
     shown |-> IF e.status = "new" /\ e.id \notin v.seen
               THEN [v.shown EXCEPT ![e.id] = @ + 1] ELSE v.shown]

HandleMessage(v, m) ==
    IF m.kind = "alert" THEN HandleAlert(v, [id |-> m.id, status |-> m.status]) ELSE v

Screen == [feed |-> feed, seen |-> seen, shown |-> announced]

Show(v) == feed' = v.feed /\ seen' = v.seen /\ announced' = v.shown

\* A socket that is turned away is accepted and closed: it opens all the same.
Open(s) ==
    /\ active /\ sock[s] \in {"accepted", "refused", "denied"} /\ connection # "live"
    /\ sock' = [sock EXCEPT ![s] = IF @ = "accepted" THEN "open" ELSE @]
    /\ connection' = "live"
    /\ UNCHANGED <<db, stamp, valid, threads, published, recent, loop, chan, timers, active,
                   screen, poll, budget, history>>

\* Slip: the replay is handled newest first.
MessagesBackwards(f) == IF f.kind = "hello" THEN Reverse(f.replay) ELSE <<f>>

\* A greeting replays the buffer oldest first.
Messages(f) == IF f.kind = "hello" THEN f.replay ELSE <<f>>

Receive(s) ==
    /\ active /\ sock[s] = "open" /\ chan[s] # <<>>
    /\ chan' = [chan EXCEPT ![s] = Tail(@)]
    /\ LET ms == Messages(Head(chan[s])) IN
         /\ Show(FoldLeft(HandleMessage, Screen, ms))
         /\ owed' = owed \ {m.n : m \in Range(ms)}
    /\ UNCHANGED <<db, stamp, valid, threads, published, recent, loop, sock, session,
                   primed, poll, budget, awaited, fresh, triaged, crossed, lost>>

\* Slip: onclose leaves the reconnecting to onerror, which only closes.
SetTimerNever == UNCHANGED timers

SetTimer == timers' = timers + 1

OnClose(s) ==
    /\ active /\ sock[s] \in {"cut", "refused", "denied"}
    /\ sock[s] # "cut" => connection = "live"
    /\ sock' = [sock EXCEPT ![s] = "free"]
    /\ IF sock[s] = "denied"
       THEN connection' = "offline" /\ active' = FALSE /\ UNCHANGED timers
       ELSE connection' = "reconnecting" /\ SetTimer /\ UNCHANGED active
    /\ UNCHANGED <<db, stamp, valid, threads, published, recent, loop, chan, screen, poll,
                   budget, history>>

\* A socket the model can use again: nothing on the server refers to it.
Unused(s) ==
    /\ sock[s] = "free" /\ s \notin conns
    /\ \A t \in Range(sending) : s \notin t.todo

Reconnect(s) ==
    /\ active /\ timers > 0 /\ Unused(s)
    /\ timers' = timers - 1
    /\ sock' = [sock EXCEPT ![s] = "dialing"]
    /\ connection' = "reconnecting"
    /\ UNCHANGED <<db, stamp, valid, threads, published, recent, loop, chan, active, screen,
                   poll, budget, history>>

Raised == {a \in Alerts : db[a] # "none"}

\* Alerts are listed by the time of their logs, the latest first, and those of
\* one time by their numbers.
Ahead(a, b) == stamp[a] > stamp[b] \/ (stamp[a] = stamp[b] /\ a > b)

Before(b) == {a \in Raised : Ahead(a, b)}

\* What the server answers: the head of that list.
Listing ==
    LET listed == {a \in Raised : Cardinality(Before(a)) < PollLimit} IN
    [i \in 1..Cardinality(listed) |->
        LET a == CHOOSE a \in listed : Cardinality(Before(a)) = i - 1 IN
        [id |-> a, status |-> db[a]]]

\* The console asks; the listing is what the server finds when it gets to it.
PollRead(p) ==
    /\ active /\ valid /\ poll[p].at = "idle"
    /\ poll' = [poll EXCEPT ![p] = [at |-> "answered", items |-> Listing]]
    /\ UNCHANGED <<db, stamp, valid, threads, published, recent, loop, network, session,
                   screen, budget, history>>

\* The first answer fills the feed and announces nothing.
Prime(items) ==
    LET known == {e.id : e \in Range(feed)}
        more == SelectSeq(items, LAMBDA e : e.id \notin known) IN
    [feed  |-> Capped(more \o feed),
     seen  |-> seen \cup {e.id : e \in Range(items)},
     shown |-> announced]

\* Slip: every answer is taken for the first one.
CatchUpSilently(items) == Prime(items)

\* Later ones bring in what the console has not seen.
CatchUp(items) ==
    FoldLeft(LAMBDA v, e : IF e.id \in v.seen THEN v ELSE HandleAlert(v, e), Screen, items)

PollAnswered(p) ==
    /\ active /\ poll[p].at = "answered"
    /\ Show(IF primed THEN CatchUp(poll[p].items) ELSE Prime(poll[p].items))
    /\ primed' = TRUE
    /\ poll' = [poll EXCEPT ![p] = NoPoll]
    /\ UNCHANGED <<db, stamp, valid, threads, published, recent, loop, network, session,
                   budget, awaited, owed, fresh, triaged, crossed, lost>>

-----------------------------------------------------------------------------
(* What goes wrong. *)

\* The browser misses a frame.
MissFrame(s) ==
    /\ active /\ sock[s] = "open" /\ chan[s] # <<>> /\ Happens("miss")
    /\ chan' = [chan EXCEPT ![s] = Tail(@)]
    /\ lost' = TRUE
    /\ UNCHANGED <<db, stamp, valid, threads, published, recent, loop, sock, session,
                   screen, poll, awaited, owed, announced, fresh, triaged, crossed>>

PollFails(p) ==
    /\ poll[p].at # "idle" /\ Happens("miss")
    /\ poll' = [poll EXCEPT ![p] = NoPoll]
    /\ UNCHANGED <<db, stamp, valid, threads, published, recent, loop, network, session,
                   screen, history>>

\* A connection breaks; what was on its way is lost.
Drop(s) ==
    /\ sock[s] \in {"dialing", "accepted", "open"} /\ Happens("drop")
    /\ sock' = [sock EXCEPT ![s] = "cut"]
    /\ chan' = [chan EXCEPT ![s] = <<>>]
    /\ awaited' = [awaited EXCEPT ![s] = {}]
    /\ UNCHANGED <<db, stamp, valid, threads, published, recent, loop, session, screen,
                   poll, owed, announced, fresh, triaged, crossed, lost>>

\* The SIEM restarts: requests in progress and the hub's memory are gone.
SiemRestart ==
    /\ Happens("restart")
    /\ pc' = [w \in Workers |-> "idle"]
    /\ about' = [w \in Workers |-> NoAlert]
    /\ item' = [w \in Workers |-> LogMessage]
    /\ recent' = <<>> /\ conns' = {} /\ greeting' = {} /\ scheduled' = <<>>
    /\ sending' = <<>>
    /\ chan' = [s \in Socks |-> <<>>]
    /\ sock' = [s \in Socks |->
                  IF sock[s] \in {"dialing", "accepted", "open"} THEN "cut" ELSE sock[s]]
    /\ poll' = [p \in Polls |-> NoPoll]
    /\ awaited' = [s \in Socks |-> {}] /\ lost' = TRUE
    /\ UNCHANGED <<db, stamp, valid, published, session, screen, owed, announced, fresh,
                   triaged, crossed>>

\* A change of password, a lock or a sign-out elsewhere ends the session.
Revoke ==
    /\ valid /\ Happens("revoke")
    /\ valid' = FALSE
    /\ UNCHANGED <<db, stamp, threads, published, recent, loop, network, session, screen,
                   poll, history>>

-----------------------------------------------------------------------------
Thread(w) == Detect(w) \/ Read(w) \/ Publish(w) \/ Look(w) \/ Schedule(w)

Requests ==
    \E w \in Workers :
      \/ \E a \in Alerts \cup {NoAlert} : Ingest(w, a)
      \/ \E a \in Cases, s \in Verdicts : Triage(w, a, s)

Sends(k) == \E s \in Socks : SendNext(k, s) \/ SendFails(k, s)

Handshake(s) == Register(s) \/ Greet(s) \/ Refuse(s)

\* The coroutine that serves s, and what the browser does with s.
Coroutine(s) == Handshake(s) \/ Disconnect(s)

Handler(s) == Open(s) \/ Receive(s) \/ OnClose(s)

Polling(p) == PollRead(p) \/ PollAnswered(p)

Failures ==
    \/ \E s \in Socks : MissFrame(s) \/ Drop(s)
    \/ \E p \in Polls : PollFails(p)
    \/ SiemRestart \/ Revoke

Next ==
    \/ Requests
    \/ \E w \in Workers : Thread(w)
    \/ Broadcast
    \/ \E k \in DOMAIN sending : Sends(k)
    \/ \E s \in Socks : Coroutine(s) \/ Handler(s) \/ Reconnect(s)
    \/ \E p \in Polls : Polling(p)
    \/ Failures

Spec == Init /\ [][Next]_vars

\* Threads finish what they have begun, the event loop goes on, frames arrive,
\* the browser runs its handlers and timers.  Nobody has to raise or triage an
\* alert, and nothing has to go wrong.
Fairness ==
    /\ \A w \in Workers : WF_vars(Thread(w))
    /\ WF_vars(Broadcast) /\ WF_vars(sending # <<>> /\ Sends(1))
    /\ \A s \in Socks : WF_vars(Coroutine(s)) /\ WF_vars(Handler(s))
    /\ WF_vars(\E s \in Socks : Reconnect(s))
    /\ \A p \in Polls : WF_vars(Polling(p))

FairSpec == Spec /\ Fairness

-----------------------------------------------------------------------------
(* Properties. *)

TypeOK ==
    /\ db \in [Alerts -> Statuses \cup {"none"}] /\ valid \in BOOLEAN
    /\ pc \in [Workers -> {"idle", "detect", "read", "publish", "look", "schedule"}]
    /\ stamp \in [Alerts -> Stamps]
    /\ about \in [Workers -> 0..NumAlerts] /\ item \in [Workers -> Message]
    /\ published \in Nat /\ recent \in Seq(Message) /\ Len(recent) <= BufferSize
    /\ conns \subseteq Socks /\ Cardinality(conns) <= MaxConnections
    /\ greeting \subseteq conns /\ Cardinality(greeting) <= 1
    /\ scheduled \in Seq(Message)
    /\ sending \in Seq([msg : Message, todo : SUBSET Socks \ {{}}])
    /\ sock \in [Socks -> {"free", "dialing", "accepted", "open", "refused", "denied",
                           "cut"}]
    /\ connection \in {"connecting", "live", "reconnecting", "offline"}
    /\ timers \in Nat /\ active \in BOOLEAN
    /\ feed \in Seq(Entry) /\ Len(feed) <= FeedMax
    /\ seen \subseteq Alerts /\ primed \in BOOLEAN
    /\ poll \in [Polls -> [at : {"idle", "answered"}, items : Seq(Entry)]]
    /\ awaited \in [Socks -> SUBSET (1..published)] /\ owed \subseteq 1..published
    /\ announced \in [Alerts -> Nat]
    /\ fresh \subseteq Alerts /\ triaged \subseteq Alerts /\ crossed \subseteq Alerts
    /\ lost \in BOOLEAN

\* Message n is on its way to socket s; a thread that has yet to look will find
\* it registered.
Underway(s, n) ==
    \/ \E w \in Workers :
         item[w].n = n /\ (pc[w] = "schedule" \/ (pc[w] = "look" /\ s \in conns))
    \/ \E m \in Range(scheduled) : m.n = n
    \/ \E t \in Range(sending) : t.msg.n = n /\ s \in t.todo

\* No gap between replay and live: what is published after a socket was accepted
\* is in the replay that greets it or is sent to it.  publish() appends before it
\* looks at the connections and the handshake registers before it reads the
\* buffer, so a thread and a handshake cannot both miss each other.
NothingSkipped ==
    \A s \in Socks : sock[s] \in {"accepted", "open"} =>
        \A n \in awaited[s] : Underway(s, n)

\* An alert is announced once, although it may come with the socket, with every
\* replay and with every poll, and may be reopened.
AnnouncedOnce == \A a \in Alerts : announced[a] <= 1

\* What the console shows of a is what the database has.
Current(a) == db[a] # "none" => \E i \in DOMAIN feed : feed[i] = [id |-> a, status |-> db[a]]

\* PollLimit alerts come before a in the list, so no answer to a poll has it.
Buried(a) == Cardinality(Before(a)) >= PollLimit

\* The console ends up showing every alert as the database has it, through
\* drops, reconnects, replays and late polls, unless two messages about the
\* alert may have crossed, the console missed one for good, its session has
\* ended, or the alert is older than the page, has not changed since and is too
\* far down the list.
Settles ==
    <>[](\/ lost \/ ~active \/ ~valid
         \/ \A a \in Alerts \ crossed :
              Current(a) \/ (a <= OldAlerts /\ a \notin triaged /\ Buried(a)))

\* The fallback works: an alert raised while the console is up is announced
\* although frames are missed, polls fail and the SIEM restarts between its
\* commit and its broadcast, unless the list has it too far down.
NewIsAnnounced ==
    []<>(~active \/ ~valid \/ \A a \in fresh \ triaged : announced[a] = 1 \/ Buried(a))

\* The console gets back on its feet: in the end it is live, or signed out.
Reconnects == <>[](connection = "live" \/ ~active)

\* Polling "catches anything the socket dropped and guarantees the console
\* never falls behind reality" (LiveContext.tsx:86-87).
NeverBehind == <>[](~active \/ \A a \in Alerts : Current(a))
=============================================================================
