------------------------------ MODULE Alerting ------------------------------
(***************************************************************************)
(* From an event to a triaged alert: an ingestion thread stores the event, *)
(* runs every rule on it, creates the alerts that are not duplicates and   *)
(* has the response layer decide on each; analysts triage alerts and       *)
(* administrators delete alerts and logs or purge what is old.             *)
(*                                                                         *)
(*   backend/app/ingestion/service.py       ingest_log                     *)
(*   backend/app/detection/                 engine, alerting, the rules    *)
(*   backend/app/api/routes/alerts.py       triage and deletion            *)
(*   backend/app/api/routes/logs.py         deletion                       *)
(*   backend/app/api/routes/retention.py    purge                          *)
(*                                                                         *)
(* Every SELECT a later write depends on is a step of its own and so is    *)
(* every commit; the DELETE statements of one transaction hold SQLite's    *)
(* write lock and are one step.                                            *)
(***************************************************************************)
EXTENDS Integers, SequencesExt

CONSTANTS
    Workers,      \* threads of the server that ingest events
    Analysts,     \* sessions that triage alerts
    Feed,         \* the events that may arrive: kind, key, val, ts
    RuleSeq,      \* the enabled rules in the order they are evaluated
    Trigger,      \* the event kind each rule looks at
    Counted,      \* the event kind it counts, or "none" for a per-event rule
    Distinct,     \* rules that count different vals (ports, user names)
    Threshold,    \* rule.threshold
    Window,       \* rule.time_window_seconds
    Severe,       \* rules of severity high or above
    Verdicts,     \* statuses the analysts of the run may choose
    SoarExecute,  \* alerts of Severe rules also get an order
    Cutoffs,      \* instants a purge may take as its cut-off
    MaxLogs,      \* bound: events ever stored
    MaxTriage,    \* bound: triage requests
    MaxAdmin,     \* bound: deletions and purges
    MaxFaults     \* bound: failed order commits and crashes

Rules == Range(RuleSeq)
LogIds == 1..MaxLogs

ASSUME RuleAssumption ==
    /\ RuleSeq \in Seq(Rules)
    /\ DOMAIN Trigger = Rules /\ DOMAIN Counted = Rules
    /\ Threshold \in [Rules -> Nat] /\ Window \in [Rules -> Nat]
    /\ Distinct \subseteq Rules /\ Severe \subseteq Rules
ASSUME FeedAssumption ==
    /\ IsFiniteSet(Workers)
    /\ \A ev \in Feed : DOMAIN ev = {"kind", "key", "val", "ts"} /\ ev.ts \in Nat
    /\ Verdicts \subseteq {"new", "investigating", "resolved", "false_positive"}
    /\ Cutoffs \subseteq Nat
    /\ MaxLogs \in Nat /\ MaxTriage \in Nat /\ MaxAdmin \in Nat /\ MaxFaults \in Nat

VARIABLES
    logs,         \* the logs table, in the order of the commits
    gone,         \* logs that have been deleted
    alerts,       \* the alerts table, in the order of the commits
    removed,      \* alerts that have been deleted
    trail,        \* alert_status_history of each alert
    decided,      \* alerts with soar_actions rows
    ordered,      \* alerts with soar_orders rows, which refer to them
    pc,           \* where each ingestion thread is
    mine,         \* the log it works on
    todo,         \* the rules it has yet to evaluate
    fired,        \* the alerts it has created and not yet responded to
    session,      \* its database session: "ok", or "broken" by a failed flush
    reading,      \* the triage request of each analyst, status read
    purge,        \* a purge that has selected its alerts
    triaged,      \* triage requests so far
    admin,        \* deletions and purges so far
    faults,       \* faults so far
    answers,      \* history: the answer to each event, "open" before it
    caught,       \* history: <<log, rule>> found to be covered by an alert
    refused       \* history: alerts whose deletion ended in an error

tables  == <<logs, gone, alerts, removed, trail, decided, ordered>>
threads == <<pc, mine, todo, fired, session>>
budgets == <<triaged, admin, faults>>
history == <<answers, caught, refused>>
vars == <<tables, threads, reading, purge, budgets, history>>

AlertStates == {"new", "investigating", "resolved", "false_positive"}
OpenStates  == {"new", "investigating"}
PCs == {"idle", "rule", "check", "create", "respond", "decide", "dispatch"}
Nothing == [a |-> 0, was |-> "new", want |-> "new"]
NoPurge == [on |-> FALSE, triaged |-> FALSE, ids |-> {}, before |-> 0]

AlertIds == 1..(MaxLogs * Len(RuleSeq))
TypeOK ==
    /\ logs \in Seq(Feed) /\ Len(logs) <= MaxLogs
    /\ gone \subseteq DOMAIN logs
    /\ alerts \in Seq([rule : Rules, key : {ev.key : ev \in Feed}, ts : Nat,
                       status : AlertStates, log : 0..MaxLogs])
    /\ removed \subseteq DOMAIN alerts
    /\ trail \in Seq(Seq([was : AlertStates, now : AlertStates]))
    /\ DOMAIN trail = DOMAIN alerts
    /\ decided \subseteq DOMAIN alerts \ removed
    /\ ordered \subseteq decided
    /\ pc \in [Workers -> PCs]
    /\ mine \in [Workers -> 0..Len(logs)]
    /\ todo \in [Workers -> Seq(Rules)]
    /\ fired \in [Workers -> Seq(DOMAIN alerts)]
    /\ session \in [Workers -> {"ok", "broken"}]
    /\ reading \in [Analysts -> [a : 0..Len(alerts), was : AlertStates,
                                 want : AlertStates]]
    /\ purge \in [on : BOOLEAN, triaged : BOOLEAN, ids : SUBSET DOMAIN alerts,
                  before : Nat]
    /\ triaged \in 0..MaxTriage /\ admin \in 0..MaxAdmin /\ faults \in 0..MaxFaults
    /\ answers \in [LogIds -> {"open", "accepted", "error"}]
    /\ caught \subseteq LogIds \X Rules
    /\ refused \subseteq DOMAIN alerts

Init ==
    /\ logs = << >> /\ gone = {}
    /\ alerts = << >> /\ removed = {} /\ trail = << >>
    /\ decided = {} /\ ordered = {}
    /\ pc = [w \in Workers |-> "idle"]
    /\ mine = [w \in Workers |-> 0]
    /\ todo = [w \in Workers |-> << >>]
    /\ fired = [w \in Workers |-> << >>]
    /\ session = [w \in Workers |-> "ok"]
    /\ reading = [u \in Analysts |-> Nothing]
    /\ purge = NoPurge
    /\ triaged = 0 /\ admin = 0 /\ faults = 0
    /\ answers = [l \in LogIds |-> "open"]
    /\ caught = {} /\ refused = {}

-----------------------------------------------------------------------------
(***************************************************************************)
(* Ingestion and detection.                                                *)
(***************************************************************************)
\* Slip: the window has lost its lower end.
InWindowEver(r, ev, other) ==
    other.kind = Counted[r] /\ other.key = ev.key /\ other.ts <= ev.ts
\* Slip: the window is open at its lower end.
InWindowOpen(r, ev, other) ==
    /\ other.kind = Counted[r] /\ other.key = ev.key
    /\ other.ts > ev.ts - Window[r] /\ other.ts <= ev.ts
\* The stored events a rule counts for event ev: same key, in the window
\* that ends at ev and is closed at both ends.
InWindow(r, ev, other) ==
    /\ other.kind = Counted[r] /\ other.key = ev.key
    /\ other.ts >= ev.ts - Window[r] /\ other.ts <= ev.ts

Reaches(r, S) ==
    \/ Counted[r] = "none"
    \/ LET N == IF r \in Distinct THEN {logs[l].val : l \in S} ELSE S
       IN  Cardinality(N) >= Threshold[r]
Fires(r, l) ==
    /\ logs[l].kind = Trigger[r]
    /\ Reaches(r, {k \in DOMAIN logs \ gone : InWindow(r, logs[l], logs[k])})

Ingesting(w) == UNCHANGED <<reading, purge, triaged, admin, refused>>

\* ingest_log: the event is stored and the enabled rules are read.
Ingest(w, ev) ==
    /\ pc[w] = "idle"
    /\ Len(logs) < MaxLogs
    /\ logs' = Append(logs, ev)
    /\ mine' = [mine EXCEPT ![w] = Len(logs) + 1]
    /\ todo' = [todo EXCEPT ![w] = RuleSeq]
    /\ pc' = [pc EXCEPT ![w] = "rule"]
    /\ Ingesting(w)
    /\ UNCHANGED <<gone, alerts, removed, trail, decided, ordered, fired, session,
                   faults, answers, caught>>

Answer(w, how) ==
    /\ answers' = [answers EXCEPT ![mine[w]] = how]
    /\ pc' = [pc EXCEPT ![w] = "idle"]
    /\ mine' = [mine EXCEPT ![w] = 0]
    /\ todo' = [todo EXCEPT ![w] = << >>]
    /\ fired' = [fired EXCEPT ![w] = << >>]
    /\ session' = [session EXCEPT ![w] = "ok"]

\* An object read before a commit is read again after it: once an alert has
\* been created the thread needs its own log row to be there still.
LogLost(w) == mine[w] \in gone

\* The next rule's own SELECT.
Evaluate(w) ==
    /\ pc[w] = "rule" /\ todo[w] # << >>
    /\ \/ /\ LogLost(w) /\ fired[w] # << >>
          /\ Answer(w, "error")
       \/ /\ ~(LogLost(w) /\ fired[w] # << >>)
          /\ IF Fires(Head(todo[w]), mine[w])
             THEN pc' = [pc EXCEPT ![w] = "check"] /\ UNCHANGED todo
             ELSE todo' = [todo EXCEPT ![w] = Tail(@)] /\ UNCHANGED pc
          /\ UNCHANGED <<mine, fired, session, answers>>
    /\ Ingesting(w)
    /\ UNCHANGED <<tables, faults, caught>>

\* Slip: only recent alerts count, not those still open.
HasRecentAlert(r, ev) ==
    \E a \in DOMAIN alerts \ removed :
        /\ alerts[a].rule = r /\ alerts[a].key = ev.key
        /\ alerts[a].ts >= ev.ts - Window[r]
\* has_active_alert: the deduplication SELECT.
HasActiveAlert(r, ev) ==
    \E a \in DOMAIN alerts \ removed :
        /\ alerts[a].rule = r /\ alerts[a].key = ev.key
        /\ alerts[a].status \in OpenStates \/ alerts[a].ts >= ev.ts - Window[r]

Check(w) ==
    /\ pc[w] = "check"
    /\ LET r == Head(todo[w]) IN
       IF HasActiveAlert(r, logs[mine[w]])
       THEN /\ todo' = [todo EXCEPT ![w] = Tail(@)]
            /\ pc' = [pc EXCEPT ![w] = "rule"]
            /\ caught' = caught \cup {<<mine[w], r>>}
       ELSE pc' = [pc EXCEPT ![w] = "create"] /\ UNCHANGED <<todo, caught>>
    /\ Ingesting(w)
    /\ UNCHANGED <<tables, mine, fired, session, faults, answers>>

\* Slip: the loop over the rules goes on after an alert it could not store.
PassOver(w) ==
    /\ todo' = [todo EXCEPT ![w] = Tail(@)]
    /\ pc' = [pc EXCEPT ![w] = "rule"]
    /\ UNCHANGED <<mine, fired, session, answers>>
\* An alert that cannot be stored ends the whole request: nobody catches it.
GiveUp(w) == Answer(w, "error")

\* create_alert, in its own commit.  The alert refers to its log, so a log
\* deleted in the meantime makes it fail.
AlertFor(w, r) ==
    [rule |-> r, key |-> logs[mine[w]].key, ts |-> logs[mine[w]].ts,
     status |-> "new", log |-> mine[w]]
Create(w) ==
    /\ pc[w] = "create" /\ ~LogLost(w)
    /\ alerts' = Append(alerts, AlertFor(w, Head(todo[w])))
    /\ trail' = Append(trail, << >>)
    /\ fired' = [fired EXCEPT ![w] = Append(@, Len(alerts) + 1)]
    /\ caught' = caught \cup {<<mine[w], Head(todo[w])>>}
    /\ todo' = [todo EXCEPT ![w] = Tail(@)]
    /\ pc' = [pc EXCEPT ![w] = "rule"]
    /\ Ingesting(w)
    /\ UNCHANGED <<logs, gone, removed, decided, ordered, mine, session, faults,
                   answers>>
CreateFails(w) ==
    /\ pc[w] = "create" /\ LogLost(w)
    /\ GiveUp(w)
    /\ Ingesting(w)
    /\ UNCHANGED <<tables, faults, caught>>

\* All rules are done: without an alert the request is answered.
Evaluated(w) ==
    /\ pc[w] = "rule" /\ todo[w] = << >>
    /\ IF fired[w] = << >>
       THEN Answer(w, "accepted")
       ELSE pc' = [pc EXCEPT ![w] = "respond"] /\ UNCHANGED <<mine, todo, fired, session, answers>>
    /\ Ingesting(w)
    /\ UNCHANGED <<tables, faults, caught>>

-----------------------------------------------------------------------------
(***************************************************************************)
(* The response layer, alert by alert.                                     *)
(***************************************************************************)
\* process_normalized_event's db.get: a broken session raises, an alert that
\* is no longer there is passed over.
Respond(w) ==
    /\ pc[w] = "respond" /\ fired[w] # << >>
    /\ IF session[w] = "broken"
       THEN Answer(w, "error")
       ELSE /\ IF Head(fired[w]) \in removed
               THEN fired' = [fired EXCEPT ![w] = Tail(@)] /\ UNCHANGED pc
               ELSE pc' = [pc EXCEPT ![w] = "decide"] /\ UNCHANGED fired
            /\ UNCHANGED <<mine, todo, session, answers>>
    /\ Ingesting(w)
    /\ UNCHANGED <<tables, faults, caught>>

\* Slip: the loop over the new alerts ends with the first.
FirstAlertOnly(w, s) ==
    /\ fired' = [fired EXCEPT ![w] = << >>]
    /\ pc' = [pc EXCEPT ![w] = "respond"]
    /\ session' = [session EXCEPT ![w] = s]
NextAlert(w, s) ==
    /\ fired' = [fired EXCEPT ![w] = Tail(@)]
    /\ pc' = [pc EXCEPT ![w] = "respond"]
    /\ session' = [session EXCEPT ![w] = s]

\* A flush that fails leaves the session unusable until a rollback, which
\* the handlers that swallow the exception do not do.
FlushFailed(w) == NextAlert(w, "broken")

\* respond_to_alert's commit.  The rows refer to the alert, so it fails when
\* the alert has been deleted since db.get.
Decide(w) ==
    /\ pc[w] = "decide"
    /\ LET a == Head(fired[w]) IN
       IF a \in removed
       THEN FlushFailed(w) /\ UNCHANGED decided
       ELSE /\ decided' = decided \cup {a}
            /\ IF SoarExecute /\ alerts[a].rule \in Severe
               THEN pc' = [pc EXCEPT ![w] = "dispatch"] /\ UNCHANGED <<fired, session>>
               ELSE NextAlert(w, "ok")
    /\ Ingesting(w)
    /\ UNCHANGED <<logs, gone, alerts, removed, trail, ordered, mine, todo, faults,
                   answers, caught>>

\* execute_action: an order, or none when a guard rail says no; an action
\* that is no longer there raises before anything is written.
Dispatch(w) ==
    /\ pc[w] = "dispatch"
    /\ ordered' \in {ordered, ordered \cup ({Head(fired[w])} \ removed)}
    /\ NextAlert(w, "ok")
    /\ Ingesting(w)
    /\ UNCHANGED <<logs, gone, alerts, removed, trail, decided, mine, todo, faults,
                   answers, caught>>

\* The answer reads log.id again: a broken session or a deleted log raises.
Responded(w) ==
    /\ pc[w] = "respond" /\ fired[w] = << >>
    /\ Answer(w, IF session[w] = "broken" \/ LogLost(w) THEN "error" ELSE "accepted")
    /\ Ingesting(w)
    /\ UNCHANGED <<tables, faults, caught>>

\* A commit that times out on the database's write lock.
CommitFails(w) ==
    /\ faults < MaxFaults /\ faults' = faults + 1
    /\ \/ pc[w] = "create" /\ GiveUp(w)
       \/ pc[w] \in {"decide", "dispatch"} /\ FlushFailed(w)
                                           /\ UNCHANGED <<mine, todo, answers>>
    /\ Ingesting(w)
    /\ UNCHANGED <<tables, caught>>

\* The process ends; requests in progress are never answered.
Crash ==
    /\ faults < MaxFaults /\ faults' = faults + 1
    /\ pc' = [w \in Workers |-> "idle"]
    /\ mine' = [w \in Workers |-> 0]
    /\ todo' = [w \in Workers |-> << >>]
    /\ fired' = [w \in Workers |-> << >>]
    /\ session' = [w \in Workers |-> "ok"]
    /\ reading' = [u \in Analysts |-> Nothing]
    /\ purge' = NoPurge
    /\ UNCHANGED <<tables, triaged, admin, history>>

-----------------------------------------------------------------------------
(***************************************************************************)
(* Triage.                                                                 *)
(***************************************************************************)
\* update_alert_status reads the row; a request for the status it has ends
\* there.
OpenAlert(u) ==
    /\ reading[u] = Nothing
    /\ triaged < MaxTriage /\ triaged' = triaged + 1
    /\ \E a \in DOMAIN alerts \ removed, v \in Verdicts :
         /\ v # alerts[a].status
         /\ reading' = [reading EXCEPT ![u] = [a |-> a, was |-> alerts[a].status,
                                               want |-> v]]
    /\ UNCHANGED <<tables, threads, purge, admin, faults, history>>

\* Slip: the entry names the status that was read.
EntryBefore(req) == [was |-> req.was, now |-> req.was]
Entry(req) == [was |-> req.was, now |-> req.want]
\* The status and its history entry in one commit; an alert deleted in the
\* meantime makes it fail.
SaveStatus(u) ==
    /\ reading[u] # Nothing
    /\ LET req == reading[u] IN
       IF req.a \in removed THEN UNCHANGED <<alerts, trail>>
       ELSE /\ alerts' = [alerts EXCEPT ![req.a].status = req.want]
            /\ trail' = [trail EXCEPT ![req.a] = Append(@, Entry(req))]
    /\ reading' = [reading EXCEPT ![u] = Nothing]
    /\ UNCHANGED <<logs, gone, removed, decided, ordered, threads, purge, budgets,
                   history>>

-----------------------------------------------------------------------------
(***************************************************************************)
(* Deletion and retention.                                                 *)
(***************************************************************************)
\* Slip: the response rows stay.
RowsGoneBut(S) == UNCHANGED decided
\* The alerts with their history and response rows.
RowsGone(S) == decided' = decided \ S

\* One transaction.  An order's references to its alert and action are not
\* cleaned up, so the database refuses to delete what they refer to.
DropAlerts(S) ==
    IF S \cap ordered # {}
    THEN /\ refused' = refused \cup S
         /\ UNCHANGED <<removed, trail, decided>>
    ELSE /\ removed' = removed \cup S
         /\ trail' = [a \in DOMAIN trail |-> IF a \in S THEN << >> ELSE trail[a]]
         /\ RowsGone(S)
         /\ UNCHANGED refused

\* Alerts lose the reference to a deleted log and stay.
DropLogs(S) ==
    /\ gone' = gone \cup S
    /\ alerts' = [a \in DOMAIN alerts |->
                    IF alerts[a].log \in S THEN [alerts[a] EXCEPT !.log = 0]
                    ELSE alerts[a]]

\* delete_alert and bulk_delete_alerts.
DeleteAlerts ==
    /\ admin < MaxAdmin /\ admin' = admin + 1
    /\ \E S \in SUBSET (DOMAIN alerts \ removed) : S # {} /\ DropAlerts(S)
    /\ UNCHANGED <<logs, gone, alerts, ordered, threads, reading, purge, triaged,
                   faults, answers, caught>>

\* delete_log and bulk_delete_logs.
DeleteLogs ==
    /\ admin < MaxAdmin /\ admin' = admin + 1
    /\ \E S \in SUBSET (DOMAIN logs \ gone) : S # {} /\ DropLogs(S)
    /\ UNCHANGED <<logs, removed, trail, decided, ordered, threads, reading, purge,
                   triaged, faults, history>>

\* purge: first the ids of the alerts that qualify ...
Eligible(cutoff, onlyTriaged, keepSevere) ==
    {a \in DOMAIN alerts \ removed :
        /\ alerts[a].ts < cutoff
        /\ onlyTriaged => alerts[a].status \notin OpenStates
        /\ keepSevere => alerts[a].rule \notin Severe}
SelectPurge ==
    /\ ~purge.on
    /\ admin < MaxAdmin /\ admin' = admin + 1
    /\ \E c \in Cutoffs, d \in Cutoffs \cup {0}, only, keep \in BOOLEAN :
         purge' = [on |-> TRUE, triaged |-> only, ids |-> Eligible(c, only, keep),
                   before |-> d]
    /\ UNCHANGED <<tables, threads, reading, triaged, faults, history>>

\* ... then everything that belongs to them, and the old logs, in one
\* transaction.
OldLogs(before) == {l \in DOMAIN logs \ gone : logs[l].ts < before}
CommitPurge ==
    /\ purge.on
    /\ DropAlerts(purge.ids \ removed)
    /\ IF purge.ids \cap ordered # {} THEN UNCHANGED <<gone, alerts>>
       ELSE DropLogs(OldLogs(purge.before))
    /\ purge' = NoPurge
    /\ UNCHANGED <<logs, ordered, threads, reading, budgets, answers, caught>>

-----------------------------------------------------------------------------
Step(w) ==
    \/ Evaluate(w) \/ Check(w) \/ Create(w) \/ CreateFails(w) \/ Evaluated(w)
    \/ Respond(w) \/ Decide(w) \/ Dispatch(w) \/ Responded(w)

\* No request is in progress and none need come; anything else that can go
\* no further is a thread that is stuck.
Quiet ==
    /\ \A w \in Workers : pc[w] = "idle"
    /\ \A u \in Analysts : reading[u] = Nothing
    /\ ~purge.on
    /\ UNCHANGED vars

Next ==
    \/ \E w \in Workers, ev \in Feed : Ingest(w, ev)
    \/ \E w \in Workers : Step(w) \/ CommitFails(w)
    \/ \E u \in Analysts : OpenAlert(u) \/ SaveStatus(u)
    \/ DeleteAlerts \/ DeleteLogs \/ SelectPurge \/ CommitPurge
    \/ Crash
    \/ Quiet

Spec == Init /\ [][Next]_vars
\* A server thread that has begun a request goes on with it.
FairSpec == Spec /\ \A w \in Workers : WF_vars(Step(w))

-----------------------------------------------------------------------------
(***************************************************************************)
(* Properties.                                                             *)
(***************************************************************************)
Counts(r, l, S) ==
    LET Hit(k) == /\ logs[k].kind = Counted[r] /\ logs[k].key = logs[l].key
                  /\ logs[k].ts \in (logs[l].ts - Window[r])..logs[l].ts
        Hits == {k \in S : Hit(k)}
    IN  Cardinality(IF r \in Distinct THEN {logs[k].val : k \in Hits} ELSE Hits)

\* An event that was accepted and that completes a rule's condition, counting
\* the events stored no later than it and not deleted since, was found covered
\* by an alert, its own or one that was open or recent at the time: whatever
\* is deleted or purged meanwhile, whichever commit fails and after a crash
\* ("detection is correct even immediately after a backend restart",
\* brute_force.py).
NothingMissed ==
    \A l \in DOMAIN logs : answers[l] = "accepted" =>
        \A r \in Rules :
            /\ Counted[r] # "none" /\ logs[l].kind = Trigger[r]
            /\ Counts(r, l, (1..l) \ gone) >= Threshold[r]
            => <<l, r>> \in caught

\* An alert exists only when the rule's threshold was reached in its window.
ThresholdRespected ==
    \A a \in DOMAIN alerts : alerts[a].log # 0 =>
        LET r == alerts[a].rule IN
        IF Counted[r] = "none"
        THEN Cardinality({k \in DOMAIN logs :
                /\ logs[k].kind = Trigger[r] /\ logs[k].key = alerts[a].key
                /\ logs[k].ts \in (alerts[a].ts - Window[r])..alerts[a].ts})
             >= Threshold[r]
        ELSE Counts(r, alerts[a].log, DOMAIN logs) >= Threshold[r]

\* "don't pile on duplicate alerts while an analyst hasn't triaged the first
\* one yet" (has_active_alert): one open alert per rule and key.  An alert
\* that was closed and is reopened is not counted: the analyst asked for it.
OpenAlerts(r, k) ==
    {a \in DOMAIN alerts \ removed :
        /\ alerts[a].rule = r /\ alerts[a].key = k
        /\ alerts[a].status \in OpenStates
        /\ \A i \in DOMAIN trail[a] : trail[a][i].now \in OpenStates}
Keys == {ev.key : ev \in Feed}
OneOpen == \A r \in Rules, k \in Keys : Cardinality(OpenAlerts(r, k)) <= 1

\* What threads that check before any of them has created can do at worst:
\* one open alert each, never a storm.
OpenBounded ==
    \A r \in Rules, k \in Keys : Cardinality(OpenAlerts(r, k)) <= Cardinality(Workers)

\* The last entry of an alert's history is its status, whoever saved last.
TrailEndsAtStatus ==
    \A a \in DOMAIN alerts \ removed :
        IF trail[a] = << >> THEN alerts[a].status = "new"
                            ELSE Last(trail[a]).now = alerts[a].status

\* "The change is recorded in alert_status_history (who, when, from what, to
\* what)": each entry starts from what the one before it set.
TrailChains ==
    \A a \in DOMAIN alerts \ removed : \A i \in DOMAIN trail[a] :
        trail[a][i].was = IF i = 1 THEN "new" ELSE trail[a][i - 1].now

\* "a response-layer failure must not turn a successfully detected attack
\* into an HTTP 500 that makes the log shipper retry" (ingestion/service.py).
IngestAccepted == \A l \in DOMAIN logs : answers[l] # "error"

\* "Permanently remove one alert": a deletion removes what it names.
DeletionsSucceed == refused = {}

\* "Untriaged alerts are unfinished analyst work.  Never delete."
\* (retention.py): a purge of triaged alerts removes triaged alerts only.
UnfinishedKept ==
    [][purge.triaged /\ ~purge'.on =>
          \A a \in removed' \ removed : alerts[a].status \notin OpenStates]_vars

\* Where no commit fails and nothing is deleted, every alert is decided on in
\* the end.
EveryAlertDecided ==
    \A a \in AlertIds :
        a \in DOMAIN alerts ~> a \in decided \cup removed
=============================================================================
