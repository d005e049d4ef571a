----------------------------- MODULE Containment -----------------------------
(***************************************************************************)
(* Containment end to end: a SOAR decision is turned into an order, the    *)
(* order is queued in the database, the kill-switch agent of an endpoint   *)
(* polls for it, applies it to the host, reports the result and later      *)
(* undoes its own blocks when their timer runs out.                        *)
(*                                                                         *)
(*   backend/app/soar/engine.py            respond_to_alert                *)
(*   backend/app/soar/executor.py          guard rails, queue, collect,    *)
(*                                         record_result, revoke           *)
(*   backend/app/api/routes/response.py    registry and agent endpoints    *)
(*   agent/kill_switch_agent_v2.py         the agent's single-thread loop  *)
(*                                                                         *)
(* Every database commit of the server is a step of its own, so handlers   *)
(* interleave where the code lets them: between the commit that queues an  *)
(* order and the commit that marks its action pending, between a poll's    *)
(* SELECT and its commit, and between a poll the agent gave up on and the  *)
(* next one.                                                               *)
(***************************************************************************)
EXTENDS Integers, Sequences, FiniteSets

CONSTANTS
    Hosts,        \* the host names events carry
    Endpoints,    \* those that may run an agent (endpoint_agents rows)
    Addresses,    \* source addresses that can be blocked
    Accounts,     \* user accounts that can be disabled
    Actions,      \* the SOAR decisions (soar_actions rows) of the run
    ActTarget,    \* the address or account each decision acts on
    ActHost,      \* the host of the event behind it, or NoHost
    NoHost,
    NoAction,     \* the soar_action_id of an order that has none
    Advisory,     \* decisions whose type has no agent verb
    Refused,      \* targets _refuse_reason turns down
    SoarExecute,  \* the SOAR_EXECUTE setting
    Platform,     \* the operating system of each endpoint
    BatchMax,     \* orders per poll (50 in the code)
    MaxOrders,    \* bound: orders ever queued
    MaxStray,     \* bound: poll handlers still running for nobody
    MaxFaults,    \* bound: faults of the kinds in Faults
    MaxAdmin,     \* bound: changes to the endpoint registry
    Faults        \* the kinds of fault the run may meet

Targets  == Addresses \cup Accounts
OrderIds == 1..MaxOrders
FaultKinds == {"lost", "slow", "db", "exec", "restart", "siem"}

ASSUME KindsAssumption ==
    /\ Addresses \cap Accounts = {}
    /\ NoAction \notin Actions
    /\ Endpoints \subseteq Hosts
    /\ NoHost \notin Hosts
ASSUME DecisionAssumption ==
    /\ ActTarget \in [Actions -> Targets]
    /\ ActHost \in [Actions -> Hosts \cup {NoHost}]
    /\ Advisory \subseteq Actions
    /\ Refused \subseteq Targets
    /\ SoarExecute \in BOOLEAN
ASSUME HostAssumption ==
    Platform \in [Endpoints -> {"linux", "windows", "darwin"}]
ASSUME BoundAssumption ==
    /\ BatchMax \in Nat \ {0}
    /\ MaxOrders \in Nat /\ MaxStray \in Nat
    /\ MaxFaults \in Nat /\ MaxAdmin \in Nat
    /\ Faults \subseteq FaultKinds

VARIABLES
    reg,          \* registry row of each endpoint: "on", "off" or "gone"
    siemKey,      \* the shared secret of that row
    agentKey,     \* the shared secret in the agent's configuration
    act,          \* soar_actions.status, "none" before the row exists
    orders,       \* soar_orders, in created_at order
    aged,         \* orders 1..aged are past their expires_at
    dispatching,  \* rows respond_to_alert committed and has yet to execute
    marking,      \* orders queued by execute_action, its _mark still to come
    up,           \* the SIEM process is running
    stage,        \* where each agent's loop is, its open poll included
    hand,         \* orders the open poll holds: snapshot, response, batch
    retire,       \* orders the open poll found past their expires_at
    stray,        \* poll handlers whose agent has given up on them
    cur,          \* the order each agent has just run and its outcome
    results,      \* POSTed results the SIEM has not processed yet
    timers,       \* scheduled_unblocks, "due" once the time is past
    rules,        \* firewall rules per address, 1 for a disabled account
    faults,       \* faults so far
    admin,        \* registry changes so far
    ran,          \* history: times each order was run on a host
    worked        \* history: orders whose executor reported success

registry == <<reg, siemKey, agentKey>>
database == <<act, orders, aged>>
threads  == <<dispatching, marking>>
loop     == <<stage, hand, retire>>
host     == <<cur, timers, rules>>
network  == <<stray, results>>
budgets  == <<up, faults, admin>>
history  == <<ran, worked>>
vars == <<registry, database, threads, loop, host, network, budgets, history>>

Verbs       == {"block_ip", "unblock_ip", "disable_user", "enable_user"}
OrderStates == {"queued", "delivered", "succeeded", "failed", "expired"}
Final       == {"succeeded", "failed", "expired"}
Stages      == {"sleep", "asked", "reading", "answered", "refused",
                "applying", "report", "expiring"}

Order == [ep : Endpoints, verb : Verbs, target : Targets,
          act : Actions \cup {NoAction}, status : OrderStates]
Stray == [ep : Endpoints, phase : {"asked", "reading"},
          hand : SUBSET OrderIds, retire : SUBSET OrderIds]
Result == [o : 0..MaxOrders, ok : BOOLEAN, key : Nat]

TypeOK ==
    /\ reg \in [Endpoints -> {"on", "off", "gone"}]
    /\ siemKey \in [Endpoints -> Nat]
    /\ agentKey \in [Endpoints -> Nat]
    /\ act \in [Actions -> {"none", "simulated", "pending", "executed", "failed"}]
    /\ orders \in Seq(Order)
    /\ Len(orders) <= MaxOrders
    /\ aged \in 0..Len(orders)
    /\ dispatching \in SUBSET Actions
    /\ marking \in SUBSET DOMAIN orders
    /\ up \in BOOLEAN
    /\ stage \in [Endpoints -> Stages]
    /\ hand \in [Endpoints -> SUBSET DOMAIN orders]
    /\ retire \in [Endpoints -> SUBSET OrderIds]
    /\ stray \in SUBSET Stray
    /\ cur \in [Endpoints -> [o : 0..MaxOrders, ok : BOOLEAN]]
    /\ results \in SUBSET Result
    /\ timers \in [Endpoints -> [Targets -> {"none", "armed", "due"}]]
    /\ rules \in [Endpoints -> [Targets -> Nat]]
    /\ faults \in 0..MaxFaults
    /\ admin \in 0..MaxAdmin
    /\ ran \in [OrderIds -> Nat]
    /\ worked \in SUBSET OrderIds

Idle == [o |-> 0, ok |-> FALSE]

Init ==
    /\ reg = [e \in Endpoints |-> "on"]
    /\ siemKey = [e \in Endpoints |-> 0]
    /\ agentKey = [e \in Endpoints |-> 0]
    /\ act = [a \in Actions |-> "none"]
    /\ orders = << >>
    /\ aged = 0
    /\ dispatching = {}
    /\ marking = {}
    /\ up = TRUE
    /\ stage = [e \in Endpoints |-> "sleep"]
    /\ hand = [e \in Endpoints |-> {}]
    /\ retire = [e \in Endpoints |-> {}]
    /\ stray = {}
    /\ cur = [e \in Endpoints |-> Idle]
    /\ results = {}
    /\ timers = [e \in Endpoints |-> [t \in Targets |-> "none"]]
    /\ rules = [e \in Endpoints |-> [t \in Targets |-> 0]]
    /\ faults = 0
    /\ admin = 0
    /\ ran = [o \in OrderIds |-> 0]
    /\ worked = {}

Fault(kind) ==
    /\ kind \in Faults
    /\ faults < MaxFaults
    /\ faults' = faults + 1

-----------------------------------------------------------------------------
(***************************************************************************)
(* Deciding and issuing.                                                   *)
(***************************************************************************)
Contain(t) == IF t \in Addresses THEN "block_ip" ELSE "disable_user"
InverseAction(verb) == IF verb = "block_ip" THEN "unblock_ip" ELSE "enable_user"

\* _agent_for: the event's own host when it is enrolled and enabled, else
\* the only enabled endpoint when there is exactly one, else nobody.
Enabled == {e \in Endpoints : reg[e] = "on"}
AgentFor(a) ==
    IF ActHost[a] \in Enabled THEN {ActHost[a]}
                              ELSE {e \in Endpoints : Enabled = {e}}

\* respond_to_alert commits the row; with SOAR_EXECUTE it goes on to
\* execute it, in a later step of the same ingestion thread.
Respond(a) ==
    /\ up /\ act[a] = "none"
    /\ act' = [act EXCEPT ![a] = IF SoarExecute THEN "pending" ELSE "simulated"]
    /\ dispatching' = IF SoarExecute THEN dispatching \cup {a} ELSE dispatching
    /\ UNCHANGED <<registry, orders, aged, marking, loop, host, network, budgets,
                   history>>

\* queue_order: one commit.
Queue(e, verb, t, a) ==
    /\ Len(orders) < MaxOrders
    /\ orders' = Append(orders, [ep |-> e, verb |-> verb, target |-> t,
                                 act |-> a, status |-> "queued"])

\* execute_action up to its first commit: no agent verb, a refusal or no
\* agent, the order itself, or an order that could not be stored.
NoVerb(a) ==
    /\ a \in Advisory
    /\ UNCHANGED <<act, orders, marking, faults>>
NotExecuted(a) ==
    /\ a \notin Advisory
    /\ ActTarget[a] \in Refused \/ AgentFor(a) = {}
    /\ act' = [act EXCEPT ![a] = "simulated"]
    /\ UNCHANGED <<orders, marking, faults>>
OrderQueued(a) ==
    /\ a \notin Advisory
    /\ ActTarget[a] \notin Refused
    /\ \E e \in AgentFor(a) : Queue(e, Contain(ActTarget[a]), ActTarget[a], a)
    /\ marking' = marking \cup {Len(orders) + 1}
    /\ UNCHANGED <<act, faults>>
QueueFails(a) ==
    /\ a \notin Advisory
    /\ ActTarget[a] \notin Refused /\ AgentFor(a) # {}
    /\ Fault("db")
    /\ UNCHANGED <<act, orders, marking>>
ExecuteAction(a) ==
    NoVerb(a) \/ NotExecuted(a) \/ OrderQueued(a) \/ QueueFails(a)

Dispatch(a) ==
    /\ up /\ a \in dispatching
    /\ dispatching' = dispatching \ {a}
    /\ ExecuteAction(a)
    /\ UNCHANGED <<registry, aged, loop, host, network, up, admin, history>>

\* POST /api/soar/actions/{id}/execute, for a row in any status.
ExecuteNow(a) ==
    /\ up /\ act[a] # "none" /\ a \notin dispatching
    /\ ExecuteAction(a)
    /\ UNCHANGED <<registry, aged, dispatching, loop, host, network, up, admin,
                   history>>

\* The second commit of execute_action: _mark(PENDING), which does not look
\* at what the row says by now.
MarkPending(o) ==
    /\ up /\ o \in marking
    /\ act' = [act EXCEPT ![orders[o].act] = "pending"]
    /\ marking' = marking \ {o}
    /\ UNCHANGED <<registry, orders, aged, dispatching, loop, host, network,
                   budgets, history>>
MarkFails(o) ==
    /\ up /\ o \in marking
    /\ Fault("db")
    /\ marking' = marking \ {o}
    /\ UNCHANGED <<registry, database, dispatching, loop, host, network, up,
                   admin, history>>

\* revoke: the inverse of an order in any status, for any endpoint that
\* still has a registry row, enabled or not. An inverse has no inverse.
Revoke(o) ==
    /\ up
    /\ orders[o].verb \in {"block_ip", "disable_user"}
    /\ reg[orders[o].ep] # "gone"
    /\ Queue(orders[o].ep, InverseAction(orders[o].verb), orders[o].target, NoAction)
    /\ UNCHANGED <<registry, act, aged, threads, loop, host, network, budgets,
                   history>>

OrderAges ==
    /\ aged < Len(orders)
    /\ aged' = aged + 1
    /\ UNCHANGED <<registry, act, orders, threads, loop, host, network, budgets,
                   history>>

-----------------------------------------------------------------------------
(***************************************************************************)
(* The endpoint registry.  An enrolment mints a new secret; the operator   *)
(* copies it to the host and restarts the agent, later or never.           *)
(***************************************************************************)
Change ==
    /\ up
    /\ admin < MaxAdmin
    /\ admin' = admin + 1
    /\ UNCHANGED <<database, threads, host, results, up, faults, history>>

Enrol(e) ==
    /\ Change
    /\ reg[e] = "gone"
    /\ reg' = [reg EXCEPT ![e] = "on"]
    /\ siemKey' = [siemKey EXCEPT ![e] = @ + 1]
    /\ UNCHANGED <<agentKey, loop, stray>>

Update(e) ==
    /\ Change
    /\ reg[e] # "gone"
    /\ \E s \in {"on", "off"} \ {reg[e]} : reg' = [reg EXCEPT ![e] = s]
    /\ UNCHANGED <<siemKey, agentKey, loop, stray>>

\* A poll handler that has read the row updates last_seen_at in its commit:
\* the row is gone, so the commit fails and the handler ends in an error.
Delete(e) ==
    /\ Change
    /\ reg[e] # "gone"
    /\ reg' = [reg EXCEPT ![e] = "gone"]
    /\ stray' = {s \in stray : s.ep # e \/ s.phase # "reading"}
    /\ IF stage[e] = "reading"
       THEN /\ stage' = [stage EXCEPT ![e] = "refused"]
            /\ hand' = [hand EXCEPT ![e] = {}]
            /\ retire' = [retire EXCEPT ![e] = {}]
       ELSE UNCHANGED loop
    /\ UNCHANGED <<siemKey, agentKey>>

-----------------------------------------------------------------------------
(***************************************************************************)
(* The poll: GET /api/soar/agent/orders, one round trip of _fetch_orders.  *)
(***************************************************************************)
Queued(e) == {o \in DOMAIN orders : orders[o].ep = e /\ orders[o].status = "queued"}
Oldest(S, n) == {o \in S : Cardinality({p \in S : p <= o}) <= n}
Expired(o) == o <= aged

\* Slip: an order past its time is retired and delivered all the same.
DeliverableLate(e) == IF reg[e] = "on" THEN Oldest(Queued(e), BatchMax) ELSE {}
\* Slip: nothing retires an order that is past its time.
NeverRetirable(e) == {}
\* What collect_orders reads: the rows it will deliver and those it retires.
Deliverable(e) ==
    IF reg[e] = "on" THEN {o \in Oldest(Queued(e), BatchMax) : ~Expired(o)} ELSE {}
Retirable(e) ==
    IF reg[e] = "on" THEN {o \in Oldest(Queued(e), BatchMax) : Expired(o)} ELSE {}

SetStatus(S, status, ords) ==
    [o \in DOMAIN ords |->
        IF o \in S THEN [ords[o] EXCEPT !.status = status] ELSE ords[o]]
\* Slip: a delivered order keeps its status.
CollectUnmarked(deliver, expire, ords) == SetStatus(expire, "expired", ords)
Collect(deliver, expire, ords) ==
    SetStatus(expire, "expired", SetStatus(deliver, "delivered", ords))

AgentPoll(e) ==
    /\ stage[e] = "sleep"
    /\ stage' = [stage EXCEPT ![e] = IF up THEN "asked" ELSE "refused"]
    /\ UNCHANGED <<registry, database, threads, hand, retire, host, network,
                   budgets, history>>

\* The SELECT.  An unknown or disabled endpoint is answered at once with an
\* empty list.
SiemRead(e) ==
    /\ up /\ stage[e] = "asked"
    /\ hand' = [hand EXCEPT ![e] = Deliverable(e)]
    /\ retire' = [retire EXCEPT ![e] = Retirable(e)]
    /\ stage' = [stage EXCEPT ![e] = IF reg[e] = "on" THEN "reading" ELSE "answered"]
    /\ UNCHANGED <<registry, database, threads, host, network, budgets, history>>

\* The commit and the signed response.  An agent whose secret is not the
\* row's will drop the response: its orders are in nobody's hand.
SiemCommit(e) ==
    /\ up /\ stage[e] = "reading"
    /\ orders' = Collect(hand[e], retire[e], orders)
    /\ hand' = [hand EXCEPT ![e] = IF siemKey[e] = agentKey[e] THEN @ ELSE {}]
    /\ retire' = [retire EXCEPT ![e] = {}]
    /\ stage' = [stage EXCEPT ![e] = "answered"]
    /\ UNCHANGED <<registry, act, aged, threads, host, network, budgets, history>>

\* Slip: the failed commit is swallowed and the orders are sent anyway.
CommitFailsUnseen(e) ==
    /\ up /\ stage[e] = "reading"
    /\ Fault("db")
    /\ stage' = [stage EXCEPT ![e] = "answered"]
    /\ UNCHANGED <<registry, database, threads, hand, retire, host, network, up,
                   admin, history>>

\* The commit fails (a lock held too long) and the agent gets a 500.
CommitFails(e) ==
    /\ up /\ stage[e] = "reading"
    /\ Fault("db")
    /\ stage' = [stage EXCEPT ![e] = "refused"]
    /\ hand' = [hand EXCEPT ![e] = {}]
    /\ retire' = [retire EXCEPT ![e] = {}]
    /\ UNCHANGED <<registry, database, threads, host, network, up, admin, history>>

\* The response arrives; without orders the agent goes on to its timers.
Receive(e) ==
    /\ stage[e] = "answered"
    /\ stage' = [stage EXCEPT ![e] = IF hand[e] = {} THEN "expiring" ELSE "applying"]
    /\ UNCHANGED <<registry, database, threads, hand, retire, host, network,
                   budgets, history>>

\* An error answer, or none: the tick ends without _expire_scheduled.
PollFailed(e) ==
    /\ stage[e] = "refused"
    /\ stage' = [stage EXCEPT ![e] = "sleep"]
    /\ UNCHANGED <<registry, database, threads, hand, retire, host, network,
                   budgets, history>>

\* The request or the response is lost on the way.
PollLost(e) ==
    /\ stage[e] \in {"asked", "answered"}
    /\ Fault("lost")
    /\ stage' = [stage EXCEPT ![e] = "refused"]
    /\ hand' = [hand EXCEPT ![e] = {}]
    /\ UNCHANGED <<registry, database, threads, retire, host, network, up, admin,
                   history>>

\* The agent's ten-second timeout passes first.  The handler keeps running
\* in the server's thread pool and answers nobody.
PollTimeout(e) ==
    /\ stage[e] \in {"asked", "reading"}
    /\ Cardinality(stray) < MaxStray
    /\ Fault("slow")
    /\ stray' = stray \cup {[ep |-> e, phase |-> stage[e],
                             hand |-> hand[e], retire |-> retire[e]]}
    /\ stage' = [stage EXCEPT ![e] = "refused"]
    /\ hand' = [hand EXCEPT ![e] = {}]
    /\ retire' = [retire EXCEPT ![e] = {}]
    /\ UNCHANGED <<registry, database, threads, host, results, up, admin, history>>

StrayRead(s) ==
    /\ up /\ s.phase = "asked"
    /\ stray' = (stray \ {s}) \cup
         (IF reg[s.ep] # "on" THEN {}
          ELSE {[ep |-> s.ep, phase |-> "reading",
                 hand |-> Deliverable(s.ep), retire |-> Retirable(s.ep)]})
    /\ UNCHANGED <<registry, database, threads, loop, host, results, budgets,
                   history>>

StrayCommit(s) ==
    /\ up /\ s.phase = "reading"
    /\ orders' = Collect(s.hand, s.retire, orders)
    /\ stray' = stray \ {s}
    /\ UNCHANGED <<registry, act, aged, threads, loop, host, results, budgets,
                   history>>

-----------------------------------------------------------------------------
(***************************************************************************)
(* The agent on its host.  Each executor takes the number of rules (or the *)
(* lock) a target has and returns whether the command succeeded and the    *)
(* number it leaves.                                                       *)
(***************************************************************************)
\* iptables -I and netsh add rule add one more each time; the pf anchor
\* is overwritten.
Block(os, n) == [ok |-> TRUE, n |-> IF os = "darwin" THEN 1 ELSE n + 1]

\* Slip: netsh removes one rule, as iptables does.
UnblockOne(os, n) == [ok |-> n > 0, n |-> IF n > 0 THEN n - 1 ELSE 0]

\* iptables -D removes one rule, netsh every rule of that name, both fail
\* when there is none; flushing the anchor always succeeds.
Unblock(os, n) ==
    [ok |-> os = "darwin" \/ n > 0,
     n  |-> IF os = "linux" /\ n > 0 THEN n - 1 ELSE 0]

\* usermod and net user are idempotent; the macOS table has no such action.
SetAccount(os, n, locked) ==
    [ok |-> os # "darwin", n |-> IF os = "darwin" THEN n ELSE locked]

Execute(os, verb, n) ==
    CASE verb = "block_ip"     -> Block(os, n)
      [] verb = "unblock_ip"   -> Unblock(os, n)
      [] verb = "disable_user" -> SetAccount(os, n, 1)
      [] verb = "enable_user"  -> SetAccount(os, n, 0)

\* _apply_order's bookkeeping of scheduled_unblocks.
Reschedule(verb, ok, timer) ==
    IF ok /\ verb = "block_ip" THEN "armed"
    ELSE IF ok /\ verb = "unblock_ip" THEN "none" ELSE timer

\* Slip: the newest order first.
LastInHand(e, o) == o \in hand[e] /\ \A p \in hand[e] : p <= o
\* Orders are taken in the order of the response.
NextInHand(e, o) == o \in hand[e] /\ \A p \in hand[e] : o <= p

RunOrder(e, o, out) ==
    LET t == orders[o].target IN
    /\ rules' = [rules EXCEPT ![e][t] = out.n]
    /\ timers' = [timers EXCEPT ![e][t] = Reschedule(orders[o].verb, out.ok, @)]
    /\ cur' = [cur EXCEPT ![e] = [o |-> o, ok |-> out.ok]]
    /\ hand' = [hand EXCEPT ![e] = @ \ {o}]
    /\ stage' = [stage EXCEPT ![e] = "report"]
    /\ ran' = [ran EXCEPT ![o] = @ + 1]
    /\ worked' = IF out.ok THEN worked \cup {o} ELSE worked
    /\ UNCHANGED <<registry, database, threads, retire, network, up, admin>>

Outcome(e, o) ==
    Execute(Platform[e], orders[o].verb, rules[e][orders[o].target])

ApplyOrder(e) ==
    /\ stage[e] = "applying"
    /\ \E o \in hand[e] : NextInHand(e, o) /\ RunOrder(e, o, Outcome(e, o))
    /\ UNCHANGED faults

\* The command fails, or is killed by _run's timeout when its effect is
\* already there: either way the executor reports failure.
ApplyFails(e) ==
    /\ stage[e] = "applying"
    /\ Fault("exec")
    /\ \E o \in hand[e] :
         /\ NextInHand(e, o)
         /\ \E n \in {rules[e][orders[o].target], Outcome(e, o).n} :
              RunOrder(e, o, [ok |-> FALSE, n |-> n])

\* _post_result, swallowed when the SIEM cannot be reached, never retried.
\* The SIEM processes it when it gets to it, which may be after the agent's
\* own timeout: the agent goes on with its batch in either case.
NextStage(e) == IF hand[e] = {} THEN "expiring" ELSE "applying"
ReportResult(e) ==
    /\ stage[e] = "report"
    /\ stage' = [stage EXCEPT ![e] = NextStage(e)]
    /\ cur' = [cur EXCEPT ![e] = Idle]
    /\ results' = IF up THEN results \cup {[o |-> cur[e].o, ok |-> cur[e].ok,
                                            key |-> agentKey[e]]}
                        ELSE results
    /\ UNCHANGED <<registry, database, threads, hand, retire, timers, rules, stray,
                   budgets, history>>
ReportLost(e) ==
    /\ stage[e] = "report"
    /\ Fault("lost")
    /\ stage' = [stage EXCEPT ![e] = NextStage(e)]
    /\ cur' = [cur EXCEPT ![e] = Idle]
    /\ UNCHANGED <<registry, database, threads, hand, retire, timers, rules, network,
                   up, admin, history>>

\* agent_result: refused unless the endpoint is enabled and the secret is
\* the row's, else record_result, on the order and on its action.
Accepted(r) == reg[orders[r.o].ep] = "on" /\ siemKey[orders[r.o].ep] = r.key
\* Slip: the report's success flag is not looked at.
RecordedAsDone(r, ords) == SetStatus({r.o}, "succeeded", ords)
\* Slip: a failure leaves the order as it was.
RecordedIfDone(r, ords) == IF r.ok THEN SetStatus({r.o}, "succeeded", ords) ELSE ords
Recorded(r, ords) == SetStatus({r.o}, IF r.ok THEN "succeeded" ELSE "failed", ords)
\* Slip: the report's success flag is not looked at.
VerdictDone(r) == "executed"
Verdict(r) == IF r.ok THEN "executed" ELSE "failed"
ReceiveResult(r) ==
    /\ up
    /\ results' = results \ {r}
    /\ IF Accepted(r)
       THEN /\ orders' = Recorded(r, orders)
            /\ act' = IF orders[r.o].act \in Actions
                      THEN [act EXCEPT ![orders[r.o].act] = Verdict(r)]
                      ELSE act
       ELSE UNCHANGED <<act, orders>>
    /\ UNCHANGED <<registry, aged, threads, loop, host, stray, budgets, history>>

\* _expire_scheduled: unblock every address whose time is past and forget
\* its timer, whatever the executor answered.
Due(e) == {t \in Addresses : timers[e][t] = "due"}
LiftDue(e, failing) ==
    /\ rules' = [rules EXCEPT ![e] = [t \in Targets |->
                    IF t \in Due(e) \ failing
                    THEN Unblock(Platform[e], rules[e][t]).n ELSE rules[e][t]]]
    /\ timers' = [timers EXCEPT ![e] = [t \in Targets |->
                    IF t \in Due(e) THEN "none" ELSE timers[e][t]]]
    /\ stage' = [stage EXCEPT ![e] = "sleep"]
    /\ UNCHANGED <<registry, database, threads, hand, retire, cur, network, up,
                   admin, history>>

Expire(e) ==
    /\ stage[e] = "expiring"
    /\ LiftDue(e, {})
    /\ UNCHANGED faults
ExpireFails(e) ==
    /\ stage[e] = "expiring"
    /\ Fault("exec")
    /\ \E S \in SUBSET Due(e) : S # {} /\ LiftDue(e, S)

TimerFires(e, t) ==
    /\ timers[e][t] = "armed"
    /\ timers' = [timers EXCEPT ![e][t] = "due"]
    /\ UNCHANGED <<registry, database, threads, loop, cur, rules, network, budgets,
                   history>>

\* A new agent process has an empty AgentState; the host keeps its rules.
\* A poll that is open at that moment ends as in PollTimeout or PollLost.
Forget(e) ==
    /\ stage' = [stage EXCEPT ![e] = "sleep"]
    /\ hand' = [hand EXCEPT ![e] = {}]
    /\ cur' = [cur EXCEPT ![e] = Idle]
    /\ timers' = [timers EXCEPT ![e] = [t \in Targets |-> "none"]]
    /\ UNCHANGED <<reg, siemKey, database, threads, retire, rules, network, up,
                   history>>
AgentRestart(e) ==
    /\ stage[e] \notin {"asked", "reading"}
    /\ Fault("restart")
    /\ Forget(e)
    /\ UNCHANGED <<agentKey, admin>>
Install(e) ==
    /\ stage[e] \notin {"asked", "reading"}
    /\ agentKey[e] # siemKey[e]
    /\ admin < MaxAdmin
    /\ admin' = admin + 1
    /\ agentKey' = [agentKey EXCEPT ![e] = siemKey[e]]
    /\ Forget(e)
    /\ UNCHANGED faults

\* Every thread of the SIEM ends where it is; what was committed stays.
SiemCrash ==
    /\ up
    /\ Fault("siem")
    /\ up' = FALSE
    /\ dispatching' = {} /\ marking' = {} /\ stray' = {} /\ results' = {}
    /\ LET open == {e \in Endpoints : stage[e] \in {"asked", "reading"}} IN
       /\ stage' = [e \in Endpoints |-> IF e \in open THEN "refused" ELSE stage[e]]
       /\ hand' = [e \in Endpoints |-> IF e \in open THEN {} ELSE hand[e]]
       /\ retire' = [e \in Endpoints |-> IF e \in open THEN {} ELSE retire[e]]
    /\ UNCHANGED <<registry, database, host, admin, history>>
SiemRestart ==
    /\ ~up
    /\ up' = TRUE
    /\ UNCHANGED <<registry, database, threads, loop, host, network, faults, admin,
                   history>>

-----------------------------------------------------------------------------
Operator ==
    \/ \E a \in Actions : ExecuteNow(a)
    \/ \E o \in DOMAIN orders : Revoke(o)
    \/ \E e \in Endpoints : Enrol(e) \/ Update(e) \/ Delete(e) \/ Install(e)

Ingestion ==
    \/ \E a \in Actions : Respond(a) \/ Dispatch(a)
    \/ \E o \in marking : MarkPending(o) \/ MarkFails(o)

AgentLoop(e) ==
    \/ AgentPoll(e) \/ Receive(e) \/ PollFailed(e)
    \/ ApplyOrder(e) \/ ReportResult(e) \/ Expire(e)

SiemPoll(e) == SiemRead(e) \/ SiemCommit(e)

Handlers ==
    \/ \E s \in stray : StrayRead(s) \/ StrayCommit(s)
    \/ \E r \in results : ReceiveResult(r)

Time == OrderAges \/ \E e \in Endpoints, t \in Addresses : TimerFires(e, t)

Failures ==
    \/ \E e \in Endpoints :
         \/ CommitFails(e) \/ PollLost(e) \/ PollTimeout(e) \/ ApplyFails(e)
         \/ ReportLost(e) \/ ExpireFails(e) \/ AgentRestart(e)
    \/ SiemCrash

Next ==
    \/ Operator
    \/ Ingestion
    \/ \E e \in Endpoints : AgentLoop(e) \/ SiemPoll(e)
    \/ Handlers
    \/ Time
    \/ Failures
    \/ SiemRestart

Spec == Init /\ [][Next]_vars

\* The agent's loop never stops, the server's threads run to their end, time
\* passes; nothing makes an operator act or an alert or a fault happen.  Only
\* FairSpec has somebody restart a SIEM that is down.
Fairness ==
    /\ \A e \in Endpoints : WF_vars(AgentLoop(e)) /\ WF_vars(SiemPoll(e))
    /\ \A a \in Actions : WF_vars(Dispatch(a))
    /\ \A o \in OrderIds : WF_vars(MarkPending(o))
    /\ WF_vars(\E r \in results : ReceiveResult(r))
    /\ \A e \in Endpoints, t \in Addresses : WF_vars(TimerFires(e, t))
OutageSpec == Spec /\ Fairness
FairSpec   == Spec /\ Fairness /\ WF_vars(SiemRestart)

-----------------------------------------------------------------------------
(***************************************************************************)
(* Properties.                                                             *)
(***************************************************************************)

\* An order is run at most once on its host, whatever polls overlap and
\* whatever restarts: a second "iptables -I" for one order would be a rule
\* nothing removes (test_an_order_is_delivered_only_once, for one poll).
AtMostOnce == \A o \in OrderIds : ran[o] <= 1

\* The order ledger never shows an outcome the agent did not have: a
\* succeeded order did run and its command succeeded, a failed one ran and
\* its command did not (OrderStatus in endpoint_agent.py).
LedgerTruth ==
    \A o \in DOMAIN orders :
        /\ orders[o].status = "succeeded" => o \in worked
        /\ orders[o].status = "failed" => ran[o] > 0 /\ o \notin worked

\* A decision shown as executed was carried out by one of its own orders
\* (record_result, through soar_action_id).
ExecutedTruth ==
    \A a \in Actions : act[a] = "executed" =>
        \E o \in worked \cap DOMAIN orders : orders[o].act = a

\* The same three made inductive: who may hold an order, and that what the
\* agent is about to report, or has reported, is what happened.
RanOnce ==
    \A o \in OrderIds :
        /\ ran[o] \in {0, 1}
        /\ ran[o] = 1 => o \in DOMAIN orders /\ orders[o].status # "queued"
        /\ o \in worked => ran[o] = 1
HandFresh ==
    \A e \in Endpoints : \A o \in hand[e] :
        /\ orders[o].ep = e /\ ran[o] = 0
        /\ stage[e] \in {"reading", "answered", "applying", "report"}
        /\ stage[e] # "reading" => orders[o].status # "queued"
CurTrue ==
    \A e \in Endpoints : stage[e] = "report" =>
        /\ cur[e].o \in DOMAIN orders /\ ran[cur[e].o] = 1
        /\ cur[e].ok <=> cur[e].o \in worked
ResultsTrue ==
    \A r \in results :
        /\ r.o \in DOMAIN orders /\ ran[r.o] = 1
        /\ r.ok <=> r.o \in worked
TruthInv == RanOnce /\ HandFresh /\ CurTrue /\ ResultsTrue /\ LedgerTruth /\ ExecutedTruth

\* An order retired as expired is never applied, before or after, also when
\* its age changes between a poll's SELECT and its commit
\* ("not collected before this instant is never applied").  It does not hold
\* where polls overlap: a handler its agent has given up on may find an order
\* expired that a poll before it has handed out, and commit last.
NoLateOrder ==
    \A o \in DOMAIN orders : orders[o].status = "expired" => ran[o] = 0

\* A block rule on a host always has a timer that will lift it, so it
\* cannot outlive MAX_BLOCK_MINUTES ("any block rule auto-expires").
BlockCovered ==
    \A e \in Endpoints, t \in Addresses :
        rules[e][t] > 0 => timers[e][t] # "none"

\* When that holds: no Linux host, where blocks of one address pile up, and
\* agents that neither restart nor meet a command that fails.
SteadyHosts ==
    /\ \A e \in Endpoints : Platform[e] # "linux"
    /\ "restart" \notin Faults /\ "exec" \notin Faults
    /\ MaxAdmin = 0
KindsMatch ==
    \A o \in DOMAIN orders :
        orders[o].verb \in {"disable_user", "enable_user"} => orders[o].target \notin Addresses
CoverInv == KindsMatch /\ BlockCovered

\* "A host-scoped action (disable an account) goes to that host's agent"
\* (_agent_for): an account is never disabled on another host than the one
\* the event came from.
HostScoped ==
    \A o \in DOMAIN orders :
        orders[o].verb = "disable_user" /\ orders[o].act \in Actions
            => ActHost[orders[o].act] \in {orders[o].ep, NoHost}

\* record_result writes the outcome on the action "so the console's response
\* history shows reality rather than intent": once the last order of a
\* decision has succeeded the decision reads executed.
HistoryShowsReality ==
    \A o \in DOMAIN orders :
        /\ orders[o].act \in Actions
        /\ orders[o].status = "succeeded"
        /\ \A p \in DOMAIN orders : orders[p].act = orders[o].act => p <= o
        => act[orders[o].act] = "executed"

\* Orders for one endpoint are run in the order they were issued: an undo
\* is never run before the order it undoes, which would leave the
\* containment in force for good.
InOrder ==
    [][\A o, p \in DOMAIN orders :
          o < p /\ orders[o].ep = orders[p].ep /\ ran[p] > 0
              => ran'[o] = ran[o]]_vars

\* Why: whatever is older than an order that has run, or that an agent holds,
\* is out of the queue or will leave it with the same commit.
RunInOrder ==
    \A o, p \in DOMAIN orders :
        o < p /\ orders[o].ep = orders[p].ep /\ ran[p] = 1 =>
            orders[o].status # "queued" /\ o \notin hand[orders[o].ep]
HeldInOrder ==
    \A e \in Endpoints : \A p \in hand[e], o \in DOMAIN orders :
        o < p /\ orders[o].ep = e /\ orders[o].status = "queued" =>
            stage[e] = "reading" /\ o \in hand[e] \cup retire[e]
OrderInv == RunInOrder /\ HeldInOrder

\* An outcome in the ledger is final: nothing rewrites it.
OutcomeIsFinal ==
    [][\A o \in DOMAIN orders :
          orders[o].status \in Final => orders'[o].status = orders[o].status]_vars

\* An order never stays queued for an endpoint that is enabled: the next
\* poll that completes delivers it or retires it.
Waiting(o) ==
    o \in DOMAIN orders /\ orders[o].status = "queued" /\ reg[orders[o].ep] = "on"
QueueDrains == \A o \in OrderIds : []<>~Waiting(o)

\* With no fault and no change of registry every order ends with an outcome
\* in the ledger.
Open(o) == o \in DOMAIN orders /\ orders[o].status \notin Final
OrdersComplete ==
    \A o \in OrderIds : []<>(~Open(o) \/ faults > 0 \/ admin > 0)

\* A block is lifted in the end, by its timer or by an undo.
BlockLifted ==
    \A e \in Endpoints, t \in Addresses : rules[e][t] > 0 ~> rules[e][t] = 0

-----------------------------------------------------------------------------
(***************************************************************************)
(* The promise this chain keeps while no two polls of one endpoint overlap *)
(* (MaxStray = 0).                                                         *)
(***************************************************************************)
PhaseOf(o) ==
    IF o \notin DOMAIN orders THEN "none"
    ELSE IF ran[o] > 0 THEN IF o \in worked THEN "ok" ELSE "error"
    ELSE IF orders[o].status = "queued" THEN "queued"
    ELSE IF o \in hand[orders[o].ep] THEN "taken"
    ELSE "dead"
ToldOf(o) ==
    IF o \in DOMAIN orders /\ orders[o].status \in Final
    THEN orders[o].status ELSE "open"

Promise == INSTANCE ContainmentPromise WITH
    Nobody <- NoHost,
    phase  <- [o \in OrderIds |-> PhaseOf(o)],
    dest   <- [o \in OrderIds |-> IF o \in DOMAIN orders THEN orders[o].ep ELSE NoHost],
    told   <- [o \in OrderIds |-> ToldOf(o)]

\* Every step of the chain is a step of the promise or leaves it alone:
\* taken at most once, in order, never after retirement, told truthfully.
KeepsPromise == Promise!PSpec
=============================================================================
