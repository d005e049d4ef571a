-------------------------- MODULE ContainmentProofs --------------------------
(***************************************************************************)
(* What holds of Containment for every number of endpoints, decisions,     *)
(* orders, overlapping polls and faults.                                   *)
(*                                                                         *)
(*   TypeCorrect      the type invariant; the others rest on it            *)
(*   RunAtMostOnce, LedgerIsTrue, ExecutedIsTrue                           *)
(*                    from TruthInv: an order is held by one agent only    *)
(*                    while it has not been run, and whoever holds it has  *)
(*                    taken it out of the queue or is about to             *)
(*   OrdersRunInOrder from OrderInv: whatever is older than an order that  *)
(*                    is held or has run has left the queue with it        *)
(*   BlocksAreCovered from CoverInv, on SteadyHosts                        *)
(*                                                                         *)
(* While no abandoned poll handler is left behind, also                    *)
(*   ChainKeepsPromise, RetiredNeverRuns, VerdictIsFinal                   *)
(*                    from OnePollInv: what an agent holds is what its     *)
(*                    endpoint's one poll is about to retire or has        *)
(***************************************************************************)
EXTENDS Containment, FiniteSetTheorems, TLAPS

\* The order table keeps its length and every row its endpoint, its verb,
\* its target and its action when statuses are written.
LEMMA SetStatusRows ==
    ASSUME NEW ords \in Seq(Order), NEW S, NEW st \in OrderStates
    PROVE  /\ SetStatus(S, st, ords) \in Seq(Order)
           /\ Len(SetStatus(S, st, ords)) = Len(ords)
           /\ DOMAIN SetStatus(S, st, ords) = DOMAIN ords
           /\ \A o \in DOMAIN ords :
                /\ SetStatus(S, st, ords)[o].status =
                     (IF o \in S THEN st ELSE ords[o].status)
                /\ SetStatus(S, st, ords)[o].ep = ords[o].ep
                /\ SetStatus(S, st, ords)[o].verb = ords[o].verb
                /\ SetStatus(S, st, ords)[o].target = ords[o].target
                /\ SetStatus(S, st, ords)[o].act = ords[o].act
<1> DEFINE new == SetStatus(S, st, ords)
<1>1. Len(ords) \in Nat /\ DOMAIN ords = 1..Len(ords)
  OBVIOUS
<1>2. \A o \in DOMAIN ords : ords[o] \in Order
  OBVIOUS
<1>3. \A o \in DOMAIN ords : new[o] \in Order
  BY <1>2 DEF SetStatus, Order
<1>4. new \in [1..Len(ords) -> Order]
  BY <1>1, <1>3 DEF SetStatus
<1>5. new \in Seq(Order) /\ Len(new) = Len(ords)
  BY <1>1, <1>4
<1> QED
  BY <1>1, <1>2, <1>5 DEF SetStatus, Order

\* A poll gives statuses to queued orders of its endpoint and nothing else.
LEMMA CollectRows ==
    ASSUME NEW ords \in Seq(Order), NEW D, NEW X
    PROVE  /\ Collect(D, X, ords) \in Seq(Order)
           /\ Len(Collect(D, X, ords)) = Len(ords)
           /\ DOMAIN Collect(D, X, ords) = DOMAIN ords
           /\ \A o \in DOMAIN ords :
                /\ Collect(D, X, ords)[o].status =
                     (IF o \in X THEN "expired" ELSE
                      IF o \in D THEN "delivered" ELSE ords[o].status)
                /\ Collect(D, X, ords)[o].ep = ords[o].ep
                /\ Collect(D, X, ords)[o].verb = ords[o].verb
                /\ Collect(D, X, ords)[o].target = ords[o].target
                /\ Collect(D, X, ords)[o].act = ords[o].act
<1> DEFINE mid == SetStatus(D, "delivered", ords)
<1>1. "delivered" \in OrderStates /\ "expired" \in OrderStates
  BY DEF OrderStates
<1>2. /\ mid \in Seq(Order) /\ Len(mid) = Len(ords) /\ DOMAIN mid = DOMAIN ords
      /\ \A o \in DOMAIN ords :
           /\ mid[o].status = (IF o \in D THEN "delivered" ELSE ords[o].status)
           /\ mid[o].ep = ords[o].ep /\ mid[o].verb = ords[o].verb
           /\ mid[o].target = ords[o].target /\ mid[o].act = ords[o].act
  BY <1>1, SetStatusRows
<1> HIDE DEF mid
<1>3. /\ SetStatus(X, "expired", mid) \in Seq(Order)
      /\ Len(SetStatus(X, "expired", mid)) = Len(mid)
      /\ DOMAIN SetStatus(X, "expired", mid) = DOMAIN mid
      /\ \A o \in DOMAIN mid :
           /\ SetStatus(X, "expired", mid)[o].status =
                (IF o \in X THEN "expired" ELSE mid[o].status)
           /\ SetStatus(X, "expired", mid)[o].ep = mid[o].ep
           /\ SetStatus(X, "expired", mid)[o].verb = mid[o].verb
           /\ SetStatus(X, "expired", mid)[o].target = mid[o].target
           /\ SetStatus(X, "expired", mid)[o].act = mid[o].act
  BY <1>1, <1>2, SetStatusRows
<1>4. Collect(D, X, ords) = SetStatus(X, "expired", mid)
  BY DEF Collect, mid
<1> QED
  BY <1>2, <1>3, <1>4

\* queue_order adds one row at the end and leaves the others alone.
LEMMA QueueRows ==
    ASSUME NEW e \in Endpoints, NEW verb \in Verbs, NEW t \in Targets,
           NEW a \in Actions \cup {NoAction}, orders \in Seq(Order),
           Len(orders) <= MaxOrders, Queue(e, verb, t, a)
    PROVE  /\ orders' \in Seq(Order)
           /\ Len(orders') = Len(orders) + 1
           /\ Len(orders') <= MaxOrders
           /\ DOMAIN orders' = DOMAIN orders \cup {Len(orders) + 1}
           /\ \A o \in DOMAIN orders : orders'[o] = orders[o]
           /\ \A o \in DOMAIN orders' \ DOMAIN orders :
                 /\ o = Len(orders) + 1
                 /\ orders'[o] = [ep |-> e, verb |-> verb, target |-> t, act |-> a,
                                  status |-> "queued"]
                 /\ orders'[o].status = "queued"
<1> DEFINE new == [ep |-> e, verb |-> verb, target |-> t, act |-> a,
                   status |-> "queued"]
<1>1. new \in Order
  BY DEF Order, OrderStates
<1>2. orders' = Append(orders, new) /\ Len(orders) < MaxOrders
  BY DEF Queue
<1> HIDE DEF new
<1>3. /\ orders' \in Seq(Order)
      /\ Len(orders') = Len(orders) + 1
      /\ DOMAIN orders' = DOMAIN orders \cup {Len(orders) + 1}
      /\ \A o \in DOMAIN orders : orders'[o] = orders[o]
      /\ orders'[Len(orders) + 1] = new
  BY <1>1, <1>2
<1> QED
  BY <1>2, <1>3, BoundAssumption DEF new

-----------------------------------------------------------------------------
\* Type correctness.

\* The verbs of the SIEM, their inverses and the statuses are what agents know.
LEMMA VerbKinds ==
    /\ \A t \in Targets : Contain(t) \in Verbs
    /\ \A v \in Verbs : InverseAction(v) \in Verbs
    /\ {"queued", "delivered", "succeeded", "failed", "expired"} = OrderStates
BY DEF Contain, InverseAction, Verbs, OrderStates

\* What an executor leaves on the host is a count again.
LEMMA ExecuteType ==
    ASSUME NEW os, NEW verb \in Verbs, NEW n \in Nat
    PROVE  Execute(os, verb, n) \in [ok : BOOLEAN, n : Nat]
BY DEF Execute, Block, Unblock, SetAccount, Verbs

\* Every order, and every order in somebody's hand, is one of OrderIds.
LEMMA KnownOrders ==
    ASSUME TypeOK
    PROVE  /\ DOMAIN orders \subseteq OrderIds
           /\ \A e \in Endpoints : hand[e] \subseteq DOMAIN orders
<1>1. orders \in Seq(Order) /\ Len(orders) <= MaxOrders
  BY DEF TypeOK
<1>2. DOMAIN orders = 1..Len(orders) /\ Len(orders) \in Nat
  BY <1>1
<1>3. DOMAIN orders \subseteq 1..MaxOrders
  BY <1>1, <1>2, BoundAssumption
<1> QED
  BY <1>3 DEF TypeOK, OrderIds

\* What an executor answers is a verdict and a count.
LEMMA OutcomeType ==
    ASSUME TypeOK, NEW e \in Endpoints, NEW o \in hand[e]
    PROVE  /\ Outcome(e, o) \in [ok : BOOLEAN, n : Nat]
           /\ rules[e][orders[o].target] \in Nat
<1>1. orders[o] \in Order
  BY DEF TypeOK
<1>2. orders[o].verb \in Verbs /\ orders[o].target \in Targets
  BY <1>1 DEF Order
<1>3. rules[e][orders[o].target] \in Nat
  BY <1>2 DEF TypeOK
<1> QED
  BY <1>2, <1>3, ExecuteType DEF Outcome

\* Every variable starts with its type.
LEMMA InitType == Init => TypeOK
<1> SUFFICES ASSUME Init PROVE TypeOK
  OBVIOUS
<1>1. << >> \in Seq(Order) /\ Len(<< >>) = 0 /\ DOMAIN << >> = {}
  OBVIOUS
<1> QED
  BY <1>1, BoundAssumption DEF Init, TypeOK, Idle, Stages

\* Every step keeps it.
LEMMA NextType == TypeOK /\ [Next]_vars => TypeOK'
<1> SUFFICES ASSUME TypeOK, [Next]_vars PROVE TypeOK'
  OBVIOUS
<1> USE DEF registry, database, threads, loop, host, network, budgets, history, Change, Stages
<1>1. ASSUME NEW a \in Actions, Respond(a) PROVE TypeOK'
  BY <1>1 DEF TypeOK, Respond
<1>2. ASSUME NEW a \in Actions, ExecuteAction(a), UNCHANGED <<aged, up, admin>>
      PROVE  /\ act' \in [Actions -> {"none", "simulated", "pending", "executed", "failed"}]
             /\ orders' \in Seq(Order) /\ Len(orders') <= MaxOrders
             /\ aged' \in 0..Len(orders')
             /\ marking' \in SUBSET DOMAIN orders'
             /\ faults' \in 0..MaxFaults
             /\ DOMAIN orders \subseteq DOMAIN orders'
  <2>1. CASE NoVerb(a) \/ NotExecuted(a)
    BY <2>1, <1>2 DEF TypeOK, NoVerb, NotExecuted
  <2>2. CASE QueueFails(a)
    BY <2>2, <1>2, BoundAssumption DEF TypeOK, QueueFails, Fault
  <2>3. CASE OrderQueued(a)
    <3>1. PICK e \in AgentFor(a) : Queue(e, Contain(ActTarget[a]), ActTarget[a], a)
      BY <2>3 DEF OrderQueued
    <3>2. e \in Endpoints
      BY DEF AgentFor, Enabled
    <3>3. ActTarget[a] \in Targets /\ Contain(ActTarget[a]) \in Verbs
      BY DecisionAssumption, VerbKinds
    <3>4. orders \in Seq(Order) /\ Len(orders) <= MaxOrders
      BY DEF TypeOK
    <3> HIDE DEF TypeOK
    <3>5. /\ orders' \in Seq(Order) /\ Len(orders') = Len(orders) + 1
          /\ Len(orders') <= MaxOrders
          /\ DOMAIN orders' = DOMAIN orders \cup {Len(orders) + 1}
      BY <3>1, <3>2, <3>3, <3>4, QueueRows
    <3>6. aged \in 0..Len(orders) /\ marking \in SUBSET DOMAIN orders /\ Len(orders) \in Nat
      BY <3>4 DEF TypeOK
    <3>7. marking' = marking \cup {Len(orders) + 1} /\ UNCHANGED <<act, faults>>
      BY <2>3 DEF OrderQueued
    <3>8. aged' \in 0..Len(orders')
      BY <1>2, <3>5, <3>6
    <3> QED
      BY <3>5, <3>6, <3>7, <3>8 DEF TypeOK
  <2> QED
    BY <1>2, <2>1, <2>2, <2>3 DEF ExecuteAction
<1>3. ASSUME NEW a \in Actions, Dispatch(a) PROVE TypeOK'
  <2>1. ExecuteAction(a) /\ UNCHANGED <<aged, up, admin>>
    BY <1>3 DEF Dispatch
  <2> QED
    BY <1>2, <1>3, <2>1 DEF TypeOK, Dispatch
<1>4. ASSUME NEW a \in Actions, ExecuteNow(a) PROVE TypeOK'
  <2>1. ExecuteAction(a) /\ UNCHANGED <<aged, up, admin>>
    BY <1>4 DEF ExecuteNow
  <2> QED
    BY <1>2, <1>4, <2>1 DEF TypeOK, ExecuteNow
<1>5. ASSUME NEW o \in marking, MarkPending(o) PROVE TypeOK'
  BY <1>5 DEF TypeOK, MarkPending
<1>6. ASSUME NEW o \in marking, MarkFails(o) PROVE TypeOK'
  BY <1>6, BoundAssumption DEF TypeOK, MarkFails, Fault
<1>7. ASSUME NEW o \in DOMAIN orders, Revoke(o) PROVE TypeOK'
  <2>1. orders \in Seq(Order) /\ orders[o] \in Order /\ Len(orders) <= MaxOrders
    BY DEF TypeOK
  <2>2. /\ orders[o].ep \in Endpoints /\ orders[o].target \in Targets
        /\ InverseAction(orders[o].verb) \in Verbs /\ NoAction \in Actions \cup {NoAction}
    BY <2>1, VerbKinds DEF Order
  <2>3. Queue(orders[o].ep, InverseAction(orders[o].verb), orders[o].target, NoAction)
    BY <1>7 DEF Revoke
  <2>4. /\ orders' \in Seq(Order) /\ Len(orders') = Len(orders) + 1
        /\ Len(orders') <= MaxOrders
        /\ DOMAIN orders' = DOMAIN orders \cup {Len(orders) + 1}
    BY <2>1, <2>2, <2>3, QueueRows
  <2> QED
    BY <1>7, <2>1, <2>4 DEF TypeOK, Revoke
<1>8. ASSUME OrderAges PROVE TypeOK'
  BY <1>8 DEF TypeOK, OrderAges
<1>8a. ASSUME NEW e \in Endpoints, Enrol(e) PROVE TypeOK'
  BY <1>8a, BoundAssumption DEF TypeOK, Enrol
<1>9. ASSUME NEW e \in Endpoints, Update(e) PROVE TypeOK'
  BY <1>9, BoundAssumption DEF TypeOK, Update
<1>10. ASSUME NEW e \in Endpoints, Delete(e) PROVE TypeOK'
  <2>1. stray' \in SUBSET Stray /\ admin' \in 0..MaxAdmin
    BY <1>10, BoundAssumption DEF TypeOK, Delete
  <2>2. /\ stage' \in [Endpoints -> Stages]
        /\ hand' \in [Endpoints -> SUBSET DOMAIN orders]
        /\ retire' \in [Endpoints -> SUBSET OrderIds]
        /\ reg' \in [Endpoints -> {"on", "off", "gone"}]
    BY <1>10 DEF TypeOK, Delete
  <2> QED
    BY <1>10, <2>1, <2>2 DEF TypeOK, Delete
<1>11. ASSUME NEW e \in Endpoints, AgentPoll(e) \/ Receive(e) \/ PollFailed(e)
       PROVE TypeOK'
  BY <1>11 DEF TypeOK, AgentPoll, Receive, PollFailed
<1>12. \A e \in Endpoints : /\ Deliverable(e) \subseteq DOMAIN orders
                            /\ Deliverable(e) \subseteq OrderIds
                            /\ Retirable(e) \subseteq OrderIds
  BY BoundAssumption DEF TypeOK, Deliverable, Retirable, Oldest, Queued, OrderIds
<1>13. ASSUME NEW e \in Endpoints, SiemRead(e) PROVE TypeOK'
  BY <1>12, <1>13 DEF TypeOK, SiemRead
<1>14. ASSUME NEW e \in Endpoints, SiemCommit(e) PROVE TypeOK'
  <2>1. orders \in Seq(Order) /\ orders' = Collect(hand[e], retire[e], orders)
    BY <1>14 DEF TypeOK, SiemCommit
  <2>2. orders' \in Seq(Order) /\ Len(orders') = Len(orders) /\ DOMAIN orders' = DOMAIN orders
    BY <2>1, CollectRows
  <2> QED
    BY <1>14, <2>2 DEF TypeOK, SiemCommit
<1>14a. ASSUME NEW e \in Endpoints, CommitFails(e) PROVE TypeOK'
  BY <1>14a, BoundAssumption DEF TypeOK, CommitFails, Fault
<1>15. ASSUME NEW e \in Endpoints, PollLost(e) PROVE TypeOK'
  BY <1>15, BoundAssumption DEF TypeOK, PollLost, Fault
<1>16. ASSUME NEW e \in Endpoints, PollTimeout(e) PROVE TypeOK'
  <2>1. /\ stage[e] \in {"asked", "reading"} /\ retire[e] \in SUBSET OrderIds
        /\ hand[e] \in SUBSET OrderIds
    BY <1>16, BoundAssumption DEF TypeOK, PollTimeout, OrderIds
  <2>2. [ep |-> e, phase |-> stage[e], hand |-> hand[e], retire |-> retire[e]] \in Stray
    BY <2>1 DEF Stray
  <2> QED
    BY <1>16, <2>2, BoundAssumption DEF TypeOK, PollTimeout, Fault
<1>17. ASSUME NEW s \in stray, StrayRead(s) PROVE TypeOK'
  BY <1>12, <1>17 DEF TypeOK, StrayRead, Stray
<1>18. ASSUME NEW s \in stray, StrayCommit(s) PROVE TypeOK'
  <2>1. orders \in Seq(Order) /\ orders' = Collect(s.hand, s.retire, orders)
    BY <1>18 DEF TypeOK, StrayCommit
  <2>2. orders' \in Seq(Order) /\ Len(orders') = Len(orders) /\ DOMAIN orders' = DOMAIN orders
    BY <2>1, CollectRows
  <2> QED
    BY <1>18, <2>2 DEF TypeOK, StrayCommit
<1>19. ASSUME NEW e \in Endpoints, NEW o \in hand[e], NEW out \in [ok : BOOLEAN, n : Nat],
              RunOrder(e, o, out), faults' \in 0..MaxFaults
       PROVE  TypeOK'
  <2>1. /\ o \in DOMAIN orders /\ o \in OrderIds /\ o \in 0..MaxOrders
        /\ orders[o].target \in Targets /\ out.ok \in BOOLEAN /\ out.n \in Nat
    <3>1. orders \in Seq(Order) /\ Len(orders) <= MaxOrders /\ o \in DOMAIN orders
      BY DEF TypeOK
    <3>2. orders[o] \in Order /\ o \in 1..MaxOrders
      BY <3>1, BoundAssumption
    <3> QED
      BY <3>1, <3>2, BoundAssumption DEF Order, OrderIds
  <2>2. /\ rules' \in [Endpoints -> [Targets -> Nat]]
        /\ timers' \in [Endpoints -> [Targets -> {"none", "armed", "due"}]]
    BY <1>19, <2>1, SMTT(30) DEF TypeOK, RunOrder, Reschedule
  <2>3. /\ cur' \in [Endpoints -> [o : 0..MaxOrders, ok : BOOLEAN]]
        /\ hand' \in [Endpoints -> SUBSET DOMAIN orders]
        /\ stage' \in [Endpoints -> Stages]
    BY <1>19, <2>1 DEF TypeOK, RunOrder
  <2>4. ran' \in [OrderIds -> Nat] /\ worked' \in SUBSET OrderIds
    BY <1>19, <2>1, SMTT(30) DEF TypeOK, RunOrder
  <2> QED
    BY <1>19, <2>2, <2>3, <2>4 DEF TypeOK, RunOrder
<1>21. ASSUME NEW e \in Endpoints, ApplyOrder(e) PROVE TypeOK'
  <2>1. PICK o \in hand[e] : RunOrder(e, o, Outcome(e, o))
    BY <1>21 DEF ApplyOrder
  <2>2. faults' \in 0..MaxFaults
    BY <1>21 DEF ApplyOrder, TypeOK
  <2> QED
    BY <1>19, OutcomeType, <2>1, <2>2
<1>22. ASSUME NEW e \in Endpoints, ApplyFails(e) PROVE TypeOK'
  <2>1. PICK o \in hand[e] :
          \E n \in {rules[e][orders[o].target], Outcome(e, o).n} :
             RunOrder(e, o, [ok |-> FALSE, n |-> n])
    BY <1>22 DEF ApplyFails
  <2>1a. PICK n \in {rules[e][orders[o].target], Outcome(e, o).n} :
           RunOrder(e, o, [ok |-> FALSE, n |-> n])
    BY <2>1
  <2>2. [ok |-> FALSE, n |-> n] \in [ok : BOOLEAN, n : Nat]
    BY OutcomeType
  <2>3. faults' \in 0..MaxFaults
    BY <1>22, BoundAssumption DEF ApplyFails, TypeOK, Fault
  <2> QED
    BY <1>19, <2>1a, <2>2, <2>3
<1>23. ASSUME NEW e \in Endpoints, ReportResult(e) PROVE TypeOK'
  <2>1. results' \in SUBSET Result
    <3>1. cur[e] \in [o : 0..MaxOrders, ok : BOOLEAN] /\ agentKey[e] \in Nat
      BY DEF TypeOK
    <3>2. [o |-> cur[e].o, ok |-> cur[e].ok, key |-> agentKey[e]] \in Result
      BY <3>1 DEF Result
    <3> QED
      BY <1>23, <3>2 DEF TypeOK, ReportResult
  <2>2. /\ stage' \in [Endpoints -> Stages]
        /\ cur' \in [Endpoints -> [o : 0..MaxOrders, ok : BOOLEAN]]
    BY <1>23, BoundAssumption DEF TypeOK, ReportResult, NextStage, Idle
  <2> QED
    BY <1>23, <2>1, <2>2 DEF TypeOK, ReportResult
<1>24. ASSUME NEW e \in Endpoints, ReportLost(e) PROVE TypeOK'
  BY <1>24, BoundAssumption DEF TypeOK, ReportLost, NextStage, Idle, Fault
<1>25. ASSUME NEW r \in results, ReceiveResult(r) PROVE TypeOK'
  <2>1. CASE Accepted(r)
    <3>1. r.ok \in BOOLEAN /\ orders \in Seq(Order) /\ "failed" \in OrderStates
          /\ "succeeded" \in OrderStates
      BY DEF TypeOK, Result, OrderStates
    <3>2. orders' = Recorded(r, orders)
      BY <1>25, <2>1 DEF ReceiveResult
    <3>3. orders' \in Seq(Order) /\ Len(orders') = Len(orders) /\ DOMAIN orders' = DOMAIN orders
      BY <3>1, <3>2, SetStatusRows DEF Recorded
    <3>4. act' \in [Actions -> {"none", "simulated", "pending", "executed", "failed"}]
      BY <1>25, <2>1 DEF TypeOK, ReceiveResult, Verdict
    <3> QED
      BY <1>25, <3>3, <3>4 DEF TypeOK, ReceiveResult
  <2>2. CASE ~Accepted(r)
    BY <1>25, <2>2 DEF TypeOK, ReceiveResult
  <2> QED
    BY <2>1, <2>2
<1>26. ASSUME NEW e \in Endpoints, NEW S, LiftDue(e, S), faults' \in 0..MaxFaults
       PROVE  TypeOK'
  <2>1. \A t \in Targets : Unblock(Platform[e], rules[e][t]).n \in Nat
    BY DEF TypeOK, Unblock
  <2>2. rules' \in [Endpoints -> [Targets -> Nat]]
    BY <1>26, <2>1 DEF TypeOK, LiftDue
  <2>3. /\ timers' \in [Endpoints -> [Targets -> {"none", "armed", "due"}]]
        /\ stage' \in [Endpoints -> Stages]
    BY <1>26 DEF TypeOK, LiftDue
  <2> QED
    BY <1>26, <2>2, <2>3 DEF TypeOK, LiftDue
<1>27. ASSUME NEW e \in Endpoints, Expire(e) \/ ExpireFails(e) PROVE TypeOK'
  <2>1. faults' \in 0..MaxFaults
    BY <1>27, BoundAssumption DEF TypeOK, Expire, ExpireFails, Fault
  <2>2. \E S : LiftDue(e, S)
    BY <1>27 DEF Expire, ExpireFails
  <2> QED
    BY <1>26, <2>1, <2>2
<1>28. ASSUME NEW e \in Endpoints, NEW t \in Addresses, TimerFires(e, t) PROVE TypeOK'
  BY <1>28 DEF TypeOK, TimerFires, Targets
<1>29. ASSUME NEW e \in Endpoints, Forget(e),
              agentKey' \in [Endpoints -> Nat], faults' \in 0..MaxFaults,
              admin' \in 0..MaxAdmin
       PROVE  TypeOK'
  BY <1>29, BoundAssumption DEF TypeOK, Forget, Idle
<1>30. ASSUME NEW e \in Endpoints, AgentRestart(e) PROVE TypeOK'
  BY <1>29, <1>30, BoundAssumption, SMTT(30) DEF TypeOK, AgentRestart, Fault
<1>31. ASSUME NEW e \in Endpoints, Install(e) PROVE TypeOK'
  <2>1. agentKey' \in [Endpoints -> Nat] /\ faults' \in 0..MaxFaults /\ admin' \in 0..MaxAdmin
    BY <1>31, BoundAssumption DEF TypeOK, Install
  <2> QED
    BY <1>29, <1>31, <2>1 DEF Install
<1>32. ASSUME SiemCrash PROVE TypeOK'
  <2>1. faults' \in 0..MaxFaults
    BY <1>32, BoundAssumption DEF TypeOK, SiemCrash, Fault
  <2>2. /\ stage' \in [Endpoints -> Stages]
        /\ hand' \in [Endpoints -> SUBSET DOMAIN orders]
        /\ retire' \in [Endpoints -> SUBSET OrderIds]
    BY <1>32 DEF TypeOK, SiemCrash
  <2> QED
    BY <1>32, <2>1, <2>2 DEF TypeOK, SiemCrash
<1>33. ASSUME SiemRestart PROVE TypeOK'
  BY <1>33 DEF TypeOK, SiemRestart
<1>34. ASSUME UNCHANGED vars PROVE TypeOK'
  BY <1>34 DEF TypeOK, vars
<1> QED
  BY <1>1, <1>3, <1>4, <1>5, <1>6, <1>7, <1>8, <1>8a, <1>9, <1>10, <1>11, <1>13,
     <1>14, <1>14a, <1>15, <1>16, <1>17, <1>18, <1>21, <1>22, <1>23, <1>24, <1>25,
     <1>27, <1>28, <1>30, <1>31, <1>32, <1>33, <1>34
  DEF Next, Operator, Ingestion, AgentLoop, SiemPoll, Handlers, Time, Failures

\* Every variable keeps its type, whatever the bounds and the constants.
THEOREM TypeCorrect == Spec => []TypeOK
BY InitType, NextType, PTL DEF Spec

-----------------------------------------------------------------------------
\* The ledger tells the truth and nothing is run twice.

\* Nothing has been ordered, run or recorded at the start.
LEMMA InitTruth == Init => TruthInv
<1> SUFFICES ASSUME Init PROVE TruthInv
  OBVIOUS
<1>1. DOMAIN orders = {}
  BY DEF Init
<1> QED
  BY <1>1 DEF Init, TruthInv, RanOnce, HandFresh, CurTrue, ResultsTrue, LedgerTruth,
    ExecutedTruth

\* An order is added or statuses are written, but no status is made
\* "queued", "succeeded" or "failed" for an order that exists.
LEMMA TruthRows ==
    ASSUME TypeOK, TruthInv, TypeOK',
           DOMAIN orders \subseteq DOMAIN orders',
           \A o \in DOMAIN orders :
              /\ orders'[o].ep = orders[o].ep /\ orders'[o].act = orders[o].act
              /\ \/ orders'[o].status = orders[o].status
                 \/ orders'[o].status \in {"delivered", "expired"},
           \A o \in DOMAIN orders' \ DOMAIN orders : orders'[o].status = "queued",
           UNCHANGED <<ran, worked, cur>>, results' \subseteq results,
           \A e \in Endpoints :
              /\ hand'[e] \subseteq hand[e]
              /\ hand'[e] # {} =>
                   /\ stage'[e] \in {"reading", "answered", "applying", "report"}
                   /\ stage[e] = "reading" /\ stage'[e] # "reading" =>
                        \A o \in hand'[e] : orders'[o].status # "queued"
              /\ stage'[e] = "report" => stage[e] = "report",
           \A a \in Actions : act'[a] = "executed" => act[a] = "executed"
    PROVE  TruthInv'
<1> USE DEF TruthInv
<1>1. \A o \in OrderIds : ran[o] = 1 => o \in DOMAIN orders
  BY DEF RanOnce
<1>2. RanOnce'
  BY <1>1 DEF RanOnce
<1>3. HandFresh'
  <2> SUFFICES ASSUME NEW e \in Endpoints, NEW o \in hand'[e]
               PROVE  /\ orders'[o].ep = e /\ ran'[o] = 0
                      /\ stage'[e] \in {"reading", "answered", "applying", "report"}
                      /\ stage'[e] # "reading" => orders'[o].status # "queued"
    BY DEF HandFresh
  <2>1. o \in hand[e] /\ o \in DOMAIN orders
    BY DEF TypeOK
  <2>2. orders[o].ep = e /\ ran[o] = 0 /\ (stage[e] # "reading" => orders[o].status # "queued")
    BY <2>1 DEF HandFresh
  <2> QED
    BY <2>1, <2>2
<1>4. CurTrue'
  BY DEF CurTrue
<1>5. ResultsTrue'
  BY DEF ResultsTrue
<1>6. LedgerTruth'
  BY DEF LedgerTruth
<1>7. ExecutedTruth'
  BY DEF ExecutedTruth
<1> QED
  BY <1>2, <1>3, <1>4, <1>5, <1>6, <1>7

\* Every step keeps the ledgers true, given the types.
LEMMA NextTruth == TypeOK /\ TypeOK' /\ TruthInv /\ [Next]_vars => TruthInv'
<1> SUFFICES ASSUME TypeOK, TypeOK', TruthInv, [Next]_vars PROVE TruthInv'
  OBVIOUS
<1> USE DEF registry, database, threads, loop, host, network, budgets, history, Change
<1>0. \A e \in Endpoints : hand[e] # {} =>
          stage[e] \in {"reading", "answered", "applying", "report"}
  BY DEF TruthInv, HandFresh
<1>1. ASSUME NEW a \in Actions, Respond(a) PROVE TruthInv'
  BY <1>0, <1>1, TruthRows DEF Respond, TypeOK
<1>2. ASSUME NEW a \in Actions, ExecuteAction(a)
      PROVE  /\ DOMAIN orders \subseteq DOMAIN orders'
             /\ \A o \in DOMAIN orders : orders'[o] = orders[o]
             /\ \A o \in DOMAIN orders' \ DOMAIN orders : orders'[o].status = "queued"
             /\ \A b \in Actions : act'[b] = "executed" => act[b] = "executed"
  <2>1. CASE NoVerb(a) \/ NotExecuted(a) \/ QueueFails(a)
    BY <2>1, <1>2 DEF TypeOK, NoVerb, NotExecuted, QueueFails
  <2>2. CASE OrderQueued(a)
    <3>1. PICK e \in AgentFor(a) : Queue(e, Contain(ActTarget[a]), ActTarget[a], a)
      BY <2>2 DEF OrderQueued
    <3>2. e \in Endpoints /\ ActTarget[a] \in Targets /\ Contain(ActTarget[a]) \in Verbs
      BY DecisionAssumption, VerbKinds DEF AgentFor, Enabled
    <3>3. orders \in Seq(Order) /\ Len(orders) <= MaxOrders
      BY DEF TypeOK
    <3>4. UNCHANGED act
      BY <2>2 DEF OrderQueued
    <3> QED
      BY <3>1, <3>2, <3>3, <3>4, QueueRows
  <2> QED
    BY <1>2, <2>1, <2>2 DEF ExecuteAction
<1>3. ASSUME NEW a \in Actions, Dispatch(a) \/ ExecuteNow(a) PROVE TruthInv'
  <2>1. ExecuteAction(a) /\ UNCHANGED <<loop, host, network, history>>
    BY <1>3 DEF Dispatch, ExecuteNow
  <2> QED
    BY <1>0, <1>2, <2>1, TruthRows
<1>4. ASSUME NEW o \in marking, MarkPending(o) PROVE TruthInv'
  BY <1>0, <1>4, TruthRows DEF MarkPending, TypeOK
<1>5. ASSUME NEW o \in DOMAIN orders, Revoke(o) PROVE TruthInv'
  <2>1. orders \in Seq(Order) /\ orders[o] \in Order /\ Len(orders) <= MaxOrders
    BY DEF TypeOK
  <2>2. /\ orders[o].ep \in Endpoints /\ orders[o].target \in Targets
        /\ InverseAction(orders[o].verb) \in Verbs /\ NoAction \in Actions \cup {NoAction}
    BY <2>1, VerbKinds DEF Order
  <2>3. Queue(orders[o].ep, InverseAction(orders[o].verb), orders[o].target, NoAction)
    BY <1>5 DEF Revoke
  <2>4. /\ DOMAIN orders \subseteq DOMAIN orders'
        /\ \A p \in DOMAIN orders : orders'[p] = orders[p]
        /\ \A p \in DOMAIN orders' \ DOMAIN orders : orders'[p].status = "queued"
    BY <2>1, <2>2, <2>3, QueueRows
  <2>5. UNCHANGED <<act, loop, host, network, history>>
    BY <1>5 DEF Revoke
  <2> QED
    BY <1>0, <2>4, <2>5, TruthRows
<1>6. ASSUME UNCHANGED <<orders, act, results, cur, history>>,
             \A e \in Endpoints :
                /\ hand'[e] \subseteq hand[e]
                /\ hand'[e] # {} =>
                     /\ stage'[e] \in {"reading", "answered", "applying", "report"}
                     /\ stage[e] = "reading" => stage'[e] = "reading"
                /\ stage'[e] = "report" => stage[e] = "report"
      PROVE  TruthInv'
  BY <1>6, TruthRows
<1>7. ASSUME NEW o \in marking, MarkFails(o) PROVE TruthInv'
  BY <1>0, <1>6, <1>7 DEF MarkFails
<1>8. ASSUME OrderAges \/ SiemRestart PROVE TruthInv'
  BY <1>0, <1>6, <1>8 DEF OrderAges, SiemRestart
<1>9. ASSUME NEW e \in Endpoints, Enrol(e) \/ Update(e) PROVE TruthInv'
  BY <1>0, <1>6, <1>9 DEF Enrol, Update
<1>10. ASSUME NEW e \in Endpoints, Delete(e) PROVE TruthInv'
  BY <1>0, <1>6, <1>10 DEF Delete, TypeOK
<1>11. ASSUME NEW e \in Endpoints, AgentPoll(e) \/ Receive(e) \/ PollFailed(e)
       PROVE TruthInv'
  <2>1. CASE AgentPoll(e)
    BY <1>0, <1>6, <2>1 DEF AgentPoll, TypeOK
  <2>2. CASE Receive(e)
    BY <1>0, <1>6, <2>2 DEF Receive, TypeOK
  <2>3. CASE PollFailed(e)
    BY <1>0, <1>6, <2>3 DEF PollFailed, TypeOK
  <2> QED
    BY <1>11, <2>1, <2>2, <2>3
<1>12a. ASSUME NEW e \in Endpoints, CommitFails(e) PROVE TruthInv'
  BY <1>0, <1>6, <1>12a DEF CommitFails, TypeOK
<1>12b. ASSUME NEW e \in Endpoints, PollLost(e) PROVE TruthInv'
  BY <1>0, <1>6, <1>12b DEF PollLost, TypeOK
<1>12c. ASSUME NEW e \in Endpoints, PollTimeout(e) PROVE TruthInv'
  BY <1>0, <1>6, <1>12c DEF PollTimeout, TypeOK
<1>13. ASSUME NEW s \in stray, StrayRead(s) PROVE TruthInv'
  BY <1>0, <1>6, <1>13 DEF StrayRead
<1>14. ASSUME NEW e \in Endpoints, NEW t \in Addresses, TimerFires(e, t) PROVE TruthInv'
  BY <1>0, <1>6, <1>14 DEF TimerFires
<1>15. ASSUME NEW e \in Endpoints, Expire(e) \/ ExpireFails(e) PROVE TruthInv'
  <2>1. \E S : LiftDue(e, S)
    BY <1>15 DEF Expire, ExpireFails
  <2> QED
    BY <1>0, <1>6, <1>15, <2>1 DEF LiftDue, Expire, ExpireFails, TypeOK
<1>16. ASSUME SiemCrash PROVE TruthInv'
  BY <1>0, <1>16, TruthRows DEF SiemCrash, TypeOK
<1>17. ASSUME NEW e \in Endpoints, SiemCommit(e) PROVE TruthInv'
  <2>1. orders \in Seq(Order) /\ orders' = Collect(hand[e], retire[e], orders)
    BY <1>17 DEF TypeOK, SiemCommit
  <2>2. /\ DOMAIN orders' = DOMAIN orders
        /\ \A o \in DOMAIN orders :
             /\ orders'[o].ep = orders[o].ep /\ orders'[o].act = orders[o].act
             /\ \/ orders'[o].status = orders[o].status
                \/ orders'[o].status \in {"delivered", "expired"}
             /\ o \in hand[e] => orders'[o].status # "queued"
    BY <2>1, CollectRows
  <2>3. \A o \in hand[e] : orders'[o].status # "queued"
    BY <2>2 DEF TypeOK
  <2>4. \A f \in Endpoints :
          /\ hand'[f] \subseteq hand[f]
          /\ hand'[f] # {} =>
               /\ stage'[f] \in {"reading", "answered", "applying", "report"}
               /\ stage[f] = "reading" /\ stage'[f] # "reading" =>
                    \A o \in hand'[f] : orders'[o].status # "queued"
          /\ stage'[f] = "report" => stage[f] = "report"
    BY <1>0, <1>17, <2>3 DEF SiemCommit, TypeOK
  <2>5. UNCHANGED <<ran, worked, cur, results, act>>
    BY <1>17 DEF SiemCommit
  <2> QED
    BY <2>2, <2>4, <2>5, TruthRows
<1>18. ASSUME NEW s \in stray, StrayCommit(s) PROVE TruthInv'
  <2>1. orders \in Seq(Order) /\ orders' = Collect(s.hand, s.retire, orders)
    BY <1>18 DEF TypeOK, StrayCommit
  <2>2. /\ DOMAIN orders' = DOMAIN orders
        /\ \A o \in DOMAIN orders :
             /\ orders'[o].ep = orders[o].ep /\ orders'[o].act = orders[o].act
             /\ \/ orders'[o].status = orders[o].status
                \/ orders'[o].status \in {"delivered", "expired"}
    BY <2>1, CollectRows
  <2> QED
    BY <1>0, <1>18, <2>2, TruthRows DEF StrayCommit
<1>19. ASSUME NEW e \in Endpoints, SiemRead(e) PROVE TruthInv'
  <2>1. UNCHANGED <<orders, act, results, cur, ran, worked>>
    BY <1>19 DEF SiemRead
  <2>2. \A f \in Endpoints : f # e => hand'[f] = hand[f] /\ stage'[f] = stage[f]
    BY <1>19 DEF SiemRead, TypeOK
  <2>3. hand'[e] = Deliverable(e) /\ (hand'[e] # {} => stage'[e] = "reading")
    BY <1>19 DEF SiemRead, TypeOK, Deliverable
  <2>4. stage'[e] # "report"
    BY <1>19 DEF SiemRead, TypeOK
  <2>5. ASSUME NEW o \in Deliverable(e) PROVE orders[o].ep = e /\ ran[o] = 0
    <3>1. o \in DOMAIN orders /\ orders[o].ep = e /\ orders[o].status = "queued"
      BY DEF Deliverable, Oldest, Queued
    <3>2. o \in OrderIds
      BY <3>1, BoundAssumption DEF TypeOK, OrderIds
    <3> QED
      BY <3>1, <3>2 DEF TruthInv, RanOnce
  <2>6. HandFresh'
    BY <2>1, <2>2, <2>3, <2>5 DEF TruthInv, HandFresh
  <2>7. CurTrue'
    BY <2>1, <2>2, <2>4 DEF TruthInv, CurTrue
  <2> QED
    BY <2>1, <2>6, <2>7 DEF TruthInv, RanOnce, ResultsTrue, LedgerTruth, ExecutedTruth
<1>20. ASSUME NEW e \in Endpoints, NEW o \in hand[e], NEW out \in [ok : BOOLEAN, n : Nat],
              stage[e] = "applying", RunOrder(e, o, out)
       PROVE  TruthInv'
  <2>1. /\ o \in DOMAIN orders /\ o \in OrderIds /\ ran[o] = 0 /\ o \notin worked
        /\ orders[o].ep = e /\ orders[o].status # "queued"
    <3>1. o \in DOMAIN orders /\ o \in OrderIds
      BY KnownOrders
    <3> QED
      BY <1>20, <3>1 DEF TruthInv, HandFresh, RanOnce
  <2>2. UNCHANGED <<orders, act, results>>
    BY <1>20 DEF RunOrder
  <2>3. /\ ran' = [ran EXCEPT ![o] = 1]
        /\ worked' = IF out.ok THEN worked \cup {o} ELSE worked
    BY <1>20, <2>1 DEF RunOrder
  <2>4. /\ stage' = [stage EXCEPT ![e] = "report"]
        /\ hand' = [hand EXCEPT ![e] = @ \ {o}]
        /\ cur' = [cur EXCEPT ![e] = [o |-> o, ok |-> out.ok]]
    BY <1>20 DEF RunOrder
  <2>5. RanOnce'
    BY <2>1, <2>2, <2>3 DEF TypeOK, TruthInv, RanOnce
  <2>6. HandFresh'
    <3> SUFFICES ASSUME NEW f \in Endpoints, NEW p \in hand'[f]
                 PROVE  /\ orders[p].ep = f /\ ran'[p] = 0
                        /\ stage'[f] \in {"reading", "answered", "applying", "report"}
                        /\ stage'[f] # "reading" => orders[p].status # "queued"
      BY <2>2 DEF HandFresh
    <3>0. p \in hand[f] /\ (f = e => p # o)
      BY <2>4 DEF TypeOK
    <3>1. p \in OrderIds /\ ran[p] = 0 /\ orders[p].ep = f
          /\ stage[f] \in {"reading", "answered", "applying", "report"}
          /\ (stage[f] # "reading" => orders[p].status # "queued")
      BY <3>0, KnownOrders DEF TruthInv, HandFresh
    <3>2. p # o
      BY <2>1, <3>0, <3>1
    <3>3. ran'[p] = 0
      BY <2>3, <3>1, <3>2 DEF TypeOK
    <3>4. /\ stage'[f] \in {"reading", "answered", "applying", "report"}
          /\ stage[f] = "reading" => stage'[f] = "reading"
      BY <1>20, <2>4, <3>0, <3>1 DEF TypeOK, RunOrder
    <3> QED
      BY <2>3, <3>0, <3>1, <3>3, <3>4
  <2>7. CurTrue'
    <3> SUFFICES ASSUME NEW f \in Endpoints, stage'[f] = "report"
                 PROVE  /\ cur'[f].o \in DOMAIN orders /\ ran'[cur'[f].o] = 1
                        /\ cur'[f].ok <=> cur'[f].o \in worked'
      BY <2>2 DEF CurTrue
    <3>1. CASE f = e
      BY <2>1, <2>3, <2>4, <3>1 DEF TypeOK
    <3>2. CASE f # e
      <4>1. cur'[f] = cur[f] /\ stage[f] = "report"
        BY <2>4, <3>2 DEF TypeOK
      <4>2. /\ cur[f].o \in DOMAIN orders /\ ran[cur[f].o] = 1
            /\ cur[f].ok <=> cur[f].o \in worked
        BY <4>1 DEF TruthInv, CurTrue
      <4>3. cur[f].o # o
        BY <2>1, <4>2
      <4>4. cur[f].o \in OrderIds
        BY <4>2, KnownOrders
      <4>5. ran'[cur[f].o] = ran[cur[f].o]
        BY <2>3, <4>3, <4>4 DEF TypeOK
      <4>6. cur[f].o \in worked' <=> cur[f].o \in worked
        BY <2>3, <4>3
      <4> QED
        BY <4>1, <4>2, <4>5, <4>6
    <3> QED
      BY <3>1, <3>2
  <2>8. ResultsTrue'
    BY <2>1, <2>2, <2>3, SMTT(30) DEF TypeOK, TruthInv, ResultsTrue
  <2>9. LedgerTruth'
    <3>1. \A p \in DOMAIN orders : p \in OrderIds
      BY KnownOrders
    <3>2. orders[o].status # "failed"
      BY <2>1 DEF TruthInv, LedgerTruth
    <3> QED
      BY <2>1, <2>2, <2>3, <3>1, <3>2 DEF TypeOK, TruthInv, LedgerTruth
  <2>10. ExecutedTruth'
    BY <2>2, <2>3 DEF TruthInv, ExecutedTruth
  <2> QED
    BY <2>5, <2>6, <2>7, <2>8, <2>9, <2>10 DEF TruthInv
<1>21. ASSUME NEW e \in Endpoints, ApplyOrder(e) \/ ApplyFails(e) PROVE TruthInv'
  <2>1. stage[e] = "applying"
    BY <1>21 DEF ApplyOrder, ApplyFails
  <2>2. \A o \in hand[e] : /\ Outcome(e, o) \in [ok : BOOLEAN, n : Nat]
                           /\ rules[e][orders[o].target] \in Nat
    BY OutcomeType
  <2>3. \E o \in hand[e], out \in [ok : BOOLEAN, n : Nat] : RunOrder(e, o, out)
    <3>1. CASE ApplyOrder(e)
      BY <2>2, <3>1 DEF ApplyOrder
    <3>2. CASE ApplyFails(e)
      <4>1. PICK o \in hand[e] :
              \E n \in {rules[e][orders[o].target], Outcome(e, o).n} :
                 RunOrder(e, o, [ok |-> FALSE, n |-> n])
        BY <3>2 DEF ApplyFails
      <4>2. PICK n \in {rules[e][orders[o].target], Outcome(e, o).n} :
               RunOrder(e, o, [ok |-> FALSE, n |-> n])
        BY <4>1
      <4>3. [ok |-> FALSE, n |-> n] \in [ok : BOOLEAN, n : Nat]
        BY <2>2
      <4> QED
        BY <4>2, <4>3
    <3> QED
      BY <1>21, <3>1, <3>2
  <2> QED
    BY <1>20, <2>1, <2>3
<1>22. ASSUME NEW e \in Endpoints, ReportResult(e) PROVE TruthInv'
  <2>1. /\ cur[e].o \in DOMAIN orders /\ ran[cur[e].o] = 1
        /\ cur[e].ok <=> cur[e].o \in worked
    BY <1>22 DEF ReportResult, TruthInv, CurTrue
  <2>2. UNCHANGED <<orders, act, hand, ran, worked>>
    BY <1>22 DEF ReportResult
  <2>3. /\ stage'[e] \in {"expiring", "applying"} /\ (stage'[e] = "expiring" => hand[e] = {})
        /\ \A f \in Endpoints : f # e => stage'[f] = stage[f] /\ cur'[f] = cur[f]
    BY <1>22 DEF ReportResult, NextStage, TypeOK
  <2>4. HandFresh'
    BY <1>22, <2>2, <2>3 DEF TruthInv, HandFresh, ReportResult
  <2>5. CurTrue'
    BY <2>2, <2>3 DEF TruthInv, CurTrue
  <2>6. \A r \in results' : \/ r \in results
                            \/ r = [o |-> cur[e].o, ok |-> cur[e].ok, key |-> agentKey[e]]
    BY <1>22 DEF ReportResult
  <2>7. ResultsTrue'
    BY <2>1, <2>2, <2>6 DEF TruthInv, ResultsTrue
  <2> QED
    BY <2>2, <2>4, <2>5, <2>7 DEF TruthInv, RanOnce, LedgerTruth, ExecutedTruth
<1>23. ASSUME NEW e \in Endpoints, ReportLost(e) PROVE TruthInv'
  <2>1. UNCHANGED <<orders, act, hand, ran, worked, results>>
    BY <1>23 DEF ReportLost
  <2>2. /\ stage[e] = "report"
        /\ stage'[e] \in {"expiring", "applying"} /\ (stage'[e] = "expiring" => hand[e] = {})
        /\ \A f \in Endpoints : f # e => stage'[f] = stage[f] /\ cur'[f] = cur[f]
    BY <1>23 DEF ReportLost, NextStage, TypeOK
  <2>3. HandFresh'
    BY <2>1, <2>2 DEF TruthInv, HandFresh
  <2>4. CurTrue'
    BY <2>1, <2>2 DEF TruthInv, CurTrue
  <2> QED
    BY <2>1, <2>3, <2>4 DEF TruthInv, RanOnce, LedgerTruth, ExecutedTruth, ResultsTrue
<1>24. ASSUME NEW r \in results, ReceiveResult(r) PROVE TruthInv'
  <2>1. CASE ~Accepted(r)
    BY <1>0, <1>24, <2>1, TruthRows DEF ReceiveResult
  <2>2. CASE Accepted(r)
    <3>1. /\ r.o \in DOMAIN orders /\ ran[r.o] = 1 /\ (r.ok <=> r.o \in worked)
          /\ r.ok \in BOOLEAN /\ r.o \in OrderIds
      BY KnownOrders DEF TruthInv, ResultsTrue, TypeOK, Result
    <3>2. orders \in Seq(Order) /\ orders' = Recorded(r, orders)
      BY <1>24, <2>2 DEF ReceiveResult, TypeOK
    <3>3. /\ DOMAIN orders' = DOMAIN orders
          /\ \A o \in DOMAIN orders :
               /\ orders'[o].ep = orders[o].ep /\ orders'[o].act = orders[o].act
               /\ orders'[o].status = IF o = r.o THEN (IF r.ok THEN "succeeded" ELSE "failed")
                                                ELSE orders[o].status
      <4>1. (IF r.ok THEN "succeeded" ELSE "failed") \in OrderStates
        BY DEF OrderStates
      <4> QED
        BY <3>2, <4>1, SetStatusRows DEF Recorded
    <3>4. UNCHANGED <<hand, stage, cur, ran, worked>> /\ results' \subseteq results
      BY <1>24 DEF ReceiveResult
    <3>5. RanOnce'
      BY <3>3, <3>4 DEF TruthInv, RanOnce
    <3>6. HandFresh'
      BY <3>1, <3>3, <3>4, KnownOrders DEF TruthInv, HandFresh
    <3>7. CurTrue' /\ ResultsTrue'
      BY <3>3, <3>4 DEF TruthInv, CurTrue, ResultsTrue
    <3>8. LedgerTruth'
      BY <3>1, <3>3, <3>4 DEF TruthInv, LedgerTruth
    <3>9. ExecutedTruth'
      <4> SUFFICES ASSUME NEW a \in Actions, act'[a] = "executed"
                   PROVE  \E o \in worked \cap DOMAIN orders : orders[o].act = a
        BY <3>3, <3>4 DEF ExecutedTruth
      <4>1. CASE act[a] = "executed"
        BY <4>1 DEF TruthInv, ExecutedTruth
      <4>2. CASE act[a] # "executed"
        <5>1. orders[r.o].act = a /\ r.ok
          BY <1>24, <2>2, <4>2 DEF ReceiveResult, Verdict, TypeOK
        <5> QED
          BY <3>1, <5>1
      <4> QED
        BY <4>1, <4>2
    <3> QED
      BY <3>5, <3>6, <3>7, <3>8, <3>9 DEF TruthInv
  <2> QED
    BY <2>1, <2>2
<1>25. ASSUME NEW e \in Endpoints, AgentRestart(e) \/ Install(e) PROVE TruthInv'
  <2>1. Forget(e) /\ stage[e] # "reading"
    BY <1>25 DEF AgentRestart, Install
  <2>2. UNCHANGED <<orders, act, results, ran, worked>>
    BY <2>1 DEF Forget
  <2>3. /\ hand'[e] = {} /\ stage'[e] = "sleep"
        /\ \A f \in Endpoints : f # e => /\ stage'[f] = stage[f] /\ cur'[f] = cur[f]
                                       /\ hand'[f] = hand[f]
    BY <2>1 DEF Forget, TypeOK
  <2>4. HandFresh'
    BY <2>2, <2>3 DEF TruthInv, HandFresh
  <2>5. CurTrue'
    BY <2>2, <2>3 DEF TruthInv, CurTrue
  <2> QED
    BY <2>2, <2>4, <2>5 DEF TruthInv, RanOnce, ResultsTrue, LedgerTruth, ExecutedTruth
<1>26. ASSUME UNCHANGED vars PROVE TruthInv'
  BY <1>0, <1>6, <1>26 DEF vars
<1> QED
  BY <1>1, <1>3, <1>4, <1>5, <1>7, <1>8, <1>9, <1>10, <1>11, <1>12a, <1>12b, <1>12c,
     <1>13, <1>14, <1>15, <1>16, <1>17, <1>18, <1>19, <1>21, <1>22, <1>23, <1>24,
     <1>25, <1>26
  DEF Next, Operator, Ingestion, AgentLoop, SiemPoll, Handlers, Time, Failures

\* The truth invariant, with the types it rests on.
LEMMA TruthCorrect == Spec => [](TypeOK /\ TruthInv)
<1>1. TypeOK /\ TruthInv /\ [Next]_vars => TypeOK' /\ TruthInv'
  BY NextType, NextTruth
<1> QED
  BY <1>1, InitType, InitTruth, PTL DEF Spec

\* No interleaving of polls, crashes and restarts runs an order twice.
THEOREM RunAtMostOnce == Spec => []AtMostOnce
<1>1. TypeOK /\ TruthInv => AtMostOnce
  BY DEF TruthInv, RanOnce, AtMostOnce
<1> QED
  BY <1>1, TruthCorrect, PTL

\* The order ledger never claims an outcome the agent did not have.
THEOREM LedgerIsTrue == Spec => []LedgerTruth
BY TruthCorrect, PTL DEF TruthInv

\* A decision shown as executed was carried out by one of its own orders.
THEOREM ExecutedIsTrue == Spec => []ExecutedTruth
BY TruthCorrect, PTL DEF TruthInv

-----------------------------------------------------------------------------
\* A block keeps its timer.

\* There is no block at the start.
LEMMA InitCover == Init => CoverInv
BY DEF Init, CoverInv, KindsMatch, BlockCovered, Targets

\* A new order acts on its target's kind; no order changes what it acts on.
LEMMA KindsKept ==
    ASSUME TypeOK, KindsMatch, [Next]_vars
    PROVE  KindsMatch'
<1> USE DEF registry, database, threads, loop, host, network, budgets, history, Change
<1>0. orders \in Seq(Order) /\ Len(orders) <= MaxOrders
  BY DEF TypeOK
<1>1. ASSUME UNCHANGED orders PROVE KindsMatch'
  BY <1>1 DEF KindsMatch
<1>2. ASSUME NEW D, NEW X, orders' = Collect(D, X, orders) PROVE KindsMatch'
  BY <1>0, <1>2, CollectRows DEF KindsMatch
<1>3. ASSUME NEW a \in Actions, ExecuteAction(a) PROVE KindsMatch'
  <2>1. CASE NoVerb(a) \/ NotExecuted(a) \/ QueueFails(a)
    BY <1>1, <2>1 DEF NoVerb, NotExecuted, QueueFails
  <2>2. CASE OrderQueued(a)
    <3>1. PICK e \in AgentFor(a) : Queue(e, Contain(ActTarget[a]), ActTarget[a], a)
      BY <2>2 DEF OrderQueued
    <3>2. e \in Endpoints /\ ActTarget[a] \in Targets /\ Contain(ActTarget[a]) \in Verbs
      BY DecisionAssumption, VerbKinds DEF AgentFor, Enabled
    <3>3. \A o \in DOMAIN orders' \ DOMAIN orders :
            orders'[o].verb = Contain(ActTarget[a]) /\ orders'[o].target = ActTarget[a]
      BY <1>0, <3>1, <3>2, QueueRows
    <3>4. \A o \in DOMAIN orders : orders'[o] = orders[o]
      BY <1>0, <3>1, <3>2, QueueRows
    <3> QED
      BY <3>3, <3>4 DEF KindsMatch, Contain
  <2> QED
    BY <1>3, <2>1, <2>2 DEF ExecuteAction
<1>4. ASSUME NEW o \in DOMAIN orders, Revoke(o) PROVE KindsMatch'
  <2>1. orders[o] \in Order
    BY <1>0
  <2>2. /\ orders[o].ep \in Endpoints /\ orders[o].target \in Targets
        /\ InverseAction(orders[o].verb) \in Verbs /\ NoAction \in Actions \cup {NoAction}
    BY <2>1, VerbKinds DEF Order
  <2>3. /\ Queue(orders[o].ep, InverseAction(orders[o].verb), orders[o].target, NoAction)
        /\ orders[o].verb \in {"block_ip", "disable_user"}
    BY <1>4 DEF Revoke
  <2>4. \A p \in DOMAIN orders' \ DOMAIN orders :
           /\ orders'[p].verb = InverseAction(orders[o].verb)
           /\ orders'[p].target = orders[o].target
    BY <1>0, <2>2, <2>3, QueueRows
  <2>5. \A p \in DOMAIN orders : orders'[p] = orders[p]
    BY <1>0, <2>2, <2>3, QueueRows
  <2> QED
    BY <2>3, <2>4, <2>5 DEF KindsMatch, InverseAction
<1>5. ASSUME NEW r \in results, ReceiveResult(r) PROVE KindsMatch'
  <2>1. CASE ~Accepted(r)
    BY <1>1, <1>5, <2>1 DEF ReceiveResult
  <2>2. CASE Accepted(r)
    <3>1. orders' = SetStatus({r.o}, IF r.ok THEN "succeeded" ELSE "failed", orders)
      BY <1>5, <2>2 DEF ReceiveResult, Recorded
    <3>2. (IF r.ok THEN "succeeded" ELSE "failed") \in OrderStates
      BY DEF OrderStates
    <3> QED
      BY <1>0, <3>1, <3>2, SetStatusRows DEF KindsMatch
  <2> QED
    BY <2>1, <2>2
<1>6. CASE Operator
  <2>1. ASSUME NEW a \in Actions, ExecuteNow(a) PROVE KindsMatch'
    BY <1>3, <2>1 DEF ExecuteNow
  <2>2. ASSUME NEW e \in Endpoints, Enrol(e) \/ Update(e) \/ Delete(e) \/ Install(e)
        PROVE KindsMatch'
    BY <1>1, <2>2 DEF Enrol, Update, Delete, Install, Forget
  <2> QED
    BY <1>4, <1>6, <2>1, <2>2 DEF Operator
<1>7. CASE Ingestion
  <2>1. ASSUME NEW a \in Actions, Respond(a) \/ Dispatch(a) PROVE KindsMatch'
    BY <1>1, <1>3, <2>1 DEF Respond, Dispatch
  <2>2. ASSUME NEW o \in marking, MarkPending(o) \/ MarkFails(o) PROVE KindsMatch'
    BY <1>1, <2>2 DEF MarkPending, MarkFails
  <2> QED
    BY <1>7, <2>1, <2>2 DEF Ingestion
<1>8. ASSUME NEW e \in Endpoints, AgentLoop(e) \/ SiemPoll(e) PROVE KindsMatch'
  <2>1. CASE AgentLoop(e)
    BY <1>1, <2>1 DEF AgentLoop, AgentPoll, Receive, PollFailed, ApplyOrder, RunOrder,
      ReportResult, Expire, LiftDue
  <2>2. CASE SiemPoll(e)
    BY <1>1, <1>2, <2>2 DEF SiemPoll, SiemRead, SiemCommit
  <2> QED
    BY <1>8, <2>1, <2>2
<1>9. CASE Handlers
  BY <1>1, <1>2, <1>5, <1>9 DEF Handlers, StrayRead, StrayCommit
<1>10. CASE Time \/ SiemRestart \/ UNCHANGED vars
  BY <1>1, <1>10 DEF Time, OrderAges, TimerFires, SiemRestart, vars
<1>11. CASE Failures
  <2>1. ASSUME NEW e \in Endpoints,
               CommitFails(e) \/ PollLost(e) \/ PollTimeout(e) \/ ReportLost(e)
        PROVE KindsMatch'
    BY <1>1, <2>1 DEF CommitFails, PollLost, PollTimeout, ReportLost
  <2>2. ASSUME NEW e \in Endpoints, ApplyFails(e) \/ ExpireFails(e) \/ AgentRestart(e)
        PROVE KindsMatch'
    BY <1>1, <2>2 DEF ApplyFails, RunOrder, ExpireFails, LiftDue, AgentRestart, Forget
  <2>3. ASSUME SiemCrash PROVE KindsMatch'
    BY <1>1, <2>3 DEF SiemCrash
  <2> QED
    BY <1>11, <2>1, <2>2, <2>3 DEF Failures
<1> QED
  BY <1>6, <1>7, <1>8, <1>9, <1>10, <1>11 DEF Next

\* On steady hosts every step leaves each block with a timer.
LEMMA NextCover ==
    ASSUME SteadyHosts, TypeOK, CoverInv, [Next]_vars
    PROVE  CoverInv'
<1> USE DEF registry, database, threads, loop, host, network, budgets, history, Change
<1>0. KindsMatch'
  BY KindsKept DEF CoverInv
<1>1. ASSUME UNCHANGED <<timers, rules>> PROVE CoverInv'
  BY <1>0, <1>1 DEF CoverInv, BlockCovered
<1>2. ASSUME NEW e \in Endpoints, ApplyOrder(e) PROVE CoverInv'
  <2>1. PICK o \in hand[e] : RunOrder(e, o, Outcome(e, o))
    BY <1>2 DEF ApplyOrder
  <2> DEFINE t == orders[o].target
             v == orders[o].verb
             out == Outcome(e, o)
  <2>2. o \in DOMAIN orders /\ orders[o] \in Order
    BY DEF TypeOK
  <2>3. t \in Targets /\ v \in Verbs /\ rules[e][t] \in Nat
    BY <2>2, OutcomeType DEF Order
  <2>4. /\ rules' = [rules EXCEPT ![e][t] = out.n]
        /\ timers' = [timers EXCEPT ![e][t] = Reschedule(v, out.ok, @)]
    BY <2>1 DEF RunOrder
  <2>5. t \in Addresses /\ out.n > 0 => Reschedule(v, out.ok, timers[e][t]) # "none"
    <3> SUFFICES ASSUME t \in Addresses, out.n > 0
                 PROVE  Reschedule(v, out.ok, timers[e][t]) # "none"
      OBVIOUS
    <3>1. v \in {"block_ip", "unblock_ip"}
      BY <2>2, <2>3 DEF CoverInv, KindsMatch, Verbs
    <3>2. CASE v = "block_ip"
      BY <3>2 DEF Outcome, Execute, Block, Reschedule
    <3>3. CASE v = "unblock_ip"
      <4>1. out = Unblock(Platform[e], rules[e][t])
        BY <3>3 DEF Outcome, Execute
      <4>2. out.n = 0
        BY <4>1 DEF Unblock, SteadyHosts
      <4> QED
        BY <4>2
    <3> QED
      BY <3>1, <3>2, <3>3
  <2> HIDE DEF t, v, out
  <2>6. BlockCovered'
    <3> SUFFICES ASSUME NEW f \in Endpoints, NEW u \in Addresses, rules'[f][u] > 0
                 PROVE  timers'[f][u] # "none"
      BY DEF BlockCovered
    <3>1. u \in Targets
      BY DEF Targets
    <3>2. CASE f = e /\ u = t
      BY <2>3, <2>4, <2>5, <3>1, <3>2 DEF TypeOK
    <3>3. CASE ~(f = e /\ u = t)
      <4>1. rules'[f][u] = rules[f][u] /\ timers'[f][u] = timers[f][u]
        BY <2>3, <2>4, <3>1, <3>3 DEF TypeOK
      <4> QED
        BY <4>1 DEF CoverInv, BlockCovered
    <3> QED
      BY <3>2, <3>3
  <2> QED
    BY <1>0, <2>6 DEF CoverInv
<1>3. ASSUME NEW e \in Endpoints, Expire(e) PROVE CoverInv'
  <2>1. LiftDue(e, {})
    BY <1>3 DEF Expire
  <2>2. BlockCovered'
    <3> SUFFICES ASSUME NEW f \in Endpoints, NEW u \in Addresses, rules'[f][u] > 0
                 PROVE  timers'[f][u] # "none"
      BY DEF BlockCovered
    <3>1. u \in Targets
      BY DEF Targets
    <3>2. CASE f = e /\ u \in Due(e)
      <4>1. rules'[f][u] = Unblock(Platform[e], rules[e][u]).n
        BY <2>1, <3>1, <3>2 DEF LiftDue, TypeOK
      <4> QED
        BY <4>1 DEF Unblock, SteadyHosts
    <3>3. CASE ~(f = e /\ u \in Due(e))
      <4>1. rules'[f][u] = rules[f][u] /\ timers'[f][u] = timers[f][u]
        BY <2>1, <3>1, <3>3 DEF LiftDue, TypeOK
      <4> QED
        BY <4>1 DEF CoverInv, BlockCovered
    <3> QED
      BY <3>2, <3>3
  <2> QED
    BY <1>0, <2>2 DEF CoverInv
<1>4. ASSUME NEW e \in Endpoints, NEW t \in Addresses, TimerFires(e, t) PROVE CoverInv'
  <2>1. rules' = rules /\ timers' = [timers EXCEPT ![e][t] = "due"]
    BY <1>4 DEF TimerFires
  <2>2. BlockCovered'
    BY <2>1 DEF CoverInv, BlockCovered, TypeOK, Targets
  <2> QED
    BY <1>0, <2>2 DEF CoverInv
<1>5. CASE Operator
  <2>1. ASSUME NEW e \in Endpoints, Install(e) PROVE FALSE
    BY <2>1 DEF Install, SteadyHosts, TypeOK
  <2> QED
    BY <1>1, <1>5, <2>1 DEF Operator, ExecuteNow, Revoke, Enrol, Update, Delete
<1>6. CASE Ingestion
  BY <1>1, <1>6 DEF Ingestion, Respond, Dispatch, MarkPending, MarkFails
<1>7. ASSUME NEW e \in Endpoints, AgentLoop(e) \/ SiemPoll(e) PROVE CoverInv'
  BY <1>1, <1>2, <1>3, <1>7 DEF AgentLoop, AgentPoll, Receive, PollFailed, ReportResult,
    SiemPoll, SiemRead, SiemCommit
<1>8. CASE Handlers
  BY <1>1, <1>8 DEF Handlers, StrayRead, StrayCommit, ReceiveResult
<1>9. CASE Time \/ SiemRestart \/ UNCHANGED vars
  BY <1>1, <1>4, <1>9 DEF Time, OrderAges, SiemRestart, vars
<1>10. CASE Failures
  <2>1. ASSUME NEW e \in Endpoints, ApplyFails(e) \/ ExpireFails(e) \/ AgentRestart(e)
        PROVE  FALSE
    BY <2>1 DEF ApplyFails, ExpireFails, AgentRestart, Fault, SteadyHosts
  <2> QED
    BY <1>1, <1>10, <2>1 DEF Failures, CommitFails, PollLost, PollTimeout, ReportLost,
      SiemCrash
<1> QED
  BY <1>5, <1>6, <1>7, <1>8, <1>9, <1>10 DEF Next

\* On hosts that are not Linux, and as long as agents do not restart and
\* commands do not fail, no block is ever without the timer that lifts it.
THEOREM BlocksAreCovered == ASSUME SteadyHosts PROVE Spec => []BlockCovered
<1>1. TypeOK /\ CoverInv /\ [Next]_vars => TypeOK' /\ CoverInv'
  BY SteadyHosts, NextType, NextCover
<1>2. CoverInv => BlockCovered
  BY DEF CoverInv
<1> QED
  BY <1>1, <1>2, InitType, InitCover, PTL DEF Spec

-----------------------------------------------------------------------------
\* Orders of one endpoint run in the order they were issued.

\* No order is in anybody's hand at the start.
LEMMA InitOrder == Init => OrderInv
<1> SUFFICES ASSUME Init PROVE OrderInv
  OBVIOUS
<1>1. DOMAIN orders = {} /\ \A e \in Endpoints : hand[e] = {}
  BY DEF Init
<1> QED
  BY <1>1 DEF OrderInv, RunInOrder, HeldInOrder

\* Nothing older returns to the queue and nobody is handed anything.
LEMMA OrderRows ==
    ASSUME TypeOK, TruthInv, OrderInv, DOMAIN orders' \subseteq OrderIds,
           DOMAIN orders \subseteq DOMAIN orders',
           \A o \in DOMAIN orders :
              /\ orders'[o].ep = orders[o].ep
              /\ orders'[o].status = "queued" => orders[o].status = "queued",
           \A o \in DOMAIN orders' \ DOMAIN orders : o = Len(orders) + 1,
           UNCHANGED ran,
           \A e \in Endpoints :
              /\ hand'[e] \subseteq hand[e]
              /\ hand'[e] # {} => \/ stage'[e] = "reading" /\ retire'[e] = retire[e]
                                     /\ hand'[e] = hand[e]
                                  \/ stage[e] # "reading"
                                  \/ \A o \in hand[e] \cup retire[e] :
                                        o \in DOMAIN orders => orders'[o].status # "queued"
    PROVE  OrderInv'
<1>1. DOMAIN orders = 1..Len(orders) /\ Len(orders) \in Nat
  BY DEF TypeOK
<1>2. \A p \in DOMAIN orders, o \in DOMAIN orders' : o < p => o \in DOMAIN orders
  BY <1>1
<1>3. \A p \in DOMAIN orders' : ran[p] = 1 => p \in DOMAIN orders
  BY DEF TruthInv, RanOnce
<1>4. RunInOrder'
  <2> SUFFICES ASSUME NEW o \in DOMAIN orders', NEW p \in DOMAIN orders',
                      o < p, orders'[o].ep = orders'[p].ep, ran[p] = 1
               PROVE  orders'[o].status # "queued" /\ o \notin hand'[orders'[o].ep]
    BY DEF RunInOrder
  <2>1. p \in DOMAIN orders /\ o \in DOMAIN orders
    BY <1>2, <1>3
  <2>2. orders[o].status # "queued" /\ o \notin hand[orders[o].ep]
    BY <2>1 DEF OrderInv, RunInOrder
  <2>3. orders[o] \in Order
    BY <2>1 DEF TypeOK
  <2>4. orders[o].ep \in Endpoints /\ orders'[o].ep = orders[o].ep
    BY <2>1, <2>3 DEF Order
  <2> QED
    BY <2>1, <2>2, <2>4
<1>5. HeldInOrder'
  <2> SUFFICES ASSUME NEW e \in Endpoints, NEW p \in hand'[e], NEW o \in DOMAIN orders',
                      o < p, orders'[o].ep = e, orders'[o].status = "queued"
               PROVE  stage'[e] = "reading" /\ o \in hand'[e] \cup retire'[e]
    BY DEF HeldInOrder
  <2>1. p \in hand[e] /\ p \in DOMAIN orders /\ o \in DOMAIN orders
    BY <1>2, KnownOrders
  <2>2. stage[e] = "reading" /\ o \in hand[e] \cup retire[e]
    BY <2>1 DEF OrderInv, HeldInOrder
  <2> QED
    BY <2>1, <2>2
<1> QED
  BY <1>4, <1>5 DEF OrderInv

\* The oldest n of a set of queued orders leave nothing older behind.
LEMMA OldestIsPrefix ==
    ASSUME NEW S \in SUBSET Nat, IsFiniteSet(S), NEW n \in Nat,
           NEW p \in Oldest(S, n), NEW o \in S, o < p
    PROVE  o \in Oldest(S, n)
<1> DEFINE Upto(q) == {r \in S : r <= q}
<1>1. IsFiniteSet(Upto(p)) /\ Upto(o) \subseteq Upto(p)
  <2>0. p \in Nat /\ o \in Nat
    BY DEF Oldest
  <2>1. ASSUME NEW r \in S, r <= o PROVE r <= p
    <3>1. r \in Nat
      OBVIOUS
    <3> QED
      BY <2>0, <2>1, <3>1
  <2>2. Upto(p) \subseteq S /\ Upto(o) \subseteq Upto(p)
    BY <2>1
  <2> QED
    BY <2>2, FS_Subset
<1>2. /\ IsFiniteSet(Upto(o)) /\ Cardinality(Upto(o)) <= Cardinality(Upto(p))
      /\ Cardinality(Upto(o)) \in Nat /\ Cardinality(Upto(p)) \in Nat
  BY <1>1, FS_Subset, FS_CardinalityType
<1>3. Cardinality(Upto(p)) <= n
  BY DEF Oldest
<1>4. Cardinality(Upto(o)) <= n
  BY <1>2, <1>3
<1> QED
  BY <1>4 DEF Oldest

\* Every step keeps what is queued and held in order.
LEMMA NextOrder ==
    ASSUME TypeOK, TypeOK', TruthInv, OrderInv, [Next]_vars
    PROVE  OrderInv'
<1> USE DEF registry, database, threads, loop, host, network, budgets, history, Change
<1>0. /\ DOMAIN orders' \subseteq OrderIds
      /\ orders \in Seq(Order) /\ Len(orders) <= MaxOrders
  <2>1. orders' \in Seq(Order) /\ Len(orders') <= MaxOrders
    BY DEF TypeOK
  <2>2. DOMAIN orders' = 1..Len(orders') /\ Len(orders') \in Nat
    BY <2>1
  <2> QED
    BY <2>1, <2>2, BoundAssumption DEF TypeOK, OrderIds
<1>1. ASSUME UNCHANGED <<orders, ran>>,
             \A e \in Endpoints :
                \/ UNCHANGED <<hand[e], stage[e], retire[e]>>
                \/ hand'[e] = {}
                \/ stage[e] # "reading" /\ hand'[e] \subseteq hand[e]
      PROVE  OrderInv'
  <2>1. \A e \in Endpoints :
              /\ hand'[e] \subseteq hand[e]
              /\ hand'[e] # {} => \/ stage'[e] = "reading" /\ retire'[e] = retire[e]
                                     /\ hand'[e] = hand[e]
                                  \/ stage[e] # "reading"
    BY <1>1
  <2> QED
    BY <1>0, <1>1, <2>1, OrderRows
<1>2. ASSUME UNCHANGED <<loop, ran>>,
             DOMAIN orders \subseteq DOMAIN orders',
             \A o \in DOMAIN orders :
                /\ orders'[o].ep = orders[o].ep
                /\ orders'[o].status = "queued" => orders[o].status = "queued",
             \A o \in DOMAIN orders' \ DOMAIN orders : o = Len(orders) + 1
      PROVE  OrderInv'
  <2>1. \A e \in Endpoints :
              /\ hand'[e] \subseteq hand[e]
              /\ hand'[e] # {} => \/ stage'[e] = "reading" /\ retire'[e] = retire[e]
                                     /\ hand'[e] = hand[e]
                                  \/ stage[e] # "reading"
    BY <1>2
  <2> QED
    BY <1>0, <1>2, <2>1, OrderRows
<1>3. ASSUME NEW a \in Actions, Dispatch(a) \/ ExecuteNow(a) PROVE OrderInv'
  <2>1. ExecuteAction(a) /\ UNCHANGED <<loop, ran>>
    BY <1>3 DEF Dispatch, ExecuteNow
  <2>2. CASE NoVerb(a) \/ NotExecuted(a) \/ QueueFails(a)
    BY <1>1, <2>1, <2>2 DEF NoVerb, NotExecuted, QueueFails
  <2>3. CASE OrderQueued(a)
    <3>1. PICK e \in AgentFor(a) : Queue(e, Contain(ActTarget[a]), ActTarget[a], a)
      BY <2>3 DEF OrderQueued
    <3>2. e \in Endpoints /\ ActTarget[a] \in Targets /\ Contain(ActTarget[a]) \in Verbs
      BY DecisionAssumption, VerbKinds DEF AgentFor, Enabled
    <3>3. /\ DOMAIN orders \subseteq DOMAIN orders'
          /\ \A o \in DOMAIN orders : orders'[o] = orders[o]
          /\ \A o \in DOMAIN orders' \ DOMAIN orders : o = Len(orders) + 1
      BY <1>0, <3>1, <3>2, QueueRows
    <3> QED
      BY <1>2, <2>1, <3>3
  <2> QED
    BY <2>1, <2>2, <2>3 DEF ExecuteAction
<1>4. ASSUME NEW o \in DOMAIN orders, Revoke(o) PROVE OrderInv'
  <2>1. orders[o] \in Order
    BY <1>0
  <2>2. /\ orders[o].ep \in Endpoints /\ orders[o].target \in Targets
        /\ InverseAction(orders[o].verb) \in Verbs /\ NoAction \in Actions \cup {NoAction}
    BY <2>1, VerbKinds DEF Order
  <2>3. Queue(orders[o].ep, InverseAction(orders[o].verb), orders[o].target, NoAction)
    BY <1>4 DEF Revoke
  <2>4. /\ DOMAIN orders \subseteq DOMAIN orders'
        /\ \A p \in DOMAIN orders : orders'[p] = orders[p]
        /\ \A p \in DOMAIN orders' \ DOMAIN orders : p = Len(orders) + 1
    BY <1>0, <2>2, <2>3, QueueRows
  <2> QED
    BY <1>2, <1>4, <2>4 DEF Revoke
<1>5. ASSUME NEW r \in results, ReceiveResult(r) PROVE OrderInv'
  <2>1. CASE ~Accepted(r)
    BY <1>1, <1>5, <2>1 DEF ReceiveResult
  <2>2. CASE Accepted(r)
    <3>1. orders' = SetStatus({r.o}, IF r.ok THEN "succeeded" ELSE "failed", orders)
      BY <1>5, <2>2 DEF ReceiveResult, Recorded
    <3>2. (IF r.ok THEN "succeeded" ELSE "failed") \in OrderStates \ {"queued"}
      BY DEF OrderStates
    <3>3. /\ DOMAIN orders' = DOMAIN orders
          /\ \A o \in DOMAIN orders :
                /\ orders'[o].ep = orders[o].ep
                /\ orders'[o].status = "queued" => orders[o].status = "queued"
      BY <1>0, <3>1, <3>2, SetStatusRows
    <3> QED
      BY <1>2, <1>5, <3>3 DEF ReceiveResult
  <2> QED
    BY <2>1, <2>2
<1>6. ASSUME NEW s \in stray, StrayCommit(s) PROVE OrderInv'
  <2>1. orders' = Collect(s.hand, s.retire, orders)
    BY <1>6 DEF StrayCommit
  <2>2. /\ DOMAIN orders' = DOMAIN orders
        /\ \A o \in DOMAIN orders :
              /\ orders'[o].ep = orders[o].ep
              /\ orders'[o].status = "queued" => orders[o].status = "queued"
    BY <1>0, <2>1, CollectRows
  <2> QED
    BY <1>2, <1>6, <2>2 DEF StrayCommit
<1>7. ASSUME NEW e \in Endpoints, SiemCommit(e) PROVE OrderInv'
  <2>1. orders' = Collect(hand[e], retire[e], orders) /\ UNCHANGED ran
    BY <1>7 DEF SiemCommit
  <2>2. /\ DOMAIN orders' = DOMAIN orders
        /\ \A o \in DOMAIN orders :
              /\ orders'[o].ep = orders[o].ep
              /\ orders'[o].status = "queued" => orders[o].status = "queued"
              /\ o \in hand[e] \cup retire[e] => orders'[o].status # "queued"
    BY <1>0, <2>1, CollectRows
  <2>3. /\ hand'[e] \subseteq hand[e]
        /\ \A f \in Endpoints : f # e => UNCHANGED <<hand[f], stage[f], retire[f]>>
    BY <1>7 DEF SiemCommit, TypeOK
  <2>4. \A f \in Endpoints :
              /\ hand'[f] \subseteq hand[f]
              /\ hand'[f] # {} => \/ stage'[f] = "reading" /\ retire'[f] = retire[f]
                                     /\ hand'[f] = hand[f]
                                  \/ stage[f] # "reading"
                                  \/ \A o \in hand[f] \cup retire[f] :
                                        o \in DOMAIN orders => orders'[o].status # "queued"
    BY <2>2, <2>3
  <2> QED
    BY <1>0, <2>1, <2>2, <2>4, OrderRows
<1>8. ASSUME NEW e \in Endpoints, SiemRead(e) PROVE OrderInv'
  <2>1. /\ UNCHANGED <<orders, ran>> /\ hand'[e] = Deliverable(e)
        /\ retire'[e] = Retirable(e)
        /\ stage'[e] = IF reg[e] = "on" THEN "reading" ELSE "answered"
        /\ \A f \in Endpoints : f # e => UNCHANGED <<hand[f], stage[f], retire[f]>>
    BY <1>8 DEF SiemRead, TypeOK
  <2>2. RunInOrder'
    <3> SUFFICES ASSUME NEW o \in DOMAIN orders, NEW p \in DOMAIN orders,
                        o < p, orders[o].ep = orders[p].ep, ran[p] = 1
                 PROVE  orders[o].status # "queued" /\ o \notin hand'[orders[o].ep]
      BY <2>1 DEF RunInOrder
    <3>1. orders[o].status # "queued" /\ o \notin hand[orders[o].ep]
      BY DEF OrderInv, RunInOrder
    <3>2. orders[o] \in Order
      BY <1>0
    <3>3. orders[o].ep \in Endpoints
      BY <3>2 DEF Order
    <3>4. o \notin Deliverable(e)
      BY <3>1 DEF Deliverable, Oldest, Queued
    <3> QED
      BY <2>1, <3>1, <3>3, <3>4
  <2>3. HeldInOrder'
    <3> SUFFICES ASSUME NEW f \in Endpoints, NEW p \in hand'[f], NEW o \in DOMAIN orders,
                        o < p, orders[o].ep = f, orders[o].status = "queued"
                 PROVE  stage'[f] = "reading" /\ o \in hand'[f] \cup retire'[f]
      BY <2>1 DEF HeldInOrder
    <3>1. CASE f # e
      BY <2>1, <3>1 DEF OrderInv, HeldInOrder
    <3>2. CASE f = e
      <4>1. p \in Oldest(Queued(e), BatchMax) /\ reg[e] = "on"
        BY <2>1, <3>2 DEF Deliverable
      <4>2. o \in Queued(e)
        BY <3>2 DEF Queued
      <4>3. Queued(e) \in SUBSET Nat /\ IsFiniteSet(Queued(e))
        <5>1. Queued(e) \subseteq 1..Len(orders) /\ Len(orders) \in Nat
          BY <1>0 DEF Queued
        <5>2. IsFiniteSet(1..Len(orders))
          BY <5>1, FS_Interval
        <5> QED
          BY <5>1, <5>2, FS_Subset
      <4>4. o \in Oldest(Queued(e), BatchMax)
        BY <4>1, <4>2, <4>3, BoundAssumption, OldestIsPrefix
      <4>5. o \in Deliverable(e) \cup Retirable(e)
        BY <4>1, <4>4 DEF Deliverable, Retirable
      <4> QED
        BY <2>1, <3>2, <4>1, <4>5
    <3> QED
      BY <3>1, <3>2
  <2> QED
    BY <2>2, <2>3 DEF OrderInv
<1>9. ASSUME NEW e \in Endpoints, ApplyOrder(e) \/ ApplyFails(e) PROVE OrderInv'
  <2>1. \E o \in hand[e] : \E out : NextInHand(e, o) /\ RunOrder(e, o, out)
    BY <1>9 DEF ApplyOrder, ApplyFails
  <2>2. PICK q \in hand[e] : NextInHand(e, q) /\ \E out : RunOrder(e, q, out)
    BY <2>1
  <2>3. /\ UNCHANGED <<orders, retire>> /\ ran' = [ran EXCEPT ![q] = @ + 1]
        /\ hand' = [hand EXCEPT ![e] = @ \ {q}]
        /\ stage' = [stage EXCEPT ![e] = "report"] /\ stage[e] = "applying"
    BY <1>9, <2>2 DEF RunOrder, ApplyOrder, ApplyFails
  <2>4. /\ q \in DOMAIN orders /\ q \in OrderIds /\ orders[q].ep = e
        /\ orders[q].status # "queued"
    BY <2>3, KnownOrders DEF TruthInv, HandFresh
  <2>5. \A f \in Endpoints : hand'[f] \subseteq hand[f]
    BY <2>3 DEF TypeOK
  <2>6. RunInOrder'
    <3> SUFFICES ASSUME NEW o \in DOMAIN orders, NEW p \in DOMAIN orders,
                        o < p, orders[o].ep = orders[p].ep, ran'[p] = 1
                 PROVE  orders[o].status # "queued" /\ o \notin hand'[orders[o].ep]
      BY <2>3 DEF RunInOrder
    <3>0. orders[o] \in Order
      BY <1>0
    <3>1. orders[o].ep \in Endpoints
      BY <3>0 DEF Order
    <3>2. CASE p = q
      <4>1. orders[o].status # "queued"
        BY <2>3, <2>4, <3>2 DEF OrderInv, HeldInOrder
      <4>2. o \notin hand[e]
        <5>0. DOMAIN orders = 1..Len(orders) /\ Len(orders) \in Nat
          BY <1>0
        <5>1. o \in Nat /\ q \in Nat
          BY <5>0, <2>4
        <5> QED
          BY <2>2, <3>2, <5>1 DEF NextInHand
      <4> QED
        BY <2>4, <2>5, <3>1, <3>2, <4>1, <4>2
    <3>3. CASE p # q
      <4>1. ran[p] = 1
        BY <2>3, <2>4, <3>3, KnownOrders DEF TypeOK
      <4> QED
        BY <2>5, <3>1, <4>1 DEF OrderInv, RunInOrder
    <3> QED
      BY <3>2, <3>3
  <2>7. HeldInOrder'
    <3> SUFFICES ASSUME NEW f \in Endpoints, NEW p \in hand'[f], NEW o \in DOMAIN orders,
                        o < p, orders[o].ep = f, orders[o].status = "queued"
                 PROVE  stage'[f] = "reading" /\ o \in hand'[f] \cup retire'[f]
      BY <2>3 DEF HeldInOrder
    <3>1. stage[f] = "reading" /\ o \in hand[f] \cup retire[f]
      BY <2>5 DEF OrderInv, HeldInOrder
    <3>2. f # e
      BY <2>3, <3>1
    <3> QED
      BY <2>3, <3>1, <3>2 DEF TypeOK
  <2> QED
    BY <2>6, <2>7 DEF OrderInv
<1>10. CASE Operator
  <2>1. ASSUME NEW e \in Endpoints, Enrol(e) \/ Update(e) PROVE OrderInv'
    BY <1>1, <2>1 DEF Enrol, Update
  <2>2. ASSUME NEW e \in Endpoints, Delete(e) PROVE OrderInv'
    BY <1>1, <2>2 DEF Delete, TypeOK
  <2>3. ASSUME NEW e \in Endpoints, Install(e) PROVE OrderInv'
    BY <1>1, <2>3 DEF Install, Forget, TypeOK
  <2> QED
    BY <1>3, <1>4, <1>10, <2>1, <2>2, <2>3 DEF Operator
<1>11. CASE Ingestion
  <2>1. ASSUME NEW a \in Actions, Respond(a) PROVE OrderInv'
    BY <1>1, <2>1 DEF Respond
  <2>2. ASSUME NEW o \in marking, MarkPending(o) \/ MarkFails(o) PROVE OrderInv'
    BY <1>1, <2>2 DEF MarkPending, MarkFails
  <2> QED
    BY <1>3, <1>11, <2>1, <2>2 DEF Ingestion
<1>12. ASSUME NEW e \in Endpoints, AgentLoop(e) \/ SiemPoll(e) PROVE OrderInv'
  <2>1. CASE AgentPoll(e) \/ Receive(e) \/ PollFailed(e)
    BY <1>1, <2>1 DEF AgentPoll, Receive, PollFailed, TypeOK
  <2>2. CASE ReportResult(e)
    BY <1>1, <2>2 DEF ReportResult, TypeOK
  <2>3. CASE Expire(e)
    BY <1>1, <2>3 DEF Expire, LiftDue, TypeOK
  <2> QED
    BY <1>7, <1>8, <1>9, <1>12, <2>1, <2>2, <2>3 DEF AgentLoop, SiemPoll
<1>13. CASE Handlers
  <2>1. ASSUME NEW s \in stray, StrayRead(s) PROVE OrderInv'
    BY <1>1, <2>1 DEF StrayRead
  <2> QED
    BY <1>5, <1>6, <1>13, <2>1 DEF Handlers
<1>14. CASE Time \/ SiemRestart \/ UNCHANGED vars
  BY <1>1, <1>14 DEF Time, OrderAges, TimerFires, SiemRestart, vars
<1>15. CASE Failures
  <2>1. ASSUME NEW e \in Endpoints, CommitFails(e) PROVE OrderInv'
    BY <1>1, <2>1 DEF CommitFails, TypeOK
  <2>2. ASSUME NEW e \in Endpoints, PollLost(e) PROVE OrderInv'
    BY <1>1, <2>2 DEF PollLost, TypeOK
  <2>3. ASSUME NEW e \in Endpoints, PollTimeout(e) PROVE OrderInv'
    BY <1>1, <2>3 DEF PollTimeout, TypeOK
  <2>4. ASSUME NEW e \in Endpoints, ReportLost(e) PROVE OrderInv'
    BY <1>1, <2>4 DEF ReportLost, TypeOK
  <2>5. ASSUME NEW e \in Endpoints, ExpireFails(e) PROVE OrderInv'
    BY <1>1, <2>5 DEF ExpireFails, LiftDue, TypeOK
  <2>6. ASSUME NEW e \in Endpoints, AgentRestart(e) PROVE OrderInv'
    BY <1>1, <2>6 DEF AgentRestart, Forget, TypeOK
  <2>7. ASSUME SiemCrash PROVE OrderInv'
    BY <1>1, <2>7 DEF SiemCrash, TypeOK
  <2> QED
    BY <1>9, <1>15, <2>1, <2>2, <2>3, <2>4, <2>5, <2>6, <2>7 DEF Failures
<1> QED
  BY <1>10, <1>11, <1>12, <1>13, <1>14, <1>15 DEF Next

\* Only an agent running an order it holds changes what has been run.
LEMMA RanByHolder ==
    ASSUME TypeOK, TruthInv, [Next]_vars, NEW o \in DOMAIN orders, ran'[o] # ran[o]
    PROVE  o \in hand[orders[o].ep]
<1> USE DEF registry, database, threads, loop, host, network, budgets, history, Change
<1>1. ran' # ran
  OBVIOUS
<1>2. \E e \in Endpoints : ApplyOrder(e) \/ ApplyFails(e)
  <2>1. [Operator \/ Ingestion \/ Handlers \/ Time \/ SiemRestart]_vars => ran' = ran
    BY DEF Operator, Ingestion, Handlers, Time, vars, ReceiveResult, ExecuteNow, Revoke,
      Enrol, Update, Delete, Install, Forget, Respond, Dispatch, MarkPending, MarkFails, StrayRead,
      StrayCommit, OrderAges, TimerFires, SiemRestart
  <2>2. ASSUME NEW e \in Endpoints, AgentLoop(e) \/ SiemPoll(e)
        PROVE  ApplyOrder(e) \/ ran' = ran
    BY <2>2 DEF AgentLoop, SiemPoll, AgentPoll, Receive, PollFailed, ReportResult, Expire,
      LiftDue, SiemRead, SiemCommit
  <2>3. Failures => ran' = ran \/ \E e \in Endpoints : ApplyFails(e)
    BY DEF Failures, CommitFails, PollLost, PollTimeout, ReportLost, ExpireFails, LiftDue,
      AgentRestart, Forget, SiemCrash
  <2> QED
    BY <1>1, <2>1, <2>2, <2>3 DEF Next
<1>3. PICK e \in Endpoints, q \in OrderIds : q \in hand[e] /\ ran' = [ran EXCEPT ![q] = @ + 1]
  <2>1. PICK e \in Endpoints : ApplyOrder(e) \/ ApplyFails(e)
    BY <1>2
  <2>2. \E q \in hand[e] : ran' = [ran EXCEPT ![q] = @ + 1]
    BY <2>1 DEF ApplyOrder, ApplyFails, RunOrder
  <2> QED
    BY <2>2, KnownOrders
<1>4. o = q
  BY <1>3, KnownOrders DEF TypeOK
<1> QED
  BY <1>3, <1>4 DEF TruthInv, HandFresh

\* An undo never overtakes the order it undoes: orders of one endpoint are
\* run in the order they were issued, whatever overlaps, fails or restarts.
THEOREM OrdersRunInOrder == Spec => InOrder
<1>1. TypeOK /\ TruthInv /\ OrderInv /\ [Next]_vars => TypeOK' /\ TruthInv' /\ OrderInv'
  BY NextType, NextTruth, NextOrder
<1>2. TypeOK /\ TruthInv /\ OrderInv /\ [Next]_vars =>
        [\A o, p \in DOMAIN orders :
            o < p /\ orders[o].ep = orders[p].ep /\ ran[p] > 0 => ran'[o] = ran[o]]_vars
  <2> SUFFICES ASSUME TypeOK, TruthInv, OrderInv, [Next]_vars,
                      NEW o \in DOMAIN orders, NEW p \in DOMAIN orders,
                      o < p, orders[o].ep = orders[p].ep, ran[p] > 0
               PROVE  ran'[o] = ran[o]
    OBVIOUS
  <2>1. ran[p] = 1
    BY KnownOrders DEF TruthInv, RanOnce
  <2>2. o \notin hand[orders[o].ep]
    BY <2>1 DEF OrderInv, RunInOrder
  <2> QED
    BY <2>2, RanByHolder
<1> QED
  BY <1>1, <1>2, InitType, InitTruth, InitOrder, PTL DEF Spec, InOrder

-----------------------------------------------------------------------------
(***************************************************************************)
(* Containment implements ContainmentPromise while no two polls of one     *)
(* endpoint overlap (MaxStray = 0), for every number of endpoints, orders, *)
(* faults and registry changes.                                            *)
(*                                                                         *)
(*   PollsOneByOne     OnePollInv is an invariant                          *)
(*   RetiredNeverRuns  an order retired as expired is never applied        *)
(*   VerdictIsFinal    nothing rewrites an outcome of the ledger           *)
(*   ChainKeepsPromise every step is a step of the promise, or a stutter   *)
(*                                                                         *)
(* What is needed beyond TruthInv and OrderInv: an open poll is the only   *)
(* one that can touch the orders it read, and an outcome that is still on  *)
(* its way, in an agent or in a request, is the only one of its order.     *)
(***************************************************************************)

\* What an agent holds is queued while its poll is open and delivered once
\* it is answered; what the poll will retire is queued until it commits.
HeldOnce ==
    /\ stray = {}
    /\ \A e \in Endpoints :
        /\ \A o \in hand[e] :
             orders[o].status = IF stage[e] = "reading" THEN "queued" ELSE "delivered"
        /\ \A o \in retire[e] :
             /\ stage[e] = "reading"
             /\ o \in DOMAIN orders /\ o \notin hand[e]
             /\ orders[o].ep = e /\ orders[o].status = "queued"

\* An order that has run is delivered until its one report is recorded, and
\* the report is in one place: with the agent, or in one request.
RanStatus ==
    \A o \in OrderIds : ran[o] = 1 =>
        orders[o].status \in {"delivered", "succeeded", "failed"}
ReportOpen ==
    \A e \in Endpoints : stage[e] = "report" =>
        /\ orders[cur[e].o].ep = e
        /\ orders[cur[e].o].status = "delivered"
        /\ \A r \in results : r.o # cur[e].o
ResultOpen ==
    /\ \A r \in results : orders[r.o].status = "delivered"
    /\ \A r, q \in results : r.o = q.o => r = q
ToldOnce == RanStatus /\ ReportOpen /\ ResultOpen

OnePollInv == HeldOnce /\ ToldOnce

\* Nothing is open at the start.
LEMMA InitOnePoll == Init => OnePollInv
<1> SUFFICES ASSUME Init PROVE OnePollInv
  OBVIOUS
<1> QED
  BY DEF Init, OnePollInv, HeldOnce, ToldOnce, RanStatus, ReportOpen, ResultOpen

\* Whoever gives nothing out and writes no status keeps OnePollInv: orders
\* may be added, and any poll may end with nothing in its hands.
LEMMA OnePollRows ==
    ASSUME TypeOK, TruthInv, OnePollInv,
           DOMAIN orders \subseteq DOMAIN orders',
           \A o \in DOMAIN orders : orders'[o] = orders[o],
           UNCHANGED ran, stray' = {}, results' \subseteq results,
           \A e \in Endpoints :
              /\ hand'[e] \in {hand[e], {}} /\ retire'[e] \in {retire[e], {}}
              /\ hand'[e] # {} => (stage'[e] = "reading" <=> stage[e] = "reading")
              /\ retire'[e] # {} => stage'[e] = stage[e] /\ hand'[e] = hand[e]
              /\ stage'[e] = "report" => stage[e] = "report" /\ cur'[e] = cur[e]
    PROVE  OnePollInv'
<1> USE DEF OnePollInv
<1>0. \A e \in Endpoints : hand[e] \subseteq DOMAIN orders
  BY KnownOrders
<1>1. HeldOnce'
  BY <1>0 DEF HeldOnce
<1>2. RanStatus'
  <2>1. \A o \in OrderIds : ran[o] = 1 => o \in DOMAIN orders
    BY DEF TruthInv, RanOnce
  <2> QED
    BY <2>1 DEF ToldOnce, RanStatus
<1>3. ReportOpen'
  <2>1. \A e \in Endpoints : stage[e] = "report" => cur[e].o \in DOMAIN orders
    BY DEF TruthInv, CurTrue
  <2> QED
    BY <2>1 DEF ToldOnce, ReportOpen
<1>4. ResultOpen'
  <2>1. \A r \in results : r.o \in DOMAIN orders
    BY DEF TruthInv, ResultsTrue
  <2> QED
    BY <2>1 DEF ToldOnce, ResultOpen
<1> QED
  BY <1>1, <1>2, <1>3, <1>4 DEF ToldOnce

\* The SELECT of a poll takes queued orders of its endpoint and parts them
\* by age.
LEMMA ReadKeeps ==
    ASSUME TypeOK, TruthInv, OnePollInv, NEW e \in Endpoints, SiemRead(e)
    PROVE  OnePollInv'
<1> USE DEF registry, database, threads, loop, host, network, budgets, history
<1>1. /\ UNCHANGED <<orders, ran, results, stray, cur>>
      /\ hand'[e] = Deliverable(e) /\ retire'[e] = Retirable(e)
      /\ stage'[e] = IF reg[e] = "on" THEN "reading" ELSE "answered"
      /\ \A f \in Endpoints : f # e => UNCHANGED <<hand[f], stage[f], retire[f]>>
  BY DEF SiemRead, TypeOK
<1>2. /\ reg[e] # "on" => hand'[e] = {} /\ retire'[e] = {}
      /\ hand'[e] \cap retire'[e] = {}
      /\ \A o \in hand'[e] \cup retire'[e] :
            o \in DOMAIN orders /\ orders[o].ep = e /\ orders[o].status = "queued"
  BY <1>1 DEF Deliverable, Retirable, Oldest, Queued
<1>3. HeldOnce'
  <2> SUFFICES ASSUME NEW f \in Endpoints
               PROVE  /\ \A o \in hand'[f] : orders[o].status =
                           IF stage'[f] = "reading" THEN "queued" ELSE "delivered"
                      /\ \A o \in retire'[f] :
                           /\ stage'[f] = "reading"
                           /\ o \in DOMAIN orders /\ o \notin hand'[f]
                           /\ orders[o].ep = f /\ orders[o].status = "queued"
    BY <1>1 DEF HeldOnce, OnePollInv
  <2> QED
    BY <1>1, <1>2 DEF HeldOnce, OnePollInv
<1>4. RanStatus' /\ ReportOpen' /\ ResultOpen'
  BY <1>1 DEF OnePollInv, ToldOnce, RanStatus, ReportOpen, ResultOpen
<1> QED
  BY <1>3, <1>4 DEF OnePollInv, ToldOnce

\* What the commit of a poll writes: only the orders the poll read change,
\* none of which anybody else holds or has run.
LEMMA CommitRows ==
    ASSUME TypeOK, TruthInv, OnePollInv, NEW e \in Endpoints, SiemCommit(e)
    PROVE  /\ DOMAIN orders' = DOMAIN orders
           /\ \A o \in hand[e] \cup retire[e] : ran[o] = 0 /\ o \in DOMAIN orders
           /\ \A o \in DOMAIN orders :
                /\ orders'[o].ep = orders[o].ep
                /\ o \in hand[e] => orders'[o].status = "delivered"
                /\ o \in retire[e] => orders'[o].status = "expired"
                /\ o \notin hand[e] \cup retire[e] =>
                      orders'[o].status = orders[o].status
           /\ UNCHANGED <<ran, worked, results, stray, cur>>
           /\ hand'[e] = (IF siemKey[e] = agentKey[e] THEN hand[e] ELSE {})
           /\ retire'[e] = {} /\ stage[e] = "reading" /\ stage'[e] = "answered"
           /\ \A f \in Endpoints : f # e => UNCHANGED <<hand[f], stage[f], retire[f]>>
<1> USE DEF registry, database, threads, loop, host, network, budgets, history
<1>1. orders \in Seq(Order) /\ orders' = Collect(hand[e], retire[e], orders)
  BY DEF SiemCommit, TypeOK
<1>2. /\ DOMAIN orders' = DOMAIN orders
      /\ \A o \in DOMAIN orders :
           /\ orders'[o].ep = orders[o].ep
           /\ orders'[o].status = (IF o \in retire[e] THEN "expired" ELSE
                                   IF o \in hand[e] THEN "delivered" ELSE orders[o].status)
  BY <1>1, CollectRows
<1>3. \A o \in retire[e] : o \notin hand[e] /\ o \in DOMAIN orders
                              /\ orders[o].status = "queued"
  BY DEF OnePollInv, HeldOnce
<1>4. \A o \in hand[e] \cup retire[e] : ran[o] = 0 /\ o \in DOMAIN orders
  BY <1>3, KnownOrders DEF TruthInv, HandFresh, RanOnce
<1>5. /\ UNCHANGED <<ran, worked, results, stray, cur>>
      /\ hand'[e] = (IF siemKey[e] = agentKey[e] THEN hand[e] ELSE {})
      /\ retire'[e] = {} /\ stage[e] = "reading" /\ stage'[e] = "answered"
      /\ \A f \in Endpoints : f # e => UNCHANGED <<hand[f], stage[f], retire[f]>>
  BY DEF SiemCommit, TypeOK
<1> QED
  BY <1>2, <1>3, <1>4, <1>5

\* The commit of a poll.
LEMMA CommitKeeps ==
    ASSUME TypeOK, TruthInv, OnePollInv, NEW e \in Endpoints, SiemCommit(e)
    PROVE  OnePollInv'
<1>1. \A f \in Endpoints : f # e =>
          \A o \in hand[f] \cup retire[f] :
             o \in DOMAIN orders /\ o \notin hand[e] \cup retire[e]
  <2>1. \A f \in Endpoints : \A o \in hand[f] \cup retire[f] :
            o \in DOMAIN orders /\ orders[o].ep = f
    BY KnownOrders DEF TruthInv, HandFresh, OnePollInv, HeldOnce
  <2> QED
    BY <2>1
<1>2. HeldOnce'
  <2> SUFFICES ASSUME NEW f \in Endpoints
               PROVE  /\ \A o \in hand'[f] : orders'[o].status =
                           IF stage'[f] = "reading" THEN "queued" ELSE "delivered"
                      /\ \A o \in retire'[f] :
                           /\ stage'[f] = "reading"
                           /\ o \in DOMAIN orders' /\ o \notin hand'[f]
                           /\ orders'[o].ep = f /\ orders'[o].status = "queued"
    BY CommitRows DEF HeldOnce, OnePollInv
  <2>1. CASE f = e
    BY <2>1, CommitRows
  <2>2. CASE f # e
    BY <1>1, <2>2, CommitRows DEF HeldOnce, OnePollInv
  <2> QED
    BY <2>1, <2>2
<1>3. \A o \in OrderIds : ran[o] = 1 =>
          o \in DOMAIN orders /\ orders'[o].status = orders[o].status
  BY CommitRows DEF TruthInv, RanOnce
<1>4. RanStatus'
  BY <1>3, CommitRows DEF OnePollInv, ToldOnce, RanStatus
<1>5. ReportOpen'
  <2> SUFFICES ASSUME NEW f \in Endpoints, stage'[f] = "report"
               PROVE  /\ orders'[cur[f].o].ep = f /\ orders'[cur[f].o].status = "delivered"
                      /\ \A r \in results : r.o # cur[f].o
    BY CommitRows DEF ReportOpen
  <2>1. stage[f] = "report"
    BY CommitRows
  <2>2. cur[f].o \in DOMAIN orders /\ cur[f].o \in OrderIds /\ ran[cur[f].o] = 1
    BY <2>1, KnownOrders DEF TruthInv, CurTrue
  <2> QED
    BY <1>3, <2>1, <2>2, CommitRows DEF OnePollInv, ToldOnce, ReportOpen
<1>6. ResultOpen'
  <2>1. \A r \in results : r.o \in OrderIds /\ ran[r.o] = 1
    BY KnownOrders DEF TruthInv, ResultsTrue
  <2> QED
    BY <1>3, <2>1, CommitRows DEF OnePollInv, ToldOnce, ResultOpen
<1> QED
  BY <1>2, <1>4, <1>5, <1>6 DEF OnePollInv, ToldOnce

\* What one executed order changes, whatever the executor answered.
LEMMA RunRows ==
    ASSUME TypeOK, TruthInv, NEW e \in Endpoints, ApplyOrder(e) \/ ApplyFails(e)
    PROVE  \E q \in hand[e], ok \in BOOLEAN :
             /\ NextInHand(e, q)
             /\ q \in DOMAIN orders /\ q \in OrderIds /\ orders[q].ep = e /\ ran[q] = 0
             /\ stage[e] = "applying" /\ stage'[e] = "report"
             /\ cur'[e] = [o |-> q, ok |-> ok] /\ hand'[e] = hand[e] \ {q}
             /\ ran'[q] = 1 /\ \A o \in OrderIds : o # q => ran'[o] = ran[o]
             /\ worked' = (IF ok THEN worked \cup {q} ELSE worked)
             /\ UNCHANGED <<orders, results, stray, retire>>
             /\ \A f \in Endpoints : f # e => UNCHANGED <<hand[f], stage[f], cur[f]>>
<1> USE DEF registry, database, threads, loop, host, network, budgets, history
<1>1. \E o \in hand[e] : \E out \in [ok : BOOLEAN, n : Nat] :
          NextInHand(e, o) /\ RunOrder(e, o, out)
  <2>1. ASSUME NEW o \in hand[e]
        PROVE  /\ Outcome(e, o) \in [ok : BOOLEAN, n : Nat]
               /\ rules[e][orders[o].target] \in Nat
    <3>1. o \in DOMAIN orders
      BY KnownOrders
    <3> QED
      BY <3>1, OutcomeType
  <2>2. \A o \in hand[e] : \A n \in {rules[e][orders[o].target], Outcome(e, o).n} :
          [ok |-> FALSE, n |-> n] \in [ok : BOOLEAN, n : Nat]
    BY <2>1
  <2>3. ApplyOrder(e) => \E o \in hand[e] : NextInHand(e, o) /\ RunOrder(e, o, Outcome(e, o))
    BY DEF ApplyOrder
  <2>4. ApplyFails(e) =>
          \E o \in hand[e] : NextInHand(e, o) /\
             \E n \in {rules[e][orders[o].target], Outcome(e, o).n} :
                RunOrder(e, o, [ok |-> FALSE, n |-> n])
    BY DEF ApplyFails
  <2> QED
    BY <2>1, <2>2, <2>3, <2>4
<1>2. PICK q \in hand[e] : \E out \in [ok : BOOLEAN, n : Nat] :
          NextInHand(e, q) /\ RunOrder(e, q, out)
  BY <1>1
<1>3. PICK out \in [ok : BOOLEAN, n : Nat] : NextInHand(e, q) /\ RunOrder(e, q, out)
  BY <1>2
<1>4. q \in DOMAIN orders /\ q \in OrderIds /\ orders[q].ep = e /\ ran[q] = 0
  BY KnownOrders DEF TruthInv, HandFresh
<1>5. out.ok \in BOOLEAN /\ stage[e] = "applying"
  BY DEF ApplyOrder, ApplyFails
<1>6. /\ stage'[e] = "report" /\ cur'[e] = [o |-> q, ok |-> out.ok]
      /\ hand'[e] = hand[e] \ {q}
      /\ worked' = (IF out.ok THEN worked \cup {q} ELSE worked)
      /\ UNCHANGED <<orders, results, stray, retire>>
      /\ \A f \in Endpoints : f # e => UNCHANGED <<hand[f], stage[f], cur[f]>>
  BY <1>3 DEF RunOrder, TypeOK
<1>7. ran'[q] = 1 /\ \A o \in OrderIds : o # q => ran'[o] = ran[o]
  BY <1>3, <1>4 DEF RunOrder, TypeOK
<1> QED
  BY <1>3, <1>4, <1>5, <1>6, <1>7

\* An order is run: its one report is now with the agent.
LEMMA RunKeeps ==
    ASSUME TypeOK, TruthInv, OnePollInv,
           NEW e \in Endpoints, ApplyOrder(e) \/ ApplyFails(e)
    PROVE  OnePollInv'
<1>1. PICK q \in hand[e], ok \in BOOLEAN :
             /\ NextInHand(e, q)
             /\ q \in DOMAIN orders /\ q \in OrderIds /\ orders[q].ep = e /\ ran[q] = 0
             /\ stage[e] = "applying" /\ stage'[e] = "report"
             /\ cur'[e] = [o |-> q, ok |-> ok] /\ hand'[e] = hand[e] \ {q}
             /\ ran'[q] = 1 /\ \A o \in OrderIds : o # q => ran'[o] = ran[o]
             /\ worked' = (IF ok THEN worked \cup {q} ELSE worked)
             /\ UNCHANGED <<orders, results, stray, retire>>
             /\ \A f \in Endpoints : f # e => UNCHANGED <<hand[f], stage[f], cur[f]>>
  BY RunRows
<1>2. orders[q].status = "delivered" /\ retire[e] = {}
  BY <1>1 DEF OnePollInv, HeldOnce
<1>3. HeldOnce'
  BY <1>1, <1>2 DEF OnePollInv, HeldOnce
<1>4. RanStatus'
  BY <1>1, <1>2 DEF OnePollInv, ToldOnce, RanStatus
<1>5. ReportOpen'
  <2>1. \A r \in results : r.o # q
    BY <1>1 DEF TruthInv, ResultsTrue
  <2> SUFFICES ASSUME NEW f \in Endpoints, stage'[f] = "report"
               PROVE  /\ orders[cur'[f].o].ep = f /\ orders[cur'[f].o].status = "delivered"
                      /\ \A r \in results : r.o # cur'[f].o
    BY <1>1 DEF ReportOpen
  <2>2. CASE f = e
    BY <1>1, <1>2, <2>1, <2>2
  <2>3. CASE f # e
    BY <1>1, <2>3 DEF OnePollInv, ToldOnce, ReportOpen
  <2> QED
    BY <2>2, <2>3
<1>6. ResultOpen'
  BY <1>1 DEF OnePollInv, ToldOnce, ResultOpen
<1> QED
  BY <1>3, <1>4, <1>5, <1>6 DEF OnePollInv, ToldOnce

\* The report goes from the agent into a request, or nowhere.
LEMMA ReportKeeps ==
    ASSUME TypeOK, TruthInv, OnePollInv, NEW e \in Endpoints, ReportResult(e)
    PROVE  OnePollInv'
<1> USE DEF registry, database, threads, loop, host, network, budgets, history
<1> DEFINE sent == [o |-> cur[e].o, ok |-> cur[e].ok, key |-> agentKey[e]]
<1>1. /\ UNCHANGED <<orders, ran, stray, hand, retire>>
      /\ results' \subseteq results \cup {sent}
      /\ stage[e] = "report" /\ stage'[e] \in {"expiring", "applying"}
      /\ \A f \in Endpoints : f # e => UNCHANGED <<stage[f], cur[f]>>
  BY DEF ReportResult, NextStage, TypeOK
<1>2. sent.o = cur[e].o
  OBVIOUS
<1> HIDE DEF sent
<1>3. /\ orders[cur[e].o].ep = e /\ orders[cur[e].o].status = "delivered"
      /\ \A r \in results : r.o # cur[e].o
  BY <1>1 DEF OnePollInv, ToldOnce, ReportOpen
<1>4. HeldOnce'
  BY <1>1 DEF OnePollInv, HeldOnce
<1>5. RanStatus'
  BY <1>1 DEF OnePollInv, ToldOnce, RanStatus
<1>6. ReportOpen'
  <2> SUFFICES ASSUME NEW f \in Endpoints, stage'[f] = "report"
               PROVE  /\ orders[cur'[f].o].ep = f /\ orders[cur'[f].o].status = "delivered"
                      /\ \A r \in results' : r.o # cur'[f].o
    BY <1>1 DEF ReportOpen
  <2>1. f # e /\ stage[f] = "report" /\ cur'[f] = cur[f]
    BY <1>1
  <2>2. /\ orders[cur[f].o].ep = f /\ orders[cur[f].o].status = "delivered"
        /\ \A r \in results : r.o # cur[f].o
    BY <2>1 DEF OnePollInv, ToldOnce, ReportOpen
  <2>3. cur[f].o # cur[e].o
    BY <1>3, <2>1, <2>2
  <2> QED
    BY <1>1, <1>2, <2>1, <2>2, <2>3
<1>7. ResultOpen'
  <2>1. \A r \in results : orders[r.o].status = "delivered"
    BY DEF OnePollInv, ToldOnce, ResultOpen
  <2>2. \A r, q \in results : r.o = q.o => r = q
    BY DEF OnePollInv, ToldOnce, ResultOpen
  <2> QED
    BY <1>1, <1>2, <1>3, <2>1, <2>2 DEF ResultOpen
<1> QED
  BY <1>4, <1>5, <1>6, <1>7 DEF OnePollInv, ToldOnce

\* The SIEM writes an outcome that was open, and refuses or forgets the rest.
LEMMA OutcomeRows ==
    ASSUME TypeOK, TruthInv, OnePollInv, NEW r \in results, ReceiveResult(r)
    PROVE  /\ r.o \in DOMAIN orders /\ r.o \in OrderIds /\ ran[r.o] = 1
           /\ orders[r.o].status = "delivered"
           /\ DOMAIN orders' = DOMAIN orders
           /\ \A o \in DOMAIN orders :
                /\ orders'[o].ep = orders[o].ep
                /\ o # r.o => orders'[o].status = orders[o].status
           /\ orders'[r.o].status \in {"delivered", IF r.ok THEN "succeeded" ELSE "failed"}
           /\ results' = results \ {r}
           /\ UNCHANGED <<ran, worked, stray, hand, retire, stage, cur>>
<1> USE DEF registry, database, threads, loop, host, network, budgets, history
<1>1. /\ r.o \in DOMAIN orders /\ r.o \in OrderIds /\ ran[r.o] = 1
      /\ orders[r.o].status = "delivered"
  BY KnownOrders DEF TruthInv, ResultsTrue, OnePollInv, ToldOnce, ResultOpen
<1>2. /\ results' = results \ {r}
      /\ UNCHANGED <<ran, worked, stray, hand, retire, stage, cur>>
  BY DEF ReceiveResult
<1>3. CASE ~Accepted(r)
  <2>1. orders' = orders
    BY <1>3 DEF ReceiveResult
  <2> QED
    BY <1>1, <1>2, <2>1
<1>4. CASE Accepted(r)
  <2>1. orders' = SetStatus({r.o}, IF r.ok THEN "succeeded" ELSE "failed", orders)
    BY <1>4 DEF ReceiveResult, Recorded
  <2>2. (IF r.ok THEN "succeeded" ELSE "failed") \in OrderStates /\ orders \in Seq(Order)
    BY DEF OrderStates, TypeOK
  <2>3. /\ DOMAIN orders' = DOMAIN orders
        /\ \A o \in DOMAIN orders :
             /\ orders'[o].ep = orders[o].ep
             /\ orders'[o].status =
                  (IF o = r.o THEN IF r.ok THEN "succeeded" ELSE "failed"
                              ELSE orders[o].status)
    BY <2>1, <2>2, SetStatusRows
  <2> QED
    BY <1>1, <1>2, <2>3
<1> QED
  BY <1>3, <1>4

\* No other request, agent or poll is about the order whose outcome is written.
LEMMA OutcomeKeeps ==
    ASSUME TypeOK, TruthInv, OnePollInv, NEW r \in results, ReceiveResult(r)
    PROVE  OnePollInv'
<1>1. \A e \in Endpoints : r.o \notin hand[e] \cup retire[e]
  BY OutcomeRows DEF TruthInv, HandFresh, OnePollInv, HeldOnce
<1>2. HeldOnce'
  <2>1. \A e \in Endpoints : hand[e] \subseteq DOMAIN orders
    BY KnownOrders
  <2> QED
    BY <1>1, <2>1, OutcomeRows DEF OnePollInv, HeldOnce
<1>3. RanStatus'
  <2>1. \A o \in OrderIds : ran[o] = 1 => o \in DOMAIN orders
    BY DEF TruthInv, RanOnce
  <2> QED
    BY <2>1, OutcomeRows DEF OnePollInv, ToldOnce, RanStatus
<1>4. ReportOpen'
  <2>1. \A e \in Endpoints : stage[e] = "report" =>
            cur[e].o \in DOMAIN orders /\ cur[e].o # r.o
    BY DEF TruthInv, CurTrue, OnePollInv, ToldOnce, ReportOpen
  <2> QED
    BY <2>1, OutcomeRows DEF OnePollInv, ToldOnce, ReportOpen
<1>5. ResultOpen'
  <2>1. \A q \in results' : q \in results /\ q.o \in DOMAIN orders /\ q.o # r.o
    BY OutcomeRows DEF TruthInv, ResultsTrue, OnePollInv, ToldOnce, ResultOpen
  <2> QED
    BY <2>1, OutcomeRows DEF OnePollInv, ToldOnce, ResultOpen
<1> QED
  BY <1>2, <1>3, <1>4, <1>5 DEF OnePollInv, ToldOnce

\* The rows an operator or the ingestion adds are queued, and nothing else
\* changes in the table.
LEMMA IssueRows ==
    ASSUME TypeOK, \/ \E a \in Actions : Dispatch(a) \/ ExecuteNow(a)
                   \/ \E o \in DOMAIN orders : Revoke(o)
    PROVE  /\ \A o \in DOMAIN orders : orders'[o] = orders[o]
           /\ UNCHANGED <<stray, results, hand, retire, stage, cur, ran, worked>>
           /\ \/ DOMAIN orders' = DOMAIN orders
              \/ \E n \in OrderIds, e \in Endpoints :
                    /\ n \notin DOMAIN orders /\ DOMAIN orders' = DOMAIN orders \cup {n}
                    /\ orders'[n].ep = e /\ orders'[n].status = "queued"
<1> USE DEF registry, database, threads, loop, host, network, budgets, history
<1>0. orders \in Seq(Order) /\ Len(orders) <= MaxOrders
  BY DEF TypeOK
<1>1. UNCHANGED <<stray, results, hand, retire, stage, cur, ran, worked>>
  BY DEF Dispatch, ExecuteNow, Revoke
<1>2. ASSUME NEW e \in Endpoints, NEW verb \in Verbs, NEW t \in Targets,
             NEW a \in Actions \cup {NoAction}, Queue(e, verb, t, a)
      PROVE  /\ \A o \in DOMAIN orders : orders'[o] = orders[o]
             /\ \E n \in OrderIds, f \in Endpoints :
                    /\ n \notin DOMAIN orders /\ DOMAIN orders' = DOMAIN orders \cup {n}
                    /\ orders'[n].ep = f /\ orders'[n].status = "queued"
  <2> DEFINE n == Len(orders) + 1
  <2>1. /\ DOMAIN orders' = DOMAIN orders \cup {n} /\ Len(orders') <= MaxOrders
        /\ orders' \in Seq(Order) /\ Len(orders') = n
        /\ \A o \in DOMAIN orders : orders'[o] = orders[o]
        /\ \A o \in DOMAIN orders' \ DOMAIN orders :
              orders'[o] = [ep |-> e, verb |-> verb, target |-> t, act |-> a,
                            status |-> "queued"]
    BY <1>0, <1>2, QueueRows
  <2>2. n \notin DOMAIN orders /\ n \in OrderIds
    BY <1>0, <2>1, BoundAssumption DEF OrderIds
  <2> HIDE DEF n
  <2>3. orders'[n].ep = e /\ orders'[n].status = "queued"
    BY <2>1, <2>2
  <2> QED
    BY <2>1, <2>2, <2>3
<1>3. ASSUME NEW a \in Actions, Dispatch(a) \/ ExecuteNow(a)
      PROVE  \/ orders' = orders
             \/ \E e \in Endpoints, verb \in Verbs, t \in Targets,
                   b \in Actions \cup {NoAction} : Queue(e, verb, t, b)
  <2>1. ExecuteAction(a)
    BY <1>3 DEF Dispatch, ExecuteNow
  <2>2. CASE NoVerb(a) \/ NotExecuted(a) \/ QueueFails(a)
    BY <2>2 DEF NoVerb, NotExecuted, QueueFails
  <2>3. CASE OrderQueued(a)
    <3>1. \E e \in AgentFor(a) : Queue(e, Contain(ActTarget[a]), ActTarget[a], a)
      BY <2>3 DEF OrderQueued
    <3>2. AgentFor(a) \subseteq Endpoints
      BY DEF AgentFor, Enabled
    <3>3. ActTarget[a] \in Targets /\ Contain(ActTarget[a]) \in Verbs
      BY DecisionAssumption, VerbKinds
    <3> QED
      BY <3>1, <3>2, <3>3
  <2> QED
    BY <2>1, <2>2, <2>3 DEF ExecuteAction
<1>4. ASSUME NEW o \in DOMAIN orders, Revoke(o)
      PROVE  \E e \in Endpoints, verb \in Verbs, t \in Targets,
                   b \in Actions \cup {NoAction} : Queue(e, verb, t, b)
  <2>1. orders[o] \in Order
    BY <1>0
  <2>2. /\ orders[o].ep \in Endpoints /\ orders[o].target \in Targets
        /\ InverseAction(orders[o].verb) \in Verbs /\ NoAction \in Actions \cup {NoAction}
    BY <2>1, VerbKinds DEF Order
  <2> QED
    BY <1>4, <2>2 DEF Revoke
<1> QED
  BY <1>1, <1>2, <1>3, <1>4

\* A step that gives nothing out: an agent keeps what it holds or loses all.
Quiet ==
    /\ UNCHANGED <<orders, ran, worked>>
    /\ stray' = {} /\ results' \subseteq results
    /\ \A e \in Endpoints :
         /\ hand'[e] \in {hand[e], {}} /\ retire'[e] \in {retire[e], {}}
         /\ hand'[e] # {} => (stage'[e] = "reading" <=> stage[e] = "reading")
         /\ retire'[e] # {} => stage'[e] = stage[e] /\ hand'[e] = hand[e]
         /\ stage'[e] = "report" => stage[e] = "report" /\ cur'[e] = cur[e]

Issuing ==
    \/ \E a \in Actions : Dispatch(a) \/ ExecuteNow(a)
    \/ \E o \in DOMAIN orders : Revoke(o)

\* Without overlapping polls every step that is not quiet is one of seven.
LEMMA StepShapes ==
    ASSUME MaxStray = 0, TypeOK, TruthInv, OnePollInv, [Next]_vars
    PROVE  \/ Quiet \/ Issuing
           \/ \E e \in Endpoints : \/ SiemRead(e) \/ SiemCommit(e) \/ ReportResult(e)
                                   \/ ApplyOrder(e) \/ ApplyFails(e)
           \/ \E r \in results : ReceiveResult(r)
<1> USE DEF registry, database, threads, loop, host, network, budgets, history, Change
<1>0. /\ stray = {}
      /\ \A e \in Endpoints : stage[e] # "reading" => retire[e] = {}
      /\ \A e \in Endpoints : hand[e] # {} =>
            stage[e] \in {"reading", "answered", "applying", "report"}
  BY DEF OnePollInv, HeldOnce, TruthInv, HandFresh
<1>1. CASE Operator
  <2>1. ASSUME NEW e \in Endpoints, Enrol(e) \/ Update(e) PROVE Quiet
    BY <1>0, <2>1 DEF Enrol, Update, Quiet
  <2>2. ASSUME NEW e \in Endpoints, Delete(e) PROVE Quiet
    BY <1>0, <2>2 DEF Delete, Quiet, TypeOK
  <2>3. ASSUME NEW e \in Endpoints, Install(e) PROVE Quiet
    BY <1>0, <2>3 DEF Install, Forget, Quiet, TypeOK
  <2> QED
    BY <1>1, <2>1, <2>2, <2>3 DEF Operator, Issuing
<1>2. CASE Ingestion
  <2>1. ASSUME NEW a \in Actions, Respond(a) PROVE Quiet
    BY <1>0, <2>1 DEF Respond, Quiet
  <2>2. ASSUME NEW o \in marking, MarkPending(o) \/ MarkFails(o) PROVE Quiet
    BY <1>0, <2>2 DEF MarkPending, MarkFails, Quiet
  <2> QED
    BY <1>2, <2>1, <2>2 DEF Ingestion, Issuing
<1>3. ASSUME NEW e \in Endpoints, AgentLoop(e) \/ SiemPoll(e)
      PROVE  Quiet \/ SiemRead(e) \/ SiemCommit(e) \/ ReportResult(e) \/ ApplyOrder(e)
  <2>1. CASE AgentPoll(e)
    BY <1>0, <2>1 DEF AgentPoll, Quiet, TypeOK
  <2>2. CASE Receive(e)
    BY <1>0, <2>2 DEF Receive, Quiet, TypeOK
  <2>3. CASE PollFailed(e)
    BY <1>0, <2>3 DEF PollFailed, Quiet, TypeOK
  <2>4. CASE Expire(e)
    BY <1>0, <2>4 DEF Expire, LiftDue, Quiet, TypeOK
  <2> QED
    BY <1>3, <2>1, <2>2, <2>3, <2>4 DEF AgentLoop, SiemPoll
<1>4. CASE Handlers
  BY <1>0, <1>4 DEF Handlers
<1>5. CASE Time \/ SiemRestart \/ UNCHANGED vars
  BY <1>0, <1>5 DEF Time, OrderAges, TimerFires, SiemRestart, vars, Quiet
<1>6. CASE Failures
  <2>1. ASSUME NEW e \in Endpoints, CommitFails(e) PROVE Quiet
    BY <1>0, <2>1 DEF CommitFails, Quiet, TypeOK
  <2>2. ASSUME NEW e \in Endpoints, PollLost(e) PROVE Quiet
    BY <1>0, <2>2 DEF PollLost, Quiet, TypeOK
  <2>3. ASSUME NEW e \in Endpoints, PollTimeout(e) PROVE FALSE
    <3>1. Cardinality(stray) = 0
      BY <1>0, FS_EmptySet
    <3> QED
      BY <2>3, <3>1 DEF PollTimeout
  <2>4. ASSUME NEW e \in Endpoints, ReportLost(e) PROVE Quiet
    BY <1>0, <2>4 DEF ReportLost, NextStage, Quiet, TypeOK
  <2>5. ASSUME NEW e \in Endpoints, ExpireFails(e) PROVE Quiet
    BY <1>0, <2>5 DEF ExpireFails, LiftDue, Quiet, TypeOK
  <2>6. ASSUME NEW e \in Endpoints, AgentRestart(e) PROVE Quiet
    BY <1>0, <2>6 DEF AgentRestart, Forget, Quiet, TypeOK
  <2>7. ASSUME SiemCrash PROVE Quiet
    BY <1>0, <2>7 DEF SiemCrash, Quiet, TypeOK
  <2> QED
    BY <1>6, <2>1, <2>2, <2>3, <2>4, <2>5, <2>6, <2>7 DEF Failures
<1> QED
  BY <1>1, <1>2, <1>3, <1>4, <1>5, <1>6 DEF Next

\* Every step keeps OnePollInv.
LEMMA NextOnePoll ==
    ASSUME MaxStray = 0, TypeOK, TruthInv, OnePollInv, [Next]_vars
    PROVE  OnePollInv'
<1>1. CASE Quiet
  BY <1>1, OnePollRows DEF Quiet
<1>2. CASE Issuing
  <2>1. /\ \A o \in DOMAIN orders : orders'[o] = orders[o]
        /\ UNCHANGED <<stray, results, hand, retire, stage, cur, ran>>
        /\ DOMAIN orders \subseteq DOMAIN orders'
    BY <1>2, IssueRows DEF Issuing
  <2> QED
    BY <2>1, OnePollRows DEF OnePollInv, HeldOnce
<1> QED
  BY <1>1, <1>2, StepShapes, ReadKeeps, CommitKeeps, RunKeeps, ReportKeeps, OutcomeKeeps

\* While polls of one endpoint do not overlap, the orders a poll has read are
\* its own, and every outcome on its way is the only one of its order.
THEOREM PollsOneByOne ==
    ASSUME MaxStray = 0 PROVE Spec => [](TypeOK /\ TruthInv /\ OnePollInv)
<1>1. TypeOK /\ TruthInv /\ OnePollInv /\ [Next]_vars =>
        TypeOK' /\ TruthInv' /\ OnePollInv'
  BY MaxStray = 0, NextType, NextTruth, NextOnePoll
<1> QED
  BY <1>1, InitType, InitTruth, InitOnePoll, PTL DEF Spec

\* An order retired as expired is never applied, neither before nor after,
\* also when its age changes between the SELECT of a poll and its commit.
THEOREM RetiredNeverRuns == ASSUME MaxStray = 0 PROVE Spec => []NoLateOrder
<1>1. TypeOK /\ TruthInv /\ OnePollInv => NoLateOrder
  <2> SUFFICES ASSUME TypeOK, TruthInv, OnePollInv, NEW o \in DOMAIN orders,
                      orders[o].status = "expired"
               PROVE  ran[o] = 0
    BY DEF NoLateOrder
  <2>1. o \in OrderIds /\ ran[o] \in {0, 1}
    BY KnownOrders DEF TruthInv, RanOnce
  <2> QED
    BY <2>1 DEF OnePollInv, ToldOnce, RanStatus
<1> QED
  BY <1>1, MaxStray = 0, PollsOneByOne, PTL

-----------------------------------------------------------------------------
\* The refinement.  DestOf, PhaseOf and ToldOf are the state of the promise.

DestOf(o) == IF o \in DOMAIN orders THEN orders[o].ep ELSE NoHost

\* A step after which every order looks the same is a stutter of the promise.
LEMMA SameBars ==
    ASSUME \A o \in OrderIds :
              /\ DestOf(o)' = DestOf(o) /\ ToldOf(o)' = ToldOf(o)
              /\ PhaseOf(o)' = PhaseOf(o)
    PROVE  UNCHANGED Promise!pvars
BY DEF Promise!pvars, DestOf

\* Where an order is the same in both states it is the same to the promise.
LEMMA SameOrder ==
    ASSUME NEW o \in OrderIds,
           o \in DOMAIN orders <=> o \in DOMAIN orders',
           o \in DOMAIN orders =>
              /\ orders'[o].ep = orders[o].ep /\ orders'[o].status = orders[o].status
              /\ ran'[o] = ran[o] /\ (o \in worked' <=> o \in worked)
    PROVE  /\ DestOf(o)' = DestOf(o) /\ ToldOf(o)' = ToldOf(o)
           /\ (o \in DOMAIN orders => (ran[o] > 0 \/ orders[o].status = "queued"
                 \/ (o \in hand[orders[o].ep] <=> o \in hand'[orders[o].ep])))
              => PhaseOf(o)' = PhaseOf(o)
BY DEF DestOf, ToldOf, PhaseOf

\* Losing what an agent held: an answer lost on its way, a restart.
LEMMA QuietIsLose ==
    ASSUME TypeOK, TruthInv, OnePollInv, Quiet
    PROVE  [Promise!PNext]_Promise!pvars
<1> DEFINE S == {o \in OrderIds : PhaseOf(o) = "taken" /\ PhaseOf(o)' # "taken"}
<1>1. \A o \in OrderIds : DestOf(o)' = DestOf(o) /\ ToldOf(o)' = ToldOf(o)
  BY SameOrder DEF Quiet
<1>2. ASSUME NEW o \in OrderIds
      PROVE  PhaseOf(o)' = IF o \in S THEN "dead" ELSE PhaseOf(o)
  <2>1. CASE o \notin DOMAIN orders \/ ran[o] > 0 \/ orders[o].status = "queued"
    BY <2>1 DEF Quiet, PhaseOf
  <2>2. CASE o \in DOMAIN orders /\ ~(ran[o] > 0) /\ orders[o].status # "queued"
    <3>1. orders[o] \in Order
      BY <2>2 DEF TypeOK
    <3>2. orders[o].ep \in Endpoints
      BY <3>1 DEF Order
    <3>3. hand'[orders[o].ep] \in {hand[orders[o].ep], {}}
      BY <3>2 DEF Quiet
    <3>4. /\ PhaseOf(o) = IF o \in hand[orders[o].ep] THEN "taken" ELSE "dead"
          /\ PhaseOf(o)' = IF o \in hand'[orders[o].ep] THEN "taken" ELSE "dead"
      BY <2>2 DEF Quiet, PhaseOf
    <3> QED
      BY <3>3, <3>4
  <2> QED
    BY <2>1, <2>2
<1>3. S \in SUBSET OrderIds /\ \A o \in S : PhaseOf(o) = "taken"
  OBVIOUS
<1> HIDE DEF S
<1>4. Promise!Lose(S)
  BY <1>1, <1>2, <1>3 DEF Promise!Lose, DestOf
<1> QED
  BY <1>3, <1>4 DEF Promise!PNext

\* Queueing an order issues it; an execution without an order is a stutter.
LEMMA IssuingIsIssue ==
    ASSUME TypeOK, TruthInv, OnePollInv, Issuing
    PROVE  [Promise!PNext]_Promise!pvars
<1>1. /\ \A o \in DOMAIN orders : orders'[o] = orders[o]
      /\ UNCHANGED <<stray, results, hand, retire, stage, cur, ran, worked>>
      /\ \/ DOMAIN orders' = DOMAIN orders
         \/ \E n \in OrderIds, e \in Endpoints :
               /\ n \notin DOMAIN orders /\ DOMAIN orders' = DOMAIN orders \cup {n}
               /\ orders'[n].ep = e /\ orders'[n].status = "queued"
  BY IssueRows DEF Issuing
<1>2. ASSUME NEW o \in OrderIds, o \in DOMAIN orders' <=> o \in DOMAIN orders
      PROVE  DestOf(o)' = DestOf(o) /\ ToldOf(o)' = ToldOf(o) /\ PhaseOf(o)' = PhaseOf(o)
  BY <1>1, <1>2 DEF DestOf, ToldOf, PhaseOf
<1>3. CASE DOMAIN orders' = DOMAIN orders
  BY <1>2, <1>3, SameBars
<1>4. ASSUME NEW n \in OrderIds, NEW e \in Endpoints,
             n \notin DOMAIN orders, DOMAIN orders' = DOMAIN orders \cup {n},
             orders'[n].ep = e, orders'[n].status = "queued"
      PROVE  Promise!PNext
  <2>1. ran'[n] = 0
    BY <1>1, <1>4 DEF TruthInv, RanOnce
  <2>2. /\ PhaseOf(n) = "none" /\ PhaseOf(n)' = "queued" /\ DestOf(n)' = e
        /\ ToldOf(n) = "open" /\ ToldOf(n)' = "open"
    BY <1>4, <2>1 DEF PhaseOf, DestOf, ToldOf, Final
  <2>3. \A o \in OrderIds : o # n =>
            DestOf(o)' = DestOf(o) /\ ToldOf(o)' = ToldOf(o) /\ PhaseOf(o)' = PhaseOf(o)
    BY <1>2, <1>4
  <2>4. Promise!Issue(n, e)
    BY <2>2, <2>3 DEF Promise!Issue, DestOf
  <2> QED
    BY <2>4 DEF Promise!PNext
<1> QED
  BY <1>1, <1>3, <1>4

\* A SELECT changes nothing the promise speaks of.
LEMMA ReadIsStutter ==
    ASSUME TypeOK, TruthInv, OnePollInv, NEW e \in Endpoints, SiemRead(e)
    PROVE  UNCHANGED Promise!pvars
<1> USE DEF registry, database, threads, loop, host, network, budgets, history
<1>1. /\ UNCHANGED <<orders, ran, worked>> /\ hand'[e] = Deliverable(e)
      /\ stage[e] = "asked"
      /\ \A f \in Endpoints : f # e => hand'[f] = hand[f]
  BY DEF SiemRead, TypeOK
<1>2. /\ hand[e] = {}
      /\ \A o \in hand'[e] : orders[o].status = "queued"
  BY <1>1 DEF TruthInv, HandFresh, Deliverable, Oldest, Queued
<1>3. ASSUME NEW o \in OrderIds
      PROVE  DestOf(o)' = DestOf(o) /\ ToldOf(o)' = ToldOf(o) /\ PhaseOf(o)' = PhaseOf(o)
  <2>1. o \in DOMAIN orders => orders[o].ep \in Endpoints
    <3>1. o \in DOMAIN orders => orders[o] \in Order
      BY DEF TypeOK
    <3> QED
      BY <3>1 DEF Order
  <2> QED
    BY <1>1, <1>2, <2>1 DEF DestOf, ToldOf, PhaseOf
<1> QED
  BY <1>3, SameBars

\* The commit hands over what the poll read: it reaches the agent when the
\* agent knows the secret the answer is signed with, and vanishes otherwise.
LEMMA CommitIsHand ==
    ASSUME TypeOK, TruthInv, OnePollInv, NEW e \in Endpoints, SiemCommit(e)
    PROVE  Promise!PNext
<1> DEFINE A == IF siemKey[e] = agentKey[e] THEN hand[e] ELSE {}
           V == hand[e] \ A
           D == retire[e]
<1>1. /\ A \in SUBSET OrderIds /\ V \in SUBSET OrderIds /\ D \in SUBSET OrderIds
      /\ A \cup V = hand[e] /\ A \cap V = {} /\ A \cap D = {} /\ D \cap V = {}
  BY KnownOrders DEF OnePollInv, HeldOnce, TypeOK
<1>2. hand'[e] = A
  BY CommitRows
<1>3. \A o \in hand[e] \cup retire[e] :
          /\ o \in DOMAIN orders /\ orders[o].ep = e /\ orders[o].status = "queued"
          /\ ran[o] = 0
  BY CommitRows DEF OnePollInv, HeldOnce, TruthInv, HandFresh
<1> HIDE DEF A, V, D
<1>4. \A o \in A \cup D \cup V : PhaseOf(o) = "queued" /\ DestOf(o) = e
  BY <1>1, <1>3 DEF PhaseOf, DestOf, D
<1>5. ASSUME NEW o \in OrderIds
      PROVE  /\ DestOf(o)' = DestOf(o)
             /\ PhaseOf(o)' = IF o \in A THEN "taken"
                              ELSE IF o \in D \cup V THEN "dead" ELSE PhaseOf(o)
             /\ ToldOf(o)' = IF o \in D THEN "expired" ELSE ToldOf(o)
  <2>1. CASE o \notin DOMAIN orders
    BY <1>1, <1>3, <2>1, CommitRows DEF DestOf, PhaseOf, ToldOf, D
  <2>2. CASE o \in hand[e]
    BY <1>1, <1>2, <1>3, <2>2, CommitRows DEF DestOf, PhaseOf, ToldOf, Final
  <2>3. CASE o \in retire[e]
    BY <1>1, <1>2, <1>3, <2>3, CommitRows DEF DestOf, PhaseOf, ToldOf, Final, D
  <2>4. CASE o \in DOMAIN orders /\ o \notin hand[e] \cup retire[e]
    <3>1. orders[o] \in Order
      BY <2>4 DEF TypeOK
    <3>2. orders[o].ep \in Endpoints
      BY <3>1 DEF Order
    <3>3. o \in hand'[orders[o].ep] <=> o \in hand[orders[o].ep]
      BY <1>1, <1>2, <2>4, <3>2, CommitRows
    <3>4. /\ DOMAIN orders' = DOMAIN orders /\ UNCHANGED <<ran, worked>>
          /\ orders'[o].ep = orders[o].ep /\ orders'[o].status = orders[o].status
      BY <2>4, CommitRows
    <3> QED
      BY <1>1, <2>4, <3>3, <3>4 DEF DestOf, PhaseOf, ToldOf, D
  <2> QED
    BY <2>1, <2>2, <2>3, <2>4
<1>6. Promise!Hand(e, A, D, V)
  BY <1>1, <1>4, <1>5 DEF Promise!Hand, DestOf
<1> QED
  BY <1>1, <1>6 DEF Promise!PNext

\* The agent runs an order it took, and none of its endpoint that is later
\* has run: those would have found it gone from the queue and the hand.
LEMMA ApplyIsRun ==
    ASSUME TypeOK, TruthInv, OnePollInv, OrderInv,
           NEW e \in Endpoints, ApplyOrder(e) \/ ApplyFails(e)
    PROVE  Promise!PNext
<1>1. PICK q \in hand[e], ok \in BOOLEAN :
             /\ NextInHand(e, q)
             /\ q \in DOMAIN orders /\ q \in OrderIds /\ orders[q].ep = e /\ ran[q] = 0
             /\ stage[e] = "applying" /\ stage'[e] = "report"
             /\ cur'[e] = [o |-> q, ok |-> ok] /\ hand'[e] = hand[e] \ {q}
             /\ ran'[q] = 1 /\ \A o \in OrderIds : o # q => ran'[o] = ran[o]
             /\ worked' = (IF ok THEN worked \cup {q} ELSE worked)
             /\ UNCHANGED <<orders, results, stray, retire>>
             /\ \A f \in Endpoints : f # e => UNCHANGED <<hand[f], stage[f], cur[f]>>
  BY RunRows
<1>2. orders[q].status = "delivered" /\ q \notin worked
  BY <1>1 DEF OnePollInv, HeldOnce, TruthInv, RanOnce
<1>3. ASSUME NEW o \in OrderIds, o # q
      PROVE  DestOf(o)' = DestOf(o) /\ ToldOf(o)' = ToldOf(o) /\ PhaseOf(o)' = PhaseOf(o)
  <2>1. o \in DOMAIN orders => orders[o].ep \in Endpoints
    <3>1. o \in DOMAIN orders => orders[o] \in Order
      BY DEF TypeOK
    <3> QED
      BY <3>1 DEF Order
  <2>2. o \in DOMAIN orders => (o \in hand[orders[o].ep] <=> o \in hand'[orders[o].ep])
    BY <1>1, <1>3, <2>1
  <2>3. ran'[o] = ran[o] /\ (o \in worked' <=> o \in worked) /\ orders' = orders
    BY <1>1, <1>3
  <2> QED
    BY <2>2, <2>3, SameOrder
<1>4. DestOf(q)' = DestOf(q) /\ ToldOf(q)' = ToldOf(q)
  BY <1>1 DEF DestOf, ToldOf
<1>5. PhaseOf(q) = "taken" /\ PhaseOf(q)' = IF ok THEN "ok" ELSE "error"
  BY <1>1, <1>2 DEF PhaseOf
<1>6. \A p \in OrderIds : p > q /\ DestOf(p) = DestOf(q) => PhaseOf(p) \notin {"ok", "error"}
  <2> SUFFICES ASSUME NEW p \in OrderIds, p > q, DestOf(p) = DestOf(q),
                      PhaseOf(p) \in {"ok", "error"}
               PROVE  FALSE
    OBVIOUS
  <2>1. p \in DOMAIN orders /\ ran[p] = 1
    BY DEF PhaseOf, TruthInv, RanOnce
  <2>2. orders[p].ep = orders[q].ep /\ q < p
    BY <1>1, <2>1 DEF DestOf, OrderIds
  <2> QED
    BY <1>1, <2>1, <2>2 DEF OrderInv, RunInOrder
<1> DEFINE outcome == IF ok THEN "ok" ELSE "error"
<1>7. Promise!Run(q, outcome)
  BY <1>1, <1>3, <1>4, <1>5, <1>6 DEF Promise!Run, Promise!Ran, DestOf
<1>8. outcome = "ok" \/ outcome = "error"
  OBVIOUS
<1> HIDE DEF outcome
<1> QED
  BY <1>1, <1>7, <1>8 DEF Promise!PNext

\* Posting a result is a matter between the agent and the SIEM.
LEMMA ReportIsStutter ==
    ASSUME TypeOK, TruthInv, OnePollInv, NEW e \in Endpoints, ReportResult(e)
    PROVE  UNCHANGED Promise!pvars
<1>1. UNCHANGED <<orders, ran, worked, hand>>
  BY DEF ReportResult, database, history
<1> QED
  BY <1>1, SameBars DEF DestOf, PhaseOf, ToldOf

\* The outcome the SIEM accepts is told for the first time, and is the one
\* the agent had.
LEMMA OutcomeIsTell ==
    ASSUME TypeOK, TruthInv, OnePollInv, NEW r \in results, ReceiveResult(r)
    PROVE  [Promise!PNext]_Promise!pvars
<1> DEFINE o == r.o
<1>1. /\ o \in DOMAIN orders /\ o \in OrderIds /\ ran[o] = 1
      /\ orders[o].status = "delivered" /\ DOMAIN orders' = DOMAIN orders
      /\ orders'[o].status \in {"delivered", IF r.ok THEN "succeeded" ELSE "failed"}
      /\ \A p \in DOMAIN orders :
           /\ orders'[p].ep = orders[p].ep
           /\ p # o => orders'[p].status = orders[p].status
      /\ UNCHANGED <<ran, worked, hand>>
  BY OutcomeRows
<1>2. r.ok <=> o \in worked
  BY DEF TruthInv, ResultsTrue
<1>3. r.ok \in BOOLEAN
  BY DEF TypeOK, Result
<1> HIDE DEF o
<1>4. PhaseOf(o) = (IF r.ok THEN "ok" ELSE "error") /\ PhaseOf(o)' = PhaseOf(o)
  BY <1>1, <1>2 DEF PhaseOf
<1>5. /\ ToldOf(o) = "open" /\ DestOf(o)' = DestOf(o)
      /\ ToldOf(o)' \in {"open", IF r.ok THEN "succeeded" ELSE "failed"}
  BY <1>1, <1>3 DEF ToldOf, Final, DestOf
<1>6. ASSUME NEW p \in OrderIds, p # o
      PROVE  DestOf(p)' = DestOf(p) /\ ToldOf(p)' = ToldOf(p) /\ PhaseOf(p)' = PhaseOf(p)
  BY <1>1, <1>6, SameOrder
<1>7. CASE ToldOf(o)' = "open"
  BY <1>4, <1>5, <1>6, <1>7, SameBars
<1>8. CASE ToldOf(o)' # "open"
  <2>1. ToldOf(o)' = IF PhaseOf(o) = "ok" THEN "succeeded" ELSE "failed"
    BY <1>4, <1>5, <1>8
  <2>2. PhaseOf(o) \in {"ok", "error"}
    BY <1>4
  <2>3. Promise!Tell(o)
    BY <1>1, <1>4, <1>5, <1>6, <2>1, <2>2 DEF Promise!Tell, Promise!Ran, DestOf
  <2> QED
    BY <1>1, <2>3 DEF Promise!PNext
<1> QED
  BY <1>7, <1>8

\* No order, no endpoint and no verdict at the start.
LEMMA InitPromise == Init => Promise!PInit
<1> SUFFICES ASSUME Init PROVE Promise!PInit
  OBVIOUS
<1>1. DOMAIN orders = {}
  BY DEF Init
<1> QED
  BY <1>1 DEF Promise!PInit, PhaseOf, ToldOf

\* Every step of the chain is a step of the promise or leaves it alone.
LEMMA NextPromise ==
    ASSUME MaxStray = 0, TypeOK, TruthInv, OrderInv, OnePollInv, [Next]_vars
    PROVE  [Promise!PNext]_Promise!pvars
BY StepShapes, QuietIsLose, IssuingIsIssue, ReadIsStutter, CommitIsHand, ApplyIsRun,
   ReportIsStutter, OutcomeIsTell

\* The chain from the decision to the host keeps the promise: an order is
\* taken at most once, run in the order of issue and never after it was
\* retired, and its outcome is told once and truthfully, whatever is lost,
\* fails, restarts, is disabled or is enrolled again.
THEOREM ChainKeepsPromise == ASSUME MaxStray = 0 PROVE Spec => KeepsPromise
<1>1. TypeOK /\ TruthInv /\ OrderInv /\ OnePollInv /\ [Next]_vars =>
        TypeOK' /\ TruthInv' /\ OrderInv' /\ OnePollInv'
  BY MaxStray = 0, NextType, NextTruth, NextOrder, NextOnePoll
<1>2. TypeOK /\ TruthInv /\ OrderInv /\ OnePollInv /\ [Next]_vars =>
        [Promise!PNext]_Promise!pvars
  BY MaxStray = 0, NextPromise
<1> QED
  BY <1>1, <1>2, InitType, InitTruth, InitOrder, InitOnePoll, InitPromise, PTL
    DEF Spec, KeepsPromise, Promise!PSpec

\* Nothing rewrites an outcome of the ledger: a late or repeated report finds
\* nothing open.
THEOREM VerdictIsFinal == ASSUME MaxStray = 0 PROVE Spec => OutcomeIsFinal
<1> DEFINE Kept == \A o \in DOMAIN orders :
              orders[o].status \in Final => orders'[o].status = orders[o].status
<1>1. TypeOK /\ TruthInv /\ OnePollInv /\ [Next]_vars => Kept
  <2> SUFFICES ASSUME TypeOK, TruthInv, OnePollInv, [Next]_vars,
                      NEW o \in DOMAIN orders, orders[o].status \in Final
               PROVE  orders'[o].status = orders[o].status
    OBVIOUS
  <2>1. orders[o].status \notin {"queued", "delivered"}
    BY DEF Final
  <2>2. CASE Quiet \/ \E e \in Endpoints : \/ SiemRead(e) \/ ReportResult(e)
                                           \/ ApplyOrder(e) \/ ApplyFails(e)
    BY <2>2 DEF Quiet, SiemRead, ReportResult, ApplyOrder, ApplyFails, RunOrder, database
  <2>3. CASE Issuing
    BY <2>3, IssueRows DEF Issuing
  <2>4. ASSUME NEW e \in Endpoints, SiemCommit(e) PROVE orders'[o].status = orders[o].status
    <3>1. o \notin hand[e] \cup retire[e]
      <4>1. stage[e] = "reading"
        BY <2>4 DEF SiemCommit
      <4> QED
        BY <2>1, <4>1 DEF OnePollInv, HeldOnce
    <3> QED
      BY <2>4, <3>1, CommitRows
  <2>5. ASSUME NEW r \in results, ReceiveResult(r) PROVE orders'[o].status = orders[o].status
    BY <2>1, <2>5, OutcomeRows
  <2> QED
    BY MaxStray = 0, <2>2, <2>3, <2>4, <2>5, StepShapes
<1>2. TypeOK /\ TruthInv /\ OnePollInv /\ [Next]_vars => [Kept]_vars
  BY <1>1
<1> QED
  BY <1>2, MaxStray = 0, PollsOneByOne, PTL DEF Spec, OutcomeIsFinal
=============================================================================
