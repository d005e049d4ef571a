--------------------------- MODULE AlertingProofs ---------------------------
(***************************************************************************)
(* What Alerting promises for any number of threads, analysts, events and  *)
(* rules: the types, the end of an alert's history, a bound on open alerts, *)
(* alerts only when a threshold was reached, and no accepted event missed, *)
(* whatever is deleted.                                                    *)
(*                                                                         *)
(* Each action has one lemma on what it changes (..Rows) and one on types  *)
(* (..Types).  AlertOrigins and RequestSteps then sort the steps by what   *)
(* they do to one alert and to the requests; the invariants are proved     *)
(* from these two and not action by action.                                *)
(***************************************************************************)
EXTENDS Alerting, FiniteSetTheorems, TLAPS

AlertRow == [rule : Rules, key : {ev.key : ev \in Feed}, ts : Nat,
             status : AlertStates, log : 0..MaxLogs]

\* Where a thread is says what it has at hand.
AtHand(w) ==
    /\ pc[w] = "idle" => mine[w] = 0 /\ todo[w] = << >> /\ fired[w] = << >>
                          /\ session[w] = "ok"
    /\ pc[w] # "idle" => mine[w] \in DOMAIN logs
    /\ pc[w] \in {"check", "create"} => todo[w] # << >>
    /\ pc[w] \in {"decide", "dispatch"} => fired[w] # << >>
    /\ pc[w] \in {"respond", "decide", "dispatch"} => todo[w] = << >>
    /\ pc[w] = "dispatch" => Head(fired[w]) \in decided \cup removed
Shape ==
    /\ \A w \in Workers : AtHand(w)
    /\ \A u \in Analysts : reading[u] # Nothing => reading[u].a \in DOMAIN alerts
TypeInv == TypeOK /\ Shape

\* What TypeOK says of the sequences, in the form the provers can use.
LEMMA Rows ==
    ASSUME TypeOK
    PROVE  /\ Len(logs) \in Nat /\ DOMAIN logs = 1..Len(logs)
           /\ \A l \in DOMAIN logs : logs[l] \in Feed
           /\ Len(alerts) \in Nat /\ DOMAIN alerts = 1..Len(alerts)
           /\ alerts \in Seq(AlertRow)
           /\ \A a \in DOMAIN alerts : alerts[a] \in AlertRow
           /\ DOMAIN trail = 1..Len(trail) /\ Len(trail) = Len(alerts)
           /\ \A w \in Workers : mine[w] \in LogIds \cup {0}
           /\ DOMAIN logs \subseteq LogIds
<1>1. /\ logs \in Seq(Feed) /\ Len(logs) <= MaxLogs /\ alerts \in Seq(AlertRow)
      /\ trail \in Seq(Seq([was : AlertStates, now : AlertStates]))
      /\ DOMAIN trail = DOMAIN alerts /\ MaxLogs \in Nat
  BY FeedAssumption DEF TypeOK, AlertRow
<1>2. Len(logs) \in Nat /\ DOMAIN logs = 1..Len(logs) /\ DOMAIN logs \subseteq LogIds
  BY <1>1 DEF LogIds
<1>3. Len(alerts) \in Nat /\ DOMAIN alerts = 1..Len(alerts)
  BY <1>1
<1>4. DOMAIN trail = 1..Len(trail) /\ Len(trail) \in Nat
  BY <1>1
<1>5. Len(trail) = Len(alerts)
  BY <1>1, <1>3, <1>4
<1>6. \A w \in Workers : mine[w] \in 0..Len(logs)
  BY DEF TypeOK
<1> QED
  BY <1>1, <1>2, <1>3, <1>4, <1>5, <1>6 DEF LogIds

\* Every variable starts with its type.
LEMMA InitType == Init => TypeInv
<1> SUFFICES ASSUME Init PROVE TypeInv
  OBVIOUS
<1>1. TypeOK
  BY FeedAssumption DEF Init, TypeOK, PCs, Nothing, NoPurge, AlertStates, LogIds
<1>2. Shape
  BY DEF Init, Shape, AtHand
<1> QED
  BY <1>1, <1>2 DEF TypeInv

\* The parts of a sequence that is not empty.
LEMMA HeadAndTail ==
    ASSUME NEW S, NEW s \in Seq(S), s # << >>
    PROVE  /\ Head(s) \in S /\ Tail(s) \in Seq(S)
           /\ \A x : (\E i \in DOMAIN s : s[i] = x) <=>
                        x = Head(s) \/ \E i \in DOMAIN Tail(s) : Tail(s)[i] = x
<1>1. /\ Len(s) \in Nat /\ Len(s) > 0 /\ DOMAIN s = 1..Len(s)
      /\ Head(s) = s[1] /\ Tail(s) \in Seq(S) /\ Len(Tail(s)) = Len(s) - 1
      /\ DOMAIN Tail(s) = 1..Len(s) - 1
      /\ \A i \in 1..Len(s) - 1 : Tail(s)[i] = s[i + 1]
  OBVIOUS
<1>2. ASSUME NEW x, NEW i \in DOMAIN s, s[i] = x, x # Head(s)
      PROVE  \E j \in DOMAIN Tail(s) : Tail(s)[j] = x
  <2>1. i - 1 \in DOMAIN Tail(s) /\ Tail(s)[i - 1] = x
    BY <1>1, <1>2
  <2> QED
    BY <2>1
<1>3. ASSUME NEW x, NEW j \in DOMAIN Tail(s), Tail(s)[j] = x
      PROVE  \E i \in DOMAIN s : s[i] = x
  <2>1. j + 1 \in DOMAIN s /\ s[j + 1] = x
    BY <1>1, <1>3
  <2> QED
    BY <2>1
<1>4. 1 \in DOMAIN s /\ s[1] = Head(s) /\ Head(s) \in S
  BY <1>1
<1> QED
  BY <1>1, <1>2, <1>3, <1>4

\* An answer ends the request and leaves its thread idle.
LEMMA AnswerRows ==
    ASSUME TypeInv, NEW w \in Workers, NEW how \in {"accepted", "error"}, Answer(w, how),
           pc[w] # "idle"
    PROVE  /\ mine[w] \in DOMAIN logs /\ mine[w] \in LogIds
           /\ answers' \in [LogIds -> {"open", "accepted", "error"}]
           /\ answers'[mine[w]] = how
           /\ \A l \in LogIds : l # mine[w] => answers'[l] = answers[l]
           /\ pc' \in [Workers -> PCs] /\ pc'[w] = "idle"
           /\ mine' \in [Workers -> 0..Len(logs)] /\ mine'[w] = 0
           /\ todo' \in [Workers -> Seq(Rules)] /\ todo'[w] = << >>
           /\ fired' \in [Workers -> Seq(DOMAIN alerts)] /\ fired'[w] = << >>
           /\ session' \in [Workers -> {"ok", "broken"}] /\ session'[w] = "ok"
           /\ \A v \in Workers : v # w => UNCHANGED <<pc[v], mine[v], todo[v], fired[v], session[v]>>
<1>0. TypeOK /\ Shape
  BY DEF TypeInv
<1>1. mine[w] \in DOMAIN logs /\ mine[w] \in LogIds
  BY <1>0, Rows DEF Shape, AtHand
<1>2. /\ answers' \in [LogIds -> {"open", "accepted", "error"}]
      /\ answers'[mine[w]] = how
      /\ \A l \in LogIds : l # mine[w] => answers'[l] = answers[l]
  BY <1>0, <1>1 DEF TypeOK, Answer
<1>3. << >> \in Seq(Rules) /\ << >> \in Seq(DOMAIN alerts)
  OBVIOUS
<1> DEFINE M == 0..Len(logs)
           R == Seq(Rules)
           A == Seq(DOMAIN alerts)
<1>4. 0 \in M /\ mine \in [Workers -> M] /\ todo \in [Workers -> R] /\ fired \in [Workers -> A]
  <2>1. 0 \in 0..Len(logs)
    BY <1>0, Rows
  <2> QED
    BY <1>0, <2>1 DEF TypeOK
<1> HIDE DEF M, R, A
<1>5. /\ mine' \in [Workers -> M] /\ mine'[w] = 0
      /\ \A v \in Workers : v # w => mine'[v] = mine[v]
  BY <1>4 DEF Answer
<1>6. /\ todo' \in [Workers -> R] /\ todo'[w] = << >>
      /\ \A v \in Workers : v # w => todo'[v] = todo[v]
  BY <1>3, <1>4 DEF Answer, R
<1>7. /\ fired' \in [Workers -> A] /\ fired'[w] = << >>
      /\ \A v \in Workers : v # w => fired'[v] = fired[v]
  BY <1>3, <1>4 DEF Answer, A
<1>8. /\ pc' \in [Workers -> PCs] /\ pc'[w] = "idle"
      /\ session' \in [Workers -> {"ok", "broken"}] /\ session'[w] = "ok"
      /\ \A v \in Workers : v # w => pc'[v] = pc[v] /\ session'[v] = session[v]
  BY <1>0 DEF Answer, TypeOK, PCs
<1> QED
  BY <1>1, <1>2, <1>5, <1>6, <1>7, <1>8 DEF M, R, A

\* After an alert the loop goes on with the rest of them.
LEMMA NextAlertRows ==
    ASSUME TypeInv, NEW w \in Workers, NEW s \in {"ok", "broken"}, NextAlert(w, s),
           pc[w] \in {"decide", "dispatch"}
    PROVE  /\ pc' \in [Workers -> PCs] /\ pc'[w] = "respond"
           /\ fired' \in [Workers -> Seq(DOMAIN alerts)] /\ fired'[w] = Tail(fired[w])
           /\ session' \in [Workers -> {"ok", "broken"}] /\ session'[w] = s
           /\ fired[w] # << >> /\ Head(fired[w]) \in DOMAIN alerts
           /\ todo[w] = << >> /\ mine[w] \in DOMAIN logs
           /\ \A v \in Workers : v # w => UNCHANGED <<pc[v], fired[v], session[v]>>
<1>0. TypeOK /\ Shape
  BY DEF TypeInv
<1>1. fired[w] # << >> /\ fired[w] \in Seq(DOMAIN alerts) /\ todo[w] = << >>
      /\ mine[w] \in DOMAIN logs
  BY <1>0 DEF Shape, AtHand, TypeOK
<1>2. Head(fired[w]) \in DOMAIN alerts /\ Tail(fired[w]) \in Seq(DOMAIN alerts)
  BY <1>1, HeadAndTail
<1> DEFINE A == Seq(DOMAIN alerts)
<1>3. fired \in [Workers -> A] /\ Tail(fired[w]) \in A
  BY <1>0, <1>2 DEF TypeOK
<1> HIDE DEF A
<1>4. /\ fired' \in [Workers -> A] /\ fired'[w] = Tail(fired[w])
      /\ \A v \in Workers : v # w => fired'[v] = fired[v]
  BY <1>3 DEF NextAlert
<1>5. /\ pc' \in [Workers -> PCs] /\ pc'[w] = "respond"
      /\ session' \in [Workers -> {"ok", "broken"}] /\ session'[w] = s
      /\ \A v \in Workers : v # w => pc'[v] = pc[v] /\ session'[v] = session[v]
  BY <1>0 DEF NextAlert, TypeOK, PCs
<1> QED
  BY <1>1, <1>2, <1>4, <1>5 DEF A

\* The next rule is taken off the list.
LEMMA NextRuleRows ==
    ASSUME TypeInv, NEW w \in Workers, todo[w] # << >>,
           todo' = [todo EXCEPT ![w] = Tail(@)]
    PROVE  /\ todo' \in [Workers -> Seq(Rules)] /\ todo'[w] = Tail(todo[w])
           /\ Head(todo[w]) \in Rules
           /\ \A v \in Workers : v # w => todo'[v] = todo[v]
<1>1. todo \in [Workers -> Seq(Rules)]
  BY DEF TypeInv, TypeOK
<1>2. todo[w] \in Seq(Rules) /\ todo[w] # << >>
  BY <1>1
<1>3. Head(todo[w]) \in Rules /\ Tail(todo[w]) \in Seq(Rules)
  BY <1>2
<1> DEFINE R == Seq(Rules)
<1>4. todo \in [Workers -> R] /\ Tail(todo[w]) \in R
  BY <1>1, <1>3
<1> HIDE DEF R
<1>5. todo' \in [Workers -> R] /\ todo'[w] = Tail(todo[w])
      /\ \A v \in Workers : v # w => todo'[v] = todo[v]
  BY <1>4
<1> QED
  BY <1>3, <1>5 DEF R

\* A step of one thread that leaves the tables alone.
LEMMA ThreadTypes ==
    ASSUME TypeInv, NEW w \in Workers, Ingesting(w), UNCHANGED tables,
           faults' \in 0..MaxFaults,
           answers' \in [LogIds -> {"open", "accepted", "error"}],
           caught' \subseteq LogIds \X Rules,
           pc' \in [Workers -> PCs], mine' \in [Workers -> 0..Len(logs)],
           todo' \in [Workers -> Seq(Rules)],
           fired' \in [Workers -> Seq(DOMAIN alerts)],
           session' \in [Workers -> {"ok", "broken"}],
           AtHand(w)',
           \A v \in Workers : v # w =>
              UNCHANGED <<pc[v], mine[v], todo[v], fired[v], session[v]>>
    PROVE  TypeInv'
<1> USE DEF Ingesting, tables
<1>1. TypeOK'
  BY DEF TypeInv, TypeOK
<1>2. \A v \in Workers : AtHand(v)'
  <2>1. ASSUME NEW v \in Workers, v # w PROVE AtHand(v)'
    <3>1. UNCHANGED <<pc[v], mine[v], todo[v], fired[v], session[v], logs, decided, removed>>
      BY <2>1
    <3>2. AtHand(v)
      BY DEF TypeInv, Shape
    <3> QED
      BY ONLY <3>1, <3>2 DEF AtHand
  <2> QED
    BY <2>1
<1>3. \A u \in Analysts : reading'[u] # Nothing => reading'[u].a \in DOMAIN alerts'
  BY DEF TypeInv, Shape
<1> QED
  BY <1>1, <1>2, <1>3 DEF TypeInv, Shape

\* The same when the request is answered.
LEMMA AnswerTypes ==
    ASSUME TypeInv, NEW w \in Workers, NEW how \in {"accepted", "error"}, Answer(w, how),
           pc[w] # "idle", Ingesting(w), UNCHANGED <<tables, caught>>,
           faults' \in 0..MaxFaults
    PROVE  TypeInv'
<1>1. caught' \subseteq LogIds \X Rules
  BY DEF TypeInv, TypeOK
<1>2. AtHand(w)'
  BY AnswerRows DEF AtHand
<1> QED
  BY <1>1, <1>2, AnswerRows, ThreadTypes

\* A rule that fires is checked, one that does not is passed.
LEMMA EvaluateTypes == ASSUME TypeInv, NEW w \in Workers, Evaluate(w) PROVE TypeInv'
<1>0. TypeOK /\ Shape
  BY DEF TypeInv
<1>1. faults' \in 0..MaxFaults /\ Ingesting(w) /\ UNCHANGED <<tables, caught>>
      /\ caught' \subseteq LogIds \X Rules /\ pc[w] = "rule" /\ todo[w] # << >>
  BY <1>0 DEF Evaluate, TypeOK
<1>2. CASE Answer(w, "error")
  BY <1>1, <1>2, AnswerTypes
<1>3. CASE /\ UNCHANGED <<mine, fired, session, answers>>
           /\ pc' = [pc EXCEPT ![w] = "check"] /\ UNCHANGED todo
  <2>1. /\ pc' \in [Workers -> PCs] /\ pc'[w] = "check"
        /\ \A v \in Workers : v # w => pc'[v] = pc[v]
    BY <1>0, <1>3 DEF TypeOK, PCs
  <2>2. AtHand(w)'
    BY <1>0, <1>1, <1>3, <2>1 DEF Shape, AtHand, tables
  <2> QED
    BY <1>0, <1>1, <1>3, <2>1, <2>2, ThreadTypes DEF TypeOK
<1>4. CASE /\ UNCHANGED <<mine, fired, session, answers>>
           /\ todo' = [todo EXCEPT ![w] = Tail(@)] /\ UNCHANGED pc
  <2>2. AtHand(w)'
    BY <1>0, <1>1, <1>4 DEF Shape, AtHand, tables
  <2> QED
    BY <1>0, <1>1, <1>4, <2>2, ThreadTypes, NextRuleRows DEF TypeOK
<1> QED
  BY <1>2, <1>3, <1>4 DEF Evaluate

\* The deduplication SELECT.
LEMMA CheckTypes == ASSUME TypeInv, NEW w \in Workers, Check(w) PROVE TypeInv'
<1>0. TypeOK /\ Shape
  BY DEF TypeInv
<1>1. /\ faults' \in 0..MaxFaults /\ Ingesting(w) /\ pc[w] = "check"
      /\ UNCHANGED <<tables, mine, fired, session, answers>>
  BY <1>0 DEF Check, TypeOK
<1>2. todo[w] # << >> /\ mine[w] \in LogIds
  BY <1>0, <1>1, Rows DEF Shape, AtHand
<1>3. Head(todo[w]) \in Rules
  <2>1. todo[w] \in Seq(Rules)
    BY <1>0 DEF TypeOK
  <2> QED
    BY <1>2, <2>1, HeadAndTail
<1>4. caught' \subseteq LogIds \X Rules
  BY <1>0, <1>2, <1>3 DEF Check, TypeOK
<1>5. CASE todo' = [todo EXCEPT ![w] = Tail(@)] /\ pc' = [pc EXCEPT ![w] = "rule"]
  <2>1. /\ pc' \in [Workers -> PCs] /\ pc'[w] = "rule"
        /\ \A v \in Workers : v # w => pc'[v] = pc[v]
    BY <1>0, <1>5 DEF TypeOK, PCs
  <2>2. AtHand(w)'
    BY <1>0, <1>1, <1>5, <2>1 DEF Shape, AtHand, tables
  <2> QED
    BY <1>0, <1>1, <1>2, <1>4, <1>5, <2>1, <2>2, ThreadTypes, NextRuleRows DEF TypeOK
<1>6. CASE UNCHANGED todo /\ pc' = [pc EXCEPT ![w] = "create"]
  <2>1. /\ pc' \in [Workers -> PCs] /\ pc'[w] = "create"
        /\ \A v \in Workers : v # w => pc'[v] = pc[v]
    BY <1>0, <1>6 DEF TypeOK, PCs
  <2>2. AtHand(w)'
    BY <1>0, <1>1, <1>2, <1>6, <2>1 DEF Shape, AtHand, tables
  <2> QED
    BY <1>0, <1>1, <1>4, <1>6, <2>1, <2>2, ThreadTypes DEF TypeOK
<1> QED
  BY <1>5, <1>6 DEF Check

\* The new alert and its place in the thread's list.
LEMMA CreateRows ==
    ASSUME TypeInv, NEW w \in Workers, Create(w)
    PROVE  /\ pc[w] = "create" /\ todo[w] # << >> /\ Head(todo[w]) \in Rules
           /\ mine[w] \in DOMAIN logs /\ mine[w] \in LogIds /\ mine[w] \notin gone
           /\ alerts' = Append(alerts, AlertFor(w, Head(todo[w])))
           /\ alerts' \in Seq(AlertRow) /\ Len(alerts') = Len(alerts) + 1
           /\ DOMAIN alerts' = DOMAIN alerts \cup {Len(alerts) + 1}
           /\ Len(alerts) + 1 \notin DOMAIN alerts
           /\ \A a \in DOMAIN alerts : alerts'[a] = alerts[a] /\ trail'[a] = trail[a]
           /\ alerts'[Len(alerts) + 1] = AlertFor(w, Head(todo[w]))
           /\ trail' \in Seq(Seq([was : AlertStates, now : AlertStates]))
           /\ DOMAIN trail' = DOMAIN alerts' /\ trail'[Len(alerts) + 1] = << >>
           /\ fired' \in [Workers -> Seq(DOMAIN alerts')]
           /\ fired'[w] = Append(fired[w], Len(alerts) + 1)
           /\ todo' \in [Workers -> Seq(Rules)] /\ todo'[w] = Tail(todo[w])
           /\ pc' \in [Workers -> PCs] /\ pc'[w] = "rule"
           /\ \A v \in Workers : v # w => UNCHANGED <<pc[v], todo[v], fired[v]>>
           /\ UNCHANGED <<logs, gone, removed, decided, ordered, mine, session, faults,
                          answers, reading, purge, triaged, admin, refused>>
           /\ caught' = caught \cup {<<mine[w], Head(todo[w])>>}
<1>0. TypeOK /\ Shape
  BY DEF TypeInv
<1>1. /\ pc[w] = "create" /\ todo[w] # << >> /\ mine[w] \in DOMAIN logs
      /\ mine[w] \in LogIds /\ mine[w] \notin gone
      /\ UNCHANGED <<logs, gone, removed, decided, ordered, mine, session, faults,
                     answers, reading, purge, triaged, admin, refused>>
      /\ caught' = caught \cup {<<mine[w], Head(todo[w])>>}
      /\ alerts' = Append(alerts, AlertFor(w, Head(todo[w])))
      /\ trail' = Append(trail, << >>)
  BY <1>0, Rows DEF Create, LogLost, Ingesting, Shape, AtHand
<1>2. Head(todo[w]) \in Rules
  <2>1. todo[w] \in Seq(Rules)
    BY <1>0 DEF TypeOK
  <2> QED
    BY <1>1, <2>1, HeadAndTail
<1>3. AlertFor(w, Head(todo[w])) \in AlertRow
  <2>1. logs[mine[w]] \in Feed /\ mine[w] \in 0..MaxLogs
    BY <1>0, <1>1, Rows DEF LogIds
  <2>2. logs[mine[w]].ts \in Nat /\ "new" \in AlertStates
    BY <2>1, FeedAssumption DEF AlertStates
  <2> QED
    BY <1>2, <2>1, <2>2 DEF AlertFor, AlertRow
<1> DEFINE row == AlertFor(w, Head(todo[w]))
           n == Len(alerts) + 1
<1>4. row \in AlertRow
  BY <1>3
<1> HIDE DEF row
<1>5. alerts' = Append(alerts, row) /\ alerts \in Seq(AlertRow)
      /\ Len(alerts) \in Nat /\ DOMAIN alerts = 1..Len(alerts)
  BY <1>0, <1>1, Rows DEF row
<1>6. /\ alerts' \in Seq(AlertRow) /\ Len(alerts') = n
      /\ DOMAIN alerts' = DOMAIN alerts \cup {n} /\ n \notin DOMAIN alerts
      /\ \A a \in DOMAIN alerts : alerts'[a] = alerts[a]
      /\ alerts'[n] = row
  BY <1>4, <1>5
<1> DEFINE T == Seq([was : AlertStates, now : AlertStates])
<1>7. trail \in Seq(T) /\ << >> \in T /\ Len(trail) = Len(alerts) /\ DOMAIN trail = 1..Len(alerts)
  BY <1>0, Rows DEF TypeOK
<1> HIDE DEF T
<1>8. /\ trail' \in Seq(T) /\ DOMAIN trail' = 1..Len(alerts) + 1 /\ trail'[n] = << >>
      /\ \A a \in DOMAIN alerts : trail'[a] = trail[a]
  BY <1>1, <1>5, <1>7
<1>9. DOMAIN trail' = DOMAIN alerts'
  BY <1>5, <1>6, <1>8
<1>10. /\ fired' \in [Workers -> Seq(DOMAIN alerts')]
       /\ fired'[w] = Append(fired[w], n)
       /\ \A v \in Workers : v # w => fired'[v] = fired[v]
  <2>1. fired \in [Workers -> Seq(DOMAIN alerts)]
    BY <1>0 DEF TypeOK
  <2>2. DOMAIN alerts \subseteq DOMAIN alerts' /\ n \in DOMAIN alerts'
    BY <1>6
  <2> DEFINE D == DOMAIN alerts
             E == DOMAIN alerts'
  <2>3. fired \in [Workers -> Seq(D)] /\ D \subseteq E /\ n \in E
    BY <2>1, <2>2
  <2> HIDE DEF D, E
  <2>4. \A v \in Workers : fired[v] \in Seq(E)
    <3> TAKE v \in Workers
    <3>1. fired[v] \in Seq(D)
      BY <2>3
    <3> QED
      BY <2>3, <3>1
  <2>5. Append(fired[w], n) \in Seq(E)
    BY <2>3, <2>4
  <2>6. fired' = [fired EXCEPT ![w] = Append(@, n)]
    BY DEF Create
  <2> DEFINE F == Seq(E)
             fw == Append(fired[w], n)
  <2>7. /\ fw \in F /\ \A v \in Workers : fired[v] \in F
        /\ fired' = [fired EXCEPT ![w] = fw] /\ DOMAIN fired = Workers
    BY <2>3, <2>4, <2>5, <2>6
  <2>10. fired \in [Workers -> F]
    <3> HIDE DEF F
    <3> QED
      BY <2>3, <2>7
  <2> HIDE DEF F, fw
  <2>8. fired' \in [Workers -> F] /\ fired'[w] = fw
        /\ \A v \in Workers : v # w => fired'[v] = fired[v]
    BY <2>7, <2>10
  <2> QED
    BY <2>8 DEF F, fw, E
<1>11. /\ pc' \in [Workers -> PCs] /\ pc'[w] = "rule"
       /\ \A v \in Workers : v # w => pc'[v] = pc[v]
       /\ todo' = [todo EXCEPT ![w] = Tail(@)]
  BY <1>0 DEF Create, TypeOK, PCs
<1> QED
  BY <1>1, <1>2, <1>6, <1>8, <1>9, <1>10, <1>11, NextRuleRows DEF T, row

\* An alert is created.
LEMMA CreateTypes == ASSUME TypeInv, NEW w \in Workers, Create(w) PROVE TypeInv'
<1>0. TypeOK /\ Shape
  BY DEF TypeInv
<1>1. DOMAIN alerts \subseteq DOMAIN alerts' /\ Len(alerts) \in Nat /\ Len(alerts') = Len(alerts) + 1
  BY <1>0, CreateRows, Rows
<1>2. TypeOK'
  <2>1. \A u \in Analysts : reading'[u] \in [a : 0..Len(alerts'), was : AlertStates,
                                             want : AlertStates]
    BY <1>0, <1>1, CreateRows DEF TypeOK
  <2>2. reading' \in [Analysts -> [a : 0..Len(alerts'), was : AlertStates,
                                   want : AlertStates]]
    BY <1>0, <2>1, CreateRows DEF TypeOK
  <2>3. purge' \in [on : BOOLEAN, triaged : BOOLEAN, ids : SUBSET DOMAIN alerts',
                    before : Nat]
    <3>1. purge \in [on : BOOLEAN, triaged : BOOLEAN, ids : SUBSET DOMAIN alerts,
                    before : Nat]
      BY <1>0 DEF TypeOK
    <3> DEFINE D == DOMAIN alerts
               E == DOMAIN alerts'
    <3>2. D \subseteq E /\ purge \in [on : BOOLEAN, triaged : BOOLEAN, ids : SUBSET D, before : Nat]
      BY <1>1, <3>1
    <3> HIDE DEF D, E
    <3>3. purge \in [on : BOOLEAN, triaged : BOOLEAN, ids : SUBSET E, before : Nat]
      <4>1. PICK b1 \in BOOLEAN, b2 \in BOOLEAN, s \in SUBSET D, n \in Nat :
               purge = [on |-> b1, triaged |-> b2, ids |-> s, before |-> n]
        BY <3>2
      <4>2. s \in SUBSET E
        BY <3>2
      <4> QED
        BY <4>1, <4>2
    <3> QED
      BY <3>3, CreateRows DEF E
  <2>4. /\ removed' \subseteq DOMAIN alerts' /\ decided' \subseteq DOMAIN alerts' \ removed'
        /\ ordered' \subseteq decided' /\ refused' \subseteq DOMAIN alerts'
    <3>1. /\ removed \subseteq DOMAIN alerts /\ decided \subseteq DOMAIN alerts \ removed
          /\ ordered \subseteq decided /\ refused \subseteq DOMAIN alerts
      BY <1>0 DEF TypeOK
    <3> QED
      BY <1>1, <3>1, CreateRows
  <2>7. caught' \subseteq LogIds \X Rules
    <3>1. caught \subseteq LogIds \X Rules /\ mine[w] \in LogIds /\ Head(todo[w]) \in Rules
          /\ caught' = caught \cup {<<mine[w], Head(todo[w])>>}
      BY <1>0, CreateRows DEF TypeOK
    <3> QED
      BY <3>1
  <2>5. /\ logs' \in Seq(Feed) /\ Len(logs') <= MaxLogs /\ gone' \subseteq DOMAIN logs'
        /\ mine' \in [Workers -> 0..Len(logs')] /\ session' \in [Workers -> {"ok", "broken"}]
        /\ triaged' \in 0..MaxTriage /\ admin' \in 0..MaxAdmin /\ faults' \in 0..MaxFaults
        /\ answers' \in [LogIds -> {"open", "accepted", "error"}]
    <3>1. UNCHANGED <<logs, gone, mine, session, triaged, admin, faults, answers>>
      BY CreateRows
    <3>2. /\ logs \in Seq(Feed) /\ Len(logs) <= MaxLogs /\ gone \subseteq DOMAIN logs
          /\ mine \in [Workers -> 0..Len(logs)] /\ session \in [Workers -> {"ok", "broken"}]
          /\ triaged \in 0..MaxTriage /\ admin \in 0..MaxAdmin /\ faults \in 0..MaxFaults
          /\ answers \in [LogIds -> {"open", "accepted", "error"}]
      BY <1>0 DEF TypeOK
    <3> QED
      BY <3>1, <3>2
  <2>6. /\ alerts' \in Seq(AlertRow) /\ DOMAIN trail' = DOMAIN alerts'
        /\ trail' \in Seq(Seq([was : AlertStates, now : AlertStates]))
        /\ pc' \in [Workers -> PCs] /\ todo' \in [Workers -> Seq(Rules)]
        /\ fired' \in [Workers -> Seq(DOMAIN alerts')]
    BY CreateRows
  <2> QED
    BY <2>2, <2>3, <2>4, <2>5, <2>6, <2>7 DEF TypeOK, AlertRow
<1>3. Shape'
  <2>1. \A v \in Workers : AtHand(v)'
    <3>1. /\ UNCHANGED <<logs, mine, session>> /\ mine[w] \in DOMAIN logs /\ pc'[w] = "rule"
          /\ \A v \in Workers : v # w => UNCHANGED <<pc[v], todo[v], fired[v]>>
      BY CreateRows
    <3>2. decided \cup removed \subseteq decided' \cup removed'
      BY CreateRows
    <3>3. AtHand(w)'
      BY <3>1 DEF AtHand
    <3>4. ASSUME NEW v \in Workers, v # w PROVE AtHand(v)'
      BY <1>0, <3>1, <3>2, <3>4 DEF Shape, AtHand
    <3> QED
      BY <3>3, <3>4
  <2> QED
    BY <1>0, <1>1, <2>1, CreateRows DEF Shape
<1> QED
  BY <1>2, <1>3 DEF TypeInv

\* A step of one thread that may record a decision or an order.
LEMMA DecisionTypes ==
    ASSUME TypeInv, NEW w \in Workers, Ingesting(w),
           UNCHANGED <<logs, gone, alerts, removed, trail, mine, todo, faults, answers,
                       caught>>,
           decided' \subseteq DOMAIN alerts \ removed, decided \subseteq decided',
           ordered' \subseteq decided',
           pc' \in [Workers -> PCs],
           fired' \in [Workers -> Seq(DOMAIN alerts)],
           session' \in [Workers -> {"ok", "broken"}],
           AtHand(w)',
           \A v \in Workers : v # w => UNCHANGED <<pc[v], fired[v], session[v]>>
    PROVE  TypeInv'
<1> USE DEF Ingesting
<1>1. TypeOK'
  BY DEF TypeInv, TypeOK
<1>2. Shape'
  BY DEF TypeInv, Shape, AtHand
<1> QED
  BY <1>1, <1>2 DEF TypeInv

\* All rules are done.
LEMMA EvaluatedTypes == ASSUME TypeInv, NEW w \in Workers, Evaluated(w) PROVE TypeInv'
<1>0. TypeOK /\ Shape
  BY DEF TypeInv
<1>1. faults' \in 0..MaxFaults /\ Ingesting(w) /\ UNCHANGED <<tables, caught>>
      /\ caught' \subseteq LogIds \X Rules /\ pc[w] = "rule" /\ todo[w] = << >>
  BY <1>0 DEF Evaluated, TypeOK
<1>2. CASE Answer(w, "accepted")
  BY <1>1, <1>2, AnswerTypes
<1>3. CASE /\ UNCHANGED <<mine, todo, fired, session, answers>>
           /\ pc' = [pc EXCEPT ![w] = "respond"]
  <2>1. /\ pc' \in [Workers -> PCs] /\ pc'[w] = "respond"
        /\ \A v \in Workers : v # w => pc'[v] = pc[v]
    BY <1>0, <1>3 DEF TypeOK, PCs
  <2>2. AtHand(w)'
    BY <1>0, <1>1, <1>3, <2>1 DEF Shape, AtHand, tables
  <2> QED
    BY <1>0, <1>1, <1>3, <2>1, <2>2, ThreadTypes DEF TypeOK
<1> QED
  BY <1>2, <1>3 DEF Evaluated

\* The next alert is read, or passed over when it is no longer there.
LEMMA RespondTypes == ASSUME TypeInv, NEW w \in Workers, Respond(w) PROVE TypeInv'
<1>0. TypeOK /\ Shape
  BY DEF TypeInv
<1>1. faults' \in 0..MaxFaults /\ Ingesting(w) /\ UNCHANGED <<tables, caught>>
      /\ caught' \subseteq LogIds \X Rules /\ pc[w] = "respond" /\ fired[w] # << >>
  BY <1>0 DEF Respond, TypeOK
<1>2. CASE Answer(w, "error")
  BY <1>1, <1>2, AnswerTypes
<1>3. CASE /\ UNCHANGED <<mine, todo, session, answers>> /\ UNCHANGED pc
           /\ fired' = [fired EXCEPT ![w] = Tail(@)]
  <2>1. fired[w] \in Seq(DOMAIN alerts)
    BY <1>0 DEF TypeOK
  <2>2. Tail(fired[w]) \in Seq(DOMAIN alerts)
    BY <1>1, <2>1, HeadAndTail
  <2> DEFINE A == Seq(DOMAIN alerts)
  <2>3. fired \in [Workers -> A] /\ Tail(fired[w]) \in A
    BY <1>0, <2>2 DEF TypeOK
  <2> HIDE DEF A
  <2>4. /\ fired' \in [Workers -> A]
        /\ \A v \in Workers : v # w => fired'[v] = fired[v]
    BY <1>3, <2>3
  <2>5. AtHand(w)'
    BY <1>0, <1>1, <1>3 DEF Shape, AtHand, tables
  <2> QED
    BY <1>0, <1>1, <1>3, <2>4, <2>5, ThreadTypes DEF TypeOK, A
<1>4. CASE /\ UNCHANGED <<mine, todo, session, answers>> /\ UNCHANGED fired
           /\ pc' = [pc EXCEPT ![w] = "decide"]
  <2>1. /\ pc' \in [Workers -> PCs] /\ pc'[w] = "decide"
        /\ \A v \in Workers : v # w => pc'[v] = pc[v]
    BY <1>0, <1>4 DEF TypeOK, PCs
  <2>2. AtHand(w)'
    BY <1>0, <1>1, <1>4, <2>1 DEF Shape, AtHand, tables
  <2> QED
    BY <1>0, <1>1, <1>4, <2>1, <2>2, ThreadTypes DEF TypeOK
<1> QED
  BY <1>2, <1>3, <1>4 DEF Respond

\* After a decision the thread goes on, or has an order to place.
LEMMA DecideTypes == ASSUME TypeInv, NEW w \in Workers, Decide(w) PROVE TypeInv'
<1>0. TypeOK /\ Shape
  BY DEF TypeInv
<1>1. /\ pc[w] = "decide" /\ Ingesting(w)
      /\ UNCHANGED <<logs, gone, alerts, removed, trail, ordered, mine, todo, faults,
                     answers, caught>>
      /\ decided \subseteq DOMAIN alerts \ removed /\ ordered \subseteq decided
  BY <1>0 DEF Decide, TypeOK
<1>2. /\ fired[w] # << >> /\ Head(fired[w]) \in DOMAIN alerts
      /\ todo[w] = << >> /\ mine[w] \in DOMAIN logs
  <2>1. fired[w] \in Seq(DOMAIN alerts)
    BY <1>0 DEF TypeOK
  <2>2. fired[w] # << >> /\ todo[w] = << >> /\ mine[w] \in DOMAIN logs
    BY <1>0, <1>1 DEF Shape, AtHand
  <2> QED
    BY <2>1, <2>2, HeadAndTail
<1>3. /\ decided' \subseteq DOMAIN alerts \ removed /\ decided \subseteq decided'
      /\ ordered' \subseteq decided'
  BY <1>1, <1>2 DEF Decide, FlushFailed
<1>4. ASSUME NEW s \in {"ok", "broken"}, NextAlert(w, s) PROVE TypeInv'
  <2>1. AtHand(w)'
    BY <1>1, <1>2, <1>4, NextAlertRows DEF AtHand
  <2> QED
    BY <1>1, <1>3, <1>4, <2>1, NextAlertRows, DecisionTypes
<1>5. CASE /\ pc' = [pc EXCEPT ![w] = "dispatch"] /\ UNCHANGED <<fired, session>>
           /\ decided' = decided \cup {Head(fired[w])}
  <2>1. /\ pc' \in [Workers -> PCs] /\ pc'[w] = "dispatch"
        /\ \A v \in Workers : v # w => pc'[v] = pc[v]
    BY <1>0, <1>5 DEF TypeOK, PCs
  <2>2. AtHand(w)'
    BY <1>1, <1>2, <1>5, <2>1 DEF AtHand
  <2> QED
    BY <1>0, <1>1, <1>3, <1>5, <2>1, <2>2, DecisionTypes DEF TypeOK
<1> QED
  BY <1>4, <1>5 DEF Decide, FlushFailed

\* An order refers to an alert that has a decision.
LEMMA DispatchTypes == ASSUME TypeInv, NEW w \in Workers, Dispatch(w) PROVE TypeInv'
<1>0. TypeOK /\ Shape
  BY DEF TypeInv
<1>1. /\ pc[w] = "dispatch" /\ Ingesting(w) /\ NextAlert(w, "ok")
      /\ UNCHANGED <<logs, gone, alerts, removed, trail, decided, mine, todo, faults,
                     answers, caught>>
      /\ decided \subseteq DOMAIN alerts \ removed /\ ordered \subseteq decided
      /\ ordered' \in {ordered, ordered \cup ({Head(fired[w])} \ removed)}
  BY <1>0 DEF Dispatch, TypeOK
<1>2. Head(fired[w]) \in decided \cup removed
  BY <1>0, <1>1 DEF Shape, AtHand
<1>3. ordered' \subseteq decided'
  BY <1>1, <1>2
<1>4. AtHand(w)'
  BY <1>1, NextAlertRows DEF AtHand
<1> QED
  BY <1>1, <1>3, <1>4, NextAlertRows, DecisionTypes

\* Every step of a thread that has begun a request keeps the types.
LEMMA StepTypes == ASSUME TypeInv, NEW w \in Workers, Step(w) PROVE TypeInv'
<1>1. CASE CreateFails(w)
  <2>1. faults' \in 0..MaxFaults
    BY <1>1 DEF CreateFails, TypeInv, TypeOK
  <2> QED
    BY <1>1, <2>1, AnswerTypes DEF CreateFails, GiveUp
<1>2. CASE Responded(w)
  <2>1. faults' \in 0..MaxFaults
    BY <1>2 DEF Responded, TypeInv, TypeOK
  <2>2. PICK how \in {"accepted", "error"} : Answer(w, how)
    BY <1>2 DEF Responded
  <2> QED
    BY <1>2, <2>1, <2>2, AnswerTypes DEF Responded
<1> QED
  BY <1>1, <1>2, EvaluateTypes, CheckTypes, CreateTypes, EvaluatedTypes, RespondTypes,
     DecideTypes, DispatchTypes DEF Step

\* A commit that times out.
LEMMA CommitFailsTypes == ASSUME TypeInv, NEW w \in Workers, CommitFails(w) PROVE TypeInv'
<1>0. TypeOK /\ Shape
  BY DEF TypeInv
<1>1. faults' \in 0..MaxFaults /\ Ingesting(w) /\ UNCHANGED <<tables, caught>>
  BY <1>0, FeedAssumption DEF CommitFails, TypeOK
<1>2. CASE pc[w] = "create" /\ Answer(w, "error")
  BY <1>1, <1>2, AnswerTypes
<1>3. CASE /\ pc[w] \in {"decide", "dispatch"} /\ NextAlert(w, "broken")
           /\ UNCHANGED <<mine, todo, answers>>
  <2>1. AtHand(w)'
    BY <1>1, <1>3, NextAlertRows DEF AtHand, tables
  <2>2. caught' \subseteq LogIds \X Rules
    BY <1>0, <1>1 DEF TypeOK
  <2> QED
    BY <1>0, <1>1, <1>3, <2>1, <2>2, NextAlertRows, ThreadTypes DEF TypeOK
<1> QED
  BY <1>2, <1>3 DEF CommitFails, GiveUp, FlushFailed

\* What storing an event changes.
LEMMA IngestRows ==
    ASSUME TypeInv, NEW w \in Workers, NEW ev \in Feed, Ingest(w, ev)
    PROVE  /\ pc[w] = "idle"
           /\ logs' \in Seq(Feed) /\ Len(logs') = Len(logs) + 1 /\ Len(logs') <= MaxLogs
           /\ DOMAIN logs' = DOMAIN logs \cup {Len(logs) + 1}
           /\ Len(logs) + 1 \notin DOMAIN logs /\ Len(logs) + 1 \in LogIds
           /\ \A l \in DOMAIN logs : logs'[l] = logs[l]
           /\ logs'[Len(logs) + 1] = ev
           /\ mine' \in [Workers -> 0..Len(logs')] /\ mine'[w] = Len(logs) + 1
           /\ todo' \in [Workers -> Seq(Rules)] /\ todo'[w] = RuleSeq
           /\ pc' \in [Workers -> PCs] /\ pc'[w] = "rule"
           /\ \A v \in Workers : v # w => UNCHANGED <<pc[v], mine[v], todo[v]>>
           /\ UNCHANGED <<gone, alerts, removed, trail, decided, ordered, fired, session,
                          faults, answers, caught, reading, purge, triaged, admin, refused>>
<1>0. TypeOK /\ Shape
  BY DEF TypeInv
<1>1. /\ logs \in Seq(Feed) /\ Len(logs) \in Nat /\ DOMAIN logs = 1..Len(logs)
      /\ Len(logs) < MaxLogs /\ MaxLogs \in Nat /\ logs' = Append(logs, ev)
  BY <1>0, FeedAssumption DEF Ingest, TypeOK
<1>2. /\ logs' \in Seq(Feed) /\ Len(logs') = Len(logs) + 1 /\ Len(logs') <= MaxLogs
      /\ DOMAIN logs' = DOMAIN logs \cup {Len(logs) + 1}
      /\ Len(logs) + 1 \notin DOMAIN logs /\ Len(logs) + 1 \in LogIds
      /\ \A l \in DOMAIN logs : logs'[l] = logs[l]
      /\ logs'[Len(logs) + 1] = ev
  BY <1>1 DEF LogIds
<1>3. /\ mine' \in [Workers -> 0..Len(logs')] /\ mine'[w] = Len(logs) + 1
      /\ \A v \in Workers : v # w => mine'[v] = mine[v]
  <2> DEFINE M == 0..Len(logs')
             n == Len(logs) + 1
  <2>1. n \in M /\ \A v \in Workers : mine[v] \in M
    BY <1>0, <1>1, <1>2 DEF TypeOK
  <2>2. mine \in [Workers -> 0..Len(logs)] /\ mine' = [mine EXCEPT ![w] = n]
    BY <1>0 DEF TypeOK, Ingest
  <2> HIDE DEF M, n
  <2>3. mine \in [Workers -> M]
    BY <2>1, <2>2
  <2>4. /\ mine' \in [Workers -> M] /\ mine'[w] = n
        /\ \A v \in Workers : v # w => mine'[v] = mine[v]
    BY <2>1, <2>2, <2>3
  <2> QED
    BY <2>4 DEF M, n
<1>4. /\ todo' \in [Workers -> Seq(Rules)] /\ todo'[w] = RuleSeq
      /\ \A v \in Workers : v # w => todo'[v] = todo[v]
  <2> DEFINE R == Seq(Rules)
  <2>1. RuleSeq \in R /\ todo \in [Workers -> R]
    BY <1>0, RuleAssumption DEF TypeOK
  <2> HIDE DEF R
  <2>2. /\ todo' \in [Workers -> R] /\ todo'[w] = RuleSeq
        /\ \A v \in Workers : v # w => todo'[v] = todo[v]
    BY <2>1 DEF Ingest
  <2> QED
    BY <2>2 DEF R
<1>5. /\ pc[w] = "idle" /\ pc' \in [Workers -> PCs] /\ pc'[w] = "rule"
      /\ \A v \in Workers : v # w => pc'[v] = pc[v]
      /\ UNCHANGED <<gone, alerts, removed, trail, decided, ordered, fired, session,
                     faults, answers, caught, reading, purge, triaged, admin, refused>>
  BY <1>0 DEF Ingest, Ingesting, TypeOK, PCs
<1> QED
  BY <1>2, <1>3, <1>4, <1>5

\* An event is stored.
LEMMA IngestTypes ==
    ASSUME TypeInv, NEW w \in Workers, NEW ev \in Feed, Ingest(w, ev) PROVE TypeInv'
<1>0. TypeOK /\ Shape
  BY DEF TypeInv
<1>1. TypeOK'
  <2>1. /\ logs' \in Seq(Feed) /\ Len(logs') <= MaxLogs /\ gone' \subseteq DOMAIN logs'
        /\ mine' \in [Workers -> 0..Len(logs')] /\ todo' \in [Workers -> Seq(Rules)]
        /\ pc' \in [Workers -> PCs]
    BY <1>0, IngestRows DEF TypeOK
  <2>2. UNCHANGED <<alerts, removed, trail, decided, ordered, fired, session, faults,
                    answers, caught, reading, purge, triaged, admin, refused>>
    BY IngestRows
  <2>3. /\ alerts' \in Seq(AlertRow) /\ removed' \subseteq DOMAIN alerts'
        /\ trail' \in Seq(Seq([was : AlertStates, now : AlertStates]))
        /\ DOMAIN trail' = DOMAIN alerts' /\ decided' \subseteq DOMAIN alerts' \ removed'
        /\ ordered' \subseteq decided' /\ refused' \subseteq DOMAIN alerts'
    BY <1>0, <2>2 DEF TypeOK, AlertRow
  <2>4. /\ fired' \in [Workers -> Seq(DOMAIN alerts')] /\ session' \in [Workers -> {"ok", "broken"}]
        /\ answers' \in [LogIds -> {"open", "accepted", "error"}]
        /\ caught' \subseteq LogIds \X Rules
    BY <1>0, <2>2 DEF TypeOK
  <2>5. /\ reading' \in [Analysts -> [a : 0..Len(alerts'), was : AlertStates,
                                     want : AlertStates]]
        /\ purge' \in [on : BOOLEAN, triaged : BOOLEAN, ids : SUBSET DOMAIN alerts',
                       before : Nat]
        /\ triaged' \in 0..MaxTriage /\ admin' \in 0..MaxAdmin /\ faults' \in 0..MaxFaults
    BY <1>0, <2>2 DEF TypeOK
  <2> QED
    BY <2>1, <2>3, <2>4, <2>5 DEF TypeOK, AlertRow
<1>2. AtHand(w)'
  BY IngestRows DEF AtHand
<1>3. ASSUME NEW v \in Workers, v # w PROVE AtHand(v)'
  <2>1. AtHand(v)
    BY <1>0 DEF Shape
  <2>2. /\ UNCHANGED <<pc[v], mine[v], todo[v], fired[v], session[v]>>
        /\ UNCHANGED <<decided, removed>> /\ DOMAIN logs \subseteq DOMAIN logs'
    BY <1>3, IngestRows
  <2> QED
    BY <2>1, <2>2 DEF AtHand
<1>4. Shape'
  BY <1>0, <1>2, <1>3, IngestRows DEF Shape
<1> QED
  BY <1>1, <1>4 DEF TypeInv

\* The process ends.
LEMMA CrashTypes == ASSUME TypeInv, Crash PROVE TypeInv'
<1>0. TypeOK /\ Shape
  BY DEF TypeInv
<1>1. pc' \in [Workers -> PCs] /\ session' \in [Workers -> {"ok", "broken"}]
  BY DEF Crash, PCs
<1>2. mine' \in [Workers -> 0..Len(logs)]
  BY <1>0, Rows DEF Crash
<1>3. todo' \in [Workers -> Seq(Rules)] /\ fired' \in [Workers -> Seq(DOMAIN alerts)]
  BY DEF Crash
<1>4. reading' \in [Analysts -> [a : 0..Len(alerts), was : AlertStates, want : AlertStates]]
  BY <1>0, Rows DEF Crash, Nothing, AlertStates
<1>5. purge' \in [on : BOOLEAN, triaged : BOOLEAN, ids : SUBSET DOMAIN alerts, before : Nat]
  BY DEF Crash, NoPurge
<1>6. faults' \in 0..MaxFaults
  BY <1>0, FeedAssumption DEF Crash, TypeOK
<1>7. TypeOK'
  BY <1>0, <1>1, <1>2, <1>3, <1>4, <1>5, <1>6 DEF Crash, TypeOK, tables, history
<1>8. Shape'
  BY DEF Crash, Shape, AtHand
<1> QED
  BY <1>7, <1>8 DEF TypeInv

\* A request of an analyst or an administrator leaves the threads alone.
LEMMA AdminTypes ==
    ASSUME TypeInv, UNCHANGED <<logs, threads, answers, caught>>,
           gone' \subseteq DOMAIN logs,
           alerts' \in Seq(AlertRow), DOMAIN alerts' = DOMAIN alerts,
           trail' \in Seq(Seq([was : AlertStates, now : AlertStates])),
           DOMAIN trail' = DOMAIN alerts,
           removed' \subseteq DOMAIN alerts,
           decided' \subseteq DOMAIN alerts \ removed', ordered' \subseteq decided',
           decided \cup removed \subseteq decided' \cup removed',
           reading' \in [Analysts -> [a : 0..Len(alerts), was : AlertStates,
                                      want : AlertStates]],
           \A u \in Analysts : reading'[u] # Nothing => reading'[u].a \in DOMAIN alerts,
           purge' \in [on : BOOLEAN, triaged : BOOLEAN, ids : SUBSET DOMAIN alerts,
                       before : Nat],
           triaged' \in 0..MaxTriage, admin' \in 0..MaxAdmin, faults' \in 0..MaxFaults,
           refused' \subseteq DOMAIN alerts
    PROVE  TypeInv'
<1>0. TypeOK /\ Shape
  BY DEF TypeInv
<1>1. Len(alerts') = Len(alerts)
  <2>1. alerts \in Seq(AlertRow)
    BY <1>0, Rows
  <2> QED
    BY <2>1
<1>2. TypeOK'
  <2>1. /\ logs' \in Seq(Feed) /\ Len(logs') <= MaxLogs /\ gone' \subseteq DOMAIN logs'
        /\ pc' \in [Workers -> PCs] /\ mine' \in [Workers -> 0..Len(logs')]
        /\ todo' \in [Workers -> Seq(Rules)] /\ session' \in [Workers -> {"ok", "broken"}]
        /\ answers' \in [LogIds -> {"open", "accepted", "error"}]
        /\ caught' \subseteq LogIds \X Rules
    BY <1>0 DEF TypeOK, threads
  <2>2. fired' \in [Workers -> Seq(DOMAIN alerts')]
    BY <1>0 DEF TypeOK, threads
  <2>3. /\ removed' \subseteq DOMAIN alerts' /\ decided' \subseteq DOMAIN alerts' \ removed'
        /\ ordered' \subseteq decided' /\ refused' \subseteq DOMAIN alerts'
        /\ trail' \in Seq(Seq([was : AlertStates, now : AlertStates]))
        /\ DOMAIN trail' = DOMAIN alerts'
    OBVIOUS
  <2>4. /\ reading' \in [Analysts -> [a : 0..Len(alerts'), was : AlertStates,
                                     want : AlertStates]]
        /\ purge' \in [on : BOOLEAN, triaged : BOOLEAN, ids : SUBSET DOMAIN alerts',
                       before : Nat]
        /\ triaged' \in 0..MaxTriage /\ admin' \in 0..MaxAdmin /\ faults' \in 0..MaxFaults
    BY <1>1
  <2> QED
    BY <2>1, <2>2, <2>3, <2>4 DEF TypeOK, AlertRow
<1>3. \A w \in Workers : AtHand(w)'
  <2> SUFFICES ASSUME NEW w \in Workers PROVE AtHand(w)'
    OBVIOUS
  <2>1. AtHand(w)
    BY <1>0 DEF Shape
  <2>2. UNCHANGED <<pc, mine, todo, fired, session, logs>>
    BY DEF threads
  <2> QED
    BY <2>1, <2>2 DEF AtHand
<1>4. Shape'
  BY <1>0, <1>3 DEF Shape
<1> QED
  BY <1>2, <1>4 DEF TypeInv

\* What opening a request for triage changes.
LEMMA OpenAlertRows ==
    ASSUME TypeInv, NEW u \in Analysts, OpenAlert(u)
    PROVE  /\ reading' \in [Analysts -> [a : 0..Len(alerts), was : AlertStates,
                                         want : AlertStates]]
           /\ reading'[u].a \in DOMAIN alerts
           /\ \A v \in Analysts : v # u => reading'[v] = reading[v]
<1>0. TypeOK /\ Shape
  BY DEF TypeInv
<1>1. PICK a \in DOMAIN alerts \ removed, v \in Verdicts :
         reading' = [reading EXCEPT ![u] = [a |-> a, was |-> alerts[a].status, want |-> v]]
  BY DEF OpenAlert
<1> DEFINE R == [a : 0..Len(alerts), was : AlertStates, want : AlertStates]
           q == [a |-> a, was |-> alerts[a].status, want |-> v]
<1>2. q \in R /\ q.a \in DOMAIN alerts
  <2>1. a \in 0..Len(alerts)
    BY <1>0, Rows
  <2>2. alerts[a].status \in AlertStates
    BY <1>0, Rows DEF AlertRow
  <2>3. v \in AlertStates
    BY FeedAssumption DEF AlertStates
  <2> QED
    BY <2>1, <2>2, <2>3
<1>3. reading \in [Analysts -> R] /\ reading' = [reading EXCEPT ![u] = q]
  BY <1>0, <1>1 DEF TypeOK
<1> HIDE DEF R, q
<1>4. /\ reading' \in [Analysts -> R] /\ reading'[u] = q
      /\ \A x \in Analysts : x # u => reading'[x] = reading[x]
  BY <1>2, <1>3
<1> QED
  BY <1>2, <1>4 DEF R

\* A request for triage is opened.
LEMMA OpenAlertTypes == ASSUME TypeInv, NEW u \in Analysts, OpenAlert(u) PROVE TypeInv'
<1>0. TypeOK /\ Shape
  BY DEF TypeInv
<1>1. /\ UNCHANGED <<tables, threads, purge, admin, faults, history>>
      /\ triaged' = triaged + 1 /\ triaged < MaxTriage
  BY DEF OpenAlert
<1>2. triaged' \in 0..MaxTriage
  BY <1>0, <1>1, FeedAssumption DEF TypeOK
<1>3. \A v \in Analysts : reading'[v] # Nothing => reading'[v].a \in DOMAIN alerts
  BY <1>0, OpenAlertRows DEF Shape
<1>4. /\ gone' \subseteq DOMAIN logs /\ alerts' \in Seq(AlertRow) /\ DOMAIN alerts' = DOMAIN alerts
      /\ trail' \in Seq(Seq([was : AlertStates, now : AlertStates]))
      /\ DOMAIN trail' = DOMAIN alerts /\ removed' \subseteq DOMAIN alerts
      /\ decided' \subseteq DOMAIN alerts \ removed' /\ ordered' \subseteq decided'
      /\ decided \cup removed \subseteq decided' \cup removed'
      /\ refused' \subseteq DOMAIN alerts
  BY <1>0, <1>1 DEF TypeOK, AlertRow, tables, history
<1>5. purge' \in [on : BOOLEAN, triaged : BOOLEAN, ids : SUBSET DOMAIN alerts, before : Nat]
      /\ admin' \in 0..MaxAdmin /\ faults' \in 0..MaxFaults
  BY <1>0, <1>1 DEF TypeOK
<1>6. UNCHANGED <<logs, threads, answers, caught>>
  BY <1>1 DEF tables, history
<1> QED
  BY <1>2, <1>3, <1>4, <1>5, <1>6, OpenAlertRows, AdminTypes

\* What saving a status changes: nothing when the alert is gone, else its
\* status and one entry at the end of its history.
LEMMA SaveStatusRows ==
    ASSUME TypeInv, NEW u \in Analysts, SaveStatus(u)
    PROVE  /\ reading[u].a \in DOMAIN alerts /\ reading[u].want \in AlertStates
           /\ alerts' \in Seq(AlertRow) /\ DOMAIN alerts' = DOMAIN alerts
           /\ trail' \in Seq(Seq([was : AlertStates, now : AlertStates]))
           /\ DOMAIN trail' = DOMAIN alerts
           /\ \A a \in DOMAIN alerts :
                 \/ a # reading[u].a /\ alerts'[a] = alerts[a] /\ trail'[a] = trail[a]
                 \/ a \in removed /\ alerts'[a] = alerts[a] /\ trail'[a] = trail[a]
                 \/ /\ a = reading[u].a /\ a \notin removed
                    /\ alerts'[a] = [alerts[a] EXCEPT !.status = reading[u].want]
                    /\ trail'[a] = Append(trail[a], Entry(reading[u]))
           /\ reading' = [reading EXCEPT ![u] = Nothing]
<1>0. TypeOK /\ Shape
  BY DEF TypeInv
<1>1. reading[u].a \in DOMAIN alerts /\ reading[u] # Nothing
  BY <1>0 DEF Shape, SaveStatus
<1>2. reading[u].want \in AlertStates /\ reading[u].was \in AlertStates
  BY <1>0 DEF TypeOK
<1> DEFINE n == reading[u].a
           E == [was : AlertStates, now : AlertStates]
           T == Seq(E)
           row == [alerts[n] EXCEPT !.status = reading[u].want]
           e == Entry(reading[u])
<1>3. row \in AlertRow /\ e \in E
  <2>1. alerts[n] \in AlertRow
    BY <1>0, <1>1, Rows
  <2> QED
    BY <1>2, <2>1 DEF AlertRow, Entry
<1>4. /\ alerts \in Seq(AlertRow) /\ trail \in Seq(T) /\ DOMAIN trail = DOMAIN alerts
      /\ n \in DOMAIN alerts
  BY <1>0, <1>1, Rows DEF TypeOK
<1>5. trail[n] \in T
  <2> HIDE DEF T
  <2> QED
    BY <1>4
<1>6. Append(trail[n], e) \in T
  <2> HIDE DEF E
  <2> QED
    BY <1>3, <1>5
<1>7. CASE n \in removed
  <2>1. UNCHANGED <<alerts, trail>> /\ reading' = [reading EXCEPT ![u] = Nothing]
    BY <1>7 DEF SaveStatus
  <2> QED
    BY <1>1, <1>2, <1>4, <1>7, <2>1
<1>8. CASE n \notin removed
  <2>1. /\ alerts' = [alerts EXCEPT ![n] = row]
        /\ trail' = [trail EXCEPT ![n] = Append(@, e)]
        /\ reading' = [reading EXCEPT ![u] = Nothing]
    BY <1>8 DEF SaveStatus
  <2> DEFINE f == Append(trail[n], e)
  <2>2. trail' = [trail EXCEPT ![n] = f] /\ f \in T
    BY <1>6, <2>1
  <2> HIDE DEF row, T, f
  <2>3. /\ alerts' \in Seq(AlertRow) /\ DOMAIN alerts' = DOMAIN alerts
        /\ alerts'[n] = row
        /\ \A a \in DOMAIN alerts : a # n => alerts'[a] = alerts[a]
    BY <1>3, <1>4, <2>1
  <2>4. /\ trail' \in Seq(T) /\ DOMAIN trail' = DOMAIN alerts
        /\ trail'[n] = f
        /\ \A a \in DOMAIN alerts : a # n => trail'[a] = trail[a]
    BY <1>4, <2>2
  <2> QED
    BY <1>1, <1>2, <1>8, <2>1, <2>3, <2>4 DEF row, T, f
<1> QED
  BY <1>7, <1>8

\* A status is saved.
LEMMA SaveStatusTypes == ASSUME TypeInv, NEW u \in Analysts, SaveStatus(u) PROVE TypeInv'
<1>0. TypeOK /\ Shape
  BY DEF TypeInv
<1>1. UNCHANGED <<logs, gone, removed, decided, ordered, threads, purge, budgets, history>>
  BY DEF SaveStatus
<1>2. /\ reading' \in [Analysts -> [a : 0..Len(alerts), was : AlertStates,
                                    want : AlertStates]]
      /\ \A v \in Analysts : reading'[v] # Nothing => reading'[v].a \in DOMAIN alerts
  <2> DEFINE R == [a : 0..Len(alerts), was : AlertStates, want : AlertStates]
  <2>1. Nothing \in R
    BY <1>0, Rows DEF Nothing, AlertStates
  <2>2. reading \in [Analysts -> R]
    BY <1>0 DEF TypeOK
  <2> HIDE DEF R
  <2>0. reading' = [reading EXCEPT ![u] = Nothing]
    BY SaveStatusRows
  <2>3. /\ reading' \in [Analysts -> R] /\ reading'[u] = Nothing
        /\ \A v \in Analysts : v # u => reading'[v] = reading[v]
    BY <2>0, <2>1, <2>2
  <2> QED
    BY <1>0, <2>3 DEF R, Shape
<1>3. /\ gone' \subseteq DOMAIN logs /\ removed' \subseteq DOMAIN alerts
      /\ decided' \subseteq DOMAIN alerts \ removed' /\ ordered' \subseteq decided'
      /\ decided \cup removed \subseteq decided' \cup removed'
      /\ refused' \subseteq DOMAIN alerts
  BY <1>0, <1>1 DEF TypeOK, history
<1>4. purge' \in [on : BOOLEAN, triaged : BOOLEAN, ids : SUBSET DOMAIN alerts, before : Nat]
      /\ admin' \in 0..MaxAdmin /\ faults' \in 0..MaxFaults /\ triaged' \in 0..MaxTriage
  BY <1>0, <1>1 DEF TypeOK, budgets
<1>5. UNCHANGED <<logs, threads, answers, caught>>
  BY <1>1 DEF history
<1> QED
  BY <1>2, <1>3, <1>4, <1>5, SaveStatusRows, AdminTypes

\* What deleting alerts changes: nothing when an order refers to one of
\* them, else they are gone with their history and their response rows.
LEMMA DropAlertsRows ==
    ASSUME TypeInv, NEW S \in SUBSET DOMAIN alerts, DropAlerts(S), UNCHANGED ordered
    PROVE  /\ removed' \subseteq DOMAIN alerts /\ removed \subseteq removed'
           /\ removed' \subseteq removed \cup S
           /\ refused' \subseteq DOMAIN alerts
           /\ trail' \in Seq(Seq([was : AlertStates, now : AlertStates]))
           /\ DOMAIN trail' = DOMAIN alerts
           /\ \A a \in DOMAIN alerts \ removed' : trail'[a] = trail[a]
           /\ decided' = decided \ (removed' \ removed)
           /\ decided' \subseteq DOMAIN alerts \ removed' /\ ordered' \subseteq decided'
           /\ decided \cup removed \subseteq decided' \cup removed'
           /\ (UNCHANGED <<removed, trail, decided>> \/ removed' = removed \cup S)
<1>0. TypeOK /\ Shape
  BY DEF TypeInv
<1>1. /\ removed \subseteq DOMAIN alerts /\ decided \subseteq DOMAIN alerts \ removed
      /\ ordered \subseteq decided /\ refused \subseteq DOMAIN alerts
      /\ trail \in Seq(Seq([was : AlertStates, now : AlertStates]))
      /\ DOMAIN trail = DOMAIN alerts
  BY <1>0 DEF TypeOK
<1>2. CASE S \cap ordered # {}
  BY <1>1, <1>2 DEF DropAlerts
<1>3. CASE S \cap ordered = {}
  <2> DEFINE T == Seq([was : AlertStates, now : AlertStates])
  <2>1. /\ trail \in Seq(T) /\ << >> \in T
    BY <1>1
  <2> HIDE DEF T
  <2>2. /\ removed' = removed \cup S /\ decided' = decided \ S /\ UNCHANGED refused
        /\ trail' = [a \in DOMAIN trail |-> IF a \in S THEN << >> ELSE trail[a]]
    BY <1>3 DEF DropAlerts, RowsGone
  <2>3. DOMAIN trail = 1..Len(trail) /\ Len(trail) \in Nat /\ \A a \in DOMAIN trail : trail[a] \in T
    BY <2>1
  <2>4. trail' \in Seq(T)
    BY <2>1, <2>2, <2>3
  <2>5. DOMAIN trail' = DOMAIN alerts
    BY <1>1, <2>2
  <2>6. \A a \in DOMAIN alerts \ removed' : trail'[a] = trail[a]
    BY <1>1, <2>2
  <2>7. decided' = decided \ (removed' \ removed)
    BY <1>1, <2>2
  <2> QED
    BY <1>1, <1>3, <2>2, <2>4, <2>5, <2>6, <2>7 DEF T
<1> QED
  BY <1>2, <1>3

\* What deleting logs changes: alerts lose the reference and stay.
LEMMA DropLogsRows ==
    ASSUME TypeInv, NEW S \in SUBSET DOMAIN logs, DropLogs(S)
    PROVE  /\ gone' \subseteq DOMAIN logs /\ gone \subseteq gone'
           /\ alerts' \in Seq(AlertRow) /\ DOMAIN alerts' = DOMAIN alerts
           /\ \A a \in DOMAIN alerts :
                 alerts'[a] = alerts[a] \/ alerts'[a] = [alerts[a] EXCEPT !.log = 0]
<1>0. TypeOK /\ Shape
  BY DEF TypeInv
<1>1. /\ alerts \in Seq(AlertRow) /\ DOMAIN alerts = 1..Len(alerts) /\ Len(alerts) \in Nat
      /\ \A a \in DOMAIN alerts : alerts[a] \in AlertRow
      /\ gone \subseteq DOMAIN logs /\ MaxLogs \in Nat
  BY <1>0, Rows, FeedAssumption DEF TypeOK
<1>2. \A a \in DOMAIN alerts : [alerts[a] EXCEPT !.log = 0] \in AlertRow
  <2>1. 0 \in 0..MaxLogs
    BY <1>1
  <2>2. \A row \in AlertRow : [row EXCEPT !.log = 0] \in AlertRow
    BY <2>1 DEF AlertRow
  <2> QED
    BY <1>1, <2>2
<1>3. /\ gone' = gone \cup S
      /\ alerts' = [a \in DOMAIN alerts |->
                      IF alerts[a].log \in S THEN [alerts[a] EXCEPT !.log = 0]
                      ELSE alerts[a]]
  BY DEF DropLogs
<1>4. /\ DOMAIN alerts' = DOMAIN alerts
      /\ \A a \in DOMAIN alerts :
            alerts'[a] = alerts[a] \/ alerts'[a] = [alerts[a] EXCEPT !.log = 0]
  BY <1>3
<1>5. \A a \in DOMAIN alerts' : alerts'[a] \in AlertRow
  BY <1>1, <1>2, <1>4
<1>6. alerts' \in Seq(AlertRow)
  <2>1. alerts' = [a \in 1..Len(alerts) |-> alerts'[a]]
    BY <1>1, <1>3, <1>4
  <2> QED
    BY <1>1, <1>4, <1>5, <2>1
<1> QED
  BY <1>1, <1>3, <1>4, <1>6

\* Alerts are deleted.
LEMMA DeleteAlertsTypes == ASSUME TypeInv, DeleteAlerts PROVE TypeInv'
<1>0. TypeOK /\ Shape
  BY DEF TypeInv
<1>1. PICK S \in SUBSET DOMAIN alerts : DropAlerts(S)
  BY DEF DeleteAlerts
<1>2. /\ UNCHANGED <<logs, gone, alerts, ordered, threads, reading, purge, triaged,
                     faults, answers, caught>>
      /\ admin < MaxAdmin /\ admin' = admin + 1
  BY DEF DeleteAlerts
<1>3. admin' \in 0..MaxAdmin
  BY <1>0, <1>2, FeedAssumption DEF TypeOK
<1>4. /\ gone' \subseteq DOMAIN logs /\ alerts' \in Seq(AlertRow) /\ DOMAIN alerts' = DOMAIN alerts
      /\ reading' \in [Analysts -> [a : 0..Len(alerts), was : AlertStates,
                                    want : AlertStates]]
      /\ \A u \in Analysts : reading'[u] # Nothing => reading'[u].a \in DOMAIN alerts
      /\ triaged' \in 0..MaxTriage /\ faults' \in 0..MaxFaults
  BY <1>0, <1>2 DEF TypeOK, AlertRow, Shape
<1>5. purge' \in [on : BOOLEAN, triaged : BOOLEAN, ids : SUBSET DOMAIN alerts, before : Nat]
  BY <1>0, <1>2 DEF TypeOK
<1> QED
  BY <1>1, <1>2, <1>3, <1>4, <1>5, DropAlertsRows, AdminTypes

\* Logs are deleted.
LEMMA DeleteLogsTypes == ASSUME TypeInv, DeleteLogs PROVE TypeInv'
<1>0. TypeOK /\ Shape
  BY DEF TypeInv
<1>1. PICK S \in SUBSET DOMAIN logs : DropLogs(S)
  BY DEF DeleteLogs
<1>2. /\ UNCHANGED <<logs, removed, trail, decided, ordered, threads, reading, purge,
                     triaged, faults, history>>
      /\ admin < MaxAdmin /\ admin' = admin + 1
  BY DEF DeleteLogs
<1>3. admin' \in 0..MaxAdmin
  BY <1>0, <1>2, FeedAssumption DEF TypeOK
<1>4. /\ trail' \in Seq(Seq([was : AlertStates, now : AlertStates]))
      /\ DOMAIN trail' = DOMAIN alerts /\ removed' \subseteq DOMAIN alerts
      /\ decided' \subseteq DOMAIN alerts \ removed' /\ ordered' \subseteq decided'
      /\ decided \cup removed \subseteq decided' \cup removed'
      /\ refused' \subseteq DOMAIN alerts
  BY <1>0, <1>2 DEF TypeOK, history
<1>5. purge' \in [on : BOOLEAN, triaged : BOOLEAN, ids : SUBSET DOMAIN alerts, before : Nat]
  BY <1>0, <1>2 DEF TypeOK
<1>6. /\ reading' \in [Analysts -> [a : 0..Len(alerts), was : AlertStates,
                                    want : AlertStates]]
      /\ \A u \in Analysts : reading'[u] # Nothing => reading'[u].a \in DOMAIN alerts
      /\ triaged' \in 0..MaxTriage /\ faults' \in 0..MaxFaults
      /\ UNCHANGED <<logs, threads, answers, caught>>
  BY <1>0, <1>2 DEF TypeOK, Shape, history
<1> QED
  BY <1>1, <1>3, <1>4, <1>5, <1>6, DropLogsRows, AdminTypes

\* A purge selects its alerts.
LEMMA SelectPurgeTypes == ASSUME TypeInv, SelectPurge PROVE TypeInv'
<1>0. TypeOK /\ Shape
  BY DEF TypeInv
<1>1. /\ UNCHANGED <<tables, threads, reading, triaged, faults, history>>
      /\ admin < MaxAdmin /\ admin' = admin + 1
  BY DEF SelectPurge
<1>2. admin' \in 0..MaxAdmin
  BY <1>0, <1>1, FeedAssumption DEF TypeOK
<1>3. purge' \in [on : BOOLEAN, triaged : BOOLEAN, ids : SUBSET DOMAIN alerts, before : Nat]
  <2>1. PICK c \in Cutoffs, d \in Cutoffs \cup {0}, only \in BOOLEAN, keep \in BOOLEAN :
           purge' = [on |-> TRUE, triaged |-> only, ids |-> Eligible(c, only, keep),
                     before |-> d]
    BY DEF SelectPurge
  <2>2. Eligible(c, only, keep) \in SUBSET DOMAIN alerts
    BY DEF Eligible
  <2>3. d \in Nat
    BY FeedAssumption
  <2> QED
    BY <2>1, <2>2, <2>3
<1>4. /\ gone' \subseteq DOMAIN logs /\ alerts' \in Seq(AlertRow) /\ DOMAIN alerts' = DOMAIN alerts
      /\ trail' \in Seq(Seq([was : AlertStates, now : AlertStates]))
      /\ DOMAIN trail' = DOMAIN alerts /\ removed' \subseteq DOMAIN alerts
      /\ decided' \subseteq DOMAIN alerts \ removed' /\ ordered' \subseteq decided'
      /\ decided \cup removed \subseteq decided' \cup removed'
      /\ refused' \subseteq DOMAIN alerts
  BY <1>0, <1>1 DEF TypeOK, AlertRow, tables, history
<1>5. /\ reading' \in [Analysts -> [a : 0..Len(alerts), was : AlertStates,
                                    want : AlertStates]]
      /\ \A u \in Analysts : reading'[u] # Nothing => reading'[u].a \in DOMAIN alerts
      /\ triaged' \in 0..MaxTriage /\ faults' \in 0..MaxFaults
      /\ UNCHANGED <<logs, threads, answers, caught>>
  BY <1>0, <1>1 DEF TypeOK, Shape, tables, history
<1> QED
  BY <1>2, <1>3, <1>4, <1>5, AdminTypes

\* A purge deletes what it selected and the old logs.
LEMMA CommitPurgeTypes == ASSUME TypeInv, CommitPurge PROVE TypeInv'
<1>0. TypeOK /\ Shape
  BY DEF TypeInv
<1>1. /\ DropAlerts(purge.ids \ removed) /\ purge' = NoPurge
      /\ UNCHANGED <<logs, ordered, threads, reading, budgets, answers, caught>>
  BY DEF CommitPurge
<1>2. purge.ids \ removed \in SUBSET DOMAIN alerts
  <2>1. purge \in [on : BOOLEAN, triaged : BOOLEAN, ids : SUBSET DOMAIN alerts, before : Nat]
    BY <1>0 DEF TypeOK
  <2> QED
    BY <2>1
<1>3. purge' \in [on : BOOLEAN, triaged : BOOLEAN, ids : SUBSET DOMAIN alerts, before : Nat]
  BY <1>1 DEF NoPurge
<1>4. /\ gone' \subseteq DOMAIN logs /\ alerts' \in Seq(AlertRow)
      /\ DOMAIN alerts' = DOMAIN alerts
  <2>1. CASE UNCHANGED <<gone, alerts>>
    BY <1>0, <2>1 DEF TypeOK, AlertRow
  <2>2. CASE DropLogs(OldLogs(purge.before))
    <3>1. OldLogs(purge.before) \in SUBSET DOMAIN logs
      BY DEF OldLogs
    <3> QED
      BY <2>2, <3>1, DropLogsRows
  <2> QED
    BY <2>1, <2>2 DEF CommitPurge
<1>5. /\ reading' \in [Analysts -> [a : 0..Len(alerts), was : AlertStates,
                                    want : AlertStates]]
      /\ \A u \in Analysts : reading'[u] # Nothing => reading'[u].a \in DOMAIN alerts
      /\ triaged' \in 0..MaxTriage /\ faults' \in 0..MaxFaults /\ admin' \in 0..MaxAdmin
      /\ UNCHANGED <<logs, threads, answers, caught>>
  BY <1>0, <1>1 DEF TypeOK, Shape, budgets
<1> QED
  BY <1>1, <1>2, <1>3, <1>4, <1>5, DropAlertsRows, AdminTypes

\* Every step keeps the types.
LEMMA NextTypes == TypeInv /\ [Next]_vars => TypeInv'
<1> SUFFICES ASSUME TypeInv, [Next]_vars PROVE TypeInv'
  OBVIOUS
<1>1. CASE UNCHANGED vars
  <2>1. UNCHANGED <<tables, threads, reading, purge, budgets, history>>
    BY <1>1 DEF vars
  <2>2. TypeOK'
    BY <2>1 DEF TypeInv, TypeOK, tables, threads, budgets, history
  <2>3. Shape'
    BY <2>1 DEF TypeInv, Shape, AtHand, tables, threads
  <2> QED
    BY <2>2, <2>3 DEF TypeInv
<1>2. ASSUME NEW w \in Workers, NEW ev \in Feed, Ingest(w, ev) PROVE TypeInv'
  BY <1>2, IngestTypes
<1>3. ASSUME NEW w \in Workers, Step(w) PROVE TypeInv'
  BY <1>3, StepTypes
<1>4. ASSUME NEW w \in Workers, CommitFails(w) PROVE TypeInv'
  BY <1>4, CommitFailsTypes
<1>5. ASSUME NEW u \in Analysts, OpenAlert(u) PROVE TypeInv'
  BY <1>5, OpenAlertTypes
<1>6. ASSUME NEW u \in Analysts, SaveStatus(u) PROVE TypeInv'
  BY <1>6, SaveStatusTypes
<1> QED
  BY <1>1, <1>2, <1>3, <1>4, <1>5, <1>6, DeleteAlertsTypes, DeleteLogsTypes,
     SelectPurgeTypes, CommitPurgeTypes, CrashTypes DEF Next, Quiet

\* At every moment each table, thread and pending request has the form the
\* rest of the proofs rely on: a thread past the rules has a log of its own,
\* one about to create an alert a rule, one about to decide an alert.
THEOREM AlertingTypes == Spec => [](TypeOK /\ Shape)
<1>1. Spec => []TypeInv
  BY InitType, NextTypes, PTL DEF Spec
<1>2. TypeInv => TypeOK /\ Shape
  BY DEF TypeInv
<1> QED
  BY <1>1, <1>2, PTL

-----------------------------------------------------------------------------
(***************************************************************************)
(* What a step can do to the tables.                                       *)
(***************************************************************************)
\* An alert's row after a step, against the row before it.
SameRow(a) ==
    /\ a \in DOMAIN alerts
    /\ UNCHANGED <<alerts[a].rule, alerts[a].key, alerts[a].ts, alerts[a].status>>
    /\ alerts'[a].log \in {alerts[a].log, 0}
    /\ a \notin removed' => a \notin removed /\ UNCHANGED trail[a]
SavedBy(u, a) ==
    /\ a \in DOMAIN alerts \ removed /\ a = reading[u].a
    /\ UNCHANGED <<alerts[a].rule, alerts[a].key, alerts[a].ts, alerts[a].log>>
    /\ alerts'[a].status = reading[u].want
    /\ trail'[a] = Append(trail[a], Entry(reading[u]))

\* An alert in the table was there before, with its row and, unless it has
\* been deleted, its history; or its status has just been saved; or a thread
\* has just created it.
LEMMA AlertOrigins ==
    ASSUME TypeInv, [Next]_vars, NEW a \in DOMAIN alerts'
    PROVE  \/ SameRow(a)
           \/ \E u \in Analysts : SavedBy(u, a)
           \/ \E w \in Workers : Create(w) /\ a = Len(alerts) + 1
<1>0. TypeOK /\ Shape
  BY DEF TypeInv
<1>1. ASSUME UNCHANGED <<alerts, removed, trail>> PROVE SameRow(a)
  BY <1>1 DEF SameRow
<1>2. ASSUME NEW w \in Workers, Step(w) PROVE SameRow(a) \/ (Create(w) /\ a = Len(alerts) + 1)
  <2>1. CASE Create(w)
    BY <2>1, CreateRows DEF SameRow
  <2>2. CASE ~Create(w)
    <3>1. UNCHANGED <<alerts, removed, trail>>
      BY <1>2, <2>2 DEF Step, Evaluate, Check, CreateFails, Evaluated, Respond, Decide,
         Dispatch, Responded, tables
    <3> QED
      BY <1>1, <3>1
  <2> QED
    BY <2>1, <2>2
<1>3. ASSUME NEW u \in Analysts, SaveStatus(u) PROVE SameRow(a) \/ SavedBy(u, a)
  <2>1. UNCHANGED removed
    BY <1>3 DEF SaveStatus
  <2>2. a \in DOMAIN alerts
    BY <1>3, SaveStatusRows
  <2>3. CASE alerts'[a] = alerts[a] /\ trail'[a] = trail[a]
    BY <2>1, <2>2, <2>3 DEF SameRow
  <2>4. CASE /\ a = reading[u].a /\ a \notin removed
             /\ alerts'[a] = [alerts[a] EXCEPT !.status = reading[u].want]
             /\ trail'[a] = Append(trail[a], Entry(reading[u]))
    <3>1. alerts[a] \in AlertRow
      BY <1>0, <2>2, Rows
    <3>2. alerts'[a].status = reading[u].want
          /\ UNCHANGED <<alerts[a].rule, alerts[a].key, alerts[a].ts, alerts[a].log>>
      BY <2>4, <3>1 DEF AlertRow
    <3> QED
      BY <2>2, <2>4, <3>2 DEF SavedBy
  <2> QED
    BY <1>3, <2>2, <2>3, <2>4, SaveStatusRows
<1>4. ASSUME NEW S \in SUBSET DOMAIN alerts, DropAlerts(S), UNCHANGED <<alerts, ordered>>
      PROVE  SameRow(a)
  BY <1>4, DropAlertsRows DEF SameRow
<1>5. ASSUME NEW S \in SUBSET DOMAIN logs, DropLogs(S)
      PROVE  /\ a \in DOMAIN alerts
             /\ UNCHANGED <<alerts[a].rule, alerts[a].key, alerts[a].ts, alerts[a].status>>
             /\ alerts'[a].log \in {alerts[a].log, 0}
  <2>1. a \in DOMAIN alerts
    BY <1>5, DropLogsRows
  <2>2. alerts[a] \in AlertRow
    BY <1>0, <2>1, Rows
  <2>3. alerts'[a] = alerts[a] \/ alerts'[a] = [alerts[a] EXCEPT !.log = 0]
    BY <1>5, <2>1, DropLogsRows
  <2> QED
    BY <2>1, <2>2, <2>3 DEF AlertRow
<1>6. CASE DeleteAlerts
  BY <1>4, <1>6 DEF DeleteAlerts
<1>7. CASE DeleteLogs
  <2>1. UNCHANGED <<removed, trail>>
    BY <1>7 DEF DeleteLogs
  <2>2. PICK S \in SUBSET DOMAIN logs : DropLogs(S)
    BY <1>7 DEF DeleteLogs
  <2> QED
    BY <1>5, <2>1, <2>2 DEF SameRow
<1>8. CASE CommitPurge
  <2>1. /\ DropAlerts(purge.ids \ removed) /\ UNCHANGED ordered
        /\ (UNCHANGED alerts \/ DropLogs(OldLogs(purge.before)))
    BY <1>8 DEF CommitPurge
  <2>2. purge.ids \ removed \in SUBSET DOMAIN alerts
    <3>1. purge \in [on : BOOLEAN, triaged : BOOLEAN, ids : SUBSET DOMAIN alerts, before : Nat]
      BY <1>0 DEF TypeOK
    <3> QED
      BY <3>1
  <2>3. OldLogs(purge.before) \in SUBSET DOMAIN logs
    BY DEF OldLogs
  <2>4. CASE UNCHANGED alerts
    BY <1>4, <2>1, <2>2, <2>4
  <2>5. CASE DropLogs(OldLogs(purge.before))
    <3>1. /\ a \in DOMAIN alerts
          /\ UNCHANGED <<alerts[a].rule, alerts[a].key, alerts[a].ts, alerts[a].status>>
          /\ alerts'[a].log \in {alerts[a].log, 0}
      BY <1>5, <2>3, <2>5
    <3>2. removed \subseteq removed' /\ \A x \in DOMAIN alerts \ removed' : trail'[x] = trail[x]
      BY <2>1, <2>2, DropAlertsRows
    <3> QED
      BY <3>1, <3>2 DEF SameRow
  <2> QED
    BY <2>1, <2>4, <2>5
<1>9. CASE UNCHANGED <<alerts, removed, trail>>
  BY <1>1, <1>9
<1>10. ASSUME NEW w \in Workers, NEW ev \in Feed, Ingest(w, ev)
       PROVE  UNCHANGED <<alerts, removed, trail>>
  BY <1>10 DEF Ingest
<1>11. ASSUME NEW w \in Workers, CommitFails(w) PROVE UNCHANGED <<alerts, removed, trail>>
  BY <1>11 DEF CommitFails, tables
<1>12. ASSUME NEW u \in Analysts, OpenAlert(u) PROVE UNCHANGED <<alerts, removed, trail>>
  BY <1>12 DEF OpenAlert, tables
<1>13. ASSUME SelectPurge \/ Crash \/ Quiet \/ UNCHANGED vars
       PROVE  UNCHANGED <<alerts, removed, trail>>
  BY <1>13 DEF SelectPurge, Crash, Quiet, vars, tables
<1> QED
  BY <1>2, <1>3, <1>6, <1>7, <1>8, <1>9, <1>10, <1>11, <1>12, <1>13 DEF Next

-----------------------------------------------------------------------------
(***************************************************************************)
(* Triage.                                                                 *)
(***************************************************************************)
\* Whoever saves last, and whatever is deleted in between: an alert's status
\* is the one its last history entry names, or "new" when it has none.
THEOREM HistoryEndsAtStatus == Spec => []TrailEndsAtStatus
<1>1. Init => TrailEndsAtStatus
  BY DEF Init, TrailEndsAtStatus
<1>2. TypeInv /\ TrailEndsAtStatus /\ [Next]_vars => TrailEndsAtStatus'
  <2> SUFFICES ASSUME TypeInv, TrailEndsAtStatus, [Next]_vars,
                      NEW a \in DOMAIN alerts', a \notin removed'
               PROVE  IF trail'[a] = << >> THEN alerts'[a].status = "new"
                                           ELSE Last(trail'[a]).now = alerts'[a].status
    BY DEF TrailEndsAtStatus
  <2>1. CASE SameRow(a)
    BY <2>1 DEF SameRow, TrailEndsAtStatus
  <2>2. ASSUME NEW u \in Analysts, SavedBy(u, a)
        PROVE  trail'[a] # << >> /\ Last(trail'[a]).now = alerts'[a].status
    <3>1. trail[a] \in Seq([was : AlertStates, now : AlertStates])
      <4> DEFINE T == Seq([was : AlertStates, now : AlertStates])
      <4>1. trail \in Seq(T) /\ a \in DOMAIN trail
        BY <2>2 DEF TypeInv, TypeOK, SavedBy
      <4> HIDE DEF T
      <4>2. trail[a] \in T
        BY <4>1
      <4> QED
        BY <4>2 DEF T
    <3>2. /\ Len(trail[a]) \in Nat
          /\ Len(Append(trail[a], Entry(reading[u]))) = Len(trail[a]) + 1
          /\ Append(trail[a], Entry(reading[u]))[Len(trail[a]) + 1] = Entry(reading[u])
      BY <3>1
    <3>3. Entry(reading[u]).now = reading[u].want
      BY DEF Entry
    <3>4. trail'[a] = Append(trail[a], Entry(reading[u])) /\ alerts'[a].status = reading[u].want
      BY <2>2 DEF SavedBy
    <3>5. trail'[a] # << >>
      <4>1. Len(trail'[a]) = Len(trail[a]) + 1
        BY <3>2, <3>4
      <4>2. Len(<< >>) = 0
        OBVIOUS
      <4> QED
        BY <3>2, <4>1, <4>2
    <3>6. Last(trail'[a]) = Entry(reading[u])
      BY <3>2, <3>4 DEF Last
    <3> QED
      BY <3>3, <3>4, <3>5, <3>6
  <2>3. ASSUME NEW w \in Workers, Create(w), a = Len(alerts) + 1
        PROVE  trail'[a] = << >> /\ alerts'[a].status = "new"
    <3>1. alerts'[a] = AlertFor(w, Head(todo[w])) /\ trail'[a] = << >>
      BY <2>3, CreateRows
    <3> QED
      BY <3>1 DEF AlertFor
  <2> QED
    BY <2>1, <2>2, <2>3, AlertOrigins
<1>3. Spec => []TypeInv
  BY InitType, NextTypes, PTL DEF Spec
<1> QED
  BY <1>1, <1>2, <1>3, PTL DEF Spec

-----------------------------------------------------------------------------
(***************************************************************************)
(* What a step can do to the requests in progress.                         *)
(***************************************************************************)
Still(w) == UNCHANGED <<pc[w], mine[w], todo[w], fired[w], session[w]>>

\* Rows are added and marked as deleted, never lost.
LEMMA TablesGrow ==
    ASSUME TypeInv, [Next]_vars
    PROVE  /\ decided \cup removed \subseteq decided' \cup removed'
           /\ removed \subseteq removed' /\ gone \subseteq gone'
           /\ DOMAIN logs \subseteq DOMAIN logs'
           /\ \A l \in DOMAIN logs : logs'[l] = logs[l]
<1>0. TypeOK /\ Shape
  BY DEF TypeInv
<1>1. ASSUME UNCHANGED <<removed, gone, logs>>, decided \subseteq decided'
      PROVE  /\ decided \cup removed \subseteq decided' \cup removed'
             /\ removed \subseteq removed' /\ gone \subseteq gone'
             /\ DOMAIN logs \subseteq DOMAIN logs'
             /\ \A l \in DOMAIN logs : logs'[l] = logs[l]
  BY <1>1
<1>2. ASSUME NEW w \in Workers, NEW ev \in Feed, Ingest(w, ev)
      PROVE  /\ UNCHANGED <<decided, removed, gone>> /\ DOMAIN logs \subseteq DOMAIN logs'
             /\ \A l \in DOMAIN logs : logs'[l] = logs[l]
  BY <1>2, IngestRows
<1>3. ASSUME NEW w \in Workers, Step(w) \/ CommitFails(w)
      PROVE  UNCHANGED <<removed, gone, logs>> /\ decided \subseteq decided'
  BY <1>3 DEF Step, Evaluate, Check, Create, CreateFails, Evaluated, Respond, Decide,
     Dispatch, Responded, CommitFails, tables
<1>4. ASSUME NEW u \in Analysts, OpenAlert(u) \/ SaveStatus(u)
      PROVE  UNCHANGED <<removed, gone, logs, decided>>
  BY <1>4 DEF OpenAlert, SaveStatus, tables
<1>5. ASSUME NEW S \in SUBSET DOMAIN alerts, DropAlerts(S), UNCHANGED ordered
      PROVE  decided \cup removed \subseteq decided' \cup removed' /\ removed \subseteq removed'
  BY <1>5, DropAlertsRows
<1>6. ASSUME NEW S \in SUBSET DOMAIN logs, DropLogs(S) PROVE gone \subseteq gone'
  BY <1>6, DropLogsRows
<1>7. CASE DeleteAlerts
  <2>1. UNCHANGED <<gone, logs, ordered>> /\ \E S \in SUBSET DOMAIN alerts : DropAlerts(S)
    BY <1>7 DEF DeleteAlerts
  <2> QED
    BY <1>5, <2>1
<1>8. CASE DeleteLogs
  <2>1. UNCHANGED <<removed, decided, logs>> /\ \E S \in SUBSET DOMAIN logs : DropLogs(S)
    BY <1>8 DEF DeleteLogs
  <2> QED
    BY <1>6, <2>1
<1>9. CASE CommitPurge
  <2>1. /\ DropAlerts(purge.ids \ removed) /\ UNCHANGED <<logs, ordered>>
        /\ (UNCHANGED gone \/ DropLogs(OldLogs(purge.before)))
    BY <1>9 DEF CommitPurge
  <2>2. purge.ids \ removed \in SUBSET DOMAIN alerts
    <3>1. purge \in [on : BOOLEAN, triaged : BOOLEAN, ids : SUBSET DOMAIN alerts, before : Nat]
      BY <1>0 DEF TypeOK
    <3> QED
      BY <3>1
  <2>3. OldLogs(purge.before) \in SUBSET DOMAIN logs
    BY DEF OldLogs
  <2>4. gone \subseteq gone'
    BY <1>6, <2>1, <2>3
  <2> QED
    BY <1>5, <2>1, <2>2, <2>4
<1>10. ASSUME SelectPurge \/ Crash \/ Quiet \/ UNCHANGED vars
       PROVE  UNCHANGED <<removed, gone, logs, decided>>
  BY <1>10 DEF SelectPurge, Crash, Quiet, vars, tables
<1> QED
  BY <1>1, <1>2, <1>3, <1>4, <1>7, <1>8, <1>9, <1>10 DEF Next

\* The ways one request goes on: the next rule does not fire, or it fires;
\* an open or recent alert covers it, or none does; an alert is created; the
\* response layer takes the alerts one by one.
Passed(w) ==
    /\ pc[w] = "rule" /\ todo[w] # << >> /\ ~Fires(Head(todo[w]), mine[w])
    /\ pc'[w] = "rule" /\ todo'[w] = Tail(todo[w])
    /\ UNCHANGED <<tables, caught, fired[w], session[w]>>
Matched(w) ==
    /\ pc[w] = "rule" /\ todo[w] # << >> /\ Fires(Head(todo[w]), mine[w])
    /\ pc'[w] = "check"
    /\ UNCHANGED <<tables, caught, todo[w], fired[w], session[w]>>
Covered(w) ==
    /\ pc[w] = "check" /\ todo[w] # << >> /\ pc'[w] = "rule"
    /\ todo'[w] = Tail(todo[w]) /\ caught' = caught \cup {<<mine[w], Head(todo[w])>>}
    /\ UNCHANGED <<tables, fired[w], session[w]>>
Uncovered(w) ==
    /\ pc[w] = "check" /\ todo[w] # << >> /\ pc'[w] = "create"
    /\ ~HasActiveAlert(Head(todo[w]), logs[mine[w]])
    /\ UNCHANGED <<tables, caught, todo[w], fired[w], session[w]>>
Responding(w) ==
    /\ pc[w] \in {"rule", "respond", "decide", "dispatch"}
    /\ pc'[w] \in {"respond", "decide", "dispatch"}
    /\ todo[w] = << >> /\ todo'[w] = << >>
    /\ UNCHANGED <<logs, gone, alerts, removed, trail, caught>> /\ decided \subseteq decided'
    /\ pc[w] = "respond" => session[w] # "broken"
    /\ \/ UNCHANGED <<fired[w], session[w]>>
       \/ /\ fired[w] # << >> /\ fired'[w] = Tail(fired[w])
          /\ \/ Head(fired[w]) \in decided' \cup removed /\ session'[w] \in {session[w], "ok"}
             \/ session'[w] = "broken" /\ pc'[w] = "respond"
GoesOn(w) ==
    /\ mine[w] \in DOMAIN logs /\ pc[w] # "idle"
    /\ UNCHANGED <<logs, gone, mine, answers>>
    /\ \A v \in Workers : v # w => Still(v)
    /\ \/ Passed(w) \/ Matched(w) \/ Covered(w) \/ Uncovered(w) \/ Create(w)
       \/ Responding(w)

LEMMA MoveKinds ==
    ASSUME TypeInv, NEW w \in Workers, Step(w) \/ CommitFails(w), pc'[w] # "idle"
    PROVE  GoesOn(w)
<1>0. TypeOK /\ Shape
  BY DEF TypeInv
<1>1. /\ pc \in [Workers -> PCs] /\ session \in [Workers -> {"ok", "broken"}]
      /\ DOMAIN todo = Workers /\ DOMAIN fired = Workers
      /\ fired[w] \in Seq(DOMAIN alerts) /\ AtHand(w)
  BY <1>0 DEF TypeOK, Shape
<1>2. ASSUME NEW how, Answer(w, how) PROVE FALSE
  BY <1>1, <1>2 DEF Answer
<1>3. CASE Evaluate(w)
  <2>1. /\ pc[w] = "rule" /\ todo[w] # << >>
        /\ UNCHANGED <<mine, fired, session, answers, tables, caught>>
        /\ IF Fires(Head(todo[w]), mine[w])
           THEN pc' = [pc EXCEPT ![w] = "check"] /\ UNCHANGED todo
           ELSE todo' = [todo EXCEPT ![w] = Tail(@)] /\ UNCHANGED pc
    BY <1>2, <1>3 DEF Evaluate
  <2>2. mine[w] \in DOMAIN logs /\ UNCHANGED <<logs, gone>>
    BY <1>1, <2>1 DEF AtHand, tables
  <2>3. CASE Fires(Head(todo[w]), mine[w])
    <3>1. pc' = [pc EXCEPT ![w] = "check"] /\ UNCHANGED todo
      BY <2>1, <2>3
    <3>2. Matched(w)
      BY <1>1, <2>1, <2>3, <3>1 DEF Matched
    <3> QED
      BY <1>1, <2>1, <2>2, <3>1, <3>2 DEF GoesOn, Still
  <2>4. CASE ~Fires(Head(todo[w]), mine[w])
    <3>1. todo' = [todo EXCEPT ![w] = Tail(@)] /\ UNCHANGED pc
      BY <2>1, <2>4
    <3>2. Passed(w)
      BY <1>1, <2>1, <2>4, <3>1 DEF Passed
    <3> QED
      BY <1>1, <2>1, <2>2, <3>1, <3>2 DEF GoesOn, Still
  <2> QED
    BY <2>3, <2>4
<1>4. CASE Check(w)
  <2>1. /\ pc[w] = "check" /\ UNCHANGED <<tables, mine, fired, session, answers>>
        /\ todo[w] # << >> /\ mine[w] \in DOMAIN logs /\ UNCHANGED <<logs, gone>>
    BY <1>1, <1>4 DEF Check, AtHand, tables
  <2>2. CASE HasActiveAlert(Head(todo[w]), logs[mine[w]])
    <3>1. /\ todo' = [todo EXCEPT ![w] = Tail(@)] /\ pc' = [pc EXCEPT ![w] = "rule"]
          /\ caught' = caught \cup {<<mine[w], Head(todo[w])>>}
      BY <1>4, <2>2 DEF Check
    <3>2. Covered(w)
      BY <1>1, <2>1, <3>1 DEF Covered
    <3> QED
      BY <1>1, <2>1, <3>1, <3>2 DEF GoesOn, Still
  <2>3. CASE ~HasActiveAlert(Head(todo[w]), logs[mine[w]])
    <3>1. pc' = [pc EXCEPT ![w] = "create"] /\ UNCHANGED <<todo, caught>>
      BY <1>4, <2>3 DEF Check
    <3>2. Uncovered(w)
      BY <1>1, <2>1, <2>3, <3>1 DEF Uncovered
    <3> QED
      BY <1>1, <2>1, <3>1, <3>2 DEF GoesOn, Still
  <2> QED
    BY <2>2, <2>3
<1>5. CASE Create(w)
  BY <1>5, CreateRows DEF GoesOn, Still
<1>6. CASE CreateFails(w) \/ Responded(w)
  BY <1>2, <1>6 DEF CreateFails, GiveUp, Responded
<1>7. CASE Evaluated(w)
  <2>1. /\ pc[w] = "rule" /\ todo[w] = << >> /\ pc' = [pc EXCEPT ![w] = "respond"]
        /\ UNCHANGED <<mine, todo, fired, session, answers, tables, caught>>
        /\ UNCHANGED <<logs, gone, alerts, removed, trail, decided>>
    BY <1>2, <1>7 DEF Evaluated, tables
  <2>2. Responding(w)
    BY <1>1, <2>1 DEF Responding
  <2> QED
    BY <1>1, <2>1, <2>2 DEF GoesOn, Still, AtHand
<1>8. CASE Respond(w)
  <2>1. /\ pc[w] = "respond" /\ fired[w] # << >> /\ session[w] # "broken" /\ todo[w] = << >>
        /\ \/ Head(fired[w]) \in removed /\ fired' = [fired EXCEPT ![w] = Tail(@)] /\ UNCHANGED pc
           \/ pc' = [pc EXCEPT ![w] = "decide"] /\ UNCHANGED fired
        /\ UNCHANGED <<mine, todo, session, answers, caught>>
        /\ UNCHANGED <<logs, gone, alerts, removed, trail, decided>>
    BY <1>1, <1>2, <1>8 DEF Respond, AtHand, tables
  <2>2. Responding(w)
    BY <1>1, <2>1 DEF Responding
  <2> QED
    BY <1>1, <2>1, <2>2 DEF GoesOn, Still, AtHand
<1>9. ASSUME NEW s \in {"ok", "broken"}, NextAlert(w, s), pc[w] \in {"decide", "dispatch"},
             UNCHANGED <<logs, gone, alerts, removed, trail, caught, mine, todo, answers>>,
             decided \subseteq decided',
             s = "ok" => Head(fired[w]) \in decided' \cup removed
      PROVE  GoesOn(w)
  <2>1. Responding(w)
    BY <1>9, NextAlertRows DEF Responding
  <2> QED
    BY <1>9, <2>1, NextAlertRows DEF GoesOn, Still
<1>10. CASE Decide(w)
  <2>1. /\ pc[w] = "decide"
        /\ UNCHANGED <<logs, gone, alerts, removed, trail, mine, todo, answers, caught>>
    BY <1>10 DEF Decide
  <2>2. CASE NextAlert(w, "broken") /\ UNCHANGED decided
    BY <1>9, <2>1, <2>2
  <2>3. CASE NextAlert(w, "ok") /\ decided' = decided \cup {Head(fired[w])}
    BY <1>9, <2>1, <2>3
  <2>4. CASE /\ pc' = [pc EXCEPT ![w] = "dispatch"] /\ UNCHANGED <<fired, session>>
             /\ decided' = decided \cup {Head(fired[w])}
    <3>1. Responding(w)
      BY <1>1, <2>1, <2>4 DEF Responding, AtHand
    <3> QED
      BY <1>1, <2>1, <2>4, <3>1 DEF GoesOn, Still, AtHand
  <2> QED
    BY <1>10, <2>2, <2>3, <2>4 DEF Decide, FlushFailed
<1>11. CASE Dispatch(w)
  <2>1. /\ pc[w] = "dispatch" /\ NextAlert(w, "ok")
        /\ UNCHANGED <<logs, gone, alerts, removed, trail, decided, mine, todo, answers, caught>>
    BY <1>11 DEF Dispatch
  <2> QED
    BY <1>1, <1>9, <2>1 DEF AtHand
<1>12. CASE CommitFails(w)
  <2>1. /\ pc[w] \in {"decide", "dispatch"} /\ NextAlert(w, "broken")
        /\ UNCHANGED <<mine, todo, answers, caught>>
        /\ UNCHANGED <<logs, gone, alerts, removed, trail, decided>>
    BY <1>2, <1>12 DEF CommitFails, GiveUp, FlushFailed, tables
  <2> QED
    BY <1>9, <2>1
<1> QED
  BY <1>3, <1>4, <1>5, <1>6, <1>7, <1>8, <1>10, <1>11, <1>12 DEF Step

\* A request ends with an answer; "accepted" only when nothing is left to do
\* and the session works.
Ends(w, how) ==
    /\ Answer(w, how) /\ pc[w] # "idle"
    /\ UNCHANGED <<tables, caught>>
    /\ how = "accepted" =>
          /\ todo[w] = << >> /\ fired[w] = << >>
          /\ session[w] = "ok" \/ pc[w] = "rule"

\* Every step takes one request forward, ends one, begins one, ends them all
\* or has nothing to do with requests.
LEMMA RequestSteps ==
    ASSUME TypeInv, [Next]_vars
    PROVE  \/ UNCHANGED <<logs, threads, answers, caught>>
           \/ \E w \in Workers : GoesOn(w)
           \/ \E w \in Workers, how \in {"accepted", "error"} : Ends(w, how)
           \/ \E w \in Workers, ev \in Feed : Ingest(w, ev)
           \/ Crash
<1>0. TypeOK /\ Shape
  BY DEF TypeInv
<1>1. ASSUME NEW w \in Workers, Step(w) \/ CommitFails(w), pc'[w] = "idle"
      PROVE  \E how \in {"accepted", "error"} : Ends(w, how)
  <2>1. /\ session[w] \in {"ok", "broken"} /\ pc \in [Workers -> PCs] /\ AtHand(w)
    BY <1>0 DEF TypeOK, Shape
  <2>2. ASSUME Answer(w, "error"), pc[w] # "idle", UNCHANGED <<tables, caught>>
        PROVE  Ends(w, "error")
    BY <2>2 DEF Ends
  <2>3. CASE Evaluate(w)
    BY <1>1, <2>1, <2>2, <2>3 DEF Evaluate
  <2>4. CASE CreateFails(w)
    BY <2>2, <2>4 DEF CreateFails, GiveUp
  <2>5. CASE Evaluated(w)
    BY <1>1, <2>1, <2>5 DEF Evaluated, Ends
  <2>6. CASE Respond(w)
    BY <1>1, <2>1, <2>2, <2>6 DEF Respond
  <2>7. CASE Responded(w)
    <3>1. /\ pc[w] = "respond" /\ todo[w] = << >> /\ fired[w] = << >>
          /\ UNCHANGED <<tables, caught>>
      BY <2>1, <2>7 DEF Responded, AtHand
    <3>2. CASE Answer(w, "error")
      BY <2>2, <3>1, <3>2
    <3>3. CASE session[w] # "broken" /\ Answer(w, "accepted")
      BY <2>1, <3>1, <3>3 DEF Ends
    <3> QED
      BY <2>7, <3>2, <3>3 DEF Responded
  <2>8. CASE CommitFails(w)
    BY <1>1, <2>1, <2>2, <2>8 DEF CommitFails, GiveUp, FlushFailed, NextAlert
  <2>9. CASE Check(w) \/ Create(w) \/ Decide(w) \/ Dispatch(w)
    BY <1>1, <2>1, <2>9 DEF Check, Create, Decide, Dispatch, FlushFailed, NextAlert
  <2> QED
    BY <1>1, <2>3, <2>4, <2>5, <2>6, <2>7, <2>8, <2>9 DEF Step
<1>2. ASSUME NEW u \in Analysts, OpenAlert(u) \/ SaveStatus(u)
      PROVE  UNCHANGED <<logs, threads, answers, caught>>
  BY <1>2 DEF OpenAlert, SaveStatus, tables, history
<1>3. ASSUME DeleteAlerts \/ DeleteLogs \/ SelectPurge \/ CommitPurge \/ Quiet \/ UNCHANGED vars
      PROVE  UNCHANGED <<logs, threads, answers, caught>>
  BY <1>3 DEF DeleteAlerts, DeleteLogs, SelectPurge, CommitPurge, Quiet, vars, tables, history
<1> QED
  BY <1>1, <1>2, <1>3, MoveKinds DEF Next

-----------------------------------------------------------------------------
(***************************************************************************)
(* Accepted events are decided.                                            *)
(***************************************************************************)
\* A request in progress has an event to itself, not yet answered; a session
\* is broken only while the response layer is going through its alerts.
Requests ==
    /\ \A v, w \in Workers : mine[v] # 0 /\ mine[v] = mine[w] => v = w
    /\ \A w \in Workers : mine[w] # 0 => answers[mine[w]] = "open"
    /\ \A l \in LogIds : l \notin DOMAIN logs => answers[l] = "open"
    /\ \A w \in Workers : session[w] = "broken" => pc[w] = "respond"

\* Nobody shares an event with another request, whatever fails.
LEMMA RequestsKept == TypeInv /\ Requests /\ [Next]_vars => Requests'
<1> SUFFICES ASSUME TypeInv, Requests, [Next]_vars PROVE Requests'
  OBVIOUS
<1>0. /\ TypeOK /\ Shape
      /\ \A w \in Workers : mine[w] \in DOMAIN logs \/ mine[w] = 0
      /\ 0 \notin DOMAIN logs
      /\ \A w \in Workers : pc[w] = "idle" => mine[w] = 0
      /\ \A w \in Workers : pc[w] # "idle" => mine[w] \in DOMAIN logs
  BY Rows DEF TypeInv, Shape, AtHand
<1>1. CASE UNCHANGED <<logs, threads, answers, caught>>
  BY <1>1 DEF Requests, threads
<1>2. ASSUME NEW w \in Workers, GoesOn(w) PROVE Requests'
  <2>1. session'[w] = "broken" => pc'[w] = "respond"
    BY <1>2 DEF GoesOn, Passed, Matched, Covered, Uncovered, Create, Responding, Requests
  <2> QED
    BY <1>2, <2>1 DEF GoesOn, Requests, Still
<1>3. ASSUME NEW w \in Workers, NEW how \in {"accepted", "error"}, Ends(w, how)
      PROVE  Requests'
  <2>1. Answer(w, how) /\ pc[w] # "idle" /\ UNCHANGED logs
    BY <1>3 DEF Ends, tables
  <2>2. /\ mine'[w] = 0 /\ session'[w] = "ok"
        /\ \A l \in LogIds : l # mine[w] => answers'[l] = answers[l]
        /\ \A v \in Workers : v # w => UNCHANGED <<pc[v], mine[v], session[v]>>
    BY <2>1, AnswerRows
  <2>3. \A v \in Workers : mine[v] # 0 => mine[v] \in LogIds
    BY <1>0, Rows
  <2>4. \A v \in Workers : mine'[v] # 0 => answers'[mine'[v]] = "open"
    <3> SUFFICES ASSUME NEW v \in Workers, mine'[v] # 0 PROVE answers'[mine'[v]] = "open"
      OBVIOUS
    <3>1. v # w /\ mine'[v] = mine[v] /\ mine[v] # mine[w]
      BY <2>2 DEF Requests
    <3> QED
      BY <2>2, <2>3, <3>1 DEF Requests
  <2>5. \A l \in LogIds : l \notin DOMAIN logs' => answers'[l] = "open"
    BY <1>0, <2>1, <2>2 DEF Requests
  <2> QED
    BY <2>2, <2>4, <2>5 DEF Requests
<1>4. ASSUME NEW w \in Workers, NEW ev \in Feed, Ingest(w, ev) PROVE Requests'
  <2>1. /\ mine'[w] = Len(logs) + 1 /\ Len(logs) + 1 \in LogIds /\ Len(logs) + 1 \notin DOMAIN logs
        /\ DOMAIN logs' = DOMAIN logs \cup {Len(logs) + 1}
        /\ UNCHANGED <<answers, session>> /\ pc[w] = "idle"
        /\ \A v \in Workers : v # w => UNCHANGED <<pc[v], mine[v]>>
    BY <1>4, IngestRows
  <2>2. session[w] # "broken"
    BY <2>1 DEF Requests
  <2> HIDE DEF LogIds
  <2> QED
    BY <1>0, <2>1, <2>2 DEF Requests
<1>5. CASE Crash
  BY <1>5 DEF Crash, Requests, tables, history
<1> QED
  BY <1>1, <1>2, <1>3, <1>4, <1>5, RequestSteps

-----------------------------------------------------------------------------
(***************************************************************************)
(* Never more open alerts than threads.                                    *)
(***************************************************************************)
\* The threads that have found no alert for a rule and a key and are about to
\* create one: each has a place of its own among the open alerts.
Creating(r, k) ==
    {w \in Workers : pc[w] = "create" /\ Head(todo[w]) = r /\ logs[mine[w]].key = k}
OpenInv ==
    \A r \in Rules, k \in Keys :
        Cardinality(OpenAlerts(r, k)) + Cardinality(Creating(r, k)) <= Cardinality(Workers)

\* Both sets are finite.
LEMMA OpenFinite ==
    ASSUME TypeInv, NEW r, NEW k
    PROVE  /\ IsFiniteSet(OpenAlerts(r, k)) /\ IsFiniteSet(Creating(r, k))
           /\ IsFiniteSet(Workers)
<1>1. IsFiniteSet(1..Len(alerts)) /\ OpenAlerts(r, k) \subseteq 1..Len(alerts)
  <2>1. Len(alerts) \in Nat /\ DOMAIN alerts = 1..Len(alerts)
    BY Rows DEF TypeInv
  <2> QED
    BY <2>1, FS_Interval DEF OpenAlerts
<1>2. IsFiniteSet(Workers) /\ Creating(r, k) \subseteq Workers
  BY FeedAssumption DEF Creating
<1> QED
  BY <1>1, <1>2, FS_Subset

\* An open alert was open before, or has just been created.
LEMMA OpenSteps ==
    ASSUME TypeInv, TrailEndsAtStatus, [Next]_vars, NEW r, NEW k,
           NEW a \in OpenAlerts(r, k)'
    PROVE  \/ a \in OpenAlerts(r, k)
           \/ \E w \in Workers : Create(w) /\ a = Len(alerts) + 1
<1>1. /\ a \in DOMAIN alerts' /\ a \notin removed' /\ alerts'[a].rule = r /\ alerts'[a].key = k
      /\ alerts'[a].status \in OpenStates
      /\ \A i \in DOMAIN trail'[a] : trail'[a][i].now \in OpenStates
  BY DEF OpenAlerts
<1>2. CASE SameRow(a)
  BY <1>1, <1>2 DEF SameRow, OpenAlerts
<1>3. ASSUME NEW u \in Analysts, SavedBy(u, a) PROVE a \in OpenAlerts(r, k)
  <2> DEFINE E == [was : AlertStates, now : AlertStates]
             T == Seq(E)
             s == trail[a]
             e == Entry(reading[u])
  <2>1. a \in DOMAIN alerts \ removed /\ alerts[a].rule = r /\ alerts[a].key = k
        /\ trail'[a] = Append(s, e)
    BY <1>1, <1>3 DEF SavedBy
  <2>2. s \in T
    <3>1. trail \in Seq(T) /\ a \in DOMAIN trail
      BY <2>1 DEF TypeInv, TypeOK
    <3> HIDE DEF T
    <3> QED
      BY <3>1
  <2> HIDE DEF E, s, e
  <2>3. /\ Len(s) \in Nat /\ DOMAIN s = 1..Len(s)
        /\ \A i \in DOMAIN s : i \in DOMAIN Append(s, e) /\ Append(s, e)[i] = s[i]
    BY <2>2
  <2>4. \A i \in DOMAIN s : s[i].now \in OpenStates
    BY <1>1, <2>1, <2>3
  <2>5. alerts[a].status \in OpenStates
    <3>1. CASE s = << >>
      BY <2>1, <3>1 DEF TrailEndsAtStatus, OpenStates, s
    <3>2. CASE s # << >>
      <4>1. Len(s) \in DOMAIN s
        BY <2>2, <2>3, <3>2
      <4>2. s[Len(s)].now = alerts[a].status
        BY <2>1, <3>2 DEF TrailEndsAtStatus, Last, s
      <4> QED
        BY <2>4, <4>1, <4>2
    <3> QED
      BY <3>1, <3>2
  <2> QED
    BY <2>1, <2>4, <2>5 DEF OpenAlerts, s
<1> QED
  BY <1>1, <1>2, <1>3, AlertOrigins

\* A thread about to create was already, or has just found no alert.
LEMMA CreatingSteps ==
    ASSUME TypeInv, [Next]_vars, NEW r, NEW k, NEW w \in Creating(r, k)'
    PROVE  w \in Creating(r, k) \/ (Uncovered(w) /\ GoesOn(w))
<1>0. /\ \A v \in Workers : pc[v] # "idle" => mine[v] \in DOMAIN logs
      /\ w \in Workers /\ pc'[w] = "create" /\ Head(todo'[w]) = r /\ logs'[mine'[w]].key = k
  BY DEF TypeInv, Shape, AtHand, Creating
<1>1. ASSUME Still(w), UNCHANGED logs PROVE w \in Creating(r, k)
  BY <1>0, <1>1 DEF Creating, Still
<1>2. CASE UNCHANGED <<logs, threads, answers, caught>>
  BY <1>1, <1>2 DEF threads, Still
<1>3. ASSUME NEW v \in Workers, GoesOn(v)
      PROVE  w \in Creating(r, k) \/ (Uncovered(w) /\ GoesOn(w))
  <2>1. CASE v # w
    BY <1>0, <1>1, <1>3, <2>1 DEF GoesOn
  <2>2. CASE v = w
    <3>1. ~Passed(w) /\ ~Matched(w) /\ ~Covered(w) /\ ~Responding(w)
      BY <1>0 DEF Passed, Matched, Covered, Responding
    <3>2. ~Create(w)
      BY <1>0, CreateRows
    <3> QED
      BY <1>3, <2>2, <3>1, <3>2 DEF GoesOn
  <2> QED
    BY <2>1, <2>2
<1>4. ASSUME NEW v \in Workers, NEW how \in {"accepted", "error"}, Ends(v, how)
      PROVE  w \in Creating(r, k)
  <2>1. Answer(v, how) /\ pc[v] # "idle" /\ UNCHANGED logs
    BY <1>4 DEF Ends, tables
  <2>2. v # w /\ Still(w)
    BY <1>0, <2>1, AnswerRows DEF Still
  <2> QED
    BY <1>1, <2>1, <2>2
<1>5. ASSUME NEW v \in Workers, NEW ev \in Feed, Ingest(v, ev)
      PROVE  w \in Creating(r, k)
  <2>1. v # w /\ UNCHANGED <<pc[w], mine[w], todo[w]>> /\ \A l \in DOMAIN logs : logs'[l] = logs[l]
    BY <1>0, <1>5, IngestRows
  <2> QED
    BY <1>0, <2>1 DEF Creating
<1>6. ~Crash
  BY <1>0 DEF Crash
<1> QED
  BY <1>2, <1>3, <1>4, <1>5, <1>6, RequestSteps

\* The sum of both never grows past the number of threads: a thread finds no
\* open alert only when there is none, and creating one uses up its place.
LEMMA OpenKept == TypeInv /\ TrailEndsAtStatus /\ OpenInv /\ [Next]_vars => OpenInv'
<1> SUFFICES ASSUME TypeInv, TrailEndsAtStatus, OpenInv, [Next]_vars,
                    NEW r \in Rules, NEW k \in Keys
             PROVE  Cardinality(OpenAlerts(r, k)') + Cardinality(Creating(r, k)')
                       <= Cardinality(Workers)
  BY DEF OpenInv
<1> DEFINE A == OpenAlerts(r, k)
           B == Creating(r, k)
           A2 == OpenAlerts(r, k)'
           B2 == Creating(r, k)'
<1>0. /\ IsFiniteSet(A) /\ IsFiniteSet(B) /\ IsFiniteSet(Workers)
      /\ Cardinality(A) \in Nat /\ Cardinality(B) \in Nat /\ Cardinality(Workers) \in Nat
      /\ Cardinality(A) + Cardinality(B) <= Cardinality(Workers)
      /\ B2 \subseteq Workers
  BY OpenFinite, FS_CardinalityType DEF OpenInv, Creating
<1> SUFFICES Cardinality(A2) + Cardinality(B2) <= Cardinality(Workers)
  OBVIOUS
<1>1. ASSUME A2 \subseteq A, B2 \subseteq B
      PROVE  Cardinality(A2) + Cardinality(B2) <= Cardinality(Workers)
  <2> HIDE DEF A, B, A2, B2
  <2>1. /\ IsFiniteSet(A2) /\ Cardinality(A2) <= Cardinality(A)
        /\ IsFiniteSet(B2) /\ Cardinality(B2) <= Cardinality(B)
    BY <1>0, <1>1, FS_Subset
  <2>2. Cardinality(A2) \in Nat /\ Cardinality(B2) \in Nat
    BY <2>1, FS_CardinalityType
  <2> QED
    BY <1>0, <2>1, <2>2
<1>2. CASE \E w \in Workers : Create(w)
  <2>1. PICK w \in Workers : Create(w)
    BY <1>2
  <2>2. A2 \subseteq A \cup {Len(alerts) + 1}
    BY OpenSteps
  <2>3. B2 \subseteq B \ {w}
    <3>1. pc[w] = "create" /\ pc'[w] = "rule" /\ \A v \in Workers : v # w => UNCHANGED pc[v]
      BY <2>1, CreateRows
    <3>2. w \notin B2
      BY <3>1 DEF Creating
    <3>3. \A v \in Workers : ~Uncovered(v) \/ v = w
      BY <3>1 DEF Uncovered
    <3> QED
      BY <3>2, <3>3, CreatingSteps DEF Creating
  <2>4. CASE w \in B
    <3> HIDE DEF A, B, A2, B2
    <3> DEFINE A3 == A \cup {Len(alerts) + 1}
               B3 == B \ {w}
    <3>1. /\ IsFiniteSet(A3) /\ Cardinality(A3) <= Cardinality(A) + 1
          /\ IsFiniteSet(B3) /\ Cardinality(B3) = Cardinality(B) - 1
      <4>1. IsFiniteSet(A3) /\ (Cardinality(A3) = Cardinality(A) \/ Cardinality(A3) = Cardinality(A) + 1)
        BY <1>0, FS_AddElement
      <4>2. IsFiniteSet(B3) /\ Cardinality(B3) = Cardinality(B) - 1
        BY <1>0, <2>4, FS_RemoveElement
      <4> HIDE DEF A3, B3
      <4> QED
        BY <1>0, <4>1, <4>2
    <3>2. A2 \subseteq A3 /\ B2 \subseteq B3
      BY <2>2, <2>3
    <3> HIDE DEF A3, B3
    <3>3. /\ IsFiniteSet(A2) /\ Cardinality(A2) <= Cardinality(A3)
          /\ IsFiniteSet(B2) /\ Cardinality(B2) <= Cardinality(B3)
      BY <3>1, <3>2, FS_Subset
    <3>4. /\ Cardinality(A2) \in Nat /\ Cardinality(B2) \in Nat
          /\ Cardinality(A3) \in Nat /\ Cardinality(B3) \in Nat
      BY <3>1, <3>3, FS_CardinalityType
    <3> QED
      BY <1>0, <3>1, <3>3, <3>4
  <2>5. CASE w \notin B
    <3>1. /\ pc[w] = "create" /\ alerts'[Len(alerts) + 1] = AlertFor(w, Head(todo[w]))
      BY <2>1, CreateRows
    <3>2. ~(Head(todo[w]) = r /\ logs[mine[w]].key = k)
      BY <2>5, <3>1 DEF Creating
    <3>3. Len(alerts) + 1 \notin A2
      BY <3>1, <3>2 DEF OpenAlerts, AlertFor
    <3> QED
      BY <1>1, <2>2, <2>3, <3>3
  <2> QED
    BY <2>4, <2>5
<1>3. CASE ~\E w \in Workers : Create(w)
  <2>1. A2 \subseteq A
    BY <1>3, OpenSteps
  <2>2. CASE B2 \subseteq B
    BY <1>1, <2>1, <2>2
  <2>3. CASE \E w \in B2 : w \notin B
    <3>1. PICK w \in B2 : w \notin B
      BY <2>3
    <3>2. w \in Workers /\ Uncovered(w) /\ GoesOn(w)
      BY <3>1, CreatingSteps DEF Creating
    <3>3. UNCHANGED <<todo[w], mine, logs>>
      BY <3>2 DEF Uncovered, GoesOn
    <3>4. Head(todo[w]) = r /\ logs[mine[w]].key = k
      BY <3>1, <3>3 DEF Creating
    <3>5. A = {}
      BY <3>2, <3>4 DEF Uncovered, HasActiveAlert, OpenAlerts
    <3>6. A2 = {}
      BY <2>1, <3>5
    <3>7. Cardinality(B2) <= Cardinality(Workers) /\ IsFiniteSet(B2)
      BY <1>0, FS_Subset
    <3>8. Cardinality(A2) = 0 /\ Cardinality(B2) \in Nat
      BY <3>6, <3>7, FS_EmptySet, FS_CardinalityType
    <3> HIDE DEF A, B, A2, B2
    <3> QED
      BY <1>0, <3>7, <3>8
  <2> QED
    BY <2>2, <2>3
<1> QED
  BY <1>2, <1>3

\* Before the first event there is no alert and nobody about to create one.
LEMMA OpenInit == Init => OpenInv
<1> SUFFICES ASSUME Init, NEW r \in Rules, NEW k \in Keys
             PROVE  Cardinality(OpenAlerts(r, k)) + Cardinality(Creating(r, k))
                       <= Cardinality(Workers)
  BY DEF OpenInv
<1>1. OpenAlerts(r, k) = {} /\ Creating(r, k) = {}
  BY DEF Init, OpenAlerts, Creating
<1>2. Cardinality({}) = 0 /\ Cardinality(Workers) \in Nat
  BY FeedAssumption, FS_EmptySet, FS_CardinalityType
<1> QED
  BY <1>1, <1>2

\* The places taken and reserved, at every moment.
LEMMA OpenPlaces == Spec => []OpenInv
<1>1. Spec => []TypeInv
  BY InitType, NextTypes, PTL DEF Spec
<1> QED
  BY <1>1, OpenInit, OpenKept, HistoryEndsAtStatus, PTL DEF Spec

\* However the checks and creations of the threads interleave, and whatever
\* analysts close, reopen or delete: a rule never has more open alerts for
\* one key than the server has threads.
THEOREM NeverAStorm == Spec => []OpenBounded
<1>1. TypeInv /\ OpenInv => OpenBounded
  <2> SUFFICES ASSUME TypeInv, OpenInv, NEW r \in Rules, NEW k \in Keys
               PROVE  Cardinality(OpenAlerts(r, k)) <= Cardinality(Workers)
    BY DEF OpenBounded
  <2>1. /\ Cardinality(OpenAlerts(r, k)) \in Nat /\ Cardinality(Creating(r, k)) \in Nat
        /\ Cardinality(Workers) \in Nat
    BY OpenFinite, FS_CardinalityType
  <2> QED
    BY <2>1 DEF OpenInv
<1>2. Spec => []TypeInv
  BY InitType, NextTypes, PTL DEF Spec
<1> QED
  BY <1>1, <1>2, OpenPlaces, PTL

\* With one thread the deduplication does what its documentation says: one
\* open alert per rule and key.  It takes two threads to make a duplicate.
THEOREM OneThreadNoDuplicate ==
    ASSUME Cardinality(Workers) = 1
    PROVE  Spec => []OneOpen
<1>1. OpenBounded => OneOpen
  BY DEF OpenBounded, OneOpen
<1> QED
  BY <1>1, NeverAStorm, PTL

-----------------------------------------------------------------------------
(***************************************************************************)
(* What a rule counts.                                                     *)
(***************************************************************************)
\* The rows of S that rule r counts for event l in the logs table L, and what
\* it counts of them.
HitsIn(L, r, l, S) ==
    {k \in S : /\ L[k].kind = Counted[r] /\ L[k].key = L[l].key
               /\ L[k].ts \in (L[l].ts - Window[r])..L[l].ts}
ValsIn(L, r, H) == IF r \in Distinct THEN {L[k].val : k \in H} ELSE H

\* More rows never count for less.
LEMMA ValsGrow ==
    ASSUME NEW L, NEW M, NEW r, NEW K, NEW H \in SUBSET K, IsFiniteSet(K),
           \A k \in H : M[k] = L[k]
    PROVE  /\ IsFiniteSet(ValsIn(M, r, K))
           /\ Cardinality(ValsIn(L, r, H)) \in Nat
           /\ Cardinality(ValsIn(M, r, K)) \in Nat
           /\ Cardinality(ValsIn(L, r, H)) <= Cardinality(ValsIn(M, r, K))
<1>1. IsFiniteSet(ValsIn(M, r, K))
  <2>1. CASE r \in Distinct
    <3> DEFINE T == {M[k].val : k \in K}
               f == [k \in K |-> M[k].val]
    <3>1. f \in Surjection(K, T)
      BY DEF Surjection
    <3> HIDE DEF f, T
    <3>2. IsFiniteSet(T)
      BY <3>1, FS_Surjection
    <3> QED
      BY <2>1, <3>2 DEF ValsIn, T
  <2>2. CASE r \notin Distinct
    BY <2>2 DEF ValsIn
  <2> QED
    BY <2>1, <2>2
<1>2. ValsIn(L, r, H) \subseteq ValsIn(M, r, K)
  BY DEF ValsIn
<1> DEFINE V == ValsIn(L, r, H)
           W == ValsIn(M, r, K)
<1>3. IsFiniteSet(W) /\ V \in SUBSET W
  BY <1>1, <1>2
<1> HIDE DEF V, W
<1>4. IsFiniteSet(V) /\ Cardinality(V) <= Cardinality(W)
  BY <1>3, FS_Subset
<1>5. Cardinality(V) \in Nat /\ Cardinality(W) \in Nat
  BY <1>3, <1>4, FS_CardinalityType
<1> QED
  BY <1>3, <1>4, <1>5 DEF V, W

\* The count of the properties in these terms.
LEMMA CountsIn ==
    ASSUME NEW r, NEW l, NEW S
    PROVE  Counts(r, l, S) = Cardinality(ValsIn(logs, r, HitsIn(logs, r, l, S)))
BY DEF Counts, HitsIn, ValsIn

LEMMA CountsInAfter ==
    ASSUME NEW r, NEW l, NEW S
    PROVE  Counts(r, l, S)' = Cardinality(ValsIn(logs', r, HitsIn(logs', r, l, S')))
BY DEF Counts, HitsIn, ValsIn

\* The rows a rule counts when it is evaluated are among those the
\* properties count, and are all of them that have not been deleted.
LEMMA FiresCounts ==
    ASSUME TypeInv, NEW r \in Rules, NEW l \in DOMAIN logs
    PROVE  /\ Fires(r, l) /\ Counted[r] # "none" =>
                 Counts(r, l, DOMAIN logs) >= Threshold[r]
           /\ /\ Counted[r] # "none" /\ logs[l].kind = Trigger[r]
              /\ Counts(r, l, (1..l) \ gone) >= Threshold[r]
              => Fires(r, l)
<1> DEFINE S == {k \in DOMAIN logs \ gone : InWindow(r, logs[l], logs[k])}
           H == HitsIn(logs, r, l, DOMAIN logs)
           H2 == HitsIn(logs, r, l, (1..l) \ gone)
<1>1. /\ Len(logs) \in Nat /\ DOMAIN logs = 1..Len(logs)
      /\ \A k \in DOMAIN logs : logs[k].ts \in Nat
      /\ Window[r] \in Nat /\ Threshold[r] \in Nat
  <2>1. Len(logs) \in Nat /\ DOMAIN logs = 1..Len(logs) /\ \A k \in DOMAIN logs : logs[k] \in Feed
    BY Rows DEF TypeInv
  <2> QED
    BY <2>1, FeedAssumption, RuleAssumption
<1>2. S \in SUBSET H
  BY <1>1 DEF HitsIn, InWindow
<1>3. H2 \in SUBSET S
  BY <1>1 DEF HitsIn, InWindow
<1>4. IsFiniteSet(H) /\ IsFiniteSet(S)
  <2>1. IsFiniteSet(1..Len(logs))
    BY <1>1, FS_Interval
  <2>2. H \in SUBSET (1..Len(logs)) /\ S \in SUBSET (1..Len(logs))
    BY <1>1 DEF HitsIn
  <2> HIDE DEF H, S
  <2> QED
    BY <2>1, <2>2, FS_Subset
<1>5. Fires(r, l) <=> /\ logs[l].kind = Trigger[r]
                      /\ \/ Counted[r] = "none"
                         \/ Cardinality(ValsIn(logs, r, S)) >= Threshold[r]
  BY DEF Fires, Reaches, ValsIn
<1>6. /\ Counts(r, l, DOMAIN logs) = Cardinality(ValsIn(logs, r, H))
      /\ Counts(r, l, (1..l) \ gone) = Cardinality(ValsIn(logs, r, H2))
  BY CountsIn
<1> HIDE DEF S, H, H2
<1>7. /\ Cardinality(ValsIn(logs, r, S)) \in Nat /\ Cardinality(ValsIn(logs, r, H)) \in Nat
      /\ Cardinality(ValsIn(logs, r, S)) <= Cardinality(ValsIn(logs, r, H))
  BY <1>2, <1>4, ValsGrow
<1>8. /\ Cardinality(ValsIn(logs, r, H2)) \in Nat
      /\ Cardinality(ValsIn(logs, r, H2)) <= Cardinality(ValsIn(logs, r, S))
  BY <1>3, <1>4, ValsGrow
<1> QED
  BY <1>1, <1>5, <1>6, <1>7, <1>8

\* The events stored no later than one stay the same but for deletions, and
\* those stored after it can only add to the count.
LEMMA CountsStay ==
    ASSUME TypeInv, [Next]_vars, NEW r \in Rules, NEW l \in DOMAIN logs
    PROVE  /\ Counts(r, l, (1..l) \ gone)' <= Counts(r, l, (1..l) \ gone)
           /\ Counts(r, l, (1..l) \ gone) \in Nat /\ Counts(r, l, (1..l) \ gone)' \in Nat
           /\ Counts(r, l, DOMAIN logs)' >= Counts(r, l, DOMAIN logs)
           /\ Counts(r, l, DOMAIN logs) \in Nat /\ Counts(r, l, DOMAIN logs)' \in Nat
<1>1. /\ DOMAIN logs \subseteq DOMAIN logs' /\ \A k \in DOMAIN logs : logs'[k] = logs[k]
      /\ DOMAIN logs = 1..Len(logs) /\ Len(logs) \in Nat
      /\ gone \subseteq gone'
  BY TablesGrow, Rows DEF TypeInv
<1>2. 1..l \subseteq DOMAIN logs
  BY <1>1
<1>3. /\ Counts(r, l, (1..l) \ gone)' <= Counts(r, l, (1..l) \ gone)
      /\ Counts(r, l, (1..l) \ gone) \in Nat /\ Counts(r, l, (1..l) \ gone)' \in Nat
  <2> DEFINE P == HitsIn(logs, r, l, (1..l) \ gone)
             Q == HitsIn(logs', r, l, (1..l) \ gone')
  <2>1. Q \in SUBSET P /\ \A k \in Q : logs[k] = logs'[k]
    BY <1>1, <1>2 DEF HitsIn
  <2>2. IsFiniteSet(P)
    <3>1. P \in SUBSET (1..l) /\ IsFiniteSet(1..l)
      BY <1>1, FS_Interval DEF HitsIn
    <3> HIDE DEF P
    <3> QED
      BY <3>1, FS_Subset
  <2>3. /\ Counts(r, l, (1..l) \ gone) = Cardinality(ValsIn(logs, r, P))
        /\ Counts(r, l, (1..l) \ gone)' = Cardinality(ValsIn(logs', r, Q))
    BY CountsIn, CountsInAfter
  <2> HIDE DEF P, Q
  <2>4. /\ Cardinality(ValsIn(logs', r, Q)) <= Cardinality(ValsIn(logs, r, P))
        /\ Cardinality(ValsIn(logs', r, Q)) \in Nat /\ Cardinality(ValsIn(logs, r, P)) \in Nat
    BY <2>1, <2>2, ValsGrow
  <2> QED
    BY <2>3, <2>4
<1> DEFINE H == HitsIn(logs, r, l, DOMAIN logs)
           K == HitsIn(logs', r, l, DOMAIN logs')
<1>4. H \in SUBSET K /\ \A k \in H : logs'[k] = logs[k]
  BY <1>1 DEF HitsIn
<1>5. IsFiniteSet(K)
  <2>1. TypeInv'
    BY NextTypes
  <2>2. IsFiniteSet(DOMAIN logs')
    <3>1. logs' \in Seq(Feed)
      BY <2>1 DEF TypeInv, TypeOK
    <3>2. DOMAIN logs' = 1..Len(logs') /\ Len(logs') \in Nat
      BY <3>1
    <3> QED
      BY <3>2, FS_Interval
  <2>3. K \in SUBSET DOMAIN logs'
    BY DEF HitsIn
  <2> HIDE DEF K
  <2> QED
    BY <2>2, <2>3, FS_Subset
<1>6. /\ Counts(r, l, DOMAIN logs) = Cardinality(ValsIn(logs, r, H))
      /\ Counts(r, l, DOMAIN logs)' = Cardinality(ValsIn(logs', r, K))
  BY CountsIn, CountsInAfter
<1> HIDE DEF H, K
<1>7. /\ Cardinality(ValsIn(logs, r, H)) \in Nat /\ Cardinality(ValsIn(logs', r, K)) \in Nat
      /\ Cardinality(ValsIn(logs, r, H)) <= Cardinality(ValsIn(logs', r, K))
  BY <1>4, <1>5, ValsGrow
<1> QED
  BY <1>3, <1>6, <1>7

-----------------------------------------------------------------------------
(***************************************************************************)
(* An alert means that the threshold was reached.                          *)
(***************************************************************************)
Reached(r, l) ==
    /\ logs[l].kind = Trigger[r]
    /\ Counted[r] # "none" => Counts(r, l, DOMAIN logs) >= Threshold[r]
\* A rule that is about to be checked or to create its alert has fired, and
\* an alert names the event that fired it for as long as that is stored.
ThresholdInv ==
    /\ \A w \in Workers, r \in Rules, l \in DOMAIN logs :
          pc[w] \in {"check", "create"} /\ Head(todo[w]) = r /\ mine[w] = l => Reached(r, l)
    /\ \A a \in DOMAIN alerts : alerts[a].log # 0 =>
          /\ alerts[a].log \in DOMAIN logs
          /\ alerts[a].key = logs[alerts[a].log].key /\ alerts[a].ts = logs[alerts[a].log].ts
    /\ \A a \in DOMAIN alerts, r \in Rules, l \in DOMAIN logs :
          alerts[a].rule = r /\ alerts[a].log = l => Reached(r, l)

\* A condition that was reached stays reached: logs are added, and the rows
\* of deleted ones are still counted here.
LEMMA ReachedStays ==
    ASSUME TypeInv, [Next]_vars, NEW r \in Rules, NEW l \in DOMAIN logs, Reached(r, l)
    PROVE  Reached(r, l)'
<1>1. logs'[l] = logs[l] /\ Threshold[r] \in Nat
  BY TablesGrow, RuleAssumption
<1>2. /\ Counts(r, l, DOMAIN logs)' >= Counts(r, l, DOMAIN logs)
      /\ Counts(r, l, DOMAIN logs) \in Nat /\ Counts(r, l, DOMAIN logs)' \in Nat
  BY CountsStay
<1>3. CASE Counted[r] = "none"
  BY <1>1, <1>3 DEF Reached
<1>4. CASE Counted[r] # "none"
  BY <1>1, <1>2, <1>4 DEF Reached
<1> QED
  BY <1>3, <1>4

\* Whoever is about to check or to create was already, or its rule has fired.
LEMMA ThreadsReached ==
    ASSUME TypeInv, ThresholdInv, [Next]_vars,
           NEW w \in Workers, NEW r \in Rules, NEW l \in DOMAIN logs',
           pc'[w] \in {"check", "create"}, Head(todo'[w]) = r, mine'[w] = l
    PROVE  l \in DOMAIN logs /\ Reached(r, l)
<1>0. /\ TypeOK /\ Shape
      /\ \A v \in Workers : pc[v] # "idle" => mine[v] \in DOMAIN logs
  BY DEF TypeInv, Shape, AtHand
<1>1. ASSUME Still(w) PROVE l \in DOMAIN logs /\ Reached(r, l)
  BY <1>0, <1>1 DEF Still, ThresholdInv
<1>2. CASE UNCHANGED <<logs, threads, answers, caught>>
  BY <1>1, <1>2 DEF threads, Still
<1>3. ASSUME NEW v \in Workers, GoesOn(v) PROVE l \in DOMAIN logs /\ Reached(r, l)
  <2>1. CASE v # w
    BY <1>1, <1>3, <2>1 DEF GoesOn
  <2>2. CASE v = w
    <3>1. mine[w] = l /\ l \in DOMAIN logs
      BY <1>3, <2>2 DEF GoesOn
    <3>2. CASE Matched(w)
      <4>1. Fires(r, l) /\ logs[l].kind = Trigger[r]
        BY <3>1, <3>2 DEF Matched, Fires
      <4> QED
        BY <3>1, <4>1, FiresCounts DEF Reached
    <3>3. CASE Uncovered(w)
      BY <3>1, <3>3 DEF Uncovered, ThresholdInv
    <3>4. ~Passed(w) /\ ~Covered(w) /\ ~Responding(w)
      BY DEF Passed, Covered, Responding
    <3>5. ~Create(w)
      BY CreateRows
    <3> QED
      BY <1>3, <2>2, <3>2, <3>3, <3>4, <3>5 DEF GoesOn
  <2> QED
    BY <2>1, <2>2
<1>4. ASSUME NEW v \in Workers, NEW how \in {"accepted", "error"}, Ends(v, how)
      PROVE  l \in DOMAIN logs /\ Reached(r, l)
  <2>1. Answer(v, how) /\ pc[v] # "idle"
    BY <1>4 DEF Ends
  <2>2. v # w /\ Still(w)
    BY <2>1, AnswerRows DEF Still
  <2> QED
    BY <1>1, <2>2
<1>5. ASSUME NEW v \in Workers, NEW ev \in Feed, Ingest(v, ev)
      PROVE  l \in DOMAIN logs /\ Reached(r, l)
  <2>1. v # w /\ UNCHANGED <<pc[w], mine[w], todo[w]>>
    BY <1>5, IngestRows
  <2> QED
    BY <1>0, <2>1 DEF ThresholdInv
<1>6. ~Crash
  BY DEF Crash
<1> QED
  BY <1>2, <1>3, <1>4, <1>5, <1>6, RequestSteps

\* No step creates an alert whose rule has not fired.
LEMMA ThresholdKept == TypeInv /\ ThresholdInv /\ [Next]_vars => ThresholdInv'
<1> SUFFICES ASSUME TypeInv, ThresholdInv, [Next]_vars PROVE ThresholdInv'
  OBVIOUS
<1>0. /\ TypeOK /\ Shape /\ 0 \notin DOMAIN logs
      /\ \A l \in DOMAIN logs : l \in DOMAIN logs' /\ logs'[l] = logs[l]
  BY TablesGrow, Rows DEF TypeInv
<1>1. ASSUME NEW w \in Workers, NEW r \in Rules, NEW l \in DOMAIN logs',
             pc'[w] \in {"check", "create"}, Head(todo'[w]) = r, mine'[w] = l
      PROVE  Reached(r, l)'
  <2>1. l \in DOMAIN logs /\ Reached(r, l)
    BY <1>1, ThreadsReached
  <2> QED
    BY <2>1, ReachedStays
<1>2. ASSUME NEW a \in DOMAIN alerts', a \in DOMAIN alerts,
             UNCHANGED <<alerts[a].rule, alerts[a].key, alerts[a].ts>>,
             alerts'[a].log \in {alerts[a].log, 0}
      PROVE  /\ alerts'[a].log # 0 =>
                   /\ alerts'[a].log \in DOMAIN logs'
                   /\ alerts'[a].key = logs'[alerts'[a].log].key
                   /\ alerts'[a].ts = logs'[alerts'[a].log].ts
             /\ \A r \in Rules, l \in DOMAIN logs' :
                   alerts'[a].rule = r /\ alerts'[a].log = l => Reached(r, l)'
  <2>1. alerts'[a].log # 0 =>
                   /\ alerts'[a].log \in DOMAIN logs'
                   /\ alerts'[a].key = logs'[alerts'[a].log].key
                   /\ alerts'[a].ts = logs'[alerts'[a].log].ts
    BY <1>0, <1>2 DEF ThresholdInv
  <2>2. ASSUME NEW r \in Rules, NEW l \in DOMAIN logs', alerts'[a].rule = r, alerts'[a].log = l
        PROVE  Reached(r, l)'
    <3>1. l # 0
      <4>1. logs' \in Seq(Feed)
        BY NextTypes DEF TypeInv, TypeOK
      <4> QED
        BY <4>1
    <3>2. l \in DOMAIN logs /\ Reached(r, l)
      BY <1>2, <2>2, <3>1 DEF ThresholdInv
    <3> QED
      BY <3>2, ReachedStays
  <2> QED
    BY <2>1, <2>2
<1>3. ASSUME NEW w \in Workers, Create(w), NEW a \in DOMAIN alerts', a = Len(alerts) + 1
      PROVE  /\ alerts'[a].log # 0 =>
                   /\ alerts'[a].log \in DOMAIN logs'
                   /\ alerts'[a].key = logs'[alerts'[a].log].key
                   /\ alerts'[a].ts = logs'[alerts'[a].log].ts
             /\ \A r \in Rules, l \in DOMAIN logs' :
                   alerts'[a].rule = r /\ alerts'[a].log = l => Reached(r, l)'
  <2>1. /\ alerts'[a] = AlertFor(w, Head(todo[w])) /\ mine[w] \in DOMAIN logs /\ UNCHANGED logs
        /\ pc[w] = "create"
    BY <1>3, CreateRows
  <2>2. /\ alerts'[a].rule = Head(todo[w]) /\ alerts'[a].log = mine[w]
        /\ alerts'[a].key = logs[mine[w]].key /\ alerts'[a].ts = logs[mine[w]].ts
    BY <2>1 DEF AlertFor
  <2>3. ASSUME NEW r \in Rules, NEW l \in DOMAIN logs', alerts'[a].rule = r, alerts'[a].log = l
        PROVE  Reached(r, l)'
    <3>1. l \in DOMAIN logs /\ Reached(r, l)
      BY <2>1, <2>2, <2>3 DEF ThresholdInv
    <3> QED
      BY <3>1, ReachedStays
  <2> QED
    BY <2>1, <2>2, <2>3
<1>4. ASSUME NEW a \in DOMAIN alerts'
      PROVE  /\ alerts'[a].log # 0 =>
                   /\ alerts'[a].log \in DOMAIN logs'
                   /\ alerts'[a].key = logs'[alerts'[a].log].key
                   /\ alerts'[a].ts = logs'[alerts'[a].log].ts
             /\ \A r \in Rules, l \in DOMAIN logs' :
                   alerts'[a].rule = r /\ alerts'[a].log = l => Reached(r, l)'
  <2>1. CASE SameRow(a)
    <3>1. /\ a \in DOMAIN alerts /\ UNCHANGED <<alerts[a].rule, alerts[a].key, alerts[a].ts>>
          /\ alerts'[a].log \in {alerts[a].log, 0}
      BY <2>1 DEF SameRow
    <3> QED
      BY <1>2, <3>1
  <2>2. CASE \E u \in Analysts : SavedBy(u, a)
    <3>1. /\ a \in DOMAIN alerts /\ UNCHANGED <<alerts[a].rule, alerts[a].key, alerts[a].ts>>
          /\ alerts'[a].log \in {alerts[a].log, 0}
      BY <2>2 DEF SavedBy
    <3> QED
      BY <1>2, <3>1
  <2>3. CASE \E w \in Workers : Create(w) /\ a = Len(alerts) + 1
    BY <1>3, <2>3
  <2> QED
    BY <2>1, <2>2, <2>3, AlertOrigins
<1> QED
  BY <1>1, <1>4 DEF ThresholdInv

\* Whatever is deleted and however threads interleave: an alert whose event
\* is still referred to was raised by an event that completed its rule's
\* condition.  The rules that look at single events take no notice of a
\* threshold above one, hence the assumption about theirs.
THEOREM AlertsAreEarned ==
    ASSUME \A r \in Rules : Counted[r] = "none" => Threshold[r] <= 1
    PROVE  Spec => []ThresholdRespected
<1>1. Init => ThresholdInv
  BY DEF Init, ThresholdInv
<1>2. TypeInv /\ ThresholdInv => ThresholdRespected
  <2> SUFFICES ASSUME TypeInv, ThresholdInv, NEW a \in DOMAIN alerts, alerts[a].log # 0
               PROVE  LET r == alerts[a].rule IN
                      IF Counted[r] = "none"
                      THEN Cardinality({k \in DOMAIN logs :
                              /\ logs[k].kind = Trigger[r] /\ logs[k].key = alerts[a].key
                              /\ logs[k].ts \in (alerts[a].ts - Window[r])..alerts[a].ts})
                           >= Threshold[r]
                      ELSE Counts(r, alerts[a].log, DOMAIN logs) >= Threshold[r]
    BY DEF ThresholdRespected
  <2> DEFINE r == alerts[a].rule
             l == alerts[a].log
             S == {k \in DOMAIN logs :
                     /\ logs[k].kind = Trigger[r] /\ logs[k].key = alerts[a].key
                     /\ logs[k].ts \in (alerts[a].ts - Window[r])..alerts[a].ts}
  <2>1. /\ r \in Rules /\ l \in DOMAIN logs
        /\ alerts[a].key = logs[l].key /\ alerts[a].ts = logs[l].ts
    <3>1. alerts[a] \in AlertRow
      BY Rows DEF TypeInv
    <3> QED
      BY <3>1 DEF AlertRow, ThresholdInv
  <2>2. Reached(r, l)
    BY <2>1 DEF ThresholdInv
  <2>3. /\ DOMAIN logs = 1..Len(logs) /\ Len(logs) \in Nat
        /\ logs[l].ts \in Nat /\ Window[r] \in Nat /\ Threshold[r] \in Nat
    <3>1. logs[l] \in Feed /\ DOMAIN logs = 1..Len(logs) /\ Len(logs) \in Nat
      BY <2>1, Rows DEF TypeInv
    <3> QED
      BY <2>1, <3>1, FeedAssumption, RuleAssumption
  <2>4. CASE Counted[r] = "none"
    <3>1. l \in S
      BY <2>1, <2>2, <2>3 DEF Reached
    <3>2. IsFiniteSet(1..Len(logs)) /\ S \subseteq 1..Len(logs)
      <4>1. IsFiniteSet(1..Len(logs))
        BY <2>3, FS_Interval
      <4>2. S \subseteq DOMAIN logs
        OBVIOUS
      <4> QED
        BY <2>3, <4>1, <4>2
    <3>3. Threshold[r] <= 1
      BY <2>1, <2>4
    <3> HIDE DEF S, r
    <3>4. IsFiniteSet(S) /\ Cardinality(S) \in Nat /\ Cardinality(S) # 0
      BY <3>1, <3>2, FS_Subset, FS_CardinalityType, FS_EmptySet
    <3>5. Cardinality(S) >= Threshold[r]
      BY <2>3, <3>3, <3>4
    <3> QED
      BY <2>4, <3>5 DEF S, r
  <2>5. CASE Counted[r] # "none"
    BY <2>2, <2>5 DEF Reached
  <2> QED
    BY <2>4, <2>5
<1>3. Spec => []TypeInv
  BY InitType, NextTypes, PTL DEF Spec
<1> QED
  BY <1>1, <1>2, <1>3, ThresholdKept, PTL DEF Spec

-----------------------------------------------------------------------------
(***************************************************************************)
(* An accepted event is not missed.                                        *)
(***************************************************************************)
Complete(r, l) ==
    /\ Counted[r] # "none" /\ logs[l].kind = Trigger[r]
    /\ Counts(r, l, (1..l) \ gone) >= Threshold[r]
\* While a request runs, a rule whose condition its event completes is still
\* to come or has found its alert.
MissedInv ==
    /\ \A w \in Workers, r \in Rules, l \in DOMAIN logs :
          mine[w] = l /\ Complete(r, l) =>
             <<l, r>> \in caught \/ \E i \in DOMAIN todo[w] : todo[w][i] = r
    /\ NothingMissed

\* What an event still completes it completed before: nothing stored later
\* is counted, and a deletion only takes away.
LEMMA CompleteStays ==
    ASSUME TypeInv, [Next]_vars, NEW r \in Rules, NEW l \in DOMAIN logs
    PROVE  Complete(r, l)' => Complete(r, l)
<1>1. logs'[l] = logs[l] /\ Threshold[r] \in Nat
  BY TablesGrow, RuleAssumption
<1>2. /\ Counts(r, l, (1..l) \ gone)' <= Counts(r, l, (1..l) \ gone)
      /\ Counts(r, l, (1..l) \ gone) \in Nat /\ Counts(r, l, (1..l) \ gone)' \in Nat
  BY CountsStay
<1>3. SUFFICES ASSUME Complete(r, l)' PROVE Complete(r, l)
  OBVIOUS
<1>4. /\ Counted[r] # "none" /\ logs'[l].kind = Trigger[r]
      /\ Counts(r, l, (1..l) \ gone)' >= Threshold[r]
  BY <1>3 DEF Complete
<1> QED
  BY <1>1, <1>2, <1>4 DEF Complete

\* A rule leaves the list only after it has found no condition completed, or
\* an alert.
LEMMA MissedKept == TypeInv /\ Requests /\ MissedInv /\ [Next]_vars => MissedInv'
<1> SUFFICES ASSUME TypeInv, Requests, MissedInv, [Next]_vars PROVE MissedInv'
  OBVIOUS
<1>0. /\ TypeOK /\ Shape /\ 0 \notin DOMAIN logs /\ DOMAIN logs \subseteq LogIds
      /\ \A w \in Workers : mine[w] \in DOMAIN logs \/ mine[w] = 0
      /\ \A w \in Workers : pc[w] # "idle" => mine[w] \in DOMAIN logs
      /\ DOMAIN logs \subseteq DOMAIN logs'
  BY TablesGrow, Rows DEF TypeInv, Shape, AtHand
<1>1. \A w \in Workers, r \in Rules, l \in DOMAIN logs :
         mine[w] = l /\ Complete(r, l) =>
            <<l, r>> \in caught \/ \E i \in DOMAIN todo[w] : todo[w][i] = r
  BY <1>0 DEF MissedInv
<1>2. \A r \in Rules, l \in DOMAIN logs :
         answers[l] = "accepted" /\ Complete(r, l) => <<l, r>> \in caught
  BY <1>0 DEF MissedInv, NothingMissed, Complete
<1>3. SUFFICES ASSUME NEW r \in Rules, NEW l \in DOMAIN logs', Complete(r, l)'
               PROVE  /\ answers'[l] = "accepted" => <<l, r>> \in caught'
                      /\ \A w \in Workers : mine'[w] = l =>
                            <<l, r>> \in caught' \/ \E i \in DOMAIN todo'[w] : todo'[w][i] = r
  BY DEF MissedInv, NothingMissed, Complete
<1>4. l \in DOMAIN logs => Complete(r, l)
  BY <1>3, CompleteStays
<1>5. CASE UNCHANGED <<logs, threads, answers, caught>>
  BY <1>1, <1>2, <1>4, <1>5 DEF threads
<1>6. ASSUME NEW w \in Workers, GoesOn(w)
      PROVE  /\ answers'[l] = "accepted" => <<l, r>> \in caught'
             /\ \A v \in Workers : mine'[v] = l =>
                   <<l, r>> \in caught' \/ \E i \in DOMAIN todo'[v] : todo'[v][i] = r
  <2>1. /\ l \in DOMAIN logs /\ UNCHANGED <<mine, answers>> /\ mine[w] \in DOMAIN logs
        /\ \A v \in Workers : v # w => UNCHANGED todo[v]
    BY <1>6 DEF GoesOn, Still
  <2>2. todo[w] \in Seq(Rules)
    BY <1>0 DEF TypeOK
  <2>3. caught \subseteq caught'
    BY <1>6, CreateRows DEF GoesOn, Passed, Matched, Covered, Uncovered, Responding
  <2>4. ASSUME mine[w] = l, \E i \in DOMAIN todo[w] : todo[w][i] = r
        PROVE  <<l, r>> \in caught' \/ \E i \in DOMAIN todo'[w] : todo'[w][i] = r
    <3>1. CASE todo'[w] = todo[w]
      BY <2>4, <3>1
    <3>2. CASE todo[w] # << >> /\ todo'[w] = Tail(todo[w])
      <4>1. r = Head(todo[w]) \/ \E i \in DOMAIN Tail(todo[w]) : Tail(todo[w])[i] = r
        <5> DEFINE s == todo[w]
        <5>1. s \in Seq(Rules) /\ s # << >>
          BY <2>2, <3>2
        <5> HIDE DEF s
        <5>2. \A x : (\E i \in DOMAIN s : s[i] = x) <=>
                        x = Head(s) \/ \E i \in DOMAIN Tail(s) : Tail(s)[i] = x
          BY <5>1, HeadAndTail
        <5> QED
          BY <2>4, <5>2 DEF s
      <4>2. CASE r # Head(todo[w])
        BY <3>2, <4>1, <4>2
      <4>3. CASE r = Head(todo[w])
        <5>1. ~Passed(w)
          <6>1. Fires(r, l)
            BY <1>0, <1>4, <2>1, FiresCounts DEF Complete
          <6> QED
            BY <2>4, <4>3, <6>1 DEF Passed
        <5>2. CASE Covered(w)
          BY <2>4, <4>3, <5>2 DEF Covered
        <5>3. CASE Create(w)
          BY <2>4, <4>3, <5>3, CreateRows
        <5>4. CASE Matched(w) \/ Uncovered(w)
          <6>1. \E i \in DOMAIN todo'[w] : todo'[w][i] = r
            BY <2>4, <5>4 DEF Matched, Uncovered
          <6> QED
            BY <6>1
        <5>5. ~Responding(w)
          BY <3>2 DEF Responding
        <5> QED
          BY <1>6, <5>1, <5>2, <5>3, <5>4, <5>5 DEF GoesOn
      <4> QED
        BY <4>2, <4>3
    <3>3. \/ todo'[w] = todo[w]
          \/ todo[w] # << >> /\ todo'[w] = Tail(todo[w])
      BY <1>6, CreateRows DEF GoesOn, Passed, Matched, Covered, Uncovered, Responding
    <3> QED
      BY <3>1, <3>2, <3>3
  <2>5. ASSUME NEW v \in Workers, mine[v] = l
        PROVE  <<l, r>> \in caught' \/ \E i \in DOMAIN todo'[v] : todo'[v][i] = r
    <3>1. <<l, r>> \in caught \/ \E i \in DOMAIN todo[v] : todo[v][i] = r
      BY <1>1, <1>4, <2>1, <2>5
    <3>2. CASE v = w
      BY <2>3, <2>4, <2>5, <3>1, <3>2
    <3>3. CASE v # w
      BY <2>1, <2>3, <3>1, <3>3
    <3> QED
      BY <3>2, <3>3
  <2> QED
    BY <1>2, <1>4, <2>1, <2>3, <2>5
<1>7. ASSUME NEW w \in Workers, NEW how \in {"accepted", "error"}, Ends(w, how)
      PROVE  /\ answers'[l] = "accepted" => <<l, r>> \in caught'
             /\ \A v \in Workers : mine'[v] = l =>
                   <<l, r>> \in caught' \/ \E i \in DOMAIN todo'[v] : todo'[v][i] = r
  <2>1. /\ Answer(w, how) /\ pc[w] # "idle" /\ UNCHANGED <<logs, caught>>
        /\ how = "accepted" => todo[w] = << >>
    BY <1>7 DEF Ends, tables
  <2>2. /\ mine'[w] = 0 /\ answers'[mine[w]] = how
        /\ \A k \in LogIds : k # mine[w] => answers'[k] = answers[k]
        /\ \A v \in Workers : v # w => UNCHANGED <<mine[v], todo[v]>>
    BY <2>1, AnswerRows
  <2>3. l \in DOMAIN logs /\ Complete(r, l)
    BY <1>4, <2>1
  <2>4. answers'[l] = "accepted" => <<l, r>> \in caught
    <3>1. CASE l = mine[w]
      <4>1. <<l, r>> \in caught \/ \E i \in DOMAIN todo[w] : todo[w][i] = r
        BY <1>1, <2>3, <3>1
      <4> QED
        BY <2>1, <2>2, <3>1, <4>1
    <3>2. CASE l # mine[w]
      BY <1>0, <1>2, <2>2, <2>3, <3>2
    <3> QED
      BY <3>1, <3>2
  <2>5. ASSUME NEW v \in Workers, mine'[v] = l
        PROVE  <<l, r>> \in caught \/ \E i \in DOMAIN todo'[v] : todo'[v][i] = r
    <3>1. v # w
      BY <1>0, <2>2, <2>3, <2>5
    <3> QED
      BY <1>1, <2>2, <2>3, <2>5, <3>1
  <2> QED
    BY <2>1, <2>4, <2>5
<1>8. ASSUME NEW w \in Workers, NEW ev \in Feed, Ingest(w, ev)
      PROVE  /\ answers'[l] = "accepted" => <<l, r>> \in caught'
             /\ \A v \in Workers : mine'[v] = l =>
                   <<l, r>> \in caught' \/ \E i \in DOMAIN todo'[v] : todo'[v][i] = r
  <2>1. /\ mine'[w] = Len(logs) + 1 /\ Len(logs) + 1 \notin DOMAIN logs /\ Len(logs) + 1 \in LogIds
        /\ DOMAIN logs' = DOMAIN logs \cup {Len(logs) + 1}
        /\ UNCHANGED <<answers, caught>> /\ todo'[w] = RuleSeq
        /\ \A v \in Workers : v # w => UNCHANGED <<mine[v], todo[v]>>
    BY <1>8, IngestRows
  <2>2. \E i \in DOMAIN RuleSeq : RuleSeq[i] = r
    BY DEF Rules, Range
  <2>3. CASE l = Len(logs) + 1
    <3>1. answers[l] = "open"
      BY <2>1, <2>3 DEF Requests
    <3>2. \A v \in Workers : mine'[v] = l => v = w
      BY <1>0, <2>1, <2>3, Rows DEF LogIds
    <3> QED
      BY <2>1, <2>2, <3>1, <3>2
  <2>4. CASE l # Len(logs) + 1
    <3>1. l \in DOMAIN logs /\ \A v \in Workers : mine'[v] = l => v # w
      BY <2>1, <2>4
    <3> QED
      BY <1>1, <1>2, <1>4, <2>1, <3>1
  <2> QED
    BY <2>3, <2>4
<1>9. CASE Crash
  <2>1. UNCHANGED <<logs, answers, caught>> /\ \A v \in Workers : mine'[v] = 0
    BY <1>9 DEF Crash, tables, history
  <2> QED
    BY <1>0, <1>2, <1>4, <2>1
<1> QED
  BY <1>5, <1>6, <1>7, <1>8, <1>9, RequestSteps

\* However the threads interleave, whatever is deleted or purged, whatever
\* fails, and across crashes: an accepted event that completes a rule's
\* condition by what has not been deleted is covered by an alert.
THEOREM NothingIsMissed == Spec => []NothingMissed
<1>1. Init => Requests /\ MissedInv
  BY DEF Init, Requests, MissedInv, NothingMissed
<1>2. MissedInv => NothingMissed
  BY DEF MissedInv
<1>3. Spec => []TypeInv
  BY InitType, NextTypes, PTL DEF Spec
<1> QED
  BY <1>1, <1>2, <1>3, RequestsKept, MissedKept, PTL DEF Spec
=============================================================================
