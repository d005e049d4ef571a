---------------------------- MODULE ServiceProofs ----------------------------
(***************************************************************************)
(* What a start of the service promises for any number of processes that   *)
(* start at once, over any database an earlier release left, whichever of  *)
(* them are killed and whenever; and that a service made of such processes *)
(* keeps the promise of its rate limiter.                                  *)
(***************************************************************************)
EXTENDS Service, TLAPS

-----------------------------------------------------------------------------
(***************************************************************************)
(* The token buckets, by themselves: for every rate, burst and number of   *)
(* processes, and for every order in which calls to Redis arrive.          *)
(***************************************************************************)
Kinds == {"none", "in_process", "redis"}

\* The shape of the state; a bucket holds between nothing and Full.
Shape ==
    /\ clock \in Nat
    /\ kind \in [Proc -> Kinds]
    /\ tokens \in [Stores -> Int]
    /\ \A b \in Stores : tokens[b] = Never \/ (0 <= tokens[b] /\ tokens[b] <= Full)
    /\ last \in [Stores -> Int] /\ \A b \in Stores : last[b] <= clock
    /\ stored \in Int /\ stored <= clock
    /\ sent \in [Call -> Int] /\ \A c \in Call : sent[c] <= clock
    /\ spent \in [Stores -> Int]
    /\ since \in [Stores -> Int] /\ \A b \in Stores : since[b] <= clock
    /\ lag \in [Stores -> Int] /\ \A b \in Stores : lag[b] >= 0
    /\ \A p \in Proc : lag[p] = 0
    /\ slip \in [Stores -> Int] /\ \A b \in Stores : slip[b] >= 0
    /\ due \in [Stores -> Int]

(***************************************************************************)
(* What bucket b may still give out by time t, on top of what it gave,     *)
(* stays within the promise.  Times before clock - lag only come to matter *)
(* when an older call arrives, and then count as lag.                      *)
(***************************************************************************)
Reaches(b, t) ==
    spent[b] + Least(Full, tokens[b] + Gain * (t - last[b]))
        <= Full + Gain * (t - since[b] + lag[b] + slip[b])

Promised ==
    \A b \in Stores : tokens[b] # Never =>
        \A t \in Int : (t >= last[b] /\ t >= clock - lag[b]) => Reaches(b, t)

\* A bucket that Redis dropped had been full for long enough.
Forgotten ==
    tokens[Shared] = Never =>
        spent[Shared] <= Gain * (clock - since[Shared] + lag[Shared] + slip[Shared])

\* The shared bucket was stored no earlier than the clock of the call that did it.
StoredLater == last[Shared] <= stored

\* By the soonest return a refused caller was given, there is a token.
Owed ==
    \A b \in Stores : (due[b] # Never /\ tokens[b] # Never) =>
        tokens[b] + Gain * (due[b] - last[b]) >= Unit

IInv == Shape /\ StoredLater /\ Promised /\ Forgotten /\ LimitHolds /\ Owed

-----------------------------------------------------------------------------
\* A full bucket holds a token.
LEMMA FullFact == Full \in Nat /\ Full >= Unit /\ Unit > 0 /\ Gain > 0
<1>1. Burst \in Nat /\ Unit \in Nat /\ Burst >= 1 /\ Unit >= 1 /\ Gain >= 1
  BY LimitAssumption
<1>2. Burst * Unit \in Nat /\ Burst * Unit >= Unit
  BY <1>1, SMTT(30)
<1> QED BY <1>1, <1>2, LimitAssumption DEF Full

\* Later times refill more.
LEMMA GainMonotone ==
    ASSUME NEW a \in Int, NEW b \in Int, a <= b
    PROVE  Gain * a \in Int /\ Gain * b \in Int /\ Gain * a <= Gain * b
<1>1. Gain \in Int /\ Gain >= 1 BY LimitAssumption
<1>2. \E n \in Nat : b = a + n
  <2>1. b - a \in Nat /\ b = a + (b - a) OBVIOUS
  <2> QED BY <2>1
<1>3. PICK n \in Nat : b = a + n BY <1>2
<1>4. Gain * b = Gain * a + Gain * n BY <1>1, <1>3, SMTT(30)
<1>5. Gain * n >= 0 BY <1>1, SMTT(30)
<1> QED BY <1>1, <1>4, <1>5

\* What refills in two spans is what refills in both together.
LEMMA GainSplit ==
    ASSUME NEW a \in Int, NEW b \in Int
    PROVE  /\ Gain * a \in Int /\ Gain * b \in Int
           /\ Gain * (a + b) = Gain * a + Gain * b
           /\ Gain * (a - b) = Gain * a - Gain * b
<1>1. Gain \in Int BY LimitAssumption
<1> QED BY <1>1, SMTT(30)

\* No time, no refill.
LEMMA GainNothing == Gain * 0 = 0
BY LimitAssumption

\* The wait is long enough for the units that are short.
LEMMA WaitFact ==
    ASSUME NEW short \in Nat
    PROVE  retry_after(short) \in Nat /\ Gain * retry_after(short) >= short
<1>1. Gain \in Nat /\ Gain >= 1 BY LimitAssumption
<1>2. short \div Gain \in Int /\ short = Gain * (short \div Gain) + (short % Gain)
      /\ 0 <= short % Gain /\ short % Gain < Gain
  BY <1>1, SMTT(30)
<1>3. short \div Gain >= 0 BY <1>1, SMTT(30)
<1>4. Gain * (short \div Gain + 1) = Gain * (short \div Gain) + Gain
  BY <1>1, <1>2, SMTT(30)
<1> QED BY <1>1, <1>2, <1>3, <1>4 DEF retry_after

-----------------------------------------------------------------------------
\* The invariant holds where nothing has a bucket yet (LimitInit).
LEMMA Initially == LimitInit => IInv
<1> SUFFICES ASSUME LimitInit PROVE IInv OBVIOUS
<1>1. Shape
  BY FullFact DEF LimitInit, Shape, Kinds, Stores, Never
<1>2. StoredLater
  BY DEF LimitInit, StoredLater, Stores
<1>3. \A b \in Stores : spent[b] = 0 /\ tokens[b] = Never /\ due[b] = Never
                        /\ since[b] = 0 /\ lag[b] = 0 /\ slip[b] = 0 /\ clock = 0
  BY DEF LimitInit
<1>4. Promised /\ Owed
  BY <1>3 DEF Promised, Owed
<1>5. Forgotten
  <2>1. Gain * 0 = 0 BY LimitAssumption
  <2>2. spent[Shared] = 0 /\ clock - since[Shared] + lag[Shared] + slip[Shared] = 0
    BY <1>3 DEF Stores
  <2> QED BY <2>1, <2>2 DEF Forgotten
<1>6. LimitHolds
  <2> SUFFICES ASSUME NEW b \in Stores
               PROVE spent[b] <= Full + Gain * (clock - since[b] + lag[b] + slip[b])
    BY DEF LimitHolds
  <2>1. clock - since[b] + lag[b] + slip[b] \in Nat
    BY <1>3
  <2>2. Gain * (clock - since[b] + lag[b] + slip[b]) >= 0
    BY <2>1, GainMonotone, GainNothing
  <2> QED BY <1>3, <2>1, <2>2, FullFact, GainMonotone
<1> QED BY <1>1, <1>2, <1>4, <1>5, <1>6 DEF IInv

(***************************************************************************)
(* A bucket that is settled at `now` keeps the promise from then on, if    *)
(* what it held did.                                                       *)
(***************************************************************************)
LEMMA SettleKeeps ==
    ASSUME Shape, NEW b \in Stores, NEW has \in Int, NEW now \in Int,
           0 <= has, has <= Full, now <= clock, Settle(b, has, now),
           since' = since, clock' = clock, slip' \in [Stores -> Int],
           slip[b] <= slip'[b], lag' \in [Stores -> Int], lag[b] <= lag'[b],
           spent[b] + has <= Full + Gain * (now - since[b] + lag'[b] + slip'[b]),
           spent[b] <= Full + Gain * (clock - since[b] + lag[b] + slip[b])
    PROVE  /\ \A t \in Int : t >= now => Reaches(b, t)'
           /\ spent'[b] <= Full + Gain * (clock' - since'[b] + lag'[b] + slip'[b])
           /\ 0 <= tokens'[b] /\ tokens'[b] <= Full /\ tokens'[b] \in Int
           /\ last'[b] = now
           /\ spent' \in [Stores -> Int] /\ tokens' \in [Stores -> Int]
           /\ last' \in [Stores -> Int] /\ due' \in [Stores -> Int]
           /\ \A x \in Stores \ {b} : tokens'[x] = tokens[x] /\ last'[x] = last[x]
                                       /\ spent'[x] = spent[x] /\ due'[x] = due[x]
<1> DEFINE room == now - since[b] + lag'[b] + slip'[b]
<1>1. lag[b] \in Int /\ lag'[b] \in Int /\ room \in Int /\ Unit \in Int /\ Full \in Int
      /\ spent[b] \in Int /\ since[b] \in Int
  BY LimitAssumption, FullFact DEF Shape
<1>2. spent'[b] + tokens'[b] = spent[b] + has /\ last'[b] = now
      /\ tokens'[b] \in Int /\ 0 <= tokens'[b] /\ tokens'[b] <= has
      /\ spent'[b] \in Int /\ (spent'[b] = spent[b] \/ spent'[b] <= spent[b] + has)
  BY <1>1, FullFact DEF Settle, Shape
<1>3. ASSUME NEW t \in Int, t >= now PROVE Reaches(b, t)'
  <2>1. Gain * (room + (t - now)) = Gain * room + Gain * (t - now)
        /\ Gain * room \in Int /\ Gain * (t - now) \in Int
    <3> DEFINE more == t - now
    <3>1. room \in Int /\ more \in Int BY <1>1
    <3> HIDE DEF room, more
    <3>2. Gain * room \in Int /\ Gain * more \in Int
          /\ Gain * (room + more) = Gain * room + Gain * more
      BY <3>1, GainSplit
    <3> QED BY <3>2 DEF more
  <2>2. room + (t - now) = t - since[b] + lag'[b] + slip'[b]
    BY <1>1
  <2>3. Least(Full, tokens'[b] + Gain * (t - last'[b])) <= tokens'[b] + Gain * (t - now)
    BY <1>1, <1>2, <2>1 DEF Least
  <2>4. Least(Full, tokens'[b] + Gain * (t - last'[b])) \in Int
    BY <1>1, <1>2, <2>1 DEF Least
  <2>5. spent'[b] + Least(Full, tokens'[b] + Gain * (t - last'[b]))
            <= Full + Gain * (t - since[b] + lag'[b] + slip'[b])
    BY <1>1, <1>2, <2>1, <2>2, <2>3, <2>4
  <2> QED BY <2>5, FullFact DEF Reaches
<1>4. spent'[b] <= Full + Gain * (clock' - since'[b] + lag'[b] + slip'[b])
  <2>1. room <= clock - since[b] + lag'[b] + slip'[b]
        /\ clock - since[b] + lag[b] + slip[b] <= clock - since[b] + lag'[b] + slip'[b]
        /\ clock - since[b] + lag'[b] + slip'[b] \in Int
        /\ clock - since[b] + lag[b] + slip[b] \in Int
    BY <1>1 DEF Shape
  <2>2. Gain * room <= Gain * (clock - since[b] + lag'[b] + slip'[b])
        /\ Gain * room \in Int /\ Gain * (clock - since[b] + lag'[b] + slip'[b]) \in Int
    BY <1>1, <2>1, GainMonotone
  <2>3. Gain * (clock - since[b] + lag[b] + slip[b])
            <= Gain * (clock - since[b] + lag'[b] + slip'[b])
        /\ Gain * (clock - since[b] + lag[b] + slip[b]) \in Int
    BY <2>1, GainMonotone
  <2>4. spent'[b] <= Full + Gain * (clock - since[b] + lag'[b] + slip'[b])
    BY <1>1, <1>2, <2>2, <2>3
  <2> QED BY <2>4
<1>5. due' \in [Stores -> Int]
  <2>1. Unit - has \in Int BY <1>1
  <2>2. has >= Unit \/ retry_after(Unit - has) \in Int
    BY <1>1, <2>1, WaitFact
  <2> QED BY <2>2 DEF Settle, Shape, Never, Soonest, Least
<1>6. spent' \in [Stores -> Int] /\ tokens' \in [Stores -> Int] /\ last' \in [Stores -> Int]
  BY <1>1 DEF Settle, Shape
<1>7. \A x \in Stores \ {b} : tokens'[x] = tokens[x] /\ last'[x] = last[x]
                              /\ spent'[x] = spent[x] /\ due'[x] = due[x]
  BY DEF Settle, Shape
<1> QED BY <1>1, <1>2, <1>3, <1>4, <1>5, <1>6, <1>7

\* The wait a refused caller is told brings it to a token.
LEMMA SettleOwes ==
    ASSUME Shape, NEW b \in Stores, NEW has \in Int, NEW now \in Int, Settle(b, has, now),
           (due[b] # Never /\ has < Unit) => has + Gain * (due[b] - now) >= Unit
    PROVE  due'[b] # Never => tokens'[b] + Gain * (due'[b] - last'[b]) >= Unit
<1>1. Unit \in Int /\ due[b] \in Int BY LimitAssumption DEF Shape
<1>2. CASE has >= Unit
  BY <1>2 DEF Settle, Shape, Never
<1>3. CASE has < Unit
  <2> DEFINE wait == retry_after(Unit - has)
  <2>1. Unit - has \in Nat BY <1>1, <1>3
  <2>2. wait \in Nat /\ Gain * wait >= Unit - has BY <2>1, WaitFact
  <2>3. Gain * wait \in Int BY <2>2, GainMonotone
  <2>4. tokens'[b] = has /\ last'[b] = now
        /\ due'[b] = Soonest(due[b], now + wait)
    BY <1>1, <1>3 DEF Settle, Shape
  <2> HIDE DEF wait
  <2>5. due'[b] = now + wait \/ (due'[b] = due[b] /\ due[b] # Never)
    BY <2>4 DEF Soonest, Least
  <2>6. (now + wait) - now = wait BY <2>2
  <2>7. has + Gain * ((now + wait) - now) >= Unit BY <1>1, <2>2, <2>3, <2>6
  <2> QED BY <1>3, <2>4, <2>5, <2>7
<1> QED BY <1>1, <1>2, <1>3

-----------------------------------------------------------------------------
\* What each action keeps.
LEMMA FillKeeps ==
    ASSUME IInv, NEW p \in Proc, Fill(p) PROVE IInv'
<1>1. p \in Stores /\ p # Shared /\ Shared \in Stores BY LimitAssumption DEF Stores
<1>2. Full \in Nat /\ Unit \in Nat /\ Full >= Unit /\ Unit > 0 BY FullFact, LimitAssumption
<1>3. /\ tokens' = [tokens EXCEPT ![p] = Full - Unit] /\ last' = [last EXCEPT ![p] = clock]
      /\ spent' = [spent EXCEPT ![p] = Unit] /\ since' = [since EXCEPT ![p] = clock]
      /\ due' = [due EXCEPT ![p] = Never]
      /\ UNCHANGED <<clock, kind, stored, sent, lag, slip>>
  BY DEF Fill
<1>4. Shape'
  BY <1>1, <1>2, <1>3 DEF IInv, Shape, Never
<1>5. StoredLater' /\ Forgotten'
  BY <1>1, <1>3 DEF IInv, Shape, StoredLater, Forgotten
<1>6. /\ tokens'[p] = Full - Unit /\ last'[p] = clock /\ spent'[p] = Unit
      /\ since'[p] = clock /\ due'[p] = Never /\ slip'[p] = slip[p] /\ slip[p] \in Int
      /\ slip[p] >= 0 /\ clock \in Int /\ lag[p] = 0 /\ lag'[p] = 0
  BY <1>1, <1>3 DEF IInv, Shape
<1>7. \A t \in Int : t >= clock => Reaches(p, t)'
  <2> SUFFICES ASSUME NEW t \in Int, t >= clock
               PROVE  Unit + Least(Full, (Full - Unit) + Gain * (t - clock))
                          <= Full + Gain * (t - clock + 0 + slip[p])
    BY <1>3, <1>6 DEF Reaches, Full
  <2>1. t - clock \in Int /\ t - clock + 0 + slip[p] \in Int
        /\ t - clock <= t - clock + 0 + slip[p]
    BY <1>6
  <2>2. Gain * (t - clock) \in Int /\ Gain * (t - clock + 0 + slip[p]) \in Int
        /\ Gain * (t - clock) <= Gain * (t - clock + 0 + slip[p])
    BY <2>1, GainMonotone
  <2> QED BY <1>2, <2>2 DEF Least
<1>8. spent'[p] <= Full + Gain * (clock' - since'[p] + lag'[p] + slip'[p])
  <2> DEFINE span == clock' - since'[p] + lag'[p] + slip'[p]
  <2>1. span \in Int /\ 0 <= span BY <1>3, <1>6
  <2> HIDE DEF span
  <2>2. Gain * span \in Int /\ Gain * span >= 0 BY <2>1, GainMonotone, GainNothing
  <2>3. spent'[p] <= Full + Gain * span BY <1>2, <1>6, <2>2
  <2> QED BY <2>3 DEF span
<1>9. \A b \in Stores \ {p} :
          /\ tokens'[b] = tokens[b] /\ last'[b] = last[b] /\ spent'[b] = spent[b]
          /\ since'[b] = since[b] /\ lag'[b] = lag[b] /\ slip'[b] = slip[b] /\ due'[b] = due[b]
  BY <1>3 DEF IInv, Shape
<1>10. Promised'
  BY <1>3, <1>6, <1>7, <1>9 DEF IInv, Promised, Reaches
<1>11. LimitHolds'
  BY <1>3, <1>8, <1>9 DEF IInv, LimitHolds
<1>12. Owed'
  BY <1>6, <1>9 DEF IInv, Owed
<1> QED BY <1>4, <1>5, <1>10, <1>11, <1>12 DEF IInv

\* A check of a process's own bucket keeps it: what is taken was there or was refilled
\* (RateLimiter._consume).
LEMMA ConsumeKeeps ==
    ASSUME IInv, NEW p \in Proc, Consume(p) PROVE IInv'
<1> DEFINE has == refill(tokens[p], clock - last[p])
<1>1. p \in Stores /\ p # Shared /\ Shared \in Stores BY LimitAssumption DEF Stores
<1>2. Full \in Nat /\ Unit \in Nat /\ Full >= Unit /\ Unit > 0 BY FullFact, LimitAssumption
<1>3. Settle(p, has, clock) /\ UNCHANGED <<clock, kind, stored, sent, since, lag, slip>>
      /\ tokens[p] # Never
  BY DEF Consume
<1>4. tokens[p] \in Int /\ 0 <= tokens[p] /\ clock \in Int /\ last[p] \in Int
      /\ last[p] <= clock /\ lag[p] = 0 /\ spent[p] \in Int /\ slip[p] \in Int
      /\ since[p] \in Int /\ due[p] \in Int
  BY <1>1, <1>3 DEF IInv, Shape
<1>5. Gain * (clock - last[p]) \in Int /\ Gain * (clock - last[p]) >= 0
  <2>1. clock - last[p] \in Int /\ 0 <= clock - last[p] BY <1>4
  <2> QED BY <2>1, GainMonotone, GainNothing
<1>6. has \in Int /\ 0 <= has /\ has <= Full
      /\ has = Least(Full, tokens[p] + Gain * (clock - last[p]))
  BY <1>2, <1>4, <1>5 DEF refill, Least
<1>7. spent[p] + has <= Full + Gain * (clock - since[p] + lag'[p] + slip'[p])
  <2>1. Reaches(p, clock)
    BY <1>1, <1>3, <1>4 DEF IInv, Promised
  <2> QED BY <1>3, <1>6, <2>1 DEF Reaches
<1>8. spent[p] <= Full + Gain * (clock - since[p] + lag[p] + slip[p])
  BY <1>1 DEF IInv, LimitHolds
<1>9. (due[p] # Never /\ has < Unit) => has + Gain * (due[p] - clock) >= Unit
  <2> SUFFICES ASSUME due[p] # Never, has < Unit
               PROVE  has + Gain * (due[p] - clock) >= Unit
    OBVIOUS
  <2> DEFINE x == clock - last[p]
             y == due[p] - clock
  <2>1. has = tokens[p] + Gain * x BY <1>2, <1>4, <1>5, <1>6 DEF Least
  <2>2. tokens[p] + Gain * (due[p] - last[p]) >= Unit
    BY <1>1, <1>3 DEF IInv, Owed
  <2>3. x \in Int /\ y \in Int /\ due[p] - last[p] = x + y BY <1>4
  <2>4. tokens[p] + Gain * (x + y) >= Unit BY <2>2, <2>3
  <2> HIDE DEF x, y, has
  <2>5. Gain * x \in Int /\ Gain * y \in Int /\ Gain * (x + y) = Gain * x + Gain * y
    BY <2>3, GainSplit
  <2>6. has + Gain * y >= Unit BY <1>2, <1>4, <2>1, <2>4, <2>5
  <2> QED BY <2>6 DEF y
<1> HIDE DEF has
<1>10. slip' \in [Stores -> Int] /\ slip[p] <= slip'[p]
       /\ lag' \in [Stores -> Int] /\ lag[p] <= lag'[p] /\ Shape /\ since' = since /\ clock' = clock
  BY <1>3, <1>4 DEF IInv, Shape
<1>11. /\ \A t \in Int : t >= clock => Reaches(p, t)'
       /\ spent'[p] <= Full + Gain * (clock' - since'[p] + lag'[p] + slip'[p])
       /\ 0 <= tokens'[p] /\ tokens'[p] <= Full /\ last'[p] = clock
       /\ spent' \in [Stores -> Int] /\ tokens' \in [Stores -> Int]
       /\ last' \in [Stores -> Int] /\ due' \in [Stores -> Int]
       /\ \A x \in Stores \ {p} : tokens'[x] = tokens[x] /\ last'[x] = last[x]
                                   /\ spent'[x] = spent[x] /\ due'[x] = due[x]
  BY <1>1, <1>3, <1>4, <1>6, <1>7, <1>8, <1>10, SettleKeeps
<1>12. due'[p] # Never => tokens'[p] + Gain * (due'[p] - last'[p]) >= Unit
  BY <1>1, <1>3, <1>4, <1>6, <1>9, <1>10, SettleOwes
<1>13. Shape'
  BY <1>1, <1>3, <1>4, <1>11 DEF IInv, Shape
<1>14. StoredLater' /\ Forgotten'
  BY <1>1, <1>3, <1>11 DEF IInv, StoredLater, Forgotten
<1>15. Promised'
  BY <1>3, <1>11 DEF IInv, Promised, Reaches
<1>16. LimitHolds'
  BY <1>3, <1>11 DEF IInv, LimitHolds
<1>17. Owed'
  BY <1>11, <1>12 DEF IInv, Owed
<1> QED BY <1>13, <1>14, <1>15, <1>16, <1>17 DEF IInv

\* What a script finds and does.
LEMMA ScriptFacts ==
    ASSUME IInv, NEW c \in Call, Script(c)
    PROVE  \E now, has \in Int, elapsed, back \in Nat :
              /\ now <= clock
              /\ elapsed = IF tokens[Shared] # Never /\ now > last[Shared]
                           THEN now - last[Shared] ELSE 0
              /\ has = IF tokens[Shared] # Never THEN refill(tokens[Shared], elapsed) ELSE Full
              /\ Settle(Shared, has, now)
              /\ tokens[Shared] = Never => back = clock - now
              /\ now < last[Shared] /\ tokens[Shared] # Never => back = last[Shared] - now
              /\ slip' = [slip EXCEPT ![Shared] = @ + back]
              /\ lag' = [lag EXCEPT ![Shared] = Most(@, clock - now)]
<1> DEFINE now == sent[c]
           known == tokens[Shared] # Never
           elapsed == IF known /\ now > last[Shared] THEN now - last[Shared] ELSE 0
           has == IF known THEN refill(tokens[Shared], elapsed) ELSE Full
           back == CASE ~known -> clock - now
                     [] known /\ now < last[Shared] -> last[Shared] - now
                     [] OTHER -> 0
<1>1. now \in Int /\ now <= clock /\ last[Shared] \in Int /\ clock \in Nat
      /\ tokens[Shared] \in Int /\ Full \in Nat
  BY FullFact DEF IInv, Shape, Stores
<1>2. elapsed \in Nat BY <1>1
<1>3. has \in Int
  <2> HIDE DEF elapsed
  <2> QED BY <1>1, <1>2, GainMonotone DEF refill, Least
<1>4. back \in Nat /\ (~known => back = clock - now)
      /\ (now < last[Shared] /\ known => back = last[Shared] - now)
  BY <1>1
<1>5. /\ Settle(Shared, has, now)
      /\ slip' = [slip EXCEPT ![Shared] = @ + back]
      /\ lag' = [lag EXCEPT ![Shared] = Most(@, clock - now)]
  BY DEF Script
<1> HIDE DEF back
<1> QED BY <1>1, <1>2, <1>3, <1>4, <1>5

\* So does the script in Redis, with a clock that may be old or be overtaken
\* (_REFILL_AND_CONSUME).  What it finds in the bucket was accounted for at the
\* time of the call, of the last refill or of the oldest call so far, whichever
\* is latest.
LEMMA ScriptKeeps ==
    ASSUME IInv, NEW c \in Call, Script(c) PROVE IInv'
<1> DEFINE S == Shared
<1>1. S \in Stores /\ S \notin Proc BY LimitAssumption DEF Stores
<1>2. Full \in Nat /\ Unit \in Nat /\ Full >= Unit /\ Unit > 0 BY FullFact, LimitAssumption
<1>3. PICK now, has \in Int, elapsed, back \in Nat :
          /\ now <= clock
          /\ elapsed = IF tokens[Shared] # Never /\ now > last[Shared]
                       THEN now - last[Shared] ELSE 0
          /\ has = IF tokens[Shared] # Never THEN refill(tokens[Shared], elapsed) ELSE Full
          /\ Settle(Shared, has, now)
          /\ tokens[Shared] = Never => back = clock - now
          /\ now < last[Shared] /\ tokens[Shared] # Never => back = last[Shared] - now
          /\ slip' = [slip EXCEPT ![Shared] = @ + back]
          /\ lag' = [lag EXCEPT ![Shared] = Most(@, clock - now)]
  BY ScriptFacts
<1>4. stored' = clock /\ sent' = [sent EXCEPT ![c] = Never] /\ UNCHANGED <<clock, kind, since>>
  BY DEF Script
<1>5. clock \in Nat /\ last[S] \in Int /\ last[S] <= clock
      /\ spent[S] \in Int /\ since[S] \in Int /\ slip[S] \in Int /\ slip[S] >= 0
      /\ lag[S] \in Int /\ lag[S] >= 0 /\ tokens[S] \in Int /\ due[S] \in Int
      /\ (tokens[S] # Never => (0 <= tokens[S] /\ tokens[S] <= Full))
  BY <1>1 DEF IInv, Shape
<1>6. Gain * elapsed \in Int /\ Gain * elapsed >= 0
  BY GainMonotone, GainNothing
<1>7. has \in Int /\ 0 <= has /\ has <= Full
  BY <1>2, <1>3, <1>5, <1>6 DEF refill, Least
<1>8. /\ slip' \in [Stores -> Int] /\ slip'[S] = slip[S] + back /\ slip[S] <= slip'[S]
      /\ lag' \in [Stores -> Int] /\ lag[S] <= lag'[S] /\ clock - now <= lag'[S]
      /\ \A b \in Stores \ {S} : slip'[b] = slip[b] /\ lag'[b] = lag[b]
      /\ slip'[S] \in Int /\ lag'[S] \in Int
  BY <1>1, <1>3, <1>5 DEF IInv, Shape, Most
<1>9. spent[S] + has <= Full + Gain * (now - since[S] + lag'[S] + slip'[S])
  <2> DEFINE room == now - since[S] + lag'[S] + slip'[S]
  <2>0. room \in Int /\ Gain * room \in Int
    <3>1. room \in Int BY <1>3, <1>5, <1>8
    <3> HIDE DEF room
    <3> QED BY <3>1, GainMonotone
  <2>1. CASE tokens[S] = Never
    <3> DEFINE was == clock - since[S] + lag[S] + slip[S]
    <3>1. spent[S] <= Gain * was
      BY <2>1 DEF IInv, Forgotten
    <3>2. was \in Int /\ was <= room
      BY <1>3, <1>5, <1>8, <2>1
    <3> HIDE DEF was, room
    <3>3. Gain * was \in Int /\ Gain * was <= Gain * room
      BY <2>0, <3>2, GainMonotone
    <3>4. has = Full BY <1>3, <2>1
    <3>5. spent[S] + has <= Full + Gain * room
      BY <1>2, <1>5, <2>0, <3>1, <3>3, <3>4
    <3> QED BY <3>5 DEF room
  <2>2. CASE tokens[S] # Never
    <3>1. PICK t \in Int :
             /\ t >= now /\ t >= last[S] /\ t >= clock - lag[S]
             /\ t - since[S] + lag[S] + slip[S] <= room
      <4>1. CASE now >= last[S] /\ now >= clock - lag[S]
        BY <1>3, <1>5, <1>8, <4>1
      <4>2. CASE last[S] > now /\ last[S] >= clock - lag[S]
        BY <1>3, <1>5, <1>8, <2>2, <4>2
      <4>3. CASE clock - lag[S] > now /\ clock - lag[S] >= last[S]
        BY <1>3, <1>5, <1>8, <4>3
      <4> QED BY <1>3, <1>5, <4>1, <4>2, <4>3
    <3> DEFINE ago == t - last[S]
               was == t - since[S] + lag[S] + slip[S]
    <3>2. ago \in Int /\ was \in Int /\ was <= room /\ elapsed <= ago
      BY <1>3, <1>5, <3>1
    <3>3. spent[S] + Least(Full, tokens[S] + Gain * ago) <= Full + Gain * was
      BY <1>1, <2>2, <3>1 DEF IInv, Promised, Reaches
    <3> HIDE DEF ago, was, room
    <3>4. Gain * ago \in Int /\ Gain * elapsed <= Gain * ago
          /\ Gain * was \in Int /\ Gain * was <= Gain * room
      BY <2>0, <3>2, GainMonotone
    <3>5. has = Least(Full, tokens[S] + Gain * elapsed)
      BY <1>3, <2>2 DEF refill
    <3>6. spent[S] + has <= Full + Gain * room
      BY <1>2, <1>5, <1>6, <1>7, <2>0, <3>3, <3>4, <3>5 DEF Least
    <3> QED BY <3>6 DEF room
  <2> QED BY <2>1, <2>2
<1>10. spent[S] <= Full + Gain * (clock - since[S] + lag[S] + slip[S])
  BY <1>1 DEF IInv, LimitHolds
<1>11. ASSUME due[S] # Never, has < Unit PROVE has + Gain * (due[S] - now) >= Unit
  <2>1. tokens[S] # Never BY <1>2, <1>3, <1>11
  <2>2. tokens[S] + Gain * (due[S] - last[S]) >= Unit
    BY <1>1, <1>11, <2>1 DEF IInv, Owed
  <2>3. has = tokens[S] + Gain * elapsed
    BY <1>2, <1>3, <1>5, <1>6, <1>11, <2>1 DEF refill, Least
  <2>4. PICK x \in Int : x = due[S] - now BY <1>3, <1>5
  <2>5. due[S] - last[S] \in Int /\ due[S] - last[S] <= elapsed + x /\ elapsed + x \in Int
    BY <1>3, <1>5, <2>1, <2>4
  <2>6. Gain * (due[S] - last[S]) \in Int /\ Gain * (elapsed + x) \in Int
        /\ Gain * (due[S] - last[S]) <= Gain * (elapsed + x)
    BY <2>5, GainMonotone
  <2>7. Gain * x \in Int /\ Gain * (elapsed + x) = Gain * elapsed + Gain * x
    BY GainSplit
  <2>8. has + Gain * x >= Unit BY <1>2, <1>5, <1>6, <2>2, <2>3, <2>6, <2>7
  <2> QED BY <2>4, <2>8
<1>12. Shape /\ since' = since /\ clock' = clock BY <1>4 DEF IInv
<1>13. Settle(S, has, now) /\ now <= clock BY <1>3
<1>14. /\ \A t \in Int : t >= now => Reaches(S, t)'
       /\ spent'[S] <= Full + Gain * (clock' - since'[S] + lag'[S] + slip'[S])
       /\ 0 <= tokens'[S] /\ tokens'[S] <= Full /\ last'[S] = now
       /\ spent' \in [Stores -> Int] /\ tokens' \in [Stores -> Int]
       /\ last' \in [Stores -> Int] /\ due' \in [Stores -> Int]
       /\ \A x \in Stores \ {S} : tokens'[x] = tokens[x] /\ last'[x] = last[x]
                                   /\ spent'[x] = spent[x] /\ due'[x] = due[x]
  <2> HIDE DEF S
  <2> QED BY <1>1, <1>7, <1>8, <1>9, <1>10, <1>12, <1>13, SettleKeeps
<1>15. due'[S] # Never => tokens'[S] + Gain * (due'[S] - last'[S]) >= Unit
  <2> HIDE DEF S
  <2> QED BY <1>1, <1>7, <1>11, <1>12, <1>13, SettleOwes
<1>16. Shape'
  <2>1. \A b \in Stores : /\ tokens'[b] = Never \/ (0 <= tokens'[b] /\ tokens'[b] <= Full)
                          /\ last'[b] <= clock
    BY <1>3, <1>14 DEF IInv, Shape
  <2>2. /\ \A b \in Stores : slip'[b] >= 0 /\ lag'[b] >= 0
        /\ \A p \in Proc : lag'[p] = 0
    BY <1>1, <1>3, <1>5, <1>8 DEF IInv, Shape, Stores
  <2>3. sent' \in [Call -> Int] /\ \A x \in Call : sent'[x] <= clock
    BY <1>4, <1>5 DEF IInv, Shape, Never
  <2> QED BY <1>4, <1>5, <1>8, <1>14, <2>1, <2>2, <2>3 DEF IInv, Shape
<1>17. StoredLater' /\ Forgotten'
  <2>1. tokens'[S] # Never BY <1>14 DEF Never
  <2>2. last'[S] <= stored' BY <1>3, <1>4, <1>14
  <2> QED BY <2>1, <2>2 DEF StoredLater, Forgotten
<1>18. Promised'
  BY <1>4, <1>8, <1>14 DEF IInv, Promised, Reaches
<1>19. LimitHolds'
  BY <1>4, <1>8, <1>14 DEF IInv, LimitHolds
<1>20. Owed'
  BY <1>14, <1>15 DEF IInv, Owed
<1> QED BY <1>16, <1>17, <1>18, <1>19, <1>20 DEF IInv

\* A bucket Redis forgets would have been full again: the next one gives no more away.
LEMMA ExpireKeeps ==
    ASSUME IInv, Expire PROVE IInv'
<1>1. Shared \in Stores /\ Ttl \in Nat BY LimitAssumption DEF Stores
<1>2. /\ tokens[Shared] # Never /\ clock - stored >= Ttl
      /\ tokens' = [tokens EXCEPT ![Shared] = Never]
      /\ UNCHANGED <<clock, kind, last, stored, sent, spent, since, lag, slip, due>>
  BY DEF Expire
<1>3. clock \in Nat /\ last[Shared] \in Int /\ stored \in Int /\ last[Shared] <= stored
      /\ spent[Shared] \in Int /\ since[Shared] \in Int /\ slip[Shared] \in Int
      /\ lag[Shared] \in Int /\ lag[Shared] >= 0 /\ tokens[Shared] \in Int /\ 0 <= tokens[Shared] /\ Full \in Nat
  BY <1>1, <1>2, FullFact DEF IInv, Shape, StoredLater
<1> DEFINE ago == clock - last[Shared]
           span == clock - since[Shared] + lag[Shared] + slip[Shared]
<1>4. ago \in Int /\ Ttl <= ago /\ span \in Int /\ clock >= last[Shared]
      /\ clock >= clock - lag[Shared]
  BY <1>1, <1>2, <1>3
<1>5. spent[Shared] + Least(Full, tokens[Shared] + Gain * ago) <= Full + Gain * span
  <2>1. Reaches(Shared, clock) BY <1>1, <1>2, <1>3, <1>4 DEF IInv, Promised
  <2> QED BY <2>1 DEF Reaches
<1> HIDE DEF ago, span
<1>6. Gain * ago \in Int /\ Gain * ago >= Full
  <2>1. Gain * Ttl \in Int /\ Gain * ago \in Int /\ Gain * Ttl <= Gain * ago
    BY <1>1, <1>4, GainMonotone
  <2>2. Gain * Ttl >= Full BY LimitAssumption DEF Full
  <2> QED BY <1>3, <2>1, <2>2
<1>7. Least(Full, tokens[Shared] + Gain * ago) = Full
  BY <1>3, <1>6 DEF Least
<1>8. Gain * span \in Int BY <1>4, GainMonotone
<1>9. spent[Shared] <= Gain * span
  BY <1>3, <1>5, <1>7, <1>8
<1>10. tokens'[Shared] = Never /\ spent'[Shared] = spent[Shared]
       /\ clock' - since'[Shared] + lag'[Shared] + slip'[Shared] = span
  BY <1>1, <1>2 DEF IInv, Shape, span
<1>11. spent'[Shared] <= Gain * (clock' - since'[Shared] + lag'[Shared] + slip'[Shared])
  BY <1>9, <1>10
<1>12. Shape' BY <1>1, <1>2 DEF IInv, Shape, Never
<1>13. StoredLater' /\ Forgotten' BY <1>2, <1>11 DEF IInv, StoredLater, Forgotten
<1>14. \A b \in Stores : tokens'[b] # Never => tokens'[b] = tokens[b]
  BY <1>2 DEF IInv, Shape
<1>15. Promised' BY <1>2, <1>14 DEF IInv, Promised, Reaches
<1>16. LimitHolds' BY <1>2 DEF IInv, LimitHolds
<1>17. Owed' BY <1>2, <1>14 DEF IInv, Owed
<1> QED BY <1>12, <1>13, <1>15, <1>16, <1>17 DEF IInv

\* Time only widens what may have been given out.
LEMMA TickKeeps ==
    ASSUME IInv, Tick PROVE IInv'
<1>1. clock' = clock + 1
      /\ UNCHANGED <<kind, tokens, last, stored, sent, spent, since, lag, slip, due>>
  BY DEF Tick
<1>2. clock \in Nat /\ Full \in Nat BY LimitAssumption, FullFact DEF IInv, Shape
<1>3. Shape' BY <1>1, <1>2 DEF IInv, Shape
<1>4. StoredLater' /\ Owed' BY <1>1 DEF IInv, StoredLater, Owed
<1>5. Promised'
  <2> SUFFICES ASSUME NEW b \in Stores, tokens'[b] # Never,
                      NEW t \in Int, t >= last'[b], t >= clock' - lag'[b]
               PROVE  spent'[b] + Least(Full, tokens'[b] + Gain * (t - last'[b]))
                          <= Full + Gain * (t - since'[b] + lag'[b] + slip'[b])
    BY DEF Promised, Reaches
  <2>1. tokens[b] # Never /\ t >= last[b]
    BY <1>1
  <2>2. t >= clock - lag[b]
    <3>1. lag[b] \in Int BY DEF IInv, Shape
    <3>2. lag'[b] = lag[b] /\ clock' = clock + 1 BY <1>1
    <3>3. t >= clock' - lag'[b] OBVIOUS
    <3> DEFINE old == lag[b]
    <3>4. t >= (clock + 1) - old BY <3>2, <3>3
    <3>5. old \in Int BY <3>1
    <3> HIDE DEF old
    <3>6. t >= clock - old BY <1>2, <3>4, <3>5
    <3> QED BY <3>6 DEF old
  <2>3. Reaches(b, t) BY <2>1, <2>2 DEF IInv, Promised
  <2> QED BY <1>1, <2>3 DEF Reaches
<1>6. Forgotten'
  <2> DEFINE x == clock - since[Shared] + lag[Shared] + slip[Shared]
             y == clock + 1 - since[Shared] + lag[Shared] + slip[Shared]
  <2>1. x \in Int /\ y \in Int /\ x <= y /\ spent[Shared] \in Int
    BY <1>2 DEF IInv, Shape, Stores
  <2>2. Gain * x \in Int /\ Gain * y \in Int /\ Gain * x <= Gain * y BY <2>1, GainMonotone
  <2>3. tokens[Shared] = Never => spent[Shared] <= Gain * x BY DEF IInv, Forgotten
  <2>4. tokens[Shared] = Never => spent[Shared] <= Gain * y BY <2>1, <2>2, <2>3
  <2>5. clock' - since'[Shared] + lag'[Shared] + slip'[Shared] = y
        /\ tokens'[Shared] = tokens[Shared] /\ spent'[Shared] = spent[Shared]
    <3>1. clock \in Int /\ since[Shared] \in Int /\ lag[Shared] \in Int
          /\ slip[Shared] \in Int
      BY DEF IInv, Shape, Stores
    <3> QED BY <1>1, <3>1
  <2> HIDE DEF y
  <2> QED BY <2>4, <2>5 DEF Forgotten
<1>7. LimitHolds'
  <2> SUFFICES ASSUME NEW b \in Stores
               PROVE  spent'[b] <= Full + Gain * (clock' - since'[b] + lag'[b] + slip'[b])
    BY DEF LimitHolds
  <2> DEFINE x == clock - since[b] + lag[b] + slip[b]
             y == clock + 1 - since[b] + lag[b] + slip[b]
  <2>1. x \in Int /\ y \in Int /\ x <= y /\ spent[b] \in Int
    BY <1>2 DEF IInv, Shape
  <2>2. Gain * x \in Int /\ Gain * y \in Int /\ Gain * x <= Gain * y BY <2>1, GainMonotone
  <2>3. spent[b] <= Full + Gain * x BY DEF IInv, LimitHolds
  <2>4. clock' - since'[b] + lag'[b] + slip'[b] = y /\ spent'[b] = spent[b]
    <3>1. clock \in Int /\ since[b] \in Int /\ slip[b] \in Int /\ lag[b] \in Int
      BY DEF IInv, Shape
    <3> QED BY <1>1, <3>1
  <2> HIDE DEF x, y
  <2>5. spent[b] <= Full + Gain * y BY <1>2, <2>1, <2>2, <2>3
  <2> QED BY <2>4, <2>5
<1> QED BY <1>3, <1>4, <1>5, <1>6, <1>7 DEF IInv

\* Whoever begins to count finds at most a full bucket.
LEMMA WatchKeeps ==
    ASSUME IInv, Watch PROVE IInv'
<1>1. /\ spent' = [b \in Stores |-> 0] /\ since' = [b \in Stores |-> clock]
      /\ lag' = [b \in Stores |-> 0] /\ slip' = [b \in Stores |-> 0]
      /\ UNCHANGED <<clock, kind, tokens, last, stored, sent, due>>
  BY DEF Watch
<1>2. clock \in Nat /\ Full \in Nat /\ Shared \in Stores
  BY LimitAssumption, FullFact DEF IInv, Shape, Stores
<1>3. Shape' BY <1>1, <1>2 DEF IInv, Shape, Stores
<1>4. StoredLater' /\ Owed' BY <1>1 DEF IInv, StoredLater, Owed
<1>5. Forgotten'
  <2>1. clock - clock + 0 + 0 = 0 BY <1>2
  <2>2. spent'[Shared] = 0 /\ clock' - since'[Shared] + lag'[Shared] + slip'[Shared] = 0
    BY <1>1, <1>2, <2>1
  <2> QED BY <2>2, GainNothing DEF Forgotten
<1>6. \A b \in Stores, t \in Int : t >= clock - 0 =>
          /\ t - clock + 0 + 0 \in Int
          /\ Gain * (t - clock + 0 + 0) \in Int /\ Gain * (t - clock + 0 + 0) >= 0
  <2> SUFFICES ASSUME NEW b \in Stores, NEW t \in Int, t >= clock - 0
               PROVE  /\ t - clock + 0 + 0 \in Int
                      /\ Gain * (t - clock + 0 + 0) \in Int
                      /\ Gain * (t - clock + 0 + 0) >= 0
    OBVIOUS
  <2>1. t - clock + 0 + 0 \in Int /\ 0 <= t - clock + 0 + 0 BY <1>2
  <2> QED BY <2>1, GainMonotone, GainNothing
<1>7. Promised'
  <2> SUFFICES ASSUME NEW b \in Stores, tokens[b] # Never, NEW t \in Int,
                      t >= last[b], t >= clock - 0
               PROVE  0 + Least(Full, tokens[b] + Gain * (t - last[b]))
                          <= Full + Gain * (t - clock + 0 + 0)
    BY <1>1 DEF Promised, Reaches
  <2>1. Gain * (t - last[b]) \in Int /\ tokens[b] \in Int
    <3>1. t - last[b] \in Int BY DEF IInv, Shape
    <3> QED BY <3>1, GainMonotone DEF IInv, Shape
  <2>2. Least(Full, tokens[b] + Gain * (t - last[b])) <= Full
        /\ Least(Full, tokens[b] + Gain * (t - last[b])) \in Int
    BY <1>2, <2>1 DEF Least
  <2>3. Gain * (t - clock + 0 + 0) \in Int /\ Gain * (t - clock + 0 + 0) >= 0
    BY <1>6
  <2> QED BY <1>2, <2>2, <2>3
<1>8. LimitHolds'
  <2> SUFFICES ASSUME NEW b \in Stores PROVE 0 <= Full + Gain * (clock - clock + 0 + 0)
    BY <1>1 DEF LimitHolds
  <2>1. clock >= clock - 0 BY <1>2
  <2> QED BY <1>2, <1>6, <2>1
<1> QED BY <1>3, <1>4, <1>5, <1>7, <1>8 DEF IInv

\* Losing a process drops its bucket and what was promised of it.
LEMMA LoseKeeps ==
    ASSUME IInv, NEW p \in Proc, Lose(p) PROVE IInv'
<1>1. p \in Stores /\ p # Shared /\ Shared \in Stores BY LimitAssumption DEF Stores
<1>2. /\ kind' = [kind EXCEPT ![p] = "none"] /\ tokens' = [tokens EXCEPT ![p] = Never]
      /\ due' = [due EXCEPT ![p] = Never]
      /\ UNCHANGED <<clock, last, stored, sent, spent, since, lag, slip>>
  BY DEF Lose
<1>3. Shape' BY <1>1, <1>2 DEF IInv, Shape, Never, Kinds
<1>4. StoredLater' /\ Forgotten' BY <1>1, <1>2 DEF IInv, Shape, StoredLater, Forgotten
<1>5. \A b \in Stores : tokens'[b] # Never => (tokens'[b] = tokens[b] /\ due'[b] = due[b])
  BY <1>2 DEF IInv, Shape
<1>6. Promised' BY <1>2, <1>5 DEF IInv, Promised, Reaches
<1>7. LimitHolds' BY <1>2 DEF IInv, LimitHolds
<1>8. Owed' BY <1>2, <1>5 DEF IInv, Owed
<1> QED BY <1>3, <1>4, <1>6, <1>7, <1>8 DEF IInv

\* Sending, failing and installing leave the buckets alone.
LEMMA BucketsStay ==
    ASSUME IInv, UNCHANGED <<clock, tokens, last, stored, spent, since, lag, slip, due>>,
           kind' \in [Proc -> Kinds], sent' \in [Call -> Int], \A c \in Call : sent'[c] <= clock
    PROVE  IInv'
<1>1. Shape' BY DEF IInv, Shape
<1>2. StoredLater' /\ Forgotten' /\ Owed' BY DEF IInv, StoredLater, Forgotten, Owed
<1>3. Promised' BY DEF IInv, Promised, Reaches
<1>4. LimitHolds' BY DEF IInv, LimitHolds
<1> QED BY <1>1, <1>2, <1>3, <1>4 DEF IInv

\* One step of any kind.
LEMMA StepKeeps ==
    ASSUME IInv, [LimitNext]_limit PROVE IInv'
<1>1. ASSUME NEW p \in Reached, Fill(p) PROVE IInv'
  BY <1>1, FillKeeps, LimitAssumption
<1>2. ASSUME NEW p \in Reached, Consume(p) PROVE IInv'
  BY <1>2, ConsumeKeeps, LimitAssumption
<1>3. ASSUME NEW p \in Proc, NEW c \in Call, Send(p, c) PROVE IInv'
  <2>1. sent' = [sent EXCEPT ![c] = clock] /\ kind' = kind
        /\ UNCHANGED <<clock, tokens, last, stored, spent, since, lag, slip, due>>
    BY <1>3 DEF Send
  <2>2. kind' \in [Proc -> Kinds] /\ sent' \in [Call -> Int] /\ \A x \in Call : sent'[x] <= clock
    BY <2>1 DEF IInv, Shape
  <2> QED BY <2>1, <2>2, BucketsStay
<1>4. ASSUME NEW c \in Call, FailOpen(c) PROVE IInv'
  <2>1. sent' = [sent EXCEPT ![c] = Never] /\ kind' = kind
        /\ UNCHANGED <<clock, tokens, last, stored, spent, since, lag, slip, due>>
    BY <1>4 DEF FailOpen
  <2>2. kind' \in [Proc -> Kinds] /\ sent' \in [Call -> Int] /\ \A x \in Call : sent'[x] <= clock
    BY <2>1 DEF IInv, Shape, Never
  <2> QED BY <2>1, <2>2, BucketsStay
<1>5. ASSUME NEW p \in Proc, NEW k \in {"in_process", "redis"}, Install(p, k) PROVE IInv'
  <2>1. kind' = [kind EXCEPT ![p] = k] /\ sent' = sent
        /\ UNCHANGED <<clock, tokens, last, stored, spent, since, lag, slip, due>>
    BY <1>5 DEF Install
  <2>2. kind' \in [Proc -> Kinds] /\ sent' \in [Call -> Int] /\ \A x \in Call : sent'[x] <= clock
    BY <2>1 DEF IInv, Shape, Kinds
  <2> QED BY <2>1, <2>2, BucketsStay
<1>6. CASE UNCHANGED limit
  <2>1. kind' = kind /\ sent' = sent
        /\ UNCHANGED <<clock, tokens, last, stored, spent, since, lag, slip, due>>
    BY <1>6 DEF limit
  <2>2. kind' \in [Proc -> Kinds] /\ sent' \in [Call -> Int] /\ \A x \in Call : sent'[x] <= clock
    BY <2>1 DEF IInv, Shape
  <2> QED BY <2>1, <2>2, BucketsStay
<1>7. Reached \subseteq Proc BY LimitAssumption
<1> QED
  BY <1>1, <1>2, <1>3, <1>4, <1>5, <1>6, <1>7, ScriptKeeps, ExpireKeeps, TickKeeps,
     WatchKeeps, LoseKeeps DEF LimitNext, Check

\* The soonest return is good, and so is any later one.
LEMMA OwedIsHonest == IInv => RetryHonest
<1> SUFFICES ASSUME IInv, NEW b \in Stores, due[b] # Never, tokens[b] # Never,
                    NEW t \in {due[b], last[b]}, t >= due[b], t >= last[b]
             PROVE  refill(tokens[b], t - last[b]) >= Unit
  BY DEF RetryHonest
<1>1. t \in Int /\ due[b] \in Int /\ last[b] \in Int /\ tokens[b] \in Int
  BY DEF IInv, Shape
<1>2. due[b] - last[b] \in Int /\ t - last[b] \in Int /\ due[b] - last[b] <= t - last[b]
  BY <1>1
<1>3. Gain * (due[b] - last[b]) \in Int /\ Gain * (t - last[b]) \in Int
      /\ Gain * (due[b] - last[b]) <= Gain * (t - last[b])
  BY <1>2, GainMonotone
<1>4. tokens[b] + Gain * (due[b] - last[b]) >= Unit BY DEF IInv, Owed
<1>5. Full \in Nat /\ Full >= Unit /\ Unit \in Nat BY FullFact, LimitAssumption
<1> QED BY <1>1, <1>3, <1>4, <1>5 DEF refill, Least

-----------------------------------------------------------------------------
\* The invariant on which both promises rest holds in every behaviour.
THEOREM LimitInvariant == LimitSpec => []IInv
<1>1. LimitInit => IInv BY Initially
<1>2. IInv /\ [LimitNext]_limit => IInv' BY StepKeeps
<1> QED BY <1>1, <1>2, PTL DEF LimitSpec

\* No bucket ever gives out more than a full one and what time refills
\* (rate_limit.py:95-102), for any rate, burst and number of processes, and in whatever
\* order calls to Redis arrive.
THEOREM LimitAlwaysHolds == LimitSpec => []LimitHolds
<1>1. IInv => LimitHolds BY DEF IInv
<1> QED BY <1>1, LimitInvariant, PTL

\* Retry-After never sends a caller back too early (rate_limit.py:104-106), for any rate
\* and burst, however calls overtake one another.
THEOREM RetryAlwaysHonest == LimitSpec => []RetryHonest
BY OwedIsHonest, LimitInvariant, PTL

-----------------------------------------------------------------------------
(***************************************************************************)
(* The start of a process.                                                 *)
(***************************************************************************)

Steps == {"down", "refused", "look base", "create", "look", "add", "read users", "read rules",
          "commit", "install", "serving"}
Installed == {"install", "serving"}
Reads == [part : 1..4, missing : BOOLEAN, users : BOOLEAN, rules : [Rule -> Rows]]

BootTypes ==
    /\ schema \subseteq Parts /\ users \in BOOLEAN
    /\ rules \in [Rule -> Rows] /\ alerts \subseteq AlertRows
    /\ step \in [Proc -> Steps] /\ read \in [Proc -> Reads] /\ edits \subseteq Rule

\* How far the schema must have got for process p to be where it is.
SchemaOf(p) ==
    /\ step[p] = "create" =>
          /\ ~read[p].missing => {"base", "tables"} \subseteq schema
          /\ read[p].users => "base" \in schema
    /\ step[p] \in {"look", "add"} =>
          /\ {"base", "tables"} \subseteq schema
          /\ \A i \in 1..4 : i < read[p].part => Columns[i] \in schema
    /\ step[p] \in {"read users", "read rules", "commit"} \cup Installed => schema = Parts
SchemaInv == \A p \in Proc : SchemaOf(p)

\* The accounts a start has read are still there.
UsersOf(p) ==
    /\ step[p] \in {"read rules", "commit"} => (read[p].users => users)
    /\ step[p] \in Installed => users
UsersInv == \A p \in Proc : UsersOf(p)

\* What a row of the rules may become of which a start has read was: it stays, its phase is
\* as read or corrected, its parameters are not taken away.
Onward(was, is) ==
    was # NoRule =>
        /\ is # NoRule /\ is.phase \in {was.phase, "right"}
        /\ was.parameters # "unset" => is.parameters # "unset"
Good(r, is) ==
    /\ is.phase \notin {"absent", "unset"}
    /\ is.phase = "stale" => r \notin Corrected
    /\ is.parameters = "unset" => r \notin Tuned
RulesInv == \A p \in Proc : \A r \in Rule :
    /\ step[p] = "commit" => Onward(read[p].rules[r], rules[r])
    /\ step[p] \in Installed => Good(r, rules[r])

\* An alert of a phase that is corrected is one of a rule that lacks the correction, too.
AlertsInv ==
    /\ \A a \in alerts : a.phase = "stale" /\ a.rule \in Corrected => rules[a.rule].phase = "stale"
    /\ \A p \in Proc : step[p] \in Installed => \A a \in alerts : a.source => a.key

\* Only settings fit for it let a process start.
SettingsInv == \A p \in Proc : step[p] \notin {"down", "refused"} => problems = {}

\* No start that is about to commit has read a row as it was before an edit that counts.
EditsInv == \A r \in edits :
    /\ rules[r].parameters = "edited"
    /\ \A p \in Proc : step[p] = "commit" => read[p].rules[r].parameters = "edited"

BootInv == BootTypes /\ SchemaInv /\ UsersInv /\ RulesInv /\ AlertsInv /\ SettingsInv /\ EditsInv

-----------------------------------------------------------------------------
\* Nothing is read before a process starts.
LEMMA NothingRows == NoRule \in Rows /\ Nothing \in Reads
<1>1. NoRule \in Rows
  BY DEF Rows
<1> QED
  BY <1>1 DEF Nothing, Reads

\* One step of process p takes it from one place to another.
LEMMA GoRows ==
    ASSUME BootTypes, NEW p \in Proc, NEW from, NEW to \in Steps, NEW what \in Reads,
           Go(p, from, to, what)
    PROVE  /\ step[p] = from /\ step' \in [Proc -> Steps] /\ read' \in [Proc -> Reads]
           /\ step'[p] = to /\ read'[p] = what
           /\ \A q \in Proc : q # p => step'[q] = step[q] /\ read'[q] = read[q]
           /\ UNCHANGED <<settings, edits>>
<1>1. /\ step \in [Proc -> Steps] /\ read \in [Proc -> Reads]
  BY DEF BootTypes
<1>2. /\ step[p] = from /\ step' = [step EXCEPT ![p] = to] /\ read' = [read EXCEPT ![p] = what]
      /\ UNCHANGED <<settings, edits>>
  BY DEF Go
<1> HIDE DEF Steps, Reads
<1> QED
  BY <1>1, <1>2

\* What the transaction makes of a row: complete, and onward from what it was.
LEMMA BackfilledRows ==
    ASSUME NEW r \in Rule, rules \in [Rule -> Rows], NEW was \in Rows,
           Onward(was, rules[r]), was = NoRule => rules[r] = NoRule
    PROVE  /\ backfilled(r, was) \in Rows /\ Good(r, backfilled(r, was))
           /\ Onward(rules[r], backfilled(r, was))
           /\ was.parameters = "edited" /\ rules[r].parameters = "edited"
                 => backfilled(r, was).parameters = "edited"
<1> DEFINE b == backfilled(r, was)
           is == rules[r]
<1>1. is \in Rows
  OBVIOUS
<1>2. CASE was = NoRule
  <2>1. b = seeded(r) /\ is = NoRule
    BY <1>2 DEF backfilled
  <2> QED
    BY <1>2, <2>1 DEF seeded, Rows, Good, Onward, NoRule
<1>3. CASE was # NoRule
  <2>1. b = [phase |-> IF phase_wanting(r, was) THEN "right" ELSE is.phase,
             parameters |-> IF parameters_wanting(r, was) THEN "default" ELSE is.parameters]
    BY <1>3 DEF backfilled
  <2>2. /\ is # NoRule /\ is.phase \in {was.phase, "right"}
        /\ was.parameters # "unset" => is.parameters # "unset"
    BY <1>3 DEF Onward
  <2>3. /\ is.phase \in {"unset", "stale", "right"} /\ is.parameters \in {"unset", "default", "edited"}
        /\ was.phase \in {"unset", "stale", "right"}
    BY <1>1, <1>3, <2>2 DEF Rows
  <2> HIDE DEF is
  <2>4. /\ b.phase = IF phase_wanting(r, was) THEN "right" ELSE is.phase
        /\ b.parameters = IF parameters_wanting(r, was) THEN "default" ELSE is.parameters
    BY <2>1
  <2>5. b \in [phase : {"unset", "stale", "right"}, parameters : {"unset", "default", "edited"}]
    BY <2>1, <2>3
  <2> HIDE DEF b
  <2>6. b \in Rows
    BY <2>5 DEF Rows
  <2>7. b # NoRule
    BY <2>3, <2>4 DEF NoRule
  <2>8. Good(r, b)
    BY <2>2, <2>3, <2>4 DEF Good, phase_wanting, parameters_wanting
  <2>9. Onward(is, b)
    BY <2>3, <2>4, <2>7 DEF Onward
  <2>10. was.parameters = "edited" /\ is.parameters = "edited" => b.parameters = "edited"
    BY <2>4 DEF parameters_wanting
  <2> QED
    BY <2>6, <2>8, <2>9, <2>10 DEF b, is
<1> QED
  BY <1>2, <1>3

\* What a process of the start, or an administrator at one that serves, does.
Act(p) == Boot(p) \/ Serve(p) \/ Crash(p) \/ \E r \in Rule : Edit(p, r) \/ Raise(p, r)

\* A kill takes the process down.
LEMMA CrashRows ==
    ASSUME BootTypes, NEW p \in Proc, Crash(p)
    PROVE  /\ step' \in [Proc -> Steps] /\ read' \in [Proc -> Reads]
           /\ step'[p] = "down"
           /\ \A q \in Proc : q # p => step'[q] = step[q] /\ read'[q] = read[q]
           /\ UNCHANGED <<settings, edits>>
<1>1. /\ step \in [Proc -> Steps] /\ read \in [Proc -> Reads] /\ "down" \in Steps
      /\ Nothing \in Reads
  BY NothingRows DEF BootTypes, Steps
<1>2. /\ step' = [step EXCEPT ![p] = "down"] /\ read' = [read EXCEPT ![p] = Nothing]
      /\ UNCHANGED <<settings, edits>>
  BY DEF Crash
<1> HIDE DEF Steps, Reads
<1> QED
  BY <1>1, <1>2

\* A start that goes on from adding a part has added it.
LEMMA AddRows ==
    ASSUME BootTypes, NEW p \in Proc, Add(p), step'[p] # "down"
    PROVE  schema' = schema \cup {Columns[read[p].part]}
<1> DEFINE part == Columns[read[p].part]
           fails == read[p].missing /\ (part \in schema \/ foreign(part))
<1>1. schema' = IF fails THEN schema ELSE schema \cup {part}
  BY DEF Add
<1>2. fails => Go(p, "add", "down", Nothing)
  BY DEF Add
<1> HIDE DEF fails
<1>3. fails => step'[p] = "down"
  BY <1>2 DEF Go, BootTypes
<1> QED
  BY <1>1, <1>3

\* Where each step takes its process, and with what.
LEMMA Goes ==
    ASSUME BootTypes, NEW p \in Proc, Act(p)
    PROVE  /\ step' \in [Proc -> Steps] /\ read' \in [Proc -> Reads]
           /\ \A q \in Proc : q # p => step'[q] = step[q] /\ read'[q] = read[q]
           /\ settings' = settings
           /\ \/ /\ Validate(p) /\ step'[p] \in {"look base", "refused"}
                 /\ step'[p] = "look base" => problems = {}
              \/ (Restart(p) \/ Crash(p)) /\ step'[p] = "down"
              \/ /\ LookTables(p) /\ step[p] = "look base" /\ step'[p] = "create"
                 /\ read'[p].missing = ~({"base", "tables"} \subseteq schema)
                 /\ read'[p].users = ("base" \in schema)
              \/ CreateTables(p) /\ step[p] = "create" /\ step'[p] \in {"down", "look"} /\ read'[p] = Nothing
              \/ Look(p) /\ step[p] = "look" /\ step'[p] = "add" /\ read'[p].part = read[p].part
              \/ /\ Add(p) /\ step[p] = "add"
                 /\ \/ step'[p] = "down"
                    \/ read[p].part < 4 /\ step'[p] = "look" /\ read'[p].part = read[p].part + 1
                    \/ read[p].part = 4 /\ step'[p] = "read users"
              \/ /\ ReadUsers(p) /\ step[p] = "read users" /\ step'[p] = "read rules"
                 /\ read'[p].users = users
              \/ /\ ReadRules(p) /\ step[p] = "read rules" /\ step'[p] = "commit"
                 /\ read'[p].users = read[p].users /\ read'[p].rules = rules
              \/ Commit(p) /\ step[p] = "commit" /\ step'[p] \in {"down", "install"}
              \/ Serve(p) /\ step[p] = "install" /\ step'[p] = "serving"
              \/ /\ \E r \in Rule : Edit(p, r) \/ Raise(p, r)
                 /\ step[p] = "serving" /\ UNCHANGED <<step, read>>
<1>1. /\ step \in [Proc -> Steps] /\ read \in [Proc -> Reads] /\ rules \in [Rule -> Rows]
      /\ Nothing \in Reads /\ read[p] \in Reads /\ users \in BOOLEAN
  BY NothingRows DEF BootTypes
<1>2. CASE Validate(p)
  <2>1. Go(p, "down", IF problems = {} THEN "look base" ELSE "refused", Nothing)
    BY <1>2 DEF Validate
  <2> DEFINE to == IF problems = {} THEN "look base" ELSE "refused"
  <2>2. to \in Steps /\ to \in {"look base", "refused"} /\ (to = "look base" => problems = {})
    BY DEF Steps
  <2> HIDE DEF to
  <2>3. Go(p, "down", to, Nothing)
    BY <2>1 DEF to
  <2> QED
    BY <1>1, <1>2, <2>2, <2>3, GoRows
<1>3. CASE Restart(p)
  <2>1. "down" \in Steps
    BY DEF Steps
  <2> QED
    BY <1>1, <1>3, <2>1, GoRows DEF Restart
<1>4. CASE Crash(p)
  BY <1>4, CrashRows
<1>5. CASE LookTables(p)
  <2> DEFINE lacking == ~({"base", "tables"} \subseteq schema)
             based == "base" \in schema
             what == [Nothing EXCEPT !.missing = lacking, !.users = based]
  <2>1. lacking \in BOOLEAN /\ based \in BOOLEAN
    BY SMT
  <2>2. "create" \in Steps /\ Go(p, "look base", "create", what)
    BY <1>5 DEF LookTables, Steps
  <2> HIDE DEF lacking, based
  <2>5. what \in Reads
    BY <1>1, <2>1 DEF Reads
  <2>6. what.missing = lacking /\ what.users = based
    BY <1>1, <2>1 DEF Reads
  <2> HIDE DEF what
  <2>7. /\ step' \in [Proc -> Steps] /\ read' \in [Proc -> Reads]
        /\ \A q \in Proc : q # p => step'[q] = step[q] /\ read'[q] = read[q]
        /\ settings' = settings /\ step[p] = "look base" /\ step'[p] = "create" /\ read'[p] = what
    BY <2>2, <2>5, GoRows
  <2>8. read'[p].missing = lacking /\ read'[p].users = based
    BY <2>6, <2>7, Zenon
  <2> QED
    BY <1>5, <2>7, <2>8, Zenon DEF lacking, based
<1>6. CASE CreateTables(p)
  <2>1. PICK to \in {"down", "look"} : Go(p, "create", to, Nothing)
    BY <1>6 DEF CreateTables
  <2>2. to \in Steps
    BY DEF Steps
  <2>3. /\ step' \in [Proc -> Steps] /\ read' \in [Proc -> Reads]
        /\ \A q \in Proc : q # p => step'[q] = step[q] /\ read'[q] = read[q]
        /\ settings' = settings /\ step[p] = "create" /\ step'[p] \in {"down", "look"}
        /\ read'[p] = Nothing
    BY <1>1, <2>1, <2>2, GoRows
  <2> QED
    BY <1>6, <2>3, Zenon
<1>7. CASE Look(p)
  <2> DEFINE what == [read[p] EXCEPT !.missing = Columns[read[p].part] \notin schema]
  <2>1. what \in Reads /\ what.part = read[p].part
    BY <1>1 DEF Reads
  <2>2. "add" \in Steps /\ Go(p, "look", "add", what)
    BY <1>7 DEF Look, Steps
  <2> HIDE DEF what
  <2>3. "add" \in Steps /\ what \in Reads /\ Go(p, "look", "add", what)
    BY <2>1, <2>2
  <2>4. /\ step' \in [Proc -> Steps] /\ read' \in [Proc -> Reads]
        /\ \A q \in Proc : q # p => step'[q] = step[q] /\ read'[q] = read[q]
        /\ settings' = settings /\ step[p] = "look" /\ step'[p] = "add" /\ read'[p] = what
    BY <2>3, GoRows
  <2>5. read'[p].part = read[p].part
    BY <2>1, <2>4, Zenon
  <2> QED
    BY <1>7, <2>4, <2>5, Zenon
<1>8. CASE Add(p)
  <2> DEFINE i == read[p].part
             what == [Nothing EXCEPT !.part = i + 1]
             clash == read[p].missing /\ (Columns[i] \in schema \/ foreign(Columns[i]))
  <2>1. i \in 1..4
    BY <1>1 DEF Reads
  <2>2. "down" \in Steps /\ "look" \in Steps /\ "read users" \in Steps
    BY DEF Steps
  <2>3. IF clash THEN Go(p, "add", "down", Nothing)
        ELSE IF i < 4 THEN Go(p, "add", "look", what)
        ELSE Go(p, "add", "read users", Nothing)
    BY <1>8 DEF Add
  <2>4. ASSUME i < 4 PROVE what \in Reads /\ what.part = i + 1
    <3> DEFINE next == i + 1
    <3>1. next \in 1..4
      BY <2>1, <2>4
    <3>2. what = [Nothing EXCEPT !.part = next]
      OBVIOUS
    <3> HIDE DEF next, what, i
    <3>3. what \in Reads /\ what.part = next
      BY <1>1, <3>1, <3>2 DEF Reads
    <3> QED
      BY <3>3 DEF next
  <2> HIDE DEF what, clash
  <2>5. CASE clash
    <3>1. Go(p, "add", "down", Nothing)
      BY <2>3, <2>5
    <3> QED
      BY <1>1, <1>8, <2>2, <3>1, GoRows
  <2>6. CASE ~clash /\ i < 4
    <3>1. Go(p, "add", "look", what)
      BY <2>3, <2>6
    <3>2. what \in Reads /\ what.part = i + 1
      BY <2>4, <2>6
    <3> HIDE DEF i
    <3>3. /\ step' \in [Proc -> Steps] /\ read' \in [Proc -> Reads]
          /\ \A q \in Proc : q # p => step'[q] = step[q] /\ read'[q] = read[q]
          /\ settings' = settings /\ step[p] = "add" /\ step'[p] = "look" /\ read'[p] = what
      BY <2>2, <3>1, <3>2, GoRows
    <3>4. i < 4 /\ read'[p].part = i + 1
      BY <2>6, <3>2, <3>3
    <3> QED
      BY <1>8, <3>3, <3>4, Zenon DEF i
  <2>7. CASE ~clash /\ ~(i < 4)
    <3>1. i = 4
      BY <2>1, <2>7
    <3>2. Go(p, "add", "read users", Nothing)
      BY <2>3, <2>7
    <3>3. /\ step' \in [Proc -> Steps] /\ read' \in [Proc -> Reads]
          /\ \A q \in Proc : q # p => step'[q] = step[q] /\ read'[q] = read[q]
          /\ settings' = settings /\ step[p] = "add" /\ step'[p] = "read users"
      BY <1>1, <2>2, <3>2, GoRows
    <3> QED
      BY <1>8, <3>1, <3>3, Zenon DEF i
  <2> QED
    BY <2>5, <2>6, <2>7
<1>9. CASE ReadUsers(p)
  <2> DEFINE what == [Nothing EXCEPT !.users = users]
  <2>1. what \in Reads /\ what.users = users
    BY <1>1 DEF Reads
  <2>2. "read rules" \in Steps /\ Go(p, "read users", "read rules", what)
    BY <1>9 DEF ReadUsers, Steps
  <2> HIDE DEF what
  <2>3. "read rules" \in Steps /\ what \in Reads /\ Go(p, "read users", "read rules", what)
    BY <2>1, <2>2
  <2>4. /\ step' \in [Proc -> Steps] /\ read' \in [Proc -> Reads]
        /\ \A q \in Proc : q # p => step'[q] = step[q] /\ read'[q] = read[q]
        /\ settings' = settings /\ step[p] = "read users" /\ step'[p] = "read rules" /\ read'[p] = what
    BY <2>3, GoRows
  <2>5. read'[p].users = users
    BY <2>1, <2>4, Zenon
  <2> QED
    BY <1>9, <2>4, <2>5, Zenon
<1>10. CASE ReadRules(p)
  <2> DEFINE what == [read[p] EXCEPT !.rules = rules]
  <2>1. what \in Reads /\ what.users = read[p].users /\ what.rules = rules
    BY <1>1 DEF Reads
  <2>2. "commit" \in Steps /\ Go(p, "read rules", "commit", what)
    BY <1>10 DEF ReadRules, Steps
  <2> HIDE DEF what
  <2>3. "commit" \in Steps /\ what \in Reads /\ Go(p, "read rules", "commit", what)
    BY <2>1, <2>2
  <2>4. /\ step' \in [Proc -> Steps] /\ read' \in [Proc -> Reads]
        /\ \A q \in Proc : q # p => step'[q] = step[q] /\ read'[q] = read[q]
        /\ settings' = settings /\ step[p] = "read rules" /\ step'[p] = "commit" /\ read'[p] = what
    BY <2>3, GoRows
  <2>5. read'[p].users = read[p].users /\ read'[p].rules = rules
    BY <2>1, <2>4, Zenon
  <2> QED
    BY <1>10, <2>4, <2>5, Zenon
<1>11. CASE Commit(p)
  <2>1. PICK to \in {"down", "install"} : Go(p, "commit", to, Nothing)
    BY <1>11 DEF Commit
  <2>2. to \in Steps
    BY DEF Steps
  <2>3. /\ step' \in [Proc -> Steps] /\ read' \in [Proc -> Reads]
        /\ \A q \in Proc : q # p => step'[q] = step[q] /\ read'[q] = read[q]
        /\ settings' = settings /\ step[p] = "commit" /\ step'[p] \in {"down", "install"}
        /\ read'[p] = Nothing
    BY <1>1, <2>1, <2>2, GoRows
  <2> QED
    BY <1>11, <2>3, Zenon
<1>12. CASE Serve(p)
  <2>1. "serving" \in Steps
    BY DEF Steps
  <2>2. Go(p, "install", "serving", Nothing) /\ Nothing \in Reads
    BY <1>1, <1>12 DEF Serve
  <2>3. /\ step' \in [Proc -> Steps] /\ read' \in [Proc -> Reads]
        /\ \A q \in Proc : q # p => step'[q] = step[q] /\ read'[q] = read[q]
        /\ settings' = settings /\ step[p] = "install" /\ step'[p] = "serving"
    BY <2>1, <2>2, GoRows
  <2> QED
    BY <1>12, <2>3, Zenon
<1>13. CASE \E r \in Rule : Edit(p, r) \/ Raise(p, r)
  BY <1>1, <1>13 DEF Edit, Raise
<1>14. \/ Validate(p) \/ Restart(p) \/ Crash(p) \/ LookTables(p) \/ CreateTables(p)
       \/ Look(p) \/ Add(p) \/ ReadUsers(p) \/ ReadRules(p) \/ Commit(p) \/ Serve(p)
       \/ \E r \in Rule : Edit(p, r) \/ Raise(p, r)
  BY DEF Act, Boot
<1> QED
  BY ONLY <1>2, <1>3, <1>4, <1>5, <1>6, <1>7, <1>8, <1>9, <1>10, <1>11, <1>12, <1>13, <1>14

\* What has become of a row becomes further of what it was.
LEMMA OnwardRows ==
    ASSUME NEW a \in Rows, NEW b \in Rows, NEW c \in Rows, Onward(a, b), Onward(b, c)
    PROVE  Onward(a, c)
<1>1. CASE a = NoRule
  BY <1>1 DEF Onward
<1>2. CASE a # NoRule
  <2>1. /\ b # NoRule /\ b.phase \in {a.phase, "right"}
        /\ a.parameters # "unset" => b.parameters # "unset"
    BY <1>2 DEF Onward
  <2>2. /\ c # NoRule /\ c.phase \in {b.phase, "right"}
        /\ b.parameters # "unset" => c.parameters # "unset"
    BY <2>1 DEF Onward
  <2> QED
    BY <2>1, <2>2 DEF Onward
<1> QED
  BY <1>1, <1>2

\* A complete row stays complete.
LEMMA OnwardGood ==
    ASSUME NEW r \in Rule, NEW a \in Rows, NEW b \in Rows, Good(r, a), Onward(a, b)
    PROVE  Good(r, b)
<1>1. /\ a.phase \notin {"absent", "unset"} /\ (a.phase = "stale" => r \notin Corrected)
      /\ a.parameters = "unset" => r \notin Tuned
  BY DEF Good
<1>2. a # NoRule
  BY <1>1 DEF NoRule
<1>3. /\ b # NoRule /\ b.phase \in {a.phase, "right"}
      /\ a.parameters # "unset" => b.parameters # "unset"
  BY <1>2 DEF Onward
<1> QED
  BY <1>1, <1>3 DEF Good

\* A row is onward from itself.
LEMMA OnwardSame == ASSUME NEW a \in Rows PROVE Onward(a, a)
BY DEF Onward

\* A commit finds every row it holds for missing still missing, or changes nothing.
LEMMA CommitRows ==
    ASSUME BootTypes, RulesInv, NEW p \in Proc, Commit(p)
    PROVE  /\ schema' = schema /\ edits' = edits /\ step[p] = "commit"
           /\ \/ step'[p] = "down" /\ UNCHANGED <<users, rules, alerts>>
              \/ /\ step'[p] = "install" /\ users' = TRUE
                 /\ \A r \in Rule :
                       /\ rules'[r] = backfilled(r, read[p].rules[r])
                       /\ read[p].rules[r] \in Rows /\ Onward(read[p].rules[r], rules[r])
                       /\ read[p].rules[r] = NoRule => rules[r] = NoRule
                 /\ rules' = [r \in Rule |-> backfilled(r, read[p].rules[r])]
                 /\ alerts' = {corrected(a, read[p].rules) : a \in alerts}
<1> DEFINE was == read[p]
           clash == \/ ~was.users /\ users
                    \/ \E r \in Rule : was.rules[r] = NoRule /\ rules[r] # NoRule
<1>1. /\ Go(p, "commit", IF clash THEN "down" ELSE "install", Nothing)
      /\ users' = (users \/ ~clash)
      /\ rules' = IF clash THEN rules ELSE [r \in Rule |-> backfilled(r, was.rules[r])]
      /\ alerts' = IF clash THEN alerts ELSE {corrected(a, was.rules) : a \in alerts}
      /\ UNCHANGED schema
  BY DEF Commit
<1>2. /\ step \in [Proc -> Steps] /\ was \in Reads /\ users \in BOOLEAN
  BY DEF BootTypes
<1>3. was.rules \in [Rule -> Rows]
  BY <1>2 DEF Reads
<1>4. step[p] = "commit" /\ edits' = edits /\ step' = [step EXCEPT ![p] = IF clash THEN "down" ELSE "install"]
  BY <1>1 DEF Go
<1>5. \A r \in Rule : was.rules[r] \in Rows /\ Onward(was.rules[r], rules[r])
  BY <1>3, <1>4 DEF RulesInv
<1>6. CASE clash
  <2>1. step'[p] = "down"
    BY <1>2, <1>4, <1>6
  <2>2. users' = users
    BY <1>1, <1>2, <1>6, Zenon
  <2> QED
    BY <1>1, <1>4, <1>6, <2>1, <2>2
<1>7. CASE ~clash
  <2>1. step'[p] = "install"
    BY <1>2, <1>4, <1>7
  <2>2. users' = TRUE
    BY <1>1, <1>7, Zenon
  <2>3. \A r \in Rule : was.rules[r] = NoRule => rules[r] = NoRule
    BY <1>7
  <2>4. rules' = [r \in Rule |-> backfilled(r, was.rules[r])]
    BY <1>1, <1>7
  <2>5. alerts' = {corrected(a, was.rules) : a \in alerts}
    BY <1>1, <1>7
  <2> QED
    BY <1>1, <1>4, <1>5, <2>1, <2>2, <2>3, <2>4, <2>5
<1> QED
  BY <1>6, <1>7

\* An alert stays one when a commit corrects it.
LEMMA CorrectedRows ==
    ASSUME NEW a \in AlertRows, NEW was \in [Rule -> Rows]
    PROVE  /\ corrected(a, was) \in AlertRows /\ corrected(a, was).rule = a.rule
           /\ corrected(a, was).source = a.source
           /\ a.source => corrected(a, was).key
           /\ corrected(a, was).phase =
                 IF a.phase = "stale" /\ was[a.rule].phase = "stale" /\ a.rule \in Corrected
                 THEN "right" ELSE a.phase
<1> DEFINE key == a.key \/ a.source
           phase == IF a.phase = "stale" /\ was[a.rule].phase = "stale" /\ a.rule \in Corrected
                    THEN "right" ELSE a.phase
<1>1. key \in BOOLEAN /\ (a.source => key)
  BY SMT
<1>2. phase \in {"unset", "stale", "right"}
  BY DEF AlertRows
<1>3. corrected(a, was) = [a EXCEPT !.key = key, !.phase = phase]
  BY DEF corrected
<1> HIDE DEF key, phase
<1>4. /\ corrected(a, was) \in AlertRows /\ corrected(a, was).rule = a.rule
      /\ corrected(a, was).source = a.source
      /\ corrected(a, was).key = key /\ corrected(a, was).phase = phase
  BY <1>1, <1>2, <1>3 DEF AlertRows
<1>5. a.source => corrected(a, was).key
  BY <1>1, <1>4, Zenon
<1> QED
  BY <1>4, <1>5 DEF phase

\* An edit replaces the parameters of one rule and leaves its phase alone.
LEMMA EditRows ==
    ASSUME BootTypes, NEW p \in Proc, NEW e \in Rule, Edit(p, e)
    PROVE  /\ rules' \in [Rule -> Rows] /\ rules'[e].parameters = "edited"
           /\ rules'[e].phase = rules[e].phase
           /\ \A r \in Rule : r # e => rules'[r] = rules[r]
           /\ \A r \in Rule : Onward(rules[r], rules'[r])
           /\ UNCHANGED <<schema, users, alerts, step, read>>
<1>1. /\ rules \in [Rule -> Rows] /\ rules[e] # NoRule
      /\ rules' = [rules EXCEPT ![e].parameters = "edited"]
      /\ UNCHANGED <<schema, users, alerts, step, read>>
  BY DEF BootTypes, Edit
<1> DEFINE new == [rules[e] EXCEPT !.parameters = "edited"]
<1>2. rules[e] \in [phase : {"unset", "stale", "right"}, parameters : {"unset", "default", "edited"}]
  BY <1>1 DEF Rows
<1>3. /\ new \in [phase : {"unset", "stale", "right"}, parameters : {"unset", "default", "edited"}]
      /\ new.parameters = "edited" /\ new.phase = rules[e].phase
  BY <1>2
<1>4. new \in Rows /\ new # NoRule
  BY <1>3 DEF Rows, NoRule
<1>5. Onward(rules[e], new)
  BY <1>2, <1>3, <1>4 DEF Onward
<1>6. rules' = [rules EXCEPT ![e] = new]
  BY <1>1
<1> HIDE DEF new, Rows
<1>7. /\ rules' \in [Rule -> Rows] /\ rules'[e] = new
      /\ \A r \in Rule : r # e => rules'[r] = rules[r]
  BY <1>1, <1>4, <1>6
<1>8. ASSUME NEW r \in Rule PROVE Onward(rules[r], rules'[r])
  <2>1. CASE r = e
    BY <1>5, <1>7, <2>1
  <2>2. CASE r # e
    BY <1>1, <1>7, <2>2, OnwardSame
  <2> QED
    BY <2>1, <2>2
<1> QED
  BY <1>1, <1>3, <1>7, <1>8

\* An alert takes the phase of its rule, and a key if its event names a source.
LEMMA RaiseRows ==
    ASSUME BootTypes, NEW p \in Proc, NEW e \in Rule, Raise(p, e)
    PROVE  /\ \E new \in AlertRows : /\ alerts' = alerts \cup {new} /\ new.rule = e
                                     /\ new.phase = rules[e].phase /\ (new.source => new.key)
           /\ UNCHANGED <<schema, users, rules, step, read, edits>>
<1>1. PICK source \in BOOLEAN :
         alerts' = alerts \cup {[rule |-> e, phase |-> rules[e].phase, key |-> source,
                                 source |-> source]}
  BY DEF Raise
<1>2. /\ rules[e] # NoRule /\ rules[e] \in Rows
      /\ UNCHANGED <<schema, users, rules, step, read, edits>>
  BY DEF Raise, BootTypes
<1>3. rules[e].phase \in {"unset", "stale", "right"}
  BY <1>2 DEF Rows
<1> DEFINE new == [rule |-> e, phase |-> rules[e].phase, key |-> source, source |-> source]
<1>4. new \in AlertRows
  BY <1>3 DEF AlertRows
<1>5. new.rule = e /\ new.phase = rules[e].phase /\ (new.source => new.key)
  BY Zenon
<1>6. alerts' = alerts \cup {new}
  BY <1>1
<1> HIDE DEF new
<1> QED
  BY <1>2, <1>4, <1>5, <1>6

\* Nothing a process does takes from the database what was there.
LEMMA DatabaseGrows ==
    ASSUME BootTypes, SchemaInv, RulesInv, NEW p \in Proc, Act(p)
    PROVE  /\ schema \subseteq schema' /\ schema' \subseteq Parts
           /\ users' \in BOOLEAN /\ (users => users')
           /\ rules' \in [Rule -> Rows] /\ \A r \in Rule : Onward(rules[r], rules'[r])
           /\ alerts' \subseteq AlertRows
<1>1. /\ schema \subseteq Parts /\ users \in BOOLEAN /\ rules \in [Rule -> Rows]
      /\ alerts \subseteq AlertRows /\ read[p] \in Reads
  BY DEF BootTypes
<1>2. \A r \in Rule : rules[r] \in Rows /\ Onward(rules[r], rules[r])
  BY <1>1, OnwardSame
<1>3. CASE UNCHANGED database
  BY <1>1, <1>2, <1>3 DEF database
<1>4. CASE CreateTables(p)
  <2>1. /\ schema' \in {schema, schema \cup {"tables"}, Parts}
        /\ UNCHANGED <<users, rules, alerts>>
    BY <1>4 DEF CreateTables
  <2>2. "tables" \in Parts
    BY DEF Parts
  <2> QED
    BY <1>1, <1>2, <2>1, <2>2
<1>5. CASE Add(p)
  <2>1. /\ schema' \in {schema, schema \cup {Columns[read[p].part]}}
        /\ UNCHANGED <<users, rules, alerts>>
    BY <1>5 DEF Add
  <2>2. read[p].part \in 1..4
    BY <1>1 DEF Reads
  <2>3. Columns[read[p].part] \in Parts
    BY <2>2 DEF Parts
  <2> QED
    BY <1>1, <1>2, <2>1, <2>3
<1>6. CASE Commit(p)
  <2>1. schema' = schema
    BY <1>6, CommitRows
  <2>2. CASE UNCHANGED <<users, rules, alerts>>
    BY <1>1, <1>2, <2>1, <2>2
  <2>3. CASE /\ users' = TRUE
             /\ \A r \in Rule :
                   /\ rules'[r] = backfilled(r, read[p].rules[r])
                   /\ read[p].rules[r] \in Rows /\ Onward(read[p].rules[r], rules[r])
                   /\ read[p].rules[r] = NoRule => rules[r] = NoRule
             /\ rules' = [r \in Rule |-> backfilled(r, read[p].rules[r])]
             /\ alerts' = {corrected(a, read[p].rules) : a \in alerts}
    <3>1. \A r \in Rule : backfilled(r, read[p].rules[r]) \in Rows /\ Onward(rules[r], rules'[r])
      BY <1>1, <2>3, BackfilledRows
    <3>2. rules' \in [Rule -> Rows]
      BY <2>3, <3>1
    <3>3. read[p].rules \in [Rule -> Rows]
      BY <1>1 DEF Reads
    <3>4. alerts' \subseteq AlertRows
      BY <1>1, <2>3, <3>3, CorrectedRows
    <3> QED
      BY <1>1, <2>1, <2>3, <3>1, <3>2, <3>4
  <2> QED
    BY <1>6, <2>2, <2>3, CommitRows
<1>7. CASE \E e \in Rule : Edit(p, e)
  BY <1>1, <1>7, EditRows
<1>8. CASE \E e \in Rule : Raise(p, e)
  <2>1. PICK e \in Rule : Raise(p, e)
    BY <1>8
  <2>2. UNCHANGED <<schema, users, rules>> /\ alerts' \subseteq AlertRows
    BY <1>1, <2>1, RaiseRows
  <2> QED
    BY <1>1, <1>2, <2>2
<1>9. \/ UNCHANGED database \/ CreateTables(p) \/ Add(p) \/ Commit(p)
      \/ \E e \in Rule : Edit(p, e) \/ Raise(p, e)
  BY Zenon DEF Act, Boot, Serve, Crash, Validate, Restart, LookTables, Look, ReadUsers, ReadRules
<1> QED
  BY <1>3, <1>4, <1>5, <1>6, <1>7, <1>8, <1>9

\* What a process relies on of the schema holds wherever it has got to.
LEMMA SchemaKeeps ==
    ASSUME BootInv, NEW p \in Proc, Act(p) PROVE SchemaInv'
<1>1. /\ BootTypes /\ SchemaInv /\ RulesInv /\ read[p] \in Reads
  BY DEF BootInv, BootTypes
<1>2. schema \subseteq schema' /\ schema' \subseteq Parts
  BY <1>1, DatabaseGrows
<1>3. SchemaOf(p)
  BY <1>1 DEF SchemaInv
<1>4. ASSUME NEW q \in Proc, q # p PROVE SchemaOf(q)'
  <2>1. SchemaOf(q) /\ step'[q] = step[q] /\ read'[q] = read[q]
    BY <1>1, <1>4, Goes DEF SchemaInv
  <2> QED
    BY <1>2, <2>1 DEF SchemaOf
<1>5. SchemaOf(p)'
  <2>1. CASE step'[p] \in {"down", "refused", "look base"}
    BY <2>1 DEF SchemaOf, Installed
  <2>2. CASE /\ step'[p] = "create" /\ read'[p].missing = ~({"base", "tables"} \subseteq schema)
             /\ read'[p].users = ("base" \in schema)
    BY <1>2, <2>2 DEF SchemaOf, Installed
  <2>3. CASE CreateTables(p) /\ step[p] = "create" /\ step'[p] = "look" /\ read'[p] = Nothing
    <3> DEFINE was == read[p]
               clash == was.missing /\ ("tables" \in schema \/ (~was.users /\ "base" \in schema))
    <3>1. /\ Go(p, "create", IF clash THEN "down" ELSE "look", Nothing)
          /\ schema' = IF ~was.missing \/ clash THEN schema
                       ELSE IF was.users THEN schema \cup {"tables"} ELSE Parts
      BY <2>3 DEF CreateTables
    <3>2. step \in [Proc -> Steps] /\ step' = [step EXCEPT ![p] = IF clash THEN "down" ELSE "look"]
      BY <1>1, <3>1 DEF BootTypes, Go
    <3>3. ~clash
      BY <2>3, <3>2
    <3>4. schema' = IF ~was.missing THEN schema
                    ELSE IF was.users THEN schema \cup {"tables"} ELSE Parts
      BY <3>1, <3>3
    <3>5. (~was.missing => {"base", "tables"} \subseteq schema) /\ (was.users => "base" \in schema)
      BY <1>3, <2>3 DEF SchemaOf
    <3>6. {"base", "tables"} \subseteq schema'
      BY <3>4, <3>5 DEF Parts
    <3>7. read'[p].part = 1
      BY <2>3 DEF Nothing
    <3> QED
      BY <2>3, <3>6, <3>7 DEF SchemaOf, Installed
  <2>4. CASE step[p] = "look" /\ step'[p] = "add" /\ read'[p].part = read[p].part
    BY <1>2, <1>3, <2>4 DEF SchemaOf, Installed
  <2>5. CASE Add(p) /\ step[p] = "add" /\ step'[p] \in {"look", "read users"}
    <3> DEFINE i == read[p].part
    <3>1. i \in 1..4 /\ schema' = schema \cup {Columns[i]}
      <4>1. i \in 1..4 BY <1>1 DEF Reads
      <4> QED BY <1>1, <2>5, <4>1, AddRows DEF i
    <3>2. {"base", "tables"} \subseteq schema /\ \A j \in 1..4 : j < i => Columns[j] \in schema
      BY <1>3, <2>5 DEF SchemaOf
    <3>3. ASSUME NEW j \in 1..4, j < i + 1 PROVE Columns[j] \in schema'
      <4>1. j < i \/ j = i
        BY <3>1, <3>3
      <4> QED
        BY <3>1, <3>2, <4>1
    <3>4. CASE i < 4 /\ step'[p] = "look" /\ read'[p].part = i + 1
      BY <3>1, <3>2, <3>3, <3>4 DEF SchemaOf, Installed
    <3>5. CASE i = 4 /\ step'[p] = "read users"
      <4> HIDE DEF i
      <4>4. i = 4
        BY <3>5
      <4>1. ASSUME NEW j \in 1..4 PROVE Columns[j] \in schema'
        <5>1. j < i + 1
          BY <4>4
        <5> QED
          BY <3>3, <5>1
      <4>2. Parts \subseteq schema'
        BY <3>1, <3>2, <4>1 DEF Parts
      <4>3. schema' = Parts
        BY <1>2, <4>2
      <4> QED
        BY <3>5, <4>3 DEF SchemaOf, Installed
    <3> QED
      BY <1>1, <2>5, <3>4, <3>5, Goes
  <2>6. CASE /\ step[p] \in {"read users", "read rules", "commit"} \cup Installed
             /\ step'[p] \in {"read rules", "commit"} \cup Installed
    <3>1. schema' = Parts
      BY <1>2, <1>3, <2>6 DEF SchemaOf
    <3> QED
      BY <2>6, <3>1 DEF SchemaOf, Installed
  <2>7. \/ step'[p] \in {"down", "refused", "look base"}
        \/ /\ step'[p] = "create" /\ read'[p].missing = ~({"base", "tables"} \subseteq schema)
           /\ read'[p].users = ("base" \in schema)
        \/ CreateTables(p) /\ step[p] = "create" /\ step'[p] = "look" /\ read'[p] = Nothing
        \/ step[p] = "look" /\ step'[p] = "add" /\ read'[p].part = read[p].part
        \/ Add(p) /\ step[p] = "add" /\ step'[p] \in {"look", "read users"}
        \/ /\ step[p] \in {"read users", "read rules", "commit"} \cup Installed
           /\ step'[p] \in {"read rules", "commit"} \cup Installed
    BY <1>1, Goes DEF Installed
  <2> QED
    BY <2>1, <2>2, <2>3, <2>4, <2>5, <2>6, <2>7
<1> QED
  BY <1>4, <1>5 DEF SchemaInv

\* The accounts a process has seen, or made, are there.
LEMMA UsersKeep ==
    ASSUME BootInv, NEW p \in Proc, Act(p) PROVE UsersInv'
<1>1. BootTypes /\ SchemaInv /\ RulesInv /\ UsersInv
  BY DEF BootInv
<1>2. users' \in BOOLEAN /\ (users => users')
  BY <1>1, DatabaseGrows
<1>3. ASSUME NEW q \in Proc, q # p PROVE UsersOf(q)'
  <2>1. UsersOf(q) /\ step'[q] = step[q] /\ read'[q] = read[q]
    BY <1>1, <1>3, Goes DEF UsersInv
  <2> QED
    BY <1>2, <2>1 DEF UsersOf
<1>4. UsersOf(p)'
  <2>1. UsersOf(p)
    BY <1>1 DEF UsersInv
  <2>2. CASE step'[p] \notin {"read rules", "commit"} \cup Installed
    BY <2>2 DEF UsersOf
  <2>3. CASE ReadUsers(p) /\ step'[p] = "read rules" /\ read'[p].users = users
    BY <1>2, <2>3 DEF UsersOf, Installed
  <2>4. CASE step[p] = "read rules" /\ step'[p] = "commit" /\ read'[p].users = read[p].users
    BY <1>2, <2>1, <2>4 DEF UsersOf, Installed
  <2>5. CASE Commit(p) /\ step'[p] = "install"
    <3>1. users' = TRUE
      BY <1>1, <2>5, CommitRows
    <3> QED
      BY <2>5, <3>1 DEF UsersOf
  <2>6. CASE step[p] \in Installed /\ step'[p] = "serving"
    BY <1>2, <2>1, <2>6 DEF UsersOf
  <2>7. \/ step'[p] \notin {"read rules", "commit"} \cup Installed
        \/ ReadUsers(p) /\ step'[p] = "read rules" /\ read'[p].users = users
        \/ step[p] = "read rules" /\ step'[p] = "commit" /\ read'[p].users = read[p].users
        \/ Commit(p) /\ step'[p] = "install"
        \/ step[p] \in Installed /\ step'[p] = "serving"
    BY <1>1, Goes DEF Installed
  <2> QED
    BY <2>2, <2>3, <2>4, <2>5, <2>6, <2>7
<1> QED
  BY <1>3, <1>4 DEF UsersInv

\* A row moves on from what was read of it, and what is complete stays complete.
LEMMA RulesKeep ==
    ASSUME BootInv, NEW p \in Proc, Act(p) PROVE RulesInv'
<1>1. BootTypes /\ SchemaInv /\ RulesInv
  BY DEF BootInv
<1>2. /\ rules \in [Rule -> Rows] /\ rules' \in [Rule -> Rows]
      /\ \A r \in Rule : Onward(rules[r], rules'[r])
  BY <1>1, DatabaseGrows DEF BootTypes
<1>3. ASSUME NEW q \in Proc, NEW r \in Rule
      PROVE  step'[q] = "commit" => Onward(read'[q].rules[r], rules'[r])
  <2> SUFFICES ASSUME step'[q] = "commit" PROVE Onward(read'[q].rules[r], rules'[r])
    OBVIOUS
  <2>1. CASE step[q] = "commit" /\ read'[q] = read[q]
    <3>1. read[q] \in Reads
      BY <1>1 DEF BootTypes
    <3>2. read[q].rules[r] \in Rows
      BY <3>1 DEF Reads
    <3>3. Onward(read[q].rules[r], rules[r])
      BY <1>1, <2>1 DEF RulesInv
    <3> HIDE DEF Rows
    <3> QED
      BY <1>2, <2>1, <3>2, <3>3, OnwardRows
  <2>2. CASE q = p /\ read'[p].rules = rules
    BY <1>2, <2>2
  <2>3. \/ step[q] = "commit" /\ read'[q] = read[q]
        \/ q = p /\ read'[p].rules = rules
    BY <1>1, Goes
  <2> QED
    BY <2>1, <2>2, <2>3
<1>4. ASSUME NEW q \in Proc, NEW r \in Rule
      PROVE  step'[q] \in Installed => Good(r, rules'[r])
  <2> SUFFICES ASSUME step'[q] \in Installed PROVE Good(r, rules'[r])
    OBVIOUS
  <2>1. CASE step[q] \in Installed
    <3>1. Good(r, rules[r])
      BY <1>1, <2>1 DEF RulesInv
    <3> HIDE DEF Rows
    <3> QED
      BY <1>2, <3>1, OnwardGood
  <2>2. CASE Commit(p) /\ step'[p] = "install"
    <3>1. /\ rules'[r] = backfilled(r, read[p].rules[r])
          /\ read[p].rules[r] \in Rows /\ Onward(read[p].rules[r], rules[r])
          /\ read[p].rules[r] = NoRule => rules[r] = NoRule
      BY <1>1, <2>2, CommitRows
    <3> QED
      BY <1>2, <3>1, BackfilledRows
  <2>3. step[q] \in Installed \/ (Commit(p) /\ step'[p] = "install")
    BY <1>1, Goes DEF Installed
  <2> QED
    BY <2>1, <2>2, <2>3
<1> QED
  BY <1>3, <1>4 DEF RulesInv

\* No alert has a phase of the old kind once its rule has none, and none with a source
\* lacks its key.
LEMMA AlertsKeep ==
    ASSUME BootInv, NEW p \in Proc, Act(p) PROVE AlertsInv'
<1>1. BootTypes /\ SchemaInv /\ RulesInv /\ AlertsInv
  BY DEF BootInv
<1>2. /\ rules \in [Rule -> Rows] /\ rules' \in [Rule -> Rows] /\ alerts \subseteq AlertRows
      /\ read[p] \in Reads
  BY <1>1, DatabaseGrows DEF BootTypes
<1>3. /\ \A a \in alerts : a.phase = "stale" /\ a.rule \in Corrected => rules[a.rule].phase = "stale"
      /\ \A q \in Proc : step[q] \in Installed => \A a \in alerts : a.source => a.key
  BY <1>1 DEF AlertsInv
<1>4. CASE Commit(p) /\ step'[p] = "install"
  <2> DEFINE was == read[p].rules
  <2>1. /\ \A r \in Rule :
              /\ rules'[r] = backfilled(r, was[r])
              /\ was[r] \in Rows /\ Onward(was[r], rules[r])
              /\ was[r] = NoRule => rules[r] = NoRule
        /\ alerts' = {corrected(a, was) : a \in alerts}
    BY <1>1, <1>4, CommitRows
  <2>2. was \in [Rule -> Rows]
    BY <1>2 DEF Reads
  <2> HIDE DEF was
  <2>3. ASSUME NEW a \in alerts
        PROVE  /\ corrected(a, was).source => corrected(a, was).key
               /\ ~(corrected(a, was).phase = "stale" /\ corrected(a, was).rule \in Corrected)
    <3> DEFINE new == corrected(a, was)
    <3>1. a \in AlertRows
      BY <1>2
    <3>2. /\ new.rule = a.rule /\ new.source = a.source /\ (a.source => new.key)
          /\ new.phase = IF a.phase = "stale" /\ was[a.rule].phase = "stale" /\ a.rule \in Corrected
                         THEN "right" ELSE a.phase
      BY <2>2, <3>1, CorrectedRows
    <3> HIDE DEF new
    <3>3. ~(new.phase = "stale" /\ new.rule \in Corrected)
      <4> SUFFICES ASSUME new.phase = "stale", a.rule \in Corrected PROVE FALSE
        BY <3>2
      <4>1. a.phase = "stale" /\ was[a.rule].phase # "stale"
        BY <3>2
      <4>2. rules[a.rule].phase = "stale"
        BY <1>3, <4>1
      <4>3. a.rule \in Rule
        BY <3>1 DEF AlertRows
      <4>4. /\ Onward(was[a.rule], rules[a.rule])
            /\ was[a.rule] = NoRule => rules[a.rule] = NoRule
        BY <2>1, <4>3
      <4>5. was[a.rule] # NoRule
        BY <4>2, <4>4 DEF NoRule
      <4> QED
        BY <4>1, <4>2, <4>4, <4>5 DEF Onward
    <3>4. new.source => new.key
      BY <3>2, Zenon
    <3> QED
      BY <3>3, <3>4 DEF new
  <2>4. \A a \in alerts' : /\ a.source => a.key
                           /\ ~(a.phase = "stale" /\ a.rule \in Corrected)
    BY <2>1, <2>3, Zenon
  <2> QED
    BY <2>4, Zenon DEF AlertsInv
<1>5. CASE \E e \in Rule : Raise(p, e)
  <2>1. PICK e \in Rule : Raise(p, e)
    BY <1>5
  <2>2. UNCHANGED <<rules, step>>
    BY <1>1, <2>1, RaiseRows
  <2>3. PICK new \in AlertRows : /\ alerts' = alerts \cup {new} /\ new.rule = e
                                 /\ new.phase = rules[e].phase /\ (new.source => new.key)
    BY <1>1, <2>1, RaiseRows, Zenon
  <2>4. \A a \in alerts' : a \in alerts \/ a = new
    BY <2>3
  <2>5. ASSUME NEW a \in alerts', a.phase = "stale", a.rule \in Corrected
        PROVE  rules'[a.rule].phase = "stale"
    BY <1>3, <2>2, <2>3, <2>4, <2>5
  <2>6. ASSUME NEW q \in Proc, step'[q] \in Installed, NEW a \in alerts', a.source
        PROVE  a.key
    <3>1. step[q] \in Installed
      BY <2>2, <2>6
    <3> QED
      BY <1>3, <2>3, <2>4, <2>6, <3>1, Zenon
  <2> QED
    BY <2>5, <2>6, Zenon DEF AlertsInv
<1>6. CASE /\ alerts' = alerts
           /\ \A r \in Rule : rules[r].phase = "stale" => rules'[r].phase = "stale"
           /\ \A q \in Proc : step'[q] \in Installed => step[q] \in Installed
  <2>1. \A a \in alerts : a.rule \in Rule
    BY <1>2 DEF AlertRows
  <2>2. \A a \in alerts' : a.phase = "stale" /\ a.rule \in Corrected => rules'[a.rule].phase = "stale"
    BY <1>3, <1>6, <2>1
  <2>3. \A q \in Proc : step'[q] \in Installed => \A a \in alerts' : a.source => a.key
    BY <1>3, <1>6, Zenon
  <2> QED
    BY <2>2, <2>3, Zenon DEF AlertsInv
<1>7. ASSUME NEW e \in Rule, Edit(p, e)
      PROVE  /\ UNCHANGED <<alerts, step>>
             /\ \A r \in Rule : rules[r].phase = "stale" => rules'[r].phase = "stale"
  BY <1>1, <1>7, EditRows
<1>8. \/ Commit(p) /\ step'[p] = "install"
      \/ Commit(p) /\ step'[p] = "down" /\ UNCHANGED <<users, rules, alerts>>
      \/ ~Commit(p)
  BY <1>1, CommitRows
<1>9. ASSUME NEW q \in Proc, step'[q] \in Installed
      PROVE  step[q] \in Installed \/ (Commit(p) /\ step'[p] = "install")
  BY <1>1, <1>9, Goes DEF Installed
<1>10. \/ UNCHANGED <<rules, alerts>> \/ Commit(p)
       \/ \E e \in Rule : Edit(p, e) \/ Raise(p, e)
  BY Zenon DEF Act, Boot, Serve, Crash, Validate, Restart, LookTables, Look, ReadUsers, ReadRules,
               CreateTables, Add, database
<1>11. CASE UNCHANGED <<rules, alerts>> /\ ~(Commit(p) /\ step'[p] = "install")
  BY <1>6, <1>9, <1>11
<1>12. CASE \E e \in Rule : Edit(p, e)
  BY <1>6, <1>7, <1>12
<1> QED
  BY <1>4, <1>5, <1>8, <1>10, <1>11, <1>12

\* A start goes on only with settings it may have.
LEMMA SettingsKeep ==
    ASSUME BootInv, NEW p \in Proc, Act(p) PROVE SettingsInv'
<1>1. BootTypes /\ SettingsInv /\ (\A q \in Proc : q # p => step'[q] = step[q])
      /\ settings' = settings
  BY Goes DEF BootInv
<1>2. problems' = problems
  BY <1>1 DEF problems
<1>3. step'[p] \in {"down", "refused"} \/ problems = {} \/ step[p] \notin {"down", "refused"}
  BY <1>1, Goes
<1> QED
  BY <1>1, <1>2, <1>3 DEF SettingsInv

\* What counts as an edit is read as one by every start that may still commit.
LEMMA EditsKeep ==
    ASSUME BootInv, NEW p \in Proc, Act(p) PROVE EditsInv' /\ edits' \subseteq Rule
<1>1. BootTypes /\ SchemaInv /\ RulesInv /\ EditsInv /\ edits \subseteq Rule
  BY DEF BootInv, BootTypes
<1>2. /\ rules \in [Rule -> Rows] /\ rules' \in [Rule -> Rows] /\ read[p] \in Reads
  BY <1>1, DatabaseGrows DEF BootTypes
<1>3. \A r \in edits : /\ rules[r].parameters = "edited"
                       /\ \A q \in Proc : step[q] = "commit" => read[q].rules[r].parameters = "edited"
  BY <1>1 DEF EditsInv
<1>4. ASSUME NEW e \in Rule, Edit(p, e) PROVE EditsInv' /\ edits' \subseteq Rule
  <2>1. /\ rules'[e].parameters = "edited" /\ \A r \in Rule : r # e => rules'[r] = rules[r]
        /\ UNCHANGED <<step, read>>
    BY <1>1, <1>4, EditRows
  <2>2. edits' = IF \A q \in Proc : step[q] # "commit" THEN edits \cup {e} ELSE edits
    BY <1>4 DEF Edit
  <2>3. \A r \in edits' : rules'[r].parameters = "edited"
    BY <1>1, <1>3, <2>1, <2>2
  <2>4. ASSUME NEW r \in edits', NEW q \in Proc, step'[q] = "commit"
        PROVE  read'[q].rules[r].parameters = "edited"
    <3>1. step[q] = "commit" /\ read'[q] = read[q]
      BY <2>1, <2>4
    <3>2. r \in edits
      BY <2>2, <2>4, <3>1
    <3> QED
      BY <1>3, <3>1, <3>2
  <2> QED
    BY <1>1, <2>2, <2>3, <2>4 DEF EditsInv
<1>5. ASSUME edits' = edits, \A r \in edits : rules'[r].parameters = "edited"
      PROVE  EditsInv' /\ edits' \subseteq Rule
  <2>1. ASSUME NEW r \in edits, NEW q \in Proc, step'[q] = "commit"
        PROVE  read'[q].rules[r].parameters = "edited"
    <3>1. \/ step[q] = "commit" /\ read'[q] = read[q]
          \/ q = p /\ read'[p].rules = rules
      BY <1>1, <2>1, Goes
    <3> QED
      BY <1>3, <2>1, <3>1
  <2> QED
    BY <1>1, <1>5, <2>1 DEF EditsInv
<1>6. CASE Commit(p)
  <2>1. edits' = edits /\ step[p] = "commit"
    BY <1>1, <1>6, CommitRows
  <2>2. ASSUME NEW r \in edits PROVE rules'[r].parameters = "edited"
    <3>1. r \in Rule /\ rules[r].parameters = "edited" /\ read[p].rules[r].parameters = "edited"
      BY <1>1, <1>3, <2>1
    <3>2. CASE UNCHANGED rules
      BY <3>1, <3>2
    <3>3. CASE /\ rules'[r] = backfilled(r, read[p].rules[r])
               /\ read[p].rules[r] \in Rows /\ Onward(read[p].rules[r], rules[r])
               /\ read[p].rules[r] = NoRule => rules[r] = NoRule
      BY <1>2, <3>1, <3>3, BackfilledRows
    <3> QED
      BY <1>1, <1>6, <3>1, <3>2, <3>3, CommitRows
  <2> QED
    BY <1>5, <2>1, <2>2
<1>7. CASE UNCHANGED <<rules, edits>>
  BY <1>3, <1>5, <1>7
<1>8. \/ UNCHANGED <<rules, edits>> \/ Commit(p) \/ \E e \in Rule : Edit(p, e)
  BY Zenon DEF Act, Boot, Serve, Crash, Validate, Restart, LookTables, Look, ReadUsers, ReadRules,
               CreateTables, Add, Raise, database, Go
<1> QED
  BY <1>4, <1>6, <1>7, <1>8

\* Every part of the state stays what it should be.
LEMMA BootTypesKeep ==
    ASSUME BootInv, NEW p \in Proc, Act(p) PROVE BootTypes'
<1>1. /\ schema' \subseteq Parts /\ users' \in BOOLEAN /\ rules' \in [Rule -> Rows]
      /\ alerts' \subseteq AlertRows
  BY DatabaseGrows DEF BootInv
<1>2. step' \in [Proc -> Steps] /\ read' \in [Proc -> Reads]
  BY Goes DEF BootInv
<1>3. edits' \subseteq Rule
  BY EditsKeep
<1> QED
  BY <1>1, <1>2, <1>3 DEF BootTypes

\* What holds of every start holds before any, whatever database it finds.
LEMMA StartupInitially == StartupInit => BootInv
<1> SUFFICES ASSUME StartupInit PROVE BootInv
  OBVIOUS
<1>1. PICK d \in Databases :
         schema = d.schema /\ users = d.users /\ rules = d.rules /\ alerts = d.alerts
  BY DEF StartupInit
<1>2. /\ schema \subseteq Parts /\ users \in BOOLEAN /\ rules \in [Rule -> Rows]
      /\ alerts \subseteq AlertRows
      /\ \A a \in alerts : (a.phase = "stale" /\ a.rule \in Corrected) => rules[a.rule].phase = "stale"
  BY <1>1, DatabaseAssumption
<1>3. /\ step = [p \in Proc |-> "down"] /\ read = [p \in Proc |-> Nothing] /\ edits = {}
  BY DEF StartupInit
<1>4. BootTypes
  BY <1>2, <1>3, NothingRows DEF BootTypes, Steps
<1>5. \A p \in Proc : step[p] = "down"
  BY <1>3
<1>6. SchemaInv
  BY <1>5 DEF SchemaInv, SchemaOf, Installed
<1>7. UsersInv
  BY <1>5 DEF UsersInv, UsersOf, Installed
<1>8. RulesInv
  BY <1>5 DEF RulesInv, Installed
<1>9. AlertsInv
  BY <1>2, <1>5 DEF AlertsInv, Installed
<1>10. SettingsInv
  BY <1>5 DEF SettingsInv
<1>11. EditsInv
  BY <1>3 DEF EditsInv
<1> QED
  BY <1>4, <1>6, <1>7, <1>8, <1>9, <1>10, <1>11 DEF BootInv

\* Nothing of it depends on more than the database and where the starts are.
LEMMA StartupStutters == ASSUME BootInv, UNCHANGED startup PROVE BootInv'
<1>1. UNCHANGED <<settings, schema, users, rules, alerts, step, read, edits>>
  BY DEF startup, database
<1>2. problems' = problems
  BY <1>1 DEF problems
<1>3. BootTypes' /\ SchemaInv' /\ UsersInv'
  BY <1>1 DEF BootInv, BootTypes, SchemaInv, SchemaOf, UsersInv, UsersOf
<1>4. RulesInv' /\ AlertsInv'
  BY <1>1 DEF BootInv, RulesInv, AlertsInv
<1>5. SettingsInv' /\ EditsInv'
  BY <1>1, <1>2 DEF BootInv, SettingsInv, EditsInv
<1> QED
  BY <1>3, <1>4, <1>5 DEF BootInv

\* Every step of the service is one of a start, of an administrator, or leaves starts alone.
LEMMA ServiceActs ==
    ASSUME [Next]_vars
    PROVE  UNCHANGED startup \/ \E p \in Proc : Act(p)
<1>1. CASE Limits
  BY <1>1 DEF Limits
<1>2. ASSUME NEW p \in Proc, Starts(p) \/ Serves(p) \/ Ends(p) \/ Works(p) PROVE Act(p)
  BY <1>2, Zenon DEF Starts, Serves, Ends, Works, Act
<1>3. CASE UNCHANGED vars
  BY <1>3 DEF vars
<1> QED
  BY <1>1, <1>2, <1>3 DEF Next

\* The promise of a start: what brings each process where it is holds of the database.
THEOREM StartInvariant == Spec => []BootInv
<1>1. Init => BootInv
  BY StartupInitially DEF Init
<1>2. BootInv /\ [Next]_vars => BootInv'
  <2> SUFFICES ASSUME BootInv, [Next]_vars PROVE BootInv'
    OBVIOUS
  <2>1. ASSUME NEW p \in Proc, Act(p) PROVE BootInv'
    BY <2>1, BootTypesKeep, SchemaKeeps, UsersKeep, RulesKeep, AlertsKeep, SettingsKeep, EditsKeep
       DEF BootInv
  <2> QED
    BY <2>1, StartupStutters, ServiceActs
<1> QED
  BY <1>1, <1>2, PTL DEF Spec

\* A process that serves finds a complete schema, an account, every rule with its phase and
\* parameters, every alert with its key and no phase of the old kind, and settings fit for
\* production: for any number of processes, databases and kills (init_db.py:216-232).
THEOREM AlwaysReady == Spec => []Ready
<1>1. BootInv => Ready
  <2> SUFFICES ASSUME BootInv, NEW p \in Proc, step[p] \in Installed
               PROVE  /\ schema = Parts /\ users
                      /\ \A r \in Rule : Good(r, rules[r])
                      /\ \A a \in alerts :
                            (a.source => a.key) /\ (a.phase = "stale" => a.rule \notin Corrected)
                      /\ settings.production => settings.problems = {}
    BY Zenon DEF Ready, Installed, Good
  <2>1. schema = Parts
    BY DEF BootInv, SchemaInv, SchemaOf
  <2>2. users
    BY DEF BootInv, UsersInv, UsersOf
  <2>3. \A r \in Rule : Good(r, rules[r])
    BY DEF BootInv, RulesInv
  <2>4. \A a \in alerts : a.source => a.key
    BY DEF BootInv, AlertsInv
  <2>5. ASSUME NEW a \in alerts, a.phase = "stale", a.rule \in Corrected PROVE FALSE
    <3>1. rules[a.rule].phase = "stale"
      BY <2>5 DEF BootInv, AlertsInv
    <3>2. a.rule \in Rule
      BY StartupAssumption, <2>5
    <3> QED
      BY <2>3, <2>5, <3>1, <3>2 DEF Good
  <2>6. settings.production => settings.problems = {}
    BY DEF BootInv, SettingsInv, Installed, problems
  <2> QED
    BY <2>1, <2>2, <2>3, <2>4, <2>5, <2>6
<1> QED
  BY <1>1, StartInvariant, PTL

\* What an administrator changed survives every later start, whoever starts and however
\* often, unless a start had read the rules and not yet committed (init_db.py:351-366).
THEOREM EditsSurvive == Spec => []EditsKept
<1>1. BootInv => EditsKept
  BY DEF BootInv, EditsInv, EditsKept
<1> QED
  BY <1>1, StartInvariant, PTL

\* The service is one the limiter's own specification describes: starts, edits and alerts
\* leave the buckets alone, serving installs them and a kill loses them.
THEOREM ServiceLimits == Spec => LimitSpec
<1>1. Init => LimitInit
  BY DEF Init
<1>2. [Next]_vars => [LimitNext]_limit
  <2> SUFFICES ASSUME [Next]_vars PROVE LimitNext \/ UNCHANGED limit
    OBVIOUS
  <2>1. CASE Limits
    BY <2>1 DEF Limits, LimitNext
  <2>2. ASSUME NEW p \in Proc, Starts(p) \/ Works(p) PROVE UNCHANGED limit
    BY <2>2 DEF Starts, Works
  <2>3. ASSUME NEW p \in Proc, Serves(p) PROVE LimitNext
    <3>1. store_kind \in {"in_process", "redis"} /\ Install(p, store_kind)
      BY <2>3 DEF Serves, store_kind
    <3> QED
      BY <3>1 DEF LimitNext
  <2>4. ASSUME NEW p \in Proc, Ends(p) PROVE LimitNext
    BY <2>4 DEF Ends, LimitNext
  <2>5. CASE UNCHANGED vars
    BY <2>5 DEF vars
  <2> QED
    BY <2>1, <2>2, <2>3, <2>4, <2>5 DEF Next
<1> QED
  BY <1>1, <1>2, PTL DEF Spec, LimitSpec

\* So no caller of the service is admitted more often than the rate allows, and none is told
\* to come back too soon, across its processes, their starts and their kills.
THEOREM ServiceHonest == Spec => [](LimitHolds /\ RetryHonest)
<1>1. Spec => []LimitHolds
  BY ServiceLimits, LimitAlwaysHolds, PTL
<1>2. Spec => []RetryHonest
  BY ServiceLimits, RetryAlwaysHonest, PTL
<1> QED
  BY <1>1, <1>2, PTL
=============================================================================
