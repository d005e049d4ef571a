---------------------------- MODULE SignInProofs ----------------------------
(***************************************************************************)
(* What sign-in promises for any number of threads, of codes and of        *)
(* versions, and for every mix of requests.                                *)
(***************************************************************************)
EXTENDS SignIn, FiniteSetTheorems, TLAPS

Users == [count : Int, lock : {"none", "running", "over"}, version : Int]
Enrolments == [status : {"absent", "pending", "active", "disabled"},
               codes : SUBSET (Int \X BackupCode)]
Places == {"idle", "fail", "gate", "clear", "mint", "verify", "reread", "disable", "strip",
           "enroll", "confirm", "revoke"}

\* The types of what the two results are about.
Shape ==
    /\ account \in Users /\ mfa \in Enrolments /\ issue \in Int
    /\ pc \in [Worker -> Places]
    /\ seen \in [Worker -> Users] /\ list \in [Worker -> Enrolments]
    /\ evicted \subseteq Int
    /\ sessions \subseteq [version : Int, factors : {1, 2}]

\* A revoked version is behind the row's, as long as no revocation was overtaken.
Behind == ~overtaken => \A v \in evicted : v < account.version

\* Where a second factor is required, a thread on its way to a token has read an
\* enrolment: the gate lets nobody past.
ToToken == {"verify", "reread", "clear", "confirm", "mint"}
Enrolled ==
    policy = "required" => \A w \in Worker : pc[w] \in ToToken => list[w] # NoRow

IInv == Shape /\ Behind /\ Enrolled /\ TwoFactors

-----------------------------------------------------------------------------
LEMMA Initially == Init => IInv
<1> SUFFICES ASSUME Init PROVE IInv OBVIOUS
<1>1. Shape
  BY DEF Init, Shape, Users, Unread, Enrolments, NoRow, Places
<1>2. Behind
  BY DEF Init, Behind
<1>3. Enrolled
  BY DEF Init, Enrolled, ToToken
<1>4. TwoFactors
  BY DEF Init, TwoFactors
<1> QED BY <1>1, <1>2, <1>3, <1>4 DEF IInv

\* The counter and the lock are written, the version is not.
LEMMA FailureKeepsVersion ==
    ASSUME account \in Users, NEW was \in Users
    PROVE  /\ register_failure(was) \in Users
           /\ register_failure(was).version = account.version
<1>1. was.count + 1 \in Int
  BY DEF Users
<1>2. CASE Threshold = 0
  BY <1>2 DEF register_failure
<1>3. CASE Threshold # 0 /\ was.count + 1 >= Threshold
  <2> DEFINE c == IF was.count = 0 THEN account.count ELSE 0
  <2>1. c \in Int
    BY DEF Users
  <2>2. register_failure(was) = [account EXCEPT !.count = c, !.lock = "running"]
    BY <1>3 DEF register_failure
  <2> HIDE DEF c
  <2> QED BY <2>1, <2>2 DEF Users
<1>4. CASE Threshold # 0 /\ ~(was.count + 1 >= Threshold)
  <2>1. register_failure(was) = [account EXCEPT !.count = was.count + 1]
    BY <1>4 DEF register_failure
  <2> QED BY <1>1, <2>1 DEF Users
<1> QED BY <1>2, <1>3, <1>4

LEMMA SuccessKeepsVersion ==
    ASSUME account \in Users, NEW was \in Users
    PROVE  /\ register_success(was) \in Users
           /\ register_success(was).version = account.version
<1>1. PICK c \in Int, k \in {"none", "running", "over"} :
        register_success(was) = [account EXCEPT !.count = c, !.lock = k]
  <2> DEFINE c == IF was.count # 0 THEN 0 ELSE account.count
             k == IF was.lock # "none" THEN "none" ELSE account.lock
  <2>1. c \in Int /\ k \in {"none", "running", "over"}
    BY DEF Users
  <2>2. register_success(was) = [account EXCEPT !.count = c, !.lock = k]
    BY DEF register_success
  <2> QED BY <2>1, <2>2
<1> QED BY <1>1 DEF Users

\* A thread that answers forgets what it has read.
LEMMA AnswerShape ==
    ASSUME Shape, NEW w \in Worker, Answer(w)
    PROVE  /\ pc' \in [Worker -> Places] /\ pc'[w] = "idle"
           /\ seen' \in [Worker -> Users] /\ list' \in [Worker -> Enrolments]
           /\ \A v \in Worker \ {w} : pc'[v] = pc[v] /\ list'[v] = list[v]
BY DEF Answer, Shape, Places, Users, Unread, Enrolments, NoRow

\* What a thread does about the password: nothing it writes is a version, and where a
\* second factor is required the gate answers with a challenge.
LEMMA LoginKeeps == ASSUME IInv, NEW w \in Worker, Login(w) PROVE IInv'
<1> USE DEF IInv
<1>1. CASE LoginWrong(w)
  <2>1. Shape'
    BY <1>1 DEF LoginWrong, Arrives, Shape, Places, row, history
  <2>2. Behind'
    BY <1>1 DEF LoginWrong, Behind, row
  <2>3. Enrolled' /\ TwoFactors'
    BY <1>1 DEF LoginWrong, Enrolled, TwoFactors, ToToken, Shape
  <2> QED BY <2>1, <2>2, <2>3
<1>2. CASE LoginRight(w)
  <2>1. Shape'
    BY <1>2 DEF LoginRight, Arrives, Shape, Places, row, history
  <2>2. Behind'
    BY <1>2 DEF LoginRight, Behind, row, history
  <2>3. Enrolled' /\ TwoFactors'
    BY <1>2 DEF LoginRight, Enrolled, TwoFactors, ToToken, Shape
  <2> QED BY <2>1, <2>2, <2>3
<1>3. CASE RecordFailure(w)
  <2>1. account' \in Users /\ account'.version = account.version
    BY <1>3, FailureKeepsVersion DEF RecordFailure, Shape
  <2>2. Shape'
    BY <1>3, <2>1, AnswerShape DEF RecordFailure, Shape, history
  <2>3. Behind'
    BY <1>3, <2>1 DEF RecordFailure, Behind
  <2>4. Enrolled' /\ TwoFactors'
    BY <1>3, AnswerShape DEF RecordFailure, Enrolled, TwoFactors, ToToken
  <2> QED BY <2>2, <2>3, <2>4
<1>4. CASE Gate(w)
  <2>1. Shape'
    BY <1>4, AnswerShape DEF Gate, Shape, Places, row, history
  <2>2. Behind'
    BY <1>4 DEF Gate, Behind, row, history
  <2>3. policy = "required" => SecondFactor
    BY DEF SecondFactor
  <2>4. Enrolled' /\ TwoFactors'
    BY <1>4, <2>3, AnswerShape DEF Gate, Enrolled, TwoFactors, ToToken
  <2> QED BY <2>1, <2>2, <2>4
<1>5. CASE Clear(w)
  <2>1. account' \in Users /\ account'.version = account.version
    BY <1>5, SuccessKeepsVersion DEF Clear, Shape
  <2>2. Shape'
    BY <1>5, <2>1 DEF Clear, Shape, Places, history
  <2>3. Behind'
    BY <1>5, <2>1 DEF Clear, Behind
  <2>4. Enrolled' /\ TwoFactors'
    BY <1>5 DEF Clear, Enrolled, TwoFactors, ToToken, Shape
  <2> QED BY <2>2, <2>3, <2>4
<1>6. CASE Mint(w)
  <2>1. Shape'
    BY <1>6, AnswerShape DEF Mint, Shape, row, Users, history
  <2>2. Behind'
    BY <1>6 DEF Mint, Behind, row, history
  <2>3. Enrolled'
    BY <1>6, AnswerShape DEF Mint, Enrolled, ToToken
  <2>4. policy = "required" => list[w] # NoRow
    BY <1>6 DEF Mint, Enrolled, ToToken
  <2>5. TwoFactors'
    BY <1>6, <2>4 DEF Mint, TwoFactors
  <2> QED BY <2>1, <2>2, <2>3, <2>5
<1> QED BY <1>1, <1>2, <1>3, <1>4, <1>5, <1>6 DEF Login

\* A thread that reads a code has read an enrolment that is active.
LEMMA ReadCodeKeeps ==
    ASSUME IInv, NEW w \in Worker, NEW c, NEW next \in {"verify", "disable"},
           pc[w] = "idle", ReadCode(w, c, next)
    PROVE  IInv'
<1> USE DEF IInv
<1>1. mfa # NoRow
  BY DEF ReadCode, is_active, NoRow
<1>2. Shape'
  BY DEF ReadCode, Shape, Places, row, history
<1>3. Behind'
  BY DEF ReadCode, Behind, row, history
<1>4. Enrolled' /\ TwoFactors'
  BY <1>1 DEF ReadCode, Enrolled, TwoFactors, ToToken, Shape
<1> QED BY <1>2, <1>3, <1>4

\* Taking a code writes the codes only.
LEMMA TakeCodeKeeps ==
    ASSUME IInv, NEW w \in Worker,
           \/ TakeCode(w, "verify", "reread")
           \/ TakeCode(w, "disable", "strip")
    PROVE  IInv'
<1> USE DEF IInv
<1>1. mfa' \in Enrolments
  BY DEF TakeCode, consume, Shape, Enrolments
<1>2. Shape'
  BY <1>1 DEF TakeCode, Shape, Places, history
<1>3. Behind'
  BY DEF TakeCode, Behind
<1>4. Enrolled' /\ TwoFactors'
  BY DEF TakeCode, Enrolled, TwoFactors, ToToken, Shape
<1> QED BY <1>2, <1>3, <1>4

LEMMA VerifyKeeps == ASSUME IInv, NEW w \in Worker, Verify(w) PROVE IInv'
<1>1. CASE \E c \in mfa.codes \cup {Totp} : VerifyRead(w, c)
  BY <1>1, ReadCodeKeeps DEF VerifyRead, Arrives
<1>2. CASE VerifyTake(w)
  BY <1>2, TakeCodeKeeps DEF VerifyTake
<1>3. CASE Reread(w)
  <2> USE DEF IInv
  <2>1. Shape'
    BY <1>3 DEF Reread, Shape, Places, row, history
  <2>2. Behind'
    BY <1>3 DEF Reread, Behind, row, history
  <2>3. Enrolled' /\ TwoFactors'
    BY <1>3 DEF Reread, Enrolled, TwoFactors, ToToken, Shape
  <2> QED BY <2>1, <2>2, <2>3
<1> QED BY <1>1, <1>2, <1>3 DEF Verify

LEMMA DisableKeeps == ASSUME IInv, NEW w \in Worker, Disable(w) PROVE IInv'
<1>1. CASE \E c \in mfa.codes \cup {Totp} : DisableRead(w, c)
  BY <1>1, ReadCodeKeeps DEF DisableRead, Arrives
<1>2. CASE DisableTake(w)
  BY <1>2, TakeCodeKeeps DEF DisableTake
<1>3. CASE Strip(w)
  <2> USE DEF IInv
  <2>1. Shape'
    BY <1>3, AnswerShape DEF Strip, Shape, Enrolments, history
  <2>2. Behind'
    BY <1>3 DEF Strip, Behind, history
  <2>3. Enrolled' /\ TwoFactors'
    BY <1>3, AnswerShape DEF Strip, Enrolled, TwoFactors, ToToken
  <2> QED BY <2>1, <2>2, <2>3
<1> QED BY <1>1, <1>2, <1>3 DEF Disable

\* An enrolment is confirmed by a thread that has read it; only then comes a token.
LEMMA EnrollKeeps == ASSUME IInv, NEW w \in Worker, Enroll(w) PROVE IInv'
<1> USE DEF IInv
<1>1. CASE EnrollRead(w)
  <2>1. Shape'
    BY <1>1 DEF EnrollRead, Shape, Places, row, history
  <2>2. Behind'
    BY <1>1 DEF EnrollRead, Behind, row, history
  <2>3. Enrolled' /\ TwoFactors'
    BY <1>1 DEF EnrollRead, Enrolled, TwoFactors, ToToken, Shape
  <2> QED BY <2>1, <2>2, <2>3
<1>2. CASE EnrollWrite(w)
  <2>1. mfa' \in Enrolments
    BY <1>2 DEF EnrollWrite, Shape, Enrolments
  <2>2. Shape'
    BY <1>2, <2>1, AnswerShape DEF EnrollWrite, Shape, history
  <2>3. Behind'
    BY <1>2 DEF EnrollWrite, Behind, history
  <2>4. Enrolled' /\ TwoFactors'
    BY <1>2, AnswerShape DEF EnrollWrite, Enrolled, TwoFactors, ToToken
  <2> QED BY <2>2, <2>3, <2>4
<1>3. CASE ConfirmRead(w)
  <2>1. mfa # NoRow
    BY <1>3 DEF ConfirmRead, NoRow
  <2>2. Shape'
    BY <1>3 DEF ConfirmRead, Shape, Places, row, history
  <2>3. Behind'
    BY <1>3 DEF ConfirmRead, Behind, row, history
  <2>4. Enrolled' /\ TwoFactors'
    BY <1>3, <2>1 DEF ConfirmRead, Enrolled, TwoFactors, ToToken, Shape
  <2> QED BY <2>2, <2>3, <2>4
<1>4. CASE ConfirmWrite(w)
  <2>1. mfa' \in Enrolments /\ issue' \in Int
    BY <1>4 DEF ConfirmWrite, Shape, Enrolments
  <2>2. Shape'
    BY <1>4, <2>1 DEF ConfirmWrite, Shape, Places, history
  <2>3. Behind'
    BY <1>4 DEF ConfirmWrite, Behind, history
  <2>4. Enrolled' /\ TwoFactors'
    BY <1>4 DEF ConfirmWrite, Enrolled, TwoFactors, ToToken, Shape
  <2> QED BY <2>2, <2>3, <2>4
<1> QED BY <1>1, <1>2, <1>3, <1>4 DEF Enroll

\* A revocation that writes one more than it read is ahead of every version it ends, and,
\* if none was written since, of those ended before.
LEMMA RevokeKeeps == ASSUME IInv, NEW w \in Worker, Revoke(w) PROVE IInv'
<1> USE DEF IInv
<1>1. CASE RevokeRead(w)
  <2>1. Shape'
    BY <1>1 DEF RevokeRead, Shape, Places, row, history
  <2>2. Behind'
    BY <1>1 DEF RevokeRead, Behind, row, history
  <2>3. Enrolled' /\ TwoFactors'
    BY <1>1 DEF RevokeRead, Enrolled, TwoFactors, ToToken, Shape
  <2> QED BY <2>1, <2>2, <2>3
<1>2. CASE RevokeWrite(w)
  <2>1. /\ account' \in Users /\ account'.version = seen[w].version + 1
        /\ seen[w].version \in Int /\ account.version \in Int
    BY <1>2 DEF RevokeWrite, next_version, Shape, Users
  <2>2. evicted' \subseteq Int
        /\ \A v \in evicted' : v \in evicted \/ v <= seen[w].version
    BY <1>2 DEF RevokeWrite, Shape
  <2>3. Shape'
    BY <1>2, <2>1, <2>2, AnswerShape DEF RevokeWrite, Shape, history
  <2>4. Behind'
    <3> SUFFICES ASSUME ~overtaken', NEW v \in evicted' PROVE v < account'.version
      BY DEF Behind
    <3>1. ~overtaken /\ ~(seen[w].version < account.version)
      BY <1>2 DEF RevokeWrite
    <3>2. v \in Int
      BY <2>2
    <3>3. CASE v \in evicted
      BY <3>1, <3>2, <3>3, <2>1 DEF Behind
    <3>4. CASE v <= seen[w].version
      BY <3>2, <3>4, <2>1
    <3> QED BY <2>2, <3>3, <3>4
  <2>5. Enrolled' /\ TwoFactors'
    BY <1>2, AnswerShape DEF RevokeWrite, Enrolled, TwoFactors, ToToken
  <2> QED BY <2>3, <2>4, <2>5
<1> QED BY <1>1, <1>2 DEF Revoke

\* Time ends locks, challenges and sessions, and mints nothing.
LEMMA TimeKeeps ==
    ASSUME IInv, LockEnds \/ ChallengeEnds \/ SessionEnds \/ UNCHANGED vars
    PROVE  IInv'
<1> USE DEF IInv
<1>1. account' \in Users /\ account'.version = account.version
  BY DEF LockEnds, ChallengeEnds, SessionEnds, vars, row, Shape, Users
<1>2. UNCHANGED <<policy, mfa, issue, pc, seen, list, evicted, overtaken>>
      /\ sessions' \subseteq sessions
  BY DEF LockEnds, ChallengeEnds, SessionEnds, vars, row, request, history
<1>3. Shape'
  BY <1>1, <1>2 DEF Shape, history
<1>4. Behind'
  BY <1>1, <1>2 DEF Behind
<1>5. Enrolled' /\ TwoFactors'
  BY <1>2 DEF Enrolled, TwoFactors
<1> QED BY <1>3, <1>4, <1>5

LEMMA StepKeeps == IInv /\ [Next]_vars => IInv'
BY LoginKeeps, VerifyKeeps, DisableKeeps, EnrollKeeps, RevokeKeeps, TimeKeeps DEF Next

\* The inductive invariant.
THEOREM SignInInvariant == Spec => []IInv
<1>1. Init => IInv
  BY Initially
<1>2. IInv /\ [Next]_vars => IInv'
  BY StepKeeps
<1> QED BY <1>1, <1>2, PTL DEF Spec

\* With MFA_REQUIRED no session is minted for a password alone, whatever the number of
\* threads and however login, verification and confirmation interleave.
THEOREM NobodySkipsTheSecondFactor == Spec => []TwoFactors
<1>1. IInv => TwoFactors
  BY DEF IInv
<1> QED BY <1>1, SignInInvariant, PTL

\* A session that a completed revocation found stays dead, unless a slower revocation
\* wrote an older version back.
THEOREM RevokedStaysRevoked == Spec => []Revocation
<1>1. IInv => Revocation
  BY DEF IInv, Shape, Users, Behind, Revocation, Authenticates
<1> QED BY <1>1, SignInInvariant, PTL

-----------------------------------------------------------------------------
(***************************************************************************)
(* The lockout counts right while requests do not overlap; and threads     *)
(* that overlap, however many, cannot stretch the count past Budget.       *)
(***************************************************************************)
Guessing == {w \in Worker : pc[w] = "fail"}

CountRange ==
    /\ guesses \in Nat /\ overlap \in BOOLEAN
    /\ account.count \in 0..(Threshold - 1)
    /\ \A w \in Worker : seen[w].count \in 0..(Threshold - 1)

\* Without overlap a thread on its way to the counter has read it as it is, and the counter
\* and those about to raise it add up to the passwords that were wrong.
Counted == ~overlap =>
    /\ \A w \in Worker : pc[w] \in {"fail", "gate", "clear"} =>
          /\ seen[w].count = account.count
          /\ (seen[w].lock = "none") <=> (account.lock = "none")
    /\ is_locked => guesses = Threshold /\ Guessing = {} /\ account.count = 0
    /\ ~is_locked => guesses = account.count + Cardinality(Guessing)

CountInv == IInv /\ CountRange /\ Counted

\* A step of thread w that leaves the counter alone.
Aside(w) ==
    /\ account'.count = account.count /\ account'.lock = account.lock
    /\ guesses' = guesses /\ overlap' \in BOOLEAN /\ (overlap => overlap')
    /\ pc[w] # "fail" /\ pc'[w] # "fail"
    /\ pc'[w] \in {"gate", "clear"} =>
          seen'[w] = account \/ (pc[w] = "gate" /\ seen'[w] = seen[w])
    /\ seen'[w] \in {seen[w], account, Unread}
    /\ \A v \in Worker \ {w} : pc'[v] = pc[v] /\ seen'[v] = seen[v]

\* Thread w answers: of the others nothing changes.
LEMMA AnswerFrame ==
    ASSUME Shape, NEW w \in Worker, Answer(w)
    PROVE  /\ pc'[w] = "idle" /\ seen'[w] = Unread
           /\ \A v \in Worker \ {w} : pc'[v] = pc[v] /\ seen'[v] = seen[v] /\ list'[v] = list[v]
                                      /\ code'[v] = code[v]
BY DEF Answer, Shape

\* Only wrong passwords, their records and the end of a sign-in touch the counter.
LEMMA Asides ==
    ASSUME Shape, overlap \in BOOLEAN, NEW w \in Worker,
           \/ LoginRight(w) \/ Gate(w) \/ Mint(w) \/ Verify(w) \/ Disable(w) \/ Enroll(w)
           \/ Revoke(w)
    PROVE  Aside(w)
<1>1. CASE LoginRight(w)
  BY <1>1 DEF LoginRight, Arrives, Shape, Aside, row, history
<1>2. CASE Gate(w)
  <2>1. CASE SecondFactor
    BY <1>2, <2>1, AnswerFrame DEF Gate, Aside, row, history
  <2>2. CASE ~SecondFactor
    BY <1>2, <2>2 DEF Gate, Shape, Aside, row, history
  <2> QED
    BY <2>1, <2>2
<1>3. CASE Mint(w)
  BY <1>3, AnswerFrame DEF Mint, Aside, row, history
<1>4. ASSUME NEW c, VerifyRead(w, c) \/ DisableRead(w, c) PROVE Aside(w)
  <2>1. PICK next \in {"verify", "disable"} : pc[w] = "idle" /\ ReadCode(w, c, next)
    BY <1>4 DEF VerifyRead, DisableRead, Arrives
  <2> QED
    BY <2>1 DEF ReadCode, Shape, Aside, row, history
<1>5. CASE VerifyTake(w) \/ DisableTake(w)
  <2>1. PICK from \in {"verify", "disable"}, next \in {"reread", "strip"} : TakeCode(w, from, next)
    BY <1>5 DEF VerifyTake, DisableTake
  <2>2. overlap' \in BOOLEAN /\ (overlap => overlap')
    <3>1. CASE code[w] = Totp
      BY <2>1, <3>1 DEF TakeCode
    <3>2. CASE code[w] # Totp
      <4>1. overlap' = (overlap \/ ~Alone(w))
        BY <2>1, <3>2 DEF TakeCode
      <4>2. overlap' \in BOOLEAN
        BY <4>1, SMT
      <4>3. overlap => overlap'
        BY <4>1, Zenon
      <4> QED
        BY <4>2, <4>3
    <3> QED
      BY <3>1, <3>2
  <2>3. /\ UNCHANGED <<account, guesses, seen>> /\ pc[w] = from /\ pc' = [pc EXCEPT ![w] = next]
    BY <2>1 DEF TakeCode
  <2>4. /\ pc[w] # "fail" /\ pc'[w] \notin {"fail", "gate", "clear"}
        /\ \A v \in Worker \ {w} : pc'[v] = pc[v]
    BY <2>3 DEF Shape
  <2> QED
    BY <2>2, <2>3, <2>4 DEF Aside
<1>6. CASE Reread(w)
  BY <1>6 DEF Reread, Shape, Aside, row, history
<1>7. CASE Strip(w)
  BY <1>7, AnswerFrame DEF Strip, Aside, history
<1>8. CASE EnrollRead(w) \/ ConfirmRead(w)
  BY <1>8 DEF EnrollRead, ConfirmRead, Arrives, Shape, Aside, row, history
<1>9. CASE EnrollWrite(w)
  BY <1>9, AnswerFrame DEF EnrollWrite, Aside, history
<1>10. CASE ConfirmWrite(w)
  BY <1>10 DEF ConfirmWrite, Shape, Aside, history
<1>11. CASE RevokeRead(w)
  BY <1>11 DEF RevokeRead, Arrives, Shape, Aside, row, history
<1>12. CASE RevokeWrite(w)
  <2>1. account'.count = account.count /\ account'.lock = account.lock
    BY <1>12 DEF RevokeWrite, Shape, Users
  <2> QED
    BY <1>12, <2>1, AnswerFrame DEF RevokeWrite, Aside
<1> QED
  BY <1>1, <1>2, <1>3, <1>4, <1>5, <1>6, <1>7, <1>8, <1>9, <1>10, <1>11, <1>12
     DEF Verify, Disable, Enroll, Revoke

\* Such a step keeps the count true.
LEMMA AsideCounts ==
    ASSUME Shape, CountRange, Counted, NEW w \in Worker, Aside(w)
    PROVE  CountRange' /\ Counted'
<1>1. /\ account'.count = account.count /\ account'.lock = account.lock /\ guesses' = guesses
      /\ \A v \in Worker \ {w} : pc'[v] = pc[v] /\ seen'[v] = seen[v]
      /\ pc[w] # "fail" /\ pc'[w] # "fail" /\ overlap' \in BOOLEAN
  BY DEF Aside
<1>2. CountRange'
  <2>1. Threshold \in Nat /\ 0 <= Threshold - 1
    BY SignInAssumption DEF CountRange
  <2>2. Unread.count \in 0..(Threshold - 1)
    BY <2>1 DEF Unread
  <2>3. ASSUME NEW v \in Worker PROVE seen'[v].count \in 0..(Threshold - 1)
    BY <1>1, <2>2 DEF CountRange, Aside
  <2> QED
    BY <1>1, <2>3 DEF CountRange
<1>3. Guessing' = Guessing
  BY <1>1 DEF Guessing
<1>4. ASSUME ~overlap' PROVE Counted'
  <2>1. ~overlap
    BY <1>4 DEF Aside
  <2>2. ASSUME NEW v \in Worker, pc'[v] \in {"fail", "gate", "clear"}
        PROVE  /\ seen'[v].count = account'.count
               /\ (seen'[v].lock = "none") <=> (account'.lock = "none")
    <3>1. CASE v # w
      BY <1>1, <2>1, <2>2, <3>1 DEF Counted
    <3>2. CASE v = w /\ seen'[w] = account
      BY <1>1, <3>2
    <3>3. CASE v = w /\ pc[w] = "gate" /\ seen'[w] = seen[w]
      BY <1>1, <2>1, <3>3 DEF Counted
    <3> QED
      BY <1>1, <2>2, <3>1, <3>2, <3>3 DEF Aside
  <2>3. is_locked' = is_locked
    BY <1>1 DEF is_locked
  <2> QED
    BY <1>1, <1>3, <2>1, <2>2, <2>3 DEF Counted
<1>5. overlap' => Counted'
  BY DEF Counted
<1> QED
  BY <1>2, <1>4, <1>5

\* A wrong password is one more, and one more that will be recorded.
LEMMA GuessCounts ==
    ASSUME IsFiniteSet(Worker), Shape, CountRange, Counted, NEW w \in Worker, LoginWrong(w)
    PROVE  CountRange' /\ Counted'
<1>1. /\ pc[w] = "idle" /\ pc' = [pc EXCEPT ![w] = "fail"] /\ seen' = [seen EXCEPT ![w] = account]
      /\ guesses' = guesses + 1 /\ overlap' = overlap /\ account' = account /\ ~is_locked
  BY DEF LoginWrong, Arrives, row
<1>2. pc \in [Worker -> Places] /\ seen \in [Worker -> Users]
  BY DEF Shape
<1>3. /\ pc'[w] = "fail" /\ seen'[w] = account
      /\ \A v \in Worker \ {w} : pc'[v] = pc[v] /\ seen'[v] = seen[v]
  BY <1>1, <1>2
<1>4. CountRange'
  BY <1>1, <1>3 DEF CountRange
<1>5. Guessing' = Guessing \cup {w} /\ w \notin Guessing /\ IsFiniteSet(Guessing)
  <2>1. Guessing \in SUBSET Worker
    BY DEF Guessing
  <2>2. IsFiniteSet(Guessing)
    BY <2>1, FS_Subset
  <2> QED
    BY <1>1, <1>3, <2>2 DEF Guessing
<1>6. Cardinality(Guessing') = Cardinality(Guessing) + 1 /\ Cardinality(Guessing) \in Nat
  BY <1>5, FS_AddElement, FS_CardinalityType
<1>7. ASSUME ~overlap' PROVE Counted'
  <2>1. guesses = account.count + Cardinality(Guessing) /\ account.count \in Int
    BY <1>1, <1>7 DEF Counted, CountRange
  <2>2. guesses' = account'.count + Cardinality(Guessing')
    BY <1>1, <1>6, <2>1
  <2>3. \A v \in Worker : pc'[v] \in {"fail", "gate", "clear"} =>
          /\ seen'[v].count = account'.count
          /\ (seen'[v].lock = "none") <=> (account'.lock = "none")
    BY <1>1, <1>3, <1>7 DEF Counted
  <2>4. ~is_locked'
    BY <1>1 DEF is_locked
  <2> QED
    BY <2>2, <2>3, <2>4 DEF Counted
<1>8. overlap' => Counted'
  BY DEF Counted
<1> QED
  BY <1>4, <1>7, <1>8

\* What a record makes of the counter and the lock.
LEMMA FailureRecords ==
    ASSUME account \in Users, NEW was \in Users, Threshold > 0,
           account.count \in 0..(Threshold - 1), was.count \in 0..(Threshold - 1)
    PROVE  LET new == register_failure(was)
           IN  /\ new.count \in 0..(Threshold - 1)
               /\ \/ /\ was.count + 1 = Threshold /\ new.lock = "running"
                     /\ new.count = 0 \/ (was.count = 0 /\ new.count = account.count)
                  \/ /\ was.count + 1 < Threshold /\ new.lock = account.lock
                     /\ new.count = was.count + 1
<1>0. Threshold \in Nat
  BY SignInAssumption
<1>1. CASE was.count + 1 >= Threshold
  <2> DEFINE c == IF was.count = 0 THEN account.count ELSE 0
  <2>1. c \in 0..(Threshold - 1) /\ was.count + 1 = Threshold
    BY <1>0, <1>1
  <2>2. register_failure(was) = [account EXCEPT !.count = c, !.lock = "running"]
    BY <1>1 DEF register_failure
  <2>3. c = 0 \/ (was.count = 0 /\ c = account.count)
    OBVIOUS
  <2> HIDE DEF c
  <2>4. register_failure(was).count = c /\ register_failure(was).lock = "running"
    BY <2>2 DEF Users
  <2> QED
    BY <2>1, <2>3, <2>4
<1>2. CASE ~(was.count + 1 >= Threshold)
  <2>1. register_failure(was) = [account EXCEPT !.count = was.count + 1]
    BY <1>0, <1>2 DEF register_failure
  <2>2. was.count + 1 < Threshold /\ was.count + 1 \in 0..(Threshold - 1)
    BY <1>0, <1>2
  <2>3. /\ register_failure(was).count = was.count + 1
        /\ register_failure(was).lock = account.lock
    BY <2>1 DEF Users
  <2> QED
    BY <2>2, <2>3
<1> QED
  BY <1>1, <1>2

\* The record of a wrong password: alone, it raises the count that is there by one, and the
\* last one locks.
LEMMA RecordCounts ==
    ASSUME Threshold > 0, IsFiniteSet(Worker), Shape, CountRange, Counted, NEW w \in Worker,
           RecordFailure(w)
    PROVE  CountRange' /\ Counted'
<1>0. Threshold \in Nat
  BY SignInAssumption
<1>1. /\ pc[w] = "fail" /\ account' = register_failure(seen[w])
      /\ overlap' = (overlap \/ ~Alone(w)) /\ guesses' = guesses
      /\ pc'[w] = "idle" /\ seen'[w] = Unread
      /\ \A v \in Worker \ {w} : pc'[v] = pc[v] /\ seen'[v] = seen[v]
  BY AnswerFrame DEF RecordFailure
<1>2. /\ account'.count \in 0..(Threshold - 1)
      /\ \/ /\ seen[w].count + 1 = Threshold /\ account'.lock = "running"
            /\ account'.count = 0 \/ (seen[w].count = 0 /\ account'.count = account.count)
         \/ /\ seen[w].count + 1 < Threshold /\ account'.lock = account.lock
            /\ account'.count = seen[w].count + 1
  BY <1>1, FailureRecords DEF Shape, CountRange
<1>3. CountRange'
  <2>1. Unread.count \in 0..(Threshold - 1)
    BY <1>0 DEF Unread
  <2>2. \A v \in Worker : seen'[v].count \in 0..(Threshold - 1)
    BY <1>1, <2>1 DEF CountRange
  <2>3. overlap' \in BOOLEAN
    BY <1>1, SMT
  <2>4. guesses' \in Nat
    BY <1>1 DEF CountRange
  <2> QED
    BY <1>2, <2>2, <2>3, <2>4 DEF CountRange
<1>4. ASSUME ~overlap' PROVE Counted'
  <2>1. ~overlap /\ Alone(w)
    BY <1>1, <1>4, Zenon
  <2>2. \A v \in Worker : pc'[v] = "idle"
    BY <1>1, <2>1 DEF Alone
  <2>3. Guessing' = {} /\ Guessing = {w}
    BY <1>1, <2>1, <2>2 DEF Guessing, Alone
  <2>4. Cardinality(Guessing') = 0 /\ Cardinality(Guessing) = 1
    BY <2>3, FS_EmptySet, FS_Singleton
  <2>5. seen[w].count = account.count
    BY <1>1, <2>1 DEF Counted
  <2>6. ~is_locked
    BY <2>1, <2>3 DEF Counted
  <2>7. guesses = account.count + 1
    BY <2>1, <2>4, <2>6 DEF Counted
  <2>8. account.count \in Int /\ account'.count \in Int
    BY <1>2 DEF CountRange
  <2>9. CASE seen[w].count + 1 = Threshold /\ account'.lock = "running"
    <3>1. guesses' = Threshold /\ account'.count = 0
      BY <1>1, <1>2, <2>5, <2>7, <2>8, <2>9
    <3>2. is_locked'
      BY <2>9 DEF is_locked
    <3> QED
      BY <2>2, <2>3, <3>1, <3>2 DEF Counted
  <2>10. CASE account'.lock = account.lock /\ account'.count = seen[w].count + 1
    <3>1. ~is_locked'
      BY <2>6, <2>10 DEF is_locked
    <3>2. guesses' = account'.count + Cardinality(Guessing')
      BY <1>1, <2>4, <2>5, <2>7, <2>8, <2>10
    <3> QED
      BY <2>2, <3>1, <3>2 DEF Counted
  <2> QED
    BY <1>2, <2>9, <2>10
<1>5. overlap' => Counted'
  BY DEF Counted
<1> QED
  BY <1>3, <1>4, <1>5

\* What a success makes of them: what was read as set is wiped.
LEMMA SuccessWipes ==
    ASSUME account \in Users, NEW was \in Users
    PROVE  LET new == register_success(was)
           IN  /\ new.count = (IF was.count # 0 THEN 0 ELSE account.count)
               /\ new.lock = (IF was.lock # "none" THEN "none" ELSE account.lock)
<1> DEFINE c == IF was.count # 0 THEN 0 ELSE account.count
           k == IF was.lock # "none" THEN "none" ELSE account.lock
<1>1. register_success(was) = [account EXCEPT !.count = c, !.lock = k]
  BY DEF register_success
<1> HIDE DEF c, k
<1>2. register_success(was).count = c /\ register_success(was).lock = k
  BY <1>1 DEF Users
<1> QED
  BY <1>2 DEF c, k

\* The end of a sign-in: alone, it wipes the count there is.
LEMMA ClearCounts ==
    ASSUME Threshold > 0, IsFiniteSet(Worker), Shape, CountRange, Counted, NEW w \in Worker,
           Clear(w)
    PROVE  CountRange' /\ Counted'
<1>0. Threshold \in Nat
  BY SignInAssumption
<1>1. /\ pc[w] = "clear" /\ account' = register_success(seen[w])
      /\ guesses' = IF seen[w].count # 0 \/ seen[w].lock # "none" THEN 0 ELSE guesses
      /\ overlap' = (overlap \/ ~Alone(w)) /\ pc' = [pc EXCEPT ![w] = "mint"] /\ seen' = seen
  BY DEF Clear
<1>2. pc'[w] = "mint" /\ \A v \in Worker \ {w} : pc'[v] = pc[v]
  BY <1>1 DEF Shape
<1>3. /\ account'.count = (IF seen[w].count # 0 THEN 0 ELSE account.count)
      /\ account'.lock = (IF seen[w].lock # "none" THEN "none" ELSE account.lock)
  BY <1>1, SuccessWipes DEF Shape
<1>4. CountRange'
  <2>1. account'.count \in 0..(Threshold - 1) /\ guesses' \in Nat
    BY <1>0, <1>1, <1>3 DEF CountRange
  <2>2. overlap' \in BOOLEAN
    BY <1>1, SMT
  <2> QED
    BY <1>1, <2>1, <2>2 DEF CountRange
<1>5. ASSUME ~overlap' PROVE Counted'
  <2>1. ~overlap /\ Alone(w)
    BY <1>1, <1>5, Zenon
  <2>2. \A v \in Worker : pc[v] # "fail" /\ pc'[v] \in {"idle", "mint"}
    BY <1>1, <1>2, <2>1 DEF Alone
  <2>3. Guessing = {} /\ Guessing' = {}
    BY <2>2 DEF Guessing
  <2>4. Cardinality(Guessing) = 0 /\ Cardinality(Guessing') = 0
    BY <2>3, FS_EmptySet
  <2>5. seen[w].count = account.count /\ ((seen[w].lock = "none") <=> (account.lock = "none"))
    BY <1>1, <2>1 DEF Counted
  <2>6. account'.count = 0 /\ account'.lock = "none"
    BY <1>3, <2>5
  <2>7. ~is_locked'
    BY <2>6 DEF is_locked
  <2>8. guesses' = 0
    <3>1. CASE seen[w].count # 0 \/ seen[w].lock # "none"
      BY <1>1, <3>1
    <3>2. CASE seen[w].count = 0 /\ seen[w].lock = "none"
      <4>1. ~is_locked /\ account.count = 0
        BY <2>5, <3>2 DEF is_locked
      <4>2. guesses = 0
        BY <2>1, <2>4, <4>1 DEF Counted
      <4> QED
        BY <1>1, <3>2, <4>2
    <3> QED
      BY <3>1, <3>2
  <2>9. guesses' = account'.count + Cardinality(Guessing')
    BY <2>4, <2>6, <2>8
  <2> QED
    BY <2>2, <2>7, <2>9 DEF Counted
<1>6. overlap' => Counted'
  BY DEF Counted
<1> QED
  BY <1>4, <1>5, <1>6

\* A lock that ends starts the count anew; sessions and challenges do not touch it.
LEMMA TimeCounts ==
    ASSUME Threshold > 0, Shape, CountRange, Counted,
           LockEnds \/ ChallengeEnds \/ SessionEnds \/ UNCHANGED vars
    PROVE  CountRange' /\ Counted'
<1>1. CASE LockEnds
  <2>1. /\ is_locked /\ account' = [account EXCEPT !.lock = "over"] /\ guesses' = 0
        /\ UNCHANGED <<pc, seen, overlap>>
    BY <1>1 DEF LockEnds, request
  <2>2. /\ account'.count = account.count /\ account'.lock = "over"
        /\ account.lock = "running"
    BY <2>1 DEF Shape, Users, is_locked
  <2>3. CountRange'
    BY <2>1, <2>2 DEF CountRange
  <2>4. ASSUME ~overlap PROVE Counted'
    <3>1. Guessing = {} /\ account.count = 0
      BY <2>1, <2>4 DEF Counted
    <3>2. Guessing' = {}
      BY <2>1, <3>1 DEF Guessing
    <3>3. Cardinality(Guessing') = 0
      BY <3>2, FS_EmptySet
    <3>4. guesses' = account'.count + Cardinality(Guessing')
      BY <2>1, <2>2, <3>1, <3>3
    <3>5. \A w \in Worker : pc'[w] \in {"fail", "gate", "clear"} =>
            /\ seen'[w].count = account'.count
            /\ (seen'[w].lock = "none") <=> (account'.lock = "none")
      BY <2>1, <2>2, <2>4 DEF Counted
    <3>6. ~is_locked'
      BY <2>2 DEF is_locked
    <3> QED
      BY <3>4, <3>5, <3>6 DEF Counted
  <2>5. overlap => Counted'
    BY <2>1 DEF Counted
  <2> QED
    BY <2>3, <2>4, <2>5
<1>2. CASE ChallengeEnds \/ SessionEnds \/ UNCHANGED vars
  <2>1. UNCHANGED <<account, pc, seen, guesses, overlap>>
    BY <1>2 DEF ChallengeEnds, SessionEnds, vars, row, request, history
  <2>2. Guessing' = Guessing /\ is_locked' = is_locked
    BY <2>1 DEF Guessing, is_locked
  <2> QED
    BY <2>1, <2>2 DEF CountRange, Counted
<1> QED
  BY <1>1, <1>2

\* Every step keeps the count true.
LEMMA CountStep ==
    ASSUME Threshold > 0, IsFiniteSet(Worker), Shape, CountRange, Counted, [Next]_vars
    PROVE  CountRange' /\ Counted'
<1>1. ASSUME NEW w \in Worker, Login(w) \/ Verify(w) \/ Disable(w) \/ Enroll(w) \/ Revoke(w)
      PROVE  CountRange' /\ Counted'
  <2>1. CASE LoginWrong(w)
    BY <2>1, GuessCounts
  <2>2. CASE RecordFailure(w)
    BY <2>2, RecordCounts
  <2>3. CASE Clear(w)
    BY <2>3, ClearCounts
  <2>4. CASE \/ LoginRight(w) \/ Gate(w) \/ Mint(w) \/ Verify(w) \/ Disable(w) \/ Enroll(w)
             \/ Revoke(w)
    <3>1. overlap \in BOOLEAN
      BY DEF CountRange
    <3>2. Aside(w)
      BY <2>4, <3>1, Asides
    <3> QED
      BY <3>2, AsideCounts
  <2> QED
    BY <1>1, <2>1, <2>2, <2>3, <2>4 DEF Login
<1> QED
  BY <1>1, TimeCounts DEF Next

LEMMA CountInitially == ASSUME Threshold > 0, Init PROVE CountRange /\ Counted
<1>0. Threshold \in Nat
  BY SignInAssumption
<1>1. /\ account = [count |-> 0, lock |-> "none", version |-> 1]
      /\ pc = [w \in Worker |-> "idle"] /\ seen = [w \in Worker |-> Unread]
      /\ guesses = 0 /\ overlap = FALSE
  BY DEF Init
<1>2. 0 \in 0..(Threshold - 1)
  BY <1>0
<1>3. CountRange
  BY <1>1, <1>2 DEF CountRange, Unread
<1>4. Guessing = {}
  BY <1>1 DEF Guessing
<1>5. Cardinality(Guessing) = 0
  BY <1>4, FS_EmptySet
<1>6. ~is_locked /\ guesses = account.count + Cardinality(Guessing)
  BY <1>1, <1>5 DEF is_locked
<1> QED
  BY <1>1, <1>3, <1>6 DEF Counted

\* While requests are served one at a time, exactly Threshold wrong passwords lock the
\* account, and of those that are not yet recorded there is at most one to a thread
\* (lockout.py:73-103).  A threshold of zero turns the lockout off.
CountedAlone ==
    ~overlap => /\ guesses < Threshold + Cardinality(Worker)
                /\ is_locked => guesses = Threshold

\* For any number of threads: as long as no two of them overlap, the count is exact.
THEOREM LockoutCounts ==
    ASSUME Threshold > 0, IsFiniteSet(Worker), Worker # {} PROVE Spec => []CountedAlone
<1>1. Init => IInv /\ CountRange /\ Counted
  BY Initially, CountInitially
<1>2. IInv /\ CountRange /\ Counted /\ [Next]_vars => (IInv /\ CountRange /\ Counted)'
  BY StepKeeps, CountStep DEF IInv
<1>3. IInv /\ CountRange /\ Counted => CountedAlone
  <2> SUFFICES ASSUME CountRange, Counted, ~overlap
               PROVE  guesses < Threshold + Cardinality(Worker) /\ (is_locked => guesses = Threshold)
    BY DEF CountedAlone
  <2>1. Guessing \in SUBSET Worker
    BY DEF Guessing
  <2>2. Cardinality(Guessing) <= Cardinality(Worker)
    BY <2>1, FS_Subset
  <2>3. IsFiniteSet(Guessing)
    BY <2>1, FS_Subset
  <2>4. /\ Cardinality(Guessing) \in Nat /\ Cardinality(Worker) \in Nat /\ Threshold \in Nat
        /\ account.count \in 0..(Threshold - 1)
    BY <2>3, FS_CardinalityType, SignInAssumption DEF CountRange
  <2>5. CASE is_locked
    <3>1. guesses = Threshold
      BY <2>5 DEF Counted
    <3>2. Cardinality(Worker) > 0
      BY <2>4, FS_EmptySet
    <3> QED
      BY <2>4, <3>1, <3>2
  <2>6. CASE ~is_locked
    <3>1. guesses = account.count + Cardinality(Guessing)
      BY <2>6 DEF Counted
    <3> QED
      BY <2>2, <2>4, <2>6, <3>1
  <2> QED
    BY <2>5, <2>6
<1> QED
  BY <1>1, <1>2, <1>3, PTL DEF Spec

-----------------------------------------------------------------------------
(***************************************************************************)
(* Any number of threads that overlap.  Each stands at a value: what the   *)
(* row holds if the thread is free to read it, what the thread has read if *)
(* it is about to write.  A write takes its thread lower and may take the  *)
(* free threads anywhere below where the highest of them all stood.  Of    *)
(* the highest value there are then fewer threads, so that no standing     *)
(* ever comes back: it falls in lexicographic order.                       *)
(***************************************************************************)
Lower(V, r, s) == \E v \in V : r[v] < s[v] /\ \A u \in V : u > v => r[u] = s[u]
Below(V, M, s) == {r \in M : Lower(V, r, s)}

LEMMA LowerOrder ==
    ASSUME NEW V \in SUBSET Int,
           NEW r \in [V -> Nat], NEW s \in [V -> Nat], NEW t \in [V -> Nat]
    PROVE  /\ ~Lower(V, r, r)
           /\ Lower(V, r, s) /\ Lower(V, s, t) => Lower(V, r, t)
<1>1. ~Lower(V, r, r)
  BY DEF Lower
<1>2. ASSUME Lower(V, r, s), Lower(V, s, t) PROVE Lower(V, r, t)
  <2>1. PICK v \in V : r[v] < s[v] /\ \A u \in V : u > v => r[u] = s[u]
    BY <1>2 DEF Lower
  <2>2. PICK w \in V : s[w] < t[w] /\ \A u \in V : u > w => s[u] = t[u]
    BY <1>2 DEF Lower
  <2>3. v \in Int /\ w \in Int
    OBVIOUS
  <2>4. CASE v < w
    <3>1. r[w] < t[w]
      BY <2>1, <2>2, <2>3, <2>4
    <3>2. ASSUME NEW u \in V, u > w PROVE r[u] = t[u]
      <4>1. u \in Int /\ u > v
        BY <2>3, <2>4, <3>2
      <4> QED
        BY <2>1, <2>2, <3>2, <4>1
    <3> QED
      BY <3>1, <3>2 DEF Lower
  <2>5. CASE w <= v
    <3>1. s[v] <= t[v]
      <4>1. CASE v = w
        BY <2>2, <4>1
      <4>2. CASE v # w
        <5>1. v > w
          BY <2>3, <2>5, <4>2
        <5> QED
          BY <2>2, <5>1
      <4> QED
        BY <4>1, <4>2
    <3>2. r[v] < t[v]
      BY <2>1, <3>1
    <3>3. ASSUME NEW u \in V, u > v PROVE r[u] = t[u]
      <4>1. u \in Int /\ u > w
        BY <2>3, <2>5, <3>3
      <4> QED
        BY <2>1, <2>2, <3>3, <4>1
    <3> QED
      BY <3>2, <3>3 DEF Lower
  <2> QED
    BY <2>3, <2>4, <2>5
<1> QED
  BY <1>1, <1>2

\* What lies below a standing shrinks as it falls, and by the standing itself, if it is
\* among those that are counted.
LEMMA BelowFalls ==
    ASSUME NEW V \in SUBSET Int, NEW M \in SUBSET [V -> Nat], IsFiniteSet(M),
           NEW r \in [V -> Nat], NEW s \in [V -> Nat]
    PROVE  /\ Cardinality(Below(V, M, s)) \in Nat /\ Cardinality(M) \in Nat
           /\ Cardinality(Below(V, M, s)) <= Cardinality(M)
           /\ s \in M => Cardinality(Below(V, M, s)) + 1 <= Cardinality(M)
           /\ Lower(V, r, s) =>
                /\ Cardinality(Below(V, M, r)) <= Cardinality(Below(V, M, s))
                /\ r \in M => Cardinality(Below(V, M, r)) + 1 <= Cardinality(Below(V, M, s))
<1>1. ASSUME NEW t \in [V -> Nat]
      PROVE  /\ Below(V, M, t) \in SUBSET M /\ IsFiniteSet(Below(V, M, t))
             /\ Cardinality(Below(V, M, t)) \in Nat /\ t \notin Below(V, M, t)
             /\ IsFiniteSet(Below(V, M, t) \cup {t})
             /\ Cardinality(Below(V, M, t) \cup {t}) = Cardinality(Below(V, M, t)) + 1
  <2>1. Below(V, M, t) \in SUBSET M
    BY DEF Below
  <2>2. IsFiniteSet(Below(V, M, t))
    BY <2>1, FS_Subset
  <2>3. t \notin Below(V, M, t)
    BY LowerOrder DEF Below
  <2> QED
    BY <2>1, <2>2, <2>3, FS_AddElement, FS_CardinalityType
<1>2. Cardinality(M) \in Nat /\ Cardinality(Below(V, M, s)) <= Cardinality(M)
  BY <1>1, FS_CardinalityType, FS_Subset
<1>3. ASSUME s \in M PROVE Cardinality(Below(V, M, s)) + 1 <= Cardinality(M)
  <2>1. Below(V, M, s) \cup {s} \in SUBSET M
    BY <1>1, <1>3
  <2>2. Cardinality(Below(V, M, s) \cup {s}) <= Cardinality(M)
    BY <2>1, FS_Subset
  <2> QED
    BY <1>1, <2>2
<1>4. ASSUME Lower(V, r, s)
      PROVE  /\ Cardinality(Below(V, M, r)) <= Cardinality(Below(V, M, s))
             /\ r \in M => Cardinality(Below(V, M, r)) + 1 <= Cardinality(Below(V, M, s))
  <2>1. Below(V, M, r) \subseteq Below(V, M, s)
    <3> SUFFICES ASSUME NEW x \in M, Lower(V, x, r) PROVE Lower(V, x, s)
      BY DEF Below
    <3>1. x \in [V -> Nat]
      OBVIOUS
    <3> QED
      BY <1>4, <3>1, LowerOrder
  <2>2. Cardinality(Below(V, M, r)) <= Cardinality(Below(V, M, s))
    BY <1>1, <2>1, FS_Subset
  <2>3. ASSUME r \in M PROVE Cardinality(Below(V, M, r)) + 1 <= Cardinality(Below(V, M, s))
    <3>1. r \in Below(V, M, s)
      BY <1>4, <2>3 DEF Below
    <3>2. Below(V, M, r) \cup {r} \in SUBSET Below(V, M, s)
      BY <2>1, <3>1
    <3>3. Cardinality(Below(V, M, r) \cup {r}) <= Cardinality(Below(V, M, s))
      BY <1>1, <3>2, FS_Subset
    <3> QED
      BY <1>1, <3>3
  <2> QED
    BY <2>2, <2>3
<1> QED
  BY <1>1, <1>2, <1>3, <1>4

\* There are finitely many ways to stand.
LEMMA StandingTypes ==
    ASSUME IsFiniteSet(Worker), NEW V, NEW at
    PROVE  Standing(at, V) \in [V -> Nat]
<1>1. ASSUME NEW v PROVE Cardinality({w \in Worker : at[w] = v}) \in Nat
  <2>1. {w \in Worker : at[w] = v} \in SUBSET Worker
    OBVIOUS
  <2>2. IsFiniteSet({w \in Worker : at[w] = v})
    BY <2>1, FS_Subset
  <2> QED
    BY <2>2, FS_CardinalityType
<1> QED
  BY <1>1 DEF Standing

LEMMA StandingsFinite ==
    ASSUME IsFiniteSet(Worker), NEW V, IsFiniteSet(V)
    PROVE  IsFiniteSet(Standings(V)) /\ Standings(V) \in SUBSET [V -> Nat]
<1> DEFINE Graph(at) == {<<w, at[w]>> : w \in Worker}
           D == {s \in SUBSET (Worker \X V) : \E at \in [Worker -> V] : s = Graph(at)}
           Is(s) == [w \in Worker |-> CHOOSE v \in V : <<w, v>> \in s]
           f == [s \in D |-> Standing(Is(s), V)]
<1>1. IsFiniteSet(SUBSET (Worker \X V))
  BY FS_Product, FS_SUBSET
<1>2. IsFiniteSet(D)
  <2>1. D \in SUBSET SUBSET (Worker \X V)
    OBVIOUS
  <2> QED
    BY <1>1, <2>1, FS_Subset
<1>3. ASSUME NEW at \in [Worker -> V] PROVE Graph(at) \in D /\ Is(Graph(at)) = at
  <2>1. Graph(at) \in SUBSET (Worker \X V)
    OBVIOUS
  <2>2. ASSUME NEW w \in Worker PROVE (CHOOSE v \in V : <<w, v>> \in Graph(at)) = at[w]
    <3>1. \A v \in V : <<w, v>> \in Graph(at) <=> v = at[w]
      OBVIOUS
    <3> HIDE DEF Graph
    <3> QED
      BY <3>1
  <2>3. at = [w \in Worker |-> at[w]]
    OBVIOUS
  <2> HIDE DEF Graph
  <2>4. Is(Graph(at)) = at
    BY <2>2, <2>3
  <2> QED
    BY <2>1, <2>4
<1> HIDE DEF Graph, Is
<1>4. ASSUME NEW s \in D PROVE f[s] \in Standings(V)
  <2>1. PICK at \in [Worker -> V] : s = Graph(at)
    OBVIOUS
  <2>2. Is(s) = at
    BY <1>3, <2>1
  <2>3. f[s] = Standing(at, V)
    BY <2>2
  <2> QED
    BY <2>3 DEF Standings
<1>5. ASSUME NEW x \in Standings(V) PROVE \E s \in D : f[s] = x
  <2>1. PICK at \in [Worker -> V] : x = Standing(at, V)
    BY <1>5 DEF Standings
  <2>2. Graph(at) \in D /\ Is(Graph(at)) = at
    BY <1>3
  <2>3. f[Graph(at)] = x
    BY <2>1, <2>2
  <2> QED
    BY <2>2, <2>3
<1>6. f \in [D -> Standings(V)]
  BY <1>4
<1>7. f \in Surjection(D, Standings(V))
  <2> HIDE DEF f, D
  <2> QED
    BY <1>5, <1>6 DEF Surjection
<1>8. IsFiniteSet(Standings(V))
  <2> HIDE DEF f, D
  <2> QED
    BY <1>2, <1>7, FS_Surjection
<1>9. Standings(V) \in SUBSET [V -> Nat]
  BY StandingTypes DEF Standings
<1> QED
  BY <1>8, <1>9

\* Where i stood highest of all that move, and all of them end lower than i stood.
LEMMA StandingFalls ==
    ASSUME IsFiniteSet(Worker), NEW V \in SUBSET Int, NEW at, NEW to, NEW i \in Worker,
           at[i] \in V,
           \A w \in Worker : to[w] = at[w] \/ (at[w] <= at[i] /\ to[w] < at[i]),
           to[i] < at[i], \A w \in Worker : to[w] \in Int /\ at[w] \in Int
    PROVE  Lower(V, Standing(to, V), Standing(at, V))
<1> DEFINE Here(v) == {w \in Worker : at[w] = v}
           There(v) == {w \in Worker : to[w] = v}
           m == at[i]
<1>1. ASSUME NEW u \in V, u > m PROVE Standing(to, V)[u] = Standing(at, V)[u]
  <2>1. There(u) = Here(u)
    <3>1. ASSUME NEW w \in Worker PROVE to[w] = u <=> at[w] = u
      <4>1. CASE to[w] = at[w]
        BY <4>1
      <4>2. CASE at[w] <= m /\ to[w] < m
        <5>1. u \in Int /\ m \in Int /\ to[w] \in Int /\ at[w] \in Int
          OBVIOUS
        <5> HIDE DEF m
        <5> QED
          BY <1>1, <4>2, <5>1
      <4> QED
        BY <4>1, <4>2
    <3> QED
      BY <3>1
  <2> QED
    BY <2>1 DEF Standing
<1>2. Standing(to, V)[m] < Standing(at, V)[m]
  <2>1. There(m) \in SUBSET Here(m) /\ i \in Here(m) /\ i \notin There(m)
    <3>1. ASSUME NEW w \in Worker, to[w] = m PROVE at[w] = m
      <4>1. to[w] \in Int /\ m \in Int /\ ~(to[w] < m)
        BY <3>1
      <4> QED
        BY <3>1, <4>1
    <3>2. to[i] # m
      <4>1. to[i] \in Int /\ m \in Int
        OBVIOUS
      <4> QED
        BY <4>1
    <3> QED
      BY <3>1, <3>2
  <2>2. Here(m) \in SUBSET Worker
    OBVIOUS
  <2>3. IsFiniteSet(Here(m))
    BY <2>2, FS_Subset
  <2>4. There(m) \in SUBSET (Here(m) \ {i})
    BY <2>1
  <2>5. IsFiniteSet(Here(m) \ {i}) /\ Cardinality(Here(m) \ {i}) = Cardinality(Here(m)) - 1
    BY <2>1, <2>3, FS_RemoveElement
  <2>6. IsFiniteSet(There(m)) /\ Cardinality(There(m)) <= Cardinality(Here(m) \ {i})
    BY <2>4, <2>5, FS_Subset
  <2>7. Cardinality(There(m)) \in Nat /\ Cardinality(Here(m)) \in Nat
    BY <2>3, <2>6, FS_CardinalityType
  <2>8. Cardinality(There(m)) < Cardinality(Here(m))
    <3> HIDE DEF There, Here, m
    <3> QED
      BY <2>5, <2>6, <2>7
  <2> QED
    BY <2>8 DEF Standing
<1> QED
  BY <1>1, <1>2 DEF Lower

\* Thread i writes z, which is lower than where it stands, and who is free, at s, follows.
LEMMA WriteFalls ==
    ASSUME IsFiniteSet(Worker), NEW V \in SUBSET Int,
           NEW at \in [Worker -> V], NEW to \in [Worker -> V],
           NEW i \in Worker, NEW z, NEW s, to[i] = z, z < at[i],
           \A w \in Worker : to[w] = at[w] \/ (to[w] = z /\ at[w] \in {s, at[i]})
    PROVE  Lower(V, Standing(to, V), Standing(at, V))
<1>1. \A w \in Worker : at[w] \in Int /\ to[w] \in Int /\ at[w] \in V
  OBVIOUS
<1>2. CASE \E v \in Worker : to[v] # at[v] /\ at[v] > at[i]
  <2>1. PICK v \in Worker : to[v] # at[v] /\ at[v] > at[i]
    BY <1>2
  <2>2. at[v] = s /\ to[v] = z /\ to[v] < at[v]
    BY <1>1, <2>1
  <2>3. ASSUME NEW x \in Worker PROVE to[x] = at[x] \/ (at[x] <= at[v] /\ to[x] < at[v])
    BY <1>1, <2>1, <2>2
  <2> QED
    BY <1>1, <2>2, <2>3, StandingFalls
<1>3. CASE ~ \E v \in Worker : to[v] # at[v] /\ at[v] > at[i]
  <2>1. ASSUME NEW x \in Worker PROVE to[x] = at[x] \/ (at[x] <= at[i] /\ to[x] < at[i])
    BY <1>1, <1>3
  <2> QED
    BY <1>1, <2>1, StandingFalls
<1> QED
  BY <1>2, <1>3

-----------------------------------------------------------------------------
(***************************************************************************)
(* The lockout.  A thread stands at the failures to go before the record   *)
(* it will write locks the account.                                        *)
(***************************************************************************)
Togo == [w \in Worker |-> Threshold - (IF pc[w] = "fail" THEN seen[w].count ELSE account.count)]
Ways == Standings(1..Threshold)
Rest(at) == Cardinality(Below(1..Threshold, Ways, Standing(at, 1..Threshold)))

\* While the account is open, the guesses that were recorded and the standings still ahead
\* are no more than there are.
Afford ==
    /\ guesses <= Budget
    /\ ~is_locked => (guesses - Cardinality(Guessing)) + Rest(Togo) + 1 <= Cardinality(Ways)

LEMMA RestFacts ==
    ASSUME IsFiniteSet(Worker), Threshold > 0, NEW at \in [Worker -> 1..Threshold]
    PROVE  /\ Rest(at) \in Nat /\ Cardinality(Ways) \in Nat /\ Rest(at) + 1 <= Cardinality(Ways)
           /\ \A to \in [Worker -> 1..Threshold] :
                Lower(1..Threshold, Standing(to, 1..Threshold), Standing(at, 1..Threshold))
                => Rest(to) + 1 <= Rest(at)
<1> DEFINE V == 1..Threshold
<1>0. Threshold \in Nat
  BY SignInAssumption
<1>1. IsFiniteSet(V) /\ V \in SUBSET Int
  BY <1>0, FS_Interval
<1>2. IsFiniteSet(Ways) /\ Ways \in SUBSET [V -> Nat]
  BY <1>1, StandingsFinite DEF Ways
<1>3. ASSUME NEW x \in [Worker -> V]
      PROVE  Standing(x, V) \in Ways /\ Standing(x, V) \in [V -> Nat]
  BY StandingTypes DEF Ways, Standings
<1> HIDE DEF V
<1>4. at \in [Worker -> V] /\ Standing(at, V) \in Ways /\ Standing(at, V) \in [V -> Nat]
  BY <1>3 DEF V
<1>5. ASSUME NEW to \in [Worker -> V], Lower(V, Standing(to, V), Standing(at, V))
      PROVE  Rest(to) + 1 <= Rest(at)
  <2>1. Standing(to, V) \in Ways /\ Standing(to, V) \in [V -> Nat]
    BY <1>3
  <2>2. Cardinality(Below(V, Ways, Standing(to, V))) + 1 <= Cardinality(Below(V, Ways, Standing(at, V)))
    BY <1>1, <1>2, <1>4, <1>5, <2>1, BelowFalls
  <2> QED
    BY <2>2 DEF Rest, V
<1>6. Rest(at) \in Nat /\ Cardinality(Ways) \in Nat /\ Rest(at) + 1 <= Cardinality(Ways)
  <2>1. /\ Cardinality(Below(V, Ways, Standing(at, V))) \in Nat /\ Cardinality(Ways) \in Nat
        /\ Cardinality(Below(V, Ways, Standing(at, V))) + 1 <= Cardinality(Ways)
    BY <1>1, <1>2, <1>4, BelowFalls
  <2> QED
    BY <2>1 DEF Rest, V
<1> QED
  BY <1>5, <1>6 DEF V

\* Where the threads stand.
LEMMA TogoTypes ==
    ASSUME Threshold > 0, CountRange
    PROVE  /\ Togo \in [Worker -> 1..Threshold] /\ Threshold \in Nat /\ guesses \in Nat
           /\ account.count \in 0..(Threshold - 1)
           /\ \A w \in Worker : /\ Togo[w] \in 1..Threshold /\ seen[w].count \in 0..(Threshold - 1)
                                /\ pc[w] = "fail" => Togo[w] = Threshold - seen[w].count
                                /\ pc[w] # "fail" => Togo[w] = Threshold - account.count
<1>1. Threshold \in Nat
  BY SignInAssumption
<1> QED
  BY <1>1 DEF Togo, CountRange

LEMMA BudgetRoom ==
    ASSUME IsFiniteSet(Worker), Threshold > 0, CountRange
    PROVE  /\ Budget \in Nat /\ Budget = Cardinality(Ways) - 1 + Cardinality(Worker)
           /\ Cardinality(Guessing) \in Nat /\ Cardinality(Guessing) <= Cardinality(Worker)
           /\ Cardinality(Worker) \in Nat /\ IsFiniteSet(Guessing)
           /\ Rest(Togo) \in Nat /\ Rest(Togo) + 1 <= Cardinality(Ways) /\ Cardinality(Ways) \in Nat
<1>1. Guessing \in SUBSET Worker
  BY DEF Guessing
<1>2. /\ IsFiniteSet(Guessing) /\ Cardinality(Guessing) <= Cardinality(Worker)
      /\ Cardinality(Guessing) \in Nat /\ Cardinality(Worker) \in Nat
  BY <1>1, FS_Subset, FS_CardinalityType
<1>3. Rest(Togo) \in Nat /\ Rest(Togo) + 1 <= Cardinality(Ways) /\ Cardinality(Ways) \in Nat
  BY TogoTypes, RestFacts
<1>4. Budget = Cardinality(Ways) - 1 + Cardinality(Worker)
  BY DEF Budget, Ways
<1> QED
  BY <1>2, <1>3, <1>4

\* The count starts anew: wherever the threads stand, it is affordable.
LEMMA AffordAnew ==
    ASSUME IsFiniteSet(Worker), Threshold > 0
    PROVE  /\ CountRange /\ guesses = 0 => Afford
           /\ (CountRange /\ guesses = 0 => Afford)'
<1>1. CountRange /\ guesses = 0 => Afford
  <2> HIDE DEF Guessing, Togo, Ways, Budget
  <2> QED
    BY BudgetRoom DEF Afford
<1>2. (CountRange /\ guesses = 0 => Afford)'
  BY <1>1, PTL
<1> QED
  BY <1>1, <1>2

\* Every step of a thread stays affordable.
LEMMA AffordThread ==
    ASSUME IsFiniteSet(Worker), Threshold > 0, NEW w \in Worker,
           Shape, CountRange, CountRange', Afford,
           Login(w) \/ Verify(w) \/ Disable(w) \/ Enroll(w) \/ Revoke(w)
    PROVE  Afford'
<1>1. CASE LoginWrong(w)
  <2>1. /\ pc[w] = "idle" /\ guesses' = guesses + 1 /\ account' = account /\ ~is_locked
        /\ pc' = [pc EXCEPT ![w] = "fail"] /\ seen' = [seen EXCEPT ![w] = account]
    BY <1>1 DEF LoginWrong, Arrives, row
  <2>2. /\ pc'[w] = "fail" /\ seen'[w] = account
        /\ \A v \in Worker \ {w} : pc'[v] = pc[v] /\ seen'[v] = seen[v]
    BY <2>1 DEF Shape
  <2>3. Togo' = Togo
    BY <2>1, <2>2 DEF Togo
  <2>4. Guessing' = Guessing \cup {w} /\ w \notin Guessing
    BY <2>1, <2>2 DEF Guessing
  <2>5. Cardinality(Guessing') = Cardinality(Guessing) + 1
    BY <2>4, BudgetRoom, FS_AddElement
  <2>6. Cardinality(Guessing') <= Cardinality(Worker)
    <3>1. Guessing' \in SUBSET Worker
      BY DEF Guessing
    <3> QED
      BY <3>1, FS_Subset
  <2>7. guesses \in Nat
    BY TogoTypes
  <2>8. (guesses - Cardinality(Guessing)) + Rest(Togo) + 1 <= Cardinality(Ways)
    BY <2>1 DEF Afford
  <2> DEFINE g == Cardinality(Guessing)
             h == Cardinality(Guessing')
             r == Rest(Togo)
             N == Cardinality(Worker)
             W == Cardinality(Ways)
  <2>9. /\ g \in Nat /\ r \in Nat /\ N \in Nat /\ W \in Nat /\ h = g + 1 /\ h <= N
        /\ (guesses - g) + r + 1 <= W /\ Budget = W - 1 + N
    BY <2>5, <2>6, <2>8, BudgetRoom
  <2> HIDE DEF g, h, r, N, W
  <2>10. guesses' <= Budget /\ (guesses' - h) + r + 1 <= W
    BY <2>1, <2>7, <2>9
  <2> QED
    BY <2>3, <2>10 DEF Afford, g, h, r, N, W, Budget, Ways, Rest
<1>2. CASE RecordFailure(w)
  <2>1. /\ pc[w] = "fail" /\ account' = register_failure(seen[w]) /\ guesses' = guesses
        /\ pc'[w] = "idle" /\ \A v \in Worker \ {w} : pc'[v] = pc[v] /\ seen'[v] = seen[v]
    BY <1>2, AnswerFrame DEF RecordFailure
  <2>2. \/ seen[w].count + 1 = Threshold /\ account'.lock = "running"
        \/ /\ seen[w].count + 1 < Threshold /\ account'.lock = account.lock
           /\ account'.count = seen[w].count + 1
    BY <2>1, FailureRecords DEF Shape, CountRange
  <2>3. CASE account'.lock = "running"
    <3>1. is_locked' /\ guesses' <= Budget
      BY <2>1, <2>3 DEF is_locked, Afford
    <3> QED
      BY <3>1 DEF Afford
  <2>4. CASE /\ account'.lock = account.lock /\ account'.count = seen[w].count + 1
    <3> DEFINE at == Togo
               to == Togo'
    <3>1. /\ at \in [Worker -> 1..Threshold] /\ Threshold \in Nat /\ guesses \in Nat
          /\ at[w] = Threshold - seen[w].count /\ seen[w].count \in Int
          /\ \A v \in Worker : /\ pc[v] = "fail" => at[v] = Threshold - seen[v].count
                               /\ pc[v] # "fail" => at[v] = Threshold - account.count
      BY <2>1, TogoTypes
    <3>2. to \in [Worker -> 1..Threshold]
      <4>1. /\ account'.count \in 0..(Threshold - 1)
            /\ \A v \in Worker : seen'[v].count \in 0..(Threshold - 1)
        BY DEF CountRange
      <4> QED
        BY <3>1, <4>1 DEF Togo
    <3>3. \A v \in Worker : to[v] = Threshold - (IF pc'[v] = "fail" THEN seen'[v].count ELSE account'.count)
      BY DEF Togo
    <3> HIDE DEF at, to
    <3>4. to[w] = at[w] - 1
      BY <2>1, <2>4, <3>1, <3>3
    <3>5. ASSUME NEW v \in Worker \ {w}
          PROVE  to[v] = at[v] \/ (at[v] = Threshold - account.count /\ to[v] = at[w] - 1)
      <4>1. CASE pc[v] = "fail"
        BY <2>1, <3>1, <3>3, <4>1
      <4>2. CASE pc[v] # "fail"
        BY <2>1, <2>4, <3>1, <3>3, <4>2
      <4> QED
        BY <4>1, <4>2
    <3>6. Rest(to) + 1 <= Rest(at)
      <4> DEFINE V == 1..Threshold
      <4>1. V \in SUBSET Int /\ at[w] - 1 < at[w]
        BY <3>1
      <4>2. \A v \in Worker : \/ to[v] = at[v]
                              \/ to[v] = at[w] - 1 /\ at[v] \in {Threshold - account.count, at[w]}
        BY <3>4, <3>5
      <4>3. at \in [Worker -> V] /\ to \in [Worker -> V]
        BY <3>1, <3>2
      <4> HIDE DEF V
      <4>4. Lower(V, Standing(to, V), Standing(at, V))
        BY <3>4, <4>1, <4>2, <4>3, WriteFalls
      <4> QED
        BY <3>1, <3>2, <4>4, RestFacts DEF V
    <3>7. Guessing' = Guessing \ {w} /\ w \in Guessing
      BY <2>1 DEF Guessing
    <3>8. Cardinality(Guessing') = Cardinality(Guessing) - 1
      BY <3>7, BudgetRoom, FS_RemoveElement
    <3>9. is_locked' = is_locked
      BY <2>4 DEF is_locked
    <3>10. Rest(to) \in Nat
      BY <3>2, RestFacts
    <3> DEFINE g == Cardinality(Guessing)
               h == Cardinality(Guessing')
               r == Rest(at)
               q == Rest(to)
               W == Cardinality(Ways)
    <3>11. /\ g \in Nat /\ r \in Nat /\ q \in Nat /\ W \in Nat /\ h = g - 1 /\ q + 1 <= r
           /\ ~is_locked => (guesses - g) + r + 1 <= W
      BY <3>6, <3>8, <3>10, BudgetRoom DEF Afford, at
    <3> HIDE DEF g, h, r, q, W
    <3>12. ~is_locked' => (guesses' - h) + q + 1 <= W
      BY <2>1, <3>1, <3>9, <3>11
    <3>13. guesses' <= Budget
      BY <2>1 DEF Afford
    <3> QED
      BY <3>12, <3>13 DEF Afford, h, q, W, to, Budget, Ways, Rest
  <2> QED
    BY <2>2, <2>3, <2>4
<1>3. ASSUME account'.count = account.count, account'.lock = account.lock, guesses' = guesses,
             pc[w] # "fail", pc'[w] # "fail",
             \A v \in Worker \ {w} : pc'[v] = pc[v] /\ seen'[v] = seen[v]
      PROVE  Afford'
  <2>1. Togo' = Togo
    BY <1>3 DEF Togo
  <2>2. Guessing' = Guessing /\ is_locked' = is_locked
    BY <1>3 DEF Guessing, is_locked
  <2> QED
    BY <1>3, <2>1, <2>2 DEF Afford, Budget, Rest, Ways
<1>4. CASE Clear(w)
  <2>1. /\ pc[w] = "clear" /\ account' = register_success(seen[w])
        /\ guesses' = IF seen[w].count # 0 \/ seen[w].lock # "none" THEN 0 ELSE guesses
        /\ pc' = [pc EXCEPT ![w] = "mint"] /\ seen' = seen
    BY <1>4 DEF Clear
  <2>2. pc'[w] = "mint" /\ \A v \in Worker \ {w} : pc'[v] = pc[v]
    BY <2>1 DEF Shape
  <2>3. CASE seen[w].count # 0 \/ seen[w].lock # "none"
    <3>1. guesses' = 0
      BY <2>1, <2>3
    <3> QED
      BY <3>1, AffordAnew
  <2>4. CASE seen[w].count = 0 /\ seen[w].lock = "none"
    <3>1. account'.count = account.count /\ account'.lock = account.lock /\ guesses' = guesses
      BY <2>1, <2>4, SuccessWipes DEF Shape
    <3> QED
      BY <1>3, <2>1, <2>2, <3>1
  <2> QED
    BY <2>3, <2>4
<1>5. CASE \/ LoginRight(w) \/ Gate(w) \/ Mint(w) \/ Verify(w) \/ Disable(w) \/ Enroll(w)
           \/ Revoke(w)
  <2>1. Aside(w)
    BY <1>5, Asides DEF CountRange
  <2> QED
    BY <1>3, <2>1 DEF Aside
<1> QED
  BY <1>1, <1>2, <1>4, <1>5 DEF Login

LEMMA AffordStep ==
    ASSUME IsFiniteSet(Worker), Threshold > 0, Shape, CountRange, CountRange', Afford, [Next]_vars
    PROVE  Afford'
<1>1. ASSUME NEW w \in Worker, Login(w) \/ Verify(w) \/ Disable(w) \/ Enroll(w) \/ Revoke(w)
      PROVE  Afford'
  BY <1>1, AffordThread
<1>2. CASE LockEnds
  BY <1>2, AffordAnew DEF LockEnds
<1>3. CASE ChallengeEnds \/ SessionEnds \/ UNCHANGED vars
  <2>1. UNCHANGED <<account, pc, seen, guesses>>
    BY <1>3 DEF ChallengeEnds, SessionEnds, vars, row, request, history
  <2>2. Togo' = Togo /\ Guessing' = Guessing /\ is_locked' = is_locked
    BY <2>1 DEF Togo, Guessing, is_locked
  <2> QED
    BY <2>1, <2>2 DEF Afford, Budget, Rest, Ways
<1> QED
  BY <1>1, <1>2, <1>3 DEF Next

\* For any number of threads that write over each other's count, no more wrong passwords
\* are checked before a lock falls than Budget; and while requests do not overlap, the
\* threshold is met exactly (lockout.py:73-103).
THEOREM LockoutHolds ==
    ASSUME Threshold > 0, IsFiniteSet(Worker), Worker # {} PROVE Spec => []Lockout
<1>1. Init => IInv /\ CountRange /\ Counted /\ Afford
  <2> SUFFICES ASSUME Init PROVE Afford
    BY Initially, CountInitially
  <2>1. CountRange /\ guesses = 0
    BY CountInitially DEF Init
  <2> QED
    BY <2>1, AffordAnew
<1>2. IInv /\ CountRange /\ Counted /\ Afford /\ [Next]_vars => (IInv /\ CountRange /\ Counted /\ Afford)'
  <2> SUFFICES ASSUME IInv, CountRange, Counted, Afford, [Next]_vars
               PROVE  (IInv /\ CountRange /\ Counted /\ Afford)'
    OBVIOUS
  <2>1. IInv' /\ Shape
    BY StepKeeps DEF IInv
  <2>2. CountRange' /\ Counted'
    BY <2>1, CountStep
  <2>3. Afford'
    BY <2>1, <2>2, AffordStep
  <2> QED
    BY <2>1, <2>2, <2>3
<1>3. Spec => [](CountRange /\ Afford)
  BY <1>1, <1>2, PTL DEF Spec
<1>4. Spec => []CountedAlone
  BY LockoutCounts
<1>5. CountRange /\ Afford /\ CountedAlone => Lockout
  <2> SUFFICES ASSUME CountRange, Afford, CountedAlone PROVE Lockout
    OBVIOUS
  <2>1. Threshold \in Nat
    BY SignInAssumption
  <2> QED
    BY <2>1 DEF Lockout, Afford, CountedAlone
<1> QED
  BY <1>3, <1>4, <1>5, PTL

-----------------------------------------------------------------------------
(***************************************************************************)
(* The one-time codes.  A list of codes is written from one that was read, *)
(* so that a code that was taken comes back with the list of a thread that *)
(* read it earlier.                                                        *)
(***************************************************************************)
Taking == {"verify", "disable"}
Past == (1..issue) \X BackupCode

\* A list holds codes that were issued, and none is accepted before it is.
CodeShape ==
    /\ issue \in 0..MaxIssue /\ overlap \in BOOLEAN
    /\ accepted \in [Issued -> Nat] /\ code \in [Worker -> Issued \cup {Totp}]
    /\ mfa.codes \subseteq Past /\ IsFiniteSet(mfa.codes)
    /\ \A w \in Worker : pc[w] \in Taking =>
          /\ code[w] \in list[w].codes \cup {Totp}
          /\ list[w].codes \subseteq Past /\ IsFiniteSet(list[w].codes)
    /\ \A c \in Issued : c \notin Past => accepted[c] = 0

\* Without overlap no list, stored or held, has a code that was accepted.
Fresh == ~overlap =>
    /\ \A c \in mfa.codes : accepted[c] = 0
    /\ \A w \in Worker : pc[w] \in Taking => \A c \in list[w].codes : accepted[c] = 0
    /\ \A c \in Issued : accepted[c] <= 1

\* What a step of thread w may do that takes no code: read a list to take one from, store
\* an empty list or the one of a new issue, or leave the lists alone.
Reads(w) ==
    /\ pc[w] = "idle" /\ pc'[w] \in Taking /\ list'[w] = mfa
    /\ code'[w] \in mfa.codes \cup {Totp} /\ UNCHANGED <<mfa, issue>>
Stores(w) ==
    /\ pc'[w] \notin Taking /\ (pc[w] \in Taking => code[w] = Totp)
    /\ code' = code \/ code'[w] = Totp
    /\ \/ mfa'.codes \in {mfa.codes, {}} /\ issue' = issue
       \/ issue < MaxIssue /\ issue' = issue + 1 /\ mfa'.codes = {issue + 1} \X BackupCode
Others(w) ==
    \A v \in Worker \ {w} : pc'[v] = pc[v] /\ list'[v] = list[v] /\ code'[v] = code[v]

\* A thread takes a code that is no one-time password of the authenticator.
Takes(w) ==
    /\ pc[w] \in Taking /\ code[w] # Totp /\ pc'[w] \notin Taking
    /\ mfa'.codes = list[w].codes \ {code[w]} /\ issue' = issue
    /\ accepted' = [accepted EXCEPT ![code[w]] = @ + 1]
    /\ overlap' = (overlap \/ ~Alone(w)) /\ UNCHANGED <<list, code>>

\* Every thread does one of these.
LEMMA CodeSteps ==
    ASSUME Shape, CodeShape, NEW w \in Worker,
           Login(w) \/ Verify(w) \/ Disable(w) \/ Enroll(w) \/ Revoke(w)
    PROVE  /\ Others(w) /\ code' \in [Worker -> Issued \cup {Totp}]
           /\ \/ Takes(w)
              \/ /\ accepted' = accepted /\ overlap' \in BOOLEAN /\ (overlap => overlap')
                 /\ Reads(w) \/ Stores(w)
<1>0. /\ pc \in [Worker -> Places] /\ list \in [Worker -> Enrolments] /\ overlap \in BOOLEAN
      /\ code \in [Worker -> Issued \cup {Totp}] /\ mfa.codes \subseteq Issued
  <2>1. issue \in 0..MaxIssue /\ MaxIssue \in Nat
    BY SignInAssumption DEF CodeShape
  <2>2. 1..issue \subseteq 1..MaxIssue
    BY <2>1
  <2>3. Past \subseteq Issued
    BY <2>2 DEF Past, Issued
  <2> QED
    BY <2>3 DEF CodeShape, Shape
<1>1. ASSUME Answer(w)
      PROVE  /\ Others(w) /\ pc'[w] = "idle" /\ code'[w] = Totp
             /\ code' \in [Worker -> Issued \cup {Totp}]
  <2>1. /\ pc' = [pc EXCEPT ![w] = "idle"] /\ list' = [list EXCEPT ![w] = NoRow]
        /\ code' = [code EXCEPT ![w] = Totp]
    BY <1>1 DEF Answer
  <2> QED
    BY <1>0, <2>1 DEF Others
<1>2. ASSUME NEW place, pc' = [pc EXCEPT ![w] = place], place \notin Taking, UNCHANGED <<list, code>>
      PROVE  /\ Others(w) /\ pc'[w] \notin Taking /\ code' = code
             /\ code' \in [Worker -> Issued \cup {Totp}]
  BY <1>0, <1>2 DEF Others
<1>3. CASE LoginWrong(w) \/ LoginRight(w)
  <2>1. PICK place \in {"fail", "gate"} : pc' = [pc EXCEPT ![w] = place]
    BY <1>3 DEF LoginWrong, LoginRight
  <2>2. /\ pc[w] = "idle" /\ UNCHANGED <<mfa, issue, list, code, accepted, overlap>>
    BY <1>3 DEF LoginWrong, LoginRight, Arrives, row, history
  <2>3. place \notin Taking
    BY DEF Taking
  <2>4. pc[w] \notin Taking
    BY <2>2 DEF Taking
  <2>5. Others(w) /\ pc'[w] \notin Taking /\ code' \in [Worker -> Issued \cup {Totp}]
    BY <1>2, <2>1, <2>2, <2>3
  <2> QED
    BY <1>0, <2>2, <2>4, <2>5 DEF Stores
<1>4. CASE RecordFailure(w)
  <2>1. /\ pc[w] = "fail" /\ Answer(w) /\ UNCHANGED <<mfa, issue, accepted>>
        /\ overlap' = (overlap \/ ~Alone(w))
    BY <1>4 DEF RecordFailure
  <2>2. overlap' \in BOOLEAN
    BY <2>1, SMT
  <2>3. overlap => overlap'
    BY <2>1, Zenon
  <2>4. Stores(w)
    BY <1>1, <2>1 DEF Stores, Taking
  <2> QED
    BY <1>1, <2>1, <2>2, <2>3, <2>4
<1>5. CASE Gate(w)
  <2>1. pc[w] = "gate" /\ UNCHANGED <<mfa, issue, accepted, overlap>>
    BY <1>5 DEF Gate, row, history
  <2>2. CASE Answer(w)
    <3>1. Stores(w)
      BY <1>1, <2>1, <2>2 DEF Stores, Taking
    <3> QED
      BY <1>0, <1>1, <2>1, <2>2, <3>1
  <2>3. CASE pc' = [pc EXCEPT ![w] = "clear"] /\ UNCHANGED <<list, code>>
    <3>1. "clear" \notin Taking
      BY DEF Taking
    <3>2. Stores(w) /\ Others(w) /\ code' \in [Worker -> Issued \cup {Totp}]
      BY <1>2, <2>1, <2>3, <3>1 DEF Stores, Taking
    <3> QED
      BY <1>0, <2>1, <3>2
  <2> QED
    BY <1>5, <2>2, <2>3 DEF Gate
<1>6. CASE Clear(w)
  <2>1. /\ pc[w] = "clear" /\ pc' = [pc EXCEPT ![w] = "mint"]
        /\ UNCHANGED <<mfa, issue, list, code, accepted>>
        /\ overlap' = (overlap \/ ~Alone(w))
    BY <1>6 DEF Clear
  <2>2. overlap' \in BOOLEAN
    BY <2>1, SMT
  <2>3. overlap => overlap'
    BY <2>1, Zenon
  <2>4. "mint" \notin Taking /\ pc[w] \notin Taking
    BY <2>1 DEF Taking
  <2>5. Stores(w) /\ Others(w) /\ code' \in [Worker -> Issued \cup {Totp}]
    BY <1>2, <2>1, <2>4 DEF Stores
  <2> QED
    BY <2>1, <2>2, <2>3, <2>5
<1>7. CASE Mint(w) \/ RevokeWrite(w)
  <2>1. /\ pc[w] \in {"mint", "revoke"} /\ Answer(w) /\ UNCHANGED <<mfa, issue, accepted, overlap>>
    BY <1>7 DEF Mint, RevokeWrite, row, history
  <2>2. Stores(w)
    BY <1>1, <2>1 DEF Stores, Taking
  <2> QED
    BY <1>0, <1>1, <2>1, <2>2
<1>8. ASSUME NEW c \in mfa.codes \cup {Totp}, VerifyRead(w, c) \/ DisableRead(w, c)
      PROVE  /\ Others(w) /\ code' \in [Worker -> Issued \cup {Totp}]
             /\ Reads(w) /\ UNCHANGED <<accepted, overlap>>
  <2>1. PICK next \in Taking : pc[w] = "idle" /\ ReadCode(w, c, next)
    BY <1>8 DEF VerifyRead, DisableRead, Arrives, Taking
  <2>2. /\ pc' = [pc EXCEPT ![w] = next] /\ list' = [list EXCEPT ![w] = mfa]
        /\ code' = [code EXCEPT ![w] = c] /\ UNCHANGED <<mfa, issue, accepted, overlap>>
    BY <2>1 DEF ReadCode, row, history
  <2>3. c \in Issued \cup {Totp}
    BY <1>0
  <2>4. /\ pc'[w] \in Taking /\ list'[w] = mfa /\ code'[w] = c
        /\ code' \in [Worker -> Issued \cup {Totp}]
    BY <1>0, <2>2, <2>3
  <2>5. Others(w)
    BY <1>0, <2>2 DEF Others
  <2> QED
    BY <2>1, <2>2, <2>4, <2>5 DEF Reads
<1>9. CASE VerifyTake(w) \/ DisableTake(w)
  <2>1. PICK from \in Taking, next \in {"reread", "strip"} : TakeCode(w, from, next)
    BY <1>9 DEF VerifyTake, DisableTake, Taking
  <2>2. /\ pc[w] \in Taking /\ pc' = [pc EXCEPT ![w] = next] /\ UNCHANGED <<list, code, issue>>
    BY <2>1 DEF TakeCode
  <2>3. next \notin Taking
    BY DEF Taking
  <2>4. Others(w) /\ pc'[w] \notin Taking /\ code' \in [Worker -> Issued \cup {Totp}]
    BY <1>2, <2>2, <2>3
  <2>5. CASE code[w] = Totp
    <3>1. UNCHANGED <<mfa, accepted, overlap>>
      BY <2>1, <2>5 DEF TakeCode
    <3> QED
      BY <1>0, <2>2, <2>4, <2>5, <3>1 DEF Stores
  <2>6. CASE code[w] # Totp
    <3>1. /\ mfa' = consume(w) /\ accepted' = [accepted EXCEPT ![code[w]] = @ + 1]
          /\ overlap' = (overlap \/ ~Alone(w))
      BY <2>1, <2>6 DEF TakeCode
    <3>2. mfa \in Enrolments
      BY DEF Shape
    <3>3. mfa'.codes = list[w].codes \ {code[w]}
      BY <3>1, <3>2 DEF consume, Enrolments
    <3>4. Takes(w)
      BY <2>2, <2>4, <2>6, <3>1, <3>3 DEF Takes
    <3> QED
      BY <2>4, <3>4
  <2> QED
    BY <2>5, <2>6
<1>10. CASE Reread(w)
  <2>1. /\ pc[w] = "reread" /\ pc' = [pc EXCEPT ![w] = "clear"]
        /\ UNCHANGED <<mfa, issue, list, code, accepted, overlap>>
    BY <1>10 DEF Reread, row, history
  <2>2. "clear" \notin Taking /\ pc[w] \notin Taking
    BY <2>1 DEF Taking
  <2>3. Others(w) /\ pc'[w] \notin Taking /\ code' \in [Worker -> Issued \cup {Totp}]
    BY <1>2, <2>1, <2>2
  <2> QED
    BY <1>0, <2>1, <2>2, <2>3 DEF Stores
<1>11. CASE Strip(w)
  <2>1. /\ pc[w] = "strip" /\ Answer(w) /\ mfa'.codes = {} /\ UNCHANGED <<issue, accepted, overlap>>
    BY <1>11 DEF Strip, history
  <2>2. Stores(w)
    BY <1>1, <2>1 DEF Stores, Taking
  <2> QED
    BY <1>0, <1>1, <2>1, <2>2
<1>12. CASE EnrollRead(w) \/ ConfirmRead(w)
  <2>1. PICK place \in {"enroll", "confirm"} : pc' = [pc EXCEPT ![w] = place]
    BY <1>12 DEF EnrollRead, ConfirmRead
  <2>2. /\ pc[w] = "idle" /\ UNCHANGED <<mfa, issue, code, accepted, overlap>>
        /\ list' = [list EXCEPT ![w] = mfa]
    BY <1>12 DEF EnrollRead, ConfirmRead, Arrives, row, history
  <2>3. place \notin Taking /\ pc[w] \notin Taking
    BY <2>2 DEF Taking
  <2>4. pc'[w] \notin Taking /\ Others(w)
    BY <1>0, <2>1, <2>2, <2>3 DEF Others
  <2> QED
    BY <1>0, <2>2, <2>3, <2>4 DEF Stores
<1>13. CASE EnrollWrite(w)
  <2>1. /\ pc[w] = "enroll" /\ Answer(w) /\ UNCHANGED <<issue, accepted, overlap>>
        /\ mfa'.codes \in {mfa.codes, {}}
    BY <1>13 DEF EnrollWrite, history
  <2>2. Stores(w)
    BY <1>1, <2>1 DEF Stores, Taking
  <2> QED
    BY <1>0, <1>1, <2>1, <2>2
<1>14. CASE ConfirmWrite(w)
  <2>1. /\ pc[w] = "confirm" /\ pc' = [pc EXCEPT ![w] = "mint"]
        /\ UNCHANGED <<list, code, accepted, overlap>>
        /\ issue < MaxIssue /\ issue' = issue + 1 /\ mfa'.codes = {issue + 1} \X BackupCode
    BY <1>14 DEF ConfirmWrite, history
  <2>2. "mint" \notin Taking /\ pc[w] \notin Taking
    BY <2>1 DEF Taking
  <2>3. Others(w) /\ pc'[w] \notin Taking /\ code' \in [Worker -> Issued \cup {Totp}]
    BY <1>2, <2>1, <2>2
  <2> QED
    BY <1>0, <2>1, <2>2, <2>3 DEF Stores
<1>15. CASE RevokeRead(w)
  <2>1. /\ pc[w] = "idle" /\ pc' = [pc EXCEPT ![w] = "revoke"]
        /\ UNCHANGED <<mfa, issue, list, code, accepted, overlap>>
    BY <1>15 DEF RevokeRead, Arrives, row, history
  <2>2. "revoke" \notin Taking /\ pc[w] \notin Taking
    BY <2>1 DEF Taking
  <2>3. Others(w) /\ pc'[w] \notin Taking /\ code' \in [Worker -> Issued \cup {Totp}]
    BY <1>2, <2>1, <2>2
  <2> QED
    BY <1>0, <2>1, <2>2, <2>3 DEF Stores
<1> QED
  BY <1>0, <1>3, <1>4, <1>5, <1>6, <1>7, <1>8, <1>9, <1>10, <1>11, <1>12, <1>13, <1>14, <1>15
     DEF Login, Verify, Disable, Enroll, Revoke

\* An issue has as many codes as a confirmation issues.
LEMMA IssueSize ==
    ASSUME IsFiniteSet(BackupCode), NEW i
    PROVE  /\ IsFiniteSet({i} \X BackupCode)
           /\ Cardinality({i} \X BackupCode) <= Cardinality(BackupCode)
<1> DEFINE f == [b \in BackupCode |-> <<i, b>>]
<1>1. f \in [BackupCode -> {i} \X BackupCode]
  OBVIOUS
<1>2. \A t \in {i} \X BackupCode : \E b \in BackupCode : f[b] = t
  OBVIOUS
<1>3. f \in Surjection(BackupCode, {i} \X BackupCode)
  BY <1>1, <1>2 DEF Surjection
<1> QED
  BY <1>3, FS_Surjection

\* What was issued stays so, and no code of a new issue was issued before.
LEMMA PastGrows ==
    ASSUME issue \in 0..MaxIssue
    PROVE  /\ issue' = issue => Past' = Past
           /\ issue' = issue + 1 => /\ Past \subseteq Past'
                                    /\ {issue + 1} \X BackupCode \subseteq Past'
                                    /\ ({issue + 1} \X BackupCode) \cap Past = {}
           /\ Past \subseteq Issued
<1>0. MaxIssue \in Nat
  BY SignInAssumption
<1>1. issue' = issue => Past' = Past
  BY DEF Past
<1>2. ASSUME issue' = issue + 1
      PROVE  /\ Past \subseteq Past' /\ {issue + 1} \X BackupCode \subseteq Past'
             /\ ({issue + 1} \X BackupCode) \cap Past = {}
  <2>1. Past' = (1..issue + 1) \X BackupCode
    BY <1>2 DEF Past
  <2>2. 1..issue \subseteq 1..issue + 1 /\ issue + 1 \in 1..issue + 1 /\ issue + 1 \notin 1..issue
    BY <1>0
  <2> QED
    BY <2>1, <2>2 DEF Past
<1>3. Past \subseteq Issued
  <2>1. 1..issue \subseteq 1..MaxIssue
    BY <1>0
  <2> QED
    BY <2>1 DEF Past, Issued
<1> QED
  BY <1>1, <1>2, <1>3

\* No code of a list is a one-time password of the authenticator.
LEMMA TotpIsNone == Totp \notin Issued
<1>1. MaxIssue \in Nat
  BY SignInAssumption
<1>2. \A c \in Issued : c[1] \in 1..MaxIssue
  BY DEF Issued
<1>3. Totp[1] \notin 1..MaxIssue
  BY <1>1 DEF Totp
<1> QED
  BY <1>2, <1>3

\* The lists go on holding issued codes.
LEMMA CodesKeep ==
    ASSUME IsFiniteSet(BackupCode), Shape, CodeShape, NEW w \in Worker,
           Login(w) \/ Verify(w) \/ Disable(w) \/ Enroll(w) \/ Revoke(w)
    PROVE  CodeShape'
<1>1. /\ Others(w) /\ code' \in [Worker -> Issued \cup {Totp}]
      /\ \/ Takes(w)
         \/ /\ accepted' = accepted /\ overlap' \in BOOLEAN
            /\ Reads(w) \/ Stores(w)
  BY CodeSteps
<1>2. /\ issue \in 0..MaxIssue /\ MaxIssue \in Nat /\ accepted \in [Issued -> Nat]
      /\ mfa.codes \subseteq Past /\ IsFiniteSet(mfa.codes) /\ Past \subseteq Issued
      /\ \A c \in Issued : c \notin Past => accepted[c] = 0
      /\ \A v \in Worker : pc[v] \in Taking =>
            /\ code[v] \in list[v].codes \cup {Totp}
            /\ list[v].codes \subseteq Past /\ IsFiniteSet(list[v].codes)
  BY PastGrows, SignInAssumption DEF CodeShape
<1>3. CASE Takes(w)
  <2>1. /\ pc[w] \in Taking /\ code[w] # Totp /\ pc'[w] \notin Taking
        /\ mfa'.codes = list[w].codes \ {code[w]} /\ issue' = issue
        /\ accepted' = [accepted EXCEPT ![code[w]] = @ + 1]
        /\ overlap' = (overlap \/ ~Alone(w)) /\ UNCHANGED <<list, code>>
    BY <1>3 DEF Takes
  <2>2. code[w] \in list[w].codes /\ list[w].codes \subseteq Past /\ IsFiniteSet(list[w].codes)
    BY <1>2, <2>1
  <2>3. Past' = Past
    BY <2>1, PastGrows DEF CodeShape
  <2>4. mfa'.codes \subseteq Past' /\ IsFiniteSet(mfa'.codes)
    BY <2>1, <2>2, <2>3, FS_RemoveElement
  <2>5. code[w] \in Issued /\ code[w] \in Past
    BY <1>2, <2>2
  <2>6. accepted' \in [Issued -> Nat] /\ \A c \in Issued : c # code[w] => accepted'[c] = accepted[c]
    BY <1>2, <2>1, <2>5
  <2>7. \A c \in Issued : c \notin Past' => accepted'[c] = 0
    BY <1>2, <2>3, <2>5, <2>6
  <2>8. overlap' \in BOOLEAN
    BY <2>1, SMT
  <2>9. ASSUME NEW v \in Worker, pc'[v] \in Taking
        PROVE  /\ code'[v] \in list'[v].codes \cup {Totp}
               /\ list'[v].codes \subseteq Past' /\ IsFiniteSet(list'[v].codes)
    BY <1>1, <1>2, <2>1, <2>3, <2>9 DEF Others
  <2>10. issue' \in 0..MaxIssue
    BY <1>2, <2>1
  <2> QED
    BY <1>1, <2>4, <2>6, <2>7, <2>8, <2>9, <2>10 DEF CodeShape
<1>4. CASE Reads(w) /\ accepted' = accepted /\ overlap' \in BOOLEAN
  <2>1. /\ list'[w] = mfa /\ code'[w] \in mfa.codes \cup {Totp} /\ UNCHANGED <<mfa, issue>>
    BY <1>4 DEF Reads
  <2>2. Past' = Past
    BY <2>1, PastGrows DEF CodeShape
  <2>3. ASSUME NEW v \in Worker, pc'[v] \in Taking
        PROVE  /\ code'[v] \in list'[v].codes \cup {Totp}
               /\ list'[v].codes \subseteq Past' /\ IsFiniteSet(list'[v].codes)
    <3>1. CASE v = w
      BY <1>2, <2>1, <2>2, <3>1
    <3>2. CASE v # w
      BY <1>1, <1>2, <2>2, <2>3, <3>2 DEF Others
    <3> QED
      BY <3>1, <3>2
  <2> QED
    BY <1>1, <1>2, <1>4, <2>1, <2>2, <2>3 DEF CodeShape
<1>5. CASE Stores(w) /\ accepted' = accepted /\ overlap' \in BOOLEAN
  <2>1. /\ Past \subseteq Past' /\ mfa'.codes \subseteq Past' /\ IsFiniteSet(mfa'.codes)
        /\ issue' \in 0..MaxIssue
    <3>1. CASE mfa'.codes \in {mfa.codes, {}} /\ issue' = issue
      <4>1. Past' = Past
        BY <1>2, <3>1, PastGrows
      <4>2. IsFiniteSet({})
        BY FS_EmptySet
      <4> QED
        BY <1>2, <3>1, <4>1, <4>2
    <3>2. CASE /\ issue < MaxIssue /\ issue' = issue + 1 /\ mfa'.codes = {issue + 1} \X BackupCode
      <4>1. Past \subseteq Past' /\ mfa'.codes \subseteq Past'
        BY <1>2, <3>2, PastGrows
      <4>2. IsFiniteSet(mfa'.codes)
        BY <3>2, IssueSize
      <4>3. issue' \in 0..MaxIssue
        BY <1>2, <3>2
      <4> QED
        BY <4>1, <4>2, <4>3
    <3> QED
      BY <1>5, <3>1, <3>2 DEF Stores
  <2>2. ASSUME NEW v \in Worker, pc'[v] \in Taking
        PROVE  /\ code'[v] \in list'[v].codes \cup {Totp}
               /\ list'[v].codes \subseteq Past' /\ IsFiniteSet(list'[v].codes)
    <3>1. v # w
      BY <1>5, <2>2 DEF Stores
    <3>2. pc'[v] = pc[v] /\ list'[v] = list[v] /\ code'[v] = code[v]
      BY <1>1, <3>1 DEF Others
    <3> QED
      BY <1>2, <2>1, <2>2, <3>2
  <2>3. \A c \in Issued : c \notin Past' => accepted'[c] = 0
    BY <1>2, <1>5, <2>1
  <2> QED
    BY <1>1, <1>2, <1>5, <2>1, <2>2, <2>3 DEF CodeShape
<1> QED
  BY <1>1, <1>3, <1>4, <1>5

\* Without overlap no code comes back.
LEMMA FreshKeeps ==
    ASSUME Shape, CodeShape, Fresh, NEW w \in Worker,
           Login(w) \/ Verify(w) \/ Disable(w) \/ Enroll(w) \/ Revoke(w)
    PROVE  Fresh'
<1> SUFFICES ASSUME ~overlap' PROVE Fresh'
  BY DEF Fresh
<1>1. /\ Others(w)
      /\ \/ Takes(w)
         \/ /\ accepted' = accepted /\ (overlap => overlap')
            /\ Reads(w) \/ Stores(w)
  BY CodeSteps
<1>2. /\ issue \in 0..MaxIssue /\ accepted \in [Issued -> Nat]
      /\ mfa.codes \subseteq Past /\ Past \subseteq Issued
      /\ \A c \in Issued : c \notin Past => accepted[c] = 0
      /\ \A v \in Worker : pc[v] \in Taking =>
            code[v] \in list[v].codes \cup {Totp} /\ list[v].codes \subseteq Past
  BY PastGrows DEF CodeShape
<1>3. CASE Takes(w)
  <2>1. ~overlap /\ Alone(w)
    BY <1>3, Zenon DEF Takes
  <2>2. /\ \A c \in list[w].codes : accepted[c] = 0
        /\ \A c \in Issued : accepted[c] <= 1
        /\ code[w] \in list[w].codes /\ code[w] \in Issued
        /\ mfa'.codes = list[w].codes \ {code[w]}
        /\ accepted' = [accepted EXCEPT ![code[w]] = @ + 1]
    BY <1>2, <1>3, <2>1 DEF Fresh, Takes
  <2>3. list[w].codes \subseteq Issued
    BY <1>2, <1>3 DEF Takes
  <2>4. \A c \in Issued : accepted'[c] = IF c = code[w] THEN 1 ELSE accepted[c]
    BY <1>2, <2>2
  <2>5. \A v \in Worker : pc'[v] \notin Taking
    <3>1. ASSUME NEW v \in Worker, v # w PROVE pc'[v] = "idle"
      BY <1>1, <2>1, <3>1 DEF Others, Alone
    <3>2. "idle" \notin Taking /\ pc'[w] \notin Taking
      BY <1>3 DEF Taking, Takes
    <3> QED
      BY <3>1, <3>2
  <2>6. \A c \in mfa'.codes : accepted'[c] = 0
    BY <2>2, <2>3, <2>4
  <2>7. \A c \in Issued : accepted'[c] <= 1
    BY <1>2, <2>2, <2>4
  <2> QED
    BY <2>5, <2>6, <2>7 DEF Fresh
<1>4. CASE Reads(w) /\ accepted' = accepted /\ (overlap => overlap')
  <2>1. ~overlap /\ list'[w] = mfa /\ UNCHANGED mfa
    BY <1>4 DEF Reads
  <2>2. ASSUME NEW v \in Worker, pc'[v] \in Taking, NEW c \in list'[v].codes PROVE accepted'[c] = 0
    <3>1. CASE v = w
      BY <1>4, <2>1, <2>2, <3>1 DEF Fresh
    <3>2. CASE v # w
      BY <1>1, <1>4, <2>1, <2>2, <3>2 DEF Fresh, Others
    <3> QED
      BY <3>1, <3>2
  <2> QED
    BY <1>4, <2>1, <2>2 DEF Fresh
<1>5. CASE Stores(w) /\ accepted' = accepted /\ (overlap => overlap')
  <2>1. ~overlap
    BY <1>5
  <2>2. \A c \in mfa'.codes : accepted'[c] = 0
    <3>1. CASE mfa'.codes \in {mfa.codes, {}}
      BY <1>5, <2>1, <3>1 DEF Fresh
    <3>2. CASE issue < MaxIssue /\ issue' = issue + 1 /\ mfa'.codes = {issue + 1} \X BackupCode
      <4>1. /\ ({issue + 1} \X BackupCode) \cap Past = {} 
            /\ issue + 1 \in 1..MaxIssue
        BY <1>2, <3>2, PastGrows, SignInAssumption
      <4>2. {issue + 1} \X BackupCode \subseteq Issued
        BY <4>1 DEF Issued
      <4> QED
        BY <1>2, <1>5, <3>2, <4>1, <4>2
    <3> QED
      BY <1>5, <3>1, <3>2 DEF Stores
  <2>3. ASSUME NEW v \in Worker, pc'[v] \in Taking, NEW c \in list'[v].codes PROVE accepted'[c] = 0
    <3>1. v # w
      BY <1>5, <2>3 DEF Stores
    <3> QED
      BY <1>1, <1>5, <2>1, <2>3, <3>1 DEF Fresh, Others
  <2> QED
    BY <1>5, <2>1, <2>2, <2>3 DEF Fresh
<1> QED
  BY <1>1, <1>3, <1>4, <1>5

\* Time leaves the codes alone.
LEMMA CodesRest ==
    ASSUME CodeShape, Fresh, LockEnds \/ ChallengeEnds \/ SessionEnds \/ UNCHANGED vars
    PROVE  /\ CodeShape' /\ Fresh'
           /\ UNCHANGED <<mfa, pc, list, code, accepted, overlap, issue>>
<1>1. UNCHANGED <<mfa, issue, pc, list, code, accepted, overlap>>
  BY DEF LockEnds, ChallengeEnds, SessionEnds, vars, row, request, history
<1> QED
  BY <1>1 DEF CodeShape, Fresh, Past

LEMMA CodesInitially == Init => CodeShape /\ Fresh
<1> SUFFICES ASSUME Init PROVE CodeShape /\ Fresh
  OBVIOUS
<1>1. /\ mfa.codes = {} /\ issue = 0 /\ pc = [w \in Worker |-> "idle"]
      /\ code = [w \in Worker |-> Totp] /\ accepted = [c \in Issued |-> 0] /\ overlap = FALSE
  BY DEF Init, NoRow
<1>2. \A w \in Worker : pc[w] \notin Taking
  BY <1>1 DEF Taking
<1>3. IsFiniteSet({}) /\ MaxIssue \in Nat
  BY FS_EmptySet, SignInAssumption
<1>4. CodeShape
  <2>1. IsFiniteSet(mfa.codes) /\ mfa.codes \subseteq Past
    BY <1>1, <1>3
  <2>2. accepted \in [Issued -> Nat] /\ \A c \in Issued : accepted[c] = 0
    BY <1>1
  <2>3. code \in [Worker -> Issued \cup {Totp}]
    BY <1>1
  <2>4. issue \in 0..MaxIssue
    BY <1>1, <1>3
  <2>5. overlap \in BOOLEAN
    BY <1>1, Zenon
  <2> QED
    BY <1>2, <2>1, <2>2, <2>3, <2>4, <2>5 DEF CodeShape
<1>5. Fresh
  BY <1>1, <1>2 DEF Fresh
<1> QED
  BY <1>4, <1>5

\* When the handlers that take codes do not overlap, none is accepted twice, however
\* confirmations, disablings and new enrolments come in between (mfa_service.py:66-77).
OnceAlone == ~overlap => \A c \in Issued : accepted[c] <= 1

\* For any number of threads: as long as no two of them overlap, a code works once.
THEOREM CodesWorkOnce ==
    ASSUME IsFiniteSet(BackupCode) PROVE Spec => []OnceAlone
<1>1. Init => IInv /\ CodeShape /\ Fresh
  BY Initially, CodesInitially
<1>2. IInv /\ CodeShape /\ Fresh /\ [Next]_vars => (IInv /\ CodeShape /\ Fresh)'
  <2> SUFFICES ASSUME IInv, CodeShape, Fresh, [Next]_vars PROVE (IInv /\ CodeShape /\ Fresh)'
    OBVIOUS
  <2>1. IInv' /\ Shape
    BY StepKeeps DEF IInv
  <2>2. CodeShape' /\ Fresh'
    BY <2>1, CodesKeep, FreshKeeps, CodesRest DEF Next
  <2> QED
    BY <2>1, <2>2
<1>3. Fresh => OnceAlone
  BY DEF Fresh, OnceAlone
<1> QED
  BY <1>1, <1>2, <1>3, PTL DEF Spec
-----------------------------------------------------------------------------
(***************************************************************************)
(* Any number of threads that overlap.  A thread stands at the length of   *)
(* the list it has a code in: the stored one if it is free, the one it     *)
(* holds if it is taking a code from it, and none if the code is not on    *)
(* it.  One that takes another code brings the code back in a list shorter *)
(* by one; one that takes the code leaves a list without it.               *)
(***************************************************************************)
Holds(w) == pc[w] \in Taking /\ code[w] # Totp
Codes(w) == IF Holds(w) THEN list[w].codes ELSE mfa.codes
Lengths(c) == [w \in Worker |-> IF c \in Codes(w) THEN Cardinality(Codes(w)) ELSE 0]

Size == Cardinality(BackupCode)
Without == {s \in Standings(0..Size) : s[0] # 0}
Ahead(at) == Cardinality(Below(0..Size, Without, Standing(at, 0..Size)))

\* No list is longer than an issue; what was accepted of a code and what is still ahead of
\* it is no more than Reuse.
Fits ==
    /\ Cardinality(mfa.codes) <= Size
    /\ \A w \in Worker : pc[w] \in Taking => Cardinality(list[w].codes) <= Size
Limited == \A c \in Issued : accepted[c] + Ahead(Lengths(c)) <= Reuse

LEMMA AheadFacts ==
    ASSUME IsFiniteSet(Worker), IsFiniteSet(BackupCode), NEW at \in [Worker -> 0..Size]
    PROVE  /\ Ahead(at) \in Nat /\ Reuse \in Nat /\ Ahead(at) <= Reuse
           /\ \A to \in [Worker -> 0..Size] :
                Lower(0..Size, Standing(to, 0..Size), Standing(at, 0..Size)) =>
                  /\ Ahead(to) <= Ahead(at)
                  /\ \A w \in Worker : to[w] = 0 => Ahead(to) + 1 <= Ahead(at)
<1> DEFINE V == 0..Size
<1>1. IsFiniteSet(V) /\ V \in SUBSET Int /\ 0 \in V
  BY FS_CardinalityType, FS_Interval DEF Size
<1>2. IsFiniteSet(Without) /\ Without \in SUBSET [V -> Nat]
  <2>1. IsFiniteSet(Standings(V)) /\ Standings(V) \in SUBSET [V -> Nat]
    BY <1>1, StandingsFinite
  <2>2. Without \in SUBSET Standings(V)
    BY DEF Without
  <2> QED
    BY <2>1, <2>2, FS_Subset
<1>3. Reuse = Cardinality(Without)
  BY DEF Reuse, Without, Size
<1> HIDE DEF V
<1>4. at \in [Worker -> V]
  BY DEF V
<1>5. ASSUME NEW x \in [Worker -> V] PROVE Standing(x, V) \in [V -> Nat]
  BY StandingTypes
<1>6. ASSUME NEW to \in [Worker -> V], Lower(V, Standing(to, V), Standing(at, V))
      PROVE  /\ Ahead(to) <= Ahead(at)
             /\ \A w \in Worker : to[w] = 0 => Ahead(to) + 1 <= Ahead(at)
  <2>1. /\ Standing(to, V) \in [V -> Nat] /\ Standing(at, V) \in [V -> Nat]
    BY <1>4, <1>5
  <2>2. /\ Cardinality(Below(V, Without, Standing(to, V)))
                <= Cardinality(Below(V, Without, Standing(at, V)))
        /\ Standing(to, V) \in Without =>
              Cardinality(Below(V, Without, Standing(to, V))) + 1
                <= Cardinality(Below(V, Without, Standing(at, V)))
    BY <1>1, <1>2, <1>6, <2>1, BelowFalls
  <2>3. ASSUME NEW w \in Worker, to[w] = 0 PROVE Standing(to, V) \in Without
    <3>1. w \in {v \in Worker : to[v] = 0} /\ {v \in Worker : to[v] = 0} \in SUBSET Worker
      BY <2>3
    <3>2. Cardinality({v \in Worker : to[v] = 0}) # 0
      BY <3>1, FS_Subset, FS_EmptySet
    <3>3. Standing(to, V)[0] # 0
      BY <1>1, <3>2 DEF Standing
    <3>4. Standing(to, V) \in Standings(V)
      BY DEF Standings
    <3> QED
      BY <3>3, <3>4 DEF Without, V
  <2> QED
    BY <2>2, <2>3 DEF Ahead, V
<1>7. Ahead(at) \in Nat /\ Reuse \in Nat /\ Ahead(at) <= Reuse
  <2>1. Standing(at, V) \in [V -> Nat]
    BY <1>4, <1>5
  <2>2. /\ Cardinality(Below(V, Without, Standing(at, V))) \in Nat /\ Cardinality(Without) \in Nat
        /\ Cardinality(Below(V, Without, Standing(at, V))) <= Cardinality(Without)
    BY <1>1, <1>2, <2>1, BelowFalls
  <2> QED
    BY <1>3, <2>2 DEF Ahead, V
<1> QED
  BY <1>6, <1>7 DEF V

\* The lists the threads have.
LEMMA LengthFacts ==
    ASSUME IsFiniteSet(BackupCode), CodeShape, Fits
    PROVE  /\ \A w \in Worker : /\ IsFiniteSet(Codes(w)) /\ Codes(w) \subseteq Past
                                /\ Cardinality(Codes(w)) \in 0..Size
                                /\ Holds(w) => code[w] \in Codes(w)
           /\ \A c : /\ Lengths(c) \in [Worker -> 0..Size]
                     /\ \A w \in Worker : Lengths(c)[w] = IF c \in Codes(w) THEN Cardinality(Codes(w)) ELSE 0
<1>0. Size \in Nat
  BY FS_CardinalityType DEF Size
<1>1. ASSUME NEW w \in Worker
      PROVE  /\ IsFiniteSet(Codes(w)) /\ Codes(w) \subseteq Past /\ Cardinality(Codes(w)) \in 0..Size
             /\ Holds(w) => code[w] \in Codes(w)
  <2>1. /\ IsFiniteSet(Codes(w)) /\ Codes(w) \subseteq Past /\ Cardinality(Codes(w)) <= Size
        /\ Holds(w) => code[w] \in Codes(w)
    BY DEF CodeShape, Codes, Holds, Fits
  <2>2. Cardinality(Codes(w)) \in Nat
    BY <2>1, FS_CardinalityType
  <2> QED
    BY <1>0, <2>1, <2>2
<1>2. ASSUME NEW c
      PROVE  /\ Lengths(c) \in [Worker -> 0..Size]
             /\ \A w \in Worker : Lengths(c)[w] = IF c \in Codes(w) THEN Cardinality(Codes(w)) ELSE 0
  <2>1. 0 \in 0..Size
    BY <1>0
  <2> QED
    BY <1>1, <2>1 DEF Lengths
<1> QED
  BY <1>1, <1>2

LEMMA LengthsNext ==
    ASSUME IsFiniteSet(BackupCode)
    PROVE  (CodeShape /\ Fits =>
              \A c : /\ Lengths(c) \in [Worker -> 0..Size]
                     /\ \A w \in Worker : Lengths(c)[w] = IF c \in Codes(w) THEN Cardinality(Codes(w)) ELSE 0)'
<1>1. CodeShape /\ Fits =>
              \A c : /\ Lengths(c) \in [Worker -> 0..Size]
                     /\ \A w \in Worker : Lengths(c)[w] = IF c \in Codes(w) THEN Cardinality(Codes(w)) ELSE 0
  BY LengthFacts
<1> QED
  BY <1>1, PTL

\* Who stood at a list the code is no longer on stands at none.
LEMMA EmptiedFalls ==
    ASSUME IsFiniteSet(Worker), IsFiniteSet(BackupCode), NEW at \in [Worker -> 0..Size],
           NEW to \in [Worker -> 0..Size], NEW s,
           \A v \in Worker : to[v] = at[v] \/ (to[v] = 0 /\ at[v] = s)
    PROVE  Ahead(to) <= Ahead(at)
<1>1. Ahead(at) \in Nat /\ 0..Size \in SUBSET Int
  BY AheadFacts
<1>2. CASE \A v \in Worker : to[v] = at[v]
  <2>1. to = at
    BY <1>2
  <2> QED
    BY <1>1, <2>1
<1>3. CASE \E v \in Worker : to[v] # at[v]
  <2>1. PICK v \in Worker : to[v] # at[v]
    BY <1>3
  <2>2. to[v] = 0 /\ 0 < at[v] /\ at[v] = s
    <3>1. to[v] = 0 /\ at[v] = s /\ at[v] \in 0..Size
      BY <2>1
    <3> QED
      BY <2>1, <3>1
  <2>3. \A w \in Worker : to[w] = at[w] \/ (to[w] = 0 /\ at[w] \in {s, at[v]})
    OBVIOUS
  <2>4. Lower(0..Size, Standing(to, 0..Size), Standing(at, 0..Size))
    BY <1>1, <2>2, <2>3, WriteFalls
  <2> QED
    BY <2>4, AheadFacts
<1> QED
  BY <1>2, <1>3

\* No list grows longer than an issue.
LEMMA FitsKeeps ==
    ASSUME IsFiniteSet(BackupCode), CodeShape, Fits, NEW w \in Worker, Others(w),
           Takes(w) \/ Reads(w) \/ Stores(w)
    PROVE  Fits'
<1>0. Size \in Nat /\ Size' = Size
  BY FS_CardinalityType DEF Size
<1>1. Cardinality(mfa'.codes) <= Size
  <2>1. CASE Takes(w)
    <3>1. /\ mfa'.codes = list[w].codes \ {code[w]} /\ IsFiniteSet(list[w].codes)
          /\ Cardinality(list[w].codes) <= Size
      BY <2>1 DEF Takes, CodeShape, Fits
    <3>2. mfa'.codes \in SUBSET list[w].codes
      BY <3>1
    <3>3. Cardinality(mfa'.codes) <= Cardinality(list[w].codes) /\ IsFiniteSet(mfa'.codes)
      BY <3>1, <3>2, FS_Subset
    <3>4. Cardinality(mfa'.codes) \in Nat /\ Cardinality(list[w].codes) \in Nat
      BY <3>1, <3>3, FS_CardinalityType
    <3> QED
      BY <1>0, <3>1, <3>3, <3>4
  <2>2. CASE Reads(w) \/ mfa'.codes = mfa.codes
    BY <2>2 DEF Reads, Fits
  <2>3. CASE mfa'.codes = {}
    BY <1>0, <2>3, FS_EmptySet
  <2>4. CASE mfa'.codes = {issue + 1} \X BackupCode
    BY <2>4, IssueSize DEF Size
  <2> QED
    BY <2>1, <2>2, <2>3, <2>4 DEF Stores
<1>2. ASSUME NEW v \in Worker, pc'[v] \in Taking PROVE Cardinality(list'[v].codes) <= Size
  <2>1. CASE v = w
    BY <1>2, <2>1 DEF Takes, Reads, Stores, Fits
  <2>2. CASE v # w
    BY <1>2, <2>2 DEF Others, Fits
  <2> QED
    BY <2>1, <2>2
<1> QED
  BY <1>0, <1>1, <1>2 DEF Fits

\* What a step of thread w does to where the threads stand: only w and who is free move.
LEMMA LengthsMove ==
    ASSUME NEW w \in Worker, Others(w)
    PROVE  \A v \in Worker \ {w} : /\ Holds(v)' = Holds(v)
                                   /\ Holds(v) => Codes(v)' = Codes(v)
                                   /\ ~Holds(v) => Codes(v) = mfa.codes /\ Codes(v)' = mfa'.codes
BY DEF Others, Holds, Codes

\* Every step of a thread stays within what is left of a code.
LEMMA LimitedThread ==
    ASSUME IsFiniteSet(Worker), IsFiniteSet(BackupCode), CodeShape, Fits, Limited,
           NEW w \in Worker, Others(w),
           Takes(w) \/ (accepted' = accepted /\ (Reads(w) \/ Stores(w))), NEW c \in Issued,
           NEW to \in [Worker -> 0..Size],
           \A v \in Worker : to[v] = IF c \in Codes(v)' THEN Cardinality(Codes(v)') ELSE 0
    PROVE  accepted'[c] + Ahead(to) <= Reuse
<1> DEFINE at == Lengths(c)
           V == 0..Size
           F(L) == IF c \in L THEN Cardinality(L) ELSE 0
           s == F(mfa.codes)
<1>0. /\ at \in [Worker -> V] /\ \A v \in Worker : at[v] = F(Codes(v))
      /\ \A v \in Worker : to[v] = F(Codes(v)')
  BY LengthFacts
<1>1. /\ Ahead(at) \in Nat /\ Reuse \in Nat /\ Ahead(to) \in Nat /\ Ahead(to) <= Reuse
      /\ Lower(V, Standing(to, V), Standing(at, V)) =>
           /\ Ahead(to) <= Ahead(at)
           /\ \A v \in Worker : to[v] = 0 => Ahead(to) + 1 <= Ahead(at)
  BY <1>0, AheadFacts
<1>2. accepted[c] \in Nat /\ accepted[c] + Ahead(at) <= Reuse
  BY DEF CodeShape, Limited
<1>3. ASSUME NEW v \in Worker \ {w}
      PROVE  to[v] = at[v] \/ (to[v] = F(mfa'.codes) /\ at[v] = s)
  <2>1. v \in Worker
    OBVIOUS
  <2>2. CASE Holds(v)
    <3>1. Codes(v)' = Codes(v)
      BY <2>2, LengthsMove
    <3> HIDE DEF F, at
    <3> QED
      BY <1>0, <2>1, <3>1
  <2>3. CASE ~Holds(v)
    <3>1. Codes(v)' = mfa'.codes /\ Codes(v) = mfa.codes
      BY <2>3, LengthsMove
    <3> HIDE DEF F, at
    <3> QED
      BY <1>0, <2>1, <3>1
  <2> QED
    BY <2>2, <2>3
<1>4. V \in SUBSET Int /\ \A v \in Worker : at[v] \in Nat /\ to[v] \in Nat
  BY <1>0
<1>5. to = [v \in Worker |-> to[v]] /\ at = [v \in Worker |-> at[v]]
  BY <1>0
<1>6. CASE Takes(w)
  <2> DEFINE L == list[w].codes
             x == code[w]
  <2>1. /\ Holds(w) /\ ~Holds(w)' /\ mfa'.codes = L \ {x} /\ accepted' = [accepted EXCEPT ![x] = @ + 1]
    BY <1>6 DEF Takes, Holds
  <2>2. Codes(w) = L /\ Codes(w)' = L \ {x}
    BY <2>1 DEF Codes
  <2>3. x \in L /\ IsFiniteSet(L) /\ accepted \in [Issued -> Nat]
    BY <2>1, <2>2, LengthFacts DEF CodeShape
  <2>4. /\ Cardinality(L) \in Nat /\ Cardinality(L) # 0 /\ IsFiniteSet(L \ {x})
        /\ Cardinality(L \ {x}) = Cardinality(L) - 1
    BY <2>3, FS_RemoveElement, FS_CardinalityType, FS_EmptySet
  <2>5. at[w] = F(L) /\ to[w] = F(L \ {x}) /\ F(mfa'.codes) = F(L \ {x})
    <3> HIDE DEF F, at, L, x
    <3> QED
      BY <1>0, <2>1, <2>2
  <2>6. CASE c = x
    <3>1. to[w] = 0 /\ to[w] < at[w] /\ F(mfa'.codes) = 0
      BY <2>3, <2>4, <2>5, <2>6
    <3>2. accepted'[c] = accepted[c] + 1
      BY <2>1, <2>3, <2>6
    <3>3. Lower(V, Standing(to, V), Standing(at, V))
      <4>1. \A v \in Worker : to[v] = at[v] \/ (to[v] = 0 /\ at[v] \in {s, at[w]})
        BY <1>3, <3>1
      <4> HIDE DEF at, V, s
      <4> QED
        BY <1>0, <1>4, <3>1, <4>1, WriteFalls DEF V
    <3>4. Ahead(to) + 1 <= Ahead(at)
      BY <1>1, <3>1, <3>3
    <3> HIDE DEF at
    <3> QED
      BY <1>1, <1>2, <3>2, <3>4
  <2>7. CASE c # x
    <3>1. accepted'[c] = accepted[c]
      BY <2>1, <2>3, <2>7
    <3>2. CASE c \in L
      <4>1. at[w] = Cardinality(L) /\ to[w] = at[w] - 1 /\ F(mfa'.codes) = to[w] /\ to[w] < at[w]
        BY <2>4, <2>5, <2>7, <3>2
      <4>2. Lower(V, Standing(to, V), Standing(at, V))
        <5>1. \A v \in Worker : to[v] = at[v] \/ (to[v] = to[w] /\ at[v] \in {s, at[w]})
          BY <1>3, <4>1
        <5> HIDE DEF at, V, s
        <5> QED
          BY <1>0, <1>4, <4>1, <5>1, WriteFalls DEF V
      <4> HIDE DEF at
      <4> QED
        BY <1>1, <1>2, <3>1, <4>2
    <3>3. CASE c \notin L
      <4>1. at[w] = 0 /\ to[w] = 0 /\ F(mfa'.codes) = 0
        BY <2>5, <3>3
      <4>2. \A v \in Worker : to[v] = at[v] \/ (to[v] = 0 /\ at[v] = s)
        BY <1>3, <4>1
      <4>3. Ahead(to) <= Ahead(at)
        <5> HIDE DEF at, s
        <5> QED
          BY <1>0, <4>2, EmptiedFalls
      <4> HIDE DEF at
      <4> QED
        BY <1>1, <1>2, <3>1, <4>3
    <3> QED
      BY <3>2, <3>3
  <2> QED
    BY <2>6, <2>7
<1>7. CASE accepted' = accepted /\ (Reads(w) \/ Stores(w))
  <2>1. Codes(w) = mfa.codes /\ Codes(w)' = mfa'.codes
    BY <1>7 DEF Reads, Stores, Holds, Codes, Taking
  <2>2. at[w] = s /\ to[w] = F(mfa'.codes)
    <3> HIDE DEF F, at
    <3> QED
      BY <1>0, <2>1
  <2>3. \A v \in Worker : to[v] = at[v] \/ (to[v] = F(mfa'.codes) /\ at[v] = s)
    BY <1>3, <2>2
  <2>4. CASE mfa'.codes = mfa.codes
    <3>1. to = at
      <4> HIDE DEF at
      <4> QED
        BY <1>5, <2>3, <2>4
    <3> QED
      BY <1>2, <1>7, <3>1
  <2>5. CASE c \notin mfa'.codes
    <3>1. \A v \in Worker : to[v] = at[v] \/ (to[v] = 0 /\ at[v] = s)
      BY <2>3, <2>5
    <3>2. Ahead(to) <= Ahead(at)
      <4> HIDE DEF at, s
      <4> QED
        BY <1>0, <3>1, EmptiedFalls
    <3> HIDE DEF at
    <3> QED
      BY <1>1, <1>2, <1>7, <3>2
  <2>6. CASE /\ issue' = issue + 1 /\ mfa'.codes = {issue + 1} \X BackupCode /\ c \in mfa'.codes
    <3>1. c \notin Past
      BY <2>6, PastGrows DEF CodeShape
    <3>2. accepted[c] = 0
      BY <3>1 DEF CodeShape
    <3> QED
      BY <1>1, <1>7, <3>2
  <2> QED
    BY <1>7, <2>4, <2>5, <2>6 DEF Reads, Stores
<1> QED
  BY <1>6, <1>7

\* For any number of threads that overlap: a code that was taken can come back in a list
\* another had read, but only so often; when the handlers do not overlap it is accepted
\* once (mfa_service.py:66-77).
THEOREM CodesRunOut ==
    ASSUME IsFiniteSet(BackupCode), IsFiniteSet(Worker) PROVE Spec => []OneTime
<1>1. Init => IInv /\ CodeShape /\ Fits /\ Limited
  <2> SUFFICES ASSUME Init PROVE Fits /\ Limited
    BY Initially, CodesInitially
  <2>1. /\ mfa.codes = {} /\ pc = [w \in Worker |-> "idle"] /\ accepted = [c \in Issued |-> 0]
    BY DEF Init, NoRow
  <2>2. Fits
    <3>1. Size \in Nat /\ Cardinality({}) = 0
      BY FS_CardinalityType, FS_EmptySet DEF Size
    <3> QED
      BY <2>1, <3>1 DEF Fits, Taking
  <2>3. ASSUME NEW c \in Issued PROVE accepted[c] + Ahead(Lengths(c)) <= Reuse
    <3>1. Lengths(c) \in [Worker -> 0..Size]
      BY <2>2, CodesInitially, LengthFacts
    <3>2. Ahead(Lengths(c)) \in Nat /\ Reuse \in Nat /\ Ahead(Lengths(c)) <= Reuse
      BY <3>1, AheadFacts
    <3> QED
      BY <2>1, <3>2
  <2> QED
    BY <2>2, <2>3 DEF Limited
<1>2. IInv /\ CodeShape /\ Fits /\ Limited /\ [Next]_vars => (IInv /\ CodeShape /\ Fits /\ Limited)'
  <2> SUFFICES ASSUME IInv, CodeShape, Fits, Limited, [Next]_vars
               PROVE  (IInv /\ CodeShape /\ Fits /\ Limited)'
    OBVIOUS
  <2>1. IInv' /\ Shape
    BY StepKeeps DEF IInv
  <2>2. CASE LockEnds \/ ChallengeEnds \/ SessionEnds \/ UNCHANGED vars
    <3>1. UNCHANGED <<mfa, issue, pc, list, code, accepted, overlap>>
      BY <2>2 DEF LockEnds, ChallengeEnds, SessionEnds, vars, row, request, history
    <3>2. CodeShape' /\ Fits'
      BY <3>1 DEF CodeShape, Past, Fits, Size
    <3>3. ASSUME NEW c PROVE Lengths(c)' = Lengths(c)
      BY <3>1 DEF Lengths, Codes, Holds
    <3>4. Limited'
      BY <3>1, <3>3 DEF Limited, Ahead, Reuse, Without, Size, Issued
    <3> QED
      BY <2>1, <3>2, <3>4
  <2>3. ASSUME NEW w \in Worker, Login(w) \/ Verify(w) \/ Disable(w) \/ Enroll(w) \/ Revoke(w)
        PROVE  (CodeShape /\ Fits /\ Limited)'
    <3>1. /\ Others(w)
          /\ Takes(w) \/ (accepted' = accepted /\ (Reads(w) \/ Stores(w)))
      BY <2>1, <2>3, CodeSteps
    <3>2. CodeShape'
      BY <2>1, <2>3, CodesKeep
    <3>3. Fits'
      BY <3>1, FitsKeeps
    <3>4. ASSUME NEW c \in Issued PROVE accepted'[c] + Ahead(Lengths(c)') <= Reuse
      <4> DEFINE to == Lengths(c)'
      <4>1. /\ to \in [Worker -> 0..Size]
            /\ \A v \in Worker : to[v] = IF c \in Codes(v)' THEN Cardinality(Codes(v)') ELSE 0
        BY <3>2, <3>3, LengthsNext
      <4> HIDE DEF to
      <4>2. accepted'[c] + Ahead(to) <= Reuse
        BY <3>1, <4>1, LimitedThread
      <4> QED
        BY <4>2 DEF to
    <3>5. Limited'
      BY <3>4 DEF Limited, Ahead, Reuse, Without, Size, Issued
    <3> QED
      BY <3>2, <3>3, <3>5
  <2> QED
    BY <2>1, <2>2, <2>3 DEF Next
<1>3. Spec => [](CodeShape /\ Fits /\ Limited)
  BY <1>1, <1>2, PTL DEF Spec
<1>4. Spec => []OnceAlone
  BY CodesWorkOnce
<1>5. CodeShape /\ Fits /\ Limited /\ OnceAlone => OneTime
  <2> SUFFICES ASSUME CodeShape, Fits, Limited, OnceAlone, NEW c \in Issued
               PROVE  accepted[c] <= IF overlap THEN Reuse ELSE 1
    BY DEF OneTime
  <2>1. Lengths(c) \in [Worker -> 0..Size]
    BY LengthFacts
  <2>2. Ahead(Lengths(c)) \in Nat /\ Reuse \in Nat /\ accepted[c] \in Nat
    BY <2>1, AheadFacts DEF CodeShape
  <2>3. accepted[c] <= Reuse
    BY <2>2 DEF Limited
  <2> QED
    BY <2>3 DEF OnceAlone
<1> QED
  BY <1>3, <1>4, <1>5, PTL
=============================================================================
