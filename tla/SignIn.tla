------------------------------- MODULE SignIn -------------------------------
(***************************************************************************)
(* One account of the console: sign-in, lockout, the second factor, and    *)
(* the sessions a password change or a sign-out revokes.                   *)
(*                                                                         *)
(*   backend/app/api/routes/auth.py      login, mfa_verify, password, ...  *)
(*   backend/app/api/routes/mfa.py       enroll, confirm, disable          *)
(*   backend/app/security/lockout.py     the counter and the lock          *)
(*   backend/app/security/mfa_service.py the codes                         *)
(*   backend/app/auth/dependencies.py    who a token still speaks for      *)
(*                                                                         *)
(* Every handler is a plain function that FastAPI runs on a thread of its  *)
(* own with a database session of its own.  A handler reads the row, works *)
(* (a bcrypt check takes a good part of a second) and writes back columns  *)
(* computed from what it read: threads interleave between the SELECT and   *)
(* every commit.  A commit expires the rows the session holds, so the next *)
(* attribute is read again.  SQLAlchemy writes only columns whose value    *)
(* changed with respect to what was read.                                  *)
(*                                                                         *)
(* Passwords and one-time passwords are abstracted to being right or not;  *)
(* a wrong one-time password changes nothing and is not an action.         *)
(***************************************************************************)
EXTENDS Integers, FiniteSets

CONSTANTS
    Worker,      \* threads that serve requests
    Threshold,   \* LOCKOUT_THRESHOLD
    BackupCode,  \* the one-time codes a confirmation issues
    Policies,    \* subset of {"off", "optional", "required"}: MFA_ENABLED, MFA_REQUIRED
    Traffic,     \* the mixes of requests clients may send, one per behaviour
    MaxVersion,  \* bound: token_version
    MaxIssue     \* bound: how often backup codes are issued

Requests == {"guess", "login", "verify", "enroll", "confirm", "disable", "revoke"}

ASSUME SignInAssumption ==
    /\ Threshold \in Nat /\ MaxVersion \in Nat \ {0} /\ MaxIssue \in Nat
    /\ Policies \subseteq {"off", "optional", "required"}
    /\ Traffic \subseteq SUBSET Requests

Issued == (1..MaxIssue) \X BackupCode   \* backup codes, told apart by their issue

VARIABLES
    policy,     \* the deployment's setting of the second factor
    traffic,    \* what the clients of this behaviour send
    account,    \* the row of users: count, lock, version
    mfa,        \* the row of user_mfa: status, codes
    issue,      \* issues of backup codes so far
    challenge,  \* a client holds a challenge token that has not expired
    sessions,   \* full tokens minted and not expired
    pc,         \* where each thread is
    seen,       \* the users row as the thread read it
    list,       \* the user_mfa row as the thread read it
    code,       \* the code the thread's request presents
    guesses,    \* history: passwords checked and found wrong since the account was last open
    overlap,    \* history: a counter or a list of codes was written while two requests were served
    accepted,   \* history: how often each backup code was accepted
    evicted,    \* history: versions of sessions that a completed revocation had to end
    overtaken   \* history: a revocation wrote over a newer version than it had read

row == <<account, mfa, issue>>
request == <<pc, seen, list, code>>
history == <<guesses, overlap, accepted, evicted, overtaken>>
vars == <<policy, traffic, row, challenge, sessions, request, history>>

Unread == [count |-> 0, lock |-> "none", version |-> 0]
NoRow == [status |-> "absent", codes |-> {}]
Totp == <<0, 0>>   \* a one-time password of the authenticator, of no issue

Init ==
    /\ policy \in Policies /\ traffic \in Traffic
    /\ account = [count |-> 0, lock |-> "none", version |-> 1]
    /\ mfa = NoRow /\ issue = 0
    /\ challenge = FALSE /\ sessions = {}
    /\ pc = [w \in Worker |-> "idle"]
    /\ seen = [w \in Worker |-> Unread] /\ list = [w \in Worker |-> NoRow]
    /\ code = [w \in Worker |-> Totp]
    /\ guesses = 0 /\ overlap = FALSE
    /\ accepted = [c \in Issued |-> 0]
    /\ evicted = {} /\ overtaken = FALSE

(***************************************************************************)
(* The lock is a time: running while locked_until lies ahead, over once it *)
(* has passed although the column still holds it.                          *)
(***************************************************************************)
is_locked == account.lock = "running"

\* get_current_user: a full token authenticates while its version is the row's.
Authenticates(s) == s.version = account.version /\ ~is_locked

\* Slip: the challenge token is refused, as everywhere else.
NoChallenge == ~is_locked /\ \E s \in sessions : Authenticates(s)

\* get_enrolling_user: a challenge token will do as well, whatever the version.
MayEnroll == ~is_locked /\ (challenge \/ \E s \in sessions : Authenticates(s))

\* mfa_service.is_active, login_requires_second_factor
is_active == mfa.status = "active"

\* Slip: MFA_REQUIRED is forgotten for an account that has not enrolled.
OnlyActive == policy # "off" /\ is_active

SecondFactor == policy # "off" /\ (is_active \/ policy = "required")

\* The handler answers: the thread is free and its database session closed.
Answer(w) ==
    /\ pc' = [pc EXCEPT ![w] = "idle"]
    /\ seen' = [seen EXCEPT ![w] = Unread]
    /\ list' = [list EXCEPT ![w] = NoRow]
    /\ code' = [code EXCEPT ![w] = Totp]

Alone(w) == \A v \in Worker \ {w} : pc[v] = "idle"

\* A thread takes up a request of a kind that arrives in this behaviour.
Arrives(w, kind) == pc[w] = "idle" /\ kind \in traffic

(***************************************************************************)
(* POST /api/auth/login.  The row read by the first SELECT decides: a      *)
(* locked account is refused before the password is checked, and the       *)
(* password is checked against the hash in that row.                       *)
(***************************************************************************)
LoginWrong(w) ==
    /\ Arrives(w, "guess") /\ ~is_locked
    /\ pc' = [pc EXCEPT ![w] = "fail"]
    /\ seen' = [seen EXCEPT ![w] = account]
    /\ guesses' = guesses + 1
    /\ UNCHANGED <<policy, traffic, row, challenge, sessions, list, code,
                   overlap, accepted, evicted, overtaken>>

LoginRight(w) ==
    /\ Arrives(w, "login") /\ ~is_locked
    /\ pc' = [pc EXCEPT ![w] = "gate"]
    /\ seen' = [seen EXCEPT ![w] = account]
    /\ UNCHANGED <<policy, traffic, row, challenge, sessions, list, code, history>>

\* Slip: the count is compared with the threshold before it is incremented.
LateThreshold(was) ==
    IF was.count >= Threshold
    THEN [account EXCEPT !.count = 0, !.lock = "running"]
    ELSE [account EXCEPT !.count = was.count + 1]

\* lockout.register_failure: count from the row as it was read, lock at the threshold.
register_failure(was) ==
    IF Threshold = 0 THEN account
    ELSE IF was.count + 1 >= Threshold
         THEN [account EXCEPT !.count = IF was.count = 0 THEN @ ELSE 0, !.lock = "running"]
         ELSE [account EXCEPT !.count = was.count + 1]

RecordFailure(w) ==
    /\ pc[w] = "fail"
    /\ account' = register_failure(seen[w])
    /\ overlap' = (overlap \/ ~Alone(w))
    /\ Answer(w)
    /\ UNCHANGED <<policy, traffic, mfa, issue, challenge, sessions,
                   guesses, accepted, evicted, overtaken>>

\* The gate reads user_mfa: a challenge token, or on to the session.
Gate(w) ==
    /\ pc[w] = "gate"
    /\ IF SecondFactor
       THEN challenge' = TRUE /\ Answer(w)
       ELSE /\ pc' = [pc EXCEPT ![w] = "clear"]
            /\ UNCHANGED <<challenge, seen, list, code>>
    /\ UNCHANGED <<policy, traffic, row, sessions, history>>

(***************************************************************************)
(* register_success and last_login: columns that already held their new    *)
(* value when they were read are not written, so a lock set meanwhile      *)
(* stays, and one read as over is wiped together with its successor.       *)
(***************************************************************************)
register_success(was) ==
    [account EXCEPT !.count = IF was.count # 0 THEN 0 ELSE @,
                    !.lock = IF was.lock # "none" THEN "none" ELSE @]

Clear(w) ==
    /\ pc[w] = "clear"
    /\ account' = register_success(seen[w])
    /\ guesses' = IF seen[w].count # 0 \/ seen[w].lock # "none" THEN 0 ELSE guesses
    /\ overlap' = (overlap \/ ~Alone(w))
    /\ pc' = [pc EXCEPT ![w] = "mint"]
    /\ UNCHANGED <<policy, traffic, mfa, issue, challenge, sessions, seen, list, code,
                   accepted, evicted, overtaken>>

\* After the audit row is committed the token takes the version the row holds now.
\* A challenge token was answered with a code, so the session has both factors.
Mint(w) ==
    /\ pc[w] = "mint"
    /\ sessions' = sessions \cup
           {[version |-> account.version, factors |-> IF list[w] = NoRow THEN 1 ELSE 2]}
    /\ Answer(w)
    /\ UNCHANGED <<policy, traffic, row, challenge, history>>

(***************************************************************************)
(* mfa_service.verify_code, for /mfa/verify and /mfa/disable.  The user    *)
(* types what the console showed, xxxx-xxxx, or leaves the hyphen out: a   *)
(* submitted code loses its spaces and keeps its hyphen, whereas the hash  *)
(* stored at confirmation is that of the code without one.                 *)
(***************************************************************************)
Known(c, typed) == c = Totp \/ (c \in mfa.codes /\ typed = "bare")

ReadCode(w, c, next) ==
    /\ is_active
    /\ \E typed \in {"shown", "bare"} : Known(c, typed)
    /\ pc' = [pc EXCEPT ![w] = next]
    /\ list' = [list EXCEPT ![w] = mfa]
    /\ code' = [code EXCEPT ![w] = c]
    /\ UNCHANGED <<policy, traffic, row, challenge, sessions, seen, history>>

\* POST /api/auth/mfa/verify looks at the challenge token and the code, not at the lock.
VerifyRead(w, c) == Arrives(w, "verify") /\ challenge /\ ReadCode(w, c, "verify")

\* POST /api/mfa/disable needs a full session and a code.
DisableRead(w, c) ==
    /\ Arrives(w, "disable")
    /\ \E s \in sessions : Authenticates(s)
    /\ ReadCode(w, c, "disable")

\* Slip: the shortened list is never stored.
NotStored(w) == mfa

\* The list as it was read, less the code, is stored and committed; status is not written.
consume(w) == [mfa EXCEPT !.codes = list[w].codes \ {code[w]}]

TakeCode(w, from, next) ==
    /\ pc[w] = from
    /\ IF code[w] = Totp
       THEN UNCHANGED <<mfa, accepted, overlap>>
       ELSE /\ mfa' = consume(w)
            /\ accepted' = [accepted EXCEPT ![code[w]] = @ + 1]
            /\ overlap' = (overlap \/ ~Alone(w))
    /\ pc' = [pc EXCEPT ![w] = next]
    /\ UNCHANGED <<policy, traffic, account, issue, challenge, sessions, seen, list, code,
                   guesses, evicted, overtaken>>

VerifyTake(w) == TakeCode(w, "verify", "reread")
DisableTake(w) == TakeCode(w, "disable", "strip")

\* The commit expired the users row: the lockout columns are read again.
Reread(w) ==
    /\ pc[w] = "reread"
    /\ seen' = [seen EXCEPT ![w] = account]
    /\ pc' = [pc EXCEPT ![w] = "clear"]
    /\ UNCHANGED <<policy, traffic, row, challenge, sessions, list, code, history>>

Strip(w) ==
    /\ pc[w] = "strip"
    /\ mfa' = [status |-> "disabled", codes |-> {}]
    /\ Answer(w)
    /\ UNCHANGED <<policy, traffic, account, issue, challenge, sessions, history>>

(***************************************************************************)
(* Enrolment, open to a full session and to a challenge token.             *)
(***************************************************************************)
EnrollRead(w) ==
    /\ Arrives(w, "enroll") /\ MayEnroll /\ ~is_active
    /\ pc' = [pc EXCEPT ![w] = "enroll"]
    /\ list' = [list EXCEPT ![w] = mfa]
    /\ UNCHANGED <<policy, traffic, row, challenge, sessions, seen, code, history>>

\* A second first-time enrolment breaks the unique user_id and is answered with an error.
EnrollWrite(w) ==
    /\ pc[w] = "enroll"
    /\ mfa' = IF list[w].status = "absent" /\ mfa.status # "absent" THEN mfa
              ELSE [status |-> IF list[w].status = "pending" THEN mfa.status ELSE "pending",
                    codes |-> IF list[w].codes = {} THEN mfa.codes ELSE {}]
    /\ Answer(w)
    /\ UNCHANGED <<policy, traffic, account, issue, challenge, sessions, history>>

\* A row already active may be confirmed again, which issues new backup codes.
ConfirmRead(w) ==
    /\ Arrives(w, "confirm") /\ MayEnroll
    /\ mfa.status \in {"pending", "active"}
    /\ issue < MaxIssue
    /\ pc' = [pc EXCEPT ![w] = "confirm"]
    /\ list' = [list EXCEPT ![w] = mfa]
    /\ UNCHANGED <<policy, traffic, row, challenge, sessions, seen, code, history>>

ConfirmWrite(w) ==
    /\ pc[w] = "confirm" /\ issue < MaxIssue
    /\ issue' = issue + 1
    /\ mfa' = [status |-> IF list[w].status = "active" THEN mfa.status ELSE "active",
               codes |-> {issue + 1} \X BackupCode]
    /\ pc' = [pc EXCEPT ![w] = "mint"]
    /\ UNCHANGED <<policy, traffic, account, challenge, sessions, seen, list, code, history>>

(***************************************************************************)
(* PATCH /api/auth/password and POST /api/auth/logout: both write the      *)
(* version they read plus one, long after reading it in the first case.    *)
(***************************************************************************)
RevokeRead(w) ==
    /\ Arrives(w, "revoke") /\ account.version < MaxVersion
    /\ \E s \in sessions : Authenticates(s)
    /\ pc' = [pc EXCEPT ![w] = "revoke"]
    /\ seen' = [seen EXCEPT ![w] = account]
    /\ UNCHANGED <<policy, traffic, row, challenge, sessions, list, code, history>>

\* Slip: the version alternates between two values.
Flip(was) == IF was.version = 1 THEN 2 ELSE 1

\* token_version + 1, of the row as it was read
next_version(was) == was.version + 1

\* Every session minted before the request was read has at most the version it read.
RevokeWrite(w) ==
    /\ pc[w] = "revoke"
    /\ account' = [account EXCEPT !.version = next_version(seen[w])]
    /\ evicted' = evicted \cup {s.version : s \in {t \in sessions : t.version <= seen[w].version}}
    /\ overtaken' = (overtaken \/ seen[w].version < account.version)
    /\ Answer(w)
    /\ UNCHANGED <<policy, traffic, mfa, issue, challenge, sessions, guesses, overlap, accepted>>

\* LOCKOUT_MINUTES pass.
LockEnds ==
    /\ is_locked
    /\ account' = [account EXCEPT !.lock = "over"]
    /\ guesses' = 0
    /\ UNCHANGED <<policy, traffic, mfa, issue, challenge, sessions, request,
                   overlap, accepted, evicted, overtaken>>

\* Five minutes end a challenge token, ACCESS_TOKEN_EXPIRE_MINUTES end a session.
ChallengeEnds ==
    /\ challenge /\ challenge' = FALSE
    /\ UNCHANGED <<policy, traffic, row, sessions, request, history>>

SessionEnds ==
    /\ \E s \in sessions : sessions' = sessions \ {s}
    /\ UNCHANGED <<policy, traffic, row, challenge, request, history>>

Verify(w) == (\E c \in mfa.codes \cup {Totp} : VerifyRead(w, c)) \/ VerifyTake(w) \/ Reread(w)
Disable(w) == (\E c \in mfa.codes \cup {Totp} : DisableRead(w, c)) \/ DisableTake(w) \/ Strip(w)
Enroll(w) == EnrollRead(w) \/ EnrollWrite(w) \/ ConfirmRead(w) \/ ConfirmWrite(w)
Revoke(w) == RevokeRead(w) \/ RevokeWrite(w)
Login(w) == LoginWrong(w) \/ LoginRight(w) \/ RecordFailure(w) \/ Gate(w) \/ Clear(w) \/ Mint(w)

Next ==
    \/ \E w \in Worker : Login(w) \/ Verify(w) \/ Disable(w) \/ Enroll(w) \/ Revoke(w)
    \/ LockEnds \/ ChallengeEnds \/ SessionEnds

Spec == Init /\ [][Next]_vars

(***************************************************************************)
(* A thread goes on until it has answered and time passes.  Of the clients *)
(* only the owner of the account is assumed to persist: whoever is turned  *)
(* away, or whose challenge token ran out, tries again.                    *)
(***************************************************************************)
Goes(w) ==
    \/ RecordFailure(w) \/ Gate(w) \/ Clear(w) \/ Mint(w) \/ VerifyTake(w) \/ Reread(w)
    \/ DisableTake(w) \/ Strip(w) \/ EnrollWrite(w) \/ ConfirmWrite(w) \/ RevokeWrite(w)

FairSpec ==
    /\ Spec
    /\ WF_vars(LockEnds) /\ \A w \in Worker : WF_vars(Goes(w))
    /\ SF_vars(\E w \in Worker : LoginRight(w))
    /\ SF_vars(\E w \in Worker : VerifyRead(w, Totp))
    /\ SF_vars(\E w \in Worker : EnrollRead(w))
    /\ SF_vars(\E w \in Worker : ConfirmRead(w))

-----------------------------------------------------------------------------
(* What sign-in promises. *)

(***************************************************************************)
(* Threads that write what they computed from an old row set each other    *)
(* back.  Every thread stands at a value: the one it read, or the one in   *)
(* the row if it is free to read it.  A standing is how many threads are   *)
(* at each value.  A write only ever leads to a lower standing, compared   *)
(* at the highest value first, so no standing comes back.                  *)
(***************************************************************************)
Standing(at, V) == [v \in V |-> Cardinality({w \in Worker : at[w] = v})]
Standings(V) == {Standing(at, V) : at \in [Worker -> V]}

\* Wrong passwords checked before a lock falls: one for every standing of failures to go
\* but the first, and one that each thread has yet to record.
Budget == Cardinality(Standings(1..Threshold)) - 1 + Cardinality(Worker)

\* Times one code is accepted: one for every standing of lengths of the lists that have
\* it, with a thread that has none.
Reuse == Cardinality({s \in Standings(0..Cardinality(BackupCode)) : s[0] # 0})

\* Account lockout (lockout.py:73-103): while requests are served one at a
\* time, Threshold wrong passwords lock the account and no fewer do; threads that write
\* over each other's count can stretch that to Budget, and no further.
Lockout ==
    /\ guesses <= Budget
    /\ ~overlap => /\ guesses < Threshold + Cardinality(Worker)
                   /\ is_locked => guesses >= Threshold

\* Backup codes work once (mfa_service.py:66-77) when the handlers that take them do not
\* overlap; when they do, a code that was taken can come back, but not for ever.
OneTime == \A c \in Issued : accepted[c] <= IF overlap THEN Reuse ELSE 1

\* A password change or sign-out ends every session it found (auth.py:275-281, 308-309),
\* for good, unless a slower one wrote an older version back over it.
Revocation ==
    ~overtaken => \A s \in sessions : s.version \in evicted => ~Authenticates(s)

\* With MFA_REQUIRED every session was minted for a password and a code (auth.py:128-138,
\* mfa.py:169-181), whichever of the three handlers minted it.
TwoFactors == policy = "required" => \A s \in sessions : s.factors = 2

\* An owner who keeps trying is let in once the guessing stops: locks end, and where the
\* second factor is required an account that never enrolled can enrol from the sign-in
\* itself (dependencies.py:108-126).
OwnerGetsIn ==
    /\ policy = "required" => {"enroll", "confirm", "verify"} \subseteq traffic
    /\ "disable" \notin traffic
    /\ <>[](\A w \in Worker : pc[w] # "fail")
    => []<>(\E s \in sessions : Authenticates(s))
=============================================================================
