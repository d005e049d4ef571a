----------------------------- MODULE RateLimit -----------------------------
(***************************************************************************)
(* The token buckets in front of sign-in and of the destructive actions,   *)
(* for one caller: backend/app/security/rate_limit.py.                     *)
(*                                                                         *)
(* Each process of the service keeps a bucket of its own, or all of them   *)
(* share one in Redis.  Time is counted in ticks.  A token is Unit units,  *)
(* and a tick refills Gain units, so that a fractional rate stays exact.   *)
(* The check of the in-process bucket runs on the event loop and suspends  *)
(* nowhere: its lock is never contended and it is one step.  For Redis the *)
(* caller reads its clock first and the script runs when it arrives: calls *)
(* overtake one another, and nothing bounds how long one may take.         *)
(***************************************************************************)
EXTENDS Integers

CONSTANTS
    Proc,    \* processes of the service
    Reached, \* those the caller's connections end up at
    Call,    \* calls to Redis that can be under way
    Shared,  \* the name of the bucket in Redis
    Unit,    \* units in a token
    Gain,    \* units refilled in a tick
    Burst,   \* tokens in a full bucket
    Ttl,     \* ticks after which Redis forgets a bucket nobody used
    MaxClock \* bound: ticks

ASSUME LimitAssumption ==
    /\ Unit \in Nat \ {0} /\ Gain \in Nat \ {0} /\ Burst \in Nat \ {0}
    /\ Ttl \in Nat /\ Gain * Ttl >= Burst * Unit /\ MaxClock \in Nat
    /\ Shared \notin Proc /\ Reached \subseteq Proc

Stores == Proc \cup {Shared}
Full == Burst * Unit
Never == 0 - 1

VARIABLES
    clock,   \* ticks since the service was installed
    kind,    \* where each process keeps its bucket, "none" while it does not serve
    tokens,  \* units in each bucket, Never if there is no such bucket
    last,    \* when each was last refilled, by the clock of the caller that did it
    stored,  \* when the script last stored the shared bucket
    sent,    \* when each call to Redis read its clock, Never if it is not under way
    spent,   \* history: units taken from each bucket since it is watched
    since,   \* history: when that began
    lag,     \* history: the greatest age of a call when Redis ran it since then
    slip,    \* history: how far such calls set the last refill back since then
    due      \* history: the soonest a refused caller may come back, Never if a token went since

limit == <<clock, kind, tokens, last, stored, sent, spent, since, lag, slip, due>>

LimitInit ==
    /\ clock = 0
    /\ kind = [p \in Proc |-> "none"]
    /\ tokens = [b \in Stores |-> Never]
    /\ last = [b \in Stores |-> 0]
    /\ stored = 0
    /\ sent = [c \in Call |-> Never]
    /\ spent = [b \in Stores |-> 0]
    /\ since = [b \in Stores |-> 0]
    /\ lag = [b \in Stores |-> 0] /\ slip = [b \in Stores |-> 0]
    /\ due = [b \in Stores |-> Never]

Least(a, b) == IF a < b THEN a ELSE b

Most(a, b) == IF a > b THEN a ELSE b

Soonest(a, b) == IF a = Never THEN b ELSE Least(a, b)

\* Slip: the refill is not capped at the burst.
Uncapped(had, elapsed) == had + Gain * elapsed

\* min(burst, tokens + elapsed * refill_per_second)
refill(had, elapsed) == Least(Full, had + Gain * elapsed)

\* Slip: the wait is rounded down.
Early(short) == short \div Gain

\* Retry-After: int(wait) + 1
retry_after(short) == short \div Gain + 1

(***************************************************************************)
(* Take a token from bucket b, which holds `has` units at `now`: admit the *)
(* caller, or refuse it and say when to come back.                         *)
(***************************************************************************)
Settle(b, has, now) ==
    /\ last' = [last EXCEPT ![b] = now]
    /\ IF has >= Unit
       THEN /\ tokens' = [tokens EXCEPT ![b] = has - Unit]
            /\ spent' = [spent EXCEPT ![b] = @ + Unit]
            /\ due' = [due EXCEPT ![b] = Never]
       ELSE /\ tokens' = [tokens EXCEPT ![b] = has]
            /\ due' = [due EXCEPT ![b] = Soonest(@, now + retry_after(Unit - has))]
            /\ UNCHANGED spent

\* RateLimiter._consume: the first call of a caller fills its bucket.
Fill(p) ==
    /\ kind[p] = "in_process" /\ tokens[p] = Never
    /\ tokens' = [tokens EXCEPT ![p] = Full - Unit]
    /\ last' = [last EXCEPT ![p] = clock]
    /\ spent' = [spent EXCEPT ![p] = Unit]
    /\ since' = [since EXCEPT ![p] = clock]
    /\ due' = [due EXCEPT ![p] = Never]
    /\ UNCHANGED <<clock, kind, stored, sent, lag, slip>>

Consume(p) ==
    /\ kind[p] = "in_process" /\ tokens[p] # Never
    /\ Settle(p, refill(tokens[p], clock - last[p]), clock)
    /\ UNCHANGED <<clock, kind, stored, sent, since, lag, slip>>

\* RedisRateLimiter.check reads its clock and sends the script off.
Send(p, c) ==
    /\ kind[p] = "redis" /\ sent[c] = Never
    /\ sent' = [sent EXCEPT ![c] = clock]
    /\ UNCHANGED <<clock, kind, tokens, last, stored, spent, since, lag, slip, due>>

\* The script, run as one step by Redis.  A bucket it does not know is full.
Script(c) ==
    /\ sent[c] # Never
    /\ LET now == sent[c]
           known == tokens[Shared] # Never
           elapsed == IF known /\ now > last[Shared] THEN now - last[Shared] ELSE 0
           back == CASE ~known -> clock - now
                     [] known /\ now < last[Shared] -> last[Shared] - now
                     [] OTHER -> 0
       IN /\ Settle(Shared, IF known THEN refill(tokens[Shared], elapsed) ELSE Full, now)
          /\ lag' = [lag EXCEPT ![Shared] = Most(@, clock - now)]
          /\ slip' = [slip EXCEPT ![Shared] = @ + back]
    /\ stored' = clock
    /\ sent' = [sent EXCEPT ![c] = Never]
    /\ UNCHANGED <<clock, kind, since>>

\* Any error of Redis lets the caller through, whatever becomes of the call: the
\* script may run all the same, which Script covers, or never, as here.
FailOpen(c) ==
    /\ sent[c] # Never
    /\ sent' = [sent EXCEPT ![c] = Never]
    /\ UNCHANGED <<clock, kind, tokens, last, stored, spent, since, lag, slip, due>>

\* Redis drops a bucket that was not stored for Ttl.
Expire ==
    /\ tokens[Shared] # Never /\ clock - stored >= Ttl
    /\ tokens' = [tokens EXCEPT ![Shared] = Never]
    /\ UNCHANGED <<clock, kind, last, stored, sent, spent, since, lag, slip, due>>

Tick ==
    /\ clock < MaxClock
    /\ clock' = clock + 1
    /\ UNCHANGED <<kind, tokens, last, stored, sent, spent, since, lag, slip, due>>

\* install_shared_store at the end of a start: Redis where it is configured and its
\* client library is there, the process's own buckets otherwise.
Install(p, k) ==
    /\ kind[p] = "none"
    /\ kind' = [kind EXCEPT ![p] = k]
    /\ UNCHANGED <<clock, tokens, last, stored, sent, spent, since, lag, slip, due>>

\* The process ends and its own buckets with it.
Lose(p) ==
    /\ kind' = [kind EXCEPT ![p] = "none"]
    /\ tokens' = [tokens EXCEPT ![p] = Never]
    /\ due' = [due EXCEPT ![p] = Never]
    /\ UNCHANGED <<clock, last, stored, sent, spent, since, lag, slip>>

Check ==
    \/ \E p \in Reached : Fill(p) \/ Consume(p) \/ \E c \in Call : Send(p, c)
    \/ \E c \in Call : Script(c) \/ FailOpen(c)

\* Whoever counts may begin to at any moment.
Watch ==
    /\ spent' = [b \in Stores |-> 0]
    /\ since' = [b \in Stores |-> clock]
    /\ lag' = [b \in Stores |-> 0] /\ slip' = [b \in Stores |-> 0]
    /\ UNCHANGED <<clock, kind, tokens, last, stored, sent, due>>

LimitNext ==
    \/ Watch \/ Check \/ Expire \/ Tick
    \/ \E p \in Proc : Lose(p) \/ \E k \in {"in_process", "redis"} : Install(p, k)

LimitSpec == LimitInit /\ [][LimitNext]_limit

-----------------------------------------------------------------------------
\* In any span of t ticks no bucket gives out more than a full one and what time
\* refills: burst + rate * t tokens from each process, or from all of them if they
\* share the bucket (rate_limit.py:95-102).  The shared bucket runs by the clocks
\* of calls that are as old as they happen to be, and calls that were overtaken, or
\* that found the bucket gone, set its last refill back (rate_limit.py:151-162):
\* that much time is credited on top.  Callers whom FailOpen lets in hold no token
\* and come on top of what is said here; nothing bounds them.
LimitHolds ==
    \A b \in Stores :
        spent[b] <= Full + Gain * (clock - since[b] + lag[b] + slip[b])

\* A caller who waits as long as Retry-After said finds a token, unless another call of
\* the same address took it, however often others were refused or overtook one another
\* in between (rate_limit.py:67-77, 104-106).
RetryHonest ==
    \A b \in Stores :
        (due[b] # Never /\ tokens[b] # Never) =>
            \A t \in {due[b], last[b]} :
                (t >= due[b] /\ t >= last[b]) => refill(tokens[b], t - last[b]) >= Unit
=============================================================================
