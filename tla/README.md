# AegisIQ: a verification project

TLA+ models of the parts of AegisIQ whose correctness depends on the order in
which things happen or on two pieces of code agreeing, TLC configurations that
check them on small instances, and TLAPS proofs of results that must hold for
every instance.  Paths are relative to the root of the repository; the modules
refer to them under `src/` in `PROJECT.json`.

| Module | What it models |
|---|---|
| `Containment`, `ContainmentPromise` | from a SOAR decision to a rule on a host and back; what that chain promises, in five actions |
| `Alerting` | from a stored event to a triaged, deleted or purged alert |
| `LiveConsole` | from a committed row to an analyst's screen |
| `SignIn` | one account: sign-in, lockout, second factor, sessions |
| `RateLimit`, `Startup`, `Service` | token buckets; how a process starts; the two composed |
| `Normalizer`, `EventStores`, `LiveRules` | a line becomes an event, is stored, is judged by the live rules |
| `Sigma`, `BatchAnalysis`, `Analysis` | the offline analysis; the whole group composed over one log file |
| `Shipping` | the two programs that follow a log file and send its lines |
| `ContainmentProofs`, `AlertingProofs`, `LiveConsoleProofs`, `SignInProofs`, `ServiceProofs`, `ShippingProofs`, `SigmaProofs`, `AnalysisProofs` | theorems |
| `MC...` | names and values for TLC |

## 1. The system

AegisIQ is a SIEM with a response layer.  A FastAPI backend (`backend/app`)
stores events, runs detection rules on each, raises alerts, decides on
containment actions and, when `SOAR_EXECUTE` is set, queues them as orders.  A
kill-switch agent on each protected endpoint (`agent/kill_switch_agent_v2.py`)
polls for orders, applies them to the host firewall or its accounts, reports
the outcome and undoes its own blocks after `MAX_BLOCK_MINUTES`.  A React
console (`frontend/src`) shows live events and lets analysts triage.  Scripts
(`scripts/`) follow log files and send their lines.

The backend's routes are synchronous functions and run in the server's thread
pool, each with a database session of its own: two requests interleave at every
commit, and between any SELECT and the write that relies on it.  The agent is
one loop in one thread, as is each script.  The hub, the WebSocket handlers and
the few `async` routes run on the event loop.  Nothing holds a lock across a
request, no table has a version column, and the only stores that survive a
restart are the database and, where it is configured, Redis.

| Component | State | Operations | Interacts with | Hard behaviour |
|---|---|---|---|---|
| Decisions and orders (`soar/engine.py`, `soar/executor.py`, `api/routes/response.py`) | `soar_actions`, `soar_orders`, `endpoint_agents` | respond, execute, queue, mark, revoke, collect, record; enrol, update, delete an endpoint | ingestion calls it, agents poll it | two commits per execution, polls that overlap, failed commits, crashes |
| Response agent (`agent/kill_switch_agent_v2.py`) | timers in memory, rules on the host, a ledger file | poll, apply, report, expire | HTTP to the SIEM | lost messages, a ten-second timeout, restarts, commands that fail |
| Ingestion (`ingestion/service.py`, `api/routes/logs.py`) | `logs` | ingest, delete | detection, response, hub | threads, a session that a failed flush breaks |
| Normalizer (`ingestion/normalizer.py`) | none | normalize | ingestion, batch analysis | which parser takes a line |
| Detection (`detection/engine.py`, `detection/alerting.py`, `detection/rules/`) | `alerts`, `detection_rules` | evaluate, deduplicate, create | event store | check then create, window boundaries, events in any order of time |
| Event stores (`storage/`) | `logs`, or an external index | index, counts | rules | windows closed at both ends, three ideas of "no value" |
| Triage (`api/routes/alerts.py`) | `alerts.status`, `alert_status_history` | change status, delete | hub | two analysts at once |
| Retention (`api/routes/retention.py`) | all of the above | purge | - | SELECT then DELETE by id, references between tables |
| Hub and stream (`realtime/hub.py`, `api/routes/stream.py`) | connections, replay buffer, sequence number | connect, publish, broadcast | every route, the console | tasks that overtake each other, replay over newer state |
| Live feed (`frontend/src/context/LiveContext.tsx`) | feed, toasts, ids seen, socket, timers | message, reconnect, poll | hub, `/api/alerts` | messages lost and repeated, two sources of one list |
| Sign-in, lockout, second factor (`api/routes/auth.py`, `api/routes/mfa.py`, `security/lockout.py`, `security/mfa_service.py`, `auth/dependencies.py`) | attempt counter, lock, token version, backup codes | login, verify, enrol, confirm, disable, change password, log out | every route | columns written back from what a thread read long before |
| Rate limiter (`security/rate_limit.py`) | token buckets, in process or in Redis | check | sign-in, mutations | fractional refill, calls to Redis that overtake each other, expiry |
| Start-up (`main.py`, `core/init_db.py`, `config.py`) | schema, seeds | validate, create, add columns, seed, backfill | database | processes that start at once, kills, databases of any age |
| Sigma (`detection/sigma.py`) | a cache per process | load, match | batch analysis | a condition language rewritten as text before it is parsed |
| Batch analysis (`analysis/engine.py`, `analysis/report.py`, `api/routes/analysis.py`) | stored reports | upload, analyse, delete | Normalizer, Sigma, rules | the live rules' conditions stated a second time; reports whose handler ends early |
| Log shippers (`scripts/kali_log_shipper.py`, `scripts/wazuh_forwarder.py`) | an open file and a position, a token | follow, sign in, send | `/api/logs` | rotation, lines in pieces, answers that are lost |
| Agent ledger (`kill_switch_agent_v2.py`, class `Ledger`) | hash-chained rows | record, verify | agent | what is hashed is not what is stored |
| Enrichment, copilot, compliance, webhook, licence, simulation, audit, pages, other scripts | none that another step relies on | - | - | text, formatting and external services |

What makes each part correct:

- *Containment*: an order is applied at most once, by the agent it is for, in
  the order of issue, never after it was retired; the ledger and the response
  history say what happened; a block never outlives its timer; queues drain.
- *Alerting*: what reaches a threshold is detected, what does not is not; an
  attack in progress has a bounded number of open alerts; each alert gets a
  decision; its history ends at its status; a deletion leaves no reference to
  what is gone.
- *Live console*: a client that stays connected ends with the current state of
  every alert it shows; a new alert is announced once.
- *Sign-in*: the configured number of failures locks an account, and threads
  can stretch it only so far; a one-time code works once; a change of password
  ends older sessions; where two factors are required no session has one; the
  owner gets in.
- *Rate limiter*: a bucket never gives out more than `burst + rate * t` tokens in
  any interval of length t; a caller that waits for Retry-After is admitted.
- *Start-up*: a process that serves finds everything it relies on, whatever it
  started over and beside; what an administrator changed stays changed.
- *Stores and analysis*: the same events raise the same alerts in every store;
  what is alerted live is found offline; a condition has the value its grammar
  gives it; a report that says "running" is being worked on.
- *Shippers*: what is stored is stored once and in order; what is not stored is
  accounted for.

## 2. Plan

Done, in this order: Containment with its promise; Alerting; LiveConsole; SignIn;
RateLimit, Startup and their composition Service; the group around Analysis;
Shipping.  Proofs of the safety of each: of Containment, then that it
implements its promise; of Alerting, LiveConsole, SignIn, RateLimit, Service and
Shipping; of the condition parser and, on it, of Analysis.

Left:

- Containment: what the chain still promises when an abandoned poll handler is
  at work, as a weaker promise of its own.

## 3. Containment

### State and actions

`act` is `soar_actions.status`; `orders` is `soar_orders` in the order of
`created_at`; `reg` and `siemKey` are `endpoint_agents`.  `dispatching` and
`marking` are threads between two commits: a row that `respond_to_alert` has
committed and not yet executed, an order that is committed while the action is
not yet marked.  `stage[e]` is where agent e's loop is, its open request
included: `asked` (sent, not yet read), `reading` (between the SELECT and the
commit of `collect_orders`), `answered`, `refused`, `applying`, `report`,
`expiring`.  `hand[e]` is the set of orders that request or batch holds,
`stray` the handlers whose agent has given up on them.  `rules` counts firewall
rules, because a second `iptables -I` inserts a second rule; `timers` is
`scheduled_unblocks`.  `ran` and `worked` are history variables.

| Code | Actions |
|---|---|
| `respond_to_alert`, `execute_action`, `queue_order`, `_mark` | `Respond`, `Dispatch`, `ExecuteNow`, `MarkPending`, `MarkFails` |
| `revoke` | `Revoke` |
| `enrol_endpoint`, `update_endpoint`, `delete_endpoint`, the agent's installation | `Enrol`, `Update`, `Delete`, `Install` |
| `_fetch_orders`, `collect_orders` | `AgentPoll`, `SiemRead`, `SiemCommit`, `CommitFails`, `Receive`, `PollFailed`, `PollLost`, `PollTimeout`, `StrayRead`, `StrayCommit` |
| `_apply_order`, `_run` and the platform's executors | `ApplyOrder`, `ApplyFails` |
| `_post_result`, `agent_result`, `record_result` | `ReportResult`, `ReportLost`, `ReceiveResult` |
| `_expire_scheduled` | `Expire`, `ExpireFails`, `TimerFires` |
| processes | `AgentRestart`, `SiemCrash`, `SiemRestart` |

The cryptography is abstracted to key versions: a response or a report signed
with another version than the receiver's is dropped.  Nonces and replays are not
modelled.  Time is two facts: an order is past its expiry (`aged`), a timer is
due.  Guard rails are the set `Refused`; an action type without an agent verb is
in `Advisory`.  `BatchMax` stands for the fifty orders of a poll.  A poll handler
that takes more than the agent's ten seconds is the fault `slow`: it is what
makes two polls of one endpoint overlap, and `MaxStray` bounds how many such
handlers are left over at a time.

### Properties

`AtMostOnce`, `InOrder`, `LedgerTruth`, `ExecutedTruth`, `NoLateOrder`,
`BlockCovered`, `QueueDrains`, `OrdersComplete`, `BlockLifted` are stated and
explained at the end of the module.  `TruthInv` and `OrderInv` are the inductive
invariants the proofs use.

`ContainmentPromise` says what remains if all of the machinery is forgotten: an
order is queued, is taken by the endpoint it is for at most once and before
anything queued after it, ends well or badly or is dropped, and what is told of
it agrees and is final.  `KeepsPromise` is the refinement mapping: `PhaseOf`
reads the phase off status, hand and history, `ToldOf` reads what the ledger
says.  It holds while no two polls of one endpoint overlap (`MaxStray = 0`): a
stray handler can overwrite an outcome, see section 10.

### Runs

- **faults**: one Linux endpoint, three decisions, one without an agent verb and
  one against a protected account, two orders, two faults of the kinds lost
  message, failed commit, failing command, agent restart and SIEM crash.  Two
  faults are one to break something and one to break its recovery.  The
  refinement and, with it, `InOrder`, `NoLateOrder`, `LedgerTruth` and
  `ExecutedTruth`.
- **liveness**: one Windows endpoint, where `netsh` deletes every rule of a name
  at once, two orders against one address, one stray handler, one fault (a lost
  message, a failed commit, a SIEM crash or a slow poll), one registry change.
  `AtMostOnce` and `BlockCovered` with overlapping polls, and under fairness
  `BlockLifted` and, in the behaviours in which nothing goes wrong,
  `OrdersComplete`.
- **registry**: two macOS endpoints, an address decision for one host and an
  account decision for the other, three registry changes (delete, enrol, install
  is the longest chain there is), one order: the queue drains whenever its
  endpoint is enabled.
- **double_block** is expected to fail, see section 10.

### Fairness

The agent's loop never stops while it is installed, the server's threads run to
their end and time passes: `Fairness` is weak fairness of each of these, and
nothing else.  Weak fairness is enough because each of these steps stays enabled
until it is taken, or the process it belongs to ends.  No operator, alert or
fault is ever forced.  `FairSpec` adds that a SIEM that is down is started
again, which is what the container's restart policy does; `OutageSpec` does not.

## 4. Alerting

### State and actions

`logs` and `alerts` are the tables in the order of the commits, `gone` and
`removed` what was deleted, `trail` is `alert_status_history`, `decided` and
`ordered` the alerts that `soar_actions` and `soar_orders` rows refer to.  Each
ingestion thread has a program counter, its log, the rules it has yet to
evaluate, the alerts it has yet to respond to, and the state of its SQLAlchemy
session: after a failed flush every use of a session raises until it is rolled
back.  Objects are expired by a commit, so attributes are read again from
the database, which is how a deletion in another thread reaches this one
(`LogLost`).

| Code | Actions |
|---|---|
| `ingest_log`, `evaluate` | `Ingest`, `Evaluate`, `Evaluated` |
| the rules' counts, `has_active_alert`, `create_alert` | `Evaluate`, `Check`, `Create`, `CreateFails` |
| `process_normalized_event`, `respond_to_alert`, `execute_action` | `Respond`, `Decide`, `Dispatch`, `Responded` |
| failures | `CommitFails`, `Crash` |
| `update_alert_status` | `OpenAlert`, `SaveStatus` |
| `delete_alert`, `bulk_delete_alerts`, `delete_log`, `bulk_delete_logs` | `DeleteAlerts`, `DeleteLogs` |
| `purge` | `SelectPurge`, `CommitPurge` |

A rule is its parameters: the kind of event it looks at, the kind it counts,
whether it counts distinct values, threshold and window.  `LiveRules` says which
events and keys each of the eight rules takes; here they are a kind and a key.
What an order does after it is queued is Containment's subject: here an alert
with an order is one that rows refer to.  `Quiet` is the idle server, so that a
deadlock TLC reports is a thread that is stuck.

Left out: broadcasts (LiveConsole models them), edits of a rule while it is being
evaluated, the transactions of external event stores (they have none), the
shipping agent's heartbeat.

### Runs

- **concurrent**: two threads and three rules, one of which counts distinct
  users and one another kind of event than it looks at; failed logins of two
  users and a login that succeeds, three events in any order of their
  timestamps.  Window one and timestamps 0 to 2 put events on, inside and
  outside the boundary; three events are what a third open alert of one rule
  would take.  `NothingMissed`, `ThresholdRespected`, `OpenBounded` and, under
  weak fairness of the threads (the server's pool goes on with a request it has
  begun), `EveryAlertDecided`.
- **cleanup**: one thread, two analysts with one request each or one with two,
  one deletion or purge and one failed commit or crash at any point; two rules,
  one that fires at once and one that counts to two, so that a deletion can take
  away what it needs.  `TypeOK` includes that what is left refers to nothing that
  is gone; `NothingMissed` counts what has not been deleted;
  `TrailEndsAtStatus`.
- **duplicate_alert** is expected to fail, see section 10.

## 5. LiveConsole

### State and actions

`db` is the status of each alert, `stamp` the time of the log it was raised on.
A server thread commits, reads the row back, puts the message into the replay
buffer, looks whether anybody is connected and schedules a broadcast, each in a
step of its own; `recent`, `conns` are the hub's buffer and connections,
`greeting` holds the socket the event loop has registered and not yet greeted,
`scheduled` the broadcasts the event loop has yet to start, `sending` those that
are suspended at a slow socket.  `sock[s]` is a WebSocket as the browser sees
it; the server learns later that it is gone, so a console can leave sockets
behind in `conns`.  `feed`, `seen`, `primed` are the console's list,
`seenAlertIdsRef` and `primedRef`; `poll` holds the answers of requests for
`/api/alerts` that the console has yet to handle.

| Code | Actions |
|---|---|
| `process_normalized_event`, `update_alert_status` | `Ingest`, `Detect`, `Triage`, `Read` |
| `EventHub.publish` | `Publish`, `Look`, `Schedule` |
| `EventHub._broadcast` | `Broadcast`, `SendNext`, `SendFails` |
| `stream`, `EventHub.connect`, `disconnect` | `Register`, `Greet`, `Refuse`, `Disconnect` |
| `connect`, `handleMessage`, `handleAlert` in `LiveContext.tsx` | `Reconnect`, `Open`, `Receive`, `OnClose` |
| `pollOnce` | `PollRead`, `PollAnswered`, `PollFails` |
| what goes wrong | `MissFrame`, `PollFails`, `Drop`, `SiemRestart`, `Revoke` |

One console is modelled, with a cookie session (the default).  A handshake is
two steps: the event loop registers the socket and then takes the replay.
Nothing is awaited in between, so no other coroutine runs (every action of the
loop asks for `greeting = {}`), but worker threads do: they may append, look and
schedule at any point of it.  Messages are numbered in the order in which they
enter the buffer; the code's own sequence number, which no client reads, is
taken a line earlier.

`Listing` is what `GET /api/alerts` answers: the raised alerts by the time of
their logs, the latest first, cut at the limit.  That time comes with the log
and need not be that of its arrival: `Detect` takes any of `Stamps`.  The run
has two alerts and a limit of one, so a new alert may be behind an old one and
beyond the cut.  The length of the back-off is not
modelled, only that each close sets one timer.  A poll that is asked while the
session is not accepted changes nothing, so it is not a step.  Left out: the
lists of logs and responses (a replay after a reconnect repeats their entries),
the broadcast of a deletion (there is none), the dismissal of toasts, a second
sign-in in the same tab, React's development mode.

`awaited`, `owed`, `announced`, `fresh`, `triaged`, `crossed` and `lost` are
history.  `crossed` collects the alerts of which an older message may arrive
after a newer one: two threads had a message about it in the making, a
broadcast overtook one that was suspended, or a message was published to nobody
while an older one was queued, so that a console that connects now is greeted
with the new status and then sent the old one.  `lost` says that the console
cannot get some message any more: it missed a frame, the SIEM restarted, or the
buffer had moved on.  `Settles` promises nothing about those; that is what the
code does, and section 10 says where a comment promises more.  Two more
exemptions are the cut's: an alert that is `Buried`, with as many alerts as the
limit before it in the list, is in no poll, so `NewIsAnnounced` does not promise
it (only the socket can bring it), and `Settles` not if it was raised before the
page was loaded.  Without them both are false.

### Run

- **console**: one server thread, an alert from before the page was loaded, one
  to be raised, with an earlier or the same time, and one change of its status,
  which with the log make three messages for a buffer of two; polls that ask for
  one alert; two sockets; and one trouble of any kind: a frame is missed, the
  connection breaks, the SIEM restarts, the session is revoked, or others take
  the room at the hub so that it refuses.  `AnnouncedOnce`, `NothingSkipped`,
  and under fairness `Settles`, `NewIsAnnounced` and `Reconnects`.

`Fairness`: threads finish what they have begun, the event loop goes on with the
oldest suspended broadcast and runs the coroutine of each socket, frames arrive,
and the browser runs its handlers, its reconnect timer and its poll timer.
Nobody has to raise or triage an alert.

## 6. SignIn

### State and actions

One account.  `account` is its row in `users` (attempt counter, lock, token
version), `mfa` its row in `user_mfa`.  Each handler is a thread: it reads the
row (`seen`, `list`), works, a bcrypt check takes a good part of a second, and
writes back columns computed from what it read.  SQLAlchemy writes only the
columns whose value differs from the one read, which decides what two
overlapping threads leave behind.  Tokens are what they carry: a session its
version and how many factors it was minted for, a challenge token nothing.

| Code | Actions |
|---|---|
| `login`, `register_failure`, `register_success` | `LoginWrong`, `RecordFailure`, `LoginRight`, `Gate`, `Clear`, `Mint` |
| `mfa_verify`, `verify_code` | `VerifyRead`, `VerifyTake`, `Reread`, `Clear`, `Mint` |
| `disable_mfa` | `DisableRead`, `DisableTake`, `Strip` |
| `enroll`, `confirm` | `EnrollRead`, `EnrollWrite`, `ConfirmRead`, `ConfirmWrite`, `Mint` |
| `change_password`, `logout` | `RevokeRead`, `RevokeWrite` |
| `get_current_user`, `get_enrolling_user` | `Authenticates`, `MayEnroll` |
| time | `LockEnds`, `ChallengeEnds`, `SessionEnds` |

Passwords and one-time passwords are right or wrong; a wrong one-time password
changes nothing.  Left out: changes of `is_active` and of roles, a failing commit
in `register_failure`, the confirmation of a secret that a second enrolment
replaces meanwhile, the five-minute windows of one-time passwords.

### Properties and run

`Lockout`: while requests are served one at a time `Threshold` wrong passwords
lock the account and no fewer do; threads that write over each other's counter
can stretch that to `Budget` checked passwords, and no further.  `OneTime`: a
backup code is accepted once while the handlers that take codes do not overlap,
and at most `Reuse` times when they do.  `Revocation`: a completed password
change or sign-out ends every session it found, for good, unless a slower one
wrote an older version back.  `TwoFactors`: with `MFA_REQUIRED` every session was
minted for two factors, whichever of the three handlers minted it.  `OwnerGetsIn`:
once the guessing stops, an owner who keeps trying is let in.

`Budget` and `Reuse` count standings.  Every thread stands at a value, the one it
read or the one in the row, and a standing is how many threads there are at each
value.  With N threads and threshold T there are C(T + N - 1, N) standings of
failures to go, and `Budget` is N - 1 more than that; with K backup codes `Reuse` is
C(K + N - 1, N - 1).  Section 12 has the argument.

- **signin**: two threads, threshold three, two backup codes, each of the three
  policies, and four mixes of requests (guesses and sign-ins; sign-ins and
  revocations; enrolment and verification; enrolment and removal), because every
  property is about one of these races and their product only multiplies states.
  `Budget` is 7 and `Reuse` 3 here, and exact: with one less TLC reports the
  interleaving.
  Threshold three is the least in which an increment can be lost twice.

`FairSpec`: a thread goes on until it has answered, locks end, and the owner
persists: strong fairness of the right sign-in, of a verification with the
authenticator, of enrolment and confirmation, since each of them is again and
again disabled by a lock or a challenge that ran out.  Nothing is assumed of
whoever guesses; `OwnerGetsIn` is about behaviours in which that ends.

## 7. RateLimit, Startup and Service

`RateLimit` is the token buckets of one caller: one in each process, or one in
Redis.  A token is `Unit` units and a tick refills `Gain`, so that a fractional
rate stays exact.  `Fill` and `Consume` are `_consume` of the in-process limiter,
one step because nothing in it awaits.  `Send` and `Script` are the two halves of
`RedisRateLimiter.check`: the caller reads its clock, and the script runs when it
arrives, however much later, since the client is given no timeout.  A call that
fails lets the caller through (`FailOpen`), whether or not the script runs all the
same.  `Expire` is the key's time to live.  `Watch` starts an interval of
observation, so that `LimitHolds` speaks of every interval: what a bucket gave out
is at most a full bucket, what time refilled, and for the shared one the age of
the oldest call it ran by (`lag`) and the time that late or overtaken calls set
the last refill back (`slip`).  It is a statement about buckets: callers whom
`FailOpen` lets in hold no token, and nothing bounds their number.  `RetryHonest`:
from the moment Retry-After names, the bucket holds a token, unless another call
took one since.

`Startup` is `lifespan` and `init_db` as steps of processes that start at once
over one database: look for the tables and create them, look for the columns of
each table and add them, read the accounts and rules, and commit seeds,
backfills and corrections in one transaction.  Whoever comes second gets an
error and is started again; so does whoever sends PostgreSQL the columns of
`users`, two of which are of a type it does not have (`foreign`).  `Edit` and
`Raise` are an administrator and the detection at work in a process that already
serves.  `Ready`: a process that serves finds every part of the schema, an
account, every rule with phase and parameters, keys on alerts, and settings fit
for production.  `EditsKept`: an edit survives later starts, unless it fell
between a start's read and its commit.

`Service` composes them: `Serve` of Startup installs the store of RateLimit, a
kill loses the buckets of the process.  `EventuallyServing`: in spite of kills
and lost races every process comes to serve, unless its settings forbid it; over
a database of PostgreSQL that lacks columns of `users` none ever does.

- **service**: two processes, one kill, four databases (fresh; an early release;
  a later one with a table's columns missing and phases of the wrong kind; one
  that is up to date), four settings of which one names PostgreSQL, two
  rules, two alerts.  Over the one that is up to date the limiter is used
  instead: a token of three units, two refilled per tick, burst two, two calls
  under way, forgotten after three ticks, which is when a bucket is full again,
  three ticks.  Three and two make the refill fractional and the wait round; two
  calls are what overtaking takes; two starts what a lost race takes.

`FairSpec`: a process that can go on does, and its supervisor starts it again.

## 8. Analysis

`Normalizer` says which parser takes a line and what it makes of it.  A line is
the form a parser recognises, the fields of that form and the set of words in its
text.  `EventStores` is what each of the three stores keeps of an event and how
it answers the five queries of the rules; `LiveRules` is the condition and the
key of each rule; `Sigma` is the selections and the condition parser, function
by function, and beside it `Denotes`, which says what a condition means without
parsing it; `BatchAnalysis` is the passes of the offline engine.  These are
functions; `Analysis` is the machine: lines are logged (and judged live as they
come), a file is uploaded, the report is analysed, fails, cannot be committed,
is deleted by somebody else or cut off by a restart, and Sigma conditions are
written and replaced.

| Code | Definitions |
|---|---|
| `normalize` and its parsers | `normalize`, `parse_windows_event`, `parse_linux_line` |
| `index`, `count_...` of the three stores, `get_log_store` | the same names in `EventStores` |
| the eight files of `detection/rules/` | the same names in `LiveRules` |
| `_parse_or` ... `_quantifier`, `_evaluate_condition`, `_match_selection` | the same names in `Sigma` |
| `_classify_batch`, `_detect_...`, `build_summary` | the same names in `BatchAnalysis` |
| `upload_and_analyze`, `delete_report`, `_load_sigma_rules` | `Upload`, `Load`, `Complete`, `Fail`, `CommitFails`, `Delete`, `Restart` |

- `CaughtOffline`: what the live rules alert on, the analysis of the same lines
  finds under the same name and source.  The two web rules are exempt, see
  section 10.
- `StoresAgree`: the same events raise the same alerts in every store, except
  file integrity on OpenSearch, see section 10.
- `CompromiseNamed`: an account that logs in after it failed often enough is
  named, whatever comes before, between and after.
- `ConditionMeaning`: the parser matches exactly when the condition's meaning
  is true; a text that is no condition matches nothing.
- `ReportTruth`: a complete report that does not say it was cut off is at least as
  severe as every rule that held live while its lines came in; one that says it is
  running has somebody working on it, unless that somebody died or could not commit.

The parser is one function over its possible calls: each of the code's functions,
or the head of one of its two loops with the value so far, at a token; the
operators say what a call answers, given the answers to the others.  `Denotes` is
a meaning in the sense of a grammar, as ambiguous as the text reads: the set of
values that some way of splitting it at its `or` and `and` gives the whole.

The assumptions say what the code sees to: `Thresholds` and the severities of
`KnownSeverities` are what the request schemas and the seeds allow, `Limits` holds
of the engine's own numbers, `Texts` and `NoneIsNoText` say that the patterns which
find an address or an account never find an empty one, `QuantifierWords` that
a quantifier is not one of the language's words.

- **analysis**: every sequence of up to five tokens, which reaches `not`, `and`
  and `or` with three operands, one pair of parentheses around a binary
  operator, both quantifiers and an unknown name; every log of up to five of
  eleven lines, one or two for each form, on both sides of the length at which
  the engine cuts (`MaxLines` four); reports of up to three lines, one report
  and one trouble.  Thresholds are two and windows two, so that a log of five
  lines reaches, misses and straddles them.  This machine may stop: every file
  is finite.

There is no fairness here: nothing is promised about how soon a report ends.

## 9. Shipping

`Shipping` is the log shipper (`program = "shipper"`) and the Wazuh forwarder
(`"forwarder"`), each beside the daemon that writes the log and the logrotate
that renames it away or truncates it, between any two steps of the reader.  A
line is written whole or in two pieces.  `Open`, `Fill`, `Read`, `EndOfFile`,
`Look`, `Reopen` are `follow` and `tail`; `Accepted`, `Refused`, `Cut`,
`Unauthorized` are the answers to a POST; `Login` and `LoginFails` the sign-in.

Both programs read through a buffered handle.  `Fill` is its read of the file:
some of what is there goes into `chunk`, and `pos` is the place after it.  `Read`
is `readline`: it returns the next line of the chunk, or at the end of the file
what there is of one.  A truncation therefore leaves what the handle has read, and
what is written below `pos` afterwards is met only by a reader that sees the file
shrunk.  Nobody sees that of a file that has grown back to `pos`: with lines 1 and
2 in the chunk, a truncation while 1 is posted, and lines 3 and 4 written, the
reader goes on after 4 and has lost 3 and 4.

`owed` is history: the pieces that nothing excuses from being stored.  What takes
one out of it, or keeps it from entering, is a conjunct of its own in the model:

- it was in the file and not read when the file was truncated;
- the file had grown back to the reader's place before the reader looked;
- the reader had left its file, or it was written to a renamed file after the
  reader had met the end of it (`late`);
- the SIEM refused it: the shipper's with 401 twice or any other status, the
  forwarder's with 401 or any other status;
- it has nothing to send.

- `OnceInOrder`: what is stored is stored once and in the order of the log.
- `NothingElseLost`: while the reader runs, each piece it owes is stored, on its
  way or still ahead of it, in the chunk, its file, or the file it opens next.
- `Shipped`: each is stored in the end, unless it is excused, the reader died, or
  the forwarder holds something that never parses (`Wedged`: a line that is no
  JSON, or half a line whose other half will not come).

- **shipping**: both programs, four lines of which one has nothing to send or
  cannot be parsed, one line in two pieces, two files (one rotation), one
  truncation, two failures.  Four lines are two in the chunk and two that bring a
  truncated file back to its size; losing or repeating a piece takes a rotation,
  or a failure with a retry, which the second failure interrupts.

Pieces count as if of one size: a file has grown back when it has as many of them.
In bytes, the line that straddles the place is then read from its middle, which the
model does not show.

`FairSpec`: the reader's loop goes on, a line that was begun is finished by the
daemon, and a name that is free is taken by the next file.  No failure is forced.

## 10. Where the code and its documentation disagree

Two of these are runs that are expected to be violated; `PROJECT.json` quotes
the sentences.

1. `double_block`: two blocks of one address on Linux leave a rule without a
   timer.
2. `duplicate_alert`: check and creation are not one step.

Others the models show when a run's constants or properties are changed:

*Containment*

- `BlockCovered` with `"restart"` in `Faults` on any platform: an agent's restart
  forgets its timers.
- `BlockLifted` with `OutageSpec`: the agent's expiry sits behind its poll
  (`kill_switch_agent_v2.py:444`), so it is suspended while the SIEM cannot be
  reached, though `docs/KILL_SWITCH.md:54` says the agent expires its own blocks.
- `HistoryShowsReality`: `execute_action` marks the action after the order is
  visible (`executor.py:256`); an outcome that comes first is overwritten.
- `OutcomeIsFinal` with `MaxStray = 1` and `"slow"` in `Faults`: a poll handler its
  agent has given up on commits DELIVERED over an outcome.
- `NoLateOrder` and `KeepsPromise` in the same setting: the handler reads an order
  past its expiry that the agent's next poll had read before it was; the poll
  delivers it, the agent applies it, and the handler then commits EXPIRED.  The
  history shows an applied order as never applied.
- `HostScoped` with two endpoints of which one is disabled: `_agent_for` falls
  back to the only enabled endpoint (`executor.py:175`) also for an account
  (`executor.py:161` says such an action goes to that host's agent).
- The agent's ledger hashes the whole output of a command and stores its first
  2048 characters (`kill_switch_agent_v2.py:301-305`), so `--verify-ledger` calls
  an entry with a longer output broken.  Read off the code, not modelled.
- `README.md:292` of the repository says that the shipped code never executes a
  containment action; with `SOAR_EXECUTE` it does.

*Alerting*

- `DeletionsSucceed` with `SoarExecute`: an alert with a containment order cannot
  be deleted, because nothing removes or detaches the order's references.
- `ThresholdRespected` with the rule `web_attack` and threshold two: the
  comment at `web_attack.py:144` announces a count that is not there.
- `TrailChains` with two analysts: both entries start from the same status.
- `IngestAccepted` with `MaxFaults = 1`: `execute_action` swallows a failed
  commit without a rollback (`executor.py:251`), as `process_normalized_event`
  does with whatever else the response layer raises (`service.py:144`), so the
  next use of the session turns the request into an error 500, and the alerts
  that were still to come get no decision.  `service.py:126-132` says that a
  failure of the response layer must not do that.  The same happens when an
  alert or its event is deleted meanwhile.
- `UnfinishedKept` with a purge and an analyst: an alert that is reopened
  between the purge's SELECT and its DELETE is deleted.

*LiveConsole*

- `NeverBehind` with `"miss"` in `Trouble`: the poll skips alerts it has seen
  (`LiveContext.tsx:356`), so a change of status whose frame is missed is never
  shown; the comment at lines 85 to 87 says that polling guarantees the console
  never falls behind.
- `NewIsAnnounced` without its exemption: the list is ordered by the time of the
  logs and cut (`alerts.py:155`, `limit: 25` in `LiveContext.tsx:335`), so an
  alert whose log is older than those of 25 others is in no poll, and if its
  frame is missed or the SIEM restarts before the broadcast, it is never
  announced; the comment at lines 320 to 327 says that even if no frame ever
  lands, the browser catches up on its own within the polling interval.
- A revoked cookie session: the handler of 401 responses in
  `frontend/src/api/client.ts:139` asks for a token in local storage, which a
  cookie session does not have, so the console stays `live` and its polls fail
  in silence; `client.ts:125` says that it returns to the login screen.
  `Settles` without its exemption of `valid` shows it.

*SignIn*

- `Lockout` without `Budget`: threads that read the same counter write the same
  increment, so more than `Threshold` wrong passwords can be checked.
- `OneTime` without its exemption: two threads take one backup code, or a slower
  one writes a used code back.
- `Revocation` without its exemption: a slower revocation writes an older
  version back and revives sessions the faster one had ended.  A sign-in under
  way during a password change is minted a token with the new version
  (`Mint` reads it again).
- A backup code typed as the console shows it, with its hyphen, is never accepted:
  `verify_code` strips spaces only, and the hash is of the code without the
  hyphen (`Known`).

*Start-up and limiter*

- The script stores the clock of a call that was overtaken, so the same time is
  refilled twice (`slip`; `rate_limit.py:151-162`).
- When Redis is unreachable there is no limit: `check` lets every caller through
  without a token (`FailOpen`; `rate_limit.py:203-208`), though lines 134-135 say
  that `install_shared_store` falls back to in-process buckets then.  It does so
  for a missing package or a malformed URL only (lines 264-281); `from_url` at
  line 277 does not connect, and is given no timeout, so that nothing bounds the
  age of a call either (`lag`).
- `EventuallyServing` without its exemption: `ALTER TABLE users ADD COLUMN
  locked_until DATETIME` (`init_db.py:259`, `password_changed_at` at 261) fails on
  PostgreSQL, which has no such type, at every start.  A database of PostgreSQL
  from a release before those columns is never served, though
  `_ensure_columns` is "dialect-neutral on purpose" for that upgrade
  (`init_db.py:287-299`).
- An alert raised from a rule row read before the correction of its phase keeps
  the old phase.
- `_backfill_rule_parameters` looks for SQL NULL; parameters that hold a JSON null
  are not filled in.

*Stores and analysis*

- `StoresAgree` without its exemption: OpenSearch's index analyses the path, so
  `file_integrity` never counts there, though `docs/STORAGE.md:85-86` says that
  detection runs correctly against whichever backend.
- `CaughtOffline` with the web rules: the offline pass neither decodes URLs nor
  reads the rule's own signatures, though `analysis/engine.py:14-16` says there
  is no rule drift.
- A cached condition outlives an edit (`cache`): `sigma.py:10-11` promises that a
  changed rule is live on the next analysis.
- `privilege_escalation` reports Event ID 4672 of SYSTEM as high although the
  Windows pass calls it routine; 4634, a logoff, counts as a successful sign-in;
  an Event ID nobody lists is privilege related; the count of failures a
  correlation reports includes those after the success.

*Shipping*

- `NothingLeftBehind`: `kali_log_shipper.py:118-119` promises rotation "the way
  `tail -F` does", but the old file is closed unread.  A name that is free at the
  moment of opening or reopening ends the program, and a line read in two pieces is
  shipped as two.
- A truncation is noticed by size alone (`kali_log_shipper.py:138`): a file that
  has grown back to where the reader's buffered handle stands looks unchanged, and
  what was written below is never read.  `NothingElseLost` without that excuse
  (`regrown` in `Write`) shows it.
- Any refusal but 401 drops the line, and an answer that is lost ends either
  program.  The forwarder drops the line on 401 too, lets one line that never
  parses hold back all that follow, and never notices a rotation.

## 11. Bounds

Each run is complete for its constants: TLC reports the whole state space.  The
bounds are chosen from the shape of the property: what has to meet for a
violation, and one more failure than it takes to begin a recovery.  A violation
of `AtMostOnce`, `InOrder` or the refinement relates two orders; of `BlockCovered`
two blocks of one address; of `OpenBounded` one alert more than there are
threads; of `Lockout`, `OneTime` and `Revocation` two threads; of `LimitHolds` two
calls.  Every bound is a CONSTANT commented as one where it is declared, and
appears in guards only.  Where an argument from small numbers is not enough the
theorems take over.

## 12. Theorems

The main theorems, in eight modules.  They hold for every value of the constants
the named assumptions allow: bounds enter the proofs only as natural numbers.
Where a theorem assumes more than the specification it proves about, the table
says so.

### Containment

`ContainmentProofs`, from `KindsAssumption`, `DecisionAssumption`, `HostAssumption`
and `BoundAssumption`:

| Theorem | Says | Assuming |
|---|---|---|
| `TypeCorrect` | `Spec => []TypeOK` | |
| `RunAtMostOnce` | `Spec => []AtMostOnce` | |
| `LedgerIsTrue` | `Spec => []LedgerTruth` | |
| `ExecutedIsTrue` | `Spec => []ExecutedTruth` | |
| `OrdersRunInOrder` | `Spec => InOrder` | |
| `BlocksAreCovered` | `Spec => []BlockCovered` | `SteadyHosts` |
| `PollsOneByOne` | `Spec => [](TypeOK /\ TruthInv /\ OnePollInv)` | `MaxStray = 0` |
| `RetiredNeverRuns` | `Spec => []NoLateOrder` | `MaxStray = 0` |
| `ChainKeepsPromise` | `Spec => KeepsPromise`, the refinement | `MaxStray = 0` |
| `VerdictIsFinal` | `Spec => OutcomeIsFinal` | `MaxStray = 0` |

The argument for the first group is `TruthInv`.  `AtMostOnce` is not inductive:
one must know that an order in an agent's hand has not run (`HandFresh`), that
an order is in the hand of its own endpoint only, and that it is no longer
queued unless the poll that read it has yet to commit.  The latter is what makes
overlapping polls harmless: a stray handler can mark an order again but its
answer goes to nobody.  `LedgerTruth` needs `CurTrue` and `ResultsTrue`, that a
report on its way agrees with what happened, and that no order is reported
without having run.  `OrdersRunInOrder` needs `OrderInv`: whatever is older than
an order an agent holds is either out of the queue or leaves it with the same
commit.  That rests on a lemma about `Oldest`, that the n oldest of a set leave
nothing older behind.  `BlocksAreCovered` needs the verb and the kind of the
target to match (`KindsMatch`) and `SteadyHosts`, without which it is false: on
Linux two blocks make two rules and one timer, and a restart forgets the timers.

The refinement needs to know the status of what is in flight, which the first
group does not.  `OnePollInv` says it: what an agent holds is queued while its
poll is open and delivered once it is answered, what the poll will retire is
still queued (`HeldOnce`); an order that has run is delivered until its one
report is recorded, and that report is in one place (`ToldOnce`).  With it each
action maps to an action of the promise or to a stutter.  `MaxStray = 0`, no poll
handler that outlives its agent's patience, is needed: with one, all four are
false (section 10).

### Alerting

`AlertingProofs`, from `RuleAssumption` and `FeedAssumption`:

| Theorem | Says | Assuming |
|---|---|---|
| `AlertingTypes` | `Spec => [](TypeOK /\ Shape)` | |
| `HistoryEndsAtStatus` | `Spec => []TrailEndsAtStatus` | |
| `NeverAStorm` | `Spec => []OpenBounded` | |
| `OneThreadNoDuplicate` | `Spec => []OneOpen` | one thread |
| `AlertsAreEarned` | `Spec => []ThresholdRespected` | rules that judge each event by itself have a threshold of one |
| `NothingIsMissed` | `Spec => []NothingMissed` | |

Two lemmas carry the module: `AlertOrigins` sorts every step by what it does to
one alert, `RequestSteps` by what it does to one request.  The invariants are
proved from these two and not action by action.  `OpenInv`: the open alerts of
one key and the threads about to create one are together no more than the
threads; a check that finds an open alert leads nowhere, so a thread can add one
only by having checked before there was any.  With one thread this is the
documented "one open alert" (`OneThreadNoDuplicate`), which the run
`duplicate_alert` shows to be false with two.  `ThresholdInv`: who is past the
check of a rule has reached its threshold, with an event that was there then
(`Reached`); the count of the check is the count in a window of the log that
only grows at its end.  `MissedInv`: a rule whose condition the event of a
request completes by what has not been deleted (`Complete`) has found its alert
or is still on the request's list.  The events that count were committed no
later than it, so the thread reads them all; and as a deletion only takes away
(`CountsStay`), what is complete now was complete when the rule was evaluated.
The assumption of `AlertsAreEarned` is what the repository seeds for the one
rule that is judged so, `web_attack`; with a higher threshold the property is
false (section 10).

### Live console

`LiveConsoleProofs`, from `SizeAssumption`:

| Theorem | Says |
|---|---|
| `NoGap` | `Spec => []NothingSkipped` |
| `AnnouncedOnlyOnce` | `Spec => []AnnouncedOnce` |

`NothingSkipped` is inductive together with the types and `Registered`: a socket
that was accepted and is not known to be gone is in the hub's set, so a thread
that has appended a message since will find the set not empty when it looks, and
the copy of the set a broadcast takes cannot lack that socket.  A message that
was appended before the socket was registered is in the buffer the greeting is
taken from; what is awaited of the others is what the greeting does not have.
`AnnouncedOnce` is strengthened to `Earned`: an alert was announced at most once
if its identifier is among those seen, and never if it is not.  A greeting
handles a whole replay and a poll a whole list in one step, by folding; that a
fold preserves `Earned` for lists of any length is proved by minimal
counterexample over their prefixes (`LeastElement`, from the well-foundedness of
`<` on the naturals, then `FoldIsDefined` and `FoldOnce`).

### Sign-in

`SignInProofs`, from `SignInAssumption`:

| Theorem | Says | Assuming |
|---|---|---|
| `SignInInvariant` | `Spec => []IInv` | |
| `NobodySkipsTheSecondFactor` | `Spec => []TwoFactors` | |
| `RevokedStaysRevoked` | `Spec => []Revocation` | |
| `LockoutCounts` | the counter counts every guess, and `Threshold` of them lock, while no two requests have overlapped | `Threshold > 0`, a finite number of threads, at least one |
| `LockoutHolds` | `Spec => []Lockout` | `Threshold > 0`, a finite number of threads, at least one |
| `CodesWorkOnce` | a backup code is accepted once, while no two requests have overlapped | finitely many codes |
| `CodesRunOut` | `Spec => []OneTime` | finitely many codes and threads |

`TwoFactors` speaks of sessions only; what makes it inductive is `Enrolled`: where
a second factor is required, every thread between a handler's gate and its token
has read an enrolment, because the gate lets nobody past and the other two ways
to a token begin with a row of `user_mfa`.  `Revocation` follows from `Behind`: a
revocation writes one more than it read, so it is ahead of every version it ends
and, unless one was written since it read, of those ended before; nothing else
writes the version.

`LockoutHolds` and `CodesRunOut` are about any number of threads, each of which may
write back what it computed from a row it read long before.  Progress that is
undone has to be paid for.  A thread that writes was at a higher value than the
one it writes, and so were the free threads it takes along: at the highest value
where anything changes there are then fewer threads (`WriteFalls`).  Standings
therefore fall in lexicographic order (`LowerOrder`), none comes back, and every
write leaves fewer of the finitely many (`StandingFalls`).  For the lockout a thread
stands at the failures to go before the record it is about to write locks
(`Togo`), and the inductive part is `Afford`: guesses recorded plus standings still
below the present one (`Rest`) are fewer than all of them.  `Budget` adds one guess
that each thread has yet to record.  For a backup code a thread stands at the
length of the list it holds, if the code is in it (`Lengths`), and `Limited` is the
inductive part: times accepted plus standings still below are at most `Reuse`.  A
thread that takes another code brings this one back in a list shorter by one; a
thread that takes this one is left with none, which is why only standings with a
thread at zero count.  For requests that do not overlap `LockoutCounts` and
`CodesWorkOnce` say that none of this is needed.

### Rate limiter and start-up

`ServiceProofs`, from `LimitAssumption` (a token is refilled in finite time, and
Redis keeps a bucket until it would be full again), `StartupAssumption` and
`DatabaseAssumption` (the database is one some release left); the first three
theorems need only the first assumption:

| Theorem | Says |
|---|---|
| `LimitInvariant` | `LimitSpec => []IInv` |
| `LimitAlwaysHolds` | `LimitSpec => []LimitHolds` |
| `RetryAlwaysHonest` | `LimitSpec => []RetryHonest` |
| `StartInvariant` | `Spec => []BootInv` |
| `AlwaysReady` | `Spec => []Ready` |
| `EditsSurvive` | `Spec => []EditsKept` |
| `ServiceLimits` | `Spec => LimitSpec`, the service implements the limiter |
| `ServiceHonest` | `Spec => [](LimitHolds /\ RetryHonest)` |

`LimitHolds` speaks of what was given out and is not inductive: what a bucket
still holds can be given out next.  `Promised` adds it: at every later time t,
what was given out and what the bucket would hold by then stay within the
promise for t.  It has to hold from `clock - lag` on, because calls that old
have been run; one that is older still raises `lag`, and the promise for its
clock follows from the one for the moment it arrives.  A call that sets the last
refill back pays with `slip`.  `Forgotten` covers a bucket that Redis dropped:
it was refilled long enough to be full (`Gain * Ttl >= Burst * Unit`), so a new
full one gives nothing away, which needs `StoredLater`.  `RetryHonest` follows
from `Owed`, that the units a refused caller was short of are refilled by the
time he was told.

The argument for start-up is that the database only grows.  `SchemaInv` says how
far the schema must have got for a process to be where it is, `RulesInv` what a
rule's row may have become since a start read it (`Onward`: it stays, its phase
is as read or corrected, its parameters are not taken away), `AlertsInv` that an
alert of an uncorrected phase belongs to a rule that is uncorrected, too, so the
start that corrects the one finds the other.  What a start commits is therefore
either still missing or changes nothing.

### Shipping

`ShippingProofs`, from `ShippingAssumption`:

| Theorem | Says |
|---|---|
| `ShippingTypes` | `Spec => []TypeInv` |
| `StoredInOrder` | `Spec => []OnceInOrder` |
| `NothingLost` | `Spec => []NothingElseLost` |

`OnceInOrder` is about what is stored; what makes it inductive is that every file
is a stretch of the log in order, files in order of their numbers
(`FilesOrdered`), and that what the reader has taken is before everything it can
still read (`Clear`, for every file in `AllFresh`).  A retry keeps the same pieces
in hand, and a piece that was stored is no longer in hand.  `NothingElseLost`
needs to know what of the log is still ahead of the reader: the rest of its own
file and, for the shipper, the file that has the name (`LostInv`).  The chunk is
part of what was taken, in order and before all that is still to be read
(`QueueInv`).

### Sigma conditions and the offline analysis

`SigmaProofs`, from `QuantifierWords`, and `AnalysisProofs`, from the assumptions of
section 8 and `Conditions` (what is written as a rule is made of tokens):

| Theorem | Says |
|---|---|
| `ConditionDecided` | for every sequence of tokens and every result of its selections, `evaluate_condition` is true exactly when `Denotes` is `{TRUE}` |
| `ConditionUnambiguous` | wherever such a sequence is split at its words, it has one value or none |
| `AnalysisInvariant` | `Spec => []AnalysisInv` |
| `ConditionsMean` | `Spec => []ConditionMeaning` |
| `StoresAlwaysAgree` | `Spec => []StoresAgree` |
| `AlwaysCaughtOffline` | `Spec => []CaughtOffline` |
| `CompromiseAlwaysNamed` | `Spec => []CompromiseNamed` |
| `ReportsTrue` | `Spec => []ReportTruth` |

The first two are about recursive functions, and the library's induction
theorems take an operator for a parameter, which cannot be instantiated here; so
`SigmaProofs` states what it needs over sets and functions.  `MeasureInduction`:
what holds of x as soon as it holds of everything smaller holds of the whole
set, from the least element of a set of naturals.  `FixedPoint`: a map that
looks only at smaller arguments has a function that is its own image.  The
parser is such a map, as a call asks only about later tokens or about a part of
itself (`Left`), and so is the grammar, as a reading asks only about shorter
stretches or tighter words (`Width`); hence `ParserAnswers` and
`ReadingsAnswer`, that both functions obey their definitions.  Then both
directions go by that measure.  `EveryReadingParses`: a stretch read as a
negation is parsed at once, and one read as a conjunction or disjunction takes
the loop over it with the value joined to what came before (`Follows`), which is
why any split gives the same answer and a condition has at most one value.
`EveryAnswerIsAReading`: where a call stops, what it read has a reading with its
value, and a loop that was handed a reading up to its place extends it
(`Sound`).

`AnalysisInv` is small: an alert was called for when some first part of the file
was all there was (`Remembered`); a report is of a first part of the file, a
complete one has the summary of exactly those lines, whatever was logged since,
and one that is running is the job's or was abandoned (`Reported`).  The rest is
about operators.  `StoreRows` and `KeptNames` say what each store keeps;
`Counts`, `ActorCounts` and `PathCounts` reduce the five queries of any store to
one count over the events; `EvaluateAgrees` follows for every rule, OpenSearch
and file integrity excepted.  `Prefix` relates the events a live rule saw to
those of the whole file: what falls in its window and has its source is among
what the analysis counts, and a finite set counts no less than its parts
(`PrefixCounts`, `MoreCounted`), so `LiveIsFound`, one lemma for each of the six
comparable rules. `ReportsTrue` adds that every finding has one of the four
severities (`AllGraded`, over every pass of the engine), so that there is a
worst and it bounds the others. `CompromiseNamed` rests on `RealAccount`: an
account outside `ServiceAccounts` is never marked as one, in whatever form its
lines come.

### What is only model-checked

Everything under fairness, which this prover cannot do: `QueueDrains`,
`OrdersComplete`, `BlockLifted`, `EveryAlertDecided`, `Settles`, `NewIsAnnounced`,
`Reconnects`, `OwnerGetsIn`, `EventuallyServing`, `Shipped`.

## 13. Not modelled

`PROJECT.json` lists every component with its reason.  In short: code that
formats or renders (reports, prompts, pages), services outside (threat
intelligence, language models, the databases' own failures), stateless checks
and cryptography (passwords, encryption, nonces and signatures, licence, CSRF
cookie), single inserts that nothing relies on (audit trail, webhook,
heartbeat), the agent's ledger, scripts of demonstration and deployment.

Within what is modelled: the decoding of uploaded files and the fields submitted
beside a raw line; the calendar arithmetic of timestamps, clock skew between
processes and the precision of time in the external stores; search and deletion
in those stores, which nothing calls; floating-point rounding in the buckets;
commits that fail in sign-in; sample lines, indicators and remediation texts of a
report; how often a code occurs within one line.

## 14. Running

    tlc -workers 2 -config faults.cfg MCContainment.tla       # also registry, liveness, double_block
    tlc -workers 2 -config concurrent.cfg MCAlerting.tla      # also cleanup, duplicate_alert
    tlc -workers 2 -config console.cfg MCLiveConsole.tla
    tlc -workers 2 -config signin.cfg MCSignIn.tla
    tlc -workers 2 -config service.cfg MCService.tla
    tlc -workers 2 -config analysis.cfg MCAnalysis.tla
    tlc -workers 2 -config shipping.cfg MCShipping.tla
    tlapm ContainmentProofs.tla
    tlapm AlertingProofs.tla
    tlapm LiveConsoleProofs.tla
    tlapm SignInProofs.tla
    tlapm ServiceProofs.tla
    tlapm ShippingProofs.tla
    tlapm SigmaProofs.tla                 # then AnalysisProofs.tla

Operators marked `Slip` are plausible bugs of the definition below them; each
property is confirmed to fail when one of them takes that definition's place
(`mutants` in PROJECT.json).
