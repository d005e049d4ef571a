------------------------------ MODULE Startup ------------------------------
(***************************************************************************)
(* How a process of the service starts: the refusal of demo settings in    *)
(* production, the schema, the seeded rows and the backfills.              *)
(*                                                                         *)
(*   backend/app/main.py          lifespan                                 *)
(*   backend/app/config.py        validate_production_security             *)
(*   backend/app/core/init_db.py  init_db and its parts                    *)
(*                                                                         *)
(* Several processes may start on one database at once, over a fresh one   *)
(* or one an earlier release left behind, and a process may be killed at   *)
(* any step.  A part of the schema is looked for and then created, in two  *)
(* steps: whoever comes second gets an error, which ends the process, and  *)
(* its supervisor starts it again; so does a statement the database does   *)
(* not understand.  The seeding is one transaction over rows it has read.  The processes are those of RateLimit, which is what  *)
(* a process installs last.                                                *)
(***************************************************************************)
EXTENDS RateLimit, FiniteSets

CONSTANTS
    Rule,       \* DEFAULT_RULES, by rule_type
    Tuned,      \* those seeded with parameters
    Corrected,  \* _KILL_CHAIN_PHASE_CORRECTIONS
    Databases,  \* the states of the database the behaviours start from
    Settings,   \* the settings they start with: [production, problems, dialect]
    MaxCrash,   \* bound: kills
    MaxAlert    \* bound: alerts raised

ASSUME StartupAssumption ==
    /\ Tuned \subseteq Rule /\ Corrected \subseteq Rule
    /\ MaxCrash \in Nat /\ MaxAlert \in Nat

VARIABLES
    settings,  \* ENV, what is wrong with the others, the dialect DATABASE_URL names
    schema,    \* the parts of the schema that exist
    users,     \* there is an account
    rules,     \* the rows of detection_rules, by rule_type
    alerts,    \* the rows of alerts
    step,      \* where each process is
    read,      \* what the transaction of each has read
    crashes,   \* kills so far
    edits      \* history: rules edited while no start was between reading and committing

database == <<schema, users, rules, alerts>>
startup == <<settings, database, step, read, crashes, edits>>

\* "base" stands for the tables of the earliest release, "tables" for those added since,
\* the others for the columns added to the table of that name.
Columns == <<"users", "logs", "rules", "alerts">>
Parts == {"base", "tables"} \cup {Columns[i] : i \in 1..4}

NoRule == [phase |-> "absent", parameters |-> "absent"]
Rows == {NoRule} \cup [phase : {"unset", "stale", "right"}, parameters : {"unset", "default", "edited"}]
AlertRows == [rule : Rule, phase : {"unset", "stale", "right"}, key : BOOLEAN, source : BOOLEAN]

\* What a release left behind: an alert has the phase its rule had, so that one of a phase since
\* corrected is an alert of a rule that still has it.
ASSUME DatabaseAssumption ==
    \A d \in Databases :
       /\ d.schema \subseteq Parts /\ d.users \in BOOLEAN
       /\ d.rules \in [Rule -> Rows] /\ d.alerts \subseteq AlertRows
       /\ \A a \in d.alerts :
             (a.phase = "stale" /\ a.rule \in Corrected) => d.rules[a.rule].phase = "stale"

Nothing == [part |-> 1, missing |-> FALSE, users |-> TRUE, rules |-> [r \in Rule |-> NoRule]]

StartupInit ==
    /\ settings \in Settings
    /\ \E d \in Databases :
          schema = d.schema /\ users = d.users /\ rules = d.rules /\ alerts = d.alerts
    /\ step = [p \in Proc |-> "down"]
    /\ read = [p \in Proc |-> Nothing]
    /\ crashes = 0 /\ edits = {}

\* The process goes from one step to the next with what it has read.
Go(p, from, to, what) ==
    /\ step[p] = from
    /\ step' = [step EXCEPT ![p] = to]
    /\ read' = [read EXCEPT ![p] = what]
    /\ UNCHANGED <<settings, crashes, edits>>

\* validate_production_security: only a production start is held to it.
problems == IF settings.production THEN settings.problems ELSE {}

Validate(p) ==
    /\ Go(p, "down", IF problems = {} THEN "look base" ELSE "refused", Nothing)
    /\ UNCHANGED database

\* The supervisor starts a process again that refused to start.
Restart(p) == Go(p, "refused", "down", Nothing) /\ UNCHANGED database

(***************************************************************************)
(* Base.metadata.create_all builds whole tables, all columns included.     *)
(***************************************************************************)
LookTables(p) ==
    /\ Go(p, "look base", "create", [Nothing EXCEPT !.missing = ~({"base", "tables"} \subseteq schema),
                                                    !.users = "base" \in schema])
    /\ UNCHANGED database

CreateTables(p) ==
    LET was == read[p]
        clash == was.missing /\ ("tables" \in schema \/ (~was.users /\ "base" \in schema))
    IN /\ Go(p, "create", IF clash THEN "down" ELSE "look", Nothing)
       /\ schema' = IF ~was.missing \/ clash THEN schema
                    ELSE IF was.users THEN schema \cup {"tables"} ELSE Parts
       /\ UNCHANGED <<users, rules, alerts>>

(***************************************************************************)
(* _ensure_columns, one table after the other: inspect, then ALTER TABLE.  *)
(* DATETIME is no type of PostgreSQL, and a transaction that fails leaves  *)
(* no column of its table behind.                                          *)
(***************************************************************************)
foreign(part) == settings.dialect = "postgresql" /\ part = "users"

Look(p) ==
    /\ Go(p, "look", "add", [read[p] EXCEPT !.missing = Columns[read[p].part] \notin schema])
    /\ UNCHANGED database

Add(p) ==
    LET i == read[p].part
        fails == read[p].missing /\ (Columns[i] \in schema \/ foreign(Columns[i]))
    IN /\ IF fails THEN Go(p, "add", "down", Nothing)
          ELSE IF i < 4 THEN Go(p, "add", "look", [Nothing EXCEPT !.part = i + 1])
          ELSE Go(p, "add", "read users", Nothing)
       /\ schema' = IF fails THEN schema ELSE schema \cup {Columns[i]}
       /\ UNCHANGED <<users, rules, alerts>>

\* _seed_admin counts the accounts, then hashes a password.
ReadUsers(p) ==
    /\ Go(p, "read users", "read rules", [Nothing EXCEPT !.users = users])
    /\ UNCHANGED database

\* Slip: the rules are seeded without looking which exist.
SeedBlindly(p) ==
    /\ Go(p, "read rules", "commit", [read[p] EXCEPT !.rules = [r \in Rule |-> NoRule]])
    /\ UNCHANGED database

\* _seed_rules and the backfills read the rules.
ReadRules(p) ==
    /\ Go(p, "read rules", "commit", [read[p] EXCEPT !.rules = rules])
    /\ UNCHANGED database

(***************************************************************************)
(* The transaction commits: rows that were missing are inserted, and only  *)
(* the columns that were found wanting are written.                        *)
(***************************************************************************)
seeded(r) == [phase |-> "right", parameters |-> IF r \in Tuned THEN "default" ELSE "unset"]

\* _backfill_rule_kill_chain_phases, _correct_stale_kill_chain_phases
phase_wanting(r, was) ==
    was.phase = "unset" \/ (was.phase = "stale" /\ r \in Corrected)

\* Slip: every rule gets the default parameters of its type.
AllParameters(r, was) == r \in Tuned

\* _backfill_rule_parameters
parameters_wanting(r, was) == was.parameters = "unset" /\ r \in Tuned

backfilled(r, was) ==
    IF was = NoRule THEN seeded(r)
    ELSE [phase |-> IF phase_wanting(r, was) THEN "right" ELSE rules[r].phase,
          parameters |-> IF parameters_wanting(r, was) THEN "default"
                         ELSE rules[r].parameters]

\* Slip: only alerts that lack a key are corrected.
OnlyKeys(a, was) == [a EXCEPT !.key = @ \/ a.source]

\* _backfill_alert_dedup_keys, and the alerts of a rule whose phase is corrected
corrected(a, was) ==
    [a EXCEPT !.key = @ \/ a.source,
              !.phase = IF @ = "stale" /\ was[a.rule].phase = "stale" /\ a.rule \in Corrected
                        THEN "right" ELSE @]

\* A name that exists already breaks the unique constraint: nothing is committed.
Commit(p) ==
    LET was == read[p]
        clash == \/ ~was.users /\ users
                 \/ \E r \in Rule : was.rules[r] = NoRule /\ rules[r] # NoRule
    IN /\ Go(p, "commit", IF clash THEN "down" ELSE "install", Nothing)
       /\ users' = (users \/ ~clash)
       /\ rules' = IF clash THEN rules ELSE [r \in Rule |-> backfilled(r, was.rules[r])]
       /\ alerts' = IF clash THEN alerts ELSE {corrected(a, was.rules) : a \in alerts}
       /\ UNCHANGED schema

\* install_shared_store, hub.bind_loop: the process serves.
Serve(p) == Go(p, "install", "serving", Nothing) /\ UNCHANGED database

\* PATCH /api/rules/{id} by an administrator: the parameters are replaced.
Edit(p, r) ==
    /\ step[p] = "serving" /\ rules[r] # NoRule
    /\ rules' = [rules EXCEPT ![r].parameters = "edited"]
    /\ edits' = IF \A q \in Proc : step[q] # "commit" THEN edits \cup {r} ELSE edits
    /\ UNCHANGED <<settings, schema, users, alerts, step, read, crashes>>

\* An alert takes the phase of its rule; not every event names a source.
Raise(p, r) ==
    /\ step[p] = "serving" /\ rules[r] # NoRule /\ Cardinality(alerts) < MaxAlert
    /\ \E source \in BOOLEAN :
          alerts' = alerts \cup {[rule |-> r, phase |-> rules[r].phase, key |-> source,
                                  source |-> source]}
    /\ UNCHANGED <<settings, schema, users, rules, step, read, crashes, edits>>

\* A kill rolls back the transaction under way.
Crash(p) ==
    /\ crashes < MaxCrash /\ step[p] # "down"
    /\ step' = [step EXCEPT ![p] = "down"]
    /\ read' = [read EXCEPT ![p] = Nothing]
    /\ crashes' = crashes + 1
    /\ UNCHANGED <<settings, database, edits>>

Boot(p) ==
    \/ Validate(p) \/ Restart(p) \/ LookTables(p) \/ CreateTables(p)
    \/ Look(p) \/ Add(p) \/ ReadUsers(p) \/ ReadRules(p) \/ Commit(p)

-----------------------------------------------------------------------------
\* A process that serves finds what it relies on, whatever release the database came from
\* and whoever started beside it (init_db.py:216-232): every part of the schema, an
\* account, every rule with its phase and parameters, a key on every alert with a source,
\* no phase of the old, wrong kind, and settings fit for production.
Ready ==
    (\E p \in Proc : step[p] \in {"install", "serving"}) =>
        /\ schema = Parts /\ users
        /\ \A r \in Rule :
              /\ rules[r].phase \notin {"absent", "unset"}
              /\ rules[r].phase = "stale" => r \notin Corrected
              /\ rules[r].parameters = "unset" => r \notin Tuned
        /\ \A a \in alerts :
              (a.source => a.key) /\ (a.phase = "stale" => a.rule \notin Corrected)
        /\ settings.production => settings.problems = {}

\* What an administrator changed survives every later start (init_db.py:351-366), unless
\* it was changed between a start's reading the rules and its commit.
EditsKept == \A r \in edits : rules[r].parameters = "edited"
=============================================================================
