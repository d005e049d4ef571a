------------------------------ MODULE Service ------------------------------
(***************************************************************************)
(* The processes of the service from their start to the requests they      *)
(* limit: Startup hands each process the store of its token buckets, and a *)
(* process that is killed loses the buckets it kept itself.                *)
(* backend/app/main.py, lifespan.                                          *)
(***************************************************************************)
EXTENDS Startup

CONSTANT Redis  \* subset of BOOLEAN: REDIS_URL is set and the client library installed

VARIABLES
    redis,  \* which of them holds
    busy    \* requests are made, in this behaviour

vars == <<startup, limit, redis, busy>>

\* install_shared_store
store_kind == IF redis THEN "redis" ELSE "in_process"

\* Requests are made where the processes are up already; elsewhere they start.
Init ==
    /\ StartupInit /\ LimitInit
    /\ busy = (schema = Parts /\ ~settings.production)
    /\ redis \in IF busy THEN Redis ELSE {FALSE}

given == <<redis, busy>>

Starts(p) == Boot(p) /\ UNCHANGED <<limit, given>>
Serves(p) == Serve(p) /\ Install(p, store_kind) /\ UNCHANGED given

\* Kills are only followed where buckets go with the process.
Ends(p) == ~redis /\ Crash(p) /\ Lose(p) /\ UNCHANGED given

Works(p) ==
    /\ ~busy /\ \E r \in Rule : Edit(p, r) \/ Raise(p, r)
    /\ UNCHANGED <<limit, given>>

\* Starts are over before the clock of the limiter moves on.
Limits ==
    /\ busy /\ \A p \in Proc : step[p] \in {"down", "serving"}
    /\ Check \/ Expire \/ Tick \/ Watch
    /\ UNCHANGED <<startup, given>>

Next == Limits \/ \E p \in Proc : Starts(p) \/ Serves(p) \/ Ends(p) \/ Works(p)

Spec == Init /\ [][Next]_vars

\* A process that can go on does; its supervisor starts it again.
FairSpec == Spec /\ \A p \in Proc : WF_vars(Starts(p)) /\ WF_vars(Serves(p))

\* The database a behaviour starts from can be brought up to date: it is new, of SQLite, or
\* has the columns of users already.
Upgradable == settings.dialect = "sqlite" \/ "base" \notin schema \/ "users" \in schema

\* Kills and lost races end: every process comes to serve unless its settings forbid it, and
\* none ever does over a database of PostgreSQL that lacks the columns of users
\* (init_db.py:287-295 promises that one its columns too).
EventuallyServing ==
    /\ (problems = {} /\ Upgradable) => <>[](\A p \in Proc : step[p] = "serving")
    /\ ~Upgradable => [](\A p \in Proc : step[p] # "serving")
=============================================================================
