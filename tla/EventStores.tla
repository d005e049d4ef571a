----------------------------- MODULE EventStores -----------------------------
(***************************************************************************)
(* app/storage: where the event stream is kept, and the queries the live   *)
(* rules put to it.  LOG_STORE chooses between the relational database,    *)
(* OpenSearch and ClickHouse; each has its own way of keeping what an      *)
(* event lacks and of counting.                                            *)
(***************************************************************************)
EXTENDS Normalizer

\* get_log_store: a name it does not know means the relational database.
get_log_store(setting) ==
    CASE setting \in {"opensearch", "elasticsearch", "elastic"} -> "opensearch"
      [] setting = "clickhouse"                                 -> "clickhouse"
      [] OTHER                                                  -> "sqlalchemy"

\* ClickHouse's text columns hold an empty string for what is missing.
Absent(backend) == IF backend = "clickhouse" THEN "" ELSE None
OrAbsent(backend, value) == IF value = None THEN Absent(backend) ELSE value

\* The terms a query for an exact path may match.  The index of OpenSearch maps
\* normalized_data as an object and says nothing of its fields: a string in it
\* is analysed, and no word of a path is the path.
PathTerms(backend, path) ==
    IF backend = "opensearch" \/ path = None THEN {} ELSE {path}

\* index: the row or document that is kept of an event.
index(backend, ev) ==
    [type |-> ev.type, time |-> ev.raw.time, port |-> ev.port,
     src |-> OrAbsent(backend, ev.src), user |-> OrAbsent(backend, ev.user),
     terms |-> PathTerms(backend, ev.data.path)]

Store(backend, events) ==
    [backend |-> backend, rows |-> [k \in DOMAIN events |-> index(backend, events[k])]]

\* Rows of a type whose time lies in the window, both of its ends included.
InWindow(store, type, start, end) ==
    {k \in DOMAIN store.rows : store.rows[k].type = type /\ store.rows[k].time \in start..end}
FromSource(store, type, src, start, end) ==
    {k \in InWindow(store, type, start, end) : store.rows[k].src = src}

count_events(store, type, src, start, end) ==
    Cardinality(FromSource(store, type, src, start, end))

count_distinct_ports(store, src, start, end) ==
    Cardinality({store.rows[k].port : k \in FromSource(store, "port_access", src, start, end)}
                \ {None})

\* Slip: uniqExact over the column as it is, "IS NOT NULL" at most.
CountNobody(store, type, src, start, end) ==
    Cardinality({store.rows[k].user : k \in FromSource(store, type, src, start, end)} \ {None})

count_distinct_usernames(store, type, src, start, end) ==
    Cardinality({store.rows[k].user : k \in FromSource(store, type, src, start, end)}
                \ {Absent(store.backend)})

count_events_by_actor(store, type, user, src, start, end) ==
    Cardinality({k \in InWindow(store, type, start, end) :
                    IF user # None THEN store.rows[k].user = user
                                   ELSE store.rows[k].src = OrAbsent(store.backend, src)})

count_by_normalized_path(store, type, path, start, end) ==
    Cardinality({k \in InWindow(store, type, start, end) : path \in store.rows[k].terms})
=============================================================================
