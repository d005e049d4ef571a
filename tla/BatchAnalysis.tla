---------------------------- MODULE BatchAnalysis ----------------------------
(***************************************************************************)
(* app/analysis/engine.py and report.py: what the offline analysis finds   *)
(* in a file of log lines.  A finding is its rule type, severity, source   *)
(* and count; sample lines, times, texts and remediation steps are left    *)
(* out.  The file's decoding (plain, JSON lines, CSV) is done: a file is   *)
(* the sequence of its lines.                                              *)
(***************************************************************************)
EXTENDS LiveRules, Sigma

CONSTANTS
    MaxLines,       \* MAX_LINES; the bytes beyond MAX_BYTES are lines cut off too
    HResults,       \* _DANGEROUS_HRESULTS: code |-> severity
    Signatures,     \* _THREAT_SIGNATURES: name, severity, web
    Cut             \* the numbers in the code, by the name of what they decide

Order == <<"low", "medium", "high", "critical">>
Severities == {"low", "medium", "high", "critical"}

ASSUME KnownSeverities ==
    /\ \A r \in Rules : r.severity \in Severities
    /\ \A c \in DOMAIN HResults : HResults[c] \in Severities
    /\ \A s \in Signatures : s.severity \in Severities
ASSUME Limits == MaxLines \in Nat /\ Cut.failures \in Nat \ {0}

\* Repetition makes a severity worse.
Worse(severity) == IF severity = "medium" THEN "high" ELSE "critical"

Finding(rule, severity, source, count) ==
    [rule |-> rule, severity |-> severity, source |-> source, count |-> count]

\* One finding for each group of events with the same key; Of(k, at) builds it.
Group(events, At, KeyOf(_), Of(_, _)) ==
    {Of(key, {i \in At : KeyOf(events[i]) = key}) : key \in {KeyOf(events[i]) : i \in At}}

(***************************************************************************)
(* _classify_batch: the live rules' conditions over the whole file.  There *)
(* is no window: everything in the file counts.                            *)
(***************************************************************************)
OfType(events, type) == {i \in DOMAIN events : events[i].type = type}
Source(ev) == ev.src
Path(ev)   == ev.data.path
OrUnknown(x) == IF x = None THEN "unknown" ELSE x

\* Slip: a source has to exceed the threshold.
Beyond(n, rule) == n > rule.threshold
Reaches(n, rule) == n >= rule.threshold

BySource(events, rule, type, Count(_)) ==
    {f \in Group(events, {i \in OfType(events, type) : events[i].src # None}, Source,
                 LAMBDA src, at : Finding(rule.type, rule.severity, src, Count(at))) :
     Reaches(f.count, rule)}

\* Each success, with the failures of its source that come before it in the file.
AfterFailures(events, rule) ==
    {f \in {Finding(rule.type, rule.severity, events[i].src,
                    Cardinality({k \in OfType(events, "authentication_failure") :
                                     k < i /\ events[k].src = events[i].src})) :
            i \in {j \in OfType(events, "authentication_success") : events[j].src # None}} :
     Reaches(f.count, rule)}

classify_rule(events, rule) ==
    CASE rule.type = "brute_force" -> BySource(events, rule, "authentication_failure", Cardinality)
      [] rule.type = "port_scan" ->
             BySource(events, rule, "port_access",
                      LAMBDA at : Cardinality({events[i].port : i \in at} \ {None}))
      [] rule.type = "login_after_failure" -> AfterFailures(events, rule)
      [] rule.type = "credential_stuffing" ->
             BySource(events, rule, "authentication_failure",
                      LAMBDA at : Cardinality({events[i].user : i \in at} \ {None}))
      [] rule.type = "file_integrity" ->
             {f \in Group(events, {i \in OfType(events, "file_integrity_change") :
                                       events[i].data.path \in Critical}, Path,
                          LAMBDA p, at : Finding(rule.type, rule.severity, p, Cardinality(at))) :
              Reaches(f.count, rule)}
      [] rule.type = "privilege_escalation" ->
             {Finding(rule.type, rule.severity, OrUnknown(offender(events[i])), 1) :
                  i \in {j \in OfType(events, "privilege_related") : matched_pattern(events[j])}}
      [] rule.type = "web_attack" ->
             Group(events, {i \in OfType(events, "web_request") : matched(events[i].raw.shows) # 0},
                   LAMBDA ev : <<ev.src, matched(ev.raw.shows)>>,
                   LAMBDA key, at : Finding(rule.type, rule.severity, OrUnknown(key[1]), Cardinality(at)))
      [] rule.type = "suspicious_user_agent" ->
             Group(events, {i \in DOMAIN events : events[i].data.agent \in DOMAIN ToolAgents},
                   LAMBDA ev : <<ev.src, ToolAgents[ev.data.agent]>>,
                   LAMBDA key, at : Finding(rule.type, rule.severity, OrUnknown(key[1]), Cardinality(at)))
      [] OTHER -> {}

classify_batch(events) == UNION {classify_rule(events, r) : r \in {q \in Rules : q.enabled}}

(***************************************************************************)
(* _detect_windows_anomalies: findings without a rule row.                 *)
(***************************************************************************)
Showing(events, word) == {i \in DOMAIN events : word \in events[i].raw.shows}

hresult_anomalies(events) ==
    {Finding("windows_hresult_anomaly",
             IF Cardinality(Showing(events, c)) >= Cut.hresult THEN "critical" ELSE HResults[c],
             c, Cardinality(Showing(events, c))) :
         c \in {d \in DOMAIN HResults : Showing(events, d) # {}}}

\* _SECURITY_EVENT_IDS: base severity, and which are routine for a service account.
SecurityEvents == {4625, 4624, 4672, 4648, 4720, 4726, 4732, 4756, 4740, 4776, 1102, 1116, 1117, 7045}
BaseSeverity(id) ==
    CASE id \in {1102, 1116, 1117}             -> "critical"
      [] id \in {4720, 4732, 4756, 7045}       -> "high"
      [] id \in {4625, 4672, 4726, 4740}       -> "medium"
      [] OTHER                                 -> "low"
ContextSensitive == {4624, 4672, 4648}

\* An event no parser structured may still name its id in the text; its account
\* is unknown and taken for a service account.
IsService(ev) == ev.data.service \in {TRUE, None}
SecurityId(ev) == <<IF ev.id # None THEN ev.id ELSE ev.raw.id, IsService(ev)>>

\* An id by service accounts and by real users are two findings.
security_events(events) ==
    LET At == {i \in DOMAIN events : SecurityId(events[i])[1] \in SecurityEvents}
        Severity(id, service, n) ==
            CASE id = 4625 /\ n >= Cut.logons         -> "high"
              [] id \in ContextSensitive /\ service   -> "low"
              [] id = 4672 /\ ~service                -> "high"
              [] OTHER                                -> BaseSeverity(id)
    IN  Group(events, At, SecurityId,
              LAMBDA key, at : Finding("windows_security_event",
                                       Severity(key[1], key[2], Cardinality(at)), key, Cardinality(at)))

\* Failure markers in 10% of a log that is long enough, or in 25%.
failure_rate(events) ==
    LET n == Cardinality(Showing(events, "failure"))
    IN  IF Len(events) < Cut.rate \/ 10 * n < Len(events) THEN {}
        ELSE {Finding("log_failure_burst", IF 4 * n >= Len(events) THEN "critical" ELSE "high", "rate", n)}

servicing_store(events) ==
    LET n == Cardinality(Showing(events, "cbs"))
    IN  IF n < Cut.cbs THEN {}
        ELSE {Finding("windows_servicing_integrity", IF n < Cut.cbsMany THEN "high" ELSE "critical", "cbs", n)}

detect_windows_anomalies(events) ==
    hresult_anomalies(events) \cup security_events(events)
        \cup failure_rate(events) \cup servicing_store(events)

(***************************************************************************)
(* _detect_threat_signatures and _detect_sigma, grouped by actor.  No form *)
(* of line carries a hostname.                                             *)
(***************************************************************************)
Actor(ev) == IF ev.src # None THEN ev.src ELSE IF ev.user # None THEN ev.user ELSE "-"

\* A Windows event is not web traffic, whatever its text says.
event_is_web(ev) ==
    ev.type = "web_request" \/ (~ev.data.windows /\ "http" \in ev.raw.shows)

detect_threat_signatures(events) ==
    UNION {Group(events, {i \in Showing(events, s.name) : s.web => event_is_web(events[i])}, Actor,
                 LAMBDA who, at :
                     Finding("threat_signature",
                             IF Cardinality(at) >= Cut.signature /\ s.severity \in {"medium", "high"}
                             THEN Worse(s.severity) ELSE s.severity,
                             who, Cardinality(at))) :
           s \in Signatures}

detect_sigma(events, rules) ==
    UNION {Group(events, {i \in DOMAIN events : rule_matches(r, events[i])}, Actor,
                 LAMBDA who, at : Finding("sigma", r.severity, who, Cardinality(at))) :
           r \in rules}

(***************************************************************************)
(* _detect_correlations: failures of a real account, and a success.        *)
(***************************************************************************)
Fails(events, u) ==
    {i \in OfType(events, "authentication_failure") : events[i].user = u /\ events[i].data.service # TRUE}
Successes(events, u) ==
    {i \in OfType(events, "authentication_success") : events[i].user = u /\ events[i].data.service # TRUE}

\* Slip: the success has to come after the last failure.
SuccessAfterAll(events, u) == \E i \in Successes(events, u) : \A k \in Fails(events, u) : k < i
\* A success after the first failure.
LaterSuccess(events, u) == \E i \in Successes(events, u), k \in Fails(events, u) : k < i

detect_correlations(events) ==
    {LET n == Cardinality(Fails(events, u))
     IN  IF LaterSuccess(events, u)
         THEN Finding("credential_compromise_pattern", "high", u, n)
         ELSE Finding("brute_force_attempt", IF n >= Cut.many THEN "high" ELSE "medium", u, n) :
     u \in {v \in {events[i].user : i \in DOMAIN events} \ {None} :
                Cardinality(Fails(events, v)) >= Cut.failures}}

(***************************************************************************)
(* analyze and build_summary.                                              *)
(***************************************************************************)
Parsed(lines) == [i \in 1..(IF Len(lines) > MaxLines THEN MaxLines ELSE Len(lines)) |-> normalize(lines[i])]

analyze(lines, sigma) ==
    LET events == Parsed(lines)
    IN  classify_batch(events) \cup detect_windows_anomalies(events)
            \cup detect_threat_signatures(events) \cup detect_correlations(events)
            \cup detect_sigma(events, sigma)

Rank(severity) == CHOOSE i \in DOMAIN Order : Order[i] = severity

build_summary(lines, findings) ==
    [truncated |-> Len(lines) > MaxLines,
     unparsed  |-> Cardinality(OfType(Parsed(lines), "unparsed")),
     worst     |-> IF findings = {} THEN None
                   ELSE CHOOSE s \in {f.severity : f \in findings} :
                            \A f \in findings : Rank(f.severity) <= Rank(s),
     findings  |-> findings]
=============================================================================
