------------------------------ MODULE Analysis ------------------------------
(***************************************************************************)
(* The offline analysis beside the live detection.  Lines are shipped one  *)
(* by one, so that the live rules judge each as it comes, and written to a *)
(* log file.  An analyst uploads the file as it stands; the report goes    *)
(* through app/api/routes/analysis.py while administrators delete reports, *)
(* commits fail and the process dies.  Sigma rules are edited on disk and  *)
(* read once by each process.                                              *)
(***************************************************************************)
EXTENDS BatchAnalysis

CONSTANTS
    Lines,          \* lines that may be logged
    Detection,      \* the Sigma rule's selections
    Settings,       \* values of LOG_STORE to compare
    Shipped,        \* conditions a finished rule may have
    MaxFile, MaxTokens, MaxReports, MaxTrouble,     \* bounds
    ReportLines     \* longest file that is uploaded: a bound

Tokens == Names \cup Quantifiers \cup {"(", ")", "and", "or", "not", "true", "unknown"}
ASSUME Conditions == Shipped \subseteq Seq(Tokens)

\* The patterns that find an address or an account want a character at least.
ASSUME Texts == \A line \in Lines : line.addr # "" /\ line.user # ""

VARIABLES
    file,           \* the log file
    raised,         \* alerts the live rules called for: rule and key
    condition,      \* the rule's condition on disk, a token at a time
    cache,          \* _SIGMA_RULES_CACHE: the condition this process has read, or None
    reports,        \* analysis_reports
    job,            \* the upload being handled: at most one, the handler does not await
    abandoned,      \* reports whose handler died or could not commit
    trouble         \* how often that happened

vars == <<file, raised, condition, cache, reports, job, abandoned, trouble>>

Idle == [id |-> 0, step |-> "none"]
Init ==
    /\ file = << >> /\ raised = {} /\ condition = << >> /\ cache = None
    /\ reports = << >> /\ job = Idle /\ abandoned = {} /\ trouble = 0

-----------------------------------------------------------------------------
(***************************************************************************)
(* The log and the rule file.                                              *)
(***************************************************************************)

Events(lines) == [i \in DOMAIN lines |-> normalize(lines[i])]

\* A line is written to the file, shipped, stored and judged.
Log(line) ==
    /\ condition \in Shipped /\ Len(file) < MaxFile
    /\ reports # << >> => Len(file) < ReportLines
    /\ file' = Append(file, line)
    /\ raised' = raised \cup evaluate(Events(file'), "sqlalchemy")
    /\ UNCHANGED <<condition, cache, reports, job, abandoned, trouble>>

\* A condition is written, word by word; a finished one is replaced as a whole.
Write(token) ==
    /\ file = << >> /\ Len(condition) < MaxTokens
    /\ condition' = Append(condition, token)
    /\ UNCHANGED <<file, raised, cache, reports, job, abandoned, trouble>>
Replace ==
    /\ reports # << >>
    /\ condition' \in Shipped \ {condition}
    /\ UNCHANGED <<file, raised, cache, reports, job, abandoned, trouble>>

-----------------------------------------------------------------------------
(***************************************************************************)
(* A report's life.                                                        *)
(***************************************************************************)
SigmaRules(c) == {[condition |-> c, detection |-> Detection, severity |-> "high"]}
Summary(n, c) ==
    LET lines == SubSeq(file, 1, n) IN build_summary(lines, analyze(lines, SigmaRules(c)))

\* upload_and_analyze: the row is committed before the work begins.
Upload ==
    /\ job = Idle /\ Len(reports) < MaxReports
    /\ Len(file) \in 1..ReportLines
    /\ reports' = Append(reports, [lines |-> Len(file), status |-> "running",
                                   sigma |-> None, summary |-> None])
    /\ job' = [id |-> Len(reports'), step |-> "analyse"]
    /\ UNCHANGED <<file, raised, condition, cache, abandoned, trouble>>

\* _load_sigma_rules: the first analysis of a process reads the rules.
Load ==
    /\ job.step = "analyse"
    /\ cache' = IF cache = None THEN condition ELSE cache
    /\ job' = [job EXCEPT !.step = "complete"]
    /\ UNCHANGED <<file, raised, condition, reports, abandoned, trouble>>

\* The outcome is committed; a row that was deleted meanwhile makes the flush
\* fail, and the second commit with it.
Outcome(status, sigma) ==
    /\ reports' = IF reports[job.id].status = "deleted" THEN reports
                  ELSE [reports EXCEPT ![job.id].status = status, ![job.id].sigma = sigma,
                                       ![job.id].summary =
                                           IF status = "complete" THEN Summary(reports[job.id].lines, sigma)
                                                                  ELSE None]
    /\ job' = Idle
Complete ==
    /\ job.step = "complete"
    /\ Outcome("complete", cache)
    /\ UNCHANGED <<file, raised, condition, cache, abandoned, trouble>>

\* The analysis raises: the report is marked, with the error.
\* Slip: the exception leaves the handler.
FailSilently ==
    /\ job # Idle /\ trouble < MaxTrouble /\ trouble' = trouble + 1
    /\ job' = Idle
    /\ UNCHANGED <<file, raised, condition, cache, reports, abandoned>>
Fail ==
    /\ job # Idle /\ trouble < MaxTrouble /\ trouble' = trouble + 1
    /\ Outcome("failed", None)
    /\ UNCHANGED <<file, raised, condition, cache, abandoned>>

\* The outcome cannot be flushed: the session is left unusable, so the commit
\* that would mark the report fails too.
CommitFails ==
    /\ job.step = "complete" /\ trouble < MaxTrouble /\ trouble' = trouble + 1
    /\ abandoned' = abandoned \cup {job.id}
    /\ job' = Idle
    /\ UNCHANGED <<file, raised, condition, cache, reports>>

\* The process dies and another takes its place, with nothing read.
Restart ==
    /\ reports # << >> /\ trouble < MaxTrouble /\ trouble' = trouble + 1
    /\ abandoned' = IF job = Idle THEN abandoned ELSE abandoned \cup {job.id}
    /\ job' = Idle /\ cache' = None
    /\ UNCHANGED <<file, raised, condition, reports>>

\* delete_report, from the thread pool, at any time.
Delete(r) ==
    /\ reports[r].status # "deleted"
    /\ reports' = [reports EXCEPT ![r].status = "deleted"]
    /\ UNCHANGED <<file, raised, condition, cache, job, abandoned, trouble>>

Next ==
    \/ \E line \in Lines : Log(line)
    \/ \E token \in Tokens : Write(token)
    \/ Replace \/ Upload \/ Load \/ Complete \/ Fail \/ CommitFails \/ Restart
    \/ \E r \in DOMAIN reports : Delete(r)
Spec == Init /\ [][Next]_vars

-----------------------------------------------------------------------------
(***************************************************************************)
(* Properties.                                                             *)
(***************************************************************************)

\* "no rule drift" (engine.py:14-16): what the live rules alert on, the
\* analysis of the same lines finds, under the same name.  The two web rules
\* are left out: the analysis does not decode what it matches.
Comparable == {"brute_force", "port_scan", "login_after_failure", "credential_stuffing",
               "file_integrity", "privilege_escalation"}
CaughtOffline ==
    Len(file) <= MaxLines =>
        LET found == classify_batch(Parsed(file))
        IN  \A a \in raised : a.rule \in Comparable =>
                \E f \in found : f.rule = a.rule /\ f.source = a.key

\* "detection runs correctly against whichever backend holds the events"
\* (docs/STORAGE.md:85-86): the event stored last raises the same alerts
\* wherever the events are kept.  File integrity on OpenSearch is left out: it
\* never counts anything there.
Blind(backend) == IF backend = "opensearch" THEN {"file_integrity"} ELSE {}
StoresAgree ==
    file # << >> =>
        LET events   == Events(file)
            expected == evaluate(events, "sqlalchemy")
        IN  \A setting \in Settings :
                LET backend == get_log_store(setting)
                IN  evaluate(events, backend) = {a \in expected : a.rule \notin Blind(backend)}

\* An account that logs in after it failed often enough is named, whatever
\* comes before, between and after (engine.py:1328-1341), unless it is one the
\* system itself uses.
CompromiseNamed ==
    LET events == Parsed(file)
        Named == {f.source : f \in {g \in detect_correlations(events) :
                                        g.rule = "credential_compromise_pattern"}}
    IN  \A i \in OfType(events, "authentication_success") :
            /\ events[i].user # None /\ events[i].user \notin ServiceAccounts
            /\ Cardinality({k \in OfType(events, "authentication_failure") :
                                k < i /\ events[k].user = events[i].user}) >= Cut.failures
            => events[i].user \in Named

\* A condition matches exactly when that is what it means, for every result of
\* its selections; one that means nothing matches nothing.
ConditionMeaning ==
    file = << >> =>
        \A results \in [Names -> BOOLEAN] :
            evaluate_condition(condition, results) <=> Denotes(condition, results) = {TRUE}

\* A complete report that does not say it was cut off is at least as severe as
\* every rule that held live while its lines came in; one that says it is running
\* has somebody working on it, unless that somebody died or could not commit.
HeldLive(rule, n) ==
    rule.enabled /\ \E k \in 1..n :
        LET events == Events(SubSeq(file, 1, k))
        IN  Holds(rule, events[k], Store("sqlalchemy", events))
ReportTruth ==
    \A r \in DOMAIN reports :
        /\ reports[r].status = "complete" /\ ~reports[r].summary.truncated =>
               \A rule \in Rules : rule.type \in Comparable /\ HeldLive(rule, reports[r].lines) =>
                   Rank(rule.severity) <= Rank(reports[r].summary.worst)
        /\ reports[r].status = "running" => job.id = r \/ r \in abandoned
=============================================================================
