------------------------------ MODULE LiveRules ------------------------------
(***************************************************************************)
(* app/detection/rules/*.py: when each rule's condition holds for an event *)
(* that has just been stored.  Alerting models what happens next, the      *)
(* search for an open alert and the new one; here only the pair <<rule,    *)
(* key>> matters that an alert then covers.                                *)
(***************************************************************************)
EXTENDS EventStores

CONSTANTS
    Rules,          \* the detection_rules rows: type, severity, threshold, window, enabled
    Critical,       \* paths is_critical_path accepts
    Suspicious,     \* commands a pattern of the privilege rule occurs in
    WebPatterns,    \* words web_attack's patterns match as they stand, in their order
    Encoded,        \* a percent-encoded word |-> what it decodes to
    ToolAgents      \* a user agent |-> the first signature it contains

\* RuleUpdate and the seeds: no rule holds without an event.
ASSUME Thresholds == \A r \in Rules : r.threshold \in Nat \ {0}

\* matched_pattern: Event ID 4672 by itself, or a suspicious command.
matched_pattern(ev) == ev.id = 4672 \/ ev.data.command \in Suspicious

\* The path, the actor or the source an alert is filed under.
offender(ev) == IF ev.user # None THEN ev.user ELSE ev.src

\* The rules are asked about the event ev, which the store already holds.
Start(rule, ev) == ev.raw.time - rule.window

brute_force(rule, ev, store) ==
    /\ ev.type = "authentication_failure" /\ ev.src # None
    /\ count_events(store, ev.type, ev.src, Start(rule, ev), ev.raw.time) >= rule.threshold

port_scan(rule, ev, store) ==
    /\ ev.type = "port_access" /\ ev.src # None /\ ev.port # None
    /\ count_distinct_ports(store, ev.src, Start(rule, ev), ev.raw.time) >= rule.threshold

login_after_failure(rule, ev, store) ==
    /\ ev.type = "authentication_success" /\ ev.src # None
    /\ count_events(store, "authentication_failure", ev.src, Start(rule, ev), ev.raw.time)
       >= rule.threshold

credential_stuffing(rule, ev, store) ==
    /\ ev.type = "authentication_failure" /\ ev.src # None
    /\ count_distinct_usernames(store, ev.type, ev.src, Start(rule, ev), ev.raw.time)
       >= rule.threshold

file_integrity(rule, ev, store) ==
    /\ ev.type = "file_integrity_change" /\ ev.data.path \in Critical
    /\ count_by_normalized_path(store, ev.type, ev.data.path, Start(rule, ev), ev.raw.time)
       >= rule.threshold

\* Once the actor did something suspicious, all it did with privileges counts.
privilege_escalation(rule, ev, store) ==
    /\ ev.type = "privilege_related" /\ matched_pattern(ev) /\ offender(ev) # None
    /\ count_events_by_actor(store, ev.type, ev.user, ev.src, Start(rule, ev), ev.raw.time)
       >= rule.threshold

\* matched: the first pattern that matches, 0 when none does.
matched(words) ==
    LET At == {i \in DOMAIN WebPatterns : WebPatterns[i] \in words}
    IN  IF At = {} THEN 0 ELSE CHOOSE i \in At : \A k \in At : i <= k

\* _extract_targets: the text and what it decodes to.
targets(ev) == ev.raw.shows \cup {Encoded[x] : x \in ev.raw.shows \cap DOMAIN Encoded}
web_attack(ev) == ev.type = "web_request" /\ matched(targets(ev)) # 0

\* _extract_ua: the agent that was parsed, else the one the text shows after "User-Agent".
user_agent(ev) ==
    LET shown == IF "User-Agent" \in ev.raw.shows THEN ev.raw.shows \cap DOMAIN ToolAgents ELSE {}
    IN  IF ev.data.agent # None \/ shown = {} THEN ev.data.agent ELSE CHOOSE a \in shown : TRUE
suspicious_user_agent(ev) == user_agent(ev) \in DOMAIN ToolAgents

Holds(rule, ev, store) ==
    CASE rule.type = "brute_force"           -> brute_force(rule, ev, store)
      [] rule.type = "port_scan"             -> port_scan(rule, ev, store)
      [] rule.type = "login_after_failure"   -> login_after_failure(rule, ev, store)
      [] rule.type = "credential_stuffing"   -> credential_stuffing(rule, ev, store)
      [] rule.type = "file_integrity"        -> file_integrity(rule, ev, store)
      [] rule.type = "privilege_escalation"  -> privilege_escalation(rule, ev, store)
      [] rule.type = "web_attack"            -> web_attack(ev)
      [] rule.type = "suspicious_user_agent" -> suspicious_user_agent(ev)
      [] OTHER                               -> FALSE

Key(rule, ev) ==
    CASE rule.type = "file_integrity"       -> ev.data.path
      [] rule.type = "privilege_escalation" -> offender(ev)
      [] rule.type = "web_attack"           -> <<ev.src, matched(targets(ev))>>
      [] rule.type = "suspicious_user_agent" -> <<ev.src, ToolAgents[user_agent(ev)]>>
      [] OTHER                              -> ev.src

\* engine.evaluate: every enabled rule, for the event stored last.
evaluate(events, backend) ==
    LET ev    == events[Len(events)]
        store == Store(backend, events)
    IN  {[rule |-> r.type, key |-> Key(r, ev)] : r \in {q \in Rules : q.enabled /\ Holds(q, ev, store)}}
=============================================================================
