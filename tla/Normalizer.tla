----------------------------- MODULE Normalizer -----------------------------
(***************************************************************************)
(* app/ingestion/normalizer.py: a raw log line becomes an event.           *)
(*                                                                         *)
(* A line is what its text shows: the form a parser recognises, the fields *)
(* that form carries, and the set of words (markers, codes, names of       *)
(* signatures) the text contains.  No field beside raw_log is submitted,   *)
(* which is how the offline analysis calls normalize and how a shipper     *)
(* that only forwards lines does.                                          *)
(***************************************************************************)
EXTENDS Integers, Sequences, FiniteSets

CONSTANTS
    None,               \* None
    ServiceAccounts,    \* WINDOWS_SERVICE_ACCOUNTS and the names that end in "$"
    Unroutable          \* "-", "::1", "127.0.0.1"

ASSUME NoneIsNoText == None # "" /\ None \notin BOOLEAN

\* A line with nothing in it; the others are made from it with EXCEPT.
\* "names" are the Account Name fields in order, "id" the number after
\* "Event ID", "time" the time it carries or the time it came.
Blank == [form |-> "text", id |-> None, names |-> << >>, user |-> None, addr |-> None,
          port |-> None, item |-> None, shows |-> {}, time |-> 0]

\* _WINDOWS_EVENT_MAP; an id it does not list is privilege related.
EventType(id) ==
    CASE id \in {4625, 4740, 4776} -> "authentication_failure"
      [] id \in {4624, 4634, 4648} -> "authentication_success"
      [] OTHER                     -> "privilege_related"
EventSeverity(id) ==
    CASE id = 1102 -> "high"
      [] id \in {4625, 4720, 4726, 4732, 4756, 4740, 4776, 7045} -> "medium"
      [] OTHER -> "low"

\* The last Account Name is the account the event is about.
Account(line) ==
    IF line.names = << >> \/ line.names[Len(line.names)] \in {"", "-"} THEN None
    ELSE line.names[Len(line.names)]

\* What a parser found; a line no parser knows is "unparsed".
NoData == [windows |-> FALSE, service |-> None, path |-> None, command |-> None, agent |-> None]
Event(line, type, severity, user, src, port, id, data) ==
    [type |-> type, severity |-> severity, user |-> user, src |-> src, port |-> port,
     id |-> id, data |-> data, raw |-> line]

parse_windows_event(line) ==
    LET user == Account(line)
    IN  Event(line, EventType(line.id), EventSeverity(line.id), user,
              IF line.addr \in Unroutable THEN None ELSE line.addr, None, line.id,
              [NoData EXCEPT !.windows = TRUE,
                             !.service = user = None \/ user \in ServiceAccounts])

parse_linux_line(line) ==
    LET Ev(type, severity, user, src, data) ==
            Event(line, type, severity, user, src, line.port, None, data)
    IN  CASE line.form = "failed"    -> Ev("authentication_failure", "medium", line.user, line.addr, NoData)
          [] line.form = "accepted"  -> Ev("authentication_success", "low", line.user, line.addr, NoData)
          [] line.form = "pam" /\ {line.user, line.addr} # {None} ->
                 Ev("authentication_failure", "medium", line.user, line.addr, NoData)
          [] line.form = "sudo"      ->
                 Ev("privilege_related", "medium", line.user, None, [NoData EXCEPT !.command = line.item])
          [] line.form = "integrity" ->
                 Ev("file_integrity_change", "high", line.user, None, [NoData EXCEPT !.path = line.item])
          [] line.form = "connect"   -> Ev("port_access", "low", None, line.addr, NoData)
          [] line.form = "access"    ->
                 Ev("web_request", "low", None, line.addr, [NoData EXCEPT !.agent = line.item])
          [] OTHER                   -> Ev("unparsed", "low", None, None, NoData)

normalize(line) ==
    IF line.form = "windows" THEN parse_windows_event(line) ELSE parse_linux_line(line)
=============================================================================
