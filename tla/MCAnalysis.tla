----------------------------- MODULE MCAnalysis -----------------------------
(***************************************************************************)
(* Names for an instance of Analysis: the lines of the log, the rules and  *)
(* numbers small enough to be reached.                                     *)
(***************************************************************************)
EXTENDS Analysis, TLC

CONSTANTS ip, bob, eve, system, passwd, sudoedit, sqlmap

Failed(u, t) == [Blank EXCEPT !.form = "failed", !.user = u, !.addr = ip, !.shows = {"failure"}, !.time = t]
Some ==
    {Failed(bob, 0), [Failed(eve, 3) EXCEPT !.form = "pam"],
     [Blank EXCEPT !.form = "accepted", !.user = bob, !.addr = ip, !.time = 1],
     [Blank EXCEPT !.form = "windows", !.id = 4672, !.names = <<system, bob>>, !.addr = "-", !.time = 1],
     [Blank EXCEPT !.form = "windows", !.id = 4625, !.names = << >>, !.addr = ip, !.time = 2],
     [Blank EXCEPT !.form = "integrity", !.user = eve, !.item = passwd, !.shows = {"cbs", "0x80004005"}]}
Others ==
    {[Blank EXCEPT !.form = "connect", !.addr = ip, !.port = 22],
     [Blank EXCEPT !.form = "connect", !.addr = ip, !.port = 23, !.time = 1],
     [Blank EXCEPT !.form = "sudo", !.user = bob, !.item = sudoedit],
     [Blank EXCEPT !.form = "text", !.id = 4624, !.shows = {"http", "jndi", "User-Agent", sqlmap}],
     [Blank EXCEPT !.form = "access", !.addr = ip, !.item = sqlmap, !.shows = {"http", "union%20select"}]}

Logged == Some \cup Others

Row(type, n, severity) ==
    [type |-> type, threshold |-> n, severity |-> severity, window |-> 2, enabled |-> TRUE]
Rows == {Row("brute_force", 2, "high"), Row("port_scan", 2, "medium"),
         Row("login_after_failure", 2, "high"), Row("credential_stuffing", 2, "high"),
         Row("file_integrity", 2, "critical"), Row("privilege_escalation", 1, "high"),
         Row("web_attack", 1, "high"), Row("suspicious_user_agent", 1, "low"),
         [Row("brute_force", 1, "low") EXCEPT !.enabled = FALSE]}

Decodes == ("union%20select" :> "union select")
Agents  == (sqlmap :> "sqlmap")
Patterns == <<"union select", "jndi">>
Codes   == ("0x80004005" :> "medium")
Catalogue == {[name |-> "jndi", severity |-> "critical", web |-> TRUE],
              [name |-> "cbs", severity |-> "medium", web |-> FALSE]}
Small == [hresult |-> 2, logons |-> 2, rate |-> 3, cbs |-> 1, cbsMany |-> 2,
          signature |-> 2, failures |-> 2, many |-> 3]

One   == ("1 of sel*" :> {"sel1", "sel2"}) @@ ("1 of x*" :> {})
All   == ("all of them" :> {"sel1", "sel2", "filter"})
Finds ==
    ("sel1"   :> [maps |-> {{[field |-> "User", modifiers |-> {}, values |-> {bob}]}}, words |-> {}]) @@
    ("sel2"   :> [maps |-> {{[field |-> "command", modifiers |-> {"contains"}, values |-> {"sudo"}],
                             [field |-> "Image", modifiers |-> {"all"}, values |-> {"http", "jndi"}]}},
                  words |-> {"cbs"}]) @@
    ("filter" :> [maps |-> {}, words |-> {"failure"}])
Occurs == {<<"contains", "sudo", sudoedit>>}
\* The second is too long to be written here: it can only replace the first.
Finished == {<<"1 of sel*", "and", "not", "filter">>,
             <<"sel1", "or", "sel2", "and", "not", "filter">>}
=============================================================================
