----------------------------- MODULE MCService -----------------------------
(***************************************************************************)
(* Names for an instance of Service, and the databases it starts from.     *)
(***************************************************************************)
EXTENDS Service

CONSTANTS p1, p2, shared, c1, c2, brute, files

Fresh == [schema |-> {}, users |-> FALSE, rules |-> [r \in Rule |-> NoRule], alerts |-> {}]

\* An earlier release: no phases, parameters or keys; one rule was never seeded.
Old ==
    [schema |-> {"base"}, users |-> TRUE,
     rules |-> [r \in Rule |-> IF r = files THEN NoRule
                               ELSE [phase |-> "unset", parameters |-> "unset"]],
     alerts |-> {[rule |-> brute, phase |-> "right", key |-> FALSE, source |-> TRUE],
                 [rule |-> brute, phase |-> "right", key |-> FALSE, source |-> FALSE]}]

\* A later one: columns of one table short, phases of the wrong kind.
Stale ==
    [schema |-> Parts \ {"alerts"}, users |-> TRUE,
     rules |-> [r \in Rule |-> [phase |-> "stale", parameters |-> "unset"]],
     alerts |-> {[rule |-> brute, phase |-> "stale", key |-> FALSE, source |-> TRUE]}]

Current ==
    [schema |-> Parts, users |-> TRUE, rules |-> [r \in Rule |-> seeded(r)], alerts |-> {}]

Started == {Fresh, Old, Stale, Current}

Choices ==
    {[production |-> FALSE, problems |-> {"SECRET_KEY"}, dialect |-> "sqlite"],
     [production |-> TRUE, problems |-> {"DEFAULT_ADMIN_PASSWORD"}, dialect |-> "sqlite"],
     [production |-> TRUE, problems |-> {}, dialect |-> "sqlite"],
     [production |-> TRUE, problems |-> {}, dialect |-> "postgresql"]}
=============================================================================
