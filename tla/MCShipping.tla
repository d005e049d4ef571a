----------------------------- MODULE MCShipping -----------------------------
EXTENDS Shipping

Events == [i \in 1..MaxLines |-> "event"]

\* One line that has nothing to send, and one that is no JSON (for the forwarder only).
MCLogs == {[Events EXCEPT ![3] = "nothing"], [Events EXCEPT ![2] = "garbage"]}
=============================================================================
