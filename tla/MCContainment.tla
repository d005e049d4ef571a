---------------------------- MODULE MCContainment ----------------------------
(***************************************************************************)
(* Instances of Containment for TLC: who the endpoints are, what the       *)
(* decisions act on and where their events came from.                      *)
(***************************************************************************)
EXTENDS Containment

CONSTANTS e1, e2, ip, user, root, d1, d2, d3, d4

\* Two alerts about one address, both seen on e1.
SameAddress == [a \in Actions |-> ip]
AllOnE1     == [a \in Actions |-> e1]

\* One decision against an address, one against an account.
AddressAndAccount == [a \in Actions |-> IF a = d1 THEN ip ELSE user]
\* One of each kind: a block, an account, a decision with no agent verb and
\* one against a protected account.
EveryKind ==
    [a \in Actions |-> IF a = d1 THEN ip ELSE IF a = d4 THEN root ELSE user]
\* Two events on hosts of their own.
OwnHosts  == [a \in Actions |-> IF a = d1 THEN e1 ELSE e2]

Linux   == [e \in Endpoints |-> "linux"]
Windows == [e \in Endpoints |-> "windows"]
Darwin  == [e \in Endpoints |-> "darwin"]
=============================================================================
