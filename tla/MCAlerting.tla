----------------------------- MODULE MCAlerting -----------------------------
(***************************************************************************)
(* Instances of Alerting for TLC: the rules of the run and the events that *)
(* may arrive, all from one source address.                                *)
(***************************************************************************)
EXTENDS Alerting

CONSTANTS w1, w2, u1, u2, ip, alice, bob

Event(kind, val, t) == [kind |-> kind, key |-> ip, val |-> val, ts |-> t]
Fail(val, t) == Event("auth_failure", val, t)

\* The two rules one failed login can fire together.
Logins      == <<"brute_force", "credential_stuffing">>
\* With one that counts another kind of event than the one it looks at.
ThreeRules  == Logins \o <<"login_after_failure">>
Brute       == <<"brute_force">>

Looks == [r \in Rules |-> IF r = "login_after_failure" THEN "auth_success" ELSE "auth_failure"]
Sums  == [r \in Rules |-> "auth_failure"]
Mixed == [r \in Rules |-> IF r = "brute_force" THEN 1 ELSE 2]
One   == [r \in Rules |-> 1]

OneUser    == {Fail(alice, t) : t \in 0..2}
FewLogins  == {Fail(alice, 0), Fail(bob, 1), Fail(alice, 2), Event("auth_success", alice, 2)}
=============================================================================
