-------------------------- MODULE ContainmentPromise --------------------------
(***************************************************************************)
(* What the containment chain promises about one order, without databases, *)
(* polls or messages: it is carried out at most once, never after a later  *)
(* order for the same endpoint, not at all once it has been retired, and   *)
(* what the console is told of it is told once and is what happened.       *)
(***************************************************************************)
EXTENDS Naturals

CONSTANTS OrderIds,    \* numbered in the order they are issued
          Endpoints,
          Nobody       \* the endpoint of an order that does not exist yet

VARIABLES phase,       \* what has become of each order
          dest,        \* the endpoint it is for
          told         \* the verdict the console shows, or "open"

pvars == <<phase, dest, told>>

Ran(o) == phase[o] \in {"ok", "error"}

PInit ==
    /\ phase = [o \in OrderIds |-> "none"]
    /\ dest = [o \in OrderIds |-> Nobody]
    /\ told = [o \in OrderIds |-> "open"]

Issue(o, e) ==
    /\ phase[o] = "none"
    /\ phase' = [phase EXCEPT ![o] = "queued"]
    /\ dest' = [dest EXCEPT ![o] = e]
    /\ UNCHANGED told

\* One poll of e: some of its orders reach the agent, some turn out to be
\* too old, and some are handed over but never arrive.
Hand(e, arrive, tooOld, vanish) ==
    /\ \A o \in arrive \cup tooOld \cup vanish : phase[o] = "queued" /\ dest[o] = e
    /\ arrive \cap (tooOld \cup vanish) = {}
    /\ tooOld \cap vanish = {}
    /\ phase' = [o \in OrderIds |-> IF o \in arrive THEN "taken"
                                    ELSE IF o \in tooOld \cup vanish THEN "dead"
                                    ELSE phase[o]]
    /\ told' = [o \in OrderIds |-> IF o \in tooOld THEN "expired" ELSE told[o]]
    /\ UNCHANGED dest

Run(o, outcome) ==
    /\ phase[o] = "taken"
    /\ \A p \in OrderIds : p > o /\ dest[p] = dest[o] => ~Ran(p)
    /\ phase' = [phase EXCEPT ![o] = outcome]
    /\ UNCHANGED <<dest, told>>

Tell(o) ==
    /\ Ran(o) /\ told[o] = "open"
    /\ told' = [told EXCEPT ![o] = IF phase[o] = "ok" THEN "succeeded" ELSE "failed"]
    /\ UNCHANGED <<phase, dest>>

Lose(S) ==
    /\ \A o \in S : phase[o] = "taken"
    /\ phase' = [o \in OrderIds |-> IF o \in S THEN "dead" ELSE phase[o]]
    /\ UNCHANGED <<dest, told>>

PNext ==
    \/ \E o \in OrderIds, e \in Endpoints : Issue(o, e)
    \/ \E e \in Endpoints, A, D, V \in SUBSET OrderIds : Hand(e, A, D, V)
    \/ \E o \in OrderIds : Run(o, "ok") \/ Run(o, "error") \/ Tell(o)
    \/ \E S \in SUBSET OrderIds : Lose(S)

PSpec == PInit /\ [][PNext]_pvars
=============================================================================
