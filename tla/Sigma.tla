-------------------------------- MODULE Sigma --------------------------------
(***************************************************************************)
(* app/detection/sigma.py: how a Sigma rule matches an event.              *)
(*                                                                         *)
(* A condition is a sequence of tokens: names of selections, "and", "or",  *)
(* "not", parentheses, and the quantifiers "1 of p" and "all of p", each   *)
(* one token.  The parser is the code's, function by function; Denotes,    *)
(* below it, says what a condition means without parsing it.               *)
(***************************************************************************)
EXTENDS Normalizer

CONSTANTS
    Names,      \* the rule's selections
    OneOf,      \* "1 of p" |-> the selections whose names start with p
    AllOf,      \* "all of p" |-> the same
    Relates     \* <<modifier, expected, actual>> that match: contains, startswith, endswith, re

Quantifiers == DOMAIN OneOf \cup DOMAIN AllOf

\* Words of the language itself; a selection that has such a name cannot be named.
Reserved == {"(", ")", "and", "or", "not", "true", "false"}

\* A quantifier is written in several words.
ASSUME QuantifierWords == Quantifiers \cap Reserved = {}

(***************************************************************************)
(* Selections.                                                             *)
(***************************************************************************)

\* A field of the event, if it has it; what is not one is looked for in the line.
resolve_field(field, ev) ==
    CASE field = "EventID"    -> {ev.id} \ {None}
      [] field = "User"       -> {ev.user} \ {None}
      [] field = "SourceIp"   -> {ev.src} \ {None}
      [] field = "command"    -> {ev.data.command} \ {None}
      [] field = "user_agent" -> {ev.data.agent} \ {None}
      [] OTHER                -> {}

\* One "field|modifier: values".  On a structured value a bare "all" never compares equal.
match_one(entry, ev) ==
    LET actual == resolve_field(entry.field, ev)
        How == IF "re" \in entry.modifiers THEN {"re"} ELSE entry.modifiers
        Compare(x) ==
            IF actual = {} THEN x \in ev.raw.shows
            ELSE \E a \in actual : \/ entry.modifiers = {} /\ a = x
                                   \/ \E m \in How : <<m, x, a>> \in Relates
    IN  IF "all" \in entry.modifiers THEN \A x \in entry.values : Compare(x)
                                     ELSE \E x \in entry.values : Compare(x)

\* A selection is a set of maps (one of them, all of its entries) or of keywords.
match_selection(sel, ev) ==
    \/ \E map \in sel.maps : \A entry \in map : match_one(entry, ev)
    \/ sel.words \cap ev.raw.shows # {}

(***************************************************************************)
(* Conditions.                                                             *)
(***************************************************************************)

Bad == [ok |-> FALSE, value |-> FALSE, at |-> 0]
Got(v, i) == [ok |-> TRUE, value |-> v, at |-> i]
Peek(t, i) == IF i <= Len(t) THEN t[i] ELSE "end"

\* The calls the parser can make: one of its functions, or the head of the loop
\* of _parse_or or _parse_and with the value so far; and the token it stands at.
\* The operators below compute a call from the parser's answers p to the others.
Calls(t) == {"or", "or rest", "and", "and rest", "not"} \X (1..(Len(t) + 1)) \X BOOLEAN

Loop(p, rest, left) == IF left.ok THEN p[<<rest, left.at, left.value>>] ELSE Bad

\* A first operand, then as long as the word follows another.
parse_or(p, i) == Loop(p, "or rest", p[<<"and", i, TRUE>>])
OrRest(t, p, i, value) ==
    IF Peek(t, i) # "or" THEN Got(value, i)
    ELSE Loop(p, "or rest", [p[<<"and", i + 1, TRUE>>] EXCEPT !.value = value \/ @])

parse_and(p, i) == Loop(p, "and rest", p[<<"not", i, TRUE>>])
AndRest(t, p, i, value) ==
    IF Peek(t, i) # "and" THEN Got(value, i)
    ELSE Loop(p, "and rest", [p[<<"not", i + 1, TRUE>>] EXCEPT !.value = value /\ @])

parse_atom(t, p, i) ==
    CASE Peek(t, i) = "(" ->
             LET inner == p[<<"or", i + 1, TRUE>>]
             IN  IF inner.ok /\ Peek(t, inner.at) = ")" THEN Got(inner.value, inner.at + 1) ELSE Bad
      [] Peek(t, i) = "true"  -> Got(TRUE, i + 1)
      [] Peek(t, i) = "false" -> Got(FALSE, i + 1)
      [] OTHER -> Bad

Negated(v) == IF v.ok THEN Got(~v.value, v.at) ELSE Bad
\* Slip: "not" takes everything up to the next "or".
NotWidely(t, p, i) ==
    IF Peek(t, i) # "not" THEN parse_atom(t, p, i) ELSE Negated(p[<<"and", i + 1, TRUE>>])
parse_not(t, p, i) ==
    IF Peek(t, i) # "not" THEN parse_atom(t, p, i) ELSE Negated(p[<<"not", i + 1, TRUE>>])

Answer(t, p, c) ==
    CASE c[1] = "or"       -> parse_or(p, c[2])
      [] c[1] = "or rest"  -> OrRest(t, p, c[2], c[3])
      [] c[1] = "and"      -> parse_and(p, c[2])
      [] c[1] = "and rest" -> AndRest(t, p, c[2], c[3])
      [] c[1] = "not"      -> parse_not(t, p, c[2])
parser(t) == LET p[c \in Calls(t)] == Answer(t, p, c) IN p

\* _quantifier: a pattern that matches no selection is false, "all of" it too.
quantifier(q, results) ==
    IF q \in DOMAIN OneOf THEN \E n \in OneOf[q] : results[n]
    ELSE AllOf[q] # {} /\ \A n \in AllOf[q] : results[n]

\* Quantifiers and names are replaced before anything is parsed.
Word(b) == IF b THEN "true" ELSE "false"
substitute(x, results) ==
    IF x \in Quantifiers THEN Word(quantifier(x, results))
    ELSE IF x \in Reserved THEN x
    ELSE IF x \in Names THEN Word(results[x]) ELSE "unknown"

\* _evaluate_condition: a name that is no selection, or a syntax error, makes the
\* rule match nothing.
evaluate_condition(cond, results) ==
    LET t == [i \in DOMAIN cond |-> substitute(cond[i], results)]
        v == parser(t)[<<"or", 1, TRUE>>]
    IN  /\ \A i \in DOMAIN t : t[i] # "unknown"
        /\ v.ok /\ v.at = Len(t) + 1 /\ v.value

rule_matches(rule, ev) ==
    evaluate_condition(rule.condition,
                       [n \in Names |-> match_selection(rule.detection[n], ev)])

(***************************************************************************)
(* What a condition means, without parsing it: its grammar, as ambiguous   *)
(* as it reads.  "or" binds weakest, then "and", then "not"; a disjunction *)
(* or conjunction may be split at any of its words.  Denotes is the set of *)
(* values some reading gives the whole, empty when it is no condition.     *)
(***************************************************************************)
Literal(x, results) ==
    IF x \in {"true", "false"} THEN {x = "true"}
    ELSE IF x \in DOMAIN OneOf THEN {\E n \in OneOf[x] : results[n]}
    ELSE IF x \in DOMAIN AllOf THEN {AllOf[x] # {} /\ \A n \in AllOf[x] : results[n]}
    ELSE IF x \in Names \ Reserved THEN {results[x]} ELSE {}

\* Tokens i to j - 1, read as a disjunction, a conjunction or a negation.
Spans(t) == {s \in {"or", "and", "not"} \X (1..(Len(t) + 1)) \X (1..(Len(t) + 1)) : s[2] <= s[3]}

Splits(t, word, i, j) == {k \in i..(j - 1) : t[k] = word}
Either(A, B) == {a \/ b : a \in A, b \in B}
Both(A, B)   == {a /\ b : a \in A, b \in B}

Reading(t, results, d, level, i, j) ==
    CASE level = "or"  ->
             d[<<"and", i, j>>]
             \cup UNION {Either(d[<<"or", i, k>>], d[<<"or", k + 1, j>>]) : k \in Splits(t, "or", i, j)}
      [] level = "and" ->
             d[<<"not", i, j>>]
             \cup UNION {Both(d[<<"and", i, k>>], d[<<"and", k + 1, j>>]) : k \in Splits(t, "and", i, j)}
      [] level = "not" ->
             IF i = j THEN {}
             ELSE UNION {IF t[i] = "not" THEN {~a : a \in d[<<"not", i + 1, j>>]} ELSE {},
                         IF t[i] = "(" /\ t[j - 1] = ")" THEN d[<<"or", i + 1, j - 1>>] ELSE {},
                         IF j = i + 1 THEN Literal(t[i], results) ELSE {}}
readings(t, results) == LET d[s \in Spans(t)] == Reading(t, results, d, s[1], s[2], s[3]) IN d

Denotes(t, results) == readings(t, results)[<<"or", 1, Len(t) + 1>>]
=============================================================================
