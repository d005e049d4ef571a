----------------------------- MODULE SigmaProofs -----------------------------
(***************************************************************************)
(* The condition parser of sigma.py and the meaning of a condition agree,  *)
(* for every condition and every result of its selections.                 *)
(*                                                                         *)
(* Both are recursive functions.  The library's induction theorems take an *)
(* operator for a parameter, so the principles they rest on are stated     *)
(* here over sets and functions: induction over a measure, and a function  *)
(* that is its own image under a map that only looks at smaller arguments. *)
(***************************************************************************)
EXTENDS Sigma, FiniteSetTheorems, NaturalsInduction, WellFoundedInduction, TLAPS

LEMMA LeastElement ==
    ASSUME NEW S, S \subseteq Nat, S # {}
    PROVE  \E n \in S : \A m \in S : n <= m
<1> DEFINE R == OpToRel(<, Nat)
<1>1. IsWellFoundedOn(R, Nat)
  BY NatLessThanWellFounded
<1>2. \A m, k \in Nat : m < k => <<m, k>> \in R
  BY DEF OpToRel
<1> HIDE DEF R
<1>3. PICK n \in S : \A m \in S : ~ (<<m, n>> \in R)
  BY <1>1, WFMin
<1>4. ASSUME NEW m \in S PROVE n <= m
  <2>1. m \in Nat /\ n \in Nat
    OBVIOUS
  <2>2. ~(m < n)
    BY <1>2, <1>3, <2>1
  <2> QED BY <2>1, <2>2
<1> QED BY <1>4

\* What holds of x as soon as it holds of everything smaller holds of all of S.
LEMMA MeasureInduction ==
    ASSUME NEW S, NEW m \in [S -> Nat], NEW T,
           \A x \in S : (\A y \in S : m[y] < m[x] => y \in T) => x \in T
    PROVE  S \subseteq T
<1> SUFFICES ASSUME NEW z \in S, z \notin T PROVE FALSE
  OBVIOUS
<1> DEFINE V == {m[x] : x \in {y \in S : y \notin T}}
<1>1. V \subseteq Nat /\ m[z] \in V
  OBVIOUS
<1>2. PICK n \in V : \A k \in V : n <= k
  BY <1>1, LeastElement
<1>3. PICK x \in S : x \notin T /\ m[x] = n
  BY <1>2
<1>4. ASSUME NEW y \in S, m[y] < m[x] PROVE y \in T
  <2>1. m[y] \in Nat /\ m[x] \in Nat
    OBVIOUS
  <2>2. SUFFICES ASSUME y \notin T PROVE FALSE
    OBVIOUS
  <2>3. m[y] \in V
    BY <2>2
  <2>4. n <= m[y]
    <3> HIDE DEF V
    <3> QED BY <1>2, <2>3
  <2>5. m[y] < n
    BY <1>3, <1>4
  <2>6. n \in Nat
    BY <1>3, <2>1
  <2> HIDE DEF V
  <2> QED BY ONLY <2>1, <2>4, <2>5, <2>6
<1> QED BY <1>3, <1>4

LEMMA Predecessor ==
    ASSUME NEW x \in Nat, x # 0
    PROVE  x - 1 \in Nat /\ x - 1 < x /\ (x - 1) + 1 = x
  OBVIOUS

LEMMA EveryNumber ==
    ASSUME NEW T, 0 \in T, \A n \in T : n \in Nat => n + 1 \in T
    PROVE  Nat \subseteq T
<1> SUFFICES ASSUME NEW z \in Nat, z \notin T PROVE FALSE
  OBVIOUS
<1> DEFINE V == {n \in Nat : n \notin T}
<1>1. V \subseteq Nat /\ V # {}
  OBVIOUS
<1>2. PICK n \in V : \A k \in V : n <= k
  BY <1>1, LeastElement
<1>3. n \in Nat /\ n \notin T /\ n # 0
  BY <1>2
<1>4. n - 1 \in Nat /\ n - 1 < n /\ (n - 1) + 1 = n
  BY <1>3, Predecessor
<1>5. n - 1 \in T
  <2> SUFFICES ASSUME n - 1 \notin T PROVE FALSE
    OBVIOUS
  <2>1. n <= n - 1
    BY <1>2, <1>4
  <2> QED BY <1>3, <2>1
<1> QED BY <1>3, <1>4, <1>5

\* G is a set of functions on S, and F[g][x] depends only on what g is below x.
FunctionsOn(S, G) == \A g \in G : g = [x \in S |-> g[x]]
LooksBelow(S, m, G, F) ==
    \A g, h \in G : \A x \in S : (\A y \in S : m[y] < m[x] => g[y] = h[y]) => F[g][x] = F[h][x]

(***************************************************************************)
(* A map F of a set of functions into itself has a fixed point, when F[g]  *)
(* looks up g only at smaller arguments: after n rounds the arguments with *)
(* a measure below n have settled.                                         *)
(***************************************************************************)
LEMMA FixedPoint ==
    ASSUME NEW S, NEW N \in Nat, NEW m \in [S -> 0..N],
           NEW G, FunctionsOn(S, G), G # {}, NEW F \in [G -> G],
           LooksBelow(S, m, G, F)
    PROVE  \E g \in G : F[g] = g
<1> DEFINE Settled(n, g) == \A x \in S : m[x] < n => F[g][x] = g[x]
           Reached == {n \in Nat : \E g \in G : Settled(n, g)}
<1>1. \A x \in S : m[x] \in Nat /\ m[x] <= N
  OBVIOUS
<1>2. 0 \in Reached
  BY <1>1
<1>3. ASSUME NEW n \in Reached PROVE n + 1 \in Reached
  <2>1. PICK g \in G : Settled(n, g)
    OBVIOUS
  <2>2. F[g] \in G
    OBVIOUS
  <2>3. ASSUME NEW x \in S, m[x] < n + 1 PROVE F[F[g]][x] = F[g][x]
    <3>1. ASSUME NEW y \in S, m[y] < m[x] PROVE F[g][y] = g[y]
      <4>1. m[y] < n
        BY <1>1, <2>3, <3>1
      <4> QED BY <2>1, <4>1
    <3> QED BY <2>2, <2>3, <3>1 DEF LooksBelow
  <2> QED BY <2>2, <2>3
<1>4. N + 1 \in Reached
  <2>1. Nat \subseteq Reached
    <3> HIDE DEF Reached
    <3> QED BY <1>2, <1>3, EveryNumber
  <2> QED BY <2>1
<1>5. PICK g \in G : Settled(N + 1, g)
  BY <1>4
<1>6. \A x \in S : F[g][x] = g[x]
  BY <1>1, <1>5
<1> DEFINE h == F[g]
<1>7. h \in G
  OBVIOUS
<1>8. h = [x \in S |-> h[x]] /\ g = [x \in S |-> g[x]]
  <2> HIDE DEF h, Settled
  <2> QED BY <1>7 DEF FunctionsOn
<1>9. h = g
  <2>1. \A x \in S : h[x] = g[x]
    BY <1>6
  <2> HIDE DEF h, Settled
  <2> QED BY <1>8, <2>1
<1> QED BY <1>9

-----------------------------------------------------------------------------
(***************************************************************************)
(* The parser.  An answer that is not Bad stands after the token asked     *)
(* about; the head of a loop may answer where it stands.                   *)
(***************************************************************************)
Result(t) == {r \in [ok : BOOLEAN, value : BOOLEAN, at : 0..(Len(t) + 1)] : r.ok => r.at # 0}
Passed(c) == IF c[1] \in {"or rest", "and rest"} THEN c[2] ELSE c[2] + 1
Advances(c, r) == r.ok => r.at >= Passed(c)
Advancing(t) == {p \in [Calls(t) -> Result(t)] : \A c \in Calls(t) : Advances(c, p[c])}

\* A call asks only about what is further on, or is a part of itself.
Height(c) == IF c[1] = "or" THEN 2 ELSE IF c[1] = "and" THEN 1 ELSE 0
Left(t) == [c \in Calls(t) |-> 3 * (Len(t) + 1 - c[2]) + Height(c)]

LEMMA Triple ==
    ASSUME NEW A, NEW B, NEW C, NEW c \in A \X B \X C
    PROVE  c = <<c[1], c[2], c[3]>> /\ c[1] \in A /\ c[2] \in B /\ c[3] \in C
  OBVIOUS

LEMMA Position ==
    ASSUME NEW n \in Nat, NEW i \in 1..(n + 1)
    PROVE  i \in Nat /\ i >= 1 /\ i <= n + 1
  OBVIOUS

LEMMA CallTypes ==
    ASSUME NEW t, Len(t) \in Nat, NEW c \in Calls(t)
    PROVE  /\ c = <<c[1], c[2], c[3]>>
           /\ c[1] \in {"or", "or rest", "and", "and rest", "not"}
           /\ c[2] \in 1..(Len(t) + 1) /\ c[2] \in Nat /\ c[2] >= 1 /\ c[2] <= Len(t) + 1
           /\ c[3] \in BOOLEAN
<1> DEFINE A == {"or", "or rest", "and", "and rest", "not"}
           B == 1..(Len(t) + 1)
<1>1. c \in A \X B \X BOOLEAN
  BY DEF Calls
<1>2. c = <<c[1], c[2], c[3]>> /\ c[1] \in A /\ c[2] \in B /\ c[3] \in BOOLEAN
  <2> HIDE DEF A, B
  <2> QED BY <1>1, Triple
<1>3. c[2] \in Nat /\ c[2] >= 1 /\ c[2] <= Len(t) + 1
  BY <1>2, Position
<1> QED BY <1>2, <1>3

LEMMA IsCall ==
    ASSUME NEW t, Len(t) \in Nat, NEW name \in {"or", "or rest", "and", "and rest", "not"},
           NEW i \in 1..(Len(t) + 1), NEW v \in BOOLEAN
    PROVE  <<name, i, v>> \in Calls(t)
  BY DEF Calls

LEMMA LeftTypes ==
    ASSUME NEW t, Len(t) \in Nat
    PROVE  Left(t) \in [Calls(t) -> 0..(3 * Len(t) + 5)]
<1>1. ASSUME NEW c \in Calls(t) PROVE 3 * (Len(t) + 1 - c[2]) + Height(c) \in 0..(3 * Len(t) + 5)
  <2>1. c[2] \in Nat /\ c[2] >= 1 /\ c[2] <= Len(t) + 1
    BY CallTypes
  <2>2. Height(c) \in 0..2
    BY DEF Height
  <2> QED BY <2>1, <2>2
<1> QED BY <1>1 DEF Left

\* What the operators look up, and what a well formed answer is.
LEMMA ResultTypes ==
    ASSUME NEW t, Len(t) \in Nat, NEW r \in Result(t)
    PROVE  /\ r = [ok |-> r.ok, value |-> r.value, at |-> r.at]
           /\ r.ok \in BOOLEAN /\ r.value \in BOOLEAN /\ r.at \in 0..(Len(t) + 1)
           /\ r.ok => r.at \in 1..(Len(t) + 1)
  BY DEF Result

LEMMA GotAndBad ==
    ASSUME NEW t, Len(t) \in Nat
    PROVE  /\ Bad \in Result(t) /\ ~Bad.ok
           /\ \A v \in BOOLEAN, i \in 1..(Len(t) + 1) :
                  Got(v, i) \in Result(t) /\ Got(v, i).ok /\ Got(v, i).value = v /\ Got(v, i).at = i
  BY DEF Result, Bad, Got

\* A word that is not the end of the condition has one after it, or the end.
LEMMA PeekInside ==
    ASSUME NEW t, Len(t) \in Nat, NEW i \in 1..(Len(t) + 1), Peek(t, i) # "end"
    PROVE  i \in 1..Len(t) /\ i + 1 \in 1..(Len(t) + 1) /\ t[i] = Peek(t, i)
  BY DEF Peek

LEMMA LookUp ==
    ASSUME NEW t, Len(t) \in Nat, NEW p \in Advancing(t),
           NEW name \in {"or", "or rest", "and", "and rest", "not"},
           NEW i \in 1..(Len(t) + 1), NEW v \in BOOLEAN
    PROVE  /\ p[<<name, i, v>>] \in Result(t)
           /\ p[<<name, i, v>>].ok =>
                  p[<<name, i, v>>].at >= IF name \in {"or rest", "and rest"} THEN i ELSE i + 1
<1> DEFINE c == <<name, i, v>>
<1>1. c \in Calls(t)
  BY IsCall
<1>2. c[1] = name /\ c[2] = i
  OBVIOUS
<1> HIDE DEF c
<1>3. p[c] \in Result(t) /\ Advances(c, p[c])
  BY <1>1 DEF Advancing
<1>4. p[c].ok => p[c].at >= IF name \in {"or rest", "and rest"} THEN i ELSE i + 1
  BY <1>2, <1>3 DEF Advances, Passed
<1> QED BY <1>3, <1>4 DEF c

LEMMA LoopAnswer ==
    ASSUME NEW t, Len(t) \in Nat, NEW p \in Advancing(t), NEW r \in Result(t),
           NEW rest \in {"or rest", "and rest"}
    PROVE  /\ Loop(p, rest, r) \in Result(t)
           /\ Loop(p, rest, r).ok => r.ok /\ Loop(p, rest, r).at >= r.at
<1>1. CASE r.ok
  <2>1. r.at \in 1..(Len(t) + 1) /\ r.value \in BOOLEAN
    BY <1>1, ResultTypes
  <2>2. rest \in {"or", "or rest", "and", "and rest", "not"}
    OBVIOUS
  <2>3. /\ p[<<rest, r.at, r.value>>] \in Result(t)
        /\ p[<<rest, r.at, r.value>>].ok => p[<<rest, r.at, r.value>>].at >= r.at
    BY <2>1, <2>2, LookUp
  <2>4. Loop(p, rest, r) = p[<<rest, r.at, r.value>>]
    BY <1>1 DEF Loop
  <2> QED BY <1>1, <2>3, <2>4
<1>2. CASE ~r.ok
  BY <1>2, GotAndBad DEF Loop
<1> QED BY <1>1, <1>2

LEMMA OtherValue ==
    ASSUME NEW t, Len(t) \in Nat, NEW r \in Result(t), NEW b \in BOOLEAN
    PROVE  /\ [r EXCEPT !.value = b] \in Result(t)
           /\ [r EXCEPT !.value = b].ok = r.ok
           /\ [r EXCEPT !.value = b].at = r.at
           /\ [r EXCEPT !.value = b].value = b
  BY DEF Result

\* Each operator of the parser, asked of answers that advance, advances.
LEMMA AnswerAdvances ==
    ASSUME NEW t, Len(t) \in Nat, NEW p \in Advancing(t), NEW c \in Calls(t)
    PROVE  Answer(t, p, c) \in Result(t) /\ Advances(c, Answer(t, p, c))
<1> DEFINE i == c[2]
           P(name) == p[<<name, i, TRUE>>]
           Q(name) == p[<<name, i + 1, TRUE>>]
<1>1. i \in 1..(Len(t) + 1) /\ i \in Nat /\ c[3] \in BOOLEAN
  BY CallTypes
<1>9. c[1] \in {"or", "or rest", "and", "and rest", "not"}
  BY CallTypes
<1>2. ASSUME NEW name \in {"or", "and", "not"}
      PROVE  P(name) \in Result(t) /\ (P(name).ok => P(name).at >= i + 1)
  BY <1>1, LookUp
<1>3. ASSUME NEW name \in {"or", "and", "not"}, i + 1 \in 1..(Len(t) + 1)
      PROVE  Q(name) \in Result(t) /\ (Q(name).ok => Q(name).at >= i + 2)
  <2>1. (i + 1) + 1 = i + 2
    BY <1>1
  <2> QED BY <1>3, <2>1, LookUp
<1>0. c[2] = i
  OBVIOUS
<1> HIDE DEF i
<1>4. CASE c[1] = "or"
  <2>1. Answer(t, p, c) = Loop(p, "or rest", P("and"))
    BY <1>0, <1>4 DEF Answer, parse_or
  <2> DEFINE r == Loop(p, "or rest", P("and"))
  <2> HIDE DEF P
  <2>2. r \in Result(t) /\ (r.ok => P("and").ok /\ r.at >= P("and").at)
    BY <1>2, LoopAnswer
  <2> HIDE DEF r
  <2>3. r.at \in Nat /\ P("and").at \in Nat
    BY <1>2, <2>2, ResultTypes
  <2>4. r.ok => r.at >= i + 1
    BY <1>1, <1>2, <2>2, <2>3
  <2>5. Passed(c) = i + 1
    BY <1>0, <1>4 DEF Passed
  <2>6. Answer(t, p, c) = r
    BY <2>1 DEF r
  <2> QED BY <2>2, <2>4, <2>5, <2>6 DEF Advances
<1>5. CASE c[1] = "and"
  <2>1. Answer(t, p, c) = Loop(p, "and rest", P("not"))
    BY <1>0, <1>5 DEF Answer, parse_and
  <2> DEFINE r == Loop(p, "and rest", P("not"))
  <2> HIDE DEF P
  <2>2. r \in Result(t) /\ (r.ok => P("not").ok /\ r.at >= P("not").at)
    BY <1>2, LoopAnswer
  <2> HIDE DEF r
  <2>3. r.at \in Nat /\ P("not").at \in Nat
    BY <1>2, <2>2, ResultTypes
  <2>4. r.ok => r.at >= i + 1
    BY <1>1, <1>2, <2>2, <2>3
  <2>5. Passed(c) = i + 1
    BY <1>0, <1>5 DEF Passed
  <2>6. Answer(t, p, c) = r
    BY <2>1 DEF r
  <2> QED BY <2>2, <2>4, <2>5, <2>6 DEF Advances
<1>6. CASE c[1] = "or rest"
  <2>0. Passed(c) = i
    BY <1>0, <1>6 DEF Passed
  <2>1. CASE Peek(t, i) # "or"
    <3>1. Answer(t, p, c) = Got(c[3], i)
      BY <1>0, <1>6, <2>1 DEF Answer, OrRest
    <3>2. Got(c[3], i) \in Result(t) /\ Got(c[3], i).at = i
      BY <1>1, GotAndBad
    <3> QED BY <1>1, <2>0, <3>1, <3>2 DEF Advances
  <2>2. CASE Peek(t, i) = "or"
    <3> DEFINE q == Q("and")
               u == [q EXCEPT !.value = c[3] \/ @]
               r == Loop(p, "or rest", u)
    <3>1. Answer(t, p, c) = r
      BY <1>0, <1>6, <2>2 DEF Answer, OrRest
    <3>2. i + 1 \in 1..(Len(t) + 1)
      BY <1>1, <2>2, PeekInside
    <3>3. q \in Result(t) /\ (q.ok => q.at >= i + 2)
      BY <1>3, <3>2
    <3> HIDE DEF q
    <3>4. (c[3] \/ q.value) \in BOOLEAN
      OBVIOUS
    <3>5. u \in Result(t) /\ u.ok = q.ok /\ u.at = q.at
      BY ONLY <3>3, <3>4 DEF Result
    <3> HIDE DEF u
    <3>6. r \in Result(t) /\ (r.ok => u.ok /\ r.at >= u.at)
      BY <3>5, LoopAnswer
    <3> HIDE DEF r
    <3>7. r.at \in Nat /\ u.at \in Nat
      BY <3>5, <3>6, ResultTypes
    <3>8. r.ok => r.at >= i
      BY <1>1, <3>3, <3>5, <3>6, <3>7
    <3> QED BY <2>0, <3>1, <3>6, <3>8 DEF Advances
  <2> QED BY <2>1, <2>2
<1>7. CASE c[1] = "and rest"
  <2>0. Passed(c) = i
    BY <1>0, <1>7 DEF Passed
  <2>1. CASE Peek(t, i) # "and"
    <3>1. Answer(t, p, c) = Got(c[3], i)
      BY <1>0, <1>7, <2>1 DEF Answer, AndRest
    <3>2. Got(c[3], i) \in Result(t) /\ Got(c[3], i).at = i
      BY <1>1, GotAndBad
    <3> QED BY <1>1, <2>0, <3>1, <3>2 DEF Advances
  <2>2. CASE Peek(t, i) = "and"
    <3> DEFINE q == Q("not")
               u == [q EXCEPT !.value = c[3] /\ @]
               r == Loop(p, "and rest", u)
    <3>1. Answer(t, p, c) = r
      BY <1>0, <1>7, <2>2 DEF Answer, AndRest
    <3>2. i + 1 \in 1..(Len(t) + 1)
      BY <1>1, <2>2, PeekInside
    <3>3. q \in Result(t) /\ (q.ok => q.at >= i + 2)
      BY <1>3, <3>2
    <3> HIDE DEF q
    <3>4. (c[3] /\ q.value) \in BOOLEAN
      OBVIOUS
    <3>5. u \in Result(t) /\ u.ok = q.ok /\ u.at = q.at
      BY ONLY <3>3, <3>4 DEF Result
    <3> HIDE DEF u
    <3>6. r \in Result(t) /\ (r.ok => u.ok /\ r.at >= u.at)
      BY <3>5, LoopAnswer
    <3> HIDE DEF r
    <3>7. r.at \in Nat /\ u.at \in Nat
      BY <3>5, <3>6, ResultTypes
    <3>8. r.ok => r.at >= i
      BY <1>1, <3>3, <3>5, <3>6, <3>7
    <3> QED BY <2>0, <3>1, <3>6, <3>8 DEF Advances
  <2> QED BY <2>1, <2>2
<1>8. CASE c[1] = "not"
  <2>0. Passed(c) = i + 1
    BY <1>0, <1>8 DEF Passed
  <2>1. Answer(t, p, c) = parse_not(t, p, i)
    BY <1>0, <1>8 DEF Answer
  <2>2. CASE Peek(t, i) = "not"
    <3>1. Q("not") \in Result(t) /\ (Q("not").ok => Q("not").at >= i + 2)
      BY <1>1, <1>3, <2>2, PeekInside
    <3>2. parse_not(t, p, i) = Negated(Q("not"))
      BY <2>2 DEF parse_not
    <3> HIDE DEF Q
    <3>3. CASE Q("not").ok
      <4>1. Q("not").at \in 1..(Len(t) + 1) /\ Q("not").at \in Nat /\ (~Q("not").value) \in BOOLEAN
        BY <3>1, <3>3, ResultTypes
      <4>2. Negated(Q("not")) = Got(~Q("not").value, Q("not").at)
        BY <3>3 DEF Negated
      <4>3. Negated(Q("not")) \in Result(t) /\ Negated(Q("not")).at = Q("not").at
        BY <4>1, <4>2, GotAndBad
      <4>4. Negated(Q("not")).at >= i + 1
        BY <1>1, <3>1, <3>3, <4>1, <4>3
      <4> QED BY <2>0, <2>1, <3>2, <4>3, <4>4 DEF Advances
    <3>4. CASE ~Q("not").ok
      BY <2>1, <3>2, <3>4, GotAndBad DEF Negated, Advances
    <3> QED BY <3>3, <3>4
  <2>3. CASE Peek(t, i) # "not"
    <3>1. Answer(t, p, c) = parse_atom(t, p, i)
      BY <2>1, <2>3 DEF parse_not
    <3>2. CASE Peek(t, i) = "("
      <4> DEFINE q == Q("or")
      <4>1. q \in Result(t) /\ (q.ok => q.at >= i + 2)
        BY <1>1, <1>3, <3>2, PeekInside
      <4>2. parse_atom(t, p, i) = IF q.ok /\ Peek(t, q.at) = ")" THEN Got(q.value, q.at + 1) ELSE Bad
        BY <3>2 DEF parse_atom
      <4> HIDE DEF q
      <4>3. CASE q.ok /\ Peek(t, q.at) = ")"
        <5>1. q.at \in 1..(Len(t) + 1) /\ q.at \in Nat /\ q.value \in BOOLEAN
          BY <4>1, <4>3, ResultTypes
        <5>2. q.at + 1 \in 1..(Len(t) + 1)
          BY <4>3, <5>1, PeekInside
        <5>3. /\ parse_atom(t, p, i) \in Result(t)
              /\ parse_atom(t, p, i).at = q.at + 1
          BY <4>2, <4>3, <5>1, <5>2, GotAndBad
        <5>4. q.at + 1 >= i + 1
          BY <1>1, <4>1, <4>3, <5>1
        <5> QED BY <2>0, <3>1, <5>3, <5>4 DEF Advances
      <4>4. CASE ~(q.ok /\ Peek(t, q.at) = ")")
        BY <3>1, <4>2, <4>4, GotAndBad DEF Advances
      <4> QED BY <4>3, <4>4
    <3>3. CASE Peek(t, i) \in {"true", "false"}
      <4>1. i + 1 \in 1..(Len(t) + 1)
        BY <1>1, <3>3, PeekInside
      <4>2. PICK v \in BOOLEAN : parse_atom(t, p, i) = Got(v, i + 1)
        BY <3>3 DEF parse_atom
      <4>3. /\ parse_atom(t, p, i) \in Result(t)
            /\ parse_atom(t, p, i).at = i + 1
        BY <4>1, <4>2, GotAndBad
      <4> QED BY <1>1, <2>0, <3>1, <4>3 DEF Advances
    <3>4. CASE Peek(t, i) \notin {"(", "true", "false"}
      <4>1. parse_atom(t, p, i) = Bad
        BY <3>4 DEF parse_atom
      <4> QED BY <3>1, <4>1, GotAndBad DEF Advances
    <3> QED BY <3>2, <3>3, <3>4
  <2> QED BY <2>2, <2>3
<1> QED BY <1>4, <1>5, <1>6, <1>7, <1>8, <1>9

\* ... and it asks only about what has less left to read.
LEMMA Further ==
    ASSUME NEW t, Len(t) \in Nat, NEW c \in Calls(t), NEW y \in Calls(t),
           y[2] > c[2] \/ (y[2] = c[2] /\ Height(y) < Height(c))
    PROVE  Left(t)[y] < Left(t)[c]
<1>1. /\ c[2] \in Nat /\ c[2] >= 1 /\ c[2] <= Len(t) + 1
      /\ y[2] \in Nat /\ y[2] >= 1 /\ y[2] <= Len(t) + 1
  BY CallTypes
<1>2. Height(c) \in 0..2 /\ Height(y) \in 0..2
  BY DEF Height
<1>3. /\ Left(t)[y] = 3 * (Len(t) + 1 - y[2]) + Height(y)
      /\ Left(t)[c] = 3 * (Len(t) + 1 - c[2]) + Height(c)
  BY DEF Left
<1> DEFINE i == c[2]
           j == y[2]
           a == Height(c)
           b == Height(y)
<1>4. ASSUME NEW n \in Nat, NEW x \in Nat, NEW z \in Nat, NEW d \in 0..2, NEW e \in 0..2,
             z > x \/ (z = x /\ e < d)
      PROVE  3 * (n + 1 - z) + e < 3 * (n + 1 - x) + d
  BY <1>4
<1>5. 3 * (Len(t) + 1 - j) + b < 3 * (Len(t) + 1 - i) + a
  BY <1>1, <1>2, <1>4
<1> QED BY <1>3, <1>5

LEMMA AnswerLocal ==
    ASSUME NEW t, Len(t) \in Nat, NEW p \in Advancing(t), NEW q, NEW c \in Calls(t),
           \A y \in Calls(t) : Left(t)[y] < Left(t)[c] => p[y] = q[y]
    PROVE  Answer(t, p, c) = Answer(t, q, c)
<1> DEFINE i == c[2]
<1>0. c[2] = i
  OBVIOUS
<1>1. i \in 1..(Len(t) + 1) /\ i \in Nat /\ c[3] \in BOOLEAN
  BY CallTypes
<1>2. c[1] \in {"or", "or rest", "and", "and rest", "not"}
  BY CallTypes
<1> HIDE DEF i
<1>3. ASSUME NEW name \in {"or", "or rest", "and", "and rest", "not"}, NEW j \in 1..(Len(t) + 1),
             NEW v \in BOOLEAN, j > i
      PROVE  p[<<name, j, v>>] = q[<<name, j, v>>]
  <2> DEFINE y == <<name, j, v>>
  <2>1. y \in Calls(t) /\ y[2] = j
    BY IsCall
  <2> HIDE DEF y
  <2>2. y[2] > c[2]
    BY <1>0, <1>3, <2>1
  <2>3. p[y] = q[y]
    BY <2>1, <2>2, Further
  <2> QED BY <2>3 DEF y
<1>4. ASSUME NEW r \in Result(t), r.ok => r.at > i, NEW rest \in {"or rest", "and rest"}
      PROVE  Loop(p, rest, r) = Loop(q, rest, r)
  <2>1. CASE r.ok
    <3>1. r.at \in 1..(Len(t) + 1) /\ r.value \in BOOLEAN
      BY <2>1, ResultTypes
    <3>2. rest \in {"or", "or rest", "and", "and rest", "not"}
      OBVIOUS
    <3>3. r.at > i
      BY <1>4, <2>1
    <3> HIDE DEF Loop
    <3>4. p[<<rest, r.at, r.value>>] = q[<<rest, r.at, r.value>>]
      BY <1>3, <3>1, <3>2, <3>3
    <3> QED BY <3>4 DEF Loop
  <2>2. CASE ~r.ok
    BY <2>2 DEF Loop
  <2> QED BY <2>1, <2>2
<1>5. ASSUME NEW name \in {"or", "and", "not"}, i + 1 \in 1..(Len(t) + 1)
      PROVE  /\ p[<<name, i + 1, TRUE>>] = q[<<name, i + 1, TRUE>>]
             /\ p[<<name, i + 1, TRUE>>] \in Result(t)
             /\ p[<<name, i + 1, TRUE>>].ok => p[<<name, i + 1, TRUE>>].at > i
  <2> DEFINE r == p[<<name, i + 1, TRUE>>]
  <2>1. i + 1 > i /\ (i + 1) + 1 > i
    BY <1>1
  <2>2. r = q[<<name, i + 1, TRUE>>]
    BY <1>3, <1>5, <2>1
  <2>3. r \in Result(t) /\ (r.ok => r.at >= (i + 1) + 1)
    BY <1>5, LookUp
  <2> HIDE DEF r
  <2>4. r.at \in Nat
    BY <2>3, ResultTypes
  <2>5. r.ok => r.at > i
    BY <1>1, <2>3, <2>4
  <2> QED BY <2>2, <2>3, <2>5 DEF r
<1>6. CASE c[1] = "or"
  <2> DEFINE y == <<"and", i, TRUE>>
             r == p[y]
  <2>1. y \in Calls(t) /\ y[2] = i /\ y[1] = "and"
    BY <1>1, IsCall
  <2>2. r \in Result(t) /\ (r.ok => r.at >= i + 1)
    BY <1>1, LookUp
  <2> HIDE DEF y
  <2>3. Height(y) < Height(c)
    BY <1>6, <2>1 DEF Height
  <2>4. r = q[y]
    BY <1>0, <2>1, <2>3, Further
  <2>5. r.ok => r.at > i
    <3> HIDE DEF r
    <3>1. r.at \in Nat
      BY <2>2, ResultTypes
    <3> QED BY <1>1, <2>2, <3>1
  <2>6. Loop(p, "or rest", r) = Loop(q, "or rest", r)
    BY <1>4, <2>2, <2>5
  <2>7. parse_or(p, i) = Loop(p, "or rest", r) /\ parse_or(q, i) = Loop(q, "or rest", q[y])
    BY DEF parse_or, y
  <2> QED BY <1>0, <1>6, <2>4, <2>6, <2>7 DEF Answer
<1>7. CASE c[1] = "and"
  <2> DEFINE y == <<"not", i, TRUE>>
             r == p[y]
  <2>1. y \in Calls(t) /\ y[2] = i /\ y[1] = "not"
    BY <1>1, IsCall
  <2>2. r \in Result(t) /\ (r.ok => r.at >= i + 1)
    BY <1>1, LookUp
  <2> HIDE DEF y
  <2>3. Height(y) < Height(c)
    BY <1>7, <2>1 DEF Height
  <2>4. r = q[y]
    BY <1>0, <2>1, <2>3, Further
  <2>5. r.ok => r.at > i
    <3> HIDE DEF r
    <3>1. r.at \in Nat
      BY <2>2, ResultTypes
    <3> QED BY <1>1, <2>2, <3>1
  <2>6. Loop(p, "and rest", r) = Loop(q, "and rest", r)
    BY <1>4, <2>2, <2>5
  <2>7. parse_and(p, i) = Loop(p, "and rest", r) /\ parse_and(q, i) = Loop(q, "and rest", q[y])
    BY DEF parse_and, y
  <2> QED BY <1>0, <1>7, <2>4, <2>6, <2>7 DEF Answer
<1>8. ASSUME NEW r \in Result(t), r.ok => r.at > i, NEW b \in BOOLEAN, NEW rest \in {"or rest", "and rest"}
      PROVE  Loop(p, rest, [r EXCEPT !.value = b]) = Loop(q, rest, [r EXCEPT !.value = b])
  <2> DEFINE u == [r EXCEPT !.value = b]
  <2>1. u \in Result(t) /\ u.ok = r.ok /\ u.at = r.at
    BY ONLY <1>8 DEF Result
  <2> HIDE DEF u
  <2>2. u.ok => u.at > i
    BY <1>8, <2>1
  <2>3. Loop(p, rest, u) = Loop(q, rest, u)
    BY <1>4, <2>1, <2>2
  <2> QED BY <2>3 DEF u
<1>9. CASE c[1] = "or rest"
  <2>1. CASE Peek(t, i) = "or"
    <3> DEFINE r == p[<<"and", i + 1, TRUE>>]
    <3>1. i + 1 \in 1..(Len(t) + 1)
      BY <1>1, <2>1, PeekInside
    <3>2. r = q[<<"and", i + 1, TRUE>>] /\ r \in Result(t) /\ (r.ok => r.at > i)
      BY <1>5, <3>1
    <3>3. /\ OrRest(t, p, i, c[3]) = Loop(p, "or rest", [r EXCEPT !.value = c[3] \/ r.value])
          /\ OrRest(t, q, i, c[3]) = Loop(q, "or rest", [r EXCEPT !.value = c[3] \/ r.value])
      BY <2>1, <3>2 DEF OrRest
    <3> HIDE DEF r
    <3>4. (c[3] \/ r.value) \in BOOLEAN
      OBVIOUS
    <3>5. OrRest(t, p, i, c[3]) = OrRest(t, q, i, c[3])
      BY <1>8, <3>2, <3>3, <3>4
    <3> QED BY <1>0, <1>9, <3>5 DEF Answer
  <2>2. CASE Peek(t, i) # "or"
    BY <1>0, <1>9, <2>2 DEF Answer, OrRest
  <2> QED BY <2>1, <2>2
<1>10. CASE c[1] = "and rest"
  <2>1. CASE Peek(t, i) = "and"
    <3> DEFINE r == p[<<"not", i + 1, TRUE>>]
    <3>1. i + 1 \in 1..(Len(t) + 1)
      BY <1>1, <2>1, PeekInside
    <3>2. r = q[<<"not", i + 1, TRUE>>] /\ r \in Result(t) /\ (r.ok => r.at > i)
      BY <1>5, <3>1
    <3>3. /\ AndRest(t, p, i, c[3]) = Loop(p, "and rest", [r EXCEPT !.value = c[3] /\ r.value])
          /\ AndRest(t, q, i, c[3]) = Loop(q, "and rest", [r EXCEPT !.value = c[3] /\ r.value])
      BY <2>1, <3>2 DEF AndRest
    <3> HIDE DEF r
    <3>4. (c[3] /\ r.value) \in BOOLEAN
      OBVIOUS
    <3>5. AndRest(t, p, i, c[3]) = AndRest(t, q, i, c[3])
      BY <1>8, <3>2, <3>3, <3>4
    <3> QED BY <1>0, <1>10, <3>5 DEF Answer
  <2>2. CASE Peek(t, i) # "and"
    BY <1>0, <1>10, <2>2 DEF Answer, AndRest
  <2> QED BY <2>1, <2>2
<1>11. CASE c[1] = "not"
  <2>1. Peek(t, i) = "(" => parse_atom(t, p, i) = parse_atom(t, q, i)
    <3> SUFFICES ASSUME Peek(t, i) = "(" PROVE parse_atom(t, p, i) = parse_atom(t, q, i)
      OBVIOUS
    <3>1. i + 1 \in 1..(Len(t) + 1)
      BY <1>1, PeekInside
    <3>2. p[<<"or", i + 1, TRUE>>] = q[<<"or", i + 1, TRUE>>]
      BY <1>5, <3>1
    <3> QED BY <3>2 DEF parse_atom
  <2>2. Peek(t, i) # "(" => parse_atom(t, p, i) = parse_atom(t, q, i)
    BY DEF parse_atom
  <2>3. Peek(t, i) = "not" => p[<<"not", i + 1, TRUE>>] = q[<<"not", i + 1, TRUE>>]
    BY <1>1, <1>5, PeekInside
  <2>4. parse_not(t, p, i) = parse_not(t, q, i)
    BY <2>1, <2>2, <2>3 DEF parse_not
  <2> QED BY <1>0, <1>11, <2>4 DEF Answer
<1> QED BY <1>2, <1>6, <1>7, <1>9, <1>10, <1>11

(***************************************************************************)
(* So the parser is what its definition says it is, on every call.         *)
(***************************************************************************)
LEMMA ParserAnswers ==
    ASSUME NEW t, Len(t) \in Nat
    PROVE  /\ parser(t) \in Advancing(t)
           /\ \A c \in Calls(t) : parser(t)[c] = Answer(t, parser(t), c)
<1> DEFINE G == Advancing(t)
           S == Calls(t)
           m == Left(t)
           N == 3 * Len(t) + 5
           F == [p \in G |-> [c \in S |-> Answer(t, p, c)]]
           Solves(f) == f = [c \in S |-> Answer(t, f, c)]
<1>1. N \in Nat /\ m \in [S -> 0..N]
  BY LeftTypes
<1>2. FunctionsOn(S, G)
  BY DEF Advancing, FunctionsOn
<1>3. F \in [G -> G]
  <2> SUFFICES ASSUME NEW p \in G PROVE [c \in S |-> Answer(t, p, c)] \in G
    OBVIOUS
  <2> DEFINE g == [c \in S |-> Answer(t, p, c)]
  <2>1. \A c \in S : g[c] \in Result(t) /\ Advances(c, g[c])
    BY AnswerAdvances
  <2>2. g = [c \in S |-> g[c]]
    OBVIOUS
  <2> HIDE DEF g
  <2> QED BY <2>1, <2>2 DEF Advancing, g
<1>4. G # {}
  <2> DEFINE g == [c \in S |-> Bad]
  <2>1. g \in [S -> Result(t)] /\ \A c \in S : Advances(c, g[c])
    BY GotAndBad DEF Advances
  <2> QED BY <2>1 DEF Advancing
<1>5. LooksBelow(S, m, G, F)
  <2> SUFFICES ASSUME NEW p \in G, NEW q \in G, NEW c \in S, \A y \in S : m[y] < m[c] => p[y] = q[y]
               PROVE  Answer(t, p, c) = Answer(t, q, c)
    BY DEF LooksBelow
  <2> QED BY AnswerLocal
<1>6. PICK g \in G : F[g] = g
  <2> HIDE DEF G, S, m, N, F
  <2> QED BY <1>1, <1>2, <1>3, <1>4, <1>5, FixedPoint
<1>7. Solves(g)
  BY <1>6
<1>8. Solves(parser(t))
  <2>1. parser(t) = CHOOSE f : Solves(f)
    BY DEF parser
  <2> HIDE DEF Solves
  <2> QED BY <1>7, <2>1
<1> DEFINE f == parser(t)
<1>9. ASSUME NEW c \in S, \A y \in S : m[y] < m[c] => g[y] = f[y]
      PROVE  g[c] = f[c]
  <2>1. Answer(t, g, c) = Answer(t, f, c)
    BY <1>9, AnswerLocal
  <2>2. g[c] = Answer(t, g, c) /\ f[c] = Answer(t, f, c)
    <3> HIDE DEF f
    <3>1. f = [b \in S |-> Answer(t, f, b)]
      BY <1>8 DEF f
    <3> QED BY <1>7, <3>1
  <2> QED BY <2>1, <2>2
<1>10. m \in [S -> Nat]
  BY <1>1
<1>11. \A c \in S : g[c] = f[c]
  <2> DEFINE T == {c \in S : g[c] = f[c]}
  <2>1. \A c \in S : (\A y \in S : m[y] < m[c] => y \in T) => c \in T
    BY <1>9
  <2>2. S \subseteq T
    <3> HIDE DEF S, m, T
    <3> QED BY <1>10, <2>1, MeasureInduction
  <2> QED BY <2>2
<1>12. g = f
  <2>1. f = [c \in S |-> f[c]] /\ g = [c \in S |-> g[c]]
    BY <1>7, <1>8
  <2> HIDE DEF f, S
  <2> QED BY <1>11, <2>1
<1>13. \A c \in Calls(t) : f[c] = Answer(t, f, c)
  <2> HIDE DEF f
  <2>1. f = [b \in S |-> Answer(t, f, b)]
    BY <1>8 DEF f
  <2> QED BY <2>1
<1> QED BY <1>12, <1>13

-----------------------------------------------------------------------------
(***************************************************************************)
(* The readings.  A reading of a span is made of readings of shorter ones, *)
(* or of the same span one level down.                                     *)
(***************************************************************************)
Width(t) == [s \in Spans(t) |-> 3 * (s[3] - s[2]) + Height(s)]

LEMMA SpanTypes ==
    ASSUME NEW t, Len(t) \in Nat, NEW s \in Spans(t)
    PROVE  /\ s = <<s[1], s[2], s[3]>> /\ s[1] \in {"or", "and", "not"}
           /\ s[2] \in Nat /\ s[3] \in Nat /\ 1 <= s[2] /\ s[2] <= s[3] /\ s[3] <= Len(t) + 1
<1> DEFINE A == {"or", "and", "not"}
           B == 1..(Len(t) + 1)
<1>1. s \in A \X B \X B /\ s[2] <= s[3]
  BY DEF Spans
<1>2. s = <<s[1], s[2], s[3]>> /\ s[1] \in A /\ s[2] \in B /\ s[3] \in B
  <2> HIDE DEF A, B
  <2> QED BY <1>1, Triple
<1>3. s[2] \in Nat /\ s[3] \in Nat /\ 1 <= s[2] /\ s[2] <= s[3] /\ s[3] <= Len(t) + 1
  BY <1>1, <1>2, Position
<1> QED BY <1>2, <1>3

LEMMA IsSpan ==
    ASSUME NEW t, Len(t) \in Nat, NEW level \in {"or", "and", "not"},
           NEW i \in Nat, NEW j \in Nat, 1 <= i, i <= j, j <= Len(t) + 1
    PROVE  <<level, i, j>> \in Spans(t)
<1>1. i \in 1..(Len(t) + 1) /\ j \in 1..(Len(t) + 1)
  OBVIOUS
<1> QED BY <1>1 DEF Spans

LEMMA WidthTypes ==
    ASSUME NEW t, Len(t) \in Nat
    PROVE  Width(t) \in [Spans(t) -> 0..(3 * Len(t) + 2)]
<1>1. ASSUME NEW s \in Spans(t) PROVE 3 * (s[3] - s[2]) + Height(s) \in 0..(3 * Len(t) + 2)
  <2>1. s[2] \in Nat /\ s[3] \in Nat /\ 1 <= s[2] /\ s[2] <= s[3] /\ s[3] <= Len(t) + 1
    BY SpanTypes
  <2>2. Height(s) \in 0..2
    BY DEF Height
  <2> QED BY <2>1, <2>2
<1> QED BY <1>1 DEF Width

LEMMA Narrower ==
    ASSUME NEW t, Len(t) \in Nat, NEW s \in Spans(t), NEW y \in Spans(t),
           \/ y[3] - y[2] < s[3] - s[2]
           \/ y[3] - y[2] = s[3] - s[2] /\ Height(y) < Height(s)
    PROVE  Width(t)[y] < Width(t)[s]
<1>1. s[2] \in Nat /\ s[3] \in Nat /\ y[2] \in Nat /\ y[3] \in Nat
  BY SpanTypes
<1>2. Height(s) \in 0..2 /\ Height(y) \in 0..2
  BY DEF Height
<1>3. /\ Width(t)[y] = 3 * (y[3] - y[2]) + Height(y)
      /\ Width(t)[s] = 3 * (s[3] - s[2]) + Height(s)
  BY DEF Width
<1> DEFINE u == y[3] - y[2]
           v == s[3] - s[2]
           a == Height(s)
           b == Height(y)
<1>4. ASSUME NEW x \in Int, NEW z \in Int, NEW d \in 0..2, NEW e \in 0..2, x < z \/ (x = z /\ e < d)
      PROVE  3 * x + e < 3 * z + d
  BY <1>4
<1>5. u \in Int /\ v \in Int /\ (u < v \/ (u = v /\ b < a))
  BY <1>1
<1>6. 3 * u + b < 3 * v + a
  <2> HIDE DEF u, v, a, b
  <2>1. a \in 0..2 /\ b \in 0..2
    BY <1>2 DEF a, b
  <2> QED BY <1>4, <1>5, <2>1
<1> QED BY <1>3, <1>6

\* What it takes to be in a reading, level by level.
Negations(A) == {~a : a \in A}
Disjunction(t, d, i, j, v) ==
    \/ v \in d[<<"and", i, j>>]
    \/ \E k \in Splits(t, "or", i, j) : v \in Either(d[<<"or", i, k>>], d[<<"or", k + 1, j>>])
Conjunction(t, d, i, j, v) ==
    \/ v \in d[<<"not", i, j>>]
    \/ \E k \in Splits(t, "and", i, j) : v \in Both(d[<<"and", i, k>>], d[<<"and", k + 1, j>>])
Negation(t, results, d, i, j, v) ==
    /\ i # j
    /\ \/ t[i] = "not" /\ v \in Negations(d[<<"not", i + 1, j>>])
       \/ t[i] = "(" /\ t[j - 1] = ")" /\ v \in d[<<"or", i + 1, j - 1>>]
       \/ j = i + 1 /\ v \in Literal(t[i], results)

LEMMA ReadingIs ==
    ASSUME NEW t, NEW results, NEW d, NEW i, NEW j, NEW v
    PROVE  /\ v \in Reading(t, results, d, "or", i, j) <=> Disjunction(t, d, i, j, v)
           /\ v \in Reading(t, results, d, "and", i, j) <=> Conjunction(t, d, i, j, v)
           /\ v \in Reading(t, results, d, "not", i, j) <=> Negation(t, results, d, i, j, v)
<1>1. v \in Reading(t, results, d, "or", i, j) <=> Disjunction(t, d, i, j, v)
  <2> DEFINE E(k) == Either(d[<<"or", i, k>>], d[<<"or", k + 1, j>>])
             U == UNION {E(k) : k \in Splits(t, "or", i, j)}
  <2>1. Reading(t, results, d, "or", i, j) = d[<<"and", i, j>>] \cup U
    BY DEF Reading
  <2>2. Disjunction(t, d, i, j, v)
            <=> v \in d[<<"and", i, j>>] \/ \E k \in Splits(t, "or", i, j) : v \in E(k)
    BY DEF Disjunction
  <2> HIDE DEF E
  <2> QED BY <2>1, <2>2
<1>2. v \in Reading(t, results, d, "and", i, j) <=> Conjunction(t, d, i, j, v)
  <2> DEFINE E(k) == Both(d[<<"and", i, k>>], d[<<"and", k + 1, j>>])
             U == UNION {E(k) : k \in Splits(t, "and", i, j)}
  <2>1. Reading(t, results, d, "and", i, j) = d[<<"not", i, j>>] \cup U
    BY DEF Reading
  <2>2. Conjunction(t, d, i, j, v)
            <=> v \in d[<<"not", i, j>>] \/ \E k \in Splits(t, "and", i, j) : v \in E(k)
    BY DEF Conjunction
  <2> HIDE DEF E
  <2> QED BY <2>1, <2>2
<1>3. v \in Reading(t, results, d, "not", i, j) <=> Negation(t, results, d, i, j, v)
  <2> DEFINE A == IF t[i] = "not" THEN Negations(d[<<"not", i + 1, j>>]) ELSE {}
             B == IF t[i] = "(" /\ t[j - 1] = ")" THEN d[<<"or", i + 1, j - 1>>] ELSE {}
             C == IF j = i + 1 THEN Literal(t[i], results) ELSE {}
  <2>1. Reading(t, results, d, "not", i, j) = IF i = j THEN {} ELSE UNION {A, B, C}
    BY DEF Reading, Negations
  <2> HIDE DEF A, B, C
  <2>2. v \in UNION {A, B, C} <=> v \in A \/ v \in B \/ v \in C
    OBVIOUS
  <2>3. Negation(t, results, d, i, j, v) <=> i # j /\ (v \in A \/ v \in B \/ v \in C)
    BY DEF A, B, C, Negation
  <2> QED BY <2>1, <2>2, <2>3
<1> QED BY <1>1, <1>2, <1>3

LEMMA Combinations ==
    ASSUME NEW A \in SUBSET BOOLEAN, NEW B \in SUBSET BOOLEAN
    PROVE  /\ Either(A, B) \subseteq BOOLEAN /\ Both(A, B) \subseteq BOOLEAN
           /\ Negations(A) \subseteq BOOLEAN
<1>1. Either(A, B) \subseteq BOOLEAN
  BY DEF Either
<1>2. Both(A, B) \subseteq BOOLEAN
  BY DEF Both
<1>3. Negations(A) \subseteq BOOLEAN
  BY DEF Negations
<1> QED BY <1>1, <1>2, <1>3

LEMMA SplitTypes ==
    ASSUME NEW t, NEW word, NEW i \in Nat, NEW j \in Nat, NEW k \in Splits(t, word, i, j)
    PROVE  k \in Nat /\ i <= k /\ k < j /\ t[k] = word
  BY DEF Splits

LEMMA LiteralTypes ==
    ASSUME NEW results \in [Names -> BOOLEAN], NEW x
    PROVE  Literal(x, results) \subseteq BOOLEAN
  BY DEF Literal

\* The spans a reading looks at.
LEMMA PartSpans ==
    ASSUME NEW t, Len(t) \in Nat, NEW s \in Spans(t), NEW i, NEW j, s[2] = i, s[3] = j
    PROVE  /\ i \in Nat /\ j \in Nat /\ i <= j
           /\ s[1] = "or" => <<"and", i, j>> \in Spans(t) /\ Width(t)[<<"and", i, j>>] < Width(t)[s]
           /\ s[1] = "and" => <<"not", i, j>> \in Spans(t) /\ Width(t)[<<"not", i, j>>] < Width(t)[s]
           /\ \A level \in {"or", "and"}, word \in {"or", "and"} : \A k \in Splits(t, word, i, j) :
                  /\ <<level, i, k>> \in Spans(t) /\ Width(t)[<<level, i, k>>] < Width(t)[s]
                  /\ <<level, k + 1, j>> \in Spans(t) /\ Width(t)[<<level, k + 1, j>>] < Width(t)[s]
           /\ i # j => <<"not", i + 1, j>> \in Spans(t) /\ Width(t)[<<"not", i + 1, j>>] < Width(t)[s]
           /\ i # j /\ t[i] = "(" /\ t[j - 1] = ")" =>
                  <<"or", i + 1, j - 1>> \in Spans(t) /\ Width(t)[<<"or", i + 1, j - 1>>] < Width(t)[s]
<1>1. i \in Nat /\ j \in Nat /\ 1 <= i /\ i <= j /\ j <= Len(t) + 1
  BY SpanTypes
<1>2. ASSUME NEW level \in {"or", "and", "not"}, NEW a \in Nat, NEW b \in Nat,
             i <= a, a <= b, b <= j, b - a < j - i
      PROVE  <<level, a, b>> \in Spans(t) /\ Width(t)[<<level, a, b>>] < Width(t)[s]
  <2> DEFINE y == <<level, a, b>>
  <2>0. 1 <= a /\ b <= Len(t) + 1
    BY <1>1, <1>2
  <2>1. y \in Spans(t)
    BY <1>2, <2>0, IsSpan
  <2>2. y[2] = a /\ y[3] = b
    OBVIOUS
  <2> HIDE DEF y
  <2>3. y[3] - y[2] < s[3] - s[2]
    BY <1>2, <2>2
  <2>4. Width(t)[y] < Width(t)[s]
    BY <2>1, <2>3, Narrower
  <2> QED BY <2>1, <2>4 DEF y
<1>3. ASSUME NEW level \in {"or", "and", "not"}, Height(<<level, i, j>>) < Height(s)
      PROVE  <<level, i, j>> \in Spans(t) /\ Width(t)[<<level, i, j>>] < Width(t)[s]
  <2> DEFINE y == <<level, i, j>>
  <2>1. y \in Spans(t)
    BY <1>1, IsSpan
  <2>2. y[2] = i /\ y[3] = j /\ Height(y) < Height(s)
    BY <1>3
  <2> HIDE DEF y
  <2>3. y[3] - y[2] = s[3] - s[2]
    BY <2>2
  <2>4. Width(t)[y] < Width(t)[s]
    BY <2>1, <2>2, <2>3, Narrower
  <2> QED BY <2>1, <2>4 DEF y
<1>4. s[1] = "or" => Height(<<"and", i, j>>) < Height(s)
  BY DEF Height
<1>5. s[1] = "and" => Height(<<"not", i, j>>) < Height(s)
  BY DEF Height
<1>6. ASSUME NEW level \in {"or", "and"}, NEW word \in {"or", "and"}, NEW k \in Splits(t, word, i, j)
      PROVE  /\ <<level, i, k>> \in Spans(t) /\ Width(t)[<<level, i, k>>] < Width(t)[s]
             /\ <<level, k + 1, j>> \in Spans(t) /\ Width(t)[<<level, k + 1, j>>] < Width(t)[s]
  <2>1. k \in Nat /\ i <= k /\ k < j
    BY <1>1, SplitTypes
  <2>2. /\ k + 1 \in Nat /\ i <= i /\ k <= j /\ k - i < j - i
        /\ i <= k + 1 /\ k + 1 <= j /\ j <= j /\ j - (k + 1) < j - i
    BY <1>1, <2>1
  <2>3. level \in {"or", "and", "not"}
    OBVIOUS
  <2> QED BY <1>1, <1>2, <2>1, <2>2, <2>3
<1>7. ASSUME i # j
      PROVE  <<"not", i + 1, j>> \in Spans(t) /\ Width(t)[<<"not", i + 1, j>>] < Width(t)[s]
  <2>1. i + 1 \in Nat /\ i <= i + 1 /\ i + 1 <= j /\ j <= j /\ j - (i + 1) < j - i
    BY <1>1, <1>7
  <2> QED BY <1>1, <1>2, <2>1
<1>8. ASSUME i # j, t[i] = "(", t[j - 1] = ")"
      PROVE  <<"or", i + 1, j - 1>> \in Spans(t) /\ Width(t)[<<"or", i + 1, j - 1>>] < Width(t)[s]
  <2>1. i # j - 1
    BY <1>8
  <2>2. /\ i + 1 \in Nat /\ j - 1 \in Nat /\ i <= i + 1 /\ i + 1 <= j - 1 /\ j - 1 <= j
        /\ (j - 1) - (i + 1) < j - i
    BY <1>1, <1>8, <2>1
  <2> QED BY <1>2, <2>2
<1> QED BY <1>1, <1>3, <1>4, <1>5, <1>6, <1>7, <1>8

LEMMA SplitSpans ==
    ASSUME NEW t, Len(t) \in Nat, NEW s \in Spans(t), NEW i, NEW j, s[2] = i, s[3] = j,
           NEW level \in {"or", "and"}, NEW word \in {"or", "and"}, NEW k \in Splits(t, word, i, j)
    PROVE  /\ <<level, i, k>> \in Spans(t) /\ Width(t)[<<level, i, k>>] < Width(t)[s]
           /\ <<level, k + 1, j>> \in Spans(t) /\ Width(t)[<<level, k + 1, j>>] < Width(t)[s]
  BY PartSpans

LEMMA ReadingTypes ==
    ASSUME NEW t, Len(t) \in Nat, NEW results \in [Names -> BOOLEAN],
           NEW d \in [Spans(t) -> SUBSET BOOLEAN], NEW s \in Spans(t)
    PROVE  Reading(t, results, d, s[1], s[2], s[3]) \in SUBSET BOOLEAN
<1> DEFINE i == s[2]
           j == s[3]
<1>1. s[2] = i /\ s[3] = j /\ s[1] \in {"or", "and", "not"}
  BY SpanTypes
<1> HIDE DEF i, j
<1>2. \A y \in Spans(t) : d[y] \in SUBSET BOOLEAN
  OBVIOUS
<1>6. ASSUME NEW level \in {"or", "and"}, NEW word \in {"or", "and"}, NEW k \in Splits(t, word, i, j)
      PROVE  <<level, i, k>> \in Spans(t) /\ <<level, k + 1, j>> \in Spans(t)
  BY <1>1, SplitSpans
<1> SUFFICES ASSUME NEW v, v \in Reading(t, results, d, s[1], i, j) PROVE v \in BOOLEAN
  BY <1>1
<1>3. CASE s[1] = "or"
  <2>1. <<"and", i, j>> \in Spans(t)
    BY <1>1, <1>3, PartSpans
  <2>2. ASSUME NEW k \in Splits(t, "or", i, j)
        PROVE  Either(d[<<"or", i, k>>], d[<<"or", k + 1, j>>]) \subseteq BOOLEAN
    <3>1. <<"or", i, k>> \in Spans(t) /\ <<"or", k + 1, j>> \in Spans(t)
      BY <1>6
    <3> QED BY <1>2, <3>1, Combinations
  <2>3. Disjunction(t, d, i, j, v)
    BY <1>3, ReadingIs
  <2> QED BY <1>2, <2>1, <2>2, <2>3 DEF Disjunction
<1>4. CASE s[1] = "and"
  <2>1. <<"not", i, j>> \in Spans(t)
    BY <1>1, <1>4, PartSpans
  <2>2. ASSUME NEW k \in Splits(t, "and", i, j)
        PROVE  Both(d[<<"and", i, k>>], d[<<"and", k + 1, j>>]) \subseteq BOOLEAN
    <3>1. <<"and", i, k>> \in Spans(t) /\ <<"and", k + 1, j>> \in Spans(t)
      BY <1>6
    <3> QED BY <1>2, <3>1, Combinations
  <2>3. Conjunction(t, d, i, j, v)
    BY <1>4, ReadingIs
  <2> QED BY <1>2, <2>1, <2>2, <2>3 DEF Conjunction
<1>5. CASE s[1] = "not"
  <2>1. Negation(t, results, d, i, j, v)
    BY <1>5, ReadingIs
  <2>2. i # j
    BY <2>1 DEF Negation
  <2>3. <<"not", i + 1, j>> \in Spans(t)
    BY <1>1, <2>2, PartSpans
  <2>4. t[i] = "(" /\ t[j - 1] = ")" => <<"or", i + 1, j - 1>> \in Spans(t)
    BY <1>1, <2>2, PartSpans
  <2>5. Negations(d[<<"not", i + 1, j>>]) \subseteq BOOLEAN
    BY <1>2, <2>3, Combinations
  <2>6. Literal(t[i], results) \subseteq BOOLEAN
    BY LiteralTypes
  <2> QED BY <1>2, <2>1, <2>4, <2>5, <2>6 DEF Negation
<1> QED BY <1>1, <1>3, <1>4, <1>5

AgreeBelow(t, s, d, e) == \A y \in Spans(t) : Width(t)[y] < Width(t)[s] => d[y] = e[y]

LEMMA ReadingLocal ==
    ASSUME NEW t, Len(t) \in Nat, NEW results, NEW d, NEW e, NEW s \in Spans(t), AgreeBelow(t, s, d, e)
    PROVE  Reading(t, results, d, s[1], s[2], s[3]) = Reading(t, results, e, s[1], s[2], s[3])
<1> DEFINE i == s[2]
           j == s[3]
<1>1. s[2] = i /\ s[3] = j /\ s[1] \in {"or", "and", "not"}
  BY SpanTypes
<1> HIDE DEF i, j
<1> SUFFICES ASSUME NEW v
             PROVE  v \in Reading(t, results, d, s[1], i, j) <=> v \in Reading(t, results, e, s[1], i, j)
  BY <1>1
<1>2. ASSUME NEW level \in {"or", "and"}, NEW word \in {"or", "and"}, NEW k \in Splits(t, word, i, j)
      PROVE  d[<<level, i, k>>] = e[<<level, i, k>>] /\ d[<<level, k + 1, j>>] = e[<<level, k + 1, j>>]
  <2> DEFINE y == <<level, i, k>>
             z == <<level, k + 1, j>>
  <2>1. y \in Spans(t) /\ Width(t)[y] < Width(t)[s] /\ z \in Spans(t) /\ Width(t)[z] < Width(t)[s]
    BY <1>1, SplitSpans
  <2> HIDE DEF y, z
  <2>2. d[y] = e[y] /\ d[z] = e[z]
    BY <2>1 DEF AgreeBelow
  <2> QED BY <2>2 DEF y, z
<1>3. CASE s[1] = "or"
  <2>1. d[<<"and", i, j>>] = e[<<"and", i, j>>]
    BY <1>1, <1>3, PartSpans DEF AgreeBelow
  <2>2. \A k \in Splits(t, "or", i, j) :
            Either(d[<<"or", i, k>>], d[<<"or", k + 1, j>>]) = Either(e[<<"or", i, k>>], e[<<"or", k + 1, j>>])
    BY <1>2
  <2>3. Disjunction(t, d, i, j, v) <=> Disjunction(t, e, i, j, v)
    BY <2>1, <2>2 DEF Disjunction
  <2> QED BY <1>3, <2>3, ReadingIs
<1>4. CASE s[1] = "and"
  <2>1. d[<<"not", i, j>>] = e[<<"not", i, j>>]
    BY <1>1, <1>4, PartSpans DEF AgreeBelow
  <2>2. \A k \in Splits(t, "and", i, j) :
            Both(d[<<"and", i, k>>], d[<<"and", k + 1, j>>]) = Both(e[<<"and", i, k>>], e[<<"and", k + 1, j>>])
    BY <1>2
  <2>3. Conjunction(t, d, i, j, v) <=> Conjunction(t, e, i, j, v)
    BY <2>1, <2>2 DEF Conjunction
  <2> QED BY <1>4, <2>3, ReadingIs
<1>5. CASE s[1] = "not"
  <2>1. i # j => d[<<"not", i + 1, j>>] = e[<<"not", i + 1, j>>]
    BY <1>1, PartSpans DEF AgreeBelow
  <2>2. i # j /\ t[i] = "(" /\ t[j - 1] = ")" => d[<<"or", i + 1, j - 1>>] = e[<<"or", i + 1, j - 1>>]
    BY <1>1, PartSpans DEF AgreeBelow
  <2>3. Negation(t, results, d, i, j, v) <=> Negation(t, results, e, i, j, v)
    BY <2>1, <2>2 DEF Negation
  <2> QED BY <1>5, <2>3, ReadingIs
<1> QED BY <1>1, <1>3, <1>4, <1>5

\* The readings of a condition are what their definition says, on every span.
LEMMA ReadingsAnswer ==
    ASSUME NEW t, Len(t) \in Nat, NEW results \in [Names -> BOOLEAN]
    PROVE  /\ readings(t, results) \in [Spans(t) -> SUBSET BOOLEAN]
           /\ \A s \in Spans(t) : readings(t, results)[s] =
                                      Reading(t, results, readings(t, results), s[1], s[2], s[3])
<1> DEFINE S == Spans(t)
           G == [S -> SUBSET BOOLEAN]
           m == Width(t)
           N == 3 * Len(t) + 2
           R(d, s) == Reading(t, results, d, s[1], s[2], s[3])
           F == [d \in G |-> [s \in S |-> R(d, s)]]
           Solves(f) == f = [s \in S |-> R(f, s)]
<1>1. N \in Nat /\ m \in [S -> 0..N]
  BY WidthTypes
<1>2. FunctionsOn(S, G) /\ G # {}
  <2>1. [s \in S |-> BOOLEAN] \in G
    OBVIOUS
  <2> QED BY <2>1 DEF FunctionsOn
<1>3. F \in [G -> G]
  <2>1. \A d \in G : \A s \in S : R(d, s) \in SUBSET BOOLEAN
    BY ReadingTypes
  <2> HIDE DEF R, S
  <2> QED BY <2>1
<1>4. LooksBelow(S, m, G, F)
  <2> SUFFICES ASSUME NEW d \in G, NEW e \in G, NEW s \in S, \A y \in S : m[y] < m[s] => d[y] = e[y]
               PROVE  R(d, s) = R(e, s)
    <3> HIDE DEF R
    <3> QED BY DEF LooksBelow
  <2>1. AgreeBelow(t, s, d, e)
    BY DEF AgreeBelow
  <2>2. s \in Spans(t)
    OBVIOUS
  <2> HIDE DEF G, S, m
  <2> QED BY <2>1, <2>2, ReadingLocal
<1>5. PICK g \in G : F[g] = g
  <2> HIDE DEF G, S, m, N, F
  <2> QED BY <1>1, <1>2, <1>3, <1>4, FixedPoint
<1>6. Solves(g)
  <2> HIDE DEF R
  <2> QED BY <1>5
<1>7. Solves(readings(t, results))
  <2>1. readings(t, results) = CHOOSE f : Solves(f)
    BY DEF readings
  <2> HIDE DEF Solves
  <2> QED BY <1>6, <2>1
<1> DEFINE f == readings(t, results)
<1>8. \A s \in S : f[s] = R(f, s)
  <2> HIDE DEF f, R, S
  <2>1. f = [s \in S |-> R(f, s)]
    BY <1>7 DEF f
  <2> QED BY <2>1
<1>9. \A s \in S : g[s] = R(g, s)
  <2> HIDE DEF R, S
  <2> QED BY <1>6
<1>10. ASSUME NEW s \in S, \A y \in S : m[y] < m[s] => g[y] = f[y]
       PROVE  g[s] = f[s]
  <2>1. AgreeBelow(t, s, g, f)
    BY <1>10 DEF AgreeBelow
  <2>2. s \in Spans(t)
    OBVIOUS
  <2> HIDE DEF f, G, S, m
  <2>3. R(g, s) = R(f, s)
    BY <2>1, <2>2, ReadingLocal
  <2> HIDE DEF R, f
  <2> QED BY <1>8, <1>9, <2>3
<1>11. m \in [S -> Nat]
  BY <1>1
<1>12. \A s \in S : g[s] = f[s]
  <2> DEFINE T == {s \in S : g[s] = f[s]}
  <2>1. \A s \in S : (\A y \in S : m[y] < m[s] => y \in T) => s \in T
    BY <1>10
  <2>2. S \subseteq T
    <3> HIDE DEF S, m, T
    <3> QED BY <1>11, <2>1, MeasureInduction
  <2> QED BY <2>2
<1>13. g = f
  <2> HIDE DEF R
  <2>1. f = [s \in S |-> f[s]] /\ g = [s \in S |-> g[s]]
    BY <1>6, <1>7
  <2> HIDE DEF f, S
  <2> QED BY <1>12, <2>1
<1> QED BY <1>8, <1>13

-----------------------------------------------------------------------------
(***************************************************************************)
(* Words.  What is substituted for a word keeps the operators and the      *)
(* parentheses, and is "true" or "false" exactly when the word has that    *)
(* value.                                                                  *)
(***************************************************************************)
Operators == {"(", ")", "and", "or", "not"}

LEMMA Substituted ==
    ASSUME NEW results \in [Names -> BOOLEAN], NEW x
    PROVE  /\ \A w \in Operators : substitute(x, results) = w <=> x = w
           /\ \A v \in BOOLEAN : v \in Literal(x, results) <=> substitute(x, results) = Word(v)
<1>1. CASE x \in Quantifiers
  <2> DEFINE b == quantifier(x, results)
  <2>1. substitute(x, results) = Word(b)
    BY <1>1 DEF substitute
  <2>2. x \notin Reserved
    BY <1>1, QuantifierWords
  <2>3. Literal(x, results) = {b}
    BY <1>1, <2>2 DEF Literal, Reserved, Quantifiers, quantifier
  <2>4. b \in BOOLEAN
    BY DEF quantifier
  <2> HIDE DEF b
  <2> QED BY <2>1, <2>2, <2>3, <2>4 DEF Word, Operators, Reserved
<1>2. CASE x \notin Quantifiers /\ x \in Reserved
  <2>1. substitute(x, results) = x
    BY <1>2 DEF substitute
  <2>2. Literal(x, results) = IF x \in {"true", "false"} THEN {x = "true"} ELSE {}
    BY <1>2 DEF Literal, Quantifiers
  <2>3. \A v \in BOOLEAN : v \in Literal(x, results) <=> x = Word(v)
    BY <2>2 DEF Word
  <2> QED BY <2>1, <2>3
<1>3. CASE x \notin Quantifiers /\ x \notin Reserved /\ x \in Names
  <2>1. substitute(x, results) = Word(results[x])
    BY <1>3 DEF substitute
  <2>2. Literal(x, results) = {results[x]}
    BY <1>3 DEF Literal, Reserved, Quantifiers
  <2>3. results[x] \in BOOLEAN
    BY <1>3
  <2> QED BY <1>3, <2>1, <2>2, <2>3 DEF Word, Operators, Reserved
<1>4. CASE x \notin Quantifiers /\ x \notin Reserved /\ x \notin Names
  <2>1. substitute(x, results) = "unknown"
    BY <1>4 DEF substitute
  <2>2. Literal(x, results) = {}
    BY <1>4 DEF Literal, Reserved, Quantifiers
  <2> QED BY <1>4, <2>1, <2>2 DEF Word, Operators, Reserved
<1> QED BY <1>1, <1>2, <1>3, <1>4

\* t is the condition c with its words replaced.
Renders(t, c, results) ==
    /\ Len(c) \in Nat /\ Len(t) = Len(c)
    /\ \A k \in 1..Len(c) : t[k] = substitute(c[k], results)

LEMMA WordAt ==
    ASSUME NEW t, NEW c, NEW results \in [Names -> BOOLEAN], Renders(t, c, results), NEW k \in 1..Len(c)
    PROVE  /\ Peek(t, k) = t[k]
           /\ \A w \in Operators : (t[k] = w) <=> (c[k] = w)
           /\ \A v \in BOOLEAN : v \in Literal(c[k], results) <=> t[k] = Word(v)
  BY Substituted DEF Renders, Peek

(***************************************************************************)
(* The parser's calls, one equation each.  The body of either loop: what   *)
(* follows at i is read and joined to the value a.                         *)
(***************************************************************************)
ContOr(p, i, a)  == Loop(p, "or rest", [p[<<"and", i, TRUE>>] EXCEPT !.value = a \/ @])
ContAnd(p, i, a) == Loop(p, "and rest", [p[<<"not", i, TRUE>>] EXCEPT !.value = a /\ @])

\* What the five calls at one word come to.
AnsweredAt(t, p, i, v) ==
    /\ p[<<"or", i, TRUE>>] = ContOr(p, i, FALSE)
    /\ p[<<"or rest", i, v>>] = IF Peek(t, i) # "or" THEN Got(v, i) ELSE ContOr(p, i + 1, v)
    /\ p[<<"and", i, TRUE>>] = ContAnd(p, i, TRUE)
    /\ p[<<"and rest", i, v>>] = IF Peek(t, i) # "and" THEN Got(v, i) ELSE ContAnd(p, i + 1, v)
    /\ p[<<"not", i, TRUE>>] = parse_not(t, p, i)

LEMMA ParserCalls ==
    ASSUME NEW t, Len(t) \in Nat, NEW p, p = parser(t), NEW i \in 1..(Len(t) + 1), NEW v \in BOOLEAN
    PROVE  AnsweredAt(t, p, i, v)
<1>1. p \in Advancing(t) /\ \A c \in Calls(t) : p[c] = Answer(t, p, c)
  BY ParserAnswers
<1>2. ASSUME NEW r \in Result(t)
      PROVE  [r EXCEPT !.value = FALSE \/ @] = r /\ [r EXCEPT !.value = TRUE /\ @] = r
  BY DEF Result
<1>3. p[<<"and", i, TRUE>>] \in Result(t) /\ p[<<"not", i, TRUE>>] \in Result(t)
  BY <1>1, LookUp
<1>4. p[<<"or", i, TRUE>>] = parse_or(p, i)
  <2>1. <<"or", i, TRUE>> \in Calls(t)
    BY IsCall
  <2> QED BY <1>1, <2>1 DEF Answer
<1>5. p[<<"or rest", i, v>>] = OrRest(t, p, i, v)
  <2>1. <<"or rest", i, v>> \in Calls(t)
    BY IsCall
  <2> QED BY <1>1, <2>1 DEF Answer
<1>6. p[<<"and", i, TRUE>>] = parse_and(p, i)
  <2>1. <<"and", i, TRUE>> \in Calls(t)
    BY IsCall
  <2> QED BY <1>1, <2>1 DEF Answer
<1>7. p[<<"and rest", i, v>>] = AndRest(t, p, i, v)
  <2>1. <<"and rest", i, v>> \in Calls(t)
    BY IsCall
  <2> QED BY <1>1, <2>1 DEF Answer
<1>8. p[<<"not", i, TRUE>>] = parse_not(t, p, i)
  <2>1. <<"not", i, TRUE>> \in Calls(t)
    BY IsCall
  <2> QED BY <1>1, <2>1 DEF Answer
<1>9. parse_or(p, i) = ContOr(p, i, FALSE)
  BY <1>2, <1>3 DEF parse_or, ContOr
<1>10. parse_and(p, i) = ContAnd(p, i, TRUE)
  BY <1>2, <1>3 DEF parse_and, ContAnd
<1>11. OrRest(t, p, i, v) = IF Peek(t, i) # "or" THEN Got(v, i) ELSE ContOr(p, i + 1, v)
  BY DEF OrRest, ContOr
<1>12. AndRest(t, p, i, v) = IF Peek(t, i) # "and" THEN Got(v, i) ELSE ContAnd(p, i + 1, v)
  BY DEF AndRest, ContAnd
<1> QED BY <1>4, <1>5, <1>6, <1>7, <1>8, <1>9, <1>10, <1>11, <1>12 DEF AnsweredAt

-----------------------------------------------------------------------------
(***************************************************************************)
(* Whatever a span can be read as, the parser reads it as: a negation at   *)
(* once, a conjunction or a disjunction joined to what came before it.     *)
(***************************************************************************)
Follows(t, p, s, v) ==
    /\ \A k \in s[2]..(s[3] - 1) : t[k] # "unknown"
    /\ s[1] = "not" => p[<<"not", s[2], TRUE>>] = Got(v, s[3])
    /\ s[1] = "and" => \A a \in BOOLEAN : ContAnd(p, s[2], a) = p[<<"and rest", s[3], a /\ v>>]
    /\ s[1] = "or" /\ Peek(t, s[3]) # "and" =>
           \A a \in BOOLEAN : ContOr(p, s[2], a) = p[<<"or rest", s[3], a \/ v>>]

LEMMA GotChanged ==
    ASSUME NEW j \in Nat, NEW v \in BOOLEAN, NEW b \in BOOLEAN
    PROVE  [Got(v, j) EXCEPT !.value = b] = Got(b, j)
<1> DEFINE R == [ok : BOOLEAN, value : BOOLEAN, at : Nat]
           r == Got(v, j)
           u == [r EXCEPT !.value = b]
<1>1. r \in R /\ r.ok /\ r.at = j
  BY DEF Got
<1> HIDE DEF r
<1>2. u \in R /\ u.ok = r.ok /\ u.at = r.at /\ u.value = b
  BY <1>1
<1> HIDE DEF u
<1>3. u = [ok |-> u.ok, value |-> u.value, at |-> u.at] /\ u.ok \in BOOLEAN
  BY <1>2
<1>4. u = Got(b, j)
  BY <1>1, <1>2, <1>3 DEF Got
<1> QED BY <1>4 DEF u, r

LEMMA AndJoined ==
    ASSUME NEW p, NEW i, NEW j \in Nat, NEW v \in BOOLEAN, NEW a \in BOOLEAN,
           p[<<"not", i, TRUE>>] = Got(v, j)
    PROVE  ContAnd(p, i, a) = p[<<"and rest", j, a /\ v>>]
<1> DEFINE r == Got(v, j)
           b == a /\ v
<1>1. r.value = v
  BY DEF Got
<1>2. b \in BOOLEAN /\ (a /\ r.value) = b
  BY <1>1
<1>3. ContAnd(p, i, a) = Loop(p, "and rest", [r EXCEPT !.value = a /\ r.value])
  BY DEF ContAnd
<1> HIDE DEF r, b
<1>4. [r EXCEPT !.value = a /\ r.value] = [r EXCEPT !.value = b]
  BY <1>2
<1>5. [r EXCEPT !.value = b] = Got(b, j)
  BY <1>2, GotChanged DEF r
<1>6. Loop(p, "and rest", Got(b, j)) = p[<<"and rest", j, b>>]
  BY DEF Loop, Got
<1>7. ContAnd(p, i, a) = p[<<"and rest", j, b>>]
  BY <1>3, <1>4, <1>5, <1>6
<1> QED BY <1>7 DEF b

LEMMA OrJoined ==
    ASSUME NEW p, NEW i, NEW j \in Nat, NEW v \in BOOLEAN, NEW a \in BOOLEAN,
           p[<<"and", i, TRUE>>] = Got(v, j)
    PROVE  ContOr(p, i, a) = p[<<"or rest", j, a \/ v>>]
<1> DEFINE r == Got(v, j)
           b == a \/ v
<1>1. r.value = v
  BY DEF Got
<1>2. b \in BOOLEAN /\ (a \/ r.value) = b
  BY <1>1
<1>3. ContOr(p, i, a) = Loop(p, "or rest", [r EXCEPT !.value = a \/ r.value])
  BY DEF ContOr
<1> HIDE DEF r, b
<1>4. [r EXCEPT !.value = a \/ r.value] = [r EXCEPT !.value = b]
  BY <1>2
<1>5. [r EXCEPT !.value = b] = Got(b, j)
  BY <1>2, GotChanged DEF r
<1>6. Loop(p, "or rest", Got(b, j)) = p[<<"or rest", j, b>>]
  BY DEF Loop, Got
<1>7. ContOr(p, i, a) = p[<<"or rest", j, b>>]
  BY <1>3, <1>4, <1>5, <1>6
<1> QED BY <1>7 DEF b

LEMMA Regroup ==
    ASSUME NEW a \in BOOLEAN, NEW x \in BOOLEAN, NEW y \in BOOLEAN
    PROVE  ((a /\ x) /\ y) = (a /\ (x /\ y)) /\ ((a \/ x) \/ y) = (a \/ (x \/ y))
  OBVIOUS

\* The parts of a known span are known, and so is the word between them.
LEMMA KnownParts ==
    ASSUME NEW t, NEW i \in Nat, NEW j \in Nat, NEW k \in Nat, i <= k, k < j,
           \A m \in i..(k - 1) : t[m] # "unknown", \A m \in (k + 1)..(j - 1) : t[m] # "unknown",
           t[k] # "unknown"
    PROVE  \A m \in i..(j - 1) : t[m] # "unknown"
<1> SUFFICES ASSUME NEW m \in i..(j - 1) PROVE t[m] # "unknown"
  OBVIOUS
<1>1. m = k \/ m \in i..(k - 1) \/ m \in (k + 1)..(j - 1)
  OBVIOUS
<1> QED BY <1>1

Step(t, c, results, p, d) ==
    /\ results \in [Names -> BOOLEAN] /\ Renders(t, c, results)
    /\ p = parser(t) /\ d = readings(c, results)

LEMMA StepFacts ==
    ASSUME NEW t, NEW c, NEW results, NEW p, NEW d, Step(t, c, results, p, d)
    PROVE  /\ Len(c) \in Nat /\ Len(t) \in Nat /\ Len(t) = Len(c)
           /\ \A s \in Spans(c) : d[s] \in SUBSET BOOLEAN
           /\ \A s \in Spans(c) : d[s] = Reading(c, results, d, s[1], s[2], s[3])
           /\ \A k \in 1..Len(c) : Peek(t, k) = t[k]
           /\ \A k \in 1..Len(c), w \in Operators : (t[k] = w) <=> (c[k] = w)
           /\ \A k \in 1..Len(c), v \in BOOLEAN : v \in Literal(c[k], results) <=> t[k] = Word(v)
<1>1. Len(c) \in Nat /\ Len(t) = Len(c) /\ results \in [Names -> BOOLEAN] /\ Renders(t, c, results)
  BY DEF Step, Renders
<1>2. d \in [Spans(c) -> SUBSET BOOLEAN] /\ \A s \in Spans(c) : d[s] = Reading(c, results, d, s[1], s[2], s[3])
  BY <1>1, ReadingsAnswer DEF Step
<1>3. \A k \in 1..Len(c) : /\ Peek(t, k) = t[k]
                           /\ \A w \in Operators : (t[k] = w) <=> (c[k] = w)
                           /\ \A v \in BOOLEAN : v \in Literal(c[k], results) <=> t[k] = Word(v)
  BY <1>1, WordAt
<1> QED BY <1>1, <1>2, <1>3

LEMMA WordKept ==
    ASSUME NEW t, NEW c, NEW results, NEW p, NEW d, Step(t, c, results, p, d),
           NEW k \in 1..Len(c), NEW w \in Operators
    PROVE  (t[k] = w) <=> (c[k] = w)
  BY StepFacts

CallsAnswered(t, c, p) ==
    /\ \A i \in 1..(Len(c) + 1) : p[<<"or", i, TRUE>>] = ContOr(p, i, FALSE)
    /\ \A i \in 1..(Len(c) + 1) : p[<<"and", i, TRUE>>] = ContAnd(p, i, TRUE)
    /\ \A i \in 1..(Len(c) + 1) : p[<<"not", i, TRUE>>] = parse_not(t, p, i)
    /\ \A i \in 1..(Len(c) + 1), v \in BOOLEAN :
           p[<<"or rest", i, v>>] = IF Peek(t, i) # "or" THEN Got(v, i) ELSE ContOr(p, i + 1, v)
    /\ \A i \in 1..(Len(c) + 1), v \in BOOLEAN :
           p[<<"and rest", i, v>>] = IF Peek(t, i) # "and" THEN Got(v, i) ELSE ContAnd(p, i + 1, v)

LEMMA StepCalls ==
    ASSUME NEW t, NEW c, NEW results, NEW p, NEW d, Step(t, c, results, p, d)
    PROVE  CallsAnswered(t, c, p)
<1>1. Len(t) \in Nat /\ Len(t) = Len(c) /\ p = parser(t)
  BY StepFacts DEF Step
<1>2. ASSUME NEW i \in 1..(Len(c) + 1), NEW v \in BOOLEAN
      PROVE  AnsweredAt(t, p, i, v)
  <2>1. i \in 1..(Len(t) + 1)
    BY <1>1
  <2> QED BY <1>1, <2>1, ParserCalls
<1>3. TRUE \in BOOLEAN
  OBVIOUS
<1>4. \A i \in 1..(Len(c) + 1) : p[<<"or", i, TRUE>>] = ContOr(p, i, FALSE)
  BY <1>2, <1>3 DEF AnsweredAt
<1>5. \A i \in 1..(Len(c) + 1) : p[<<"and", i, TRUE>>] = ContAnd(p, i, TRUE)
  BY <1>2, <1>3 DEF AnsweredAt
<1>6. \A i \in 1..(Len(c) + 1) : p[<<"not", i, TRUE>>] = parse_not(t, p, i)
  BY <1>2, <1>3 DEF AnsweredAt
<1>7. \A i \in 1..(Len(c) + 1), v \in BOOLEAN :
         p[<<"or rest", i, v>>] = IF Peek(t, i) # "or" THEN Got(v, i) ELSE ContOr(p, i + 1, v)
  BY <1>2 DEF AnsweredAt
<1>8. \A i \in 1..(Len(c) + 1), v \in BOOLEAN :
         p[<<"and rest", i, v>>] = IF Peek(t, i) # "and" THEN Got(v, i) ELSE ContAnd(p, i + 1, v)
  BY <1>2 DEF AnsweredAt
<1> QED BY ONLY <1>4, <1>5, <1>6, <1>7, <1>8 DEF CallsAnswered

LEMMA NotFollows ==
    ASSUME NEW t, NEW c, NEW results, NEW p, NEW d, Step(t, c, results, p, d),
           NEW i, NEW j, <<"not", i, j>> \in Spans(c), NEW v \in d[<<"not", i, j>>],
           \A y \in Spans(c) : Width(c)[y] < Width(c)[<<"not", i, j>>] => \A u \in d[y] : Follows(t, p, y, u)
    PROVE  Follows(t, p, <<"not", i, j>>, v)
<1> DEFINE s == <<"not", i, j>>
<1>0. s \in Spans(c) /\ s[1] = "not" /\ s[2] = i /\ s[3] = j
  OBVIOUS
<1>1. i \in Nat /\ j \in Nat /\ 1 <= i /\ i <= j /\ j <= Len(c) + 1
  BY <1>0, SpanTypes, StepFacts
<1> HIDE DEF s
<1>2. v \in BOOLEAN
  BY <1>0, StepFacts DEF s
<1>3. Negation(c, results, d, i, j, v)
  BY <1>0, StepFacts, ReadingIs DEF s
<1>4. i # j /\ i \in 1..Len(c) /\ i \in 1..(Len(c) + 1)
  BY <1>1, <1>3 DEF Negation
<1>13. CallsAnswered(t, c, p)
  BY StepCalls
<1>11. /\ \A k \in 1..(Len(c) + 1) : p[<<"or", k, TRUE>>] = ContOr(p, k, FALSE)
       /\ \A k \in 1..(Len(c) + 1) : p[<<"not", k, TRUE>>] = parse_not(t, p, k)
  BY <1>13 DEF CallsAnswered
<1>12. \A k \in 1..(Len(c) + 1), b \in BOOLEAN :
           p[<<"or rest", k, b>>] = IF Peek(t, k) # "or" THEN Got(b, k) ELSE ContOr(p, k + 1, b)
  BY <1>13 DEF CallsAnswered
<1>5. p[<<"not", i, TRUE>>] = parse_not(t, p, i)
  BY <1>4, <1>11
<1>6. Peek(t, i) = t[i]
  BY <1>4, StepFacts
<1>7. SUFFICES (\A k \in i..(j - 1) : t[k] # "unknown") /\ p[<<"not", i, TRUE>>] = Got(v, j)
  BY <1>0 DEF Follows, s
<1>8. CASE c[i] = "not" /\ v \in Negations(d[<<"not", i + 1, j>>])
  <2>1. t[i] = "not"
    BY <1>4, <1>8, StepFacts DEF Operators
  <2>2. PICK x \in d[<<"not", i + 1, j>>] : v = ~x
    BY <1>8 DEF Negations
  <2>3. Follows(t, p, <<"not", i + 1, j>>, x)
    BY <1>0, <1>4, <2>2, PartSpans, StepFacts DEF s
  <2>4. p[<<"not", i + 1, TRUE>>] = Got(x, j) /\ \A k \in (i + 1)..(j - 1) : t[k] # "unknown"
    BY <2>3 DEF Follows
  <2>5. parse_not(t, p, i) = Got(v, j)
    BY <1>6, <2>1, <2>2, <2>4 DEF parse_not, Negated, Got
  <2>6. \A k \in i..(j - 1) : k = i \/ k \in (i + 1)..(j - 1)
    BY <1>1
  <2> QED BY <1>5, <2>1, <2>4, <2>5, <2>6
<1>9. CASE c[i] = "(" /\ c[j - 1] = ")" /\ v \in d[<<"or", i + 1, j - 1>>]
  <2>1. j - 1 \in 1..Len(c) /\ i < j - 1 /\ j - 1 \in Nat /\ i + 1 \in 1..(Len(c) + 1)
    <3>1. i # j - 1
      BY <1>9
    <3> QED BY <1>1, <1>4, <3>1
  <2>2. t[i] = "(" /\ t[j - 1] = ")" /\ Peek(t, j - 1) = ")"
    BY <1>4, <1>9, <2>1, StepFacts DEF Operators
  <2>3. Follows(t, p, <<"or", i + 1, j - 1>>, v)
    BY <1>0, <1>4, <1>9, PartSpans, StepFacts DEF s
  <2>4. /\ ContOr(p, i + 1, FALSE) = p[<<"or rest", j - 1, FALSE \/ v>>]
        /\ \A k \in (i + 1)..((j - 1) - 1) : t[k] # "unknown"
    BY <2>2, <2>3 DEF Follows
  <2>5. (FALSE \/ v) = v
    BY <1>2
  <2>6. p[<<"or", i + 1, TRUE>>] = ContOr(p, i + 1, FALSE)
    BY <1>11, <2>1
  <2>7. p[<<"or rest", j - 1, v>>] = Got(v, j - 1)
    <3>1. j - 1 \in 1..(Len(c) + 1) /\ Peek(t, j - 1) # "or"
      BY <1>1, <2>1, <2>2
    <3> QED BY <1>2, <1>12, <3>1
  <2>8. p[<<"or", i + 1, TRUE>>] = Got(v, j - 1)
    BY <2>4, <2>5, <2>6, <2>7
  <2>9. parse_not(t, p, i) = Got(v, (j - 1) + 1)
    BY <1>6, <2>2, <2>8 DEF parse_not, parse_atom, Got
  <2>10. (j - 1) + 1 = j
    BY <1>1
  <2>11. \A k \in i..(j - 1) : k = i \/ k = j - 1 \/ k \in (i + 1)..((j - 1) - 1)
    BY <1>1
  <2> QED BY <1>5, <2>2, <2>4, <2>9, <2>10, <2>11
<1>10. CASE j = i + 1 /\ v \in Literal(c[i], results)
  <2>1. t[i] = Word(v)
    BY <1>2, <1>4, <1>10, StepFacts
  <2>2. parse_not(t, p, i) = Got(v, i + 1)
    BY <1>2, <1>6, <2>1 DEF parse_not, parse_atom, Word
  <2>3. t[i] # "unknown"
    BY <2>1 DEF Word
  <2>4. \A k \in i..(j - 1) : k = i
    BY <1>1, <1>10
  <2> QED BY <1>5, <1>10, <2>2, <2>3, <2>4
<1> QED BY <1>3, <1>8, <1>9, <1>10 DEF Negation

LEMMA AndFollows ==
    ASSUME NEW t, NEW c, NEW results, NEW p, NEW d, Step(t, c, results, p, d),
           NEW i, NEW j, <<"and", i, j>> \in Spans(c), NEW v \in d[<<"and", i, j>>],
           \A y \in Spans(c) : Width(c)[y] < Width(c)[<<"and", i, j>>] => \A u \in d[y] : Follows(t, p, y, u)
    PROVE  Follows(t, p, <<"and", i, j>>, v)
<1> DEFINE s == <<"and", i, j>>
<1>0. s \in Spans(c) /\ s[1] = "and" /\ s[2] = i /\ s[3] = j
  OBVIOUS
<1>1. i \in Nat /\ j \in Nat /\ 1 <= i /\ i <= j /\ j <= Len(c) + 1 /\ j \in 1..(Len(t) + 1)
  BY <1>0, SpanTypes, StepFacts
<1> HIDE DEF s
<1>2. v \in BOOLEAN
  BY <1>0, StepFacts DEF s
<1>3. Conjunction(c, d, i, j, v)
  BY <1>0, StepFacts, ReadingIs DEF s
<1>4. CallsAnswered(t, c, p)
  BY StepCalls
<1>5. SUFFICES /\ \A k \in i..(j - 1) : t[k] # "unknown"
               /\ \A a \in BOOLEAN : ContAnd(p, i, a) = p[<<"and rest", j, a /\ v>>]
  BY <1>0 DEF Follows, s
<1>6. CASE v \in d[<<"not", i, j>>]
  <2>1. Follows(t, p, <<"not", i, j>>, v)
    BY <1>0, <1>6, PartSpans, StepFacts DEF s
  <2>2. p[<<"not", i, TRUE>>] = Got(v, j) /\ \A k \in i..(j - 1) : t[k] # "unknown"
    BY <2>1 DEF Follows
  <2>4. ASSUME NEW a \in BOOLEAN PROVE ContAnd(p, i, a) = p[<<"and rest", j, a /\ v>>]
    BY <1>1, <1>2, <2>2, AndJoined
  <2> QED BY <2>2, <2>4
<1>7. ASSUME NEW k \in Splits(c, "and", i, j), v \in Both(d[<<"and", i, k>>], d[<<"and", k + 1, j>>])
      PROVE  /\ \A m \in i..(j - 1) : t[m] # "unknown"
             /\ \A a \in BOOLEAN : ContAnd(p, i, a) = p[<<"and rest", j, a /\ v>>]
  <2>1. k \in Nat /\ i <= k /\ k < j /\ c[k] = "and"
    BY <1>1, <1>7, SplitTypes
  <2>2. k \in 1..Len(c) /\ k \in 1..(Len(c) + 1)
    BY <1>1, <2>1
  <2>3. t[k] = "and" /\ Peek(t, k) = "and"
    BY <2>1, <2>2, StepFacts DEF Operators
  <2>4. PICK x \in d[<<"and", i, k>>], y \in d[<<"and", k + 1, j>>] : v = (x /\ y)
    BY <1>7 DEF Both
  <2>5. /\ <<"and", i, k>> \in Spans(c) /\ Width(c)[<<"and", i, k>>] < Width(c)[s]
        /\ <<"and", k + 1, j>> \in Spans(c) /\ Width(c)[<<"and", k + 1, j>>] < Width(c)[s]
    <3>1. Len(c) \in Nat
      BY StepFacts
    <3> QED BY <1>0, <3>1, SplitSpans
  <2>6. x \in BOOLEAN /\ y \in BOOLEAN
    BY <2>4, <2>5, StepFacts
  <2>7. Follows(t, p, <<"and", i, k>>, x) /\ Follows(t, p, <<"and", k + 1, j>>, y)
    BY <2>4, <2>5 DEF s
  <2>8. /\ \A m \in i..(k - 1) : t[m] # "unknown"
        /\ \A a \in BOOLEAN : ContAnd(p, i, a) = p[<<"and rest", k, a /\ x>>]
        /\ \A m \in (k + 1)..(j - 1) : t[m] # "unknown"
        /\ \A a \in BOOLEAN : ContAnd(p, k + 1, a) = p[<<"and rest", j, a /\ y>>]
    BY <2>7 DEF Follows
  <2>9. \A m \in i..(j - 1) : t[m] # "unknown"
    BY <1>1, <2>1, <2>3, <2>8, KnownParts
  <2>10. ASSUME NEW a \in BOOLEAN PROVE ContAnd(p, i, a) = p[<<"and rest", j, a /\ v>>]
    <3> DEFINE b == a /\ x
    <3>1. b \in BOOLEAN /\ (b /\ y) = (a /\ v)
      BY <2>4, <2>6, Regroup
    <3>2. ContAnd(p, i, a) = p[<<"and rest", k, b>>]
      BY <2>8
    <3> HIDE DEF b
    <3>3. p[<<"and rest", k, b>>] = ContAnd(p, k + 1, b)
      BY <1>4, <2>2, <2>3, <3>1 DEF CallsAnswered
    <3>4. ContAnd(p, k + 1, b) = p[<<"and rest", j, b /\ y>>]
      BY <2>8, <3>1
    <3> QED BY <3>1, <3>2, <3>3, <3>4
  <2> QED BY <2>9, <2>10
<1> QED BY <1>3, <1>6, <1>7 DEF Conjunction

LEMMA OrFollows ==
    ASSUME NEW t, NEW c, NEW results, NEW p, NEW d, Step(t, c, results, p, d),
           NEW i, NEW j, <<"or", i, j>> \in Spans(c), NEW v \in d[<<"or", i, j>>],
           \A y \in Spans(c) : Width(c)[y] < Width(c)[<<"or", i, j>>] => \A u \in d[y] : Follows(t, p, y, u)
    PROVE  Follows(t, p, <<"or", i, j>>, v)
<1> DEFINE s == <<"or", i, j>>
<1>0. s \in Spans(c) /\ s[1] = "or" /\ s[2] = i /\ s[3] = j
  OBVIOUS
<1>1. i \in Nat /\ j \in Nat /\ 1 <= i /\ i <= j /\ j <= Len(c) + 1 /\ j \in 1..(Len(t) + 1)
  BY <1>0, SpanTypes, StepFacts
<1> HIDE DEF s
<1>2. v \in BOOLEAN
  BY <1>0, StepFacts DEF s
<1>3. Disjunction(c, d, i, j, v)
  BY <1>0, StepFacts, ReadingIs DEF s
<1>4. CallsAnswered(t, c, p) /\ Len(t) \in Nat /\ Len(t) = Len(c)
  BY StepCalls, StepFacts
<1>5. SUFFICES /\ \A k \in i..(j - 1) : t[k] # "unknown"
               /\ Peek(t, j) # "and" =>
                      \A a \in BOOLEAN : ContOr(p, i, a) = p[<<"or rest", j, a \/ v>>]
  BY <1>0 DEF Follows, s
<1>6. CASE v \in d[<<"and", i, j>>]
  <2>1. Follows(t, p, <<"and", i, j>>, v)
    BY <1>0, <1>6, PartSpans, StepFacts DEF s
  <2>2. /\ ContAnd(p, i, TRUE) = p[<<"and rest", j, TRUE /\ v>>]
        /\ \A k \in i..(j - 1) : t[k] # "unknown"
    BY <2>1 DEF Follows
  <2>3. (TRUE /\ v) = v
    BY <1>2
  <2>4. i \in 1..(Len(c) + 1) /\ j \in 1..(Len(c) + 1)
    BY <1>1, <1>4
  <2>5. Peek(t, j) # "and" => p[<<"and", i, TRUE>>] = Got(v, j)
    BY <1>2, <1>4, <2>2, <2>3, <2>4 DEF CallsAnswered
  <2>6. ASSUME Peek(t, j) # "and", NEW a \in BOOLEAN
        PROVE  ContOr(p, i, a) = p[<<"or rest", j, a \/ v>>]
    BY <1>1, <1>2, <2>5, <2>6, OrJoined
  <2> QED BY <2>2, <2>6
<1>7. ASSUME NEW k \in Splits(c, "or", i, j), v \in Either(d[<<"or", i, k>>], d[<<"or", k + 1, j>>])
      PROVE  /\ \A m \in i..(j - 1) : t[m] # "unknown"
             /\ Peek(t, j) # "and" =>
                    \A a \in BOOLEAN : ContOr(p, i, a) = p[<<"or rest", j, a \/ v>>]
  <2>1. k \in Nat /\ i <= k /\ k < j /\ c[k] = "or"
    BY <1>1, <1>7, SplitTypes
  <2>2. k \in 1..Len(c) /\ k \in 1..(Len(c) + 1)
    BY <1>1, <2>1
  <2>3. t[k] = "or" /\ Peek(t, k) = "or"
    BY <2>1, <2>2, StepFacts DEF Operators
  <2>4. PICK x \in d[<<"or", i, k>>], y \in d[<<"or", k + 1, j>>] : v = (x \/ y)
    BY <1>7 DEF Either
  <2>5. /\ <<"or", i, k>> \in Spans(c) /\ Width(c)[<<"or", i, k>>] < Width(c)[s]
        /\ <<"or", k + 1, j>> \in Spans(c) /\ Width(c)[<<"or", k + 1, j>>] < Width(c)[s]
    <3>1. Len(c) \in Nat
      BY StepFacts
    <3> QED BY <1>0, <3>1, SplitSpans
  <2>6. x \in BOOLEAN /\ y \in BOOLEAN
    BY <2>4, <2>5, StepFacts
  <2>7. Follows(t, p, <<"or", i, k>>, x) /\ Follows(t, p, <<"or", k + 1, j>>, y)
    BY <2>4, <2>5 DEF s
  <2>8. /\ \A m \in i..(k - 1) : t[m] # "unknown"
        /\ \A a \in BOOLEAN : ContOr(p, i, a) = p[<<"or rest", k, a \/ x>>]
        /\ \A m \in (k + 1)..(j - 1) : t[m] # "unknown"
        /\ Peek(t, j) # "and" => \A a \in BOOLEAN : ContOr(p, k + 1, a) = p[<<"or rest", j, a \/ y>>]
    BY <2>3, <2>7 DEF Follows
  <2>9. \A m \in i..(j - 1) : t[m] # "unknown"
    BY <1>1, <2>1, <2>3, <2>8, KnownParts
  <2>10. ASSUME Peek(t, j) # "and", NEW a \in BOOLEAN PROVE ContOr(p, i, a) = p[<<"or rest", j, a \/ v>>]
    <3> DEFINE b == a \/ x
    <3>1. b \in BOOLEAN /\ (b \/ y) = (a \/ v)
      BY <2>4, <2>6, Regroup
    <3>2. ContOr(p, i, a) = p[<<"or rest", k, b>>]
      BY <2>8
    <3> HIDE DEF b
    <3>3. p[<<"or rest", k, b>>] = ContOr(p, k + 1, b)
      BY <1>4, <2>2, <2>3, <3>1 DEF CallsAnswered
    <3>4. ContOr(p, k + 1, b) = p[<<"or rest", j, b \/ y>>]
      BY <2>8, <2>10, <3>1
    <3> QED BY <3>1, <3>2, <3>3, <3>4
  <2> QED BY <2>9, <2>10
<1> QED BY <1>3, <1>6, <1>7 DEF Disjunction

LEMMA EveryReadingParses ==
    ASSUME NEW t, NEW c, NEW results, NEW p, NEW d, Step(t, c, results, p, d)
    PROVE  \A s \in Spans(c) : \A v \in d[s] : Follows(t, p, s, v)
<1> DEFINE T == {s \in Spans(c) : \A v \in d[s] : Follows(t, p, s, v)}
<1>0. Len(c) \in Nat
  BY StepFacts
<1>1. ASSUME NEW s \in Spans(c), \A y \in Spans(c) : Width(c)[y] < Width(c)[s] => y \in T
      PROVE  s \in T
  <2>1. \A y \in Spans(c) : Width(c)[y] < Width(c)[s] => \A u \in d[y] : Follows(t, p, y, u)
    BY <1>1
  <2> SUFFICES ASSUME NEW v \in d[s] PROVE Follows(t, p, s, v)
    OBVIOUS
  <2> DEFINE i == s[2]
             j == s[3]
  <2>2. s = <<s[1], i, j>> /\ s[1] \in {"or", "and", "not"}
    BY <1>0, SpanTypes
  <2> HIDE DEF i, j, T
  <2>3. CASE s[1] = "or"
    <3>1. s = <<"or", i, j>>
      BY <2>2, <2>3
    <3> QED BY <2>1, <3>1, OrFollows
  <2>4. CASE s[1] = "and"
    <3>1. s = <<"and", i, j>>
      BY <2>2, <2>4
    <3> QED BY <2>1, <3>1, AndFollows
  <2>5. CASE s[1] = "not"
    <3>1. s = <<"not", i, j>>
      BY <2>2, <2>5
    <3> QED BY <2>1, <3>1, NotFollows
  <2> QED BY <2>2, <2>3, <2>4, <2>5
<1>2. Width(c) \in [Spans(c) -> Nat]
  BY <1>0, WidthTypes
<1>3. Spans(c) \subseteq T
  <2> HIDE DEF T
  <2> QED BY <1>1, <1>2, MeasureInduction
<1> QED BY <1>3

-----------------------------------------------------------------------------
(***************************************************************************)
(* And whatever the parser answers is a reading of the words it passed.    *)
(***************************************************************************)
Between(c, i, j) == i \in Nat /\ j \in Nat /\ 1 <= i /\ i <= j /\ j <= Len(c) + 1

LEMMA Builds ==
    ASSUME NEW t, NEW c, NEW results, NEW p, NEW d, Step(t, c, results, p, d),
           NEW i, NEW j, Between(c, i, j), NEW v
    PROVE  /\ v \in d[<<"not", i, j>>] <=> Negation(c, results, d, i, j, v)
           /\ v \in d[<<"and", i, j>>] <=> Conjunction(c, d, i, j, v)
           /\ v \in d[<<"or", i, j>>] <=> Disjunction(c, d, i, j, v)
<1>1. Len(c) \in Nat
  BY StepFacts
<1>2. ASSUME NEW level \in {"or", "and", "not"}
      PROVE  d[<<level, i, j>>] = Reading(c, results, d, level, i, j)
  <2> DEFINE s == <<level, i, j>>
  <2>1. s \in Spans(c)
    BY <1>1, IsSpan DEF Between
  <2>2. s[1] = level /\ s[2] = i /\ s[3] = j
    OBVIOUS
  <2> HIDE DEF s
  <2>3. d[s] = Reading(c, results, d, s[1], s[2], s[3])
    BY <2>1, StepFacts
  <2> QED BY <2>2, <2>3 DEF s
<1>3. /\ d[<<"not", i, j>>] = Reading(c, results, d, "not", i, j)
      /\ d[<<"and", i, j>>] = Reading(c, results, d, "and", i, j)
      /\ d[<<"or", i, j>>] = Reading(c, results, d, "or", i, j)
  BY <1>2
<1> QED BY <1>3, ReadingIs

Sound(p, d, x) ==
    p[x].ok =>
        /\ x[1] \in {"not", "and", "or"} => p[x].value \in d[<<x[1], x[2], p[x].at>>]
        /\ x[1] = "and rest" =>
               \A h \in 1..x[2] : x[3] \in d[<<"and", h, x[2]>>] => p[x].value \in d[<<"and", h, p[x].at>>]
        /\ x[1] = "or rest" =>
               \A h \in 1..x[2] : x[3] \in d[<<"or", h, x[2]>>] => p[x].value \in d[<<"or", h, p[x].at>>]

\* What is known where the parser stands at x, when all further calls are sound.
Reached(t, c, results, p, d, x) ==
    /\ Step(t, c, results, p, d) /\ x \in Calls(t)
    /\ \A y \in Calls(t) : Left(t)[y] < Left(t)[x] => Sound(p, d, y)

LEMMA ReachedFacts ==
    ASSUME NEW t, NEW c, NEW results, NEW p, NEW d, NEW x, Reached(t, c, results, p, d, x)
    PROVE  /\ Step(t, c, results, p, d) /\ CallsAnswered(t, c, p)
           /\ Len(c) \in Nat /\ Len(t) = Len(c) /\ p \in Advancing(t)
           /\ x \in Calls(t) /\ x = <<x[1], x[2], x[3]>>
           /\ x[2] \in 1..(Len(c) + 1) /\ x[2] \in Nat /\ x[3] \in BOOLEAN
           /\ p[x] \in Result(t)
<1>1. Step(t, c, results, p, d) /\ Len(c) \in Nat /\ Len(t) = Len(c) /\ x \in Calls(t)
  BY StepFacts DEF Reached
<1>2. CallsAnswered(t, c, p)
  BY <1>1, StepCalls
<1>3. p \in Advancing(t)
  BY <1>1, ParserAnswers DEF Step
<1>4. x = <<x[1], x[2], x[3]>> /\ x[2] \in 1..(Len(c) + 1) /\ x[2] \in Nat /\ x[3] \in BOOLEAN
  BY <1>1, CallTypes
<1>5. p[x] \in Result(t)
  BY <1>1, <1>3 DEF Advancing
<1> QED BY <1>1, <1>2, <1>3, <1>4, <1>5

\* A call further on, or a part of x.
LEMMA SoundCall ==
    ASSUME NEW t, NEW c, NEW results, NEW p, NEW d, NEW x, Reached(t, c, results, p, d, x),
           NEW name \in {"or", "or rest", "and", "and rest", "not"}, NEW k \in 1..(Len(c) + 1), NEW b \in BOOLEAN,
           k > x[2] \/ (k = x[2] /\ Height(<<name, k, b>>) < Height(x))
    PROVE  Sound(p, d, <<name, k, b>>)
<1> DEFINE y == <<name, k, b>>
<1>1. x \in Calls(t) /\ Len(t) \in Nat /\ Len(t) = Len(c)
  BY ReachedFacts
<1>2. y \in Calls(t) /\ y[2] = k
  BY <1>1, IsCall
<1>3. Height(y) = Height(<<name, k, b>>)
  OBVIOUS
<1> HIDE DEF y
<1>4. y[2] > x[2] \/ (y[2] = x[2] /\ Height(y) < Height(x))
  BY <1>2, <1>3
<1>5. Left(t)[y] < Left(t)[x]
  BY <1>1, <1>2, <1>4, Further
<1>6. Sound(p, d, y)
  BY <1>2, <1>5 DEF Reached
<1> QED BY <1>6 DEF y

\* Two readings and the word between them.
LEMMA AndJoins ==
    ASSUME NEW t, NEW c, NEW results, NEW p, NEW d, Step(t, c, results, p, d),
           NEW h, NEW k \in Nat, NEW j, Between(c, h, j), h <= k, k < j, c[k] = "and",
           NEW x \in d[<<"and", h, k>>], NEW y \in d[<<"and", k + 1, j>>], NEW v, v = (x /\ y)
    PROVE  v \in d[<<"and", h, j>>]
<1>1. k \in Splits(c, "and", h, j)
  BY DEF Between, Splits
<1>2. v \in Both(d[<<"and", h, k>>], d[<<"and", k + 1, j>>])
  BY DEF Both
<1>3. Conjunction(c, d, h, j, v)
  BY <1>1, <1>2 DEF Conjunction
<1> QED BY <1>3, Builds

LEMMA AndUnfolded ==
    ASSUME NEW t, Len(t) \in Nat, NEW p \in Advancing(t), NEW k \in 1..(Len(t) + 1), NEW b \in BOOLEAN,
           ContAnd(p, k, b).ok
    PROVE  /\ p[<<"not", k, TRUE>>].ok /\ p[<<"not", k, TRUE>>].value \in BOOLEAN
           /\ p[<<"not", k, TRUE>>].at \in 1..(Len(t) + 1) /\ p[<<"not", k, TRUE>>].at >= k + 1
           /\ ContAnd(p, k, b) =
                  p[<<"and rest", p[<<"not", k, TRUE>>].at, b /\ p[<<"not", k, TRUE>>].value>>]
<1> DEFINE r == p[<<"not", k, TRUE>>]
           v == b /\ r.value
           u == [r EXCEPT !.value = v]
<1>1. r \in Result(t) /\ (r.ok => r.at >= k + 1)
  BY LookUp
<1>2. v \in BOOLEAN
  OBVIOUS
<1>3. ContAnd(p, k, b) = Loop(p, "and rest", u)
  BY DEF ContAnd
<1> HIDE DEF r
<1> HIDE DEF v
<1>4. u.ok = r.ok /\ u.at = r.at /\ u.value = v
  BY <1>1, <1>2, OtherValue
<1> HIDE DEF u
<1>5. u.ok /\ ContAnd(p, k, b) = p[<<"and rest", u.at, u.value>>]
  BY <1>3, GotAndBad DEF Loop
<1>6. r.value \in BOOLEAN /\ r.at \in 1..(Len(t) + 1)
  BY <1>1, <1>4, <1>5, ResultTypes
<1> QED BY <1>1, <1>4, <1>5, <1>6 DEF r, v

\* b, read from h to k, goes on with any negation read from k.
GoesOnAnd(c, d, h, k, b) ==
    \A j \in 1..(Len(c) + 1) : k <= j =>
        \A v \in d[<<"not", k, j>>] : (b /\ v) \in d[<<"and", h, j>>]

LEMMA AndContinues ==
    ASSUME NEW t, NEW c, NEW results, NEW p, NEW d, NEW x, Reached(t, c, results, p, d, x),
           NEW k \in 1..(Len(c) + 1), NEW b \in BOOLEAN, NEW h \in 1..k,
           k > x[2] \/ (k = x[2] /\ x[1] = "and"),
           GoesOnAnd(c, d, h, k, b), ContAnd(p, k, b).ok
    PROVE  ContAnd(p, k, b).value \in d[<<"and", h, ContAnd(p, k, b).at>>]
<1> DEFINE r == p[<<"not", k, TRUE>>]
           j == r.at
           v == b /\ r.value
           y == <<"and rest", j, v>>
<1>1. /\ Len(c) \in Nat /\ Len(t) = Len(c) /\ p \in Advancing(t)
      /\ x[2] \in Nat
  BY ReachedFacts
<1>2. /\ r.ok /\ r.value \in BOOLEAN /\ j \in 1..(Len(c) + 1) /\ j >= k + 1
      /\ ContAnd(p, k, b) = p[y]
  <2>1. k \in 1..(Len(t) + 1) /\ Len(t) \in Nat /\ Len(t) = Len(c)
    BY <1>1
  <2>2. /\ r.ok /\ r.value \in BOOLEAN /\ j \in 1..(Len(t) + 1) /\ j >= k + 1
        /\ ContAnd(p, k, b) = p[y]
    <3>1. p \in Advancing(t)
      BY <1>1
    <3> QED BY ONLY <2>1, <3>1, b \in BOOLEAN, ContAnd(p, k, b).ok, AndUnfolded
  <2> HIDE DEF r, v
  <2> QED BY <2>1, <2>2
<1>3. Sound(p, d, <<"not", k, TRUE>>)
  <2>1. k > x[2] \/ (k = x[2] /\ Height(<<"not", k, TRUE>>) < Height(x))
    BY DEF Height
  <2> QED BY <2>1, SoundCall
<1>4. r.value \in d[<<"not", k, j>>]
  BY <1>2, <1>3 DEF Sound
<1>5. v \in BOOLEAN
  OBVIOUS
<1> HIDE DEF r, v
<1>6. k <= j /\ j > x[2] /\ h \in 1..j
  <2> HIDE DEF j
  <2> DEFINE z == x[2]
  <2>1. z \in Nat /\ (k > z \/ k = z)
    BY <1>1
  <2>2. k \in Nat /\ j \in Nat /\ j >= k + 1
    <3>1. Len(c) \in Nat /\ j \in 1..(Len(c) + 1) /\ j >= k + 1
      BY <1>1, <1>2
    <3> QED BY ONLY <3>1, k \in 1..(Len(c) + 1)
  <2> HIDE DEF z
  <2>3. k <= j /\ j > z /\ h \in 1..j
    BY ONLY <2>1, <2>2, h \in 1..k
  <2> QED BY <2>3 DEF z
<1>7. v \in d[<<"and", h, j>>]
  <2>1. (b /\ r.value) \in d[<<"and", h, j>>]
    BY <1>2, <1>4, <1>6 DEF GoesOnAnd
  <2> QED BY <2>1 DEF v
<1> HIDE DEF j
<1>8. Sound(p, d, y)
  BY <1>2, <1>5, <1>6, SoundCall
<1>9. p[y].value \in d[<<"and", h, p[y].at>>]
  <2>1. y[1] = "and rest" /\ y[2] = j /\ y[3] = v
    OBVIOUS
  <2> HIDE DEF y
  <2>2. p[y].ok
    BY <1>2
  <2> QED BY <1>6, <1>7, <1>8, <2>1, <2>2 DEF Sound
<1> QED BY <1>2, <1>9

LEMMA AndSound ==
    ASSUME NEW t, NEW c, NEW results, NEW p, NEW d, NEW x, Reached(t, c, results, p, d, x), x[1] = "and"
    PROVE  Sound(p, d, x)
<1> DEFINE k == x[2]
<1>1. /\ Step(t, c, results, p, d) /\ CallsAnswered(t, c, p)
      /\ Len(c) \in Nat /\ Len(t) = Len(c) /\ p \in Advancing(t) /\ x \in Calls(t)
      /\ k \in 1..(Len(c) + 1) /\ k \in Nat
  BY ReachedFacts
<1>2. p[x] = p[<<"and", k, TRUE>>]
  <2>1. p[x] = Answer(t, p, x) /\ p[<<"and", k, TRUE>>] = Answer(t, p, <<"and", k, TRUE>>)
    <3>1. <<"and", k, TRUE>> \in Calls(t)
      BY <1>1, IsCall
    <3>2. p = parser(t) /\ Len(t) \in Nat
      BY <1>1 DEF Step
    <3> QED BY <1>1, <3>1, <3>2, ParserAnswers
  <2> QED BY <2>1 DEF Answer
<1>3. p[x] = ContAnd(p, k, TRUE)
  BY <1>1, <1>2 DEF CallsAnswered
<1>4. GoesOnAnd(c, d, k, k, TRUE)
  <2> SUFFICES ASSUME NEW j \in 1..(Len(c) + 1), k <= j, NEW v \in d[<<"not", k, j>>]
               PROVE  (TRUE /\ v) \in d[<<"and", k, j>>]
    BY DEF GoesOnAnd
  <2>1. Between(c, k, j) /\ <<"not", k, j>> \in Spans(c)
    BY <1>1, IsSpan DEF Between
  <2>2. v \in d[<<"and", k, j>>]
    BY <1>1, <2>1, Builds DEF Conjunction
  <2>3. (TRUE /\ v) = v
    BY <1>1, <2>1, StepFacts
  <2> QED BY <2>2, <2>3
<1>5. k \in 1..k
  BY <1>1
<1> HIDE DEF k
<1>6. SUFFICES ASSUME p[x].ok PROVE p[x].value \in d[<<"and", k, p[x].at>>]
  BY DEF Sound, k
<1>7. TRUE \in BOOLEAN /\ ContAnd(p, k, TRUE).ok
  BY <1>3, <1>6
<1>8. k = x[2]
  BY DEF k
<1> QED BY <1>1, <1>3, <1>4, <1>5, <1>7, <1>8, AndContinues

LEMMA AndRestSound ==
    ASSUME NEW t, NEW c, NEW results, NEW p, NEW d, NEW x, Reached(t, c, results, p, d, x), x[1] = "and rest"
    PROVE  Sound(p, d, x)
<1> DEFINE k == x[2]
           b == x[3]
<1>1. /\ Step(t, c, results, p, d) /\ CallsAnswered(t, c, p)
      /\ Len(c) \in Nat /\ Len(t) = Len(c) /\ p \in Advancing(t)
      /\ k \in 1..(Len(c) + 1) /\ k \in Nat /\ b \in BOOLEAN
  BY ReachedFacts
<1>2. p[x] = p[<<"and rest", k, b>>]
  <2>1. x = <<x[1], k, b>>
    BY ReachedFacts
  <2> QED BY <2>1
<1> SUFFICES ASSUME p[x].ok, NEW h \in 1..k, b \in d[<<"and", h, k>>]
             PROVE  p[x].value \in d[<<"and", h, p[x].at>>]
  BY DEF Sound
<1>9. k = x[2] /\ Len(t) \in Nat
  BY <1>1
<1> HIDE DEF k, b
<1>8. Len(c) \in Nat /\ k \in Nat
  BY <1>1
<1>3. CASE Peek(t, k) # "and"
  <2>1. p[x] = Got(b, k)
    BY <1>1, <1>2, <1>3 DEF CallsAnswered
  <2>2. Got(b, k).value = b /\ Got(b, k).at = k
    BY DEF Got
  <2> QED BY <2>1, <2>2
<1>4. CASE Peek(t, k) = "and"
  <2>1. k \in 1..Len(c) /\ k + 1 \in 1..(Len(c) + 1) /\ t[k] = "and"
    BY <1>1, <1>4, PeekInside
  <2>2. c[k] = "and"
    <3>1. "and" \in Operators
      BY DEF Operators
    <3> QED BY ONLY <1>1, <2>1, <3>1, WordKept
  <2>3. p[x] = ContAnd(p, k + 1, b)
    BY <1>1, <1>2, <1>4 DEF CallsAnswered
  <2>4. GoesOnAnd(c, d, h, k + 1, b)
    <3> SUFFICES ASSUME NEW j \in 1..(Len(c) + 1), k + 1 <= j, NEW v \in d[<<"not", k + 1, j>>]
                 PROVE  (b /\ v) \in d[<<"and", h, j>>]
      BY DEF GoesOnAnd
    <3>1. Between(c, k + 1, j) /\ Between(c, h, j) /\ h <= k /\ k < j
      BY ONLY <1>8, h \in 1..k, j \in 1..(Len(c) + 1), k + 1 <= j DEF Between
    <3>2. v \in d[<<"and", k + 1, j>>]
      BY <1>1, <3>1, Builds DEF Conjunction
    <3>3. Step(t, c, results, p, d)
      BY <1>1
    <3> DEFINE w == b /\ v
    <3>4. w = (b /\ v)
      OBVIOUS
    <3> HIDE DEF w
    <3>5. w \in d[<<"and", h, j>>]
      BY ONLY <1>8, <2>2, <3>1, <3>2, <3>3, <3>4, b \in d[<<"and", h, k>>], AndJoins
    <3> QED BY <3>4, <3>5
  <2>5. h \in 1..(k + 1) /\ k + 1 > k
    BY ONLY <1>8, h \in 1..k
  <2>6. k + 1 > x[2]
    BY <1>9, <2>5
  <2> QED BY <1>1, <2>1, <2>3, <2>4, <2>5, <2>6, AndContinues
<1> QED BY <1>3, <1>4


\* Two readings and the word between them.
LEMMA OrJoins ==
    ASSUME NEW t, NEW c, NEW results, NEW p, NEW d, Step(t, c, results, p, d),
           NEW h, NEW k \in Nat, NEW j, Between(c, h, j), h <= k, k < j, c[k] = "or",
           NEW x \in d[<<"or", h, k>>], NEW y \in d[<<"or", k + 1, j>>], NEW v, v = (x \/ y)
    PROVE  v \in d[<<"or", h, j>>]
<1>1. k \in Splits(c, "or", h, j)
  BY DEF Between, Splits
<1>2. v \in Either(d[<<"or", h, k>>], d[<<"or", k + 1, j>>])
  BY DEF Either
<1>3. Disjunction(c, d, h, j, v)
  BY <1>1, <1>2 DEF Disjunction
<1> QED BY <1>3, Builds

LEMMA OrUnfolded ==
    ASSUME NEW t, Len(t) \in Nat, NEW p \in Advancing(t), NEW k \in 1..(Len(t) + 1), NEW b \in BOOLEAN,
           ContOr(p, k, b).ok
    PROVE  /\ p[<<"and", k, TRUE>>].ok /\ p[<<"and", k, TRUE>>].value \in BOOLEAN
           /\ p[<<"and", k, TRUE>>].at \in 1..(Len(t) + 1) /\ p[<<"and", k, TRUE>>].at >= k + 1
           /\ ContOr(p, k, b) =
                  p[<<"or rest", p[<<"and", k, TRUE>>].at, b \/ p[<<"and", k, TRUE>>].value>>]
<1> DEFINE r == p[<<"and", k, TRUE>>]
           v == b \/ r.value
           u == [r EXCEPT !.value = v]
<1>1. r \in Result(t) /\ (r.ok => r.at >= k + 1)
  BY LookUp
<1>2. v \in BOOLEAN
  OBVIOUS
<1>3. ContOr(p, k, b) = Loop(p, "or rest", u)
  BY DEF ContOr
<1> HIDE DEF r
<1> HIDE DEF v
<1>4. u.ok = r.ok /\ u.at = r.at /\ u.value = v
  BY <1>1, <1>2, OtherValue
<1> HIDE DEF u
<1>5. u.ok /\ ContOr(p, k, b) = p[<<"or rest", u.at, u.value>>]
  BY <1>3, GotAndBad DEF Loop
<1>6. r.value \in BOOLEAN /\ r.at \in 1..(Len(t) + 1)
  BY <1>1, <1>4, <1>5, ResultTypes
<1> QED BY <1>1, <1>4, <1>5, <1>6 DEF r, v

\* b, read from h to k, goes on with any conjunction read from k.
GoesOnOr(c, d, h, k, b) ==
    \A j \in 1..(Len(c) + 1) : k <= j =>
        \A v \in d[<<"and", k, j>>] : (b \/ v) \in d[<<"or", h, j>>]

LEMMA OrContinues ==
    ASSUME NEW t, NEW c, NEW results, NEW p, NEW d, NEW x, Reached(t, c, results, p, d, x),
           NEW k \in 1..(Len(c) + 1), NEW b \in BOOLEAN, NEW h \in 1..k,
           k > x[2] \/ (k = x[2] /\ x[1] = "or"),
           GoesOnOr(c, d, h, k, b), ContOr(p, k, b).ok
    PROVE  ContOr(p, k, b).value \in d[<<"or", h, ContOr(p, k, b).at>>]
<1> DEFINE r == p[<<"and", k, TRUE>>]
           j == r.at
           v == b \/ r.value
           y == <<"or rest", j, v>>
<1>1. /\ Len(c) \in Nat /\ Len(t) = Len(c) /\ p \in Advancing(t)
      /\ x[2] \in Nat
  BY ReachedFacts
<1>2. /\ r.ok /\ r.value \in BOOLEAN /\ j \in 1..(Len(c) + 1) /\ j >= k + 1
      /\ ContOr(p, k, b) = p[y]
  <2>1. k \in 1..(Len(t) + 1) /\ Len(t) \in Nat /\ Len(t) = Len(c)
    BY <1>1
  <2>2. /\ r.ok /\ r.value \in BOOLEAN /\ j \in 1..(Len(t) + 1) /\ j >= k + 1
        /\ ContOr(p, k, b) = p[y]
    <3>1. p \in Advancing(t)
      BY <1>1
    <3> QED BY ONLY <2>1, <3>1, b \in BOOLEAN, ContOr(p, k, b).ok, OrUnfolded
  <2> HIDE DEF r, v
  <2> QED BY <2>1, <2>2
<1>3. Sound(p, d, <<"and", k, TRUE>>)
  <2>1. k > x[2] \/ (k = x[2] /\ Height(<<"and", k, TRUE>>) < Height(x))
    BY DEF Height
  <2> QED BY <2>1, SoundCall
<1>4. r.value \in d[<<"and", k, j>>]
  BY <1>2, <1>3 DEF Sound
<1>5. v \in BOOLEAN
  OBVIOUS
<1> HIDE DEF r, v
<1>6. k <= j /\ j > x[2] /\ h \in 1..j
  <2> HIDE DEF j
  <2> DEFINE z == x[2]
  <2>1. z \in Nat /\ (k > z \/ k = z)
    BY <1>1
  <2>2. k \in Nat /\ j \in Nat /\ j >= k + 1
    <3>1. Len(c) \in Nat /\ j \in 1..(Len(c) + 1) /\ j >= k + 1
      BY <1>1, <1>2
    <3> QED BY ONLY <3>1, k \in 1..(Len(c) + 1)
  <2> HIDE DEF z
  <2>3. k <= j /\ j > z /\ h \in 1..j
    BY ONLY <2>1, <2>2, h \in 1..k
  <2> QED BY <2>3 DEF z
<1>7. v \in d[<<"or", h, j>>]
  <2>1. (b \/ r.value) \in d[<<"or", h, j>>]
    BY <1>2, <1>4, <1>6 DEF GoesOnOr
  <2> QED BY <2>1 DEF v
<1> HIDE DEF j
<1>8. Sound(p, d, y)
  BY <1>2, <1>5, <1>6, SoundCall
<1>9. p[y].value \in d[<<"or", h, p[y].at>>]
  <2>1. y[1] = "or rest" /\ y[2] = j /\ y[3] = v
    OBVIOUS
  <2> HIDE DEF y
  <2>2. p[y].ok
    BY <1>2
  <2> QED BY <1>6, <1>7, <1>8, <2>1, <2>2 DEF Sound
<1> QED BY <1>2, <1>9

LEMMA OrSound ==
    ASSUME NEW t, NEW c, NEW results, NEW p, NEW d, NEW x, Reached(t, c, results, p, d, x), x[1] = "or"
    PROVE  Sound(p, d, x)
<1> DEFINE k == x[2]
<1>1. /\ Step(t, c, results, p, d) /\ CallsAnswered(t, c, p)
      /\ Len(c) \in Nat /\ Len(t) = Len(c) /\ p \in Advancing(t) /\ x \in Calls(t)
      /\ k \in 1..(Len(c) + 1) /\ k \in Nat
  BY ReachedFacts
<1>2. p[x] = p[<<"or", k, TRUE>>]
  <2>1. p[x] = Answer(t, p, x) /\ p[<<"or", k, TRUE>>] = Answer(t, p, <<"or", k, TRUE>>)
    <3>1. <<"or", k, TRUE>> \in Calls(t)
      BY <1>1, IsCall
    <3>2. p = parser(t) /\ Len(t) \in Nat
      BY <1>1 DEF Step
    <3> QED BY <1>1, <3>1, <3>2, ParserAnswers
  <2> QED BY <2>1 DEF Answer
<1>3. p[x] = ContOr(p, k, FALSE)
  BY <1>1, <1>2 DEF CallsAnswered
<1>4. GoesOnOr(c, d, k, k, FALSE)
  <2> SUFFICES ASSUME NEW j \in 1..(Len(c) + 1), k <= j, NEW v \in d[<<"and", k, j>>]
               PROVE  (FALSE \/ v) \in d[<<"or", k, j>>]
    BY DEF GoesOnOr
  <2>1. Between(c, k, j) /\ <<"and", k, j>> \in Spans(c)
    BY <1>1, IsSpan DEF Between
  <2>2. v \in d[<<"or", k, j>>]
    BY <1>1, <2>1, Builds DEF Disjunction
  <2>3. (FALSE \/ v) = v
    BY <1>1, <2>1, StepFacts
  <2> QED BY <2>2, <2>3
<1>5. k \in 1..k
  BY <1>1
<1> HIDE DEF k
<1>6. SUFFICES ASSUME p[x].ok PROVE p[x].value \in d[<<"or", k, p[x].at>>]
  BY DEF Sound, k
<1>7. FALSE \in BOOLEAN /\ ContOr(p, k, FALSE).ok
  BY <1>3, <1>6
<1>8. k = x[2]
  BY DEF k
<1> QED BY <1>1, <1>3, <1>4, <1>5, <1>7, <1>8, OrContinues

LEMMA OrRestSound ==
    ASSUME NEW t, NEW c, NEW results, NEW p, NEW d, NEW x, Reached(t, c, results, p, d, x), x[1] = "or rest"
    PROVE  Sound(p, d, x)
<1> DEFINE k == x[2]
           b == x[3]
<1>1. /\ Step(t, c, results, p, d) /\ CallsAnswered(t, c, p)
      /\ Len(c) \in Nat /\ Len(t) = Len(c) /\ p \in Advancing(t)
      /\ k \in 1..(Len(c) + 1) /\ k \in Nat /\ b \in BOOLEAN
  BY ReachedFacts
<1>2. p[x] = p[<<"or rest", k, b>>]
  <2>1. x = <<x[1], k, b>>
    BY ReachedFacts
  <2> QED BY <2>1
<1> SUFFICES ASSUME p[x].ok, NEW h \in 1..k, b \in d[<<"or", h, k>>]
             PROVE  p[x].value \in d[<<"or", h, p[x].at>>]
  BY DEF Sound
<1>9. k = x[2] /\ Len(t) \in Nat
  BY <1>1
<1> HIDE DEF k, b
<1>8. Len(c) \in Nat /\ k \in Nat
  BY <1>1
<1>3. CASE Peek(t, k) # "or"
  <2>1. p[x] = Got(b, k)
    BY <1>1, <1>2, <1>3 DEF CallsAnswered
  <2>2. Got(b, k).value = b /\ Got(b, k).at = k
    BY DEF Got
  <2> QED BY <2>1, <2>2
<1>4. CASE Peek(t, k) = "or"
  <2>1. k \in 1..Len(c) /\ k + 1 \in 1..(Len(c) + 1) /\ t[k] = "or"
    BY <1>1, <1>4, PeekInside
  <2>2. c[k] = "or"
    <3>1. "or" \in Operators
      BY DEF Operators
    <3> QED BY ONLY <1>1, <2>1, <3>1, WordKept
  <2>3. p[x] = ContOr(p, k + 1, b)
    BY <1>1, <1>2, <1>4 DEF CallsAnswered
  <2>4. GoesOnOr(c, d, h, k + 1, b)
    <3> SUFFICES ASSUME NEW j \in 1..(Len(c) + 1), k + 1 <= j, NEW v \in d[<<"and", k + 1, j>>]
                 PROVE  (b \/ v) \in d[<<"or", h, j>>]
      BY DEF GoesOnOr
    <3>1. Between(c, k + 1, j) /\ Between(c, h, j) /\ h <= k /\ k < j
      BY ONLY <1>8, h \in 1..k, j \in 1..(Len(c) + 1), k + 1 <= j DEF Between
    <3>2. v \in d[<<"or", k + 1, j>>]
      BY <1>1, <3>1, Builds DEF Disjunction
    <3>3. Step(t, c, results, p, d)
      BY <1>1
    <3> DEFINE w == b \/ v
    <3>4. w = (b \/ v)
      OBVIOUS
    <3> HIDE DEF w
    <3>5. w \in d[<<"or", h, j>>]
      BY ONLY <1>8, <2>2, <3>1, <3>2, <3>3, <3>4, b \in d[<<"or", h, k>>], OrJoins
    <3> QED BY <3>4, <3>5
  <2>5. h \in 1..(k + 1) /\ k + 1 > k
    BY ONLY <1>8, h \in 1..k
  <2>6. k + 1 > x[2]
    BY <1>9, <2>5
  <2> QED BY <1>1, <2>1, <2>3, <2>4, <2>5, <2>6, OrContinues
<1> QED BY <1>3, <1>4

LEMMA NotSound ==
    ASSUME NEW t, NEW c, NEW results, NEW p, NEW d, NEW x, Reached(t, c, results, p, d, x), x[1] = "not"
    PROVE  Sound(p, d, x)
<1> DEFINE k == x[2]
           j == p[x].at
           v == p[x].value
<1>1. /\ Step(t, c, results, p, d) /\ CallsAnswered(t, c, p)
      /\ Len(c) \in Nat /\ Len(t) = Len(c) /\ p \in Advancing(t) /\ x \in Calls(t)
      /\ k \in 1..(Len(c) + 1) /\ k \in Nat /\ p[x] \in Result(t)
  BY ReachedFacts
<1>2. p[x] = parse_not(t, p, k)
  <2>1. p[x] = Answer(t, p, x)
    <3>1. p = parser(t) /\ Len(t) \in Nat
      BY <1>1 DEF Step
    <3> QED BY <1>1, <3>1, ParserAnswers
  <2> QED BY <2>1 DEF Answer
<1> SUFFICES ASSUME p[x].ok PROVE v \in d[<<"not", k, j>>]
  BY DEF Sound
<1>3. Between(c, k, j) /\ k # j /\ k < j
  <2>1. Advances(x, p[x]) /\ Passed(x) = k + 1
    BY <1>1 DEF Advancing, Passed
  <2>2. j >= k + 1 /\ j \in 1..(Len(c) + 1)
    BY <1>1, <2>1, ResultTypes DEF Advances
  <2>3. Len(c) \in Nat /\ k \in Nat /\ k \in 1..(Len(c) + 1)
    BY <1>1
  <2> HIDE DEF k, j
  <2> QED BY ONLY <2>2, <2>3 DEF Between
<1>4. k \in 1..Len(c) /\ k + 1 \in 1..(Len(c) + 1) /\ k + 1 > x[2]
  <2>1. Len(c) \in Nat /\ k \in Nat /\ k \in 1..(Len(c) + 1) /\ k = x[2]
    BY <1>1
  <2> HIDE DEF k, j
  <2>2. k \in 1..Len(c) /\ k + 1 \in 1..(Len(c) + 1) /\ k + 1 > k
    BY ONLY <1>3, <2>1 DEF Between
  <2> QED BY <2>1, <2>2
<1>5. Peek(t, k) = t[k] /\ \A w \in Operators : (t[k] = w) <=> (c[k] = w)
  BY <1>1, <1>4, StepFacts
<1>6. p[x].at = j /\ p[x].value = v
  OBVIOUS
<1>7. SUFFICES Negation(c, results, d, k, j, v)
  BY <1>1, <1>3, Builds
<1> HIDE DEF k, j, v
<1>8. CASE Peek(t, k) = "not"
  <2> DEFINE r == p[<<"not", k + 1, TRUE>>]
  <2>1. p[x] = Negated(r)
    BY <1>2, <1>8 DEF parse_not
  <2> HIDE DEF r
  <2>2. r.ok /\ p[x] = Got(~r.value, r.at)
    BY <2>1, GotAndBad DEF Negated, Bad
  <2>3. j = r.at /\ v = ~r.value
    BY <1>6, <2>2 DEF Got
  <2>4. Sound(p, d, <<"not", k + 1, TRUE>>)
    BY <1>4, SoundCall
  <2>5. r.value \in d[<<"not", k + 1, j>>]
    BY <2>2, <2>3, <2>4 DEF Sound, r
  <2>6. c[k] = "not"
    BY <1>5, <1>8 DEF Operators
  <2> QED BY <1>3, <2>3, <2>5, <2>6 DEF Negation, Negations
<1>9. CASE Peek(t, k) = "("
  <2> DEFINE q == p[<<"or", k + 1, TRUE>>]
             h == q.at
  <2>1. p[x] = IF q.ok /\ Peek(t, h) = ")" THEN Got(q.value, h + 1) ELSE Bad
    BY <1>2, <1>9 DEF parse_not, parse_atom
  <2>2. q.ok /\ Peek(t, h) = ")" /\ p[x] = Got(q.value, h + 1)
    <3> HIDE DEF q
    <3> QED BY <2>1 DEF Bad
  <2>3. j = h + 1 /\ v = q.value
    <3> HIDE DEF q, h
    <3> QED BY <1>6, <2>2 DEF Got
  <2>4. Sound(p, d, <<"or", k + 1, TRUE>>)
    BY <1>4, SoundCall
  <2>5. v \in d[<<"or", k + 1, h>>]
    BY <2>2, <2>3, <2>4 DEF Sound
  <2>6. q \in Result(t) /\ Len(t) \in Nat
    BY <1>1, <1>4, LookUp
  <2> HIDE DEF q
  <2>7. h \in 1..(Len(t) + 1)
    BY <2>2, <2>6, ResultTypes
  <2> HIDE DEF h
  <2>8. h \in 1..Len(t) /\ t[h] = ")"
    BY <2>2, <2>6, <2>7, PeekInside
  <2>9. c[h] = ")" /\ c[k] = "("
    <3>1. h \in 1..Len(c)
      BY <1>1, <2>8
    <3>2. (t[h] = ")") <=> (c[h] = ")")
      BY <1>1, <3>1, StepFacts DEF Operators
    <3> QED BY <1>5, <1>9, <2>8, <3>2 DEF Operators
  <2>10. h = j - 1
    BY <2>3, <2>7, <2>6
  <2> QED BY <1>3, <2>5, <2>9, <2>10 DEF Negation
<1>10. ASSUME NEW b \in BOOLEAN, Peek(t, k) = Word(b)
       PROVE  Negation(c, results, d, k, j, v)
  <2>1. p[x] = Got(b, k + 1)
    BY <1>2, <1>10 DEF parse_not, parse_atom, Word
  <2>2. j = k + 1 /\ v = b
    BY <1>6, <2>1 DEF Got
  <2>3. b \in Literal(c[k], results)
    BY <1>1, <1>4, <1>5, <1>10, StepFacts
  <2> QED BY <1>3, <2>2, <2>3 DEF Negation
<1>11. CASE Peek(t, k) \notin {"not", "(", "true", "false"}
  <2>1. p[x] = Bad
    BY <1>2, <1>11 DEF parse_not, parse_atom
  <2> QED BY <2>1 DEF Bad
<1>12. CASE Peek(t, k) \in {"true", "false"}
  <2>1. Peek(t, k) = Word(TRUE) \/ Peek(t, k) = Word(FALSE)
    BY <1>12 DEF Word
  <2> QED BY <1>10, <2>1
<1> QED BY <1>8, <1>9, <1>11, <1>12

LEMMA EveryAnswerIsAReading ==
    ASSUME NEW t, NEW c, NEW results, NEW p, NEW d, Step(t, c, results, p, d)
    PROVE  \A x \in Calls(t) : Sound(p, d, x)
<1> DEFINE T == {x \in Calls(t) : Sound(p, d, x)}
           S == Calls(t)
           m == Left(t)
<1>0. Len(t) \in Nat
  BY StepFacts
<1>1. ASSUME NEW x \in S, \A y \in S : m[y] < m[x] => y \in T
      PROVE  x \in T
  <2>1. Reached(t, c, results, p, d, x)
    BY <1>1 DEF Reached
  <2>2. x[1] \in {"or", "or rest", "and", "and rest", "not"}
    BY <1>0, CallTypes
  <2>3. Sound(p, d, x)
    BY <2>1, <2>2, OrSound, OrRestSound, AndSound, AndRestSound, NotSound
  <2> QED BY <2>3
<1>2. m \in [S -> Nat]
  BY <1>0, LeftTypes
<1>3. S \subseteq T
  <2> HIDE DEF S, m, T
  <2> QED BY <1>1, <1>2, MeasureInduction
<1> QED BY <1>3

-----------------------------------------------------------------------------
(***************************************************************************)
(* A reading of a whole condition is the value the parser gives it.        *)
(***************************************************************************)
LEMMA ReadingIsResult ==
    ASSUME NEW t, NEW c, NEW results, NEW p, NEW d, Step(t, c, results, p, d),
           NEW n, n = Len(c), NEW v \in d[<<"or", 1, n + 1>>]
    PROVE  p[<<"or", 1, TRUE>>] = Got(v, n + 1) /\ \A i \in 1..n : t[i] # "unknown"
<1> DEFINE All == <<"or", 1, n + 1>>
           z == p[<<"or", 1, TRUE>>]
<1>1. n \in Nat /\ Len(t) = n /\ Len(t) \in Nat /\ Len(c) = n
  BY StepFacts
<1>2. 1 \in 1..(n + 1) /\ n + 1 \in 1..(n + 1) /\ Peek(t, n + 1) = "end" /\ \A i \in 1..n : i \in 1..((n + 1) - 1)
  BY <1>1 DEF Peek
<1>3. All \in Spans(c) /\ All[1] = "or" /\ All[2] = 1 /\ All[3] = n + 1
  BY <1>1, IsSpan
<1> HIDE DEF All
<1>4. v \in BOOLEAN /\ v \in d[All]
  BY <1>3, StepFacts DEF All
<1>5. Follows(t, p, All, v)
  BY <1>3, <1>4, EveryReadingParses
<1>6. /\ \A i \in 1..((n + 1) - 1) : t[i] # "unknown"
      /\ ContOr(p, 1, FALSE) = p[<<"or rest", n + 1, FALSE \/ v>>]
  BY <1>2, <1>3, <1>5 DEF Follows
<1>7. CallsAnswered(t, c, p)
  BY StepCalls
<1>8. z = ContOr(p, 1, FALSE) /\ (FALSE \/ v) = v
  BY <1>1, <1>2, <1>4, <1>7 DEF CallsAnswered
<1>9. p[<<"or rest", n + 1, v>>] = Got(v, n + 1)
  BY <1>1, <1>2, <1>4, <1>7 DEF CallsAnswered
<1>10. z = Got(v, n + 1)
  BY <1>6, <1>8, <1>9
<1> QED BY <1>2, <1>6, <1>10

\* Wherever a condition is split at its words, it comes to the same: it has one value or
\* none, although its grammar is ambiguous.
THEOREM ConditionUnambiguous ==
    ASSUME NEW X, NEW cond \in Seq(X), NEW results \in [Names -> BOOLEAN]
    PROVE  \A v, w \in Denotes(cond, results) : v = w
<1> DEFINE t == [i \in DOMAIN cond |-> substitute(cond[i], results)]
           p == parser(t)
           d == readings(cond, results)
           n == Len(cond)
<1>1. n \in Nat /\ Len(t) = n /\ DOMAIN cond = 1..n
  BY DEF t
<1>2. Step(t, cond, results, p, d)
  BY <1>1 DEF Step, Renders
<1>3. Denotes(cond, results) = d[<<"or", 1, n + 1>>]
  BY DEF Denotes
<1>4. n = Len(cond)
  OBVIOUS
<1> HIDE DEF t, p, d, n
<1>5. ASSUME NEW v \in d[<<"or", 1, n + 1>>] PROVE p[<<"or", 1, TRUE>>].value = v
  <2>1. p[<<"or", 1, TRUE>>] = Got(v, n + 1)
    BY <1>2, <1>4, ReadingIsResult
  <2> QED BY <2>1 DEF Got
<1> QED BY <1>3, <1>5

(***************************************************************************)
(* _evaluate_condition decides what a condition means: it is true exactly  *)
(* when the condition has a value, and the value is true.  In particular a *)
(* word that is no selection or a condition that does not parse makes the  *)
(* rule match nothing.                                                     *)
(***************************************************************************)
THEOREM ConditionDecided ==
    ASSUME NEW X, NEW cond \in Seq(X), NEW results \in [Names -> BOOLEAN]
    PROVE  evaluate_condition(cond, results) <=> Denotes(cond, results) = {TRUE}
<1> DEFINE t == [i \in DOMAIN cond |-> substitute(cond[i], results)]
           p == parser(t)
           d == readings(cond, results)
           n == Len(cond)
           z == p[<<"or", 1, TRUE>>]
           All == <<"or", 1, n + 1>>
<1>1. n \in Nat /\ Len(t) = n /\ DOMAIN cond = 1..n /\ DOMAIN t = 1..n
  BY DEF t
<1>2. Step(t, cond, results, p, d)
  BY <1>1 DEF Step, Renders
<1>3. /\ evaluate_condition(cond, results)
             <=> (\A i \in DOMAIN t : t[i] # "unknown") /\ z.ok /\ z.at = Len(t) + 1 /\ z.value
      /\ Denotes(cond, results) = d[All]
  BY DEF evaluate_condition, Denotes
<1> HIDE DEF t, p, d, n
<1>4. 1 \in 1..(n + 1) /\ n + 1 \in 1..(n + 1) /\ Peek(t, n + 1) = "end" /\ \A i \in 1..n : i \in 1..((n + 1) - 1)
  BY <1>1 DEF Peek
<1>5. Len(cond) = n /\ Len(t) \in Nat
  BY <1>1 DEF n
<1>6. All \in Spans(cond)
  BY <1>1, <1>5, IsSpan
<1>7. d[All] \in SUBSET BOOLEAN
  BY <1>2, <1>6, StepFacts
<1>8. ASSUME NEW v \in d[All]
      PROVE  z = Got(v, n + 1) /\ \A i \in 1..n : t[i] # "unknown"
  <2>1. n = Len(cond)
    BY DEF n
  <2> QED BY <1>2, <1>8, <2>1, ReadingIsResult
<1>9. z \in Result(t)
  <2>1. p \in Advancing(t)
    BY <1>5, ParserAnswers DEF p
  <2> QED BY <1>1, <1>4, <1>5, <2>1, LookUp
<1>10. ASSUME z.ok, z.at = n + 1 PROVE z.value \in d[All]
  <2>1. <<"or", 1, TRUE>> \in Calls(t)
    BY <1>1, <1>4, <1>5, IsCall
  <2>2. Sound(p, d, <<"or", 1, TRUE>>)
    BY <1>2, <2>1, EveryAnswerIsAReading
  <2> QED BY <1>10, <2>2 DEF Sound
<1>11. ASSUME d[All] = {TRUE} PROVE evaluate_condition(cond, results)
  <2>1. z = Got(TRUE, n + 1) /\ \A i \in 1..n : t[i] # "unknown"
    BY <1>8, <1>11
  <2>2. z.ok /\ z.at = n + 1 /\ z.value
    <3> HIDE DEF z
    <3> QED BY <2>1 DEF Got
  <2> QED BY <1>1, <1>3, <2>1, <2>2
<1>12. ASSUME evaluate_condition(cond, results) PROVE d[All] = {TRUE}
  <2>1. z.ok /\ z.at = n + 1 /\ z.value
    BY <1>1, <1>3, <1>12
  <2>2. z.value = TRUE
    BY <1>9, <2>1, ResultTypes, <1>5
  <2>3. TRUE \in d[All]
    BY <1>10, <2>1, <2>2
  <2>4. ASSUME NEW v \in d[All] PROVE v = TRUE
    <3>1. z = Got(v, n + 1)
      BY <1>8
    <3> HIDE DEF z
    <3>2. z.value = v
      BY <3>1 DEF Got
    <3> QED BY <2>2, <3>2
  <2> QED BY <2>3, <2>4
<1> QED BY <1>3, <1>11, <1>12
=============================================================================
