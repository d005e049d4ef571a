--------------------------- MODULE AnalysisProofs ---------------------------
(***************************************************************************)
(* What the offline analysis and the live rules have in common, proved for *)
(* every log, every set of rules and every limit.                          *)
(***************************************************************************)
EXTENDS Analysis, SigmaProofs

(***************************************************************************)
(* The event stores.  A store's rows are the events, but for how it keeps  *)
(* what an event lacks and for the terms a path is found under.            *)
(***************************************************************************)
Backends == {"sqlalchemy", "opensearch", "clickhouse"}

\* An event's names are not empty.
Filled(x) == x # ""
Named(events) == \A k \in DOMAIN events : Filled(events[k].src) /\ Filled(events[k].user)

LEMMA StoreRows ==
    ASSUME NEW e, NEW b
    PROVE  /\ Store(b, e).backend = b /\ DOMAIN Store(b, e).rows = DOMAIN e
           /\ \A k \in DOMAIN e :
                 /\ Store(b, e).rows[k].type = e[k].type
                 /\ Store(b, e).rows[k].time = e[k].raw.time
                 /\ Store(b, e).rows[k].port = e[k].port
                 /\ Store(b, e).rows[k].src = OrAbsent(b, e[k].src)
                 /\ Store(b, e).rows[k].user = OrAbsent(b, e[k].user)
                 /\ Store(b, e).rows[k].terms = PathTerms(b, e[k].data.path)
  BY DEF Store, index

\* What is kept of a name that is there is the name, and no other is kept the same.
LEMMA KeptNames ==
    ASSUME NEW b, NEW x, Filled(x)
    PROVE  /\ \A y : Filled(y) => ((OrAbsent(b, y) = OrAbsent(b, x)) <=> (y = x))
           /\ x # None => OrAbsent(b, x) = x /\ x # Absent(b)
           /\ x = None => OrAbsent(b, x) = Absent(b)
  BY NoneIsNoText DEF OrAbsent, Absent, Filled

LEMMA SameWindow ==
    ASSUME NEW e, NEW b, NEW type, NEW start, NEW end
    PROVE  InWindow(Store(b, e), type, start, end)
               = {k \in DOMAIN e : e[k].type = type /\ e[k].raw.time \in start..end}
<1> DEFINE s == Store(b, e)
<1>1. DOMAIN s.rows = DOMAIN e
      /\ \A k \in DOMAIN e : s.rows[k].type = e[k].type /\ s.rows[k].time = e[k].raw.time
  BY StoreRows
<1> HIDE DEF s
<1>2. InWindow(s, type, start, end) = {k \in DOMAIN e : e[k].type = type /\ e[k].raw.time \in start..end}
  BY <1>1 DEF InWindow
<1> QED BY <1>2 DEF s

LEMMA SameSource ==
    ASSUME NEW e, Named(e), NEW b, NEW type, NEW src, src # None, Filled(src), NEW start, NEW end
    PROVE  FromSource(Store(b, e), type, src, start, end)
               = {k \in DOMAIN e : e[k].type = type /\ e[k].src = src /\ e[k].raw.time \in start..end}
<1> DEFINE s == Store(b, e)
           W == InWindow(s, type, start, end)
<1>1. W = {k \in DOMAIN e : e[k].type = type /\ e[k].raw.time \in start..end}
  BY SameWindow
<1>2. \A k \in DOMAIN e : s.rows[k].src = OrAbsent(b, e[k].src)
  BY StoreRows
<1>3. FromSource(s, type, src, start, end) = {k \in W : s.rows[k].src = src}
  BY DEF FromSource
<1>4. \A k \in DOMAIN e : (OrAbsent(b, e[k].src) = src) <=> (e[k].src = src)
  BY KeptNames DEF Named
<1> HIDE DEF s, W
<1>5. FromSource(s, type, src, start, end)
          = {k \in DOMAIN e : e[k].type = type /\ e[k].src = src /\ e[k].raw.time \in start..end}
  BY <1>1, <1>2, <1>3, <1>4
<1> QED BY <1>5 DEF s

\* The events of a source or of an account that a rule counts.
Of(e, type, src, start, end) ==
    {k \in DOMAIN e : e[k].type = type /\ e[k].src = src /\ e[k].raw.time \in start..end}
ByUser(e, type, user, start, end) ==
    {k \in DOMAIN e : e[k].type = type /\ e[k].user = user /\ e[k].raw.time \in start..end}
AtPath(e, type, path, start, end) ==
    {k \in DOMAIN e : e[k].type = type /\ e[k].data.path = path /\ e[k].raw.time \in start..end}
Ports(e, src, start, end) == {e[k].port : k \in Of(e, "port_access", src, start, end)} \ {None}
Users(e, type, src, start, end) == {e[k].user : k \in Of(e, type, src, start, end)} \ {None}

LEMMA Counts ==
    ASSUME NEW e, Named(e), NEW b, NEW type, NEW src, src # None, Filled(src), NEW start, NEW end
    PROVE  /\ count_events(Store(b, e), type, src, start, end) = Cardinality(Of(e, type, src, start, end))
           /\ count_distinct_ports(Store(b, e), src, start, end) = Cardinality(Ports(e, src, start, end))
           /\ count_distinct_usernames(Store(b, e), type, src, start, end)
                  = Cardinality(Users(e, type, src, start, end))
<1> DEFINE s == Store(b, e)
           O(tp) == Of(e, tp, src, start, end)
<1>1. ASSUME NEW tp PROVE FromSource(s, tp, src, start, end) = O(tp)
  BY SameSource DEF Of
<1>2. /\ s.backend = b
      /\ \A k \in DOMAIN e : s.rows[k].port = e[k].port /\ s.rows[k].user = OrAbsent(b, e[k].user)
  BY StoreRows
<1>3. \A tp : O(tp) \subseteq DOMAIN e
  BY DEF Of
<1> HIDE DEF s, O
<1>4. count_events(s, type, src, start, end) = Cardinality(O(type))
  BY <1>1 DEF count_events
<1>5. {s.rows[k].port : k \in O("port_access")} = {e[k].port : k \in O("port_access")}
  BY <1>2, <1>3
<1>6. count_distinct_ports(s, src, start, end) = Cardinality({e[k].port : k \in O("port_access")} \ {None})
  BY <1>1, <1>5 DEF count_distinct_ports
<1>7. {s.rows[k].user : k \in O(type)} \ {Absent(b)} = {e[k].user : k \in O(type)} \ {None}
  <2>1. \A k \in O(type) : s.rows[k].user = OrAbsent(b, e[k].user)
    BY <1>2, <1>3
  <2>2. \A k \in O(type) : /\ e[k].user # None => OrAbsent(b, e[k].user) = e[k].user /\ e[k].user # Absent(b)
                           /\ e[k].user = None => OrAbsent(b, e[k].user) = Absent(b)
    BY <1>3, KeptNames DEF Named
  <2> HIDE DEF Absent
  <2> QED BY <2>1, <2>2
<1>8. count_distinct_usernames(s, type, src, start, end) = Cardinality({e[k].user : k \in O(type)} \ {None})
  BY <1>1, <1>2, <1>7 DEF count_distinct_usernames
<1> QED BY <1>4, <1>6, <1>8 DEF s, O, Ports, Users

LEMMA ActorCounts ==
    ASSUME NEW e, Named(e), NEW b, NEW type, NEW user, NEW src, Filled(user), Filled(src),
           user # None \/ src # None, NEW start, NEW end
    PROVE  count_events_by_actor(Store(b, e), type, user, src, start, end)
               = Cardinality(IF user # None THEN ByUser(e, type, user, start, end)
                                            ELSE Of(e, type, src, start, end))
<1> DEFINE s == Store(b, e)
           W == InWindow(s, type, start, end)
<1>1. W = {k \in DOMAIN e : e[k].type = type /\ e[k].raw.time \in start..end}
  BY SameWindow
<1>2. /\ s.backend = b
      /\ \A k \in DOMAIN e : s.rows[k].src = OrAbsent(b, e[k].src) /\ s.rows[k].user = OrAbsent(b, e[k].user)
  BY StoreRows
<1>3. count_events_by_actor(s, type, user, src, start, end)
          = Cardinality({k \in W : IF user # None THEN s.rows[k].user = user
                                                  ELSE s.rows[k].src = OrAbsent(b, src)})
  BY <1>2 DEF count_events_by_actor
<1>4. \A k \in DOMAIN e : /\ user # None => ((OrAbsent(b, e[k].user) = user) <=> (e[k].user = user))
                          /\ (OrAbsent(b, e[k].src) = OrAbsent(b, src)) <=> (e[k].src = src)
  BY KeptNames DEF Named
<1> HIDE DEF s, W
<1>5. CASE user # None
  <2>1. {k \in W : s.rows[k].user = user} = ByUser(e, type, user, start, end)
    BY <1>1, <1>2, <1>4, <1>5 DEF ByUser
  <2>2. {k \in W : IF user # None THEN s.rows[k].user = user ELSE s.rows[k].src = OrAbsent(b, src)}
            = {k \in W : s.rows[k].user = user}
    BY <1>5
  <2> QED BY <1>3, <1>5, <2>1, <2>2 DEF s
<1>6. CASE user = None
  <2>1. {k \in W : s.rows[k].src = OrAbsent(b, src)} = Of(e, type, src, start, end)
    BY <1>1, <1>2, <1>4 DEF Of
  <2>2. {k \in W : IF user # None THEN s.rows[k].user = user ELSE s.rows[k].src = OrAbsent(b, src)}
            = {k \in W : s.rows[k].src = OrAbsent(b, src)}
    BY <1>6
  <2> QED BY <1>3, <1>6, <2>1, <2>2 DEF s
<1> QED BY <1>5, <1>6

LEMMA PathCounts ==
    ASSUME NEW e, NEW b, NEW type, NEW path, NEW start, NEW end
    PROVE  /\ b # "opensearch" /\ path # None =>
                  count_by_normalized_path(Store(b, e), type, path, start, end)
                      = Cardinality(AtPath(e, type, path, start, end))
           /\ b = "opensearch" \/ path = None =>
                  count_by_normalized_path(Store(b, e), type, path, start, end) = 0
<1> DEFINE s == Store(b, e)
           W == InWindow(s, type, start, end)
<1>1. W = {k \in DOMAIN e : e[k].type = type /\ e[k].raw.time \in start..end}
  BY SameWindow
<1>2. \A k \in DOMAIN e : s.rows[k].terms = PathTerms(b, e[k].data.path)
  BY StoreRows
<1>3. count_by_normalized_path(s, type, path, start, end) = Cardinality({k \in W : path \in s.rows[k].terms})
  BY DEF count_by_normalized_path
<1> HIDE DEF s, W
<1>4. ASSUME b # "opensearch", path # None
      PROVE  {k \in W : path \in s.rows[k].terms} = AtPath(e, type, path, start, end)
  BY <1>1, <1>2, <1>4 DEF AtPath, PathTerms
<1>5. ASSUME b = "opensearch" \/ path = None
      PROVE  {k \in W : path \in s.rows[k].terms} = {}
  BY <1>1, <1>2, <1>5 DEF PathTerms
<1> QED BY <1>3, <1>4, <1>5, FS_EmptySet DEF s

-----------------------------------------------------------------------------
(***************************************************************************)
(* Each rule asks every store the same, and is told the same; but for the  *)
(* paths that OpenSearch does not find.                                    *)
(***************************************************************************)
LEMMA RulesAgree ==
    ASSUME NEW e, Named(e), NEW n \in DOMAIN e, NEW b, NEW rule
    PROVE  /\ brute_force(rule, e[n], Store(b, e)) <=> brute_force(rule, e[n], Store("sqlalchemy", e))
           /\ port_scan(rule, e[n], Store(b, e)) <=> port_scan(rule, e[n], Store("sqlalchemy", e))
           /\ login_after_failure(rule, e[n], Store(b, e))
                  <=> login_after_failure(rule, e[n], Store("sqlalchemy", e))
           /\ credential_stuffing(rule, e[n], Store(b, e))
                  <=> credential_stuffing(rule, e[n], Store("sqlalchemy", e))
           /\ privilege_escalation(rule, e[n], Store(b, e))
                  <=> privilege_escalation(rule, e[n], Store("sqlalchemy", e))
<1> DEFINE ev == e[n]
           s == Store(b, e)
           o == Store("sqlalchemy", e)
<1>1. Filled(ev.src) /\ Filled(ev.user)
  BY DEF Named
<1>2. ASSUME NEW src, src # None, Filled(src), NEW type, NEW start, NEW end
      PROVE  /\ count_events(s, type, src, start, end) = count_events(o, type, src, start, end)
             /\ count_distinct_ports(s, src, start, end) = count_distinct_ports(o, src, start, end)
             /\ count_distinct_usernames(s, type, src, start, end)
                    = count_distinct_usernames(o, type, src, start, end)
  <2> DEFINE C == Cardinality(Of(e, type, src, start, end))
             P == Cardinality(Ports(e, src, start, end))
             U == Cardinality(Users(e, type, src, start, end))
  <2>1. ASSUME NEW c
        PROVE  /\ count_events(Store(c, e), type, src, start, end) = C
               /\ count_distinct_ports(Store(c, e), src, start, end) = P
               /\ count_distinct_usernames(Store(c, e), type, src, start, end) = U
    BY <1>2, Counts
  <2> HIDE DEF C, P, U
  <2> QED BY <2>1
<1>3. ASSUME NEW user, NEW src, Filled(user), Filled(src), user # None \/ src # None,
             NEW type, NEW start, NEW end
      PROVE  count_events_by_actor(s, type, user, src, start, end)
                 = count_events_by_actor(o, type, user, src, start, end)
  <2>1. ASSUME NEW c
        PROVE  count_events_by_actor(Store(c, e), type, user, src, start, end)
                   = Cardinality(IF user # None THEN ByUser(e, type, user, start, end)
                                                ELSE Of(e, type, src, start, end))
    BY <1>3, ActorCounts
  <2> QED BY <2>1
<1> HIDE DEF ev, s, o
<1>4. brute_force(rule, ev, s) <=> brute_force(rule, ev, o)
  BY <1>1, <1>2 DEF brute_force
<1>5. port_scan(rule, ev, s) <=> port_scan(rule, ev, o)
  BY <1>1, <1>2 DEF port_scan
<1>6. login_after_failure(rule, ev, s) <=> login_after_failure(rule, ev, o)
  BY <1>1, <1>2 DEF login_after_failure
<1>7. credential_stuffing(rule, ev, s) <=> credential_stuffing(rule, ev, o)
  BY <1>1, <1>2 DEF credential_stuffing
<1>8. privilege_escalation(rule, ev, s) <=> privilege_escalation(rule, ev, o)
  <2>1. offender(ev) # None => ev.user # None \/ ev.src # None
    BY DEF offender
  <2> QED BY <1>1, <1>3, <2>1 DEF privilege_escalation
<1> QED BY <1>4, <1>5, <1>6, <1>7, <1>8 DEF ev, s, o

LEMMA IntegrityAgrees ==
    ASSUME NEW e, NEW n \in DOMAIN e, NEW b, NEW rule \in Rules
    PROVE  file_integrity(rule, e[n], Store(b, e))
               <=> file_integrity(rule, e[n], Store("sqlalchemy", e)) /\ b # "opensearch"
<1> DEFINE ev == e[n]
           path == ev.data.path
           type == ev.type
           start == Start(rule, ev)
           end == ev.raw.time
           C(c) == count_by_normalized_path(Store(c, e), type, path, start, end)
<1>1. /\ b # "opensearch" /\ path # None => C(b) = C("sqlalchemy")
      /\ b = "opensearch" => C(b) = 0
      /\ path = None => C(b) = 0 /\ C("sqlalchemy") = 0
  BY PathCounts
<1>2. rule.threshold \in Nat \ {0}
  BY Thresholds
<1>3. ~(0 >= rule.threshold)
  BY <1>2
<1>4. \A c : file_integrity(rule, ev, Store(c, e))
                 <=> /\ type = "file_integrity_change" /\ path \in Critical
                     /\ C(c) >= rule.threshold
  BY DEF file_integrity
<1> HIDE DEF C, path, type, ev
<1>5. file_integrity(rule, ev, Store(b, e))
          <=> file_integrity(rule, ev, Store("sqlalchemy", e)) /\ b # "opensearch"
  BY <1>1, <1>3, <1>4
<1> QED BY <1>5 DEF ev

LEMMA HoldsAgrees ==
    ASSUME NEW e, Named(e), NEW n \in DOMAIN e, NEW b, NEW rule \in Rules
    PROVE  Holds(rule, e[n], Store(b, e))
               <=> Holds(rule, e[n], Store("sqlalchemy", e)) /\ rule.type \notin Blind(b)
<1>1. rule.type \in Blind(b) <=> rule.type = "file_integrity" /\ b = "opensearch"
  BY DEF Blind
<1>2. CASE rule.type = "file_integrity"
  BY <1>1, <1>2, IntegrityAgrees DEF Holds
<1>3. CASE rule.type # "file_integrity"
  BY <1>1, <1>3, RulesAgree DEF Holds
<1> QED BY <1>2, <1>3

LEMMA EvaluateAgrees ==
    ASSUME NEW e, Named(e), Len(e) \in DOMAIN e, NEW b
    PROVE  evaluate(e, b) = {a \in evaluate(e, "sqlalchemy") : a.rule \notin Blind(b)}
<1> DEFINE ev == e[Len(e)]
           Alert(r) == [rule |-> r.type, key |-> Key(r, ev)]
           H(r, c) == Holds(r, ev, Store(c, e))
           E(c) == {Alert(r) : r \in {q \in Rules : q.enabled /\ H(q, c)}}
<1>1. \A c : evaluate(e, c) = E(c)
  BY DEF evaluate
<1>2. \A r \in Rules : H(r, b) <=> H(r, "sqlalchemy") /\ r.type \notin Blind(b)
  BY HoldsAgrees
<1>3. \A r : Alert(r).rule = r.type
  OBVIOUS
<1> HIDE DEF Alert, H
<1>4. E(b) = {a \in E("sqlalchemy") : a.rule \notin Blind(b)}
  BY <1>2, <1>3
<1> QED BY <1>1, <1>4

(***************************************************************************)
(* Lines.                                                                  *)
(***************************************************************************)
LEMMA EventFields ==
    ASSUME NEW line, NEW type, NEW severity, NEW user, NEW src, NEW port, NEW id, NEW data
    PROVE  /\ Event(line, type, severity, user, src, port, id, data).type = type
           /\ Event(line, type, severity, user, src, port, id, data).user = user
           /\ Event(line, type, severity, user, src, port, id, data).src = src
           /\ Event(line, type, severity, user, src, port, id, data).data = data
           /\ Event(line, type, severity, user, src, port, id, data).raw = line
  BY DEF Event

\* A line that is no Windows event says whether its account is one of the system's.
LEMMA LinuxFields ==
    ASSUME NEW line
    PROVE  LET ev == parse_linux_line(line)
           IN  ev.user \in {line.user, None} /\ ev.src \in {line.addr, None} /\ ev.data.service = None
<1>1. /\ NoData.service = None
      /\ [NoData EXCEPT !.command = line.item].service = None
      /\ [NoData EXCEPT !.path = line.item].service = None
      /\ [NoData EXCEPT !.agent = line.item].service = None
  BY DEF NoData
<1> DEFINE E(type, severity, user, src, data) ==
               Event(line, type, severity, user, src, line.port, None, data)
<1>2. \/ parse_linux_line(line) = E("authentication_failure", "medium", line.user, line.addr, NoData)
      \/ parse_linux_line(line) = E("authentication_success", "low", line.user, line.addr, NoData)
      \/ parse_linux_line(line)
             = E("privilege_related", "medium", line.user, None, [NoData EXCEPT !.command = line.item])
      \/ parse_linux_line(line)
             = E("file_integrity_change", "high", line.user, None, [NoData EXCEPT !.path = line.item])
      \/ parse_linux_line(line) = E("port_access", "low", None, line.addr, NoData)
      \/ parse_linux_line(line) = E("web_request", "low", None, line.addr, [NoData EXCEPT !.agent = line.item])
      \/ parse_linux_line(line) = E("unparsed", "low", None, None, NoData)
  BY DEF parse_linux_line
<1>3. \A type, severity, user, src, data :
          /\ E(type, severity, user, src, data).user = user
          /\ E(type, severity, user, src, data).src = src
          /\ E(type, severity, user, src, data).data = data
  BY EventFields
<1> DEFINE ev == parse_linux_line(line)
           Fine == ev.user \in {line.user, None} /\ ev.src \in {line.addr, None} /\ ev.data.service = None
<1> HIDE DEF E
<1>4. ASSUME NEW type, NEW severity, NEW user \in {line.user, None}, NEW src \in {line.addr, None},
             NEW data, data.service = None, ev = E(type, severity, user, src, data)
      PROVE  Fine
  BY <1>3, <1>4
<1>5. Fine
  <2> HIDE DEF Fine
  <2> QED BY <1>1, <1>2, <1>4
<1> QED BY <1>5

LEMMA NormalizedNames ==
    ASSUME NEW line \in Lines
    PROVE  Filled(normalize(line).src) /\ Filled(normalize(line).user)
<1>1. Filled(line.addr) /\ Filled(line.user) /\ Filled(None)
  BY Texts, NoneIsNoText DEF Filled
<1>2. CASE line.form = "windows"
  <2>1. Filled(Account(line))
    BY <1>1 DEF Account, Filled
  <2>2. normalize(line) = parse_windows_event(line)
    BY <1>2 DEF normalize
  <2>3. /\ parse_windows_event(line).user = Account(line)
        /\ parse_windows_event(line).src = IF line.addr \in Unroutable THEN None ELSE line.addr
    BY EventFields DEF parse_windows_event
  <2> HIDE DEF Filled
  <2> QED BY <1>1, <2>1, <2>2, <2>3
<1>3. CASE line.form # "windows"
  <2>1. normalize(line) = parse_linux_line(line)
    BY <1>3 DEF normalize
  <2>2. normalize(line).user \in {line.user, None} /\ normalize(line).src \in {line.addr, None}
    BY <2>1, LinuxFields
  <2> QED BY <1>1, <2>2
<1> QED BY <1>2, <1>3

LEMMA FileEvents ==
    ASSUME NEW f \in Seq(Lines)
    PROVE  /\ DOMAIN Events(f) = 1..Len(f) /\ Len(Events(f)) = Len(f) /\ Len(f) \in Nat
           /\ \A i \in 1..Len(f) : f[i] \in Lines /\ Events(f)[i] = normalize(f[i])
           /\ Named(Events(f))
<1>1. DOMAIN f = 1..Len(f) /\ Len(f) \in Nat /\ \A i \in 1..Len(f) : f[i] \in Lines
  OBVIOUS
<1>2. Events(f) = [i \in 1..Len(f) |-> normalize(f[i])]
  BY <1>1 DEF Events
<1>3. Len(Events(f)) = Len(f)
  BY <1>1, <1>2
<1>4. \A i \in 1..Len(f) : Events(f)[i] = normalize(f[i])
  BY <1>2
<1>5. Named(Events(f))
  BY <1>1, <1>2, <1>4, NormalizedNames DEF Named
<1> QED BY <1>1, <1>2, <1>3, <1>4, <1>5

-----------------------------------------------------------------------------
(***************************************************************************)
(* What held live when the log was d holds of the whole of it.             *)
(***************************************************************************)
Prefix(d, e, k) ==
    /\ Len(e) \in Nat /\ DOMAIN e = 1..Len(e) /\ k \in 1..Len(e)
    /\ DOMAIN d = 1..k /\ \A i \in 1..k : d[i] = e[i]
    /\ Named(d)

FromSrc(e, type, src) == {i \in OfType(e, type) : e[i].src = src}

LEMMA MoreCounted ==
    ASSUME NEW A, NEW B, A \subseteq B, IsFiniteSet(B), NEW t \in Nat, Cardinality(A) >= t
    PROVE  Cardinality(B) \in Nat /\ Cardinality(B) >= t
<1>1. /\ IsFiniteSet(A) /\ Cardinality(A) <= Cardinality(B)
      /\ Cardinality(A) \in Nat /\ Cardinality(B) \in Nat
  BY FS_Subset, FS_CardinalityType
<1> QED BY <1>1

LEMMA FiniteImage ==
    ASSUME NEW S, IsFiniteSet(S), NEW g
    PROVE  IsFiniteSet({g[i] : i \in S})
<1> DEFINE T == {g[i] : i \in S}
           f == [i \in S |-> g[i]]
<1>1. f \in Surjection(S, T)
  BY DEF Surjection
<1>2. IsFiniteSet(T)
  <2> HIDE DEF f, T
  <2> QED BY <1>1, FS_Surjection
<1> QED BY <1>2

LEMMA PrefixCounts ==
    ASSUME NEW d, NEW e, NEW k, Prefix(d, e, k), NEW type, NEW src, NEW start, NEW end
    PROVE  /\ Of(d, type, src, start, end) \subseteq FromSrc(e, type, src)
           /\ IsFiniteSet(FromSrc(e, type, src))
           /\ Ports(d, src, start, end) \subseteq {e[i].port : i \in FromSrc(e, "port_access", src)} \ {None}
           /\ Users(d, type, src, start, end) \subseteq {e[i].user : i \in FromSrc(e, type, src)} \ {None}
           /\ IsFiniteSet({e[i].port : i \in FromSrc(e, "port_access", src)} \ {None})
           /\ IsFiniteSet({e[i].user : i \in FromSrc(e, type, src)} \ {None})
<1>1. ASSUME NEW tp
      PROVE  /\ Of(d, tp, src, start, end) \subseteq FromSrc(e, tp, src)
             /\ \A i \in Of(d, tp, src, start, end) : d[i] = e[i]
             /\ IsFiniteSet(FromSrc(e, tp, src))
  <2>1. IsFiniteSet(1..Len(e)) /\ FromSrc(e, tp, src) \subseteq 1..Len(e)
    BY FS_Interval DEF Prefix, FromSrc, OfType
  <2>2. IsFiniteSet(FromSrc(e, tp, src))
    BY <2>1, FS_Subset
  <2>3. Of(d, tp, src, start, end) \subseteq FromSrc(e, tp, src)
    BY DEF Prefix, Of, FromSrc, OfType
  <2>4. \A i \in Of(d, tp, src, start, end) : d[i] = e[i]
    BY DEF Prefix, Of
  <2> QED BY <2>2, <2>3, <2>4
<1> DEFINE F(tp) == FromSrc(e, tp, src)
           O(tp) == Of(d, tp, src, start, end)
<1>2. \A tp : O(tp) \subseteq F(tp) /\ (\A i \in O(tp) : d[i] = e[i]) /\ IsFiniteSet(F(tp))
  BY <1>1
<1> HIDE DEF F, O
<1>3. ASSUME NEW tp
      PROVE  /\ IsFiniteSet({e[i].port : i \in F(tp)} \ {None})
             /\ IsFiniteSet({e[i].user : i \in F(tp)} \ {None})
  <2> DEFINE port == [i \in F(tp) |-> e[i].port]
             user == [i \in F(tp) |-> e[i].user]
  <2>1. IsFiniteSet({port[i] : i \in F(tp)}) /\ IsFiniteSet({user[i] : i \in F(tp)})
    <3> HIDE DEF port, user
    <3> QED BY <1>2, FiniteImage
  <2>2. /\ {port[i] : i \in F(tp)} = {e[i].port : i \in F(tp)}
        /\ {user[i] : i \in F(tp)} = {e[i].user : i \in F(tp)}
    OBVIOUS
  <2> QED BY <2>1, <2>2, FS_Difference
<1>4. {d[i].port : i \in O("port_access")} \ {None} \subseteq {e[i].port : i \in F("port_access")} \ {None}
  BY <1>2
<1>5. {d[i].user : i \in O(type)} \ {None} \subseteq {e[i].user : i \in F(type)} \ {None}
  BY <1>2
<1> QED BY <1>2, <1>3, <1>4, <1>5 DEF F, O, Ports, Users

\* A finding is there that has the rule's name and severity, and this source.
Found(e, rule, key) ==
    \E f \in classify_rule(e, rule) : f.rule = rule.type /\ f.severity = rule.severity /\ f.source = key

LEMMA FindingFields ==
    ASSUME NEW rule, NEW severity, NEW source, NEW count
    PROVE  /\ Finding(rule, severity, source, count).rule = rule
           /\ Finding(rule, severity, source, count).severity = severity
           /\ Finding(rule, severity, source, count).source = source
           /\ Finding(rule, severity, source, count).count = count
  BY DEF Finding

LEMMA BruteForceFound ==
    ASSUME NEW d, NEW e, NEW k, Prefix(d, e, k), NEW rule \in Rules, rule.type = "brute_force",
           brute_force(rule, e[k], Store("sqlalchemy", d))
    PROVE  Found(e, rule, e[k].src)
<1> DEFINE src == e[k].src
           F == FromSrc(e, "authentication_failure", src)
           At == {i \in OfType(e, "authentication_failure") : e[i].src # None}
           g == Finding(rule.type, rule.severity, src, Cardinality(F))
<1>1. /\ e[k].type = "authentication_failure" /\ src # None /\ k \in DOMAIN e
      /\ count_events(Store("sqlalchemy", d), "authentication_failure", src,
                      Start(rule, e[k]), e[k].raw.time) >= rule.threshold
  BY DEF brute_force, Prefix
<1>2. Filled(src) /\ Named(d)
  BY DEF Prefix, Named
<1>3. Cardinality(F) >= rule.threshold
  <2> DEFINE O == Of(d, "authentication_failure", src, Start(rule, e[k]), e[k].raw.time)
  <2>1. Cardinality(O) >= rule.threshold
    BY <1>1, <1>2, Counts
  <2>2. O \subseteq F /\ IsFiniteSet(F)
    BY PrefixCounts, Zenon
  <2>3. rule.threshold \in Nat
    BY Thresholds
  <2> HIDE DEF O, F
  <2> QED BY <2>1, <2>2, <2>3, MoreCounted
<1>4. k \in At /\ F = {i \in At : e[i].src = src}
  BY <1>1 DEF OfType, FromSrc
<1>5. classify_rule(e, rule) =
          {f \in {Finding(rule.type, rule.severity, key, Cardinality({i \in At : e[i].src = key})) :
                      key \in {e[i].src : i \in At}} : f.count >= rule.threshold}
  BY DEF classify_rule, BySource, Group, Source, Reaches
<1>6. g.count = Cardinality(F)
  BY FindingFields
<1>7. g \in classify_rule(e, rule)
  <2> HIDE DEF At, F
  <2> QED BY <1>3, <1>4, <1>5, <1>6
<1> QED BY <1>7, FindingFields DEF Found

LEMMA PortScanFound ==
    ASSUME NEW d, NEW e, NEW k, Prefix(d, e, k), NEW rule \in Rules, rule.type = "port_scan",
           port_scan(rule, e[k], Store("sqlalchemy", d))
    PROVE  Found(e, rule, e[k].src)
<1> DEFINE src == e[k].src
           F == FromSrc(e, "port_access", src)
           At == {i \in OfType(e, "port_access") : e[i].src # None}
           V == {e[i].port : i \in F} \ {None}
           g == Finding(rule.type, rule.severity, src, Cardinality(V))
<1>1. /\ e[k].type = "port_access" /\ src # None /\ k \in DOMAIN e
      /\ count_distinct_ports(Store("sqlalchemy", d), src, Start(rule, e[k]), e[k].raw.time) >= rule.threshold
  BY DEF port_scan, Prefix
<1>2. Filled(src) /\ Named(d)
  BY DEF Prefix, Named
<1>3. Cardinality(V) >= rule.threshold
  <2> DEFINE O == Ports(d, src, Start(rule, e[k]), e[k].raw.time)
  <2>1. Cardinality(O) >= rule.threshold
    BY <1>1, <1>2, Counts
  <2>2. O \subseteq V /\ IsFiniteSet(V)
    BY PrefixCounts, Zenon
  <2>3. rule.threshold \in Nat
    BY Thresholds
  <2> HIDE DEF O, V
  <2> QED BY <2>1, <2>2, <2>3, MoreCounted
<1>4. k \in At /\ F = {i \in At : e[i].src = src}
  BY <1>1 DEF OfType, FromSrc
<1>5. classify_rule(e, rule) =
          {f \in {Finding(rule.type, rule.severity, key,
                          Cardinality({e[i].port : i \in {j \in At : e[j].src = key}} \ {None})) :
                      key \in {e[i].src : i \in At}} : f.count >= rule.threshold}
  BY DEF classify_rule, BySource, Group, Source, Reaches
<1>6. g.count = Cardinality(V)
  BY FindingFields
<1>7. g \in classify_rule(e, rule)
  <2> HIDE DEF At, F
  <2> QED BY <1>3, <1>4, <1>5, <1>6
<1> QED BY <1>7, FindingFields DEF Found

LEMMA CredentialStuffingFound ==
    ASSUME NEW d, NEW e, NEW k, Prefix(d, e, k), NEW rule \in Rules, rule.type = "credential_stuffing",
           credential_stuffing(rule, e[k], Store("sqlalchemy", d))
    PROVE  Found(e, rule, e[k].src)
<1> DEFINE src == e[k].src
           F == FromSrc(e, "authentication_failure", src)
           At == {i \in OfType(e, "authentication_failure") : e[i].src # None}
           V == {e[i].user : i \in F} \ {None}
           g == Finding(rule.type, rule.severity, src, Cardinality(V))
<1>1. /\ e[k].type = "authentication_failure" /\ src # None /\ k \in DOMAIN e
      /\ count_distinct_usernames(Store("sqlalchemy", d), "authentication_failure", src,
                                  Start(rule, e[k]), e[k].raw.time) >= rule.threshold
  BY DEF credential_stuffing, Prefix
<1>2. Filled(src) /\ Named(d)
  BY DEF Prefix, Named
<1>3. Cardinality(V) >= rule.threshold
  <2> DEFINE O == Users(d, "authentication_failure", src, Start(rule, e[k]), e[k].raw.time)
  <2>1. Cardinality(O) >= rule.threshold
    BY <1>1, <1>2, Counts
  <2>2. O \subseteq V /\ IsFiniteSet(V)
    BY PrefixCounts, Zenon
  <2>3. rule.threshold \in Nat
    BY Thresholds
  <2> HIDE DEF O, V
  <2> QED BY <2>1, <2>2, <2>3, MoreCounted
<1>4. k \in At /\ F = {i \in At : e[i].src = src}
  BY <1>1 DEF OfType, FromSrc
<1>5. classify_rule(e, rule) =
          {f \in {Finding(rule.type, rule.severity, key,
                          Cardinality({e[i].user : i \in {j \in At : e[j].src = key}} \ {None})) :
                      key \in {e[i].src : i \in At}} : f.count >= rule.threshold}
  BY DEF classify_rule, BySource, Group, Source, Reaches
<1>6. g.count = Cardinality(V)
  BY FindingFields
<1>7. g \in classify_rule(e, rule)
  <2> HIDE DEF At, F
  <2> QED BY <1>3, <1>4, <1>5, <1>6
<1> QED BY <1>7, FindingFields DEF Found

LEMMA LoginAfterFailureFound ==
    ASSUME NEW d, NEW e, NEW k, Prefix(d, e, k), NEW rule \in Rules, rule.type = "login_after_failure",
           login_after_failure(rule, e[k], Store("sqlalchemy", d))
    PROVE  Found(e, rule, e[k].src)
<1> DEFINE src == e[k].src
           B(i) == {j \in OfType(e, "authentication_failure") : j < i /\ e[j].src = e[i].src}
           S == {i \in OfType(e, "authentication_success") : e[i].src # None}
           G(i) == Finding(rule.type, rule.severity, e[i].src, Cardinality(B(i)))
<1>1. /\ e[k].type = "authentication_success" /\ src # None /\ k \in DOMAIN e
      /\ count_events(Store("sqlalchemy", d), "authentication_failure", src,
                      Start(rule, e[k]), e[k].raw.time) >= rule.threshold
  BY DEF login_after_failure, Prefix
<1>2. Filled(src) /\ Named(d)
  BY DEF Prefix, Named
<1>3. Cardinality(B(k)) >= rule.threshold
  <2> DEFINE O == Of(d, "authentication_failure", src, Start(rule, e[k]), e[k].raw.time)
  <2>1. Cardinality(O) >= rule.threshold
    BY <1>1, <1>2, Counts
  <2>2. O \subseteq B(k)
    <3>1. \A j \in O : /\ j \in 1..k /\ e[j].type = "authentication_failure" /\ e[j].src = src
                      /\ j \in DOMAIN e
      BY DEF Prefix, Of
    <3>2. \A j \in O : j # k
      BY <1>1, <3>1
    <3>3. k \in Nat
      BY DEF Prefix
    <3>4. \A j \in 1..k : j # k => j < k
      BY <3>3
    <3> HIDE DEF O
    <3> QED BY <3>1, <3>2, <3>4 DEF OfType
  <2>3. IsFiniteSet(B(k))
    <3>1. IsFiniteSet(1..Len(e)) /\ B(k) \subseteq 1..Len(e)
      BY FS_Interval DEF Prefix, OfType
    <3> QED BY <3>1, FS_Subset
  <2>4. rule.threshold \in Nat
    BY Thresholds
  <2> HIDE DEF O, B
  <2> QED BY <2>1, <2>2, <2>3, <2>4, MoreCounted
<1>4. k \in S
  BY <1>1 DEF OfType
<1>5. classify_rule(e, rule) = {f \in {G(i) : i \in S} : f.count >= rule.threshold}
  BY DEF classify_rule, AfterFailures, Reaches
<1>6. G(k).count = Cardinality(B(k))
  BY FindingFields
<1>7. G(k) \in classify_rule(e, rule)
  <2> HIDE DEF S, B, G
  <2> QED BY <1>3, <1>4, <1>5, <1>6
<1> QED BY <1>7, FindingFields DEF Found

LEMMA FileIntegrityFound ==
    ASSUME NEW d, NEW e, NEW k, Prefix(d, e, k), NEW rule \in Rules, rule.type = "file_integrity",
           file_integrity(rule, e[k], Store("sqlalchemy", d))
    PROVE  Found(e, rule, e[k].data.path)
<1> DEFINE path == e[k].data.path
           At == {i \in OfType(e, "file_integrity_change") : e[i].data.path \in Critical}
           B(p) == {i \in At : e[i].data.path = p}
           G(p) == Finding(rule.type, rule.severity, p, Cardinality(B(p)))
           O == AtPath(d, "file_integrity_change", path, Start(rule, e[k]), e[k].raw.time)
<1>1. /\ e[k].type = "file_integrity_change" /\ path \in Critical /\ k \in DOMAIN e
      /\ count_by_normalized_path(Store("sqlalchemy", d), "file_integrity_change", path,
                                  Start(rule, e[k]), e[k].raw.time) >= rule.threshold
  BY DEF file_integrity, Prefix
<1>2. rule.threshold \in Nat /\ ~(0 >= rule.threshold)
  BY Thresholds
<1>3. Cardinality(O) >= rule.threshold
  BY <1>1, <1>2, PathCounts
<1>4. Cardinality(B(path)) >= rule.threshold
  <2>1. O \subseteq B(path)
    BY <1>1 DEF Prefix, AtPath, OfType
  <2>2. IsFiniteSet(B(path))
    <3>1. IsFiniteSet(1..Len(e)) /\ B(path) \subseteq 1..Len(e)
      BY FS_Interval DEF Prefix, OfType
    <3> QED BY <3>1, FS_Subset
  <2> HIDE DEF O, B
  <2> QED BY <1>2, <1>3, <2>1, <2>2, MoreCounted
<1>5. k \in At
  BY <1>1 DEF OfType
<1>6. classify_rule(e, rule) = {f \in {G(p) : p \in {e[i].data.path : i \in At}} : f.count >= rule.threshold}
  BY DEF classify_rule, Group, Path, Reaches
<1>7. G(path).count = Cardinality(B(path))
  BY FindingFields
<1>8. G(path) \in classify_rule(e, rule)
  <2> HIDE DEF At, B, G
  <2> QED BY <1>4, <1>5, <1>6, <1>7
<1> QED BY <1>8, FindingFields DEF Found

LEMMA PrivilegeFound ==
    ASSUME NEW d, NEW e, NEW k, Prefix(d, e, k), NEW rule \in Rules, rule.type = "privilege_escalation",
           privilege_escalation(rule, e[k], Store("sqlalchemy", d))
    PROVE  Found(e, rule, offender(e[k]))
<1> DEFINE G(i) == Finding(rule.type, rule.severity, OrUnknown(offender(e[i])), 1)
           S == {i \in OfType(e, "privilege_related") : matched_pattern(e[i])}
<1>1. k \in S /\ offender(e[k]) # None
  BY DEF privilege_escalation, Prefix, OfType
<1>2. classify_rule(e, rule) = {G(i) : i \in S}
  BY DEF classify_rule
<1>3. G(k) \in classify_rule(e, rule)
  BY <1>1, <1>2
<1>4. OrUnknown(offender(e[k])) = offender(e[k])
  BY <1>1 DEF OrUnknown
<1> QED BY <1>3, <1>4, FindingFields DEF Found

\* The rules that the analysis applies the way the live detection does.
LEMMA LiveIsFound ==
    ASSUME NEW d, NEW e, NEW k, Prefix(d, e, k), NEW rule \in Rules, rule.type \in Comparable,
           Holds(rule, e[k], Store("sqlalchemy", d))
    PROVE  Found(e, rule, Key(rule, e[k]))
<1>1. CASE rule.type = "brute_force"
  BY <1>1, BruteForceFound DEF Holds, Key
<1>2. CASE rule.type = "port_scan"
  BY <1>2, PortScanFound DEF Holds, Key
<1>3. CASE rule.type = "login_after_failure"
  BY <1>3, LoginAfterFailureFound DEF Holds, Key
<1>4. CASE rule.type = "credential_stuffing"
  BY <1>4, CredentialStuffingFound DEF Holds, Key
<1>5. CASE rule.type = "file_integrity"
  BY <1>5, FileIntegrityFound DEF Holds, Key
<1>6. CASE rule.type = "privilege_escalation"
  BY <1>6, PrivilegeFound DEF Holds, Key
<1> QED BY <1>1, <1>2, <1>3, <1>4, <1>5, <1>6 DEF Comparable

-----------------------------------------------------------------------------
(***************************************************************************)
(* Correlations.                                                           *)
(***************************************************************************)
LEMMA RealAccount ==
    ASSUME NEW line, normalize(line).user # None, normalize(line).user \notin ServiceAccounts
    PROVE  normalize(line).data.service # TRUE
<1>1. CASE line.form = "windows"
  <2> DEFINE user == Account(line)
             b == user = None \/ user \in ServiceAccounts
             data == [NoData EXCEPT !.windows = TRUE, !.service = b]
  <2>1. normalize(line) = parse_windows_event(line)
    BY <1>1 DEF normalize
  <2>2. parse_windows_event(line).user = user /\ parse_windows_event(line).data = data
    BY EventFields DEF parse_windows_event
  <2>3. b = FALSE
    BY <2>1, <2>2
  <2> HIDE DEF b
  <2>4. data.service = b
    BY DEF NoData
  <2> QED BY <2>1, <2>2, <2>3, <2>4
<1>2. CASE line.form # "windows"
  <2>1. normalize(line).data.service = None
    BY <1>2, LinuxFields DEF normalize
  <2> QED BY <2>1, NoneIsNoText
<1> QED BY <1>1, <1>2

LEMMA ParsedEvents ==
    ASSUME NEW f
    PROVE  /\ DOMAIN Parsed(f) = 1..(IF Len(f) > MaxLines THEN MaxLines ELSE Len(f))
           /\ \A i \in DOMAIN Parsed(f) : Parsed(f)[i] = normalize(f[i])
  BY DEF Parsed

LEMMA CompromiseIsNamed ==
    ASSUME NEW f, Len(f) \in Nat, NEW i \in OfType(Parsed(f), "authentication_success"),
           Parsed(f)[i].user # None, Parsed(f)[i].user \notin ServiceAccounts,
           Cardinality({k \in OfType(Parsed(f), "authentication_failure") :
                            k < i /\ Parsed(f)[k].user = Parsed(f)[i].user}) >= Cut.failures
    PROVE  \E g \in detect_correlations(Parsed(f)) :
               g.rule = "credential_compromise_pattern" /\ g.source = Parsed(f)[i].user
<1> DEFINE e == Parsed(f)
           u == e[i].user
           B == {k \in OfType(e, "authentication_failure") : k < i /\ e[k].user = u}
           n == Cardinality(Fails(e, u))
           g == Finding("credential_compromise_pattern", "high", u, n)
<1>0. Cut.failures \in Nat /\ Cut.failures >= 1 /\ MaxLines \in Nat
  BY Limits
<1>1. ASSUME NEW k \in DOMAIN e, e[k].user = u PROVE e[k].data.service # TRUE
  <2> DEFINE line == f[k]
  <2>1. e[k] = normalize(line)
    BY ParsedEvents
  <2> HIDE DEF line
  <2>2. normalize(line).user # None /\ normalize(line).user \notin ServiceAccounts
    BY <1>1, <2>1
  <2> QED BY <2>1, <2>2, RealAccount
<1>2. i \in DOMAIN e /\ i \in OfType(e, "authentication_success")
  BY DEF OfType
<1>3. i \in Successes(e, u)
  <2> HIDE DEF e
  <2> QED BY <1>1, <1>2 DEF Successes
<1>4. B \subseteq Fails(e, u)
  <2> HIDE DEF e
  <2> QED BY <1>1 DEF Fails, OfType
<1>5. IsFiniteSet(DOMAIN e) /\ IsFiniteSet(Fails(e, u)) /\ IsFiniteSet(B)
  <2>1. \E m \in Nat : DOMAIN e = 1..m
    BY <1>0, ParsedEvents
  <2>2. IsFiniteSet(DOMAIN e)
    <3> HIDE DEF e
    <3> QED BY <2>1, FS_Interval
  <2>3. Fails(e, u) \subseteq DOMAIN e
    BY DEF Fails, OfType
  <2>4. IsFiniteSet(Fails(e, u))
    BY <2>2, <2>3, FS_Subset
  <2>5. IsFiniteSet(B)
    <3> HIDE DEF B
    <3> QED BY <1>4, <2>4, FS_Subset
  <2> QED BY <2>2, <2>4, <2>5
<1>6. n >= Cut.failures
  <2> HIDE DEF B
  <2>1. Cardinality(B) >= Cut.failures
    BY DEF B
  <2> QED BY <1>0, <1>4, <1>5, <2>1, MoreCounted
<1>7. LaterSuccess(e, u)
  <2>1. B # {}
    <3> SUFFICES ASSUME B = {} PROVE FALSE
      OBVIOUS
    <3>1. Cardinality(B) = 0
      BY FS_EmptySet
    <3> QED BY <1>0, <3>1
  <2>2. PICK k \in B : TRUE
    BY <2>1
  <2>3. k \in Fails(e, u) /\ k < i
    BY <1>4, <2>2
  <2> HIDE DEF e, u
  <2> QED BY <1>3, <2>3 DEF LaterSuccess
<1>8. g \in detect_correlations(e)
  <2>1. u \in {e[j].user : j \in DOMAIN e} \ {None}
    BY <1>2
  <2> HIDE DEF e, u, g
  <2>2. g = LET m == Cardinality(Fails(e, u))
            IN  IF LaterSuccess(e, u)
                THEN Finding("credential_compromise_pattern", "high", u, m)
                ELSE Finding("brute_force_attempt", IF m >= Cut.many THEN "high" ELSE "medium", u, m)
    BY <1>7 DEF g
  <2> QED BY <1>6, <2>1, <2>2 DEF detect_correlations
<1>9. g.rule = "credential_compromise_pattern" /\ g.source = u
  BY FindingFields
<1> HIDE DEF e, u, g
<1>10. \E h \in detect_correlations(e) : h.rule = "credential_compromise_pattern" /\ h.source = u
  BY <1>8, <1>9
<1> QED BY <1>10 DEF e, u

-----------------------------------------------------------------------------
(***************************************************************************)
(* Every report is of a part of the log, and every alert was raised at the *)
(* end of one.                                                             *)
(***************************************************************************)
LEMMA PartOfFile ==
    ASSUME NEW S, NEW f \in Seq(S), NEW n \in 1..Len(f)
    PROVE  /\ SubSeq(f, 1, n) \in Seq(S) /\ Len(SubSeq(f, 1, n)) = n
           /\ \A i \in 1..n : SubSeq(f, 1, n)[i] = f[i]
  OBVIOUS

LEMMA PartOfMore ==
    ASSUME NEW S, NEW f \in Seq(S), NEW x \in S, NEW n \in 1..Len(f)
    PROVE  SubSeq(Append(f, x), 1, n) = SubSeq(f, 1, n)
<1>1. Append(f, x) \in Seq(S) /\ Len(Append(f, x)) = Len(f) + 1 /\ n \in 1..Len(Append(f, x))
  OBVIOUS
<1>2. \A i \in 1..n : Append(f, x)[i] = f[i]
  OBVIOUS
<1>3. /\ SubSeq(Append(f, x), 1, n) \in Seq(S) /\ Len(SubSeq(Append(f, x), 1, n)) = n
      /\ \A i \in 1..n : SubSeq(Append(f, x), 1, n)[i] = f[i]
  <2> DEFINE g == Append(f, x)
  <2> HIDE DEF g
  <2> QED BY <1>1, <1>2, PartOfFile DEF g
<1>4. SubSeq(f, 1, n) \in Seq(S) /\ Len(SubSeq(f, 1, n)) = n /\ \A i \in 1..n : SubSeq(f, 1, n)[i] = f[i]
  BY PartOfFile
<1> DEFINE a == SubSeq(Append(f, x), 1, n)
           b == SubSeq(f, 1, n)
<1> HIDE DEF a, b
<1>5. a \in Seq(S) /\ b \in Seq(S) /\ Len(a) = Len(b) /\ \A i \in 1..Len(a) : a[i] = b[i]
  BY <1>3, <1>4 DEF a, b
<1>6. a = b
  BY <1>5
<1> QED BY <1>6 DEF a, b

LEMMA WholeFile ==
    ASSUME NEW S, NEW f \in Seq(S), Len(f) # 0
    PROVE  SubSeq(f, 1, Len(f)) = f
<1> DEFINE a == SubSeq(f, 1, Len(f))
<1>1. Len(f) \in 1..Len(f)
  OBVIOUS
<1>2. a \in Seq(S) /\ Len(a) = Len(f) /\ \A i \in 1..Len(f) : a[i] = f[i]
  BY <1>1, PartOfFile
<1> HIDE DEF a
<1>3. a = f
  BY <1>2
<1> QED BY <1>3 DEF a

Statuses  == {"running", "complete", "failed", "deleted"}
Summaries == {build_summary(l, analyze(l, SigmaRules(c))) : l \in Seq(Lines), c \in Seq(Tokens) \cup {None}}
Report    == [lines : Nat, status : Statuses, sigma : Seq(Tokens) \cup {None}, summary : Summaries \cup {None}]

AnalysisTypes ==
    /\ file \in Seq(Lines) /\ condition \in Seq(Tokens) /\ cache \in Seq(Tokens) \cup {None}
    /\ reports \in Seq(Report)
    /\ job \in {Idle} \cup [id : DOMAIN reports, step : {"analyse", "complete"}]
    /\ abandoned \subseteq DOMAIN reports /\ trouble \in Nat

\* An alert was called for when some first part of the file was all there was.
RaisedIn(f, a) == \E k \in 1..Len(f) : a \in evaluate(Events(SubSeq(f, 1, k)), "sqlalchemy")
Remembered == \A a \in raised : RaisedIn(file, a)

\* What a report says, it says of the lines it was made from.
SummaryOf(f, n, c) == LET lines == SubSeq(f, 1, n) IN build_summary(lines, analyze(lines, SigmaRules(c)))
MadeFrom(f, report) ==
    /\ report.lines \in 1..Len(f)
    /\ report.status = "complete" => report.summary = SummaryOf(f, report.lines, report.sigma)
Attended(r) == job.id = r \/ r \in abandoned
Reported ==
    \A r \in DOMAIN reports :
        MadeFrom(file, reports[r]) /\ (reports[r].status = "running" => Attended(r))

AnalysisInv == AnalysisTypes /\ Remembered /\ Reported

LEMMA AnalysisInitially == Init => AnalysisInv
<1> SUFFICES ASSUME Init PROVE AnalysisInv
  OBVIOUS
<1>1. file = << >> /\ raised = {} /\ condition = << >> /\ cache = None
      /\ reports = << >> /\ job = Idle /\ abandoned = {} /\ trouble = 0
  BY DEF Init
<1>2. DOMAIN reports = {}
  BY <1>1
<1> QED BY <1>1, <1>2 DEF AnalysisInv, AnalysisTypes, Remembered, Reported

LEMMA SummaryIsOne ==
    ASSUME NEW l \in Seq(Lines), NEW c \in Seq(Tokens) \cup {None}
    PROVE  build_summary(l, analyze(l, SigmaRules(c))) \in Summaries
  BY DEF Summaries

LEMMA Put ==
    ASSUME NEW S, NEW q \in Seq(S), NEW n \in DOMAIN q, NEW x \in S
    PROVE  /\ [q EXCEPT ![n] = x] \in Seq(S) /\ DOMAIN [q EXCEPT ![n] = x] = DOMAIN q
           /\ \A r \in DOMAIN q : r # n => [q EXCEPT ![n] = x][r] = q[r]
           /\ [q EXCEPT ![n] = x][n] = x
  OBVIOUS

\* A report whose outcome is written.
Wrote(q, n, s, g, y) == [q EXCEPT ![n].status = s, ![n].sigma = g, ![n].summary = y]
Writable(q, n, s, g, y) ==
    /\ q \in Seq(Report) /\ n \in DOMAIN q
    /\ s \in Statuses /\ g \in Seq(Tokens) \cup {None} /\ y \in Summaries \cup {None}

LEMMA Marked ==
    ASSUME NEW q, NEW n, NEW s, NEW g, NEW y, Writable(q, n, s, g, y)
    PROVE  /\ Wrote(q, n, s, g, y) \in Seq(Report) /\ DOMAIN Wrote(q, n, s, g, y) = DOMAIN q
           /\ \A r \in DOMAIN q : r # n => Wrote(q, n, s, g, y)[r] = q[r]
           /\ Wrote(q, n, s, g, y)[n].lines = q[n].lines /\ Wrote(q, n, s, g, y)[n].status = s
           /\ Wrote(q, n, s, g, y)[n].sigma = g /\ Wrote(q, n, s, g, y)[n].summary = y
<1> USE DEF Writable
<1> DEFINE x == [q[n] EXCEPT !.status = s]
           z == [x EXCEPT !.sigma = g]
           w == [z EXCEPT !.summary = y]
           a == [q EXCEPT ![n] = x]
           b == [a EXCEPT ![n] = z]
           p == [b EXCEPT ![n] = w]
<1>0. q[n] \in Report
  OBVIOUS
<1>1. x \in Report /\ x.lines = q[n].lines /\ x.status = s
  BY <1>0 DEF Report
<1> HIDE DEF x
<1>2. z \in Report /\ z.lines = x.lines /\ z.status = x.status /\ z.sigma = g
  BY <1>1 DEF Report
<1> HIDE DEF z
<1>3. w \in Report /\ w.lines = z.lines /\ w.status = z.status /\ w.sigma = z.sigma /\ w.summary = y
  BY <1>2 DEF Report
<1> HIDE DEF w
<1>4. a \in Seq(Report) /\ DOMAIN a = DOMAIN q /\ a[n] = x /\ \A r \in DOMAIN q : r # n => a[r] = q[r]
  BY <1>1, Put
<1>5. a = [q EXCEPT ![n].status = s]
  BY DEF x
<1> HIDE DEF a
<1>6. b \in Seq(Report) /\ DOMAIN b = DOMAIN q /\ b[n] = z /\ \A r \in DOMAIN q : r # n => b[r] = q[r]
  BY <1>2, <1>4, Put
<1>7. b = [a EXCEPT ![n].sigma = g]
  BY <1>4 DEF z
<1> HIDE DEF b
<1>8. p \in Seq(Report) /\ DOMAIN p = DOMAIN q /\ p[n] = w /\ \A r \in DOMAIN q : r # n => p[r] = q[r]
  BY <1>3, <1>6, Put
<1>9. p = [b EXCEPT ![n].summary = y]
  BY <1>6 DEF w
<1> HIDE DEF p
<1>10. Wrote(q, n, s, g, y) = p
  BY <1>5, <1>7, <1>9 DEF Wrote
<1> QED BY <1>1, <1>2, <1>3, <1>8, <1>10

-----------------------------------------------------------------------------
(***************************************************************************)
(* The steps.                                                              *)
(***************************************************************************)
LEMMA GrownFile ==
    ASSUME NEW f \in Seq(Lines), NEW line \in Lines
    PROVE  /\ \A a : RaisedIn(f, a) => RaisedIn(Append(f, line), a)
           /\ \A report : MadeFrom(f, report) => MadeFrom(Append(f, line), report)
<1> DEFINE g == Append(f, line)
<1>1. \A n \in 1..Len(f) : SubSeq(g, 1, n) = SubSeq(f, 1, n)
  BY PartOfMore
<1>2. Len(f) \in Nat /\ Len(g) = Len(f) + 1
  OBVIOUS
<1>3. \A n \in 1..Len(f) : n \in 1..Len(g)
  BY <1>2
<1> HIDE DEF g
<1>4. ASSUME NEW a, RaisedIn(f, a) PROVE RaisedIn(g, a)
  <2>1. PICK k \in 1..Len(f) : a \in evaluate(Events(SubSeq(f, 1, k)), "sqlalchemy")
    BY <1>4 DEF RaisedIn
  <2>2. k \in 1..Len(g) /\ SubSeq(g, 1, k) = SubSeq(f, 1, k)
    BY <1>1, <1>3
  <2>3. a \in evaluate(Events(SubSeq(g, 1, k)), "sqlalchemy")
    BY <2>1, <2>2
  <2> QED BY <2>2, <2>3 DEF RaisedIn
<1>5. ASSUME NEW report, MadeFrom(f, report) PROVE MadeFrom(g, report)
  <2>1. report.lines \in 1..Len(f)
    BY <1>5 DEF MadeFrom
  <2>2. report.lines \in 1..Len(g) /\ SubSeq(g, 1, report.lines) = SubSeq(f, 1, report.lines)
    BY <1>1, <1>3, <2>1
  <2>3. SummaryOf(g, report.lines, report.sigma) = SummaryOf(f, report.lines, report.sigma)
    BY <2>2 DEF SummaryOf
  <2> QED BY <1>5, <2>2, <2>3 DEF MadeFrom
<1> QED BY <1>4, <1>5 DEF g

LEMMA LogKeeps ==
    ASSUME AnalysisInv, NEW line \in Lines, Log(line)
    PROVE  AnalysisInv'
<1>1. /\ file' = Append(file, line) /\ raised' = raised \cup evaluate(Events(file'), "sqlalchemy")
      /\ UNCHANGED <<condition, cache, reports, job, abandoned, trouble>>
  BY DEF Log
<1>2. file \in Seq(Lines) /\ file' \in Seq(Lines) /\ Len(file') = Len(file) + 1 /\ Len(file) \in Nat
  BY <1>1 DEF AnalysisInv, AnalysisTypes
<1>3. AnalysisTypes'
  BY <1>1, <1>2 DEF AnalysisInv, AnalysisTypes, Report, Summaries
<1>4. /\ \A a : RaisedIn(file, a) => RaisedIn(file', a)
      /\ \A report : MadeFrom(file, report) => MadeFrom(file', report)
  BY <1>1, <1>2, GrownFile
<1>5. SubSeq(file', 1, Len(file')) = file' /\ Len(file') \in 1..Len(file')
  BY <1>2, WholeFile
<1>6. \A a \in evaluate(Events(file'), "sqlalchemy") : RaisedIn(file', a)
  BY <1>5 DEF RaisedIn
<1>7. Remembered'
  BY <1>1, <1>4, <1>6 DEF AnalysisInv, Remembered
<1>8. Reported'
  BY <1>1, <1>4 DEF AnalysisInv, Reported, Attended
<1> QED BY <1>3, <1>7, <1>8 DEF AnalysisInv

LEMMA WriteKeeps ==
    ASSUME AnalysisInv, NEW token \in Tokens, Write(token)
    PROVE  AnalysisInv'
<1>1. condition' = Append(condition, token) /\ UNCHANGED <<file, raised, cache, reports, job, abandoned, trouble>>
  BY DEF Write
<1>2. condition' \in Seq(Tokens)
  BY <1>1 DEF AnalysisInv, AnalysisTypes
<1>3. AnalysisTypes'
  BY <1>1, <1>2 DEF AnalysisInv, AnalysisTypes, Report, Summaries
<1>4. Remembered' /\ Reported'
  BY <1>1 DEF AnalysisInv, Remembered, Reported, Attended
<1> QED BY <1>3, <1>4 DEF AnalysisInv

LEMMA ReplaceKeeps ==
    ASSUME AnalysisInv, Replace
    PROVE  AnalysisInv'
<1>1. condition' \in Seq(Tokens) /\ UNCHANGED <<file, raised, cache, reports, job, abandoned, trouble>>
  BY Conditions DEF Replace
<1>2. AnalysisTypes'
  BY <1>1 DEF AnalysisInv, AnalysisTypes, Report, Summaries
<1>3. Remembered' /\ Reported'
  BY <1>1 DEF AnalysisInv, Remembered, Reported, Attended
<1> QED BY <1>2, <1>3 DEF AnalysisInv

LEMMA UploadKeeps ==
    ASSUME AnalysisInv, Upload
    PROVE  AnalysisInv'
<1> DEFINE row == [lines |-> Len(file), status |-> "running", sigma |-> None, summary |-> None]
           n == Len(reports) + 1
<1>1. /\ job = Idle /\ Len(file) \in 1..ReportLines /\ reports' = Append(reports, row)
      /\ job' = [id |-> Len(reports'), step |-> "analyse"]
      /\ UNCHANGED <<file, raised, condition, cache, abandoned, trouble>>
  BY DEF Upload
<1>2. file \in Seq(Lines) /\ Len(file) \in Nat /\ Len(file) \in 1..Len(file) /\ reports \in Seq(Report)
  BY <1>1 DEF AnalysisInv, AnalysisTypes
<1>3. row \in Report /\ row.lines = Len(file) /\ row.status = "running"
  BY <1>2 DEF Report, Statuses
<1> HIDE DEF row
<1>4. /\ reports' \in Seq(Report) /\ DOMAIN reports' = DOMAIN reports \cup {n} /\ Len(reports') = n
      /\ reports'[n] = row /\ \A r \in DOMAIN reports : reports'[r] = reports[r] /\ r # 0
  BY <1>1, <1>2, <1>3
<1> HIDE DEF n
<1>5. AnalysisTypes'
  BY <1>1, <1>2, <1>4 DEF AnalysisInv, AnalysisTypes, Report, Summaries
<1>6. Remembered'
  BY <1>1 DEF AnalysisInv, Remembered
<1>7. MadeFrom(file', reports'[n])
  BY <1>1, <1>2, <1>3, <1>4 DEF MadeFrom
<1>8. job'.id = n
  BY <1>1, <1>4
<1>9. ASSUME NEW r \in DOMAIN reports
      PROVE  MadeFrom(file', reports'[r]) /\ (reports'[r].status = "running" => Attended(r)')
  <2>1. MadeFrom(file, reports[r]) /\ (reports[r].status = "running" => Attended(r))
    BY DEF AnalysisInv, Reported
  <2>2. Attended(r) => Attended(r)'
    BY <1>1, <1>4 DEF Attended, Idle
  <2> QED BY <1>1, <1>4, <2>1, <2>2
<1>10. ASSUME NEW r \in DOMAIN reports'
       PROVE  MadeFrom(file', reports'[r]) /\ (reports'[r].status = "running" => Attended(r)')
  BY <1>4, <1>7, <1>8, <1>9 DEF Attended
<1>11. Reported'
  BY <1>10 DEF Reported
<1> QED BY <1>5, <1>6, <1>11 DEF AnalysisInv

LEMMA LoadKeeps ==
    ASSUME AnalysisInv, Load
    PROVE  AnalysisInv'
<1>1. /\ job.step = "analyse" /\ cache' = IF cache = None THEN condition ELSE cache
      /\ job' = [job EXCEPT !.step = "complete"]
      /\ UNCHANGED <<file, raised, condition, reports, abandoned, trouble>>
  BY DEF Load
<1>2. job' \in [id : DOMAIN reports, step : {"analyse", "complete"}] /\ job'.id = job.id
  BY <1>1 DEF AnalysisInv, AnalysisTypes, Idle
<1>3. AnalysisTypes'
  BY <1>1, <1>2 DEF AnalysisInv, AnalysisTypes, Report, Summaries
<1>4. Remembered' /\ Reported'
  BY <1>1, <1>2 DEF AnalysisInv, Remembered, Reported, Attended
<1> QED BY <1>3, <1>4 DEF AnalysisInv

\* The outcome of the report that is worked on.
LEMMA OutcomeKeeps ==
    ASSUME AnalysisInv, NEW status \in {"complete", "failed"}, NEW sigma \in Seq(Tokens) \cup {None},
           job # Idle, Outcome(status, sigma), trouble' \in Nat,
           UNCHANGED <<file, raised, condition, cache, abandoned>>
    PROVE  AnalysisInv'
<1> DEFINE n == job.id
           lines == reports[n].lines
           y == IF status = "complete" THEN Summary(lines, sigma) ELSE None
<1>1. n \in DOMAIN reports /\ reports \in Seq(Report) /\ file \in Seq(Lines)
  BY DEF AnalysisInv, AnalysisTypes
<1>2. \A r \in DOMAIN reports : MadeFrom(file, reports[r]) /\ (reports[r].status = "running" => Attended(r))
  BY DEF AnalysisInv, Reported
<1>3. lines \in 1..Len(file)
  BY <1>1, <1>2 DEF MadeFrom
<1>4. y \in Summaries \cup {None} /\ (status = "complete" => y = SummaryOf(file, lines, sigma))
  <2>1. SubSeq(file, 1, lines) \in Seq(Lines)
    BY <1>1, <1>3, PartOfFile
  <2>2. Summary(lines, sigma) = SummaryOf(file, lines, sigma)
    BY DEF Summary, SummaryOf
  <2>3. SummaryOf(file, lines, sigma) \in Summaries
    BY <2>1, SummaryIsOne DEF SummaryOf
  <2> HIDE DEF lines
  <2> QED BY <2>2, <2>3
<1> DEFINE p == Wrote(reports, n, status, sigma, y)
<1>5. job' = Idle /\ reports' = IF reports[n].status = "deleted" THEN reports ELSE p
  BY DEF Outcome, Wrote
<1> HIDE DEF y
<1>6. /\ p \in Seq(Report) /\ DOMAIN p = DOMAIN reports
      /\ \A r \in DOMAIN reports : r # n => p[r] = reports[r]
      /\ p[n].lines = lines /\ p[n].status = status /\ p[n].sigma = sigma /\ p[n].summary = y
  <2>1. Writable(reports, n, status, sigma, y)
    BY <1>1, <1>4 DEF Statuses, Writable
  <2> HIDE DEF n
  <2> QED BY <2>1, Marked
<1> HIDE DEF p
<1>7. reports' \in Seq(Report) /\ DOMAIN reports' = DOMAIN reports
  BY <1>1, <1>5, <1>6
<1>8. AnalysisTypes'
  BY <1>5, <1>7 DEF AnalysisInv, AnalysisTypes, Report, Summaries
<1>9. Remembered'
  BY DEF AnalysisInv, Remembered
<1>10. MadeFrom(file, p[n])
  BY <1>3, <1>4, <1>6 DEF MadeFrom
<1>11. ASSUME NEW r \in DOMAIN reports
       PROVE  MadeFrom(file, reports'[r]) /\ (reports'[r].status = "running" => r \in abandoned)
  <2>1. CASE reports[n].status = "deleted"
    <3>1. reports' = reports
      BY <1>5, <2>1
    <3>2. reports[r].status = "running" => r # n
      BY <2>1
    <3> QED BY <1>2, <3>1, <3>2 DEF Attended
  <2>2. CASE reports[n].status # "deleted"
    <3>1. reports' = p
      BY <1>5, <2>2
    <3>2. CASE r = n
      BY <1>6, <1>10, <3>1, <3>2
    <3>3. CASE r # n
      BY <1>2, <1>6, <3>1, <3>3 DEF Attended
    <3> QED BY <3>2, <3>3
  <2> QED BY <2>1, <2>2
<1>12. Reported'
  BY <1>7, <1>11 DEF Reported, Attended
<1> QED BY <1>8, <1>9, <1>12 DEF AnalysisInv

LEMMA CompleteKeeps ==
    ASSUME AnalysisInv, Complete
    PROVE  AnalysisInv'
<1>1. /\ job.step = "complete" /\ Outcome("complete", cache)
      /\ UNCHANGED <<file, raised, condition, cache, abandoned, trouble>>
  BY DEF Complete
<1>2. job # Idle
  BY <1>1 DEF Idle
<1>3. cache \in Seq(Tokens) \cup {None} /\ trouble' \in Nat
  BY <1>1 DEF AnalysisInv, AnalysisTypes
<1> QED BY <1>1, <1>2, <1>3, OutcomeKeeps

LEMMA FailKeeps ==
    ASSUME AnalysisInv, Fail
    PROVE  AnalysisInv'
<1>1. /\ job # Idle /\ trouble' = trouble + 1 /\ Outcome("failed", None)
      /\ UNCHANGED <<file, raised, condition, cache, abandoned>>
  BY DEF Fail
<1>2. None \in Seq(Tokens) \cup {None} /\ trouble' \in Nat
  BY <1>1 DEF AnalysisInv, AnalysisTypes
<1> QED BY <1>1, <1>2, OutcomeKeeps

\* A report whose upload is given up is one that was abandoned.
LEMMA GivenUp ==
    ASSUME AnalysisInv, UNCHANGED <<file, raised, condition, reports>>, job' = Idle, trouble' \in Nat,
           cache' \in {cache, None}, abandoned' = IF job = Idle THEN abandoned ELSE abandoned \cup {job.id}
    PROVE  AnalysisInv'
<1>1. job # Idle => job.id \in DOMAIN reports
  BY DEF AnalysisInv, AnalysisTypes
<1>2. AnalysisTypes'
  BY <1>1 DEF AnalysisInv, AnalysisTypes, Report, Summaries
<1>3. Remembered'
  BY DEF AnalysisInv, Remembered
<1>4. \A r \in DOMAIN reports : r # 0
  BY DEF AnalysisInv, AnalysisTypes
<1>5. ASSUME NEW r \in DOMAIN reports, Attended(r) PROVE Attended(r)'
  BY <1>4, <1>5 DEF Attended, Idle
<1>6. Reported'
  BY <1>5 DEF AnalysisInv, Reported
<1> QED BY <1>2, <1>3, <1>6 DEF AnalysisInv

LEMMA CommitFailsKeeps ==
    ASSUME AnalysisInv, CommitFails
    PROVE  AnalysisInv'
<1>1. /\ job.step = "complete" /\ trouble' = trouble + 1 /\ abandoned' = abandoned \cup {job.id}
      /\ job' = Idle /\ UNCHANGED <<file, raised, condition, cache, reports>>
  BY DEF CommitFails
<1>2. job # Idle /\ trouble' \in Nat
  BY <1>1 DEF AnalysisInv, AnalysisTypes, Idle
<1> QED BY <1>1, <1>2, GivenUp

LEMMA RestartKeeps ==
    ASSUME AnalysisInv, Restart
    PROVE  AnalysisInv'
<1>1. /\ trouble' = trouble + 1 /\ abandoned' = IF job = Idle THEN abandoned ELSE abandoned \cup {job.id}
      /\ job' = Idle /\ cache' = None /\ UNCHANGED <<file, raised, condition, reports>>
  BY DEF Restart
<1>2. trouble' \in Nat
  BY <1>1 DEF AnalysisInv, AnalysisTypes
<1> QED BY <1>1, <1>2, GivenUp

LEMMA DeleteKeeps ==
    ASSUME AnalysisInv, NEW r \in DOMAIN reports, Delete(r)
    PROVE  AnalysisInv'
<1> DEFINE gone == [reports[r] EXCEPT !.status = "deleted"]
<1>1. /\ reports' = [reports EXCEPT ![r] = gone]
      /\ UNCHANGED <<file, raised, condition, cache, job, abandoned, trouble>>
  BY DEF Delete
<1>2. reports \in Seq(Report) /\ reports[r] \in Report
  BY DEF AnalysisInv, AnalysisTypes
<1>3. gone \in Report /\ gone.lines = reports[r].lines /\ gone.status = "deleted"
  BY <1>2 DEF Report, Statuses
<1> HIDE DEF gone
<1>4. /\ reports' \in Seq(Report) /\ DOMAIN reports' = DOMAIN reports /\ reports'[r] = gone
      /\ \A q \in DOMAIN reports : q # r => reports'[q] = reports[q]
  BY <1>1, <1>2, <1>3, Put
<1>5. AnalysisTypes'
  BY <1>1, <1>4 DEF AnalysisInv, AnalysisTypes, Report, Summaries
<1>6. Remembered'
  BY <1>1 DEF AnalysisInv, Remembered
<1>7. MadeFrom(file, reports[r])
  BY DEF AnalysisInv, Reported
<1>8. MadeFrom(file, gone)
  BY <1>3, <1>7 DEF MadeFrom
<1>9. Reported'
  BY <1>1, <1>3, <1>4, <1>8 DEF AnalysisInv, Reported, Attended
<1> QED BY <1>5, <1>6, <1>9 DEF AnalysisInv

\* The state the analysis keeps is what it says it is: every alert was called for by some
\* first part of the file, every report is of its lines, and a report that is not finished
\* is worked on or was abandoned (app/api/routes/analysis.py).
THEOREM AnalysisInvariant == Spec => []AnalysisInv
<1>1. ASSUME AnalysisInv, [Next]_vars PROVE AnalysisInv'
  <2>1. CASE \E line \in Lines : Log(line)
    BY <1>1, <2>1, LogKeeps
  <2>2. CASE \E token \in Tokens : Write(token)
    BY <1>1, <2>2, WriteKeeps
  <2>3. CASE Replace \/ Upload \/ Load
    BY <1>1, <2>3, ReplaceKeeps, UploadKeeps, LoadKeeps
  <2>4. CASE Complete \/ Fail
    BY <1>1, <2>4, CompleteKeeps, FailKeeps
  <2>5. CASE CommitFails \/ Restart
    BY <1>1, <2>5, CommitFailsKeeps, RestartKeeps
  <2>6. CASE \E r \in DOMAIN reports : Delete(r)
    BY <1>1, <2>6, DeleteKeeps
  <2>7. CASE UNCHANGED vars
    <3>1. UNCHANGED <<file, raised, condition, cache, reports, job, abandoned, trouble>>
      BY <2>7 DEF vars
    <3>2. AnalysisTypes'
      BY <1>1, <3>1 DEF AnalysisInv, AnalysisTypes, Report, Summaries
    <3>3. Remembered' /\ Reported'
      BY <1>1, <3>1 DEF AnalysisInv, Remembered, Reported, Attended
    <3> QED BY <3>2, <3>3 DEF AnalysisInv
  <2> QED BY <1>1, <2>1, <2>2, <2>3, <2>4, <2>5, <2>6, <2>7 DEF Next
<1> QED BY <1>1, AnalysisInitially, PTL DEF Spec

-----------------------------------------------------------------------------
(***************************************************************************)
(* What the runs check, of every state.                                    *)
(***************************************************************************)
\* A condition matches exactly when that is what it means, whatever is on disk and whatever
\* its selections match (sigma.py:345-402).
THEOREM ConditionsMean == Spec => []ConditionMeaning
<1>1. AnalysisInv => ConditionMeaning
  <2> SUFFICES ASSUME AnalysisInv, NEW results \in [Names -> BOOLEAN]
               PROVE  evaluate_condition(condition, results) <=> Denotes(condition, results) = {TRUE}
    BY DEF ConditionMeaning
  <2>1. condition \in Seq(Tokens)
    BY DEF AnalysisInv, AnalysisTypes
  <2> QED BY <2>1, ConditionDecided
<1> QED BY <1>1, AnalysisInvariant, PTL

\* Every store gives the rules the same answers, file integrity on OpenSearch excepted,
\* whatever was logged and for every value of LOG_STORE (docs/STORAGE.md:85-86).
THEOREM StoresAlwaysAgree == Spec => []StoresAgree
<1>1. AnalysisInv => StoresAgree
  <2> SUFFICES ASSUME AnalysisInv, file # << >>, NEW setting \in Settings
               PROVE  evaluate(Events(file), get_log_store(setting))
                          = {a \in evaluate(Events(file), "sqlalchemy") :
                                 a.rule \notin Blind(get_log_store(setting))}
    BY DEF StoresAgree
  <2>1. file \in Seq(Lines) /\ Len(file) \in 1..Len(file)
    BY DEF AnalysisInv, AnalysisTypes
  <2>2. Named(Events(file)) /\ Len(Events(file)) \in DOMAIN Events(file)
    BY <2>1, FileEvents
  <2> QED BY <2>2, EvaluateAgrees
<1> QED BY <1>1, AnalysisInvariant, PTL

\* Whoever logs in after failing often enough is named by the analysis, whatever else the
\* log holds (engine.py:1328-1341).
THEOREM CompromiseAlwaysNamed == Spec => []CompromiseNamed
<1>1. AnalysisInv => CompromiseNamed
  <2> SUFFICES ASSUME AnalysisInv, NEW i \in OfType(Parsed(file), "authentication_success"),
                      Parsed(file)[i].user # None, Parsed(file)[i].user \notin ServiceAccounts,
                      Cardinality({k \in OfType(Parsed(file), "authentication_failure") :
                                       k < i /\ Parsed(file)[k].user = Parsed(file)[i].user}) >= Cut.failures
               PROVE  Parsed(file)[i].user
                          \in {f.source : f \in {g \in detect_correlations(Parsed(file)) :
                                                     g.rule = "credential_compromise_pattern"}}
    BY DEF CompromiseNamed
  <2>1. Len(file) \in Nat
    BY DEF AnalysisInv, AnalysisTypes
  <2>2. \E g \in detect_correlations(Parsed(file)) :
            g.rule = "credential_compromise_pattern" /\ g.source = Parsed(file)[i].user
    BY <2>1, CompromiseIsNamed
  <2> QED BY <2>2
<1> QED BY <1>1, AnalysisInvariant, PTL

\* The events of a first part of the log are the first events of a longer one.
LEMMA PartPrefix ==
    ASSUME NEW f \in Seq(Lines), Len(f) <= MaxLines, NEW k \in 1..Len(f)
    PROVE  Prefix(Events(SubSeq(f, 1, k)), Parsed(f), k)
<1> DEFINE h == SubSeq(f, 1, k)
           d == Events(h)
           e == Parsed(f)
<1>1. Len(f) \in Nat /\ MaxLines \in Nat
  BY Limits
<1>2. h \in Seq(Lines) /\ Len(h) = k /\ \A i \in 1..k : h[i] = f[i]
  BY PartOfFile
<1>3. DOMAIN e = 1..Len(f) /\ \A i \in 1..Len(f) : e[i] = normalize(f[i])
  <2>1. (IF Len(f) > MaxLines THEN MaxLines ELSE Len(f)) = Len(f)
    BY <1>1
  <2> QED BY <2>1, ParsedEvents
<1>4. Len(e) = Len(f)
  <2>1. e = [i \in 1..Len(f) |-> e[i]]
    BY <1>3 DEF Parsed
  <2> HIDE DEF e
  <2> QED BY <1>1, <2>1
<1> HIDE DEF h
<1>5. DOMAIN d = 1..k /\ (\A i \in 1..k : d[i] = normalize(h[i])) /\ Named(d)
  BY <1>2, FileEvents
<1> HIDE DEF d, e
<1>6. Prefix(d, e, k)
  BY <1>1, <1>2, <1>3, <1>4, <1>5 DEF Prefix
<1> QED BY <1>6 DEF d, e, h

\* Whatever the live rules called for, the analysis of the same file finds under the same
\* name, for every log and every set of rules (engine.py:14-16).
THEOREM AlwaysCaughtOffline == Spec => []CaughtOffline
<1>1. AnalysisInv => CaughtOffline
  <2> SUFFICES ASSUME AnalysisInv, Len(file) <= MaxLines, NEW a \in raised, a.rule \in Comparable
               PROVE  \E f \in classify_batch(Parsed(file)) : f.rule = a.rule /\ f.source = a.key
    BY DEF CaughtOffline
  <2>1. file \in Seq(Lines) /\ RaisedIn(file, a)
    BY DEF AnalysisInv, AnalysisTypes, Remembered
  <2>2. PICK k \in 1..Len(file) : a \in evaluate(Events(SubSeq(file, 1, k)), "sqlalchemy")
    BY <2>1 DEF RaisedIn
  <2> DEFINE h == SubSeq(file, 1, k)
             d == Events(h)
             e == Parsed(file)
  <2>3. Prefix(d, e, k)
    BY <2>1, PartPrefix
  <2>4. Len(d) = k /\ d[k] = e[k]
    <3>1. h \in Seq(Lines) /\ Len(h) = k
      BY <2>1, PartOfFile
    <3> HIDE DEF h, e
    <3>2. Len(d) = k
      BY <3>1, FileEvents
    <3> HIDE DEF d
    <3> QED BY <2>3, <3>2 DEF Prefix
  <2> HIDE DEF d, e
  <2>5. PICK r \in Rules : /\ r.enabled /\ Holds(r, e[k], Store("sqlalchemy", d))
                           /\ a = [rule |-> r.type, key |-> Key(r, e[k])]
    BY <2>2, <2>4 DEF evaluate, d
  <2>6. a.rule = r.type /\ a.key = Key(r, e[k])
    BY <2>5
  <2>7. Found(e, r, Key(r, e[k]))
    BY <2>3, <2>5, <2>6, LiveIsFound
  <2>8. PICK f \in classify_rule(e, r) : f.rule = r.type /\ f.source = Key(r, e[k])
    BY <2>7 DEF Found
  <2>9. f \in classify_batch(e)
    BY <2>5, <2>8 DEF classify_batch
  <2> QED BY <2>6, <2>8, <2>9 DEF e
<1> QED BY <1>1, AnalysisInvariant, PTL

-----------------------------------------------------------------------------
(***************************************************************************)
(* Severities.                                                             *)
(***************************************************************************)
Graded(F) == \A f \in F : f.severity \in Severities

LEMMA RuleGraded ==
    ASSUME NEW e, NEW rule \in Rules
    PROVE  Graded(classify_rule(e, rule))
<1> DEFINE OfRule(f) == \E source, count : f = Finding(rule.type, rule.severity, source, count)
<1>1. \A f : OfRule(f) => f.severity \in Severities
  BY KnownSeverities, FindingFields
<1>2. CASE rule.type = "brute_force"
  BY <1>1, <1>2 DEF Graded, classify_rule, BySource, Group
<1>3. CASE rule.type = "port_scan"
  BY <1>1, <1>3 DEF Graded, classify_rule, BySource, Group
<1>4. CASE rule.type = "login_after_failure"
  BY <1>1, <1>4 DEF Graded, classify_rule, AfterFailures
<1>5. CASE rule.type = "credential_stuffing"
  BY <1>1, <1>5 DEF Graded, classify_rule, BySource, Group
<1>6. CASE rule.type = "file_integrity"
  BY <1>1, <1>6 DEF Graded, classify_rule, Group
<1>7. CASE rule.type = "privilege_escalation"
  BY <1>1, <1>7 DEF Graded, classify_rule
<1>8. CASE rule.type = "web_attack"
  BY <1>1, <1>8 DEF Graded, classify_rule, Group
<1>9. CASE rule.type = "suspicious_user_agent"
  BY <1>1, <1>9 DEF Graded, classify_rule, Group
<1>10. CASE rule.type \notin {"brute_force", "port_scan", "login_after_failure", "credential_stuffing",
                             "file_integrity", "privilege_escalation", "web_attack", "suspicious_user_agent"}
  BY <1>10 DEF Graded, classify_rule
<1> QED BY <1>2, <1>3, <1>4, <1>5, <1>6, <1>7, <1>8, <1>9, <1>10

LEMMA WindowsGraded ==
    ASSUME NEW e
    PROVE  Graded(detect_windows_anomalies(e))
<1>1. Graded(hresult_anomalies(e))
  BY KnownSeverities, FindingFields DEF Graded, hresult_anomalies, Severities
<1>2. Graded(security_events(e))
  <2> DEFINE Severity(id, service, n) ==
                 CASE id = 4625 /\ n >= Cut.logons         -> "high"
                   [] id \in ContextSensitive /\ service   -> "low"
                   [] id = 4672 /\ ~service                -> "high"
                   [] OTHER                                -> BaseSeverity(id)
  <2>1. ASSUME NEW id, NEW service, NEW n PROVE Severity(id, service, n) \in Severities
    <3>1. BaseSeverity(id) \in Severities
      BY DEF BaseSeverity, Severities
    <3>2. "high" \in Severities /\ "low" \in Severities
      BY DEF Severities
    <3> HIDE DEF Severities
    <3> QED BY <3>1, <3>2
  <2> DEFINE At == {i \in DOMAIN e : SecurityId(e[i])[1] \in SecurityEvents}
             Keys == {SecurityId(e[i]) : i \in At}
             C(key) == Cardinality({i \in At : SecurityId(e[i]) = key})
  <2>2. security_events(e) =
            {Finding("windows_security_event", Severity(key[1], key[2], C(key)), key, C(key)) : key \in Keys}
    BY DEF security_events, Group
  <2> HIDE DEF Severity, Keys, C
  <2>3. \A f \in security_events(e) :
            \E key : f = Finding("windows_security_event", Severity(key[1], key[2], C(key)), key, C(key))
    BY <2>2
  <2> QED BY <2>1, <2>3, FindingFields DEF Graded
<1>3. Graded(failure_rate(e))
  BY FindingFields DEF Graded, failure_rate, Severities
<1>4. Graded(servicing_store(e))
  BY FindingFields DEF Graded, servicing_store, Severities
<1> QED BY <1>1, <1>2, <1>3, <1>4 DEF Graded, detect_windows_anomalies

LEMMA SignaturesGraded ==
    ASSUME NEW e
    PROVE  Graded(detect_threat_signatures(e))
<1> DEFINE Grade(s, n) == IF n >= Cut.signature /\ s.severity \in {"medium", "high"}
                          THEN Worse(s.severity) ELSE s.severity
<1>1. ASSUME NEW s \in Signatures, NEW n PROVE Grade(s, n) \in Severities
  <2>1. s.severity \in Severities /\ Worse(s.severity) \in Severities
    BY KnownSeverities DEF Worse, Severities
  <2> QED BY <2>1
<1> HIDE DEF Grade
<1>2. \A f \in detect_threat_signatures(e) :
          \E s \in Signatures : \E who, n : f = Finding("threat_signature", Grade(s, n), who, n)
  <2> SUFFICES ASSUME NEW f \in detect_threat_signatures(e)
               PROVE  \E s \in Signatures : \E who, n : f = Finding("threat_signature", Grade(s, n), who, n)
    OBVIOUS
  <2>1. PICK s \in Signatures :
            f \in Group(e, {i \in Showing(e, s.name) : s.web => event_is_web(e[i])}, Actor,
                        LAMBDA who, at : Finding("threat_signature", Grade(s, Cardinality(at)), who, Cardinality(at)))
    BY DEF detect_threat_signatures, Grade, Group
  <2>2. \E who, n : f = Finding("threat_signature", Grade(s, n), who, n)
    BY <2>1 DEF Group
  <2> QED BY <2>2
<1> QED BY <1>1, <1>2, FindingFields DEF Graded

LEMMA CorrelationsGraded ==
    ASSUME NEW e
    PROVE  Graded(detect_correlations(e))
  BY FindingFields DEF Graded, detect_correlations, Severities

LEMMA SigmaGraded ==
    ASSUME NEW e, NEW c
    PROVE  Graded(detect_sigma(e, SigmaRules(c)))
<1> DEFINE r == [condition |-> c, detection |-> Detection, severity |-> "high"]
<1>1. SigmaRules(c) = {r} /\ r.severity \in Severities
  BY DEF SigmaRules, Severities
<1> HIDE DEF r
<1>2. detect_sigma(e, SigmaRules(c)) =
          Group(e, {i \in DOMAIN e : rule_matches(r, e[i])}, Actor,
                LAMBDA who, at : Finding("sigma", r.severity, who, Cardinality(at)))
  BY <1>1 DEF detect_sigma, Group
<1>3. \A f \in detect_sigma(e, SigmaRules(c)) : \E who, n : f = Finding("sigma", r.severity, who, n)
  BY <1>2 DEF Group
<1> QED BY <1>1, <1>3, FindingFields DEF Graded

LEMMA AllGraded ==
    ASSUME NEW lines, NEW c
    PROVE  Graded(analyze(lines, SigmaRules(c)))
<1> DEFINE e == Parsed(lines)
<1>1. Graded(classify_batch(e))
  <2> HIDE DEF e
  <2> QED BY RuleGraded DEF Graded, classify_batch
<1>2. /\ Graded(detect_windows_anomalies(e)) /\ Graded(detect_threat_signatures(e))
      /\ Graded(detect_correlations(e)) /\ Graded(detect_sigma(e, SigmaRules(c)))
  BY WindowsGraded, SignaturesGraded, CorrelationsGraded, SigmaGraded
<1>3. analyze(lines, SigmaRules(c))
          = classify_batch(e) \cup detect_windows_anomalies(e) \cup detect_threat_signatures(e)
                \cup detect_correlations(e) \cup detect_sigma(e, SigmaRules(c))
  BY DEF analyze
<1> HIDE DEF e
<1> QED BY <1>1, <1>2, <1>3 DEF Graded

LEMMA Ranks == Rank("low") = 1 /\ Rank("medium") = 2 /\ Rank("high") = 3 /\ Rank("critical") = 4
  BY DEF Rank, Order

\* The worst of some severities is one of them that no other exceeds.
LEMMA WorstBounds ==
    ASSUME NEW F, Graded(F), NEW g \in F, NEW lines
    PROVE  Rank(g.severity) <= Rank(build_summary(lines, F).worst)
<1> DEFINE Bounds(s) == \A f \in F : Rank(f.severity) <= Rank(s)
           Of2 == {f.severity : f \in F}
<1>1. \A f \in F : f.severity \in {"low", "medium", "high", "critical"}
  BY DEF Graded, Severities
<1>2. \E s \in Of2 : Bounds(s)
  <2>1. CASE "critical" \in Of2
    BY <1>1, <2>1, Ranks
  <2>2. CASE "critical" \notin Of2 /\ "high" \in Of2
    BY <1>1, <2>2, Ranks
  <2>3. CASE "critical" \notin Of2 /\ "high" \notin Of2 /\ "medium" \in Of2
    BY <1>1, <2>3, Ranks
  <2>4. CASE "critical" \notin Of2 /\ "high" \notin Of2 /\ "medium" \notin Of2
    BY <1>1, <2>4, Ranks
  <2> QED BY <2>1, <2>2, <2>3, <2>4
<1>3. build_summary(lines, F).worst = CHOOSE s \in Of2 : Bounds(s)
  BY DEF build_summary
<1> HIDE DEF Of2
<1>4. Bounds(build_summary(lines, F).worst)
  BY <1>2, <1>3
<1> QED BY <1>4

LEMMA PartOfPart ==
    ASSUME NEW S, NEW f \in Seq(S), NEW n \in 1..Len(f), NEW k \in 1..n
    PROVE  SubSeq(SubSeq(f, 1, n), 1, k) = SubSeq(f, 1, k)
<1> DEFINE g == SubSeq(f, 1, n)
           a == SubSeq(g, 1, k)
           b == SubSeq(f, 1, k)
<1>1. g \in Seq(S) /\ Len(g) = n /\ \A i \in 1..n : g[i] = f[i]
  BY PartOfFile
<1>2. k \in 1..Len(f) /\ k \in 1..Len(g) /\ \A i \in 1..k : i \in 1..n
  BY <1>1
<1> HIDE DEF g
<1>3. a \in Seq(S) /\ Len(a) = k /\ \A i \in 1..k : a[i] = g[i]
  BY <1>1, <1>2, PartOfFile
<1>4. b \in Seq(S) /\ Len(b) = k /\ \A i \in 1..k : b[i] = f[i]
  BY <1>2, PartOfFile
<1> HIDE DEF a, b
<1>5. a = b
  BY <1>1, <1>2, <1>3, <1>4
<1> QED BY <1>5 DEF a, b, g

LEMMA SummaryFields ==
    ASSUME NEW lines, NEW F
    PROVE  build_summary(lines, F).truncated = (Len(lines) > MaxLines)
<1> DEFINE t == Len(lines) > MaxLines
           u == Cardinality(OfType(Parsed(lines), "unparsed"))
           w == IF F = {} THEN None
                ELSE CHOOSE s \in {f.severity : f \in F} : \A f \in F : Rank(f.severity) <= Rank(s)
<1>1. build_summary(lines, F) = [truncated |-> t, unparsed |-> u, worst |-> w, findings |-> F]
  BY DEF build_summary
<1> HIDE DEF t, u, w
<1>2. build_summary(lines, F).truncated = t
  BY <1>1
<1> QED BY <1>2 DEF t

\* A complete report of all its lines is no less severe than any rule that held while they
\* came in, and one that is running is worked on or was abandoned: for every log, every set
\* of rules and every order of uploads, failures, restarts and deletions.
THEOREM ReportsTrue == Spec => []ReportTruth
<1>1. AnalysisInv => ReportTruth
  <2> SUFFICES ASSUME AnalysisInv, NEW r \in DOMAIN reports
               PROVE  /\ reports[r].status = "complete" /\ ~reports[r].summary.truncated =>
                             \A rule \in Rules :
                                 rule.type \in Comparable /\ HeldLive(rule, reports[r].lines) =>
                                     Rank(rule.severity) <= Rank(reports[r].summary.worst)
                      /\ reports[r].status = "running" => job.id = r \/ r \in abandoned
    BY DEF ReportTruth
  <2>1. /\ file \in Seq(Lines) /\ MadeFrom(file, reports[r])
        /\ reports[r].status = "running" => Attended(r)
    BY DEF AnalysisInv, AnalysisTypes, Reported
  <2>2. ASSUME reports[r].status = "complete", ~reports[r].summary.truncated, NEW rule \in Rules,
               rule.type \in Comparable, HeldLive(rule, reports[r].lines)
        PROVE  Rank(rule.severity) <= Rank(reports[r].summary.worst)
    <3> DEFINE n == reports[r].lines
               f == SubSeq(file, 1, n)
               found == analyze(f, SigmaRules(reports[r].sigma))
               e == Parsed(f)
    <3>1. n \in 1..Len(file) /\ reports[r].summary = build_summary(f, found)
      BY <2>1, <2>2 DEF MadeFrom, SummaryOf
    <3>2. f \in Seq(Lines) /\ Len(f) = n
      BY <2>1, <3>1, PartOfFile
    <3>3. ~(Len(f) > MaxLines)
      <4> HIDE DEF f, n, found
      <4>1. ~build_summary(f, found).truncated
        BY <2>2, <3>1
      <4>2. build_summary(f, found).truncated = (Len(f) > MaxLines)
        BY SummaryFields
      <4> QED BY <4>1, <4>2
    <3>4. Len(f) <= MaxLines
      BY <3>2, <3>3, Limits
    <3>5. PICK k \in 1..n : rule.enabled /\ Holds(rule, Events(SubSeq(file, 1, k))[k],
                                                  Store("sqlalchemy", Events(SubSeq(file, 1, k))))
      BY <2>2 DEF HeldLive
    <3>6. SubSeq(f, 1, k) = SubSeq(file, 1, k)
      BY <2>1, <3>1, PartOfPart
    <3> HIDE DEF f, n
    <3> DEFINE d == Events(SubSeq(file, 1, k))
    <3>7. Prefix(d, e, k)
      BY <3>2, <3>4, <3>6, PartPrefix
    <3> HIDE DEF d, e
    <3>8. d[k] = e[k]
      BY <3>7 DEF Prefix
    <3>9. Holds(rule, e[k], Store("sqlalchemy", d))
      BY <3>5, <3>8 DEF d
    <3>10. PICK g \in classify_rule(e, rule) : g.severity = rule.severity
      BY <2>2, <3>7, <3>9, LiveIsFound DEF Found
    <3>11. g \in found
      <4>1. g \in classify_batch(e)
        BY <3>5, <3>10 DEF classify_batch
      <4> QED BY <4>1 DEF analyze, e
    <3>12. Graded(found)
      BY AllGraded
    <3> HIDE DEF found
    <3>13. Rank(g.severity) <= Rank(build_summary(f, found).worst)
      BY <3>11, <3>12, WorstBounds
    <3> QED BY <3>1, <3>10, <3>13
  <2> QED BY <2>1, <2>2 DEF Attended
<1> QED BY <1>1, AnalysisInvariant, PTL
=============================================================================
