--------------------------- MODULE ShippingProofs ---------------------------
(***************************************************************************)
(* What Shipping promises for logs, files, truncations and failures of any *)
(* number: what is stored is stored once and in order, and nothing but     *)
(* what the reader is excused from is lost.                                *)
(***************************************************************************)
EXTENDS Shipping, TLAPS

Steps == {"start", "wait", "open", "read", "sleep", "reopen", "post", "again", "login", "dead"}
TypeOK ==
    /\ program \in {"shipper", "forwarder"} /\ whole \in BOOLEAN
    /\ files \in [1..MaxFiles -> Seq(Piece)]
    /\ path \in 0..MaxFiles /\ writer \in 0..MaxFiles
    /\ lines \in 0..MaxLines /\ half \in BOOLEAN
    /\ step \in Steps /\ fd \in 0..MaxFiles /\ pos \in Nat
    /\ chunk \in Seq(Piece)
    /\ buffer \in Seq(Piece) /\ held \in Seq(Piece) /\ stored \in Seq(Piece)
\* How the reader, the writer and the name of the file stand to each other.
Shape ==
    /\ half => lines > 0
    /\ path # 0 => path \in {writer, writer + 1}
    /\ path = 0 => writer < MaxFiles
    /\ fd <= writer \/ fd = path
    /\ step \in {"start", "wait", "open"} =>
          fd = 0 /\ stored = << >> /\ held = << >> /\ buffer = << >> /\ chunk = << >>
    /\ step \notin {"start", "wait", "open", "dead"} => fd # 0 /\ inode = fd
    /\ step \in {"sleep", "reopen"} => chunk = << >>
    /\ step \in {"read", "sleep", "reopen"} => held = << >>
    /\ step = "login" /\ program = "forwarder" => held = << >>
    /\ step = "reopen" => program = "shipper"
    /\ program = "shipper" => buffer = << >>
    /\ held = << >> \/ buffer = << >>
TypeInv == TypeOK /\ Shape

\* Concatenation.
LEMMA Concat ==
    ASSUME NEW S, NEW s \in Seq(S), NEW t \in Seq(S)
    PROVE  s \o t \in Seq(S) /\ ToSet(s \o t) = ToSet(s) \cup ToSet(t)
<1>1. /\ s \o t \in Seq(S) /\ Len(s) \in Nat /\ Len(t) \in Nat
      /\ DOMAIN s = 1..Len(s) /\ DOMAIN t = 1..Len(t) /\ DOMAIN (s \o t) = 1..(Len(s) + Len(t))
      /\ \A i \in 1..Len(s) : (s \o t)[i] = s[i]
      /\ \A i \in 1..Len(t) : (s \o t)[Len(s) + i] = t[i]
  OBVIOUS
<1>2. ASSUME NEW i \in DOMAIN (s \o t) PROVE (s \o t)[i] \in ToSet(s) \cup ToSet(t)
  <2>1. CASE i <= Len(s)
    BY <1>1, <2>1 DEF ToSet
  <2>2. CASE i > Len(s)
    <3>1. i - Len(s) \in 1..Len(t) /\ i = Len(s) + (i - Len(s))
      BY <1>1, <2>2
    <3> QED
      BY <1>1, <3>1 DEF ToSet
  <2> QED
    BY <1>1, <2>1, <2>2
<1>3. ASSUME NEW i \in DOMAIN s PROVE s[i] \in ToSet(s \o t)
  BY <1>1 DEF ToSet
<1>4. ASSUME NEW i \in DOMAIN t PROVE t[i] \in ToSet(s \o t)
  <2>1. Len(s) + i \in DOMAIN (s \o t) /\ (s \o t)[Len(s) + i] = t[i]
    BY <1>1
  <2> QED
    BY <2>1 DEF ToSet
<1> QED
  BY <1>1, <1>2, <1>3, <1>4 DEF ToSet

\* Nothing is in the empty sequence.
LEMMA NoPieces == ToSet(<< >>) = {} /\ DOMAIN << >> = {}
<1>1. DOMAIN << >> = {}
  OBVIOUS
<1> QED
  BY <1>1 DEF ToSet

\* The rest of a sequence.
LEMMA Rest ==
    ASSUME NEW S, NEW s \in Seq(S), NEW n \in Nat
    PROVE  LET u == SubSeq(s, n + 1, Len(s)) IN
           /\ u \in Seq(S) /\ Len(u) = (IF n < Len(s) THEN Len(s) - n ELSE 0)
           /\ \A i \in 1..Len(u) : n + i \in DOMAIN s /\ u[i] = s[n + i]
           /\ \A x : x \in ToSet(u) <=> \E i \in DOMAIN s : i > n /\ s[i] = x
<1> DEFINE u == SubSeq(s, n + 1, Len(s))
<1>1. /\ u \in Seq(S) /\ DOMAIN u = 1..Len(u) /\ DOMAIN s = 1..Len(s)
      /\ \A i \in 1..Len(u) : n + i \in DOMAIN s /\ u[i] = s[n + i]
  OBVIOUS
<1>5. Len(s) \in Nat /\ Len(u) = (IF n < Len(s) THEN Len(s) - n ELSE 0)
  OBVIOUS
<1> HIDE DEF u
<1>2. ASSUME NEW i \in 1..Len(s), i > n PROVE s[i] \in ToSet(u)
  <2>1. i \in Nat /\ i <= Len(s)
    BY <1>5
  <2>2. Len(u) = Len(s) - n
    BY <1>5, <1>2, <2>1
  <2>3. i - n \in 1..(Len(s) - n) /\ n + (i - n) = i
    BY <1>5, <1>2, <2>1
  <2>4. i - n \in 1..Len(u)
    BY <2>2, <2>3
  <2>5. u[i - n] = s[n + (i - n)]
    BY <1>1, <2>4
  <2> QED
    BY <1>1, <2>3, <2>4, <2>5 DEF ToSet
<1>3. ASSUME NEW i \in DOMAIN u PROVE \E j \in DOMAIN s : j > n /\ s[j] = u[i]
  BY <1>1
<1>4. \A x : x \in ToSet(u) <=> \E i \in DOMAIN s : i > n /\ s[i] = x
  BY <1>1, <1>2, <1>3 DEF ToSet
<1> QED
  BY <1>1, <1>5, <1>4 DEF u

\* A file is a sequence of pieces.
LEMMA FileRows ==
    ASSUME TypeInv, NEW f \in 1..MaxFiles
    PROVE  files[f] \in Seq(Piece) /\ Len(files[f]) \in Nat /\ DOMAIN files[f] = 1..Len(files[f])
<1>1. files \in [1..MaxFiles -> Seq(Piece)]
  BY DEF TypeInv, TypeOK
<1> DEFINE P == Seq(Piece)
<1>2. files[f] \in P
  <2> HIDE DEF P
  <2> QED
    BY <1>1 DEF P
<1> QED
  BY <1>2

\* The start of a sequence.
LEMMA Start ==
    ASSUME NEW S, NEW s \in Seq(S), NEW n \in 0..Len(s)
    PROVE  LET t == SubSeq(s, 1, n) IN
           t \in Seq(S) /\ Len(t) = n /\ \A i \in 1..n : i \in DOMAIN s /\ t[i] = s[i]
  OBVIOUS

\* Start and rest make the whole.
LEMMA Split ==
    ASSUME NEW S, NEW s \in Seq(S), NEW n \in 0..Len(s)
    PROVE  ToSet(s) = ToSet(SubSeq(s, 1, n)) \cup ToSet(SubSeq(s, n + 1, Len(s)))
<1> DEFINE t == SubSeq(s, 1, n)
           u == SubSeq(s, n + 1, Len(s))
<1>1. t \in Seq(S) /\ Len(t) = n /\ DOMAIN t = 1..n /\ \A i \in 1..n : i \in DOMAIN s /\ t[i] = s[i]
  BY Start
<1>2. n \in Nat /\ DOMAIN s = 1..Len(s) /\ Len(s) \in Nat
  OBVIOUS
<1>3. \A x : x \in ToSet(u) <=> \E i \in DOMAIN s : i > n /\ s[i] = x
  BY <1>2, Rest
<1> HIDE DEF t, u
<1>4. \A x : x \in ToSet(t) <=> \E i \in 1..n : s[i] = x
  BY <1>1 DEF ToSet
<1>5. \A i \in DOMAIN s : i \in 1..n \/ i > n
  BY <1>2
<1>6. \A i \in 1..n : i \in DOMAIN s
  BY <1>1
<1>7. \A x : x \in ToSet(s) <=> \E i \in DOMAIN s : s[i] = x
  BY DEF ToSet
<1>8. \A x : x \in ToSet(s) <=> x \in ToSet(t) \/ x \in ToSet(u)
  BY <1>3, <1>4, <1>5, <1>6, <1>7
<1> QED
  BY <1>8 DEF t, u

-----------------------------------------------------------------------------
(***************************************************************************)
(* Types.                                                                  *)
(***************************************************************************)
\* The reader starts with nothing.
LEMMA InitType == Init => TypeInv
<1> SUFFICES ASSUME Init PROVE TypeInv
  OBVIOUS
<1>1. TypeOK
  <2>1. files \in [1..MaxFiles -> Seq(Piece)]
    <3> DEFINE P == Seq(Piece)
    <3>1. << >> \in P /\ files = [f \in 1..MaxFiles |-> << >>]
      BY DEF Init
    <3> HIDE DEF P
    <3>2. files \in [1..MaxFiles -> P]
      BY <3>1
    <3> QED
      BY <3>2 DEF P
  <2>2. program \in {"shipper", "forwarder"} /\ whole \in BOOLEAN
    BY ShippingAssumption DEF Init
  <2>3. path \in 0..MaxFiles /\ writer \in 0..MaxFiles /\ lines \in 0..MaxLines
    BY ShippingAssumption DEF Init
  <2>4. half \in BOOLEAN /\ step \in Steps /\ fd \in 0..MaxFiles /\ pos \in Nat
    <3>1. step \in {"start", "wait"} /\ fd = 0 /\ pos = 0
      BY DEF Init
    <3>2. half \in BOOLEAN
      BY DEF Init
    <3> QED
      BY <3>1, <3>2, ShippingAssumption DEF Steps
  <2>5. chunk \in Seq(Piece) /\ buffer \in Seq(Piece) /\ held \in Seq(Piece) /\ stored \in Seq(Piece)
    BY DEF Init
  <2> QED
    BY <2>1, <2>2, <2>3, <2>4, <2>5 DEF TypeOK
<1>2. Shape
  BY ShippingAssumption DEF Init, Shape
<1> QED
  BY <1>1, <1>2 DEF TypeInv

\* What the daemon adds to its file.
LEMMA WriteRows ==
    ASSUME TypeInv, NEW part \in {"line", "head", "rest"}, Write(part)
    PROVE  LET piece == [line |-> IF half THEN lines ELSE lines + 1, part |-> part] IN
           /\ piece \in Piece /\ writer \in 1..MaxFiles
           /\ files' \in [1..MaxFiles -> Seq(Piece)]
           /\ Len(files'[writer]) = Len(files[writer]) + 1
           /\ files'[writer] \in Seq(Piece)
           /\ \A i \in DOMAIN files[writer] : files'[writer][i] = files[writer][i]
           /\ files'[writer][Len(files[writer]) + 1] = piece
           /\ \A f \in 1..MaxFiles : f # writer => files'[f] = files[f]
           /\ lines' = piece.line /\ lines' \in 1..MaxLines /\ half' = (part = "head")
           /\ half <=> part = "rest"
<1>1. /\ writer \in 1..MaxFiles /\ lines \in 0..MaxLines /\ half \in BOOLEAN
      /\ (part = "rest") <=> half
      /\ half \/ lines < MaxLines
      /\ half => lines > 0
      /\ MaxLines \in Nat
      /\ files \in [1..MaxFiles -> Seq(Piece)]
  BY ShippingAssumption DEF TypeInv, TypeOK, Shape, Write
<1> DEFINE piece == [line |-> IF half THEN lines ELSE lines + 1, part |-> part]
<1>2. piece.line \in 1..MaxLines /\ piece \in Piece
  BY <1>1 DEF Piece
<1>3. files[writer] \in Seq(Piece)
  BY <1>1, FileRows
<1>4. /\ lines' = piece.line /\ half' = (part = "head")
      /\ files' = [files EXCEPT ![writer] = Append(@, piece)]
  BY DEF Write
<1> HIDE DEF piece
<1> DEFINE P == Seq(Piece)
           s == Append(files[writer], piece)
<1>5. s \in P /\ files \in [1..MaxFiles -> P] /\ files' = [files EXCEPT ![writer] = s]
  BY <1>1, <1>2, <1>3, <1>4
<1>6. /\ Len(s) = Len(files[writer]) + 1 /\ s[Len(files[writer]) + 1] = piece
      /\ \A i \in DOMAIN files[writer] : s[i] = files[writer][i]
  BY <1>3
<1> HIDE DEF P, s
<1>7. /\ files' \in [1..MaxFiles -> P] /\ files'[writer] = s
      /\ \A f \in 1..MaxFiles : f # writer => files'[f] = files[f]
  BY <1>1, <1>5
<1> QED
  BY <1>1, <1>2, <1>4, <1>5, <1>6, <1>7 DEF P, piece

\* What a truncation takes away.
LEMMA TruncateRows ==
    ASSUME TypeInv, Truncate
    PROVE  /\ path \in 1..MaxFiles /\ writer = path
           /\ files' \in [1..MaxFiles -> Seq(Piece)] /\ files'[path] = << >>
           /\ \A f \in 1..MaxFiles : f # path => files'[f] = files[f]
<1>1. /\ path \in 1..MaxFiles /\ writer = path /\ files \in [1..MaxFiles -> Seq(Piece)]
      /\ files' = [files EXCEPT ![path] = << >>]
  BY ShippingAssumption DEF TypeInv, TypeOK, Truncate
<1> DEFINE P == Seq(Piece)
<1>2. << >> \in P /\ files \in [1..MaxFiles -> P]
  BY <1>1
<1> HIDE DEF P
<1>3. /\ files' \in [1..MaxFiles -> P] /\ files'[path] = << >>
      /\ \A f \in 1..MaxFiles : f # path => files'[f] = files[f]
  BY <1>1, <1>2
<1> QED
  BY <1>1, <1>3 DEF P

\* What the reader takes from its file: the next pieces, which it puts behind the others of
\* its chunk.
New == SubSeq(Unread(fd, pos), 1, pos' - pos)
LEMMA FillRows ==
    ASSUME TypeInv, Fill
    PROVE  /\ fd \in 1..MaxFiles /\ step = "read"
           /\ pos \in Nat /\ pos' \in Nat /\ pos < pos' /\ pos' <= Len(files[fd])
           /\ New \in Seq(Piece) /\ chunk' = chunk \o New /\ chunk' \in Seq(Piece)
           /\ ToSet(chunk') = ToSet(chunk) \cup ToSet(New)
           /\ Len(New) = pos' - pos /\ \A i \in 1..Len(New) : New[i] = files[fd][pos + i]
           /\ UNCHANGED <<program, whole, says, log, step, fd, inode, buffer, held, token,
                          stored, trouble, late, owed>>
<1>1. /\ fd \in 1..MaxFiles /\ pos \in Nat /\ step = "read" /\ chunk \in Seq(Piece)
      /\ UNCHANGED <<program, whole, says, log, step, fd, inode, buffer, held, token,
                     stored, trouble, late, owed>>
  BY ShippingAssumption DEF TypeInv, TypeOK, Shape, Fill
<1> DEFINE s == files[fd]
           u == SubSeq(s, pos + 1, Len(s))
<1>2. s \in Seq(Piece) /\ Len(s) \in Nat /\ u = Unread(fd, pos)
  BY <1>1, FileRows DEF Unread
<1> PICK n \in 1..Len(u) : chunk' = chunk \o SubSeq(u, 1, n) /\ pos' = pos + n
  BY <1>2 DEF Fill
<1> HIDE DEF s
<1>3. /\ u \in Seq(Piece) /\ Len(u) = (IF pos < Len(s) THEN Len(s) - pos ELSE 0)
      /\ \A i \in 1..Len(u) : pos + i \in DOMAIN s /\ u[i] = s[pos + i]
  BY <1>1, <1>2, Rest
<1> DEFINE t == SubSeq(u, 1, n)
<1> HIDE DEF u
<1>4. Len(u) \in Nat /\ n \in 0..Len(u) /\ n > 0 /\ pos < Len(s) /\ pos + n <= Len(s)
  BY <1>1, <1>2, <1>3
<1>5. t \in Seq(Piece) /\ Len(t) = n /\ \A i \in 1..n : t[i] = u[i]
  BY <1>3, <1>4, Start
<1>6. pos' - pos = n /\ New = t
  <2>1. pos' - pos = n
    BY <1>1, <1>4
  <2> QED
    BY <1>2, <2>1 DEF New
<1> HIDE DEF t
<1>7. chunk \o t \in Seq(Piece) /\ ToSet(chunk \o t) = ToSet(chunk) \cup ToSet(t)
  BY <1>1, <1>5, Concat
<1>8. \A i \in 1..n : t[i] = s[pos + i]
  BY <1>3, <1>4, <1>5
<1>9. chunk' = chunk \o t
  BY DEF t
<1>10. pos' \in Nat /\ pos < pos' /\ pos' <= Len(s) /\ Len(New) = pos' - pos
  BY <1>1, <1>4, <1>5, <1>6
<1>11. \A i \in 1..Len(New) : New[i] = s[pos + i]
  BY <1>5, <1>6, <1>8
<1> QED
  BY <1>1, <1>5, <1>6, <1>7, <1>9, <1>10, <1>11 DEF s

\* The line it takes from the chunk, which it puts with what it holds, sends, or drops.
Line == SubSeq(chunk, 1, Len(chunk) - Len(chunk'))
Got == (IF program = "shipper" THEN << >> ELSE buffer) \o Line
LEMMA ReadRows ==
    ASSUME TypeInv, Read
    PROVE  /\ fd \in 1..MaxFiles /\ held = << >> /\ step = "read"
           /\ \E n \in 0..Len(chunk) :
                 Line = SubSeq(chunk, 1, n) /\ chunk' = SubSeq(chunk, n + 1, Len(chunk))
           /\ Line \in Seq(Piece) /\ chunk' \in Seq(Piece)
           /\ ToSet(chunk) = ToSet(Line) \cup ToSet(chunk')
           /\ Got \in Seq(Piece) /\ ToSet(Got) = ToSet(buffer) \cup ToSet(Line)
           /\ program = "shipper" => Got = Line
           /\ \/ step' = "read" /\ buffer' = << >> /\ held' = << >> /\ owed' = owed \ ToSet(Got)
              \/ step' = "post" /\ buffer' = << >> /\ held' = Got /\ owed' = owed
              \/ /\ program = "forwarder" /\ step' = "read" /\ buffer' = Got /\ held' = << >>
                 /\ owed' = owed
           /\ UNCHANGED <<program, whole, says, log, fd, inode, pos, token, stored, trouble, late>>
<1>1. /\ fd \in 1..MaxFiles /\ held = << >> /\ step = "read"
      /\ chunk \in Seq(Piece) /\ buffer \in Seq(Piece)
      /\ program = "shipper" => buffer = << >>
      /\ program \in {"shipper", "forwarder"}
      /\ UNCHANGED <<program, whole, says, log, fd, inode, pos, token, stored, trouble, late>>
  BY ShippingAssumption DEF TypeInv, TypeOK, Shape, Read
<1> PICK n \in DOMAIN chunk :
       LET l == SubSeq(chunk, 1, n)
           pieces == buffer \o l
       IN /\ chunk' = SubSeq(chunk, n + 1, Len(chunk))
          /\ IF program = "shipper" THEN Take(l) /\ UNCHANGED buffer
             ELSE /\ buffer' = Kept(pieces)
                  /\ IF Parses(pieces) THEN Take(pieces) ELSE UNCHANGED <<step, held, owed>>
  BY DEF Read
<1> DEFINE l == SubSeq(chunk, 1, n)
<1>2. n \in 0..Len(chunk) /\ n \in Nat /\ Len(chunk) \in Nat
  BY <1>1
<1>3. l \in Seq(Piece) /\ chunk' \in Seq(Piece) /\ Line = l
  <2>1. l \in Seq(Piece)
    BY <1>1, <1>2, Start
  <2>2. chunk' \in Seq(Piece) /\ Len(chunk') = Len(chunk) - n
    <3>1. LET u == SubSeq(chunk, n + 1, Len(chunk)) IN
             u \in Seq(Piece) /\ Len(u) = (IF n < Len(chunk) THEN Len(chunk) - n ELSE 0)
      BY <1>1, <1>2, Rest
    <3> QED
      BY <1>2, <3>1
  <2>3. Len(chunk) - Len(chunk') = n
    BY <1>2, <2>2
  <2> QED
    BY <2>1, <2>2, <2>3 DEF Line
<1>4. ToSet(chunk) = ToSet(Line) \cup ToSet(chunk')
  BY <1>1, <1>2, <1>3, Split
<1>5. \E m \in 0..Len(chunk) :
         Line = SubSeq(chunk, 1, m) /\ chunk' = SubSeq(chunk, m + 1, Len(chunk))
  BY <1>2, <1>3
<1>6. CASE program = "shipper"
  <2>1. Take(Line) /\ UNCHANGED buffer
    BY <1>3, <1>6
  <2> HIDE DEF l
  <2>2. Got = Line
    <3>1. Got = << >> \o Line
      BY <1>6 DEF Got
    <3> QED
      BY <1>3, <3>1
  <2>3. ToSet(<< >>) = {}
    BY NoPieces
  <2>4. \/ step' = "read" /\ held' = << >> /\ owed' = owed \ ToSet(Line)
        \/ step' = "post" /\ held' = Line /\ owed' = owed
    BY <2>1 DEF Take
  <2> QED
    BY <1>1, <1>3, <1>4, <1>5, <1>6, <2>1, <2>2, <2>3, <2>4
<1>7. CASE program = "forwarder"
  <2>1. Got = buffer \o Line
    BY <1>7 DEF Got
  <2>2. /\ buffer' = Kept(Got)
        /\ IF Parses(Got) THEN Take(Got) ELSE UNCHANGED <<step, held, owed>>
    BY <1>3, <1>7, <2>1
  <2> HIDE DEF l
  <2>3. Got \in Seq(Piece) /\ ToSet(Got) = ToSet(buffer) \cup ToSet(Line)
    BY <1>1, <1>3, <2>1, Concat
  <2>4. CASE Parses(Got)
    <3>1. buffer' = << >> /\ Take(Got)
      BY <2>2, <2>4 DEF Kept
    <3>2. \/ step' = "read" /\ held' = << >> /\ owed' = owed \ ToSet(Got)
          \/ step' = "post" /\ held' = Got /\ owed' = owed
      BY <3>1 DEF Take
    <3> QED
      BY <1>1, <1>3, <1>4, <1>5, <1>7, <2>3, <3>1, <3>2
  <2>5. CASE ~Parses(Got)
    <3>1. buffer' = Got /\ UNCHANGED <<step, held, owed>>
      BY <2>2, <2>5 DEF Kept
    <3> QED
      BY <1>1, <1>3, <1>4, <1>5, <1>7, <2>3, <3>1
  <2> QED
    BY <2>4, <2>5
<1> QED
  BY <1>1, <1>6, <1>7

\* The daemon and logrotate keep the types.
LEMMA LogTypes ==
    ASSUME TypeInv,
           \/ \E part \in {"line", "head", "rest"} : Write(part)
           \/ Rename \/ Create \/ Reopened \/ Truncate
    PROVE  TypeInv'
<1>1. /\ MaxFiles \in Nat /\ MaxLines \in Nat
      /\ program \in {"shipper", "forwarder"} /\ whole \in BOOLEAN /\ half \in BOOLEAN
      /\ files \in [1..MaxFiles -> Seq(Piece)]
      /\ path \in 0..MaxFiles /\ writer \in 0..MaxFiles /\ lines \in 0..MaxLines
      /\ step \in Steps /\ fd \in 0..MaxFiles /\ pos \in Nat /\ chunk \in Seq(Piece)
      /\ buffer \in Seq(Piece) /\ held \in Seq(Piece) /\ stored \in Seq(Piece)
  BY ShippingAssumption DEF TypeInv, TypeOK
<1>2. UNCHANGED <<program, whole, step, fd, inode, pos, chunk, buffer, held, stored>>
  BY DEF Write, Rename, Create, Reopened, Truncate, reader
<1> DEFINE P == Seq(Piece)
<1>3. /\ files' \in [1..MaxFiles -> P]
      /\ path' \in 0..MaxFiles /\ writer' \in 0..MaxFiles /\ lines' \in 0..MaxLines
      /\ half' \in BOOLEAN
      /\ half' => lines' > 0
      /\ path' # 0 => path' \in {writer', writer' + 1}
      /\ path' = 0 => writer' < MaxFiles
      /\ fd <= writer' \/ fd = path'
  <2> HIDE DEF P
  <2>1. CASE \E part \in {"line", "head", "rest"} : Write(part)
    <3> PICK part \in {"line", "head", "rest"} : Write(part)
      BY <2>1
    <3>1. files' \in [1..MaxFiles -> P] /\ lines' \in 1..MaxLines /\ half' = (part = "head")
      BY WriteRows DEF P
    <3>2. UNCHANGED <<path, writer>>
      BY DEF Write
    <3>3. half' \in BOOLEAN
      BY <3>1
    <3> QED
      BY <1>1, <3>1, <3>2, <3>3 DEF TypeInv, Shape
  <2>2. CASE Rename
    <3>1. path' = 0 /\ path # 0 /\ path < MaxFiles /\ writer = path
          /\ UNCHANGED <<files, writer, lines, half>>
      BY <2>2 DEF Rename
    <3>2. files' \in [1..MaxFiles -> P]
      BY <1>1, <3>1 DEF P
    <3>3. /\ path' = 0 /\ writer' = writer /\ lines' = lines /\ half' = half
          /\ writer < MaxFiles /\ (half => lines > 0) /\ fd <= writer
      BY <1>1, <3>1 DEF TypeInv, Shape
    <3>4. 0 \in 0..MaxFiles
      BY ShippingAssumption
    <3> QED
      BY <1>1, <3>2, <3>3, <3>4
  <2>3. CASE Create
    <3>1. path = 0 /\ path' = writer + 1 /\ UNCHANGED <<files, writer, lines, half>>
      BY <2>3 DEF Create
    <3> QED
      BY <1>1, <3>1 DEF TypeInv, Shape, P
  <2>4. CASE Reopened
    <3>1. path \notin {0, writer} /\ writer' = path /\ UNCHANGED <<files, path, lines, half>>
      BY <2>4 DEF Reopened
    <3>2. files' \in [1..MaxFiles -> P]
      BY <1>1, <3>1 DEF P
    <3>3. /\ path' = path /\ path # 0 /\ writer' = path /\ lines' = lines /\ half' = half
          /\ (half => lines > 0) /\ fd <= path
      BY <1>1, <3>1 DEF TypeInv, Shape
    <3> QED
      BY <1>1, <3>2, <3>3
  <2>5. CASE Truncate
    <3>1. files' \in [1..MaxFiles -> P] /\ UNCHANGED <<path, writer, lines, half>>
      BY <2>5, TruncateRows DEF Truncate, P
    <3> QED
      BY <1>1, <3>1 DEF TypeInv, Shape
  <2> QED
    BY <2>1, <2>2, <2>3, <2>4, <2>5
<1>4. TypeOK'
  BY <1>1, <1>2, <1>3 DEF TypeOK
<1>5. Shape'
  BY <1>2, <1>3 DEF TypeInv, Shape
<1> QED
  BY <1>4, <1>5 DEF TypeInv

\* The reader keeps them.
LEMMA ReaderTypes ==
    ASSUME TypeInv, Reader \/ Refused \/ Cut \/ LoginFails \/ TokenExpires
    PROVE  TypeInv'
<1>1. /\ MaxFiles \in Nat
      /\ path \in 0..MaxFiles /\ writer \in 0..MaxFiles
      /\ step \in Steps /\ fd \in 0..MaxFiles /\ pos \in Nat /\ chunk \in Seq(Piece)
      /\ buffer \in Seq(Piece) /\ held \in Seq(Piece) /\ stored \in Seq(Piece)
      /\ program \in {"shipper", "forwarder"}
  BY ShippingAssumption DEF TypeInv, TypeOK
<1>2. UNCHANGED <<program, whole, files, path, writer, lines, half>>
  BY DEF Reader, Wait, Open, Fill, Read, EndOfFile, Look, Reopen, Accepted, Unauthorized, Login, Refused,
     Cut, LoginFails, TokenExpires, log
<1>3. << >> \in Seq(Piece) /\ stored \o held \in Seq(Piece)
  BY <1>1, Concat
<1>4. /\ step' \in Steps /\ fd' \in 0..MaxFiles /\ pos' \in Nat
      /\ chunk' \in Seq(Piece)
      /\ buffer' \in Seq(Piece) /\ held' \in Seq(Piece) /\ stored' \in Seq(Piece)
      /\ fd' <= writer \/ fd' = path
      /\ step' \in {"start", "wait", "open"} =>
            fd' = 0 /\ stored' = << >> /\ held' = << >> /\ buffer' = << >> /\ chunk' = << >>
      /\ step' \notin {"start", "wait", "open", "dead"} => fd' # 0 /\ inode' = fd'
      /\ step' \in {"sleep", "reopen"} => chunk' = << >>
      /\ step' \in {"read", "sleep", "reopen"} => held' = << >>
      /\ step' = "login" /\ program = "forwarder" => held' = << >>
      /\ step' = "reopen" => program = "shipper"
      /\ program = "shipper" => buffer' = << >>
      /\ held' = << >> \/ buffer' = << >>
  <2>1. CASE Open
    <3>1. CASE path = 0
      BY <1>1, <2>1, <3>1 DEF Open, TypeInv, Shape, Steps
    <3>2. CASE path # 0
      <4>1. Len(files[path]) \in Nat
        BY <1>1, <3>2, FileRows
      <4> QED
        BY <1>1, <2>1, <3>2, <4>1 DEF Open, TypeInv, Shape, Steps
    <3> QED
      BY <3>1, <3>2
  <2>2. CASE Read
    <3>1. UNCHANGED <<fd, inode, pos, stored>>
      BY <2>2, ReadRows
    <3>2. /\ chunk' \in Seq(Piece) /\ Got \in Seq(Piece) /\ step = "read" /\ fd \in 1..MaxFiles
          /\ \/ step' = "read" /\ buffer' = << >> /\ held' = << >>
             \/ step' = "post" /\ buffer' = << >> /\ held' = Got
             \/ /\ program = "forwarder" /\ step' = "read" /\ buffer' = Got /\ held' = << >>
      BY <2>2, ReadRows
    <3> QED
      BY <1>1, <1>3, <3>1, <3>2 DEF TypeInv, Shape, Steps
  <2>11. CASE Fill
    <3>1. /\ UNCHANGED <<step, fd, inode, buffer, held, stored>>
          /\ step = "read" /\ pos' \in Nat /\ chunk' \in Seq(Piece)
      BY <2>11, FillRows
    <3> QED
      BY <1>1, <3>1 DEF TypeInv, Shape, Steps
  <2>12. CASE Wait
    BY <1>1, <2>12 DEF Wait, TypeInv, Shape, Steps
  <2>3. CASE EndOfFile \/ Look
    BY <1>1, <2>3 DEF EndOfFile, Look, TypeInv, Shape, Steps
  <2>4. CASE Reopen
    BY <1>1, <2>4 DEF Reopen, NewInode, TypeInv, Shape, Steps
  <2>5. CASE Accepted
    BY <1>1, <1>3, <2>5 DEF Accepted, Posting, TypeInv, Shape, Steps
  <2>6. CASE Refused
    BY <1>1, <1>3, <2>6 DEF Refused, Posting, TypeInv, Shape, Steps
  <2>7. CASE Cut
    BY <1>1, <1>3, <2>7 DEF Cut, Posting, TypeInv, Shape, Steps
  <2>8. CASE Unauthorized
    BY <1>1, <1>3, <2>8 DEF Unauthorized, SentAgain, Posting, TypeInv, Shape, Steps
  <2>9. CASE Login
    BY <1>1, <2>9 DEF Login, TypeInv, Shape, Steps
  <2>10. CASE LoginFails \/ TokenExpires
    BY <1>1, <2>10 DEF LoginFails, TokenExpires, TypeInv, Shape, Steps
  <2> QED
    BY <2>1, <2>2, <2>3, <2>4, <2>5, <2>6, <2>7, <2>8, <2>9, <2>10, <2>11, <2>12 DEF Reader
<1>5. TypeOK'
  <2>1. TypeOK
    BY DEF TypeInv
  <2> QED
    BY <1>2, <1>4, <2>1 DEF TypeOK
<1>6. Shape'
  BY <1>2, <1>4 DEF TypeInv, Shape
<1> QED
  BY <1>5, <1>6 DEF TypeInv

\* Every step keeps them.
LEMMA TypeStep == TypeInv /\ [Next]_vars => TypeInv'
<1> SUFFICES ASSUME TypeInv, [Next]_vars PROVE TypeInv'
  OBVIOUS
<1>1. CASE UNCHANGED vars
  BY <1>1 DEF vars, log, reader, TypeInv, TypeOK, Shape
<1>2. CASE Next
  BY <1>2, LogTypes, ReaderTypes DEF Next
<1> QED
  BY <1>1, <1>2

-----------------------------------------------------------------------------
(***************************************************************************)
(* The order.  The log is written in order, file after file; the reader    *)
(* has taken nothing that is not older than all that lies ahead of it.     *)
(***************************************************************************)
Ordered(s) == \A i, j \in DOMAIN s : i < j => Before(s[i], s[j])
Done == ToSet(stored) \cup ToSet(held) \cup ToSet(buffer)
Taken == Done \cup ToSet(chunk)

\* A piece that is not newer than the last one written, of line l, of which h says that its
\* second piece is lacking.
Within(p, l, h) == p.line <= l /\ (h /\ p.line = l => p.part = "head")
FilesOrdered ==
    /\ \A f \in 1..MaxFiles : Ordered(files[f])
    /\ \A f \in 1..MaxFiles : f > writer => files[f] = << >>
    /\ \A f, g \in 1..MaxFiles : f < g =>
          \A i \in DOMAIN files[f], j \in DOMAIN files[g] : Before(files[f][i], files[g][j])
    /\ \A f \in 1..MaxFiles : \A i \in DOMAIN files[f] : Within(files[f][i], lines, half)
LogInv == FilesOrdered /\ \A p \in Taken : Within(p, lines, half)

\* What lies ahead of the reader: later files, what follows its position, all of a file
\* that has shrunk below it or that it is about to read again.
Clear(f, i) ==
    \/ f > fd
    \/ f = fd /\ (i > pos \/ Len(files[f]) < pos \/ (step = "reopen" /\ path = fd))
AllFresh ==
    \A f \in 1..MaxFiles : \A i \in DOMAIN files[f] :
       Clear(f, i) => \A p \in Taken : Before(p, files[f][i])
QueueInv ==
    /\ Ordered(held) /\ Ordered(buffer) /\ Ordered(chunk)
    /\ \A p \in ToSet(stored), q \in ToSet(held) \cup ToSet(buffer) : Before(p, q)
    /\ \A p \in Done, q \in ToSet(chunk) : Before(p, q)
OrderInv == Ordered(stored) /\ (step # "dead" => QueueInv /\ AllFresh)

\* The order of pieces is transitive.
LEMMA BeforeTransitive ==
    ASSUME NEW p \in Piece, NEW q \in Piece, NEW r \in Piece, Before(p, q), Before(q, r)
    PROVE  Before(p, r)
<1>1. p.line \in Nat /\ q.line \in Nat /\ r.line \in Nat
  BY ShippingAssumption DEF Piece
<1> QED
  BY <1>1 DEF Before

\* Two ordered sequences, the one before the other, make an ordered one.
LEMMA ConcatOrdered ==
    ASSUME NEW s \in Seq(Piece), NEW t \in Seq(Piece), Ordered(s), Ordered(t),
           \A p \in ToSet(s), q \in ToSet(t) : Before(p, q)
    PROVE  Ordered(s \o t)
<1>1. /\ Len(s) \in Nat /\ Len(t) \in Nat
      /\ DOMAIN s = 1..Len(s) /\ DOMAIN t = 1..Len(t) /\ DOMAIN (s \o t) = 1..(Len(s) + Len(t))
      /\ \A i \in 1..Len(s) : (s \o t)[i] = s[i]
      /\ \A i \in 1..Len(t) : (s \o t)[Len(s) + i] = t[i]
  OBVIOUS
<1> DEFINE u == s \o t
<1>2. /\ DOMAIN u = 1..(Len(s) + Len(t))
      /\ \A i \in 1..Len(s) : u[i] = s[i] /\ u[i] \in ToSet(s)
      /\ \A i \in 1..Len(t) : u[Len(s) + i] = t[i] /\ u[Len(s) + i] \in ToSet(t)
  BY <1>1 DEF ToSet
<1> HIDE DEF u
<1>3. ASSUME NEW i \in 1..(Len(s) + Len(t)), ~(i <= Len(s))
      PROVE  i - Len(s) \in 1..Len(t) /\ i = Len(s) + (i - Len(s))
  BY <1>1, <1>3
<1>4. ASSUME NEW i \in DOMAIN u, NEW j \in DOMAIN u, i < j PROVE Before(u[i], u[j])
  <2>1. i \in 1..(Len(s) + Len(t)) /\ j \in 1..(Len(s) + Len(t))
    BY <1>2
  <2>2. CASE j <= Len(s)
    <3>1. i \in 1..Len(s) /\ j \in 1..Len(s)
      BY <1>1, <1>4, <2>1, <2>2
    <3> QED
      BY <1>1, <1>2, <1>4, <3>1 DEF Ordered
  <2>3. CASE i <= Len(s) /\ ~(j <= Len(s))
    <3>1. i \in 1..Len(s)
      BY <1>1, <2>1, <2>3
    <3>2. j - Len(s) \in 1..Len(t) /\ j = Len(s) + (j - Len(s))
      BY <1>3, <2>1, <2>3
    <3>3. u[i] \in ToSet(s) /\ u[j] \in ToSet(t)
      BY <1>2, <3>1, <3>2
    <3> QED
      BY <3>3
  <2>4. CASE ~(i <= Len(s)) /\ ~(j <= Len(s))
    <3> DEFINE a == i - Len(s)
               b == j - Len(s)
    <3>1. /\ a \in 1..Len(t) /\ i = Len(s) + a
          /\ b \in 1..Len(t) /\ j = Len(s) + b
      BY <1>3, <2>1, <2>4
    <3>2. a < b
      BY <1>1, <1>4, <2>1
    <3> HIDE DEF a, b
    <3>3. u[i] = t[a] /\ u[j] = t[b]
      BY <1>2, <3>1
    <3> QED
      BY <1>1, <3>1, <3>2, <3>3 DEF Ordered
  <2> QED
    BY <1>1, <1>4, <2>1, <2>2, <2>3, <2>4
<1> QED
  BY <1>4 DEF Ordered, u

\* What the daemon writes comes after all that was written.
LEMMA WrittenLast ==
    ASSUME TypeInv, NEW part \in {"line", "head", "rest"}, Write(part), NEW p \in Piece,
           Within(p, lines, half)
    PROVE  LET piece == [line |-> IF half THEN lines ELSE lines + 1, part |-> part]
           IN  Before(p, piece) /\ Within(p, lines', half')
<1> DEFINE piece == [line |-> IF half THEN lines ELSE lines + 1, part |-> part]
<1>1. /\ p.line \in Nat /\ lines \in Nat
      /\ piece.line = (IF half THEN lines ELSE lines + 1) /\ piece.part = part
  BY ShippingAssumption DEF Piece, TypeInv, TypeOK
<1>2. lines' = piece.line /\ half' = (part = "head") /\ (half <=> part = "rest")
  BY WriteRows
<1> HIDE DEF piece
<1>3. CASE half
  <2>1. part = "rest" /\ lines' = lines /\ ~half' /\ piece.line = lines /\ piece.part = "rest"
    BY <1>1, <1>2, <1>3
  <2> QED
    BY <1>1, <1>3, <2>1 DEF Within, Before
<1>4. CASE ~half
  <2>1. lines' = lines + 1 /\ piece.line = lines + 1
    BY <1>1, <1>2, <1>4
  <2> QED
    BY <1>1, <2>1 DEF Within, Before
<1> QED
  BY <1>3, <1>4 DEF piece

\* What a file holds after a write: what it held, and the new piece.
LEMMA WriteEntries ==
    ASSUME TypeInv, NEW part \in {"line", "head", "rest"}, Write(part)
    PROVE  LET piece == [line |-> IF half THEN lines ELSE lines + 1, part |-> part] IN
           \A f \in 1..MaxFiles :
              /\ DOMAIN files[f] = 1..Len(files[f]) /\ DOMAIN files'[f] = 1..Len(files'[f])
              /\ Len(files[f]) \in Nat /\ Len(files'[f]) \in Nat
              /\ Len(files[f]) <= Len(files'[f])
              /\ f # writer => files'[f] = files[f]
              /\ \A i \in DOMAIN files[f] : i \in DOMAIN files'[f] /\ files'[f][i] = files[f][i]
              /\ \A i \in DOMAIN files'[f] :
                    \/ i \in DOMAIN files[f] /\ files'[f][i] = files[f][i]
                    \/ /\ f = writer /\ i = Len(files[f]) + 1 /\ i \notin DOMAIN files[f]
                       /\ files'[f][i] = piece
<1> DEFINE piece == [line |-> IF half THEN lines ELSE lines + 1, part |-> part]
<1>1. /\ writer \in 1..MaxFiles
      /\ Len(files'[writer]) = Len(files[writer]) + 1
      /\ files'[writer] \in Seq(Piece)
      /\ \A i \in DOMAIN files[writer] : files'[writer][i] = files[writer][i]
      /\ files'[writer][Len(files[writer]) + 1] = piece
      /\ \A f \in 1..MaxFiles : f # writer => files'[f] = files[f]
  BY WriteRows
<1> HIDE DEF piece
<1>2. SUFFICES ASSUME NEW f \in 1..MaxFiles
      PROVE /\ DOMAIN files[f] = 1..Len(files[f]) /\ DOMAIN files'[f] = 1..Len(files'[f])
            /\ Len(files[f]) \in Nat /\ Len(files'[f]) \in Nat
            /\ Len(files[f]) <= Len(files'[f])
            /\ f # writer => files'[f] = files[f]
            /\ \A i \in DOMAIN files[f] : i \in DOMAIN files'[f] /\ files'[f][i] = files[f][i]
            /\ \A i \in DOMAIN files'[f] :
                  \/ i \in DOMAIN files[f] /\ files'[f][i] = files[f][i]
                  \/ /\ f = writer /\ i = Len(files[f]) + 1 /\ i \notin DOMAIN files[f]
                     /\ files'[f][i] = piece
  BY DEF piece
<1>3. Len(files[f]) \in Nat /\ DOMAIN files[f] = 1..Len(files[f])
  BY FileRows
<1>4. CASE f # writer
  BY <1>1, <1>3, <1>4
<1>5. CASE f = writer
  <2> DEFINE s == files[writer]
             t == files'[writer]
  <2>1. /\ t \in Seq(Piece) /\ Len(t) = Len(s) + 1
        /\ \A i \in DOMAIN s : t[i] = s[i]
        /\ t[Len(s) + 1] = piece
        /\ Len(s) \in Nat /\ DOMAIN s = 1..Len(s)
    BY <1>1, <1>3, <1>5
  <2> HIDE DEF s, t
  <2>2. /\ DOMAIN t = 1..Len(t) /\ Len(t) \in Nat /\ Len(s) <= Len(t)
    BY <2>1
  <2>3. \A i \in DOMAIN s : i \in DOMAIN t /\ t[i] = s[i]
    BY <2>1, <2>2
  <2>4. \A i \in DOMAIN t :
           \/ i \in DOMAIN s /\ t[i] = s[i]
           \/ i = Len(s) + 1 /\ i \notin DOMAIN s /\ t[i] = piece
    BY <2>1, <2>2
  <2> QED
    BY <1>5, <2>1, <2>2, <2>3, <2>4 DEF s, t
<1> QED
  BY <1>4, <1>5

\* The daemon and logrotate keep the log in order.
LEMMA FilesStep ==
    ASSUME TypeInv, FilesOrdered,
           \/ \E part \in {"line", "head", "rest"} : Write(part)
           \/ Rename \/ Create \/ Reopened \/ Truncate
    PROVE  FilesOrdered'
<1>1. /\ path \in Nat /\ writer \in Nat /\ MaxFiles \in Nat
      /\ path # 0 => path \in {writer, writer + 1}
  BY ShippingAssumption DEF TypeInv, TypeOK, Shape
<1>2. CASE \E part \in {"line", "head", "rest"} : Write(part)
  <2> PICK part \in {"line", "head", "rest"} : Write(part)
    BY <1>2
  <2> DEFINE piece == [line |-> IF half THEN lines ELSE lines + 1, part |-> part]
  <2>1. \A f \in 1..MaxFiles :
              /\ DOMAIN files[f] = 1..Len(files[f]) /\ DOMAIN files'[f] = 1..Len(files'[f])
              /\ Len(files[f]) \in Nat /\ Len(files'[f]) \in Nat
              /\ f # writer => files'[f] = files[f]
              /\ \A i \in DOMAIN files'[f] :
                    \/ i \in DOMAIN files[f] /\ files'[f][i] = files[f][i]
                    \/ /\ f = writer /\ i = Len(files[f]) + 1 /\ i \notin DOMAIN files[f]
                       /\ files'[f][i] = piece
    BY WriteEntries
  <2>2. /\ writer' = writer /\ writer \in 1..MaxFiles
        /\ piece.line <= lines' /\ (half' => piece.part = "head")
    <3>1. lines' = piece.line /\ lines' \in Nat /\ half' = (part = "head") /\ piece.part = part
      BY WriteRows, ShippingAssumption
    <3>2. writer' = writer /\ writer \in 1..MaxFiles
      BY WriteRows DEF Write
    <3> HIDE DEF piece
    <3>3. piece.line <= lines'
      BY <3>1
    <3>4. half' => piece.part = "head"
      BY <3>1
    <3> QED
      BY <3>2, <3>3, <3>4
  <2>3. ASSUME NEW f \in 1..MaxFiles, NEW i \in DOMAIN files[f]
        PROVE  Before(files[f][i], piece) /\ Within(files[f][i], lines', half')
    <3>1. files[f][i] \in Piece /\ Within(files[f][i], lines, half)
      <4>1. files[f] \in Seq(Piece)
        BY FileRows
      <4> QED
        BY <4>1 DEF FilesOrdered
    <3>2. \A p \in Piece : Within(p, lines, half) => Before(p, piece) /\ Within(p, lines', half')
      BY WrittenLast
    <3> HIDE DEF piece
    <3> QED
      BY <3>1, <3>2
  <2> HIDE DEF piece
  <2>4. ASSUME NEW f \in 1..MaxFiles PROVE Ordered(files'[f])
    <3>1. ASSUME NEW i \in DOMAIN files'[f], NEW j \in DOMAIN files'[f], i < j
          PROVE  Before(files'[f][i], files'[f][j])
      <4>1. Len(files[f]) \in Nat /\ DOMAIN files[f] = 1..Len(files[f]) /\ i \in Nat /\ j \in Nat
            /\ i >= 1 /\ j >= 1
        BY <2>1
      <4>2. CASE j \in DOMAIN files[f]
        <5>1. i \in DOMAIN files[f] /\ files'[f][i] = files[f][i] /\ files'[f][j] = files[f][j]
          BY <2>1, <3>1, <4>1, <4>2
        <5> QED
          BY <3>1, <4>2, <5>1 DEF FilesOrdered, Ordered
      <4>3. CASE j \notin DOMAIN files[f]
        <5>1. j = Len(files[f]) + 1 /\ files'[f][j] = piece
          BY <2>1, <4>3
        <5>2. i \in DOMAIN files[f] /\ files'[f][i] = files[f][i]
          BY <2>1, <3>1, <4>1, <5>1
        <5> QED
          BY <2>3, <5>1, <5>2
      <4> QED
        BY <4>2, <4>3
    <3> QED
      BY <3>1 DEF Ordered
  <2>5. ASSUME NEW f \in 1..MaxFiles, f > writer' PROVE files'[f] = << >>
    <3>1. f # writer /\ f > writer
      BY <1>1, <2>2, <2>5
    <3> QED
      BY <2>1, <3>1 DEF FilesOrdered
  <2>6. ASSUME NEW f \in 1..MaxFiles, NEW g \in 1..MaxFiles, f < g,
               NEW i \in DOMAIN files'[f], NEW j \in DOMAIN files'[g]
        PROVE  Before(files'[f][i], files'[g][j])
    <3>1. CASE i \notin DOMAIN files[f]
      <4>1. f = writer
        BY <2>1, <3>1
      <4>2. g # writer /\ g > writer'
        BY <2>2, <2>6, <4>1
      <4>3. files'[g] = << >>
        BY <2>5, <4>2
      <4> QED
        BY <4>3
    <3>2. CASE i \in DOMAIN files[f]
      <4>1. files'[f][i] = files[f][i]
        BY <2>1, <3>2
      <4>2. CASE j \in DOMAIN files[g]
        <5>1. files'[g][j] = files[g][j]
          BY <2>1, <4>2
        <5> QED
          BY <2>6, <3>2, <4>1, <4>2, <5>1 DEF FilesOrdered
      <4>3. CASE j \notin DOMAIN files[g]
        BY <2>1, <2>3, <3>2, <4>1, <4>3
      <4> QED
        BY <4>2, <4>3
    <3> QED
      BY <3>1, <3>2
  <2>7. ASSUME NEW f \in 1..MaxFiles, NEW i \in DOMAIN files'[f]
        PROVE Within(files'[f][i], lines', half')
    <3>1. CASE i \in DOMAIN files[f]
      <4>1. files'[f][i] = files[f][i]
        BY <2>1, <3>1
      <4> QED
        BY <2>3, <3>1, <4>1
    <3>2. CASE i \notin DOMAIN files[f]
      <4>1. files'[f][i] = piece
        BY <2>1, <3>2
      <4> QED
        BY <2>2, <4>1 DEF Within
    <3> QED
      BY <3>1, <3>2
  <2> QED
    BY <2>4, <2>5, <2>6, <2>7 DEF FilesOrdered
<1>3. CASE Rename \/ Create
  <2>1. UNCHANGED <<files, writer, lines, half>>
    BY <1>3 DEF Rename, Create
  <2> QED
    BY <2>1 DEF FilesOrdered, Ordered
<1>4. CASE Reopened
  <2>1. UNCHANGED <<files, lines, half>> /\ writer' = writer + 1
    BY <1>1, <1>4 DEF Reopened
  <2>2. \A f \in 1..MaxFiles : f > writer' => f > writer
    BY <1>1, <2>1
  <2> QED
    BY <2>1, <2>2 DEF FilesOrdered, Ordered
<1>5. CASE Truncate
  <2>1. /\ UNCHANGED <<writer, lines, half>> /\ files'[path] = << >>
        /\ \A f \in 1..MaxFiles : f # path => files'[f] = files[f]
    BY <1>5, TruncateRows DEF Truncate
  <2>2. \A f \in 1..MaxFiles : files'[f] = << >> \/ files'[f] = files[f]
    BY <2>1
  <2>3. \A i \in DOMAIN << >> : FALSE
    OBVIOUS
  <2> QED
    BY <2>1, <2>2, <2>3 DEF FilesOrdered, Ordered
<1> QED
  BY <1>2, <1>3, <1>4, <1>5

\* Nothing but another chunk adds to what the reader has taken.
LEMMA TakenSteps ==
    ASSUME TypeInv, [Next]_vars, ~Fill
    PROVE  Taken' \subseteq Taken
<1>1. stored \in Seq(Piece) /\ held \in Seq(Piece)
  BY DEF TypeInv, TypeOK
<1>2. ToSet(stored \o held) = ToSet(stored) \cup ToSet(held) /\ ToSet(<< >>) = {}
  BY <1>1, Concat, NoPieces
<1>3. CASE Read
  <2>1. /\ stored' = stored /\ held = << >> /\ ToSet(Got) = ToSet(buffer) \cup ToSet(Line)
        /\ ToSet(chunk) = ToSet(Line) \cup ToSet(chunk')
        /\ buffer' = << >> \/ buffer' = Got
        /\ held' = << >> \/ held' = Got
    BY <1>3, ReadRows
  <2> QED
    BY <1>2, <2>1 DEF Taken, Done
<1>4. CASE ~Read
  <2>1. /\ UNCHANGED <<buffer, chunk>>
        /\ stored' \in {stored, stored \o held}
        /\ held' = held \/ held' = << >>
    BY <1>4 DEF Next, Write, Rename, Create, Reopened, Truncate, Reader, Wait, Open, EndOfFile, Look,
       Reopen, Accepted, Unauthorized, SentAgain, Login, Refused, Cut, LoginFails, TokenExpires,
       vars, reader
  <2> QED
    BY <1>2, <2>1 DEF Taken, Done
<1> QED
  BY <1>3, <1>4

\* A chunk stands in the file between the old position and the new one.
LEMMA FillTaken ==
    ASSUME TypeInv, FilesOrdered, Fill
    PROVE  /\ New \in Seq(Piece) /\ Ordered(New)
           /\ \A x \in ToSet(New) : \E i \in DOMAIN files[fd] :
                 i > pos /\ i <= pos' /\ files[fd][i] = x
<1> DEFINE s == files[fd]
           t == New
<1>1. /\ fd \in 1..MaxFiles /\ pos \in Nat /\ pos' \in Nat /\ pos < pos' /\ pos' <= Len(s)
      /\ t \in Seq(Piece) /\ Len(t) = pos' - pos /\ \A i \in 1..Len(t) : t[i] = s[pos + i]
  BY FillRows
<1>2. Len(s) \in Nat /\ DOMAIN s = 1..Len(s) /\ Ordered(s)
  BY <1>1, FileRows DEF FilesOrdered
<1> HIDE DEF s, t
<1>3. DOMAIN t = 1..Len(t) /\ Len(t) \in Nat
  <2>1. t \in Seq(Piece)
    BY <1>1
  <2> QED
    BY ONLY <2>1
<1>4. ASSUME NEW i \in 1..Len(t)
      PROVE  /\ pos + i \in DOMAIN s /\ t[i] = s[pos + i] /\ pos + i > pos /\ pos + i <= pos'
  BY <1>1, <1>2, <1>3
<1>5. ASSUME NEW i \in 1..Len(t), NEW j \in 1..Len(t), i < j PROVE Before(t[i], t[j])
  <2>1. pos + i < pos + j
    BY <1>1, <1>3, <1>5
  <2> QED
    BY <1>2, <1>4, <2>1 DEF Ordered
<1>6. Ordered(t)
  BY <1>3, <1>5 DEF Ordered
<1>7. \A x \in ToSet(t) : \E i \in DOMAIN s : i > pos /\ i <= pos' /\ s[i] = x
  BY <1>3, <1>4 DEF ToSet
<1> QED
  BY <1>1, <1>6, <1>7 DEF s, t

\* No step takes what was never written, and the log stays in order.
LEMMA LogStep ==
    ASSUME TypeInv, LogInv, [Next]_vars
    PROVE  LogInv'
<1>1. CASE \/ \E part \in {"line", "head", "rest"} : Write(part)
           \/ Rename \/ Create \/ Reopened \/ Truncate
  <2>1. FilesOrdered'
    BY <1>1, FilesStep DEF LogInv
  <2>2. UNCHANGED <<stored, held, buffer, chunk>>
    BY <1>1 DEF Write, Rename, Create, Reopened, Truncate, reader
  <2>3. \A p \in Taken : Within(p, lines', half')
    <3>1. CASE \E part \in {"line", "head", "rest"} : Write(part)
      <4> PICK part \in {"line", "head", "rest"} : Write(part)
        BY <3>1
      <4>1. \A p \in Taken : p \in Piece
        BY DEF Taken, Done, TypeInv, TypeOK, ToSet
      <4> QED
        BY <4>1, WrittenLast DEF LogInv
    <3>2. CASE Rename \/ Create \/ Reopened \/ Truncate
      <4>1. UNCHANGED <<lines, half>>
        BY <3>2 DEF Rename, Create, Reopened, Truncate
      <4> QED
        BY <4>1 DEF LogInv
    <3> QED
      BY <1>1, <3>1, <3>2
  <2>4. Taken' = Taken
    BY <2>2 DEF Taken, Done
  <2> QED
    BY <2>1, <2>3, <2>4 DEF LogInv
<1>2. CASE UNCHANGED log
  <2>1. UNCHANGED <<files, path, writer, lines, half>>
    BY <1>2 DEF log
  <2>2. FilesOrdered'
    BY <2>1 DEF LogInv, FilesOrdered, Ordered
  <2>3. CASE Fill
    <3>1. \A x \in ToSet(New) : Within(x, lines, half)
      <4>1. fd \in 1..MaxFiles
        BY <2>3, FillRows
      <4>2. \A x \in ToSet(New) : \E i \in DOMAIN files[fd] : files[fd][i] = x
        BY <2>3, FillTaken DEF LogInv
      <4> QED
        BY <4>1, <4>2 DEF LogInv, FilesOrdered
    <3>2. Taken' = Taken \cup ToSet(New)
      <4>1. UNCHANGED <<stored, held, buffer>> /\ ToSet(chunk') = ToSet(chunk) \cup ToSet(New)
        BY <2>3, FillRows
      <4> QED
        BY <4>1 DEF Taken, Done
    <3> QED
      BY <2>1, <2>2, <3>1, <3>2 DEF LogInv
  <2>4. CASE ~Fill
    BY <2>1, <2>2, <2>4, TakenSteps DEF LogInv
  <2> QED
    BY <2>3, <2>4
<1>3. UNCHANGED log \/ (\E part \in {"line", "head", "rest"} : Write(part))
      \/ Rename \/ Create \/ Reopened \/ Truncate
  BY DEF Next, Reader, Wait, Open, Fill, Read, EndOfFile, Look, Reopen,
     Accepted, Unauthorized, Login, Refused, Cut, LoginFails, TokenExpires, vars
<1> QED
  BY <1>1, <1>2, <1>3

\* The daemon and logrotate put nothing before what the reader has taken.
LEMMA OrderLog ==
    ASSUME TypeInv, LogInv, OrderInv,
           \/ \E part \in {"line", "head", "rest"} : Write(part)
           \/ Rename \/ Create \/ Reopened \/ Truncate
    PROVE  OrderInv'
<1>1. UNCHANGED <<stored, held, buffer, chunk, step, fd, pos>>
  BY DEF Write, Rename, Create, Reopened, Truncate, reader
<1>2. Taken' = Taken /\ Done' = Done
  BY <1>1 DEF Taken, Done
<1>3. ASSUME step # "dead" PROVE AllFresh'
  <2>1. AllFresh
    BY <1>3 DEF OrderInv
  <2>2. /\ path \in Nat /\ writer \in Nat /\ MaxFiles \in Nat /\ fd \in Nat /\ pos \in Nat
        /\ fd <= writer \/ fd = path
        /\ step = "reopen" => fd # 0
    BY ShippingAssumption DEF TypeInv, TypeOK, Shape
  <2> SUFFICES ASSUME NEW f \in 1..MaxFiles, NEW i \in DOMAIN files'[f], Clear(f, i)',
                      NEW p \in Taken
               PROVE  Before(p, files'[f][i])
    BY <1>2 DEF AllFresh
  <2>3. CASE \E part \in {"line", "head", "rest"} : Write(part)
    <3> PICK part \in {"line", "head", "rest"} : Write(part)
      BY <2>3
    <3> DEFINE piece == [line |-> IF half THEN lines ELSE lines + 1, part |-> part]
    <3>1. /\ Len(files[f]) \in Nat /\ Len(files'[f]) \in Nat
          /\ Len(files[f]) <= Len(files'[f])
          /\ f # writer => files'[f] = files[f]
          /\ \/ i \in DOMAIN files[f] /\ files'[f][i] = files[f][i]
             \/ files'[f][i] = piece
      BY WriteEntries
    <3>2. path' = path
      BY DEF Write
    <3>3. CASE i \in DOMAIN files[f] /\ files'[f][i] = files[f][i]
      <4>1. Clear(f, i)
        BY <1>1, <2>2, <3>1, <3>2 DEF Clear
      <4> QED
        BY <2>1, <3>3, <4>1 DEF AllFresh
    <3>4. CASE files'[f][i] = piece
      <4>1. p \in Piece
        BY DEF Taken, Done, TypeInv, TypeOK, ToSet
      <4> QED
        BY <3>4, <4>1, WrittenLast DEF LogInv
    <3> QED
      BY <3>1, <3>3, <3>4
  <2>4. CASE Rename \/ Create \/ Reopened
    <3>1. /\ files' = files
          /\ step = "reopen" => (path' = fd => path = fd)
      <4>1. CASE Rename
        BY <2>2, <4>1 DEF Rename
      <4>2. CASE Create
        BY <2>2, <4>2 DEF Create
      <4>3. CASE Reopened
        BY <4>3 DEF Reopened
      <4> QED
        BY <2>4, <4>1, <4>2, <4>3
    <3>2. Clear(f, i)
      BY <1>1, <3>1 DEF Clear
    <3> QED
      BY <2>1, <3>1, <3>2 DEF AllFresh
  <2>5. CASE Truncate
    <3>1. files'[path] = << >> /\ path' = path /\ (f # path => files'[f] = files[f])
      BY <2>5, TruncateRows DEF Truncate
    <3>2. f # path
      BY <3>1, NoPieces
    <3>3. Clear(f, i)
      BY <1>1, <3>1, <3>2 DEF Clear
    <3> QED
      BY <2>1, <3>1, <3>2, <3>3 DEF AllFresh
  <2> QED
    BY <2>3, <2>4, <2>5
<1>4. Ordered(stored') /\ (step' # "dead" => QueueInv')
  BY <1>1, <1>2 DEF OrderInv, QueueInv, Ordered
<1> QED
  BY <1>1, <1>3, <1>4 DEF OrderInv

\* A chunk is what is next in the file, and leaves what follows.
LEMMA OrderFill ==
    ASSUME TypeInv, LogInv, OrderInv, Fill
    PROVE  OrderInv'
<1>1. /\ fd \in 1..MaxFiles /\ step = "read" /\ pos \in Nat /\ pos' \in Nat
      /\ pos < pos' /\ pos' <= Len(files[fd])
      /\ UNCHANGED <<files, fd, step, stored, held, buffer>>
      /\ chunk' = chunk \o New /\ ToSet(chunk') = ToSet(chunk) \cup ToSet(New)
  BY FillRows DEF log
<1>2. /\ New \in Seq(Piece) /\ Ordered(New)
      /\ \A x \in ToSet(New) : \E i \in DOMAIN files[fd] :
            i > pos /\ i <= pos' /\ files[fd][i] = x
  BY FillTaken DEF LogInv
<1>3. AllFresh /\ QueueInv /\ Ordered(stored) /\ chunk \in Seq(Piece)
  BY <1>1 DEF OrderInv, TypeInv, TypeOK
<1>4. ASSUME NEW x \in ToSet(New), NEW p \in Taken PROVE Before(p, x)
  <2> PICK i \in DOMAIN files[fd] : i > pos /\ i <= pos' /\ files[fd][i] = x
    BY <1>2
  <2>1. Clear(fd, i)
    BY DEF Clear
  <2> QED
    BY <1>1, <1>3, <2>1 DEF AllFresh
<1>5. Done' = Done /\ Taken = Done \cup ToSet(chunk) /\ Taken' = Taken \cup ToSet(New)
  BY <1>1 DEF Taken, Done
<1>6. QueueInv'
  <2>1. Ordered(chunk')
    <3>1. \A p \in ToSet(chunk), q \in ToSet(New) : Before(p, q)
      BY <1>4, <1>5
    <3> HIDE DEF New
    <3> QED
      BY <1>1, <1>2, <1>3, <3>1, ConcatOrdered DEF QueueInv
  <2>2. \A p \in Done, q \in ToSet(chunk') : Before(p, q)
    BY <1>1, <1>3, <1>4, <1>5 DEF QueueInv
  <2> QED
    BY <1>1, <1>3, <1>5, <2>1, <2>2 DEF QueueInv
<1>7. AllFresh'
  <2>1. Len(files[fd]) \in Nat /\ fd \in Nat /\ MaxFiles \in Nat /\ DOMAIN files[fd] = 1..Len(files[fd])
    BY <1>1, FileRows, ShippingAssumption DEF TypeInv, TypeOK
  <2> SUFFICES ASSUME NEW f \in 1..MaxFiles, NEW i \in DOMAIN files[f], Clear(f, i)',
                      NEW p \in Taken'
               PROVE  Before(p, files[f][i])
    BY <1>1 DEF AllFresh
  <2>2. f > fd \/ (f = fd /\ i > pos')
    BY <1>1, <2>1 DEF Clear
  <2>3. Clear(f, i)
    BY <1>1, <2>1, <2>2 DEF Clear
  <2>4. CASE p \in Taken
    BY <1>3, <2>3, <2>4 DEF AllFresh
  <2>5. CASE p \in ToSet(New)
    <3> PICK j \in DOMAIN files[fd] : j > pos /\ j <= pos' /\ files[fd][j] = p
      BY <1>2, <2>5
    <3>1. CASE f > fd
      BY <1>1, <2>1, <3>1 DEF LogInv, FilesOrdered
    <3>2. CASE f = fd /\ i > pos'
      BY <1>1, <2>1, <3>2 DEF LogInv, FilesOrdered, Ordered
    <3> QED
      BY <2>2, <3>1, <3>2
  <2> QED
    BY <1>5, <2>4, <2>5
<1> QED
  BY <1>1, <1>3, <1>6, <1>7 DEF OrderInv

\* Start and rest of an ordered sequence are ordered, the one before the other.
LEMMA SplitOrdered ==
    ASSUME NEW s \in Seq(Piece), NEW n \in 0..Len(s), Ordered(s)
    PROVE  LET t == SubSeq(s, 1, n)
               u == SubSeq(s, n + 1, Len(s))
           IN  Ordered(t) /\ Ordered(u) /\ \A p \in ToSet(t), q \in ToSet(u) : Before(p, q)
<1> DEFINE t == SubSeq(s, 1, n)
           u == SubSeq(s, n + 1, Len(s))
<1>1. t \in Seq(Piece) /\ Len(t) = n /\ DOMAIN t = 1..n /\ \A i \in 1..n : i \in DOMAIN s /\ t[i] = s[i]
  BY Start
<1>2. n \in Nat /\ DOMAIN s = 1..Len(s) /\ Len(s) \in Nat
  OBVIOUS
<1>3. /\ u \in Seq(Piece) /\ \A i \in 1..Len(u) : n + i \in DOMAIN s /\ u[i] = s[n + i]
      /\ \A x : x \in ToSet(u) <=> \E i \in DOMAIN s : i > n /\ s[i] = x
  BY <1>2, Rest
<1>4. DOMAIN u = 1..Len(u) /\ Len(u) \in Nat
  BY <1>3
<1> HIDE DEF t, u
<1>5. Ordered(t)
  BY <1>1 DEF Ordered
<1>6. Ordered(u)
  <2>1. ASSUME NEW i \in 1..Len(u), NEW j \in 1..Len(u), i < j PROVE n + i < n + j
    BY <1>2, <1>4, <2>1
  <2> QED
    BY <1>3, <1>4, <2>1 DEF Ordered
<1>7. ASSUME NEW p \in ToSet(t), NEW q \in ToSet(u) PROVE Before(p, q)
  <2>1. PICK i \in 1..n : i \in DOMAIN s /\ s[i] = p
    BY <1>1 DEF ToSet
  <2>2. PICK j \in DOMAIN s : j > n /\ s[j] = q
    BY <1>3
  <2>3. i < j
    BY <1>2, <2>1, <2>2
  <2> QED
    BY <2>1, <2>2, <2>3 DEF Ordered
<1> QED
  BY <1>5, <1>6, <1>7 DEF t, u

\* A line is what is next in the chunk, and leaves what follows.
LEMMA OrderRead ==
    ASSUME TypeInv, LogInv, OrderInv, Read
    PROVE  OrderInv'
<1>1. /\ fd \in 1..MaxFiles /\ step = "read" /\ step' # "dead" /\ step' # "reopen" /\ held = << >>
      /\ UNCHANGED <<files, fd, pos, stored>>
      /\ Got \in Seq(Piece) /\ ToSet(Got) = ToSet(buffer) \cup ToSet(Line)
      /\ program = "shipper" => Got = Line
      /\ held' = << >> \/ held' = Got
      /\ buffer' = << >> \/ buffer' = Got
      /\ ToSet(chunk) = ToSet(Line) \cup ToSet(chunk') /\ Line \in Seq(Piece)
  BY ReadRows DEF log
<1>2. AllFresh /\ QueueInv /\ Ordered(stored) /\ chunk \in Seq(Piece) /\ Ordered(chunk)
  BY <1>1 DEF OrderInv, QueueInv, TypeInv, TypeOK
<1>3. Ordered(Line) /\ Ordered(chunk') /\ \A p \in ToSet(Line), q \in ToSet(chunk') : Before(p, q)
  <2> PICK n \in 0..Len(chunk) :
         Line = SubSeq(chunk, 1, n) /\ chunk' = SubSeq(chunk, n + 1, Len(chunk))
    BY ReadRows
  <2> HIDE DEF Line
  <2> QED
    BY <1>2, SplitOrdered
<1>4. \A p \in Done, q \in ToSet(chunk) : Before(p, q)
  BY <1>2 DEF QueueInv
<1>5. Ordered(Got)
  <2>1. CASE program = "shipper"
    BY <1>1, <1>3, <2>1
  <2>2. CASE program # "shipper"
    <3>1. Got = buffer \o Line
      BY <2>2 DEF Got
    <3>2. buffer \in Seq(Piece) /\ Ordered(buffer)
      BY <1>2 DEF TypeInv, TypeOK, QueueInv
    <3>3. \A p \in ToSet(buffer), q \in ToSet(Line) : Before(p, q)
      BY <1>1, <1>4 DEF Done
    <3> HIDE DEF Line, Got
    <3> QED
      BY <1>1, <1>3, <3>1, <3>2, <3>3, ConcatOrdered
  <2> QED
    BY <2>1, <2>2
<1>6. ASSUME NEW p \in ToSet(stored), NEW q \in ToSet(Got) PROVE Before(p, q)
  <2>1. CASE q \in ToSet(buffer)
    BY <1>2, <2>1 DEF QueueInv
  <2>2. CASE q \in ToSet(Line)
    BY <1>1, <1>4, <2>2 DEF Done
  <2> QED
    BY <1>1, <2>1, <2>2
<1>7. Done' \subseteq ToSet(stored) \cup ToSet(Got) /\ Ordered(<< >>)
  BY <1>1, NoPieces DEF Done, Ordered
<1>8. ASSUME NEW p \in Done', NEW q \in ToSet(chunk') PROVE Before(p, q)
  BY <1>1, <1>3, <1>4, <1>7 DEF Done
<1>9. QueueInv'
  <2>1. ToSet(held') \cup ToSet(buffer') \subseteq ToSet(Got)
    BY <1>1, NoPieces
  <2>2. Ordered(held') /\ Ordered(buffer')
    BY <1>1, <1>5, <1>7
  <2> HIDE DEF Got, Line
  <2> QED
    BY <1>1, <1>3, <1>6, <1>8, <2>1, <2>2 DEF QueueInv
<1>10. AllFresh'
  <2>1. Taken' \subseteq Taken
    BY <1>1, <1>7 DEF Taken, Done
  <2> SUFFICES ASSUME NEW f \in 1..MaxFiles, NEW i \in DOMAIN files[f], Clear(f, i)',
                      NEW p \in Taken'
               PROVE  Before(p, files[f][i])
    BY <1>1 DEF AllFresh
  <2>2. Clear(f, i)
    BY <1>1 DEF Clear
  <2> QED
    BY <1>2, <2>1, <2>2 DEF AllFresh
<1> QED
  BY <1>1, <1>2, <1>9, <1>10 DEF OrderInv

\* Neither do the reader's other steps take anything, or go back to what was taken: a file is
\* read again from its start only when it has shrunk, or is another, later one.
LEMMA OrderReader ==
    ASSUME TypeInv, LogInv, OrderInv,
           \/ Wait \/ Open \/ EndOfFile \/ Look \/ Reopen \/ Accepted \/ Unauthorized \/ Login
           \/ Refused \/ Cut \/ LoginFails \/ TokenExpires
    PROVE  OrderInv'
<1>1. UNCHANGED <<files, path, writer, buffer, chunk>>
  BY DEF Wait, Open, EndOfFile, Look, Reopen, Accepted, Unauthorized, Login, Refused, Cut, LoginFails,
     TokenExpires, log
<1>2. /\ stored \in Seq(Piece) /\ held \in Seq(Piece) /\ buffer \in Seq(Piece)
      /\ held = << >> \/ buffer = << >>
      /\ path \in Nat /\ writer \in Nat /\ fd \in Nat /\ MaxFiles \in Nat /\ pos \in Nat
      /\ path # 0 => path \in {writer, writer + 1}
      /\ fd <= writer \/ fd = path
      /\ Ordered(stored)
  BY ShippingAssumption DEF TypeInv, TypeOK, Shape, OrderInv
<1>3. Taken' \subseteq Taken
  <2>1. ToSet(stored \o held) = ToSet(stored) \cup ToSet(held)
    BY <1>2, Concat
  <2>2. stored' \in {stored, stored \o held} /\ (held' = held \/ held' = << >>)
    BY DEF Wait, Open, EndOfFile, Look, Reopen, Accepted, Unauthorized, SentAgain, Login, Refused,
       Cut, LoginFails, TokenExpires
  <2> QED
    BY <1>1, <2>1, <2>2, NoPieces DEF Taken, Done
<1>4. /\ \/ stored' = stored /\ (held' = held \/ held' = << >>)
         \/ stored' = stored \o held /\ (held' = << >> \/ step' = "dead") /\ step # "dead"
      /\ step' # "dead" => step # "dead"
  BY DEF Wait, Open, EndOfFile, Look, Reopen, Accepted, Unauthorized, SentAgain, Login, Refused,
     Cut, LoginFails, TokenExpires, Posting
<1>5. Ordered(<< >>)
  BY NoPieces DEF Ordered
<1>6. Ordered(stored') /\ (step' # "dead" => QueueInv')
  <2>1. CASE stored' = stored /\ (held' = held \/ held' = << >>)
    BY <1>1, <1>2, <1>4, <1>5, <2>1, NoPieces DEF OrderInv, QueueInv, Done
  <2>2. CASE stored' = stored \o held /\ (held' = << >> \/ step' = "dead") /\ step # "dead"
    <3>1. QueueInv
      BY <2>2 DEF OrderInv
    <3>2. Ordered(stored \o held)
      BY <1>2, <3>1, ConcatOrdered DEF QueueInv
    <3>3. ToSet(stored') = ToSet(stored) \cup ToSet(held)
      BY <1>2, <2>2, Concat
    <3>4. ASSUME held' = << >> PROVE QueueInv'
      <4>1. ASSUME NEW p \in ToSet(stored'), NEW q \in ToSet(buffer) PROVE Before(p, q)
        <5>1. CASE p \in ToSet(stored)
          BY <3>1, <5>1 DEF QueueInv
        <5>2. CASE p \in ToSet(held)
          BY <1>2, <5>2, NoPieces
        <5> QED
          BY <3>3, <5>1, <5>2
      <4>2. ASSUME NEW p \in Done', NEW q \in ToSet(chunk) PROVE Before(p, q)
        <5>1. p \in Done
          BY <1>1, <3>3, <3>4, NoPieces DEF Done
        <5> QED
          BY <3>1, <5>1 DEF QueueInv
      <4> QED
        BY <1>1, <1>5, <3>1, <3>4, <4>1, <4>2, NoPieces DEF QueueInv
    <3> QED
      BY <2>2, <3>2, <3>4
  <2> QED
    BY <1>4, <2>1, <2>2
<1>7. ASSUME step' # "dead" PROVE AllFresh'
  <2>1. AllFresh
    BY <1>4, <1>7 DEF OrderInv
  <2> SUFFICES ASSUME NEW f \in 1..MaxFiles, NEW i \in DOMAIN files[f], Clear(f, i)',
                      NEW p \in Taken'
               PROVE  Before(p, files[f][i])
    BY <1>1 DEF AllFresh
  <2>2. CASE Open
    <3>1. Taken = {}
      BY <2>2, NoPieces DEF Open, TypeInv, Shape, Taken, Done
    <3> QED
      BY <1>3, <3>1
  <2>3. CASE ~Open
    <3>1. Clear(f, i)
      <4>1. CASE Reopen
        <5>1. step = "reopen" /\ path # 0 /\ fd' = path
          BY <1>7, <4>1 DEF Reopen
        <5>2. f > path \/ f = path
          BY <1>1, <5>1 DEF Clear
        <5>3. path = fd \/ path > fd
          BY <1>2, <5>1
        <5> QED
          BY <1>2, <5>1, <5>2, <5>3 DEF Clear
      <4>2. CASE Look
        <5>1. UNCHANGED <<fd, pos>> /\ (step' = "reopen" => Rotated)
          BY <4>2 DEF Look
        <5>2. inode = fd
          BY <4>2 DEF Look, TypeInv, Shape
        <5>3. Rotated /\ path = fd => Len(files[fd]) < pos
          BY <5>2 DEF Rotated
        <5> QED
          BY <1>1, <5>1, <5>3 DEF Clear
      <4>3. CASE ~Reopen /\ ~Look
        <5>1. UNCHANGED <<fd, pos>> /\ (step' = "reopen" => step = "reopen")
          BY <2>3, <4>3 DEF Wait, EndOfFile, Accepted, Unauthorized, Login, Refused, Cut,
             LoginFails, TokenExpires
        <5> QED
          BY <1>1, <5>1 DEF Clear
      <4> QED
        BY <4>1, <4>2, <4>3
    <3> QED
      BY <1>3, <2>1, <3>1 DEF AllFresh
  <2> QED
    BY <2>2, <2>3
<1> QED
  BY <1>6, <1>7 DEF OrderInv

\* What is stored is stored once and in the order of the log, however many the lines, files,
\* truncations and failures: each line after all before it and never twice (OnceInOrder).
THEOREM StoredInOrder == Spec => []OnceInOrder
<1>1. Init => TypeInv
  BY InitType
<1>2. Init => LogInv /\ OrderInv
  <2> SUFFICES ASSUME Init PROVE LogInv /\ OrderInv
    OBVIOUS
  <2>1. \A f \in 1..MaxFiles : files[f] = << >>
    BY DEF Init
  <2>2. Taken = {}
    BY NoPieces DEF Init, Taken, Done
  <2>3. stored = << >> /\ held = << >> /\ buffer = << >> /\ chunk = << >>
    BY DEF Init
  <2>4. LogInv
    BY <2>1, <2>2, NoPieces DEF LogInv, FilesOrdered, Ordered
  <2>5. OrderInv
    BY <2>1, <2>3, NoPieces DEF OrderInv, QueueInv, AllFresh, Done, Ordered
  <2> QED
    BY <2>4, <2>5
<1>3. TypeInv /\ LogInv /\ OrderInv /\ [Next]_vars => TypeInv' /\ LogInv' /\ OrderInv'
  <2> SUFFICES ASSUME TypeInv, LogInv, OrderInv, [Next]_vars PROVE OrderInv'
    BY TypeStep, LogStep
  <2>1. CASE UNCHANGED vars
    <3>1. UNCHANGED <<files, path, stored, held, buffer, chunk, step, fd, pos>>
      BY <2>1 DEF vars, log, reader
    <3> QED
      BY <3>1 DEF OrderInv, QueueInv, AllFresh, Clear, Taken, Done, Ordered
  <2>2. CASE Next
    BY <2>2, OrderLog, OrderFill, OrderRead, OrderReader DEF Next, Reader
  <2> QED
    BY <2>1, <2>2
<1>4. OrderInv => OnceInOrder
  BY DEF OrderInv, Ordered, OnceInOrder
<1> QED
  BY <1>1, <1>2, <1>3, <1>4, PTL DEF Spec

-----------------------------------------------------------------------------
(***************************************************************************)
(* Nothing else is lost.  What is owed is taken or still ahead of the      *)
(* reader; what it leaves behind when it goes over to another file was     *)
(* written after it had met the end of the old one.                        *)
(***************************************************************************)
From(s, n) == {s[i] : i \in {j \in DOMAIN s : j > n}}
Named == IF program = "shipper" /\ Fresh THEN ToSet(files[path]) ELSE {}
Covered == Taken \cup From(files[fd], pos) \cup Named
LostInv ==
    /\ Reading => owed \subseteq Covered
    /\ step \in {"sleep", "reopen"} => From(files[fd], pos) \subseteq late

\* What is unread is the rest of the file.
LEMMA UnreadRows ==
    ASSUME TypeInv, fd # 0
    PROVE  ToSet(Unread(fd, pos)) = From(files[fd], pos)
<1>1. fd \in 1..MaxFiles /\ pos \in Nat
  BY ShippingAssumption DEF TypeInv, TypeOK
<1>2. files[fd] \in Seq(Piece)
  BY <1>1, FileRows
<1>3. \A x : x \in ToSet(Unread(fd, pos)) <=> \E i \in DOMAIN files[fd] : i > pos /\ files[fd][i] = x
  BY <1>1, <1>2, Rest DEF Unread
<1> QED
  BY <1>3 DEF From

\* The daemon and logrotate: what is written lies ahead or is excused, what is cut off is.
LEMMA LostLog ==
    ASSUME TypeInv, LostInv,
           \/ \E part \in {"line", "head", "rest"} : Write(part)
           \/ Rename \/ Create \/ Reopened \/ Truncate
    PROVE  LostInv'
<1>1. UNCHANGED <<program, step, fd, pos, stored, held, buffer, chunk>>
  BY DEF Write, Rename, Create, Reopened, Truncate, reader
<1>2. Taken' = Taken /\ (Reading' <=> Reading)
  BY <1>1 DEF Taken, Done, Reading
<1>3. CASE \E part \in {"line", "head", "rest"} : Write(part)
  <2> PICK part \in {"line", "head", "rest"} : Write(part)
    BY <1>3
  <2> DEFINE piece == [line |-> IF half THEN lines ELSE lines + 1, part |-> part]
             regrown == Reading /\ step # "reopen" /\ writer = fd /\ Len(files[fd]) + 1 = pos
             awaited == \/ writer = fd /\ Len(files[fd]) >= pos
                        \/ program = "shipper" /\ writer = path /\ Fresh /\ ~regrown
  <2>1. /\ late' = IF writer = fd /\ step \in {"sleep", "reopen"} THEN late \cup {piece} ELSE late
        /\ owed' = IF Reading /\ awaited THEN owed \cup {piece}
                   ELSE IF regrown THEN owed \ ToSet(files[fd]) ELSE owed
        /\ path' = path
    BY DEF Write
  <2>2. \A f \in 1..MaxFiles :
              /\ DOMAIN files'[f] = 1..Len(files'[f]) /\ Len(files[f]) \in Nat
              /\ f # writer => files'[f] = files[f]
              /\ \A i \in DOMAIN files[f] : i \in DOMAIN files'[f] /\ files'[f][i] = files[f][i]
              /\ \A i \in DOMAIN files'[f] :
                    \/ i \in DOMAIN files[f] /\ files'[f][i] = files[f][i]
                    \/ f = writer /\ files'[f][i] = piece
    BY WriteEntries
  <2>3. /\ writer \in 1..MaxFiles /\ Len(files'[writer]) = Len(files[writer]) + 1
        /\ files'[writer][Len(files[writer]) + 1] = piece
    BY WriteRows
  <2> HIDE DEF piece
  <2>4. Reading => fd \in 1..MaxFiles
    BY ShippingAssumption DEF TypeInv, TypeOK, Shape, Reading
  <2>5. ASSUME NEW f \in 1..MaxFiles, NEW n \in Nat
        PROVE  /\ From(files[f], n) \subseteq From(files'[f], n)
               /\ From(files'[f], n) \subseteq From(files[f], n) \cup {piece}
               /\ f # writer => From(files'[f], n) = From(files[f], n)
               /\ ToSet(files[f]) \subseteq ToSet(files'[f])
    BY <2>2 DEF From, ToSet
  <2>6. pos \in Nat
    BY DEF TypeInv, TypeOK
  <2>7. ASSUME Reading
        PROVE  Named \subseteq Named' \/ (regrown /\ ~awaited /\ Named \subseteq ToSet(files[fd]))
    <3>1. path # 0 => path \in 1..MaxFiles
      BY ShippingAssumption DEF TypeInv, TypeOK
    <3>2. CASE program = "shipper" /\ Fresh
      <4>1. path \in 1..MaxFiles /\ Named = ToSet(files[path])
        BY <3>1, <3>2 DEF Fresh, Named
      <4>2. CASE Fresh'
        <5>1. Named' = ToSet(files'[path])
          BY <1>1, <2>1, <3>2, <4>2 DEF Named
        <5> QED
          BY <2>5, <2>6, <4>1, <5>1
      <4>3. CASE ~Fresh'
        <5>1. path = fd /\ step # "reopen" /\ Len(files[fd]) < pos /\ ~(Len(files'[fd]) < pos)
          BY <1>1, <2>1, <3>2, <4>1, <4>3 DEF Fresh
        <5>2. writer = fd /\ Len(files[fd]) + 1 = pos
          BY <2>2, <2>3, <2>4, <2>6, <2>7, <5>1
        <5>3. ~(Len(files[fd]) >= pos)
          BY <2>2, <2>4, <2>6, <2>7, <5>1
        <5>4. regrown
          BY <2>7, <5>1, <5>2
        <5>5. ~awaited
          BY <5>3, <5>4
        <5> QED
          BY <4>1, <5>1, <5>4, <5>5
      <4> QED
        BY <4>2, <4>3
    <3>3. CASE ~(program = "shipper" /\ Fresh)
      BY <3>3 DEF Named
    <3> QED
      BY <3>2, <3>3
  <2>11. piece \in ToSet(files'[writer])
    <3>1. Len(files[writer]) + 1 \in DOMAIN files'[writer]
      BY <2>2, <2>3
    <3> QED
      BY <2>3, <3>1 DEF ToSet
  <2>8. ASSUME Reading, awaited PROVE piece \in From(files'[fd], pos) \cup Named'
    <3>1. CASE writer = fd /\ Len(files[fd]) >= pos
      <4>1. Len(files[fd]) + 1 \in DOMAIN files'[fd] /\ Len(files[fd]) + 1 > pos
        BY <2>2, <2>3, <2>6, <3>1
      <4> QED
        BY <2>3, <3>1, <4>1 DEF From
    <3>2. CASE /\ program = "shipper" /\ writer = path /\ Fresh /\ ~regrown
               /\ ~(writer = fd /\ Len(files[fd]) >= pos)
      <4>1. Fresh'
        <5>1. CASE path # fd \/ step = "reopen"
          BY <1>1, <2>1, <3>2, <5>1 DEF Fresh
        <5>2. CASE path = fd /\ step # "reopen"
          <6>1. writer = fd /\ Len(files[fd]) + 1 # pos /\ ~(Len(files[fd]) >= pos)
            BY <2>8, <3>2, <5>2
          <6>2. Len(files'[fd]) < pos
            BY <2>2, <2>3, <2>6, <6>1
          <6> QED
            BY <1>1, <2>1, <2>3, <3>2, <5>2, <6>2 DEF Fresh
        <5> QED
          BY <5>1, <5>2
      <4>2. Named' = ToSet(files'[path])
        BY <1>1, <2>1, <3>2, <4>1 DEF Named
      <4> QED
        BY <2>11, <3>2, <4>2
    <3> QED
      BY <2>8, <3>1, <3>2
  <2>9. Reading' => owed' \subseteq Covered'
    <3> SUFFICES ASSUME Reading PROVE owed' \subseteq Covered'
      BY <1>2
    <3>1. owed \subseteq Taken \cup From(files[fd], pos) \cup Named
      BY DEF LostInv, Covered
    <3>2. From(files[fd], pos) \subseteq From(files'[fd], pos)
      BY <2>4, <2>5, <2>6
    <3> HIDE DEF regrown, awaited
    <3>3. CASE Named \subseteq Named'
      <4>1. owed' \subseteq owed \cup (IF Reading /\ awaited THEN {piece} ELSE {})
        BY <2>1
      <4> QED
        BY <1>1, <1>2, <2>8, <3>1, <3>2, <3>3, <4>1 DEF Covered
    <3>4. CASE regrown /\ ~awaited /\ Named \subseteq ToSet(files[fd])
      <4>1. owed' = owed \ ToSet(files[fd])
        BY <2>1, <3>4
      <4> QED
        BY <1>1, <1>2, <3>1, <3>2, <3>4, <4>1 DEF Covered
    <3> QED
      BY <2>7, <3>3, <3>4
  <2>10. step' \in {"sleep", "reopen"} => From(files'[fd'], pos') \subseteq late'
    <3> SUFFICES ASSUME step \in {"sleep", "reopen"} PROVE From(files'[fd], pos) \subseteq late'
      BY <1>1
    <3>1. From(files[fd], pos) \subseteq late /\ fd \in 1..MaxFiles
      BY <2>4 DEF LostInv, Reading
    <3> QED
      BY <2>1, <2>5, <2>6, <3>1
  <2> QED
    BY <2>9, <2>10 DEF LostInv
<1>4. CASE Rename \/ Create \/ Reopened
  <2>1. /\ UNCHANGED <<files, late>>
        /\ \/ owed' \subseteq owed /\ Named \subseteq Named'
           \/ owed' = owed \ Named
    <3>1. CASE Rename
      BY <1>1, <3>1 DEF Rename, Named, Fresh
    <3>2. CASE Create
      BY <3>2 DEF Create, Named, Fresh
    <3>3. CASE Reopened
      BY <1>1, <3>3 DEF Reopened, Named, Fresh
    <3> QED
      BY <1>4, <3>1, <3>2, <3>3
  <2> QED
    BY <1>1, <1>2, <2>1 DEF LostInv, Covered
<1>5. CASE Truncate
  <2>1. /\ late' = late /\ path' = path /\ path \in 1..MaxFiles /\ files'[path] = << >>
        /\ \A f \in 1..MaxFiles : f # path => files'[f] = files[f]
        /\ owed' = owed \ ToSet(IF Fresh THEN files[path] ELSE Unread(fd, pos))
    BY <1>5, TruncateRows DEF Truncate
  <2>2. From(<< >>, pos) = {}
    BY NoPieces DEF From
  <2>3. Reading => fd \in 1..MaxFiles
    BY ShippingAssumption DEF TypeInv, TypeOK, Shape, Reading
  <2>4. CASE fd = path
    <3>1. ToSet(Unread(fd, pos)) = From(files[fd], pos)
      BY <2>1, <2>4, UnreadRows
    <3>2. From(files'[fd], pos) = {} /\ From(files[fd], pos) \subseteq ToSet(files[path])
      BY <2>1, <2>2, <2>4 DEF From, ToSet
    <3>3. Reading => owed' \subseteq Taken
      BY <2>1, <3>1, <3>2 DEF LostInv, Covered, Named
    <3> QED
      BY <1>1, <1>2, <3>2, <3>3 DEF LostInv, Covered
  <2>5. CASE fd # path
    <3>1. Reading => files'[fd] = files[fd]
      BY <2>1, <2>3, <2>5
    <3>2. Reading => owed' \subseteq Taken \cup From(files[fd], pos)
      BY <2>1, <2>5 DEF LostInv, Covered, Named, Fresh
    <3>3. step \in {"sleep", "reopen"} => Reading
      BY DEF Reading
    <3> QED
      BY <1>1, <1>2, <2>1, <3>1, <3>2, <3>3 DEF LostInv, Covered
  <2> QED
    BY <2>4, <2>5
<1> QED
  BY <1>3, <1>4, <1>5

\* The reader: what it takes it holds, stores or drops for a reason, and a file it leaves for
\* another it had read to the end.
LEMMA LostReader ==
    ASSUME TypeInv, TypeInv', LogInv, LostInv,
           Reader \/ Refused \/ Cut \/ LoginFails \/ TokenExpires
    PROVE  LostInv'
<1>1. UNCHANGED <<program, files, path>>
  BY DEF Reader, Wait, Open, Fill, Read, EndOfFile, Look, Reopen, Accepted, Unauthorized, Login, Refused,
     Cut, LoginFails, TokenExpires, log
<1>2. /\ stored \in Seq(Piece) /\ held \in Seq(Piece) /\ pos \in Nat /\ MaxFiles \in Nat
      /\ path \in 0..MaxFiles
      /\ Reading => fd \in 1..MaxFiles
  BY ShippingAssumption DEF TypeInv, TypeOK, Shape, Reading
<1>3. ToSet(stored \o held) = ToSet(stored) \cup ToSet(held) /\ ToSet(<< >>) = {}
  BY <1>2, Concat, NoPieces
<1>4. \A f \in 1..MaxFiles : From(files[f], 0) = ToSet(files[f])
  <2> SUFFICES ASSUME NEW f \in 1..MaxFiles PROVE From(files[f], 0) = ToSet(files[f])
    OBVIOUS
  <2>1. \A j \in DOMAIN files[f] : j > 0
    BY FileRows
  <2> QED
    BY <2>1 DEF From, ToSet
<1>5. CASE Open
  <2>1. CASE path = 0
    BY <2>1, <1>5 DEF Open, LostInv, Reading
  <2>2. CASE path # 0
    <3>1. path \in 1..MaxFiles
      BY <1>2, <2>2
    <3>2. step' = "read" /\ fd' = path
          /\ (owed' = {} \/ (pos' = 0 /\ owed' = ToSet(files[path])))
      BY <1>5, <2>2 DEF Open
    <3> QED
      BY <1>1, <1>4, <3>1, <3>2 DEF LostInv, Covered
  <2> QED
    BY <2>1, <2>2
<1>6. CASE Read
  <2>1. /\ step = "read" /\ step' \in {"read", "post"} /\ UNCHANGED <<fd, pos, stored>>
        /\ held = << >> /\ ToSet(Got) = ToSet(buffer) \cup ToSet(Line)
        /\ ToSet(chunk) = ToSet(Line) \cup ToSet(chunk')
        /\ \/ buffer' = << >> /\ held' = << >> /\ owed' = owed \ ToSet(Got)
           \/ buffer' = << >> /\ held' = Got /\ owed' = owed
           \/ buffer' = Got /\ held' = << >> /\ owed' = owed
    BY <1>6, ReadRows
  <2>2. owed \subseteq Covered
    BY <2>1 DEF LostInv, Reading
  <2>3. Named' = Named
    BY <1>1, <2>1 DEF Named, Fresh
  <2>4. owed' \subseteq Covered'
    <3> HIDE DEF Got, Line
    <3>1. owed \subseteq ToSet(stored) \cup ToSet(Got) \cup ToSet(chunk') \cup From(files[fd], pos) \cup Named
      BY <1>3, <2>1, <2>2 DEF Covered, Taken, Done
    <3>2. \/ owed' = owed \ ToSet(Got)
          \/ owed' = owed /\ ToSet(held') \cup ToSet(buffer') = ToSet(Got)
      BY <1>3, <2>1
    <3> QED
      BY <1>1, <2>1, <2>3, <3>1, <3>2 DEF Covered, Taken, Done
  <2> QED
    BY <2>1, <2>4 DEF LostInv
<1>11. CASE Fill
  <2>1. /\ fd \in 1..MaxFiles /\ step = "read" /\ UNCHANGED <<step, fd, stored, held, buffer, owed>>
        /\ pos' \in Nat /\ pos < pos' /\ pos' <= Len(files[fd])
        /\ ToSet(chunk') = ToSet(chunk) \cup ToSet(New)
    BY <1>11, FillRows
  <2>2. From(files[fd], pos) \subseteq ToSet(New) \cup From(files[fd], pos')
    <3> DEFINE t == New
    <3>1. /\ t \in Seq(Piece) /\ Len(t) = pos' - pos
          /\ \A i \in 1..Len(t) : t[i] = files[fd][pos + i]
      BY <1>11, FillRows
    <3>2. DOMAIN files[fd] = 1..Len(files[fd]) /\ Len(files[fd]) \in Nat
      BY <2>1, FileRows
    <3> HIDE DEF t
    <3>3. DOMAIN t = 1..Len(t)
      <4>1. t \in Seq(Piece)
        BY <3>1
      <4> QED
        BY ONLY <4>1
    <3>4. ASSUME NEW j \in DOMAIN files[fd], j > pos, ~(j > pos') PROVE files[fd][j] \in ToSet(t)
      <4>1. j - pos \in 1..Len(t) /\ pos + (j - pos) = j
        BY <1>2, <2>1, <3>1, <3>2, <3>4
      <4> QED
        BY <3>1, <3>3, <4>1 DEF ToSet
    <3> QED
      BY <3>4 DEF From, t
  <2>3. Named' = Named
    <3>1. Len(files[fd]) \in Nat
      BY <2>1, FileRows
    <3>2. path = fd => ~(Len(files[fd]) < pos) /\ ~(Len(files[fd]) < pos')
      BY <1>2, <2>1, <3>1
    <3> QED
      BY <1>1, <2>1, <3>2 DEF Named, Fresh
  <2>4. owed \subseteq Covered
    BY <2>1 DEF LostInv, Reading
  <2>5. owed' \subseteq Covered'
    <3> HIDE DEF New
    <3> QED
      BY <1>1, <2>1, <2>2, <2>3, <2>4 DEF Covered, Taken, Done
  <2> QED
    BY <2>1, <2>5 DEF LostInv
<1>12. CASE Wait
  BY <1>12 DEF Wait, LostInv, Reading
<1>7. CASE EndOfFile
  <2>1. /\ UNCHANGED <<fd, pos, held, buffer, chunk, stored, owed>>
        /\ step = "read" /\ Unread(fd, pos) = << >>
    BY <1>7 DEF EndOfFile
  <2>2. From(files[fd], pos) = {}
    BY <1>2, <1>3, <2>1, UnreadRows DEF Reading
  <2>3. owed' \subseteq Covered'
    <3>1. Named' = Named /\ (Reading' <=> Reading)
      BY <1>1, <1>7, <2>1 DEF EndOfFile, Named, Fresh, Reading
    <3> QED
      BY <1>1, <2>1, <3>1 DEF LostInv, Covered, Taken, Done, Reading
  <2> QED
    BY <1>1, <2>1, <2>2, <2>3 DEF LostInv
<1>8. CASE Look
  <2>1. /\ UNCHANGED <<fd, pos, held, buffer, chunk, stored, owed>>
        /\ step = "sleep" /\ (step' = "read" \/ late' = late)
    BY <1>8 DEF Look
  <2>2. Named \subseteq Named' /\ step' \in {"read", "reopen"}
    <3>1. step' \in {"read", "reopen"} /\ (Fresh => Fresh')
      BY <1>1, <1>8, <2>1 DEF Look, Fresh
    <3> QED
      BY <1>1, <3>1 DEF Named
  <2> QED
    BY <1>1, <2>1, <2>2 DEF LostInv, Covered, Taken, Done, Reading
<1>9. CASE Reopen
  <2>1. CASE path = 0
    BY <1>9, <2>1 DEF Reopen, LostInv, Reading
  <2>2. CASE path # 0
    <3>1. /\ UNCHANGED <<held, buffer, chunk, stored>> /\ step' = "read" /\ fd' = path /\ pos' = 0
          /\ owed' = IF path = fd THEN owed ELSE owed \ late
          /\ step = "reopen" /\ path \in 1..MaxFiles /\ program = "shipper"
      BY <1>2, <1>9, <2>2 DEF Reopen, TypeInv, Shape
    <3>2. owed \subseteq Covered /\ From(files[fd], pos) \subseteq late
      BY <3>1 DEF LostInv, Reading
    <3>3. From(files'[fd'], pos') = ToSet(files[path])
      BY <1>1, <1>4, <3>1
    <3>4. owed' \subseteq Taken \cup ToSet(files[path])
      <4>1. Named = ToSet(files[path]) /\ From(files[fd], pos) \subseteq ToSet(files[fd])
        BY <2>2, <3>1 DEF Named, Fresh, From, ToSet
      <4> QED
        BY <3>1, <3>2, <4>1 DEF Covered
    <3> QED
      BY <3>1, <3>3, <3>4 DEF LostInv, Covered, Taken, Done
  <2> QED
    BY <2>1, <2>2
<1>10. CASE Accepted \/ Refused \/ Cut \/ Unauthorized \/ Login \/ LoginFails \/ TokenExpires
  <2>1. /\ UNCHANGED <<fd, pos, buffer, chunk>>
        /\ \/ UNCHANGED <<stored, held, owed>>
           \/ stored' = stored \o held /\ held' = << >> /\ owed' = owed
           \/ /\ stored' \in {stored, stored \o held} /\ held' = << >>
              /\ owed' = owed \ ToSet(held)
           \/ step' = "dead"
        /\ step' \in {"sleep", "reopen"} => step' = step /\ late' = late
        /\ step = "reopen" => step' = step \/ step' = "dead"
        /\ Reading' => Reading
    <3>1. program \in {"shipper", "forwarder"}
      BY DEF TypeInv, TypeOK
    <3> QED
      BY <1>10, <3>1 DEF Accepted, Refused, Cut, Unauthorized, SentAgain, Login, LoginFails,
         TokenExpires, Posting, Reading
  <2>2. CASE step' = "dead"
    BY <2>2 DEF LostInv, Reading
  <2>3. CASE step' # "dead"
    <3>1. Named' = Named /\ From(files'[fd'], pos') = From(files[fd], pos)
      BY <1>1, <2>1, <2>3 DEF Named, Fresh
    <3>2. \/ Taken \subseteq Taken' /\ owed' = owed
          \/ Taken \subseteq Taken' \cup ToSet(held) /\ owed' = owed \ ToSet(held)
      BY <1>3, <2>1, <2>3 DEF Taken, Done
    <3>3. Reading' => Reading
      BY <2>1 DEF Reading
    <3>4. Reading' => owed' \subseteq Covered'
      BY <3>1, <3>2, <3>3 DEF LostInv, Covered
    <3> QED
      BY <2>1, <3>1, <3>4 DEF LostInv
  <2> QED
    BY <2>2, <2>3
<1> QED
  BY <1>5, <1>6, <1>7, <1>8, <1>9, <1>10, <1>11, <1>12 DEF Reader

\* Each piece written while the reader runs is stored, on its way or still ahead of it, unless
\* it is excused (NothingElseLost): however many the files, truncations and failures.
THEOREM NothingLost == Spec => []NothingElseLost
<1>1. Init => TypeInv /\ LogInv /\ LostInv
  <2> SUFFICES ASSUME Init PROVE LogInv /\ LostInv
    BY InitType
  <2>1. \A f \in 1..MaxFiles : files[f] = << >>
    BY DEF Init
  <2>2. Taken = {}
    BY NoPieces DEF Init, Taken, Done
  <2>3. LogInv
    BY <2>1, <2>2, NoPieces DEF LogInv, FilesOrdered, Ordered
  <2>4. LostInv
    BY DEF Init, LostInv, Reading
  <2> QED
    BY <2>3, <2>4
<1>2. TypeInv /\ LogInv /\ LostInv /\ [Next]_vars => TypeInv' /\ LogInv' /\ LostInv'
  <2> SUFFICES ASSUME TypeInv, LogInv, LostInv, [Next]_vars PROVE LostInv'
    BY TypeStep, LogStep
  <2>1. CASE UNCHANGED vars
    <3>1. UNCHANGED <<program, files, path, stored, held, buffer, chunk, step, fd, pos, owed, late>>
      BY <2>1 DEF vars, log, reader
    <3> QED
      BY <3>1 DEF LostInv, Covered, Taken, Done, Named, Fresh, Reading
  <2>2. CASE Next
    BY <2>2, TypeStep, LostLog, LostReader DEF Next
  <2> QED
    BY <2>1, <2>2
<1>3. TypeInv /\ LostInv => NothingElseLost
  <2> SUFFICES ASSUME TypeInv, LostInv, Reading
               PROVE  owed \subseteq Stored \cup ToSet(buffer) \cup ToSet(held) \cup Ahead
    BY DEF NothingElseLost
  <2>1. fd # 0
    BY DEF TypeInv, Shape, Reading
  <2>2. ToSet(Unread(fd, pos)) = From(files[fd], pos)
    BY <2>1, UnreadRows
  <2>3. owed \subseteq Covered
    BY DEF LostInv
  <2> QED
    BY <2>2, <2>3 DEF Covered, Taken, Done, Named, Ahead, Stored
<1> QED
  BY <1>1, <1>2, <1>3, PTL DEF Spec

-----------------------------------------------------------------------------
\* Sequences, positions and files are what the reader and the daemon take them for, and how they
\* stand to each other: no reader without a file, no line in hand at the end of a file.
THEOREM ShippingTypes == Spec => []TypeInv
  BY InitType, TypeStep, PTL DEF Spec
=============================================================================
