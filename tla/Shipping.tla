------------------------------ MODULE Shipping ------------------------------
(***************************************************************************)
(* The two programs that follow a log file and send its lines to           *)
(* /api/logs.                                                              *)
(*                                                                         *)
(*   scripts/kali_log_shipper.py  follow, main: "shipper"                  *)
(*   scripts/wazuh_forwarder.py   tail, main: "forwarder"                  *)
(*                                                                         *)
(* A line is written at once or in two pieces, and the file is renamed     *)
(* away or truncated between any two steps of the reader.  A piece is its  *)
(* line's number and its place in the line; what the line says is whether  *)
(* anything is sent for it.  The handle is a buffered one: it reads a      *)
(* chunk, as much as there is or less, and returns it line by line, so its *)
(* place in the file is ahead of the line in hand.  Places are counted in  *)
(* pieces, as if all were of one size.                                     *)
(***************************************************************************)
EXTENDS Integers, Sequences, SequencesExt

CONSTANTS
    Programs,   \* subset of {"shipper", "forwarder"}
    Logs,       \* what the lines of a log may say
    MaxLines,   \* bound: lines written
    MaxTorn,    \* bound: lines written in two pieces
    MaxFiles,   \* bound: files that have had the name
    MaxCuts,    \* bound: truncations
    MaxTrouble  \* bound: posts and sign-ins that fail, tokens that expire

ASSUME ShippingAssumption ==
    /\ Programs \subseteq {"shipper", "forwarder"}
    /\ Logs \subseteq [1..MaxLines -> {"event", "nothing", "garbage"}]
    /\ MaxLines \in Nat /\ MaxTorn \in Nat /\ MaxFiles \in Nat \ {0}
    /\ MaxCuts \in Nat /\ MaxTrouble \in Nat

VARIABLES
    program,    \* which of the two runs, in this behaviour
    whole,      \* --from-start
    says,       \* what each line says: "event", "nothing" to send, or "garbage"
    files,      \* every file that has had the name, its content
    path,       \* the one that has it, 0 if none
    writer,     \* the one the daemon has open, 0 before the first
    lines,      \* lines begun
    torn,       \* lines written in two pieces so far
    half,       \* the last one lacks its second piece
    cuts,       \* truncations so far
    step,       \* where the reader is
    fd,         \* the file it has open
    inode,      \* the one it believes to have open
    pos,        \* the place in it: how much of it has been read
    chunk,      \* what has been read of it and not been returned as a line
    buffer,     \* what the forwarder has read and cannot parse yet
    held,       \* the line it is sending
    token,      \* its token is accepted
    stored,     \* what the SIEM has stored, line after line
    trouble,    \* failures so far
    late,       \* history: pieces written after the reader met the end of its file
    owed        \* history: pieces that nothing excuses from being stored

log == <<files, path, writer, lines, half, torn, cuts>>
reader == <<step, fd, inode, pos, chunk, buffer, held, token>>
vars == <<program, whole, says, log, reader, stored, trouble, late, owed>>

Says(p) == IF p = "shipper" THEN {"event", "nothing"} ELSE {"event", "nothing", "garbage"}

Init ==
    /\ program \in Programs
    /\ whole \in IF program = "shipper" THEN BOOLEAN ELSE {FALSE}
    /\ says \in {s \in Logs : \A i \in 1..MaxLines : s[i] \in Says(program)}
    /\ files = [f \in 1..MaxFiles |-> << >>]
    /\ path \in {0, 1} /\ writer = path
    /\ lines = 0 /\ half = FALSE /\ torn = 0 /\ cuts = 0
    /\ step = (IF program = "shipper" THEN "start" ELSE "wait")
    /\ fd = 0 /\ inode = 0 /\ pos = 0 /\ chunk = << >>
    /\ buffer = << >> /\ held = << >> /\ token = FALSE
    /\ stored = << >> /\ trouble = 0
    /\ late = {} /\ owed = {}

Reading == step \notin {"start", "wait", "open", "dead"}
Unread(f, n) == SubSeq(files[f], n + 1, Len(files[f]))

\* The file that has the name is not the one the reader has open, or has shrunk below the
\* place it is at: the shipper will read it from its start if it looks in time.
Fresh == path # 0 /\ (path # fd \/ step = "reopen" \/ Len(files[path]) < pos)

-----------------------------------------------------------------------------
(***************************************************************************)
(* The daemon that logs, and logrotate.                                    *)
(***************************************************************************)

\* What is written is owed if the reader will come to it.  Nobody can see that a file
\* shrank once it has grown back to where the reader is.
Write(part) ==
    /\ writer # 0
    /\ (part = "rest") <=> half
    /\ half \/ lines < MaxLines
    /\ LET piece == [line |-> IF half THEN lines ELSE lines + 1, part |-> part]
           regrown == Reading /\ step # "reopen" /\ writer = fd /\ Len(files[fd]) + 1 = pos
           awaited == \/ writer = fd /\ Len(files[fd]) >= pos
                      \/ program = "shipper" /\ writer = path /\ Fresh /\ ~regrown
       IN /\ files' = [files EXCEPT ![writer] = Append(@, piece)]
          /\ lines' = piece.line
          /\ late' = IF writer = fd /\ step \in {"sleep", "reopen"} THEN late \cup {piece} ELSE late
          /\ owed' = IF Reading /\ awaited THEN owed \cup {piece}
                     ELSE IF regrown THEN owed \ ToSet(files[fd]) ELSE owed
    /\ half' = (part = "head") /\ torn' = IF half' THEN torn + 1 ELSE torn
    /\ torn' <= MaxTorn
    /\ UNCHANGED <<program, whole, says, path, writer, cuts, reader, stored, trouble>>

\* The file is renamed away ...
Rename ==
    /\ path # 0 /\ path < MaxFiles /\ writer = path
    /\ path' = 0
    /\ owed' = IF Fresh THEN owed \ ToSet(files[path]) ELSE owed
    /\ UNCHANGED <<program, whole, says, files, writer, lines, half, torn, cuts, reader,
                   stored, trouble, late>>

\* ... another takes its name ...
Create ==
    /\ path = 0
    /\ path' = writer + 1
    /\ UNCHANGED <<program, whole, says, files, writer, lines, half, torn, cuts, reader,
                   stored, trouble, late, owed>>

\* ... and the daemon, told to, goes over to it between two lines.
Reopened ==
    /\ path \notin {0, writer} /\ ~half
    /\ writer' = path
    /\ UNCHANGED <<program, whole, says, files, path, lines, half, torn, cuts, reader,
                   stored, trouble, late, owed>>

\* copytruncate: what was not read by then is gone; what the handle has read is not.
Truncate ==
    /\ path # 0 /\ writer = path /\ cuts < MaxCuts /\ files[path] # << >>
    /\ files' = [files EXCEPT ![path] = << >>]
    /\ cuts' = cuts + 1
    /\ owed' = owed \ ToSet(IF Fresh THEN files[path] ELSE Unread(fd, pos))
    /\ UNCHANGED <<program, whole, says, path, writer, lines, half, torn, reader,
                   stored, trouble, late>>

-----------------------------------------------------------------------------
(***************************************************************************)
(* The reader.  The shipper signs in and waits for its file, the forwarder *)
(* wants to see it before it signs in.  A file that is gone again when it  *)
(* is opened ends either program.                                          *)
(***************************************************************************)
Fails == trouble < MaxTrouble /\ trouble' = trouble + 1

Wait ==
    /\ step = "wait" /\ (path # 0 \/ program = "forwarder")
    /\ step' = IF path = 0 THEN "dead" ELSE IF program = "shipper" THEN "open" ELSE "start"
    /\ UNCHANGED <<program, whole, says, log, fd, inode, pos, chunk, buffer, held, token,
                   stored, trouble, late, owed>>

Open ==
    /\ step = "open"
    /\ IF path = 0
       THEN step' = "dead" /\ UNCHANGED <<fd, inode, pos, owed>>
       ELSE /\ step' = "read"
            /\ fd' = path /\ inode' = path
            /\ pos' = IF whole THEN 0 ELSE Len(files[path])
            /\ owed' = IF whole THEN ToSet(files[path]) ELSE {}
    /\ UNCHANGED <<program, whole, says, log, chunk, buffer, held, token, stored, trouble, late>>

Ends(piece) == piece.part # "head"

\* readline, as long as it has no end of a line: another chunk.
Fill ==
    /\ step = "read" /\ \A i \in DOMAIN chunk : ~Ends(chunk[i])
    /\ \E n \in 1..Len(Unread(fd, pos)) :
         /\ chunk' = chunk \o SubSeq(Unread(fd, pos), 1, n)
         /\ pos' = pos + n
    /\ UNCHANGED <<program, whole, says, log, step, fd, inode, buffer, held, token,
                   stored, trouble, late, owed>>

\* What it returns, n pieces: up to the end of a line, or at the end of the file what there is.
Returns(n) ==
    /\ \A i \in 1..(n - 1) : ~Ends(chunk[i])
    /\ Ends(chunk[n]) \/ (n = Len(chunk) /\ Unread(fd, pos) = << >>)

Halves(p, q) == p.part = "head" /\ q = [line |-> p.line, part |-> "rest"]

\* json.loads: one object and no more.
Parses(pieces) ==
    /\ says[pieces[1].line] # "garbage"
    /\ \/ Len(pieces) = 1 /\ pieces[1].part = "line"
       \/ Len(pieces) = 2 /\ Halves(pieces[1], pieces[2])

\* A line that is sent, or that has nothing to send (blank, or without a mapping).
Take(pieces) ==
    IF \A p \in ToSet(pieces) : says[p.line] = "nothing"
    THEN step' = "read" /\ held' = << >> /\ owed' = owed \ ToSet(pieces)
    ELSE step' = "post" /\ held' = pieces /\ UNCHANGED owed

\* Slip: what cannot be parsed is thrown away at once.
NoBuffer(pieces) == << >>

\* The forwarder adds a line to what it could not parse and tries again.
Kept(pieces) == IF Parses(pieces) THEN << >> ELSE pieces

Read ==
    /\ step = "read"
    /\ \E n \in DOMAIN chunk :
         LET line == SubSeq(chunk, 1, n)
             pieces == buffer \o line
         IN /\ Returns(n)
            /\ chunk' = SubSeq(chunk, n + 1, Len(chunk))
            /\ IF program = "shipper" THEN Take(line) /\ UNCHANGED buffer
               ELSE /\ buffer' = Kept(pieces)
                    /\ IF Parses(pieces) THEN Take(pieces) ELSE UNCHANGED <<step, held, owed>>
    /\ UNCHANGED <<program, whole, says, log, fd, inode, pos, token, stored, trouble, late>>

\* The end of the file: half a second of sleep.
EndOfFile ==
    /\ step = "read" /\ chunk = << >> /\ Unread(fd, pos) = << >>
    /\ step' = "sleep"
    /\ UNCHANGED <<program, whole, says, log, fd, inode, pos, chunk, buffer, held, token,
                   stored, trouble, late, owed>>

\* Slip: only a file that has shrunk is opened again.
OnlyShrunk == path # 0 /\ Len(files[path]) < pos

\* os.stat(path): another inode, or a size below the position.
Rotated == path # 0 /\ (path # inode \/ Len(files[path]) < pos)

Look ==
    /\ step = "sleep"
    /\ IF program = "shipper" /\ Rotated
       THEN step' = "reopen" /\ UNCHANGED late
       ELSE step' = "read" /\ late' = {}
    /\ UNCHANGED <<program, whole, says, log, fd, inode, pos, chunk, buffer, held, token,
                   stored, trouble, owed>>

\* Slip: the inode compared with stays that of the first file.
FirstInode == inode

NewInode == path

\* The old file is closed as it is and the new one read from its start; if it was
\* renamed since the look, the exception ends the program.
Reopen ==
    /\ step = "reopen"
    /\ IF path = 0
       THEN step' = "dead" /\ UNCHANGED <<fd, inode, pos, late, owed>>
       ELSE /\ step' = "read"
            /\ fd' = path /\ inode' = NewInode /\ pos' = 0
            /\ late' = {}
            /\ owed' = IF path = fd THEN owed ELSE owed \ late
    /\ UNCHANGED <<program, whole, says, log, chunk, buffer, held, token, stored, trouble>>

Posting == step \in {"post", "again"}

Accepted ==
    /\ Posting /\ token
    /\ stored' = stored \o held
    /\ step' = "read" /\ held' = << >>
    /\ UNCHANGED <<program, whole, says, log, fd, inode, pos, chunk, buffer, token, trouble, late, owed>>

\* Any other answer: the line may have been stored before the request failed, and is
\* not tried again.
Refused ==
    /\ Posting /\ token /\ Fails
    /\ step' = "read" /\ held' = << >> /\ owed' = owed \ ToSet(held)
    /\ stored' \in {stored, stored \o held}
    /\ UNCHANGED <<program, whole, says, log, fd, inode, pos, chunk, buffer, token, late>>

\* No answer: neither program catches the exception.
Cut ==
    /\ Posting /\ Fails
    /\ stored' \in {stored, stored \o held}
    /\ step' = "dead"
    /\ UNCHANGED <<program, whole, says, log, fd, inode, pos, chunk, buffer, held, token, late, owed>>

\* Slip: the line is not sent again.
NotAgain == << >>

SentAgain == IF program = "shipper" THEN held ELSE << >>

\* 401: the shipper signs in and sends the line once more, the forwarder drops it.
Unauthorized ==
    /\ Posting /\ ~token
    /\ IF step = "again" THEN step' = "read" /\ held' = << >>
       ELSE step' = "login" /\ held' = SentAgain
    /\ owed' = IF step = "again" \/ program = "forwarder" THEN owed \ ToSet(held) ELSE owed
    /\ UNCHANGED <<program, whole, says, log, fd, inode, pos, chunk, buffer, token,
                   stored, trouble, late>>

Login ==
    /\ step \in {"start", "login"}
    /\ token' = TRUE
    /\ step' = IF step = "start" THEN IF program = "shipper" THEN "wait" ELSE "open"
               ELSE IF program = "shipper" THEN "again" ELSE "read"
    /\ UNCHANGED <<program, whole, says, log, fd, inode, pos, chunk, buffer, held,
                   stored, trouble, late, owed>>

LoginFails ==
    /\ step \in {"start", "login"} /\ Fails
    /\ step' = "dead"
    /\ UNCHANGED <<program, whole, says, log, fd, inode, pos, chunk, buffer, held, token,
                   stored, late, owed>>

TokenExpires ==
    /\ token /\ Fails
    /\ token' = FALSE
    /\ UNCHANGED <<program, whole, says, log, step, fd, inode, pos, chunk, buffer, held,
                   stored, late, owed>>

-----------------------------------------------------------------------------
Reader ==
    \/ Wait \/ Open \/ Fill \/ Read \/ EndOfFile \/ Look \/ Reopen
    \/ Accepted \/ Unauthorized \/ Login

Next ==
    \/ \E part \in {"line", "head", "rest"} : Write(part)
    \/ Rename \/ Create \/ Reopened \/ Truncate
    \/ Reader \/ Refused \/ Cut \/ LoginFails \/ TokenExpires

Spec == Init /\ [][Next]_vars

\* The reader's loop goes on, a line that was begun is finished, and a name that
\* is free is taken.
FairSpec == Spec /\ WF_vars(Reader) /\ WF_vars(Write("rest")) /\ WF_vars(Create)

-----------------------------------------------------------------------------
(***************************************************************************)
(* Properties.                                                             *)
(***************************************************************************)
Before(p, q) == p.line < q.line \/ (p.line = q.line /\ p.part = "head" /\ q.part = "rest")
Stored == ToSet(stored)

\* "ships each new line" (kali_log_shipper.py:6): what is stored is stored once and in the
\* order of the log, through renames, truncations, answers that are lost, and second
\* attempts with a new token.
OnceInOrder ==
    \A i, j \in DOMAIN stored : i < j => Before(stored[i], stored[j])

\* While the reader runs, each piece is stored, on its way, or still ahead of it (in the
\* handle's chunk, further on in its file, or in the one it will open next), unless the SIEM
\* refused it (the shipper's: with 401 twice, or with another status), a truncation took it,
\* the file had grown back to the reader's place before it looked, the reader had left it,
\* or it was written to a renamed file after the reader had met the end of it (follow,
\* 117-144: the old file is not read to its end before it is closed).
Ahead ==
    ToSet(chunk) \cup ToSet(Unread(fd, pos)) \cup
    (IF program = "shipper" /\ Fresh THEN ToSet(files[path]) ELSE {})
NothingElseLost ==
    Reading => owed \subseteq Stored \cup ToSet(buffer) \cup ToSet(held) \cup Ahead

\* Each piece is stored in the end, unless it is excused or the reader died; or the
\* forwarder holds something that will never parse, a line that is no JSON or half a line
\* without its other half, and then nothing gets past it (tail, 112-114).
Lonely(i) ==
    /\ buffer[i].part # "line"
    /\ i > 1 => ~Halves(buffer[i - 1], buffer[i])
    /\ IF i < Len(buffer) THEN ~Halves(buffer[i], buffer[i + 1])
       ELSE ~(half /\ buffer[i].line = lines) /\ ~ \E q \in Ahead : Halves(buffer[i], q)
Wedged == \E i \in DOMAIN buffer : says[buffer[i].line] = "garbage" \/ Lonely(i)
Shipped == <>[](owed \subseteq Stored \/ step = "dead" \/ Wedged)

Piece == [line : 1..MaxLines, part : {"line", "head", "rest"}]

\* "handling rotation (truncation / inode change) the way `tail -F` does"
\* (kali_log_shipper.py:118-119): a renamed file is read to its end.
NothingLeftBehind == [][step = "reopen" /\ path \notin {0, fd} => late = {}]_vars
=============================================================================
