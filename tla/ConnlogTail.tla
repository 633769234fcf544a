------------------------------ MODULE ConnlogTail ------------------------------
(***************************************************************************)
(* connection_logger._tail: following the kernel log that rsyslog writes.  *)
(*                                                                         *)
(* The reader is a systemd service with Restart=always.  It opens the file *)
(* by name, seeks to its end, remembers the inode, and from then on reads  *)
(* lines; at the end of the file it sleeps, looks the inode up by name and *)
(* reopens the file when it has changed.  rsyslog, the rotation and a      *)
(* truncation in place are external: a rotation renames the file, and      *)
(* rsyslog goes on writing to the renamed one until it is told to reopen.  *)
(* Files are inodes, lines are numbered in the order they were written.    *)
(***************************************************************************)
EXTENDS Naturals, Sequences

CONSTANTS
    MaxLines,        \* bound: lines rsyslog writes
    MaxInodes,       \* bound: files there ever are
    MaxTruncations,  \* bound: truncations in place
    MaxKills         \* bound: times the service is killed

ASSUME BoundsAssumption ==
    MaxLines \in Nat /\ MaxInodes \in Nat \ {0} /\ MaxTruncations \in Nat /\ MaxKills \in Nat

VARIABLES
    content,   \* [inode -> its lines]
    path,      \* the inode that has the file's name; 0 while there is none
    writer,    \* the inode rsyslog has open; 0 before its first line
    written,   \* lines written so far
    truncations, kills,
    tailPc, fh, pos, inode, cur,   \* the reader: fh = 0 while the file is closed
    out,       \* history: the lines it has yielded
    cutOff,    \* history: lines a rotation or a truncation put out of its reach
    unfollowed,\* history: lines it had no tail on, or left when it ended
    doubled    \* history: it reopened another file than the one it had looked up

fileVars == <<content, path, writer, written, truncations>>
readerVars == <<tailPc, fh, pos, inode, cur>>
tailHistory == <<cutOff, unfollowed, doubled>>
tailVars == <<fileVars, readerVars, kills, out, tailHistory>>

Lines == 1..MaxLines
Inodes == 1..MaxInodes
TailPcs == {"exists", "open", "seek", "inode", "read", "stat", "reopen", "dead"}
Following == {"read", "stat", "reopen"}

TailTypeOK ==
    /\ content \in [Inodes -> Seq(Lines)]
    /\ {path, writer, fh, inode, cur} \subseteq {0} \union Inodes
    /\ written \in 0..MaxLines
    /\ truncations \in 0..MaxTruncations /\ kills \in 0..MaxKills
    /\ tailPc \in TailPcs
    /\ pos \in 0..MaxLines
    /\ out \in Seq(Lines)
    /\ cutOff \in SUBSET Lines /\ unfollowed \in SUBSET Lines
    /\ doubled \in BOOLEAN

TailInit ==
    /\ content = [i \in Inodes |-> <<>>]
    /\ path \in {0, 1} /\ writer = path
    /\ written = 0
    /\ truncations = 0 /\ kills = 0
    /\ tailPc = "exists" /\ fh = 0 /\ pos = 0 /\ inode = 0 /\ cur = 0
    /\ out = <<>>
    /\ cutOff = {} /\ unfollowed = {} /\ doubled = FALSE

Yielded == {out[k] : k \in DOMAIN out}
LinesOf(i) == {content[i][k] : k \in DOMAIN content[i]}

\* An inode no file has used yet.
Fresh == {i \in Inodes : i \notin {path, writer, fh, inode, cur} /\ content[i] = <<>>}

-----------------------------------------------------------------------------
(* rsyslog and the rotation                                                *)

\* The reader cannot come to the next line of this file: the file has lost its
\* name, the reader watches its inode and holds another file, the position is
\* past the end, or the reader holds no file at all.
OutOfReach(target) ==
    \/ path # target
    \/ inode = target /\ fh # target
    \/ fh = target /\ Len(content[target]) < pos
    \/ tailPc = "read" /\ fh = 0

Write ==
    LET l == written + 1 IN
    /\ written < MaxLines
    /\ writer # 0
    /\ written' = l
    /\ content' = [content EXCEPT ![writer] = Append(@, l)]
    /\ unfollowed' = IF tailPc \in Following THEN unfollowed ELSE unfollowed \union {l}
    /\ cutOff' = IF OutOfReach(writer) THEN cutOff \union {l} ELSE cutOff
    /\ UNCHANGED <<path, writer, truncations, readerVars, kills, out, doubled>>

\* rsyslog creates the file with its first line.
Create ==
    /\ written < MaxLines
    /\ writer = 0
    /\ written' = written + 1
    /\ path' = 1 /\ writer' = 1
    /\ content' = [content EXCEPT ![1] = <<written + 1>>]
    /\ unfollowed' = unfollowed \union {written + 1}
    /\ UNCHANGED <<truncations, readerVars, kills, out, cutOff, doubled>>

\* The name is taken away: what has not been yielded may be passed over.
Rename ==
    /\ path # 0
    /\ Fresh # {}
    /\ path' = 0
    /\ cutOff' = cutOff \union (LinesOf(path) \ Yielded)
    /\ UNCHANGED <<content, writer, written, truncations, readerVars, kills, out>>
    /\ UNCHANGED <<unfollowed, doubled>>

\* rsyslog reopens the file by its name, and creates it.
Reopen ==
    /\ writer # 0 /\ path = 0
    /\ \E i \in Fresh :
         /\ path' = i /\ writer' = i
    /\ UNCHANGED <<content, written, truncations, readerVars, kills, out, tailHistory>>

\* copytruncate: lines not yielded are gone, and the reader's position stays.
Truncate ==
    /\ path # 0
    /\ truncations < MaxTruncations
    /\ truncations' = truncations + 1
    /\ content' = [content EXCEPT ![path] = <<>>]
    /\ cutOff' = cutOff \union (LinesOf(path) \ Yielded)
    /\ UNCHANGED <<path, writer, written, readerVars, kills, out>>
    /\ UNCHANGED <<unfollowed, doubled>>

-----------------------------------------------------------------------------
(* The reader                                                              *)

Goto(from, to) == tailPc = from /\ tailPc' = to
ReaderOnly == UNCHANGED <<fileVars, kills, out, tailHistory>>

\* The process ends; the file is closed and what it had not read is left to
\* a successor that starts at the end.
DieAt(from) ==
    /\ Goto(from, "dead")
    /\ fh' = 0 /\ pos' = 0 /\ inode' = 0 /\ cur' = 0
    /\ unfollowed' = unfollowed \union ((1..written) \ Yielded)
    /\ UNCHANGED <<fileVars, out, cutOff, doubled>>

\* while not p.exists(): sleep
Exists ==
    /\ path # 0
    /\ Goto("exists", "open")
    /\ UNCHANGED <<fh, pos, inode, cur>>
    /\ ReaderOnly

OpenFile ==
    /\ path # 0
    /\ Goto("open", "seek")
    /\ fh' = path /\ pos' = 0
    /\ UNCHANGED <<inode, cur>>
    /\ ReaderOnly

OpenFails == path = 0 /\ DieAt("open") /\ UNCHANGED kills

Seek ==
    /\ Goto("seek", "inode")
    /\ pos' = Len(content[fh])
    /\ UNCHANGED <<fh, inode, cur>>
    /\ ReaderOnly

RememberInode ==
    /\ path # 0
    /\ Goto("inode", "read")
    /\ inode' = path
    /\ UNCHANGED <<fh, pos, cur>>
    /\ ReaderOnly

RememberInodeFails == path = 0 /\ DieAt("inode") /\ UNCHANGED kills

\* readline returns a line.
ReadLine ==
    /\ tailPc = "read" /\ fh # 0
    /\ pos < Len(content[fh])
    /\ out' = Append(out, content[fh][pos + 1])
    /\ pos' = pos + 1
    /\ UNCHANGED <<tailPc, fh, inode, cur, fileVars, kills, tailHistory>>

ReadEof ==
    /\ fh # 0
    /\ pos >= Len(content[fh])
    /\ Goto("read", "stat")
    /\ UNCHANGED <<fh, pos, inode, cur>>
    /\ ReaderOnly

\* readline on the file a failed reopening has left closed: ValueError.
ReadClosed == fh = 0 /\ DieAt("read") /\ UNCHANGED kills

\* The name is gone, or has the inode it had.
StatSame ==
    /\ path \in {0, inode}
    /\ Goto("stat", "read")
    /\ UNCHANGED <<fh, pos, inode, cur>>
    /\ ReaderOnly

\* Mutant: the new inode is never noticed.
MutStatChanged == FALSE /\ UNCHANGED tailVars

StatChanged ==
    /\ path \notin {0, inode}
    /\ Goto("stat", "reopen")
    /\ cur' = path
    /\ fh' = 0
    /\ UNCHANGED <<pos, inode>>
    /\ ReaderOnly

\* Mutant: the new file is read from where the old one was left.
MutReopenKeepsPos ==
    /\ path # 0
    /\ Goto("reopen", "read")
    /\ fh' = path /\ inode' = cur
    /\ doubled' = (doubled \/ path # cur)
    /\ UNCHANGED <<pos, cur, fileVars, kills, out, cutOff, unfollowed>>

\* The file that has the name now, and the inode the name had before.
ReopenFile ==
    /\ path # 0
    /\ Goto("reopen", "read")
    /\ fh' = path /\ pos' = 0 /\ inode' = cur
    /\ doubled' = (doubled \/ path # cur)
    /\ UNCHANGED <<cur, fileVars, kills, out, cutOff, unfollowed>>

\* FileNotFoundError is caught; the file stays closed.
ReopenFails ==
    /\ path = 0
    /\ Goto("reopen", "read")
    /\ cutOff' = cutOff \union ((1..written) \ Yielded)
    /\ UNCHANGED <<fh, pos, inode, cur, fileVars, kills, out, unfollowed, doubled>>

Restart ==
    /\ Goto("dead", "exists")
    /\ UNCHANGED <<fh, pos, inode, cur>>
    /\ ReaderOnly

Kill ==
    /\ tailPc # "dead"
    /\ kills < MaxKills
    /\ kills' = kills + 1
    /\ DieAt(tailPc)

ReaderStep ==
    \/ Exists
    \/ OpenFile \/ OpenFails
    \/ Seek
    \/ RememberInode \/ RememberInodeFails
    \/ ReadLine \/ ReadEof \/ ReadClosed
    \/ StatSame \/ StatChanged
    \/ ReopenFile \/ ReopenFails
    \/ Restart

TailNext ==
    \/ Write \/ Create \/ Rename \/ Reopen \/ Truncate
    \/ ReaderStep
    \/ Kill

TailSpec == TailInit /\ [][TailNext]_tailVars

\* The reader polls for ever and systemd restarts it; the rotation ends with
\* rsyslog being told to reopen.
TailFairSpec == TailSpec /\ WF_tailVars(ReaderStep) /\ WF_tailVars(Reopen)

-----------------------------------------------------------------------------
(* Properties                                                              *)

\* Lines the reader will still come to: behind its position, or in the file
\* that has taken over the name from the one it holds.
Ahead ==
    (IF fh = 0 THEN {} ELSE {content[fh][k] : k \in (pos + 1)..Len(content[fh])})
    \union (IF tailPc \in Following /\ path \notin {0, inode} THEN LinesOf(path) ELSE {})
    \union (IF tailPc = "reopen" /\ path # 0 THEN LinesOf(path) ELSE {})

\* However often the file is rotated or truncated and the service killed, a
\* line is passed over only if no tail was on it, or if it was unread when its
\* file lost its name or its content, or was written out of the reader's reach.
SkippedOnlyIfCutOff == 1..written \subseteq Yielded \union Ahead \union cutOff \union unfollowed

\* Lines come once and in the order they were written, also over rotations and
\* restarts, unless the name moved between the look-up and the reopening.
InOrder == ~doubled => \A j, k \in DOMAIN out : j < k => out[j] < out[k]

\* Every other line is yielded in the end: no rotation leaves the reader on a
\* file that nobody writes to.
EventuallyYielded ==
    \A l \in Lines : (l <= written) ~> (l \in Yielded \union cutOff \union unfollowed)

\* Both: what the log of connections is given is the kernel's, in its order.
LinesComeThrough == SkippedOnlyIfCutOff /\ InOrder
=============================================================================
