--------------------------- MODULE Connections_proofs ---------------------------
(***************************************************************************)
(* What is recorded of connections.  For any number of lines, inodes and   *)
(* rotations, each log line is read once and in order; for any number of   *)
(* connections on a flow and of repeated segments, and any sizes of the    *)
(* buffers, a fingerprint is that of one client's whole hello, and every   *)
(* client that finds the flow clean has its fingerprint.                   *)
(***************************************************************************)
EXTENDS ConnlogTail, PacketCapture, SequenceTheorems, FiniteSetTheorems, TLAPS

-----------------------------------------------------------------------------
(* The connection log                                                      *)

-----------------------------------------------------------------------------
(* The invariant                                                           *)

\* What rsyslog and the rotation keep: only the file rsyslog has open may have
\* the name, lines are in the order they were written within a file, and those
\* of the open file come after those of every other.
LinesInOrder ==
  /\ \A i \in Inodes : Len(content[i]) <= written
  /\ \A i \in Inodes : \A k \in DOMAIN content[i] : content[i][k] <= written
  /\ \A i \in Inodes : \A k, m \in DOMAIN content[i] : k < m => content[i][k] < content[i][m]
NewestFile ==
  writer # 0 =>
    \A i \in Inodes \ {writer} : \A k \in DOMAIN content[i], m \in DOMAIN content[writer] :
      content[i][k] < content[writer][m]
OnlyWritten == \A k \in DOMAIN out : out[k] <= written
FilesInv ==
  /\ path \in {0, writer}
  /\ writer = 0 => written = 0
  /\ LinesInOrder /\ NewestFile /\ OnlyWritten

\* Where the reader has a file open.
PlaceInv ==
  /\ tailPc \in {"exists", "open", "dead", "reopen"} => fh = 0
  /\ tailPc \in {"seek", "inode", "stat"} => fh # 0
  /\ writer = 0 => fh = 0

\* l is one of the lines of file i past position from.
RestOf(files, i, from, l) == \E k \in DOMAIN files[i] : k > from /\ files[i][k] = l

\* The file that has taken over the name from the one the reader holds.
TakenOver == (tailPc \in Following /\ path \notin {0, inode}) \/ (tailPc = "reopen" /\ path # 0)

\* Every line is accounted for; without the reader doing anything more, while
\* no tail is on the file, and where it is unread in a file that has lost its
\* name.
Covered == Yielded \union cutOff \union unfollowed
Accounted(l) ==
  \/ l \in Covered
  \/ fh # 0 /\ RestOf(content, fh, pos, l)
  \/ TakenOver /\ RestOf(content, path, 0, l)
ReachInv ==
  /\ tailPc \notin Following => 1..written \subseteq Covered
  /\ fh # 0 /\ fh # path => \A l \in 1..written : RestOf(content, fh, pos, l) => l \in Covered
  /\ \A l \in 1..written : Accounted(l)

\* What the reader will come to was written after all it has yielded: the rest
\* of its file, from the seek on, and the file that has taken over the name.
AfterAll(files, yielded, i, from) ==
  \A k \in DOMAIN yielded, m \in DOMAIN files[i] : m > from => yielded[k] < files[i][m]
OrderInv ==
  ~doubled =>
    /\ InOrder
    /\ fh # 0 /\ tailPc # "seek" => AfterAll(content, out, fh, pos)
    /\ TakenOver => AfterAll(content, out, path, 0) /\ fh # path

TailInv == TailTypeOK /\ FilesInv /\ PlaceInv /\ ReachInv /\ OrderInv

-----------------------------------------------------------------------------
(* What the steps do to the files                                          *)

LEMMA TypeFacts ==
  ASSUME TailTypeOK
  PROVE  /\ path \in {0} \union Inodes /\ writer \in {0} \union Inodes
         /\ fh \in {0} \union Inodes /\ inode \in {0} \union Inodes /\ cur \in {0} \union Inodes
         /\ \A i \in Inodes :
              /\ content[i] \in Seq(Lines) /\ Len(content[i]) \in Nat
              /\ DOMAIN content[i] = 1..Len(content[i])
              /\ \A k \in DOMAIN content[i] : content[i][k] \in Lines
         /\ out \in Seq(Lines) /\ Len(out) \in Nat /\ DOMAIN out = 1..Len(out)
         /\ \A k \in DOMAIN out : out[k] \in Lines
         /\ written \in Nat /\ pos \in Nat
<1>1. /\ path \in {0} \union Inodes /\ writer \in {0} \union Inodes
      /\ fh \in {0} \union Inodes /\ inode \in {0} \union Inodes /\ cur \in {0} \union Inodes
  BY DEF TailTypeOK
<1>2. ASSUME NEW i \in Inodes
      PROVE  /\ content[i] \in Seq(Lines) /\ Len(content[i]) \in Nat
             /\ DOMAIN content[i] = 1..Len(content[i])
             /\ \A k \in DOMAIN content[i] : content[i][k] \in Lines
  <2>1. content[i] \in Seq(Lines)
    BY DEF TailTypeOK
  <2> QED BY <2>1, ElementOfSeq
<1>3. /\ out \in Seq(Lines) /\ Len(out) \in Nat /\ DOMAIN out = 1..Len(out)
      /\ \A k \in DOMAIN out : out[k] \in Lines
  <2>1. out \in Seq(Lines)
    BY DEF TailTypeOK
  <2> QED BY <2>1, ElementOfSeq
<1>4. written \in Nat /\ pos \in Nat
  BY DEF TailTypeOK
<1> QED BY <1>1, <1>2, <1>3, <1>4

\* A line goes to the end of rsyslog's file, and no other file changes.
Grown ==
  /\ writer \in Inodes /\ written' = written + 1 /\ written < MaxLines
  /\ content' \in [Inodes -> Seq(Lines)]
  /\ \A i \in Inodes : i # writer => content'[i] = content[i]
  /\ Len(content'[writer]) = Len(content[writer]) + 1
  /\ DOMAIN content'[writer] = 1..(Len(content[writer]) + 1)
  /\ \A k \in 1..Len(content[writer]) : content'[writer][k] = content[writer][k]
  /\ content'[writer][Len(content[writer]) + 1] = written + 1

LEMMA WriteFact ==
  ASSUME TailTypeOK, Write PROVE Grown
<1>1. written < MaxLines /\ writer # 0 /\ written' = written + 1
      /\ content' = [content EXCEPT ![writer] = Append(@, written + 1)]
  BY DEF Write
<1>2. writer \in Inodes /\ content[writer] \in Seq(Lines) /\ written + 1 \in Lines
  BY <1>1, BoundsAssumption, TypeFacts DEF Lines
<1> DEFINE c == content[writer]
<1>3. /\ Append(c, written + 1) \in Seq(Lines)
      /\ Len(Append(c, written + 1)) = Len(c) + 1
      /\ DOMAIN Append(c, written + 1) = 1..(Len(c) + 1)
      /\ \A k \in 1..Len(c) : Append(c, written + 1)[k] = c[k]
      /\ Append(c, written + 1)[Len(c) + 1] = written + 1
  BY <1>2, AppendProperties
<1>4. content'[writer] = Append(c, written + 1)
  BY <1>1, <1>2 DEF TailTypeOK
<1>5. content' \in [Inodes -> Seq(Lines)]
  BY <1>1, <1>2, <1>3 DEF TailTypeOK
<1>6. \A i \in Inodes : i # writer => content'[i] = content[i]
  BY <1>1 DEF TailTypeOK
<1> QED BY <1>1, <1>2, <1>3, <1>4, <1>5, <1>6 DEF Grown

\* rsyslog's first line, before which there was none.
Created ==
  /\ written' = written + 1 /\ written < MaxLines /\ written' \in Lines
  /\ 1 \in Inodes
  /\ content' \in [Inodes -> Seq(Lines)]
  /\ \A i \in Inodes : i # 1 => content'[i] = content[i]
  /\ Len(content'[1]) = 1 /\ DOMAIN content'[1] = {1} /\ content'[1][1] = written'

LEMMA CreateFact ==
  ASSUME TailTypeOK, Create PROVE Created
<1>1. written + 1 \in Lines /\ 1 \in Inodes /\ written < MaxLines /\ written' = written + 1
  BY BoundsAssumption DEF Create, TailTypeOK, Lines, Inodes
<1>2. content' = [content EXCEPT ![1] = <<written + 1>>]
  BY DEF Create
<1>3. <<written + 1>> \in Seq(Lines)
  BY <1>1
<1>4. content' \in [Inodes -> Seq(Lines)] /\ content'[1] = <<written + 1>>
      /\ \A i \in Inodes : i # 1 => content'[i] = content[i]
  BY <1>1, <1>2, <1>3 DEF TailTypeOK
<1> QED BY <1>1, <1>4 DEF Created

\* A truncation empties the file that has the name.
Emptied ==
  /\ path \in Inodes /\ written' = written
  /\ content' \in [Inodes -> Seq(Lines)]
  /\ \A i \in Inodes : i # path => content'[i] = content[i]
  /\ content'[path] = <<>> /\ Len(content'[path]) = 0 /\ DOMAIN content'[path] = {}

LEMMA TruncateFact ==
  ASSUME TailTypeOK, Truncate PROVE Emptied
<1>1. path \in Inodes /\ content' = [content EXCEPT ![path] = <<>>] /\ written' = written
  BY TypeFacts DEF Truncate
<1>2. <<>> \in Seq(Lines)
  OBVIOUS
<1> QED BY <1>1, <1>2 DEF Emptied, TailTypeOK

\* The reader takes a line.
Taken ==
  /\ fh \in Inodes /\ pos + 1 \in DOMAIN content[fh] /\ pos' = pos + 1
  /\ out' \in Seq(Lines) /\ DOMAIN out' = 1..(Len(out) + 1)
  /\ \A k \in 1..Len(out) : out'[k] = out[k]
  /\ out'[Len(out) + 1] = content[fh][pos + 1]

LEMMA ReadFact ==
  ASSUME TailTypeOK, ReadLine PROVE Taken
<1>1. fh \in Inodes /\ pos + 1 \in DOMAIN content[fh] /\ pos' = pos + 1
      /\ out' = Append(out, content[fh][pos + 1])
  BY TypeFacts DEF ReadLine
<1>2. content[fh][pos + 1] \in Lines /\ out \in Seq(Lines)
  BY <1>1, TypeFacts
<1> QED BY <1>1, <1>2, AppendProperties DEF Taken

\* The steps that change nothing but where the reader is.
Elsewhere ==
  /\ UNCHANGED <<content, writer, written, out, doubled>>
  /\ cutOff \subseteq cutOff' /\ unfollowed \subseteq unfollowed'

-----------------------------------------------------------------------------
(* Types and files                                                         *)

LEMMA TypeStep ==
  ASSUME TailTypeOK, FilesInv, PlaceInv, [TailNext]_tailVars
  PROVE  TailTypeOK'
<1> USE BoundsAssumption DEF fileVars, readerVars, tailHistory, ReaderOnly, Goto, TailPcs
<1>f. /\ LinesOf(path) \subseteq Lines \/ path = 0
      /\ 1..written \subseteq Lines
  BY TypeFacts DEF LinesOf, TailTypeOK, Lines
<1>1. CASE Write
  <2>1. Grown /\ written + 1 \in Lines
    BY <1>1, WriteFact DEF Grown, TailTypeOK, Lines
  <2>2. cutOff' \in SUBSET Lines /\ unfollowed' \in SUBSET Lines
    BY <1>1, <2>1 DEF Write, TailTypeOK
  <2>3. content' \in [Inodes -> Seq(Lines)] /\ written' \in 0..MaxLines
    BY <2>1 DEF Grown, TailTypeOK
  <2> QED BY <1>1, <2>2, <2>3 DEF Write, TailTypeOK
<1>2. CASE Create
  BY <1>2, CreateFact DEF Create, TailTypeOK, Created
<1>3. CASE Rename
  BY <1>3, <1>f DEF Rename, TailTypeOK
<1>4. CASE Reopen
  BY <1>4 DEF Reopen, TailTypeOK, Fresh
<1>5. CASE Truncate
  <2>1. cutOff' \in SUBSET Lines /\ truncations' \in 0..MaxTruncations
    BY <1>5, <1>f DEF Truncate, TailTypeOK
  <2> QED BY <1>5, <2>1, TruncateFact DEF Truncate, TailTypeOK, Emptied
<1>6. CASE Exists \/ OpenFile \/ RememberInode \/ ReadEof \/ StatSame \/ StatChanged \/ Restart
  BY <1>6 DEF Exists, OpenFile, RememberInode, ReadEof, StatSame, StatChanged, Restart, TailTypeOK
<1>7. CASE Seek
  <2>1. pos' \in 0..MaxLines
    BY <1>7, TypeFacts DEF Seek, TailTypeOK, PlaceInv, FilesInv, LinesInOrder
  <2> QED BY <1>7, <2>1 DEF Seek, TailTypeOK
<1>8. CASE ReadLine
  <2>1. pos' \in 0..MaxLines
    BY <1>8, ReadFact, TypeFacts DEF Taken, TailTypeOK, FilesInv, LinesInOrder
  <2> QED BY <1>8, <2>1, ReadFact DEF ReadLine, TailTypeOK, Taken
<1>9. CASE ReopenFile \/ ReopenFails
  <2>1. doubled' \in BOOLEAN
    BY <1>9, Zenon DEF ReopenFile, ReopenFails, TailTypeOK
  <2>2. cutOff' \in SUBSET Lines
    BY <1>9, <1>f DEF ReopenFile, ReopenFails, TailTypeOK
  <2> QED BY <1>9, <2>1, <2>2 DEF ReopenFile, ReopenFails, TailTypeOK
<1>10. ASSUME NEW at, DieAt(at), kills' \in 0..MaxKills PROVE TailTypeOK'
  <2>1. unfollowed' \in SUBSET Lines
    BY <1>10, <1>f DEF DieAt, TailTypeOK
  <2>2. /\ tailPc' = "dead" /\ fh' = 0 /\ pos' = 0 /\ inode' = 0 /\ cur' = 0
        /\ UNCHANGED <<content, path, writer, written, truncations, out, cutOff, doubled>>
    BY <1>10 DEF DieAt
  <2>3. 0 \in 0..MaxLines
    OBVIOUS
  <2>4. {path', writer', fh', inode', cur'} \subseteq {0} \union Inodes
    BY <2>2, TypeFacts
  <2>5. kills' \in 0..MaxKills
    BY <1>10
  <2> QED BY <2>1, <2>2, <2>3, <2>4, <2>5 DEF TailTypeOK
<1>11. CASE OpenFails \/ RememberInodeFails \/ ReadClosed \/ Kill
  BY <1>10, <1>11 DEF OpenFails, RememberInodeFails, ReadClosed, Kill, TailTypeOK
<1>12. CASE UNCHANGED tailVars
  BY <1>12 DEF tailVars, TailTypeOK
<1> QED
  BY <1>1, <1>2, <1>3, <1>4, <1>5, <1>6, <1>7, <1>8, <1>9, <1>11, <1>12
  DEF TailNext, ReaderStep

\* The reader touches no file.
LEMMA ReaderKeepsFiles ==
  ASSUME ReaderStep \/ Kill
  PROVE  UNCHANGED fileVars
BY DEF ReaderStep, Kill, Exists, OpenFile, OpenFails, Seek, RememberInode, RememberInodeFails,
       ReadLine, ReadEof, ReadClosed, StatSame, StatChanged, ReopenFile, ReopenFails, Restart,
       DieAt, ReaderOnly, fileVars

LEMMA ReaderKeepsLog ==
  ASSUME ReaderStep \/ Kill
  PROVE  ReadLine \/ out' = out
BY DEF ReaderStep, Kill, Exists, OpenFile, OpenFails, Seek, RememberInode, RememberInodeFails,
       ReadEof, ReadClosed, StatSame, StatChanged, ReopenFile, ReopenFails, Restart,
       DieAt, ReaderOnly

LEMMA FilesStep ==
  ASSUME TailTypeOK, TailTypeOK', FilesInv, [TailNext]_tailVars
  PROVE  FilesInv'
<1> USE DEF FilesInv, LinesInOrder, NewestFile, OnlyWritten
<1>t. /\ path \in {0} \union Inodes /\ writer \in {0} \union Inodes /\ written \in Nat
      /\ \A i \in Inodes : /\ Len(content[i]) \in Nat /\ DOMAIN content[i] = 1..Len(content[i])
                           /\ \A k \in DOMAIN content[i] : content[i][k] \in Nat
      /\ \A k \in DOMAIN out : out[k] \in Nat
      /\ 0 \notin Inodes
  BY TypeFacts DEF Lines, Inodes
<1>1. CASE Write
  <2>1. Grown /\ UNCHANGED <<path, writer, out>>
    BY <1>1, WriteFact DEF Write
  <2>2. LinesInOrder'
    <3>1. ASSUME NEW i \in Inodes
          PROVE  /\ Len(content'[i]) <= written'
                 /\ \A k \in DOMAIN content'[i] : content'[i][k] <= written'
                 /\ \A k, m \in DOMAIN content'[i] : k < m => content'[i][k] < content'[i][m]
      <4>1. CASE i = writer
        <5>1. Len(content[i]) <= written
              /\ (\A k \in 1..Len(content[i]) : content[i][k] <= written /\ content[i][k] \in Nat)
          BY <1>t
        <5>2. \A k \in DOMAIN content'[i] : k \in 1..Len(content[i]) \/ k = Len(content[i]) + 1
          BY <1>t, <2>1, <4>1 DEF Grown
        <5>3. /\ Len(content'[i]) = Len(content[i]) + 1 /\ written' = written + 1
              /\ content'[i][Len(content[i]) + 1] = written + 1
              /\ \A k \in 1..Len(content[i]) : content'[i][k] = content[i][k]
          BY <2>1, <4>1 DEF Grown
        <5>4. \A k \in DOMAIN content'[i] : content'[i][k] <= written'
          <6> SUFFICES ASSUME NEW k \in DOMAIN content'[i] PROVE content'[i][k] <= written'
            OBVIOUS
          <6>1. CASE k = Len(content[i]) + 1
            BY <1>t, <5>3, <6>1
          <6>2. CASE k \in 1..Len(content[i])
            <7>1. content'[i][k] = content[i][k] /\ content[i][k] <= written /\ content[i][k] \in Nat
              BY <5>1, <5>3, <6>2
            <7> QED BY <1>t, <5>3, <7>1
          <6> QED BY <5>2, <6>1, <6>2
        <5>5. \A k, m \in DOMAIN content'[i] : k < m => content'[i][k] < content'[i][m]
          <6> SUFFICES ASSUME NEW k \in DOMAIN content'[i], NEW m \in DOMAIN content'[i], k < m
                       PROVE  content'[i][k] < content'[i][m]
            OBVIOUS
          <6>1. k \in 1..Len(content[i])
            BY <1>t, <5>2
          <6>2. CASE m = Len(content[i]) + 1
            BY <1>t, <5>1, <5>3, <6>1, <6>2
          <6>3. CASE m \in 1..Len(content[i])
            <7>1. content[i][k] < content[i][m]
              BY <1>t, <6>1, <6>3
            <7> QED BY <5>3, <6>1, <6>3, <7>1
          <6> QED BY <5>2, <6>2, <6>3
        <5> QED BY <1>t, <5>1, <5>3, <5>4, <5>5
      <4>2. CASE i # writer
        BY <1>t, <2>1, <4>2 DEF Grown
      <4> QED BY <4>1, <4>2
    <3> QED BY <3>1
  <2>3. NewestFile'
    <3> SUFFICES ASSUME NEW i \in Inodes \ {writer}, NEW k \in DOMAIN content'[i],
                        NEW m \in DOMAIN content'[writer]
                 PROVE  content'[i][k] < content'[writer][m]
      BY <2>1
    <3>1. content'[i] = content[i] /\ content[i][k] <= written /\ content[i][k] \in Nat
      BY <1>t, <2>1 DEF Grown
    <3>2. CASE m = Len(content[writer]) + 1
      BY <1>t, <2>1, <3>1, <3>2 DEF Grown
    <3>3. CASE m \in DOMAIN content[writer]
      BY <1>t, <2>1, <3>1, <3>3 DEF Grown
    <3> QED BY <1>t, <2>1, <3>2, <3>3 DEF Grown
  <2>4. OnlyWritten'
    BY <1>t, <2>1 DEF Grown
  <2>5. (path \in {0, writer} /\ (writer = 0 => written = 0))'
    BY <1>t, <2>1 DEF Grown, Inodes
  <2> QED BY <2>2, <2>3, <2>4, <2>5 DEF FilesInv
<1>2. CASE Create
  <2>1. Created /\ path' = 1 /\ writer' = 1 /\ out' = out /\ writer = 0
    BY <1>2, CreateFact DEF Create
  <2>2. ASSUME NEW i \in Inodes PROVE DOMAIN content[i] = {} /\ Len(content[i]) = 0
    <3>1. Len(content[i]) <= written /\ written = 0
      BY <2>1
    <3> QED BY <1>t, <3>1
  <2>3. ASSUME NEW i \in Inodes \ {1} PROVE DOMAIN content'[i] = {} /\ Len(content'[i]) = 0
    BY <2>1, <2>2 DEF Created
  <2>4. LinesInOrder'
    <3>1. ASSUME NEW i \in Inodes
          PROVE  /\ Len(content'[i]) <= written'
                 /\ \A k \in DOMAIN content'[i] : content'[i][k] <= written'
                 /\ \A k, m \in DOMAIN content'[i] : k < m => content'[i][k] < content'[i][m]
      <4>1. CASE i = 1
        <5>1. /\ Len(content'[i]) = 1 /\ DOMAIN content'[i] = {1}
              /\ content'[i][1] = written' /\ written' \in Nat \ {0}
          BY <2>1, <4>1 DEF Created, Lines
        <5> QED BY <5>1
      <4>2. CASE i # 1
        <5>1. written' \in Nat
          BY <1>t, <2>1 DEF Created
        <5>2. DOMAIN content'[i] = {} /\ Len(content'[i]) = 0
          BY <2>3, <4>2
        <5> QED BY <5>1, <5>2
      <4> QED BY <4>1, <4>2
    <3> QED BY <3>1
  <2>5. NewestFile'
    BY <2>1, <2>3
  <2>6. OnlyWritten'
    BY <1>t, <2>1 DEF Created
  <2>7. (path \in {0, writer} /\ (writer = 0 => written = 0))'
    BY <2>1
  <2> QED BY <2>4, <2>5, <2>6, <2>7 DEF FilesInv
<1>3. CASE Rename
  BY <1>3 DEF Rename
<1>4. CASE Reopen
  <2>1. PICK i \in Fresh : path' = i /\ writer' = i
    BY <1>4 DEF Reopen
  <2>2. UNCHANGED <<content, written, out>> /\ i \in Inodes /\ content[i] = <<>> /\ i # 0 /\ writer # 0
    BY <1>4, <2>1 DEF Reopen, Fresh, Inodes
  <2>3. DOMAIN content[i] = {}
    BY <2>2
  <2> QED BY <1>t, <2>1, <2>2, <2>3
<1>5. CASE Truncate
  <2>1. Emptied /\ UNCHANGED <<path, writer, out>>
    BY <1>5, TruncateFact DEF Truncate
  <2>2. LinesInOrder'
    BY <1>t, <2>1 DEF Emptied
  <2>3. NewestFile'
    BY <1>t, <2>1 DEF Emptied
  <2>4. OnlyWritten'
    BY <1>t, <2>1 DEF Emptied
  <2>5. (path \in {0, writer} /\ (writer = 0 => written = 0))'
    BY <1>t, <2>1 DEF Emptied, Inodes
  <2> QED BY <2>2, <2>3, <2>4, <2>5 DEF FilesInv
<1>6. CASE ReaderStep \/ Kill
  <2>1. UNCHANGED <<content, path, writer, written>>
    BY <1>6, ReaderKeepsFiles DEF fileVars
  <2>2. CASE ReadLine
    BY <1>t, <2>1, <2>2, ReadFact, TypeFacts DEF Taken
  <2> QED BY <1>6, <2>1, <2>2, ReaderKeepsLog
<1>7. CASE UNCHANGED tailVars
  BY <1>7 DEF tailVars, fileVars
<1> QED BY <1>1, <1>2, <1>3, <1>4, <1>5, <1>6, <1>7 DEF TailNext

LEMMA PlaceStep ==
  ASSUME TailTypeOK, FilesInv, PlaceInv, [TailNext]_tailVars
  PROVE  PlaceInv'
<1> USE DEF PlaceInv, FilesInv, fileVars, readerVars, ReaderOnly, Goto
<1>1. CASE Write \/ Rename \/ Truncate \/ UNCHANGED tailVars
  BY <1>1 DEF Write, Rename, Truncate, tailVars
<1>2. CASE Create \/ Reopen
  BY <1>2 DEF Create, Reopen, Fresh, Inodes
<1>3. CASE ReaderStep \/ Kill
  BY <1>3 DEF ReaderStep, Kill, Exists, OpenFile, OpenFails, Seek, RememberInode,
     RememberInodeFails, ReadLine, ReadEof, ReadClosed, StatSame, StatChanged, ReopenFile,
     ReopenFails, Restart, DieAt
<1> QED BY <1>1, <1>2, <1>3 DEF TailNext

-----------------------------------------------------------------------------
(* Which lines are passed over                                             *)

LEMMA RestIsWritten ==
  ASSUME TailTypeOK, FilesInv, NEW i \in Inodes, NEW from, NEW l, RestOf(content, i, from, l)
  PROVE  l \in 1..written
<1>1. PICK k \in DOMAIN content[i] : content[i][k] = l
  BY DEF RestOf
<1>2. l \in Lines /\ l <= written /\ written \in Nat
  BY <1>1, TypeFacts DEF FilesInv, LinesInOrder
<1> QED BY <1>2 DEF Lines

\* Once every line is accounted for, it is wherever the reader is.
LEMMA AllCovered ==
  TailTypeOK /\ FilesInv /\ 1..written \subseteq Covered => ReachInv
BY DEF ReachInv, Accounted

LEMMA WriteReach ==
  ASSUME TailTypeOK, FilesInv, ReachInv, Write PROVE ReachInv'
<1>1. /\ Grown /\ UNCHANGED <<path, writer, readerVars, out>> /\ written \in Nat
      /\ unfollowed' = IF tailPc \in Following THEN unfollowed ELSE unfollowed \union {written + 1}
      /\ cutOff' = IF OutOfReach(writer) THEN cutOff \union {written + 1} ELSE cutOff
  BY WriteFact, TypeFacts DEF Write
<1>2. UNCHANGED <<tailPc, fh, pos, inode, cur, path, writer, out>>
  BY <1>1 DEF readerVars
<1>3. 1..written' = 1..written \union {written + 1}
  BY <1>1 DEF Grown
<1>4. Yielded' = Yielded /\ Covered \subseteq Covered' /\ (TakenOver' <=> TakenOver)
  BY <1>1, <1>2 DEF Yielded, Covered, TakenOver
<1>5. ASSUME NEW i \in Inodes, NEW from, NEW l, RestOf(content, i, from, l)
      PROVE  RestOf(content', i, from, l)
  <2>1. PICK k \in DOMAIN content[i] : k > from /\ content[i][k] = l
    BY <1>5 DEF RestOf
  <2>2. k \in 1..Len(content[i])
    BY <2>1, TypeFacts
  <2>3. CASE i = writer
    <3>1. Len(content[i]) \in Nat
      BY TypeFacts
    <3>2. k \in DOMAIN content'[i] /\ content'[i][k] = content[i][k]
      BY <1>1, <2>2, <2>3, <3>1 DEF Grown
    <3> QED BY <2>1, <3>2 DEF RestOf
  <2>4. CASE i # writer
    BY <1>1, <2>1, <2>4 DEF Grown, RestOf
  <2> QED BY <2>3, <2>4
<1>6. ASSUME NEW i \in Inodes, NEW from, NEW l, RestOf(content', i, from, l)
      PROVE  RestOf(content, i, from, l) \/ (i = writer /\ l = written + 1)
  <2>1. CASE i = writer
    <3>1. PICK k \in 1..(Len(content[i]) + 1) : k > from /\ content'[i][k] = l
      BY <1>1, <1>6, <2>1 DEF Grown, RestOf
    <3>2. CASE k = Len(content[i]) + 1
      BY <1>1, <2>1, <3>1, <3>2 DEF Grown
    <3>3. CASE k \in DOMAIN content[i]
      BY <1>1, <2>1, <3>1, <3>3, TypeFacts DEF Grown, RestOf
    <3>4. Len(content[i]) \in Nat /\ DOMAIN content[i] = 1..Len(content[i])
      BY TypeFacts
    <3> QED BY <3>1, <3>2, <3>3, <3>4
  <2>2. CASE i # writer
    BY <1>1, <1>6, <2>2 DEF Grown, RestOf
  <2> QED BY <2>1, <2>2
<1>7. tailPc' \notin Following => 1..written' \subseteq Covered'
  BY <1>1, <1>2, <1>3, <1>4 DEF ReachInv, Covered
<1>8. ASSUME fh # 0, fh # path, NEW l \in 1..written', RestOf(content', fh, pos, l)
      PROVE  l \in Covered'
  <2>1. fh \in Inodes
    BY <1>8, TypeFacts
  <2>2. CASE RestOf(content, fh, pos, l)
    BY <1>4, <1>8, <2>1, <2>2, RestIsWritten DEF ReachInv
  <2>3. CASE fh = writer /\ l = written + 1
    BY <1>1, <1>8, <2>3 DEF OutOfReach, Covered
  <2> QED BY <1>6, <1>8, <2>1, <2>2, <2>3
<1>9. ASSUME NEW l \in 1..written PROVE Accounted(l)'
  <2>1. Accounted(l)
    BY DEF ReachInv
  <2>2. TakenOver => path \in Inodes
    BY TypeFacts DEF TakenOver
  <2>3. fh # 0 => fh \in Inodes
    BY TypeFacts
  <2> QED BY <1>2, <1>4, <1>5, <2>1, <2>2, <2>3 DEF Accounted
<1>10. Accounted(written)'
  <2>1. CASE tailPc \notin Following \/ OutOfReach(writer)
    BY <1>1, <2>1 DEF Accounted, Covered, Grown
  <2>2. CASE tailPc \in Following /\ ~OutOfReach(writer) /\ fh = writer
    <3>1. pos <= Len(content[writer]) /\ fh # 0
      BY <1>1, <2>2, TypeFacts DEF OutOfReach, Grown, Inodes
    <3>2. RestOf(content', fh, pos, written + 1)
      <4> DEFINE last == Len(content[writer]) + 1
      <4>1. last > pos
        BY <1>1, <3>1, TypeFacts DEF Grown
      <4>2. last \in DOMAIN content'[writer] /\ content'[writer][last] = written + 1
        BY <1>1, TypeFacts DEF Grown
      <4> HIDE DEF last
      <4> QED BY <2>2, <4>1, <4>2 DEF RestOf
    <3> QED BY <1>1, <1>2, <3>1, <3>2 DEF Accounted, Grown
  <2>3. CASE tailPc \in Following /\ ~OutOfReach(writer) /\ fh # writer
    <3>1. path = writer /\ inode # path /\ path # 0
      BY <1>1, <2>3 DEF OutOfReach, Grown, Inodes
    <3>2. RestOf(content', path, 0, written + 1)
      <4> DEFINE last == Len(content[writer]) + 1
      <4>1. last > 0
        BY <1>1, TypeFacts DEF Grown
      <4>2. last \in DOMAIN content'[writer] /\ content'[writer][last] = written + 1
        BY <1>1, TypeFacts DEF Grown
      <4> HIDE DEF last
      <4> QED BY <3>1, <4>1, <4>2 DEF RestOf
    <3> QED BY <1>1, <1>2, <2>3, <3>1, <3>2 DEF Accounted, TakenOver, Grown
  <2> QED BY <2>1, <2>2, <2>3
<1>11. \A l \in 1..written' : Accounted(l)'
  BY <1>1, <1>3, <1>9, <1>10 DEF Grown
<1> QED BY <1>2, <1>7, <1>8, <1>11 DEF ReachInv

\* The name goes, or the content: what was unread of it is cut off.
LEMMA RotationReach ==
  ASSUME TailTypeOK, FilesInv, PlaceInv, ReachInv, Rename \/ Reopen \/ Truncate
  PROVE  ReachInv'
<1> USE DEF readerVars, tailHistory
<1>1. UNCHANGED <<tailPc, fh, pos, inode, written, out, unfollowed>>
  BY DEF Rename, Reopen, Truncate
<1>2. Yielded' = Yielded /\ cutOff \subseteq cutOff' /\ Covered \subseteq Covered'
  BY <1>1 DEF Rename, Reopen, Truncate, Yielded, Covered
<1>3. tailPc' \notin Following => 1..written' \subseteq Covered'
  BY <1>1, <1>2 DEF ReachInv
<1>4. ASSUME path # 0, LinesOf(path) \ Yielded \subseteq cutOff', NEW from, NEW l,
             RestOf(content, path, from, l)
      PROVE  l \in Covered'
  BY <1>2, <1>4 DEF RestOf, LinesOf, Covered
<1>5. CASE Rename
  <2>1. path # 0 /\ path' = 0 /\ content' = content /\ LinesOf(path) \ Yielded \subseteq cutOff'
    BY <1>5 DEF Rename
  <2>2. ASSUME fh # 0, NEW l \in 1..written, RestOf(content, fh, pos, l), fh # path
        PROVE  l \in Covered'
    BY <1>2, <2>2 DEF ReachInv
  <2>3. ASSUME NEW l \in 1..written PROVE Accounted(l)'
    <3>1. Accounted(l)
      BY DEF ReachInv
    <3> QED BY <1>1, <1>2, <1>4, <2>1, <3>1 DEF Accounted
  <2> QED BY <1>1, <1>3, <1>4, <2>1, <2>2, <2>3 DEF ReachInv
<1>6. CASE Reopen
  <2>1. path = 0 /\ content' = content
    BY <1>6 DEF Reopen
  <2>2. ASSUME NEW l \in 1..written PROVE Accounted(l)'
    <3>1. Accounted(l) /\ ~TakenOver
      BY <2>1 DEF ReachInv, TakenOver
    <3> QED BY <1>1, <1>2, <2>1, <3>1 DEF Accounted
  <2> QED BY <1>1, <1>2, <1>3, <2>1, <2>2 DEF ReachInv
<1>7. CASE Truncate
  <2>1. Emptied /\ path # 0 /\ path' = path /\ LinesOf(path) \ Yielded \subseteq cutOff'
    BY <1>7, TruncateFact DEF Truncate
  <2>2. ASSUME fh # 0, fh # path, NEW from, NEW l
        PROVE  RestOf(content', fh, from, l) <=> RestOf(content, fh, from, l)
    <3>1. content'[fh] = content[fh]
      BY <2>1, <2>2, TypeFacts DEF Emptied
    <3> QED BY <3>1 DEF RestOf
  <2>3. ASSUME NEW l \in 1..written PROVE Accounted(l)'
    <3>1. Accounted(l)
      BY DEF ReachInv
    <3>2. CASE l \in Covered \/ RestOf(content, path, 0, l) \/ (fh = path /\ RestOf(content, path, pos, l))
      BY <1>2, <1>4, <2>1, <3>2 DEF Accounted
    <3>3. CASE fh # 0 /\ fh # path /\ RestOf(content, fh, pos, l)
      BY <1>1, <2>2, <3>3 DEF Accounted
    <3> QED BY <3>1, <3>2, <3>3 DEF Accounted
  <2> QED BY <1>1, <1>2, <1>3, <2>1, <2>2, <2>3 DEF ReachInv
<1> QED BY <1>5, <1>6, <1>7

\* A reader with the file open goes on.
LEMMA FollowReach ==
  ASSUME TailTypeOK, FilesInv, PlaceInv, ReachInv,
         ReadLine \/ ReadEof \/ StatSame \/ StatChanged \/ ReopenFile
  PROVE  ReachInv'
<1> USE DEF fileVars, tailHistory, ReaderOnly, Goto
<1>1. UNCHANGED <<content, path, written, cutOff, unfollowed>>
      /\ tailPc' \in Following
  BY DEF ReadLine, ReadEof, StatSame, StatChanged, ReopenFile, Following
<1>2. CASE ReadLine
  <2>1. /\ Taken /\ tailPc = "read" /\ tailPc' = tailPc /\ fh' = fh /\ inode' = inode
    BY <1>2, ReadFact DEF ReadLine
  <2>2. Covered \subseteq Covered'
    <3>1. Yielded \subseteq Yielded'
      BY <2>1, TypeFacts DEF Taken, Yielded
    <3> QED BY <1>1, <3>1 DEF Covered
  <2>3. content[fh][pos + 1] \in Covered'
    <3>1. content[fh][pos + 1] \in Yielded'
      BY <2>1, TypeFacts DEF Taken, Yielded
    <3> QED BY <3>1 DEF Covered
  <2>4. ASSUME NEW l, RestOf(content, fh, pos, l)
        PROVE  l \in Covered' \/ RestOf(content, fh, pos + 1, l)
    BY <2>1, <2>3, <2>4, TypeFacts DEF Taken, RestOf
  <2>5. ASSUME NEW l, RestOf(content, fh, pos + 1, l) PROVE RestOf(content, fh, pos, l)
    BY <2>1, <2>5, TypeFacts DEF Taken, RestOf
  <2>6. pos' = pos + 1 /\ (TakenOver' <=> TakenOver)
    BY <1>1, <2>1 DEF Taken, TakenOver
  <2>7. ASSUME NEW l \in 1..written PROVE Accounted(l)'
    <3>1. Accounted(l)
      BY DEF ReachInv
    <3> QED BY <1>1, <2>1, <2>2, <2>4, <2>6, <3>1 DEF Accounted
  <2> QED BY <1>1, <2>1, <2>2, <2>5, <2>6, <2>7 DEF ReachInv
<1>3. CASE ReadEof \/ StatSame
  <2>1. UNCHANGED <<fh, pos, inode, out>> /\ {tailPc, tailPc'} \subseteq {"read", "stat"}
    BY <1>3 DEF ReadEof, StatSame
  <2>2. Covered' = Covered /\ (TakenOver' <=> TakenOver)
    BY <1>1, <2>1 DEF Covered, Yielded, TakenOver, Following
  <2> QED BY <1>1, <2>1, <2>2 DEF ReachInv, Accounted
<1>4. CASE StatChanged
  <2>1. /\ tailPc = "stat" /\ tailPc' = "reopen" /\ path \notin {0, inode} /\ fh' = 0
        /\ out' = out /\ fh # 0
    BY <1>4 DEF StatChanged, PlaceInv
  <2>2. Covered' = Covered /\ TakenOver /\ TakenOver' /\ pos \in Nat
    BY <1>1, <2>1, TypeFacts DEF Covered, Yielded, TakenOver, Following
  <2>3. ASSUME NEW l \in 1..written PROVE Accounted(l)'
    <3>1. Accounted(l)
      BY DEF ReachInv
    <3>2. CASE fh # 0 /\ fh = path /\ RestOf(content, fh, pos, l)
      <4>1. RestOf(content, path, 0, l)
        BY <2>1, <2>2, <3>2, TypeFacts DEF RestOf
      <4> QED BY <1>1, <2>2, <4>1 DEF Accounted
    <3>3. CASE fh # 0 /\ fh # path /\ RestOf(content, fh, pos, l)
      BY <2>2, <3>3 DEF ReachInv, Accounted
    <3>4. CASE l \in Covered \/ RestOf(content, path, 0, l)
      BY <1>1, <2>2, <3>4 DEF Accounted
    <3> QED BY <3>1, <3>2, <3>3, <3>4 DEF Accounted
  <2> QED BY <1>1, <2>1, <2>3 DEF ReachInv
<1>5. CASE ReopenFile
  <2>1. tailPc = "reopen" /\ path # 0 /\ fh' = path /\ pos' = 0 /\ out' = out /\ fh = 0
    BY <1>5 DEF ReopenFile, PlaceInv
  <2>2. Covered' = Covered
    BY <1>1, <2>1 DEF Covered, Yielded
  <2>3. ASSUME NEW l \in 1..written PROVE Accounted(l)'
    <3>1. Accounted(l)
      BY DEF ReachInv
    <3> QED BY <1>1, <2>1, <2>2, <3>1 DEF Accounted
  <2> QED BY <1>1, <2>1, <2>3 DEF ReachInv
<1> QED BY <1>2, <1>3, <1>4, <1>5

\* Without a tail on the file everything is accounted for, and so it is when
\* the reader dies or loses the file.
LEMMA OtherReach ==
  ASSUME TailTypeOK, FilesInv, PlaceInv, ReachInv,
         \/ Create
         \/ Exists \/ OpenFile \/ OpenFails \/ Seek \/ RememberInode \/ RememberInodeFails
         \/ ReadClosed \/ ReopenFails \/ Restart \/ Kill
  PROVE  (1..written \subseteq Covered)'
<1> USE DEF fileVars, tailHistory, ReaderOnly, Goto
<1>1. CASE Create
  <2>1. writer = 0 /\ written' = written + 1 /\ unfollowed' = unfollowed \union {written + 1}
    BY <1>1 DEF Create
  <2>2. 1..written' = {written + 1}
    BY <2>1 DEF FilesInv
  <2> QED BY <2>1, <2>2 DEF Covered
<1>2. ASSUME NEW at, DieAt(at) PROVE (1..written \subseteq Covered)'
  <2>1. written' = written /\ Yielded' = Yielded /\ (1..written) \ Yielded \subseteq unfollowed'
    BY <1>2 DEF DieAt, Yielded
  <2> QED BY <2>1 DEF Covered
<1>3. CASE OpenFails \/ RememberInodeFails \/ ReadClosed \/ Kill
  BY <1>2, <1>3 DEF OpenFails, RememberInodeFails, ReadClosed, Kill
<1>4. CASE ReopenFails
  <2>1. written' = written /\ Yielded' = Yielded /\ (1..written) \ Yielded \subseteq cutOff'
    BY <1>4 DEF ReopenFails, Yielded
  <2> QED BY <2>1 DEF Covered
<1>5. CASE Exists \/ OpenFile \/ Seek \/ RememberInode \/ Restart
  <2>1. tailPc \notin Following /\ UNCHANGED <<written, out, cutOff, unfollowed>>
    BY <1>5 DEF Exists, OpenFile, Seek, RememberInode, Restart, Following
  <2> QED BY <2>1 DEF ReachInv, Covered, Yielded
<1> QED BY <1>1, <1>3, <1>4, <1>5

LEMMA ReachStep ==
  ASSUME TailTypeOK, TailTypeOK', FilesInv, FilesInv', PlaceInv, ReachInv, [TailNext]_tailVars
  PROVE  ReachInv'
<1>1. CASE Write
  BY <1>1, WriteReach
<1>2. CASE Rename \/ Reopen \/ Truncate
  BY <1>2, RotationReach
<1>3. CASE ReadLine \/ ReadEof \/ StatSame \/ StatChanged \/ ReopenFile
  BY <1>3, FollowReach
<1>4. CASE \/ Create
           \/ Exists \/ OpenFile \/ OpenFails \/ Seek \/ RememberInode \/ RememberInodeFails
           \/ ReadClosed \/ ReopenFails \/ Restart \/ Kill
  <2>1. (1..written \subseteq Covered)'
    BY <1>4, OtherReach
  <2>2. (TailTypeOK /\ FilesInv /\ 1..written \subseteq Covered)' => ReachInv'
    BY AllCovered, PTL
  <2> QED BY <2>1, <2>2
<1>5. CASE UNCHANGED tailVars
  <2>1. UNCHANGED <<content, path, written, tailPc, fh, pos, inode, out, cutOff, unfollowed>>
    BY <1>5 DEF tailVars, fileVars, readerVars, tailHistory
  <2> QED BY <2>1 DEF ReachInv, Accounted, Covered, Yielded, TakenOver
<1> QED BY <1>1, <1>2, <1>3, <1>4, <1>5 DEF TailNext, ReaderStep

-----------------------------------------------------------------------------
(* The order of what is yielded                                            *)

\* A line that is written now comes after all that has been yielded.
LEMMA WriteOrder ==
  ASSUME TailTypeOK, FilesInv, OrderInv, Write PROVE OrderInv'
<1>1. Grown /\ UNCHANGED <<path, writer, tailPc, fh, pos, inode, out, doubled>>
  BY WriteFact DEF Write, readerVars
<1>2. (TakenOver' <=> TakenOver) /\ (InOrder' <=> InOrder)
  BY <1>1 DEF TakenOver, InOrder
<1>3. ASSUME NEW i \in Inodes, NEW from, AfterAll(content, out, i, from)
      PROVE  AfterAll(content', out, i, from)
  <2> SUFFICES ASSUME NEW k \in DOMAIN out, NEW m \in DOMAIN content'[i], m > from
               PROVE  out[k] < content'[i][m]
    BY DEF AfterAll
  <2>1. CASE i = writer /\ m = Len(content[i]) + 1
    <3>1. out[k] <= written /\ out[k] \in Nat /\ written \in Nat
      BY TypeFacts DEF FilesInv, OnlyWritten, Lines
    <3> QED BY <1>1, <2>1, <3>1 DEF Grown
  <2>2. CASE ~(i = writer /\ m = Len(content[i]) + 1)
    <3>1. m \in DOMAIN content[i] /\ content'[i][m] = content[i][m]
      <4>1. Len(content[i]) \in Nat /\ DOMAIN content[i] = 1..Len(content[i])
        BY TypeFacts
      <4>2. CASE i = writer
        <5>1. m \in 1..(Len(content[i]) + 1)
          BY <1>1, <4>2 DEF Grown
        <5>2. m \in 1..Len(content[i])
          BY <2>2, <4>1, <4>2, <5>1
        <5>. QED  BY <1>1, <4>1, <4>2, <5>2 DEF Grown
      <4>3. CASE i # writer
        <5>1. content'[i] = content[i]
          BY <1>1, <4>3 DEF Grown
        <5>. QED  BY <5>1
      <4>. QED  BY <4>2, <4>3
    <3> QED BY <1>3, <3>1 DEF AfterAll
  <2> QED BY <2>1, <2>2
<1>4. (fh # 0 => fh \in Inodes) /\ (TakenOver => path \in Inodes)
  BY TypeFacts DEF TakenOver
<1> QED BY <1>1, <1>2, <1>3, <1>4 DEF OrderInv

\* A file loses its name or its content, or gets the name with nothing in it.
LEMMA RotationOrder ==
  ASSUME TailTypeOK, FilesInv, PlaceInv, OrderInv, Create \/ Rename \/ Reopen \/ Truncate
  PROVE  OrderInv'
<1>1. UNCHANGED <<tailPc, fh, pos, inode, out, doubled>>
  BY DEF Create, Rename, Reopen, Truncate, readerVars, tailHistory
<1>2. InOrder' <=> InOrder
  BY <1>1 DEF InOrder
<1>3. CASE Create
  <2>1. fh = 0 /\ written = 0
    BY <1>3 DEF Create, PlaceInv, FilesInv
  <2>2. DOMAIN out = {}
    BY <2>1, TypeFacts DEF FilesInv, OnlyWritten, Lines
  <2>3. path' = 1
    BY <1>3 DEF Create
  <2> QED BY <1>1, <1>2, <2>1, <2>2, <2>3 DEF OrderInv, AfterAll
<1>4. CASE Rename
  <2>1. path' = 0 /\ content' = content
    BY <1>4 DEF Rename
  <2> QED BY <1>1, <1>2, <2>1 DEF OrderInv, TakenOver
<1>5. CASE Reopen
  <2>1. PICK i \in Fresh : path' = i
    BY <1>5 DEF Reopen
  <2>2. content' = content /\ i # fh /\ DOMAIN content[i] = {}
    BY <1>5 DEF Reopen, Fresh
  <2>3. AfterAll(content, out, i, 0)
    BY <2>2 DEF AfterAll
  <2> QED BY <1>1, <1>2, <2>1, <2>2, <2>3 DEF OrderInv
<1>6. CASE Truncate
  <2>1. Emptied /\ path' = path
    BY <1>6, TruncateFact DEF Truncate
  <2>2. ASSUME NEW i \in Inodes, NEW from, AfterAll(content, out, i, from)
        PROVE  AfterAll(content', out, i, from)
    <3>1. CASE i = path
      BY <2>1, <3>1 DEF Emptied, AfterAll
    <3>2. CASE i # path
      BY <2>1, <2>2, <3>2 DEF Emptied, AfterAll
    <3> QED BY <3>1, <3>2
  <2>3. (fh # 0 => fh \in Inodes) /\ (TakenOver => path \in Inodes) /\ (TakenOver' <=> TakenOver)
    BY <1>1, <2>1, TypeFacts DEF TakenOver
  <2> QED BY <1>1, <1>2, <2>1, <2>2, <2>3 DEF OrderInv
<1> QED BY <1>3, <1>4, <1>5, <1>6

LEMMA ReadOrder ==
  ASSUME TailTypeOK, FilesInv, OrderInv, ReadLine PROVE OrderInv'
<1>1. /\ Taken /\ tailPc = "read" /\ fh # 0
      /\ UNCHANGED <<content, path, tailPc, fh, inode, doubled>>
  BY ReadFact DEF ReadLine, fileVars, tailHistory
<1>2. (TakenOver' <=> TakenOver) /\ (TakenOver => path \in Inodes /\ path = writer /\ writer # 0)
  BY <1>1, TypeFacts DEF TakenOver, FilesInv
<1> SUFFICES ASSUME ~doubled
             PROVE  /\ InOrder'
                    /\ AfterAll(content, out', fh, pos + 1)
                    /\ TakenOver => AfterAll(content, out', path, 0) /\ fh # path
  BY <1>1, <1>2 DEF OrderInv, Taken
<1> DEFINE taken == content[fh][pos + 1]
           last == Len(out) + 1
<1>3. /\ DOMAIN out' = 1..last /\ out'[last] = taken /\ last \in Nat
      /\ \A k \in DOMAIN out : out'[k] = out[k]
      /\ DOMAIN out = 1..(last - 1)
  BY <1>1, TypeFacts DEF Taken
<1>4. AfterAll(content, out, fh, pos) /\ InOrder
  BY <1>1 DEF OrderInv
<1>5. \A k \in DOMAIN out : out[k] < taken
  BY <1>1, <1>4, TypeFacts DEF Taken, AfterAll
<1>6. \A m \in DOMAIN content[fh] : m > pos + 1 => taken < content[fh][m]
  BY <1>1, TypeFacts DEF Taken, FilesInv, LinesInOrder
<1> HIDE DEF taken, last
<1>7. \A k \in DOMAIN out' : k = last \/ k \in DOMAIN out
  BY <1>3
<1>8. InOrder'
  <2> SUFFICES ASSUME NEW j \in DOMAIN out', NEW k \in DOMAIN out', j < k
               PROVE  out'[j] < out'[k]
    BY DEF InOrder
  <2>1. j \in DOMAIN out
    BY <1>3
  <2>2. CASE k = last
    BY <1>3, <1>5, <2>1, <2>2
  <2>3. CASE k \in DOMAIN out
    BY <1>3, <1>4, <2>1, <2>3 DEF InOrder
  <2> QED BY <1>7, <2>2, <2>3
<1>9. AfterAll(content, out', fh, pos + 1)
  <2> SUFFICES ASSUME NEW k \in DOMAIN out', NEW m \in DOMAIN content[fh], m > pos + 1
               PROVE  out'[k] < content[fh][m]
    BY DEF AfterAll
  <2>1. CASE k = last
    BY <1>3, <1>6, <2>1
  <2>2. CASE k \in DOMAIN out
    <3>1. m > pos
      BY <1>1, TypeFacts DEF Taken
    <3> QED BY <1>3, <1>4, <2>2, <3>1 DEF AfterAll
  <2> QED BY <1>7, <2>1, <2>2
<1>10. ASSUME TakenOver PROVE AfterAll(content, out', path, 0) /\ fh # path
  <2>1. AfterAll(content, out, path, 0) /\ fh # path
    BY <1>10 DEF OrderInv
  <2> SUFFICES ASSUME NEW k \in DOMAIN out', NEW m \in DOMAIN content[path]
               PROVE  out'[k] < content[path][m]
    BY <2>1 DEF AfterAll
  <2>2. CASE k = last
    <3>1. fh \in Inodes \ {writer} /\ pos + 1 \in DOMAIN content[fh]
      BY <1>1, <1>2, <1>10, <2>1 DEF Taken
    <3>2. content[fh][pos + 1] < content[path][m]
      BY <1>2, <1>10, <3>1 DEF FilesInv, NewestFile
    <3> QED BY <1>3, <2>2, <3>2 DEF taken
  <2>3. CASE k \in DOMAIN out
    <3>1. m > 0
      BY <1>2, <1>10, TypeFacts
    <3> QED BY <1>3, <2>1, <2>3, <3>1 DEF AfterAll
  <2> QED BY <1>7, <2>2, <2>3
<1> QED BY <1>8, <1>9, <1>10

\* The other steps of the reader yield nothing.
LEMMA FollowOrder ==
  ASSUME TailTypeOK, PlaceInv, OrderInv, ReaderStep \/ Kill, ~ReadLine
  PROVE  OrderInv'
<1> USE DEF fileVars, tailHistory, ReaderOnly, Goto
<1>1. UNCHANGED <<content, path, out>>
  BY ReaderKeepsFiles, ReaderKeepsLog DEF InOrder
<1>2. ASSUME ~doubled, InOrder PROVE InOrder'
  BY <1>1, <1>2 DEF InOrder
<1>3. CASE ReadEof \/ StatSame
  <2>1. UNCHANGED <<fh, pos, inode, doubled>> /\ {tailPc, tailPc'} \subseteq {"read", "stat"}
    BY <1>3 DEF ReadEof, StatSame
  <2>2. TakenOver' <=> TakenOver
    BY <1>1, <2>1 DEF TakenOver, Following
  <2> QED BY <1>1, <1>2, <2>1, <2>2 DEF OrderInv
<1>4. CASE StatChanged
  <2>1. /\ tailPc = "stat" /\ tailPc' = "reopen" /\ path \notin {0, inode} /\ fh' = 0
        /\ doubled' = doubled
    BY <1>4 DEF StatChanged
  <2>2. TakenOver
    BY <2>1 DEF TakenOver, Following
  <2> QED BY <1>1, <1>2, <2>1, <2>2 DEF OrderInv
<1>5. CASE ReopenFile
  <2>1. /\ tailPc = "reopen" /\ tailPc' = "read" /\ path # 0 /\ fh' = path /\ pos' = 0
        /\ inode' = cur /\ (doubled' <=> (doubled \/ path # cur))
    BY <1>5 DEF ReopenFile
  <2>2. TakenOver
    BY <2>1 DEF TakenOver
  <2>3. ~doubled' => ~TakenOver'
    BY <1>1, <2>1 DEF TakenOver
  <2> QED BY <1>1, <1>2, <2>1, <2>2, <2>3 DEF OrderInv
<1>6. CASE ReopenFails
  <2>1. path = 0 /\ fh = 0 /\ fh' = 0 /\ doubled' = doubled
    BY <1>6 DEF ReopenFails, PlaceInv
  <2>2. ~TakenOver'
    BY <1>1, <2>1 DEF TakenOver
  <2> QED BY <1>2, <2>1, <2>2 DEF OrderInv
<1>7. CASE Exists \/ OpenFile \/ Restart
  <2>1. /\ tailPc' \in {"open", "seek", "exists"} /\ doubled' = doubled
        /\ fh' # 0 => tailPc' = "seek"
    BY <1>7 DEF Exists, OpenFile, Restart, PlaceInv
  <2>2. ~TakenOver'
    BY <2>1 DEF TakenOver, Following
  <2> QED BY <1>2, <2>1, <2>2 DEF OrderInv
<1>8. CASE Seek
  <2>1. tailPc' = "inode" /\ pos' = Len(content[fh]) /\ fh' = fh /\ fh # 0 /\ doubled' = doubled
    BY <1>8 DEF Seek, PlaceInv
  <2>2. AfterAll(content, out, fh, pos')
    BY <2>1, TypeFacts DEF AfterAll
  <2>3. ~TakenOver'
    BY <2>1 DEF TakenOver, Following
  <2> QED BY <1>1, <1>2, <2>1, <2>2, <2>3 DEF OrderInv
<1>9. CASE RememberInode
  <2>1. /\ tailPc = "inode" /\ tailPc' = "read" /\ inode' = path
        /\ UNCHANGED <<fh, pos, doubled>>
    BY <1>9 DEF RememberInode
  <2>2. ~TakenOver'
    BY <1>1, <2>1 DEF TakenOver
  <2> QED BY <1>1, <1>2, <2>1, <2>2 DEF OrderInv
<1>10. ASSUME NEW at, DieAt(at) PROVE OrderInv'
  <2>1. tailPc' = "dead" /\ fh' = 0 /\ doubled' = doubled
    BY <1>10 DEF DieAt
  <2>2. ~TakenOver'
    BY <2>1 DEF TakenOver, Following
  <2> QED BY <1>2, <2>1, <2>2 DEF OrderInv
<1>11. CASE OpenFails \/ RememberInodeFails \/ ReadClosed \/ Kill
  BY <1>10, <1>11 DEF OpenFails, RememberInodeFails, ReadClosed, Kill
<1> QED BY <1>3, <1>4, <1>5, <1>6, <1>7, <1>8, <1>9, <1>11 DEF ReaderStep

LEMMA OrderStep ==
  ASSUME TailTypeOK, FilesInv, PlaceInv, OrderInv, [TailNext]_tailVars
  PROVE  OrderInv'
<1>1. CASE UNCHANGED tailVars
  <2>1. UNCHANGED <<content, path, tailPc, fh, pos, inode, out, doubled>>
    BY <1>1 DEF tailVars, fileVars, readerVars, tailHistory
  <2> QED BY <2>1 DEF OrderInv, InOrder, TakenOver
<1> QED BY <1>1, WriteOrder, RotationOrder, ReadOrder, FollowOrder DEF TailNext

-----------------------------------------------------------------------------
(* The theorems                                                            *)

LEMMA TailInvInit == TailInit => TailInv
<1> SUFFICES ASSUME TailInit PROVE TailInv
  OBVIOUS
<1>1. TailTypeOK
  <2>1. <<>> \in Seq(Lines) /\ path \in {0} \union Inodes
    BY BoundsAssumption DEF TailInit, Inodes
  <2>2. content \in [Inodes -> Seq(Lines)] /\ out \in Seq(Lines)
    BY <2>1 DEF TailInit
  <2>3. written \in 0..MaxLines /\ truncations \in 0..MaxTruncations /\ kills \in 0..MaxKills
        /\ pos \in 0..MaxLines
    BY BoundsAssumption DEF TailInit
  <2> QED BY <2>1, <2>2, <2>3 DEF TailInit, TailTypeOK, TailPcs
<1>2. \A i \in Inodes : content[i] = <<>> /\ Len(content[i]) = 0 /\ DOMAIN content[i] = {}
  BY DEF TailInit
<1>3. DOMAIN out = {} /\ written = 0 /\ fh = 0 /\ tailPc = "exists" /\ writer = path
  BY DEF TailInit
<1>4. FilesInv
  BY <1>2, <1>3 DEF FilesInv, LinesInOrder, NewestFile, OnlyWritten
<1>5. PlaceInv
  BY <1>3 DEF PlaceInv
<1>6. 1..written \subseteq Covered
  BY <1>3
<1>7. OrderInv
  BY <1>3 DEF OrderInv, InOrder, TakenOver, Following
<1> QED BY <1>1, <1>4, <1>5, <1>6, <1>7, AllCovered DEF TailInv

LEMMA TailInvInductive == TailInv /\ [TailNext]_tailVars => TailInv'
<1> SUFFICES ASSUME TailInv, [TailNext]_tailVars PROVE TailInv'
  OBVIOUS
<1>1. TailTypeOK'
  BY TypeStep DEF TailInv
<1>2. FilesInv'
  BY <1>1, FilesStep DEF TailInv
<1>3. PlaceInv'
  BY PlaceStep DEF TailInv
<1>4. ReachInv'
  BY <1>1, <1>2, ReachStep DEF TailInv
<1>5. OrderInv'
  BY OrderStep DEF TailInv
<1> QED BY <1>1, <1>2, <1>3, <1>4, <1>5 DEF TailInv

\* What is accounted for is yielded, ahead, cut off or nobody's.
LEMMA AccountedLines ==
  ASSUME TailTypeOK, ReachInv PROVE SkippedOnlyIfCutOff
<1> SUFFICES ASSUME NEW l \in 1..written
             PROVE  l \in Yielded \union Ahead \union cutOff \union unfollowed
  BY DEF SkippedOnlyIfCutOff
<1>1. Accounted(l)
  BY DEF ReachInv
<1>2. CASE l \in Covered
  BY <1>2 DEF Covered
<1>3. CASE fh # 0 /\ RestOf(content, fh, pos, l)
  <2>1. PICK k \in DOMAIN content[fh] : k > pos /\ content[fh][k] = l
    BY <1>3 DEF RestOf
  <2>2. k \in (pos + 1)..Len(content[fh])
    BY <1>3, <2>1, TypeFacts
  <2>3. l \in {content[fh][j] : j \in (pos + 1)..Len(content[fh])}
    BY <2>1, <2>2
  <2> QED BY <1>3, <2>3 DEF Ahead
<1>4. CASE TakenOver /\ RestOf(content, path, 0, l)
  <2>1. l \in LinesOf(path)
    BY <1>4 DEF RestOf, LinesOf
  <2> QED BY <1>4, <2>1 DEF TakenOver, Ahead
<1> QED BY <1>1, <1>2, <1>3, <1>4 DEF Accounted

\* The types, in every reachable state.
THEOREM TailTypeCorrect == TailSpec => []TailTypeOK
<1>1. TailInv => TailTypeOK
  BY DEF TailInv
<1> QED BY <1>1, TailInvInit, TailInvInductive, PTL DEF TailSpec

\* However the kernel's log is rotated or truncated and the service killed: a
\* line is passed over only where no tail was on it, or where it was unread
\* when its file lost its name or content, or out of the reader's reach; and
\* the others come once, in the order they were written, unless the name moved
\* between the look-up and the reopening.
THEOREM TailCorrect == TailSpec => []LinesComeThrough
<1>1. TailInv => LinesComeThrough
  <2> SUFFICES ASSUME TailInv PROVE SkippedOnlyIfCutOff /\ InOrder
    BY DEF LinesComeThrough
  <2>1. SkippedOnlyIfCutOff
    BY AccountedLines DEF TailInv
  <2>2. InOrder
    BY DEF TailInv, OrderInv, InOrder
  <2> QED BY <2>1, <2>2
<1> QED BY <1>1, TailInvInit, TailInvInductive, PTL DEF TailSpec

-----------------------------------------------------------------------------
(* Passive capture                                                         *)

Conns == 1..MaxConns
Kinds == {"ssh", "tls", "early", "other"}
Segments == [of : Conns, part : {"banner", "kex1", "kex2", "hello1", "early1", "hello2", "data"}]

CaptureTypeInv ==
  /\ conn \in 0..MaxConns
  /\ proto \in [Conns -> Kinds]
  /\ sent \in 0..5
  /\ repeats \in Nat
  /\ pending \in Seq(Segments)
  /\ sshDone \in BOOLEAN
  /\ hello \in Seq(Segments)
  /\ timers \in Nat
  /\ conn = 0 => sent = 0

\* Two segments of one clean connection, one behind the other, are its segments
\* k and k + 1 for some k.
InTurn(kinds, a, b) == \E k \in 1..4 : /\ a.part = Parts[kinds[a.of]][k]
                                      /\ b.part = Parts[kinds[a.of]][k + 1]

\* What a buffer may hold when connection c of these kinds has sent n segments:
\* who stands behind another one's bytes is among the dirty, and what a clean
\* connection has in it are its segments in their order, up to now.
Sound(buf, c, kinds, n, dirty) ==
  /\ \A i \in 1..Len(buf) : buf[i].of \in 1..c
  /\ \A i \in 1..Len(buf) : buf[i].of # c => c \in dirty
  /\ \A i \in 1..Len(buf) : buf[i].part = "early1" => kinds[buf[i].of] = "early"
  /\ \A i \in 1..Len(buf) : i + 1 <= Len(buf) =>
        /\ buf[i].of # buf[i + 1].of => buf[i + 1].of \in dirty
        /\ buf[i].of = buf[i + 1].of /\ buf[i].of \notin dirty => InTurn(kinds, buf[i], buf[i + 1])
  /\ Len(buf) # 0 /\ c \notin dirty => n > 0 /\ buf[Len(buf)] = [of |-> c, part |-> Parts[kinds[c]][n]]

BufferInv ==
  /\ Sound(pending, conn, proto, sent, unclean)
  /\ Sound(hello, conn, proto, sent, unclean)
  /\ Len(hello) # 0 => hello[1].part \in Handshakes
  /\ sshDone => timers > 0
  /\ unclean \subseteq 1..conn

\* The first n segments of the connection that has the port.
FirstOnes(buf, n) == Len(buf) = n /\ \A i \in 1..n : buf[i] = Segment(conn, i)

PrintedAs(kind, whole) == [kind |-> kind, from |-> {conn}, whole |-> whole] \in prints
Printed(kind) == PrintedAs(kind, TRUE)

\* A clean client before and after its fingerprint.
SshInv ==
  conn # 0 /\ conn \notin unclean /\ proto[conn] = "ssh" =>
    \/ sent <= 2 /\ timers = 0 /\ FirstOnes(pending, sent) /\ Len(hello) = 0
    \/ sent >= 3 /\ Printed("ssh")

TlsInv ==
  conn # 0 /\ conn \notin unclean /\ proto[conn] = "tls" =>
    \/ sent <= 1 /\ timers = 0 /\ FirstOnes(pending, sent) /\ (Len(hello) = 0 \/ FirstOnes(hello, sent))
    \/ sent = 2 /\ FirstOnes(hello, 2)
    \/ sent >= 2 /\ Printed("tls")

EarlyInv ==
  conn # 0 /\ conn \notin unclean /\ proto[conn] = "early" =>
    \/ sent = 0 /\ timers = 0 /\ FirstOnes(pending, 0) /\ Len(hello) = 0
    \/ sent = 1 /\ FirstOnes(hello, 1)
    \/ sent >= 1 /\ PrintedAs("tls", FALSE)

\* A fingerprint of one of the first c clients, which are of these kinds.
OneClient(p, c, kinds) == \E x \in 1..c : p.from = {x} /\ (p.whole <=> kinds[x] # "early")
PrintInv == \A p \in prints : p.from \intersect unclean = {} => OneClient(p, conn, proto)

CaptureInv == CaptureTypeInv /\ BufferInv /\ SshInv /\ TlsInv /\ EarlyInv /\ PrintInv

-----------------------------------------------------------------------------
(* What the connections send, and the buffers                              *)

LEMMA Conversations ==
  /\ DOMAIN Parts = Kinds
  /\ Parts["ssh"][1] = "banner" /\ Parts["ssh"][2] = "kex1" /\ Parts["ssh"][3] = "kex2"
  /\ Parts["ssh"][4] = "data" /\ Parts["ssh"][5] = "data"
  /\ Parts["tls"][1] = "hello1" /\ Parts["tls"][2] = "hello2"
  /\ Parts["tls"][3] = "data" /\ Parts["tls"][4] = "data" /\ Parts["tls"][5] = "data"
  /\ Parts["early"][1] = "early1" /\ Parts["early"][2] = "hello2"
  /\ Parts["early"][3] = "data" /\ Parts["early"][4] = "data" /\ Parts["early"][5] = "data"
  /\ \A k \in 1..5 : Parts["other"][k] = "data"
  BY DEF Parts, Kinds

LEMMA SegmentTyped ==
  ASSUME NEW c \in Conns, NEW kinds \in [Conns -> Kinds], NEW k \in 1..5
  PROVE  /\ [of |-> c, part |-> Parts[kinds[c]][k]] \in Segments
         /\ Parts[kinds[c]][k] = "early1" => kinds[c] = "early"
  <1>1. k = 1 \/ k = 2 \/ k = 3 \/ k = 4 \/ k = 5
    OBVIOUS
  <1>2. kinds[c] = "ssh" \/ kinds[c] = "tls" \/ kinds[c] = "early" \/ kinds[c] = "other"
    BY DEF Kinds
  <1>3. Parts[kinds[c]][k] \in {"banner", "kex1", "kex2", "hello1", "early1", "hello2", "data"}
    BY <1>1, <1>2, Conversations
  <1>4. Parts[kinds[c]][k] = "early1" => kinds[c] = "early"
    BY <1>1, <1>2, Conversations
  <1>. QED  BY <1>3, <1>4 DEF Segments

\* Behind the first part of a message comes its second.
LEMMA SecondPart ==
  ASSUME NEW kind \in Kinds, NEW k \in 1..4
  PROVE  /\ Parts[kind][k] = "kex1" => Parts[kind][k + 1] = "kex2" /\ kind # "early"
         /\ Parts[kind][k] = "hello1" => Parts[kind][k + 1] = "hello2" /\ kind # "early"
  <1>1. k = 1 \/ k = 2 \/ k = 3 \/ k = 4
    OBVIOUS
  <1>2. kind = "ssh" \/ kind = "tls" \/ kind = "early" \/ kind = "other"
    BY DEF Kinds
  <1>. QED  BY <1>1, <1>2, Conversations

LEMMA SoundEmpty ==
  ASSUME NEW c, NEW kinds, NEW n, NEW dirty
  PROVE  Sound(<<>>, c, kinds, n, dirty)
  BY DEF Sound

\* Facts of Append at an index.
LEMMA AppendedAt ==
  ASSUME NEW S, NEW s \in Seq(S), NEW e \in S
  PROVE  /\ Append(s, e) \in Seq(S) /\ Len(Append(s, e)) = Len(s) + 1 /\ Len(s) \in Nat
         /\ \A i \in 1..Len(s) : Append(s, e)[i] = s[i]
         /\ Append(s, e)[Len(s) + 1] = e
  OBVIOUS

\* A clean connection goes on with its next segment.
LEMMA SoundNext ==
  ASSUME NEW c \in Conns, NEW kinds \in [Conns -> Kinds], NEW n \in 0..4, NEW dirty,
         NEW buf \in Seq(Segments), Sound(buf, c, kinds, n, dirty)
  PROVE  Sound(Append(buf, [of |-> c, part |-> Parts[kinds[c]][n + 1]]), c, kinds, n + 1, dirty)
  <1> DEFINE e == [of |-> c, part |-> Parts[kinds[c]][n + 1]]
             new == Append(buf, e)
  <1>1. e \in Segments /\ (e.part = "early1" => kinds[c] = "early")
    <2>1. n + 1 \in 1..5
      OBVIOUS
    <2>. QED  BY <2>1, SegmentTyped
  <1>2. /\ Len(new) = Len(buf) + 1 /\ Len(buf) \in Nat
        /\ \A i \in 1..Len(buf) : new[i] = buf[i]
        /\ new[Len(buf) + 1] = e
    BY <1>1, AppendedAt
  <1>3. e.of = c /\ c \in Nat /\ c \in 1..c /\ e.part = Parts[kinds[c]][n + 1]
    BY DEF Conns
  <1> HIDE DEF e, new
  <1>4. \A i \in 1..Len(new) : new[i].of \in 1..c /\ (new[i].of # c => c \in dirty)
    <2> TAKE i \in 1..Len(new)
    <2>1. CASE i \in 1..Len(buf)
      BY <1>2, <2>1 DEF Sound
    <2>2. CASE i = Len(buf) + 1
      BY <1>2, <1>3, <2>2
    <2>. QED  BY <1>2, <2>1, <2>2
  <1>5. ASSUME NEW i \in 1..Len(new), i + 1 <= Len(new)
        PROVE  /\ new[i].of # new[i + 1].of => new[i + 1].of \in dirty
               /\ new[i].of = new[i + 1].of /\ new[i].of \notin dirty => InTurn(kinds, new[i], new[i + 1])
    <2>0. i \in 1..Len(buf) /\ (i + 1 \in 1..Len(buf) \/ i = Len(buf))
      BY <1>2, <1>5
    <2>1. CASE i + 1 \in 1..Len(buf)
      <3>1. new[i] = buf[i] /\ new[i + 1] = buf[i + 1] /\ i + 1 <= Len(buf)
        BY <1>2, <2>0, <2>1
      <3>. QED  BY <2>0, <3>1 DEF Sound
    <2>2. CASE i = Len(buf)
      <3>1. new[i] = buf[i] /\ new[i + 1] = e
        BY <1>2, <2>0, <2>2
      <3>2. buf[i].of # c => c \in dirty
        BY <2>0 DEF Sound
      <3>3. c \notin dirty => n > 0 /\ buf[i].of = c /\ buf[i].part = Parts[kinds[c]][n]
        BY <2>0, <2>2, <1>2 DEF Sound
      <3>4. ASSUME buf[i].of = c, c \notin dirty PROVE InTurn(kinds, buf[i], e)
        <4>1. n \in 1..4
          BY <3>3, <3>4
        <4>. QED  BY <1>3, <3>3, <3>4, <4>1 DEF InTurn
      <3>. QED  BY <1>3, <3>1, <3>2, <3>4
    <2>. QED  BY <2>0, <2>1, <2>2
  <1>6. n + 1 > 0 /\ new[Len(new)] = e
    BY <1>2
  <1>7. ASSUME NEW i \in 1..Len(new), new[i].part = "early1" PROVE kinds[new[i].of] = "early"
    <2>1. CASE i \in 1..Len(buf)
      BY <1>2, <1>7, <2>1 DEF Sound
    <2>2. CASE i = Len(buf) + 1
      BY <1>1, <1>2, <1>3, <1>7, <2>2
    <2>. QED  BY <1>2, <2>1, <2>2
  <1>8. Sound(new, c, kinds, n + 1, dirty)
    BY <1>4, <1>5, <1>6, <1>7 DEF Sound, e
  <1>. QED  BY <1>8 DEF new, e

\* A connection that repeats a segment is dirty from then on.
LEMMA SoundAgain ==
  ASSUME NEW c \in Conns, NEW kinds \in [Conns -> Kinds], NEW n \in 1..5, NEW dirty,
         NEW buf \in Seq(Segments), Sound(buf, c, kinds, n, dirty)
  PROVE  Sound(Append(buf, [of |-> c, part |-> Parts[kinds[c]][n]]), c, kinds, n, dirty \union {c})
  <1> DEFINE e == [of |-> c, part |-> Parts[kinds[c]][n]]
             new == Append(buf, e)
  <1>1. e \in Segments /\ (e.part = "early1" => kinds[c] = "early")
    BY SegmentTyped
  <1>2. /\ Len(new) = Len(buf) + 1 /\ Len(buf) \in Nat
        /\ \A i \in 1..Len(buf) : new[i] = buf[i]
        /\ new[Len(buf) + 1] = e
    BY <1>1, AppendedAt
  <1>3. e.of = c /\ c \in 1..c
    BY DEF Conns
  <1> HIDE DEF e, new
  <1>4. \A i \in 1..Len(new) : new[i].of \in 1..c
    <2> TAKE i \in 1..Len(new)
    <2>1. CASE i \in 1..Len(buf)
      BY <1>2, <2>1 DEF Sound
    <2>2. CASE i = Len(buf) + 1
      BY <1>2, <1>3, <2>2
    <2>. QED  BY <1>2, <2>1, <2>2
  <1>5. ASSUME NEW i \in 1..Len(new), i + 1 <= Len(new)
        PROVE  /\ new[i].of # new[i + 1].of => new[i + 1].of \in dirty \union {c}
               /\ new[i].of = new[i + 1].of /\ new[i].of \notin dirty \union {c}
                     => InTurn(kinds, new[i], new[i + 1])
    <2>0. i \in 1..Len(buf) /\ (i + 1 \in 1..Len(buf) \/ i = Len(buf))
      BY <1>2, <1>5
    <2>1. CASE i + 1 \in 1..Len(buf)
      <3>1. new[i] = buf[i] /\ new[i + 1] = buf[i + 1] /\ i + 1 <= Len(buf)
        BY <1>2, <2>0, <2>1
      <3>. QED  BY <2>0, <3>1 DEF Sound
    <2>2. CASE i = Len(buf)
      <3>1. new[i + 1].of = c
        BY <1>2, <1>3, <2>2
      <3>. QED  BY <3>1
    <2>. QED  BY <2>0, <2>1, <2>2
  <1>6. ASSUME NEW i \in 1..Len(new), new[i].part = "early1" PROVE kinds[new[i].of] = "early"
    <2>1. CASE i \in 1..Len(buf)
      BY <1>2, <1>6, <2>1 DEF Sound
    <2>2. CASE i = Len(buf) + 1
      BY <1>1, <1>2, <1>3, <1>6, <2>2
    <2>. QED  BY <1>2, <2>1, <2>2
  <1>7. Sound(new, c, kinds, n, dirty \union {c})
    BY <1>4, <1>5, <1>6 DEF Sound
  <1>. QED  BY <1>7 DEF new, e

\* A new connection takes the port.
LEMMA SoundConnect ==
  ASSUME NEW c \in 0..MaxConns, c < MaxConns, NEW kinds \in [Conns -> Kinds], NEW kind \in Kinds,
         NEW n, NEW dirty, NEW dirtier, dirty \subseteq dirtier,
         NEW buf \in Seq(Segments), Sound(buf, c, kinds, n, dirty),
         Len(buf) # 0 => c + 1 \in dirtier
  PROVE  Sound(buf, c + 1, [kinds EXCEPT ![c + 1] = kind], 0, dirtier)
  <1>0. c \in Nat /\ c + 1 \in Conns /\ \A x \in 1..c : x \in 1..(c + 1) /\ x # c + 1 /\ x \in Conns
    BY BuffersAssumption DEF Conns
  <1> DEFINE new == [kinds EXCEPT ![c + 1] = kind]
  <1>1. \A x \in 1..c : new[x] = kinds[x]
    BY <1>0
  <1> HIDE DEF new
  <1>2. \A i \in 1..Len(buf) : buf[i].of \in 1..c
    BY DEF Sound
  <1>3. \A i \in 1..Len(buf) : buf[i].of \in 1..(c + 1) /\ c + 1 \in dirtier
    BY <1>0, <1>2
  <1>4. ASSUME NEW i \in 1..Len(buf), i + 1 <= Len(buf)
        PROVE  /\ buf[i].of # buf[i + 1].of => buf[i + 1].of \in dirtier
               /\ buf[i].of = buf[i + 1].of /\ buf[i].of \notin dirtier => InTurn(new, buf[i], buf[i + 1])
    <2>1. /\ buf[i].of # buf[i + 1].of => buf[i + 1].of \in dirty
          /\ buf[i].of = buf[i + 1].of /\ buf[i].of \notin dirty => InTurn(kinds, buf[i], buf[i + 1])
      BY <1>4 DEF Sound
    <2>2. new[buf[i].of] = kinds[buf[i].of]
      BY <1>1, <1>2
    <2>. QED  BY <2>1, <2>2 DEF InTurn
  <1>5. Len(buf) # 0 => c + 1 \in dirtier
    OBVIOUS
  <1>6. \A i \in 1..Len(buf) : buf[i].part = "early1" => new[buf[i].of] = "early"
    BY <1>1, <1>2 DEF Sound
  <1>7. Sound(buf, c + 1, new, 0, dirtier)
    BY <1>3, <1>4, <1>5, <1>6 DEF Sound
  <1>. QED  BY <1>7 DEF new

-----------------------------------------------------------------------------
(* The fingerprints                                                        *)

LEMMA ElementOf ==
  ASSUME NEW S, NEW s \in Seq(S), NEW i \in 1..Len(s)
  PROVE  s[i] \in S
  OBVIOUS

LEMMA RestOfBuffer ==
  ASSUME NEW S, NEW s \in Seq(S), NEW m \in Nat \ {0}, Len(SubSeq(s, m, Len(s))) >= 2
  PROVE  m + 1 <= Len(s) /\ SubSeq(s, m, Len(s))[1] = s[m] /\ SubSeq(s, m, Len(s))[2] = s[m + 1]
  <1>1. Len(s) \in Nat /\ m \in Nat
    OBVIOUS
  <1>2. Len(SubSeq(s, m, Len(s))) = IF m <= Len(s) THEN Len(s) - m + 1 ELSE 0
    OBVIOUS
  <1>3. m + 1 <= Len(s)
    BY <1>1, <1>2
  <1>. QED  BY <1>1, <1>3

LEMMA BannersAreFew ==
  ASSUME NEW buf \in Seq(Segments)
  PROVE  Cardinality(Banners(buf)) \in Nat
  <1>1. Len(buf) \in Nat /\ DOMAIN buf = 1..Len(buf)
    OBVIOUS
  <1>2. Banners(buf) \subseteq 1..Len(buf)
    BY <1>1 DEF Banners
  <1>3. IsFiniteSet(1..Len(buf))
    <2>1. 1 \in Int /\ Len(buf) \in Int
      BY <1>1
    <2>. QED  BY <2>1, FS_Interval
  <1>4. IsFiniteSet(Banners(buf))
    BY <1>2, <1>3, FS_Subset
  <1>. QED  BY <1>4, FS_CardinalityType

\* A message begun by one segment and ended by the next one is of one clean
\* client and whole, or one of the two is dirty.
LEMMA PrintOfTwo ==
  ASSUME NEW c \in 0..MaxConns, NEW kinds \in [Conns -> Kinds], NEW n, NEW dirty,
         NEW buf \in Seq(Segments), Sound(buf, c, kinds, n, dirty),
         NEW i \in 1..Len(buf), i + 1 \in 1..Len(buf),
         NEW kind, NEW part, NEW p, p = PrintOf(kind, buf[i], buf[i + 1], part),
         \/ buf[i].part = "kex1" /\ part = "kex2"
         \/ buf[i].part = "hello1" /\ part = "hello2",
         p.from \intersect dirty = {}
  PROVE  OneClient(p, c, kinds)
  <1>1. /\ p.from = {buf[i].of, buf[i + 1].of}
        /\ p.whole = (buf[i + 1].part = part)
    BY DEF PrintOf
  <1>2. buf[i].of \notin dirty /\ buf[i + 1].of \notin dirty
    BY <1>1
  <1>3. /\ buf[i].of # buf[i + 1].of => buf[i + 1].of \in dirty
        /\ buf[i].of = buf[i + 1].of /\ buf[i].of \notin dirty => InTurn(kinds, buf[i], buf[i + 1])
    <2>1. i + 1 <= Len(buf)
      OBVIOUS
    <2>. QED  BY <2>1 DEF Sound
  <1>4. buf[i].of = buf[i + 1].of /\ InTurn(kinds, buf[i], buf[i + 1])
    BY <1>2, <1>3
  <1>5. buf[i].of \in Conns
    <2>1. buf[i] \in Segments
      BY ElementOf
    <2>. QED  BY <2>1 DEF Segments
  <1>6. kinds[buf[i].of] \in Kinds
    BY <1>5
  <1>7. buf[i + 1].part = part /\ kinds[buf[i].of] # "early"
    BY <1>4, <1>6, SecondPart DEF InTurn
  <1>8. p.whole = TRUE /\ p.from = {buf[i].of}
    BY <1>1, <1>4, <1>7
  <1>9. buf[i].of \in 1..c
    BY DEF Sound
  <1>. QED  BY <1>7, <1>8, <1>9 DEF OneClient

LEMMA SshPrintsSound ==
  ASSUME NEW c \in 0..MaxConns, NEW kinds \in [Conns -> Kinds], NEW n, NEW dirty,
         NEW buf \in Seq(Segments), Sound(buf, c, kinds, n, dirty),
         NEW p \in SshPrint(buf), p.from \intersect dirty = {}
  PROVE  OneClient(p, c, kinds)
  <1> DEFINE b == Cardinality(Banners(buf))
             rest == KexInit(buf)
  <1>1. b \in Nat /\ Len(buf) \in Nat
    BY BannersAreFew
  <1>2. rest = SubSeq(buf, b + 1, Len(buf))
    BY DEF KexInit
  <1>3. Len(rest) >= 2 /\ rest[1].part = "kex1" /\ p = PrintOf("ssh", rest[1], rest[2], "kex2")
    BY DEF SshPrint
  <1> HIDE DEF b, rest
  <1>4. b + 2 <= Len(buf) /\ rest[1] = buf[b + 1] /\ rest[2] = buf[b + 2]
    <2>1. b + 1 \in Nat \ {0} /\ b + 1 + 1 = b + 2
      BY <1>1
    <2>2. Len(SubSeq(buf, b + 1, Len(buf))) >= 2
      BY <1>2, <1>3
    <2>3. /\ b + 1 + 1 <= Len(buf)
          /\ SubSeq(buf, b + 1, Len(buf))[1] = buf[b + 1]
          /\ SubSeq(buf, b + 1, Len(buf))[2] = buf[b + 1 + 1]
      BY <2>1, <2>2, RestOfBuffer
    <2>. QED  BY <1>2, <2>1, <2>3
  <1>5. b + 1 \in 1..Len(buf) /\ (b + 1) + 1 \in 1..Len(buf) /\ (b + 1) + 1 = b + 2
    BY <1>1, <1>4
  <1>. QED  BY <1>3, <1>4, <1>5, PrintOfTwo

LEMMA TlsPrintsSound ==
  ASSUME NEW c \in 0..MaxConns, NEW kinds \in [Conns -> Kinds], NEW n, NEW dirty,
         NEW buf \in Seq(Segments), Sound(buf, c, kinds, n, dirty),
         Len(buf) # 0, buf[1].part \in Handshakes,
         NEW p \in TlsPrint(buf), p.from \intersect dirty = {}
  PROVE  OneClient(p, c, kinds)
  <1>1. CASE buf[1].part = "early1"
    <2>1. p.from = {buf[1].of} /\ p.whole = FALSE
      BY <1>1 DEF TlsPrint
    <2>2. 1 \in 1..Len(buf)
      OBVIOUS
    <2>3. buf[1].of \in 1..c /\ kinds[buf[1].of] = "early"
      BY <1>1, <2>2 DEF Sound
    <2>. QED  BY <2>1, <2>3 DEF OneClient
  <1>2. CASE buf[1].part = "hello1"
    <2>1. Len(buf) >= 2 /\ p = PrintOf("tls", buf[1], buf[2], "hello2")
      BY <1>2 DEF TlsPrint
    <2>2. 1 \in 1..Len(buf) /\ 1 + 1 \in 1..Len(buf) /\ 1 + 1 = 2
      BY <2>1
    <2>. QED  BY <1>2, <2>1, <2>2, PrintOfTwo
  <1>. QED  BY <1>1, <1>2 DEF Handshakes

\* The buffer of a clean SSH client is fingerprinted at its third segment.
LEMMA SshAtThird ==
  ASSUME NEW c \in Conns, NEW kinds \in [Conns -> Kinds], kinds[c] = "ssh",
         NEW buf \in Seq(Segments), NEW n \in 1..3, Len(buf) = n,
         \A i \in 1..n : buf[i] = [of |-> c, part |-> Parts[kinds[c]][i]]
  PROVE  /\ buf[1].part = "banner"
         /\ n < 3 => SshPrint(buf) = {}
         /\ n = 3 => SshPrint(buf) = {[kind |-> "ssh", from |-> {c}, whole |-> TRUE]}
  <1>1. /\ buf[1].part = "banner"
        /\ n >= 2 => buf[2].part = "kex1" /\ buf[2].of = c
        /\ n = 3 => buf[3].part = "kex2" /\ buf[3].of = c
    BY Conversations
  <1>2. DOMAIN buf = 1..n
    OBVIOUS
  <1>3. Banners(buf) = {1}
    <2>1. 1 \in Banners(buf)
      BY <1>1, <1>2 DEF Banners
    <2>2. ASSUME NEW i \in Banners(buf) PROVE i = 1
      <3>1. i \in 1..n /\ \A j \in 1..i : buf[j].part = "banner"
        BY <1>2 DEF Banners
      <3>2. i >= 2 => n >= 2 /\ 2 \in 1..i
        BY <3>1
      <3>. QED  BY <1>1, <3>1, <3>2
    <2>. QED  BY <2>1, <2>2
  <1>4. KexInit(buf) = SubSeq(buf, 2, n)
    <2>1. Cardinality(Banners(buf)) = 1
      BY <1>3, FS_Singleton
    <2>. QED  BY <2>1 DEF KexInit
  <1>5. Len(KexInit(buf)) = n - 1
    BY <1>4
  <1>6. n < 3 => SshPrint(buf) = {}
    BY <1>5 DEF SshPrint
  <1>7. ASSUME n = 3 PROVE SshPrint(buf) = {[kind |-> "ssh", from |-> {c}, whole |-> TRUE]}
    <2>1. KexInit(buf)[1] = buf[2] /\ KexInit(buf)[2] = buf[3] /\ Len(KexInit(buf)) >= 2
      BY <1>4, <1>5, <1>7
    <2>2. SshPrint(buf) = {PrintOf("ssh", buf[2], buf[3], "kex2")}
      BY <1>1, <1>7, <2>1 DEF SshPrint
    <2>3. {buf[2].of, buf[3].of} = {c} /\ (buf[3].part = "kex2") = TRUE
      BY <1>1, <1>7
    <2>. QED  BY <2>2, <2>3 DEF PrintOf
  <1>. QED  BY <1>1, <1>6, <1>7

\* And that of a clean TLS client at its second one.
LEMMA TlsAtSecond ==
  ASSUME NEW c \in Conns, NEW kinds \in [Conns -> Kinds], kinds[c] = "tls",
         NEW buf \in Seq(Segments), NEW n \in 1..2, Len(buf) = n,
         \A i \in 1..n : buf[i] = [of |-> c, part |-> Parts[kinds[c]][i]]
  PROVE  /\ buf[1].part = "hello1"
         /\ n < 2 => TlsPrint(buf) = {}
         /\ n = 2 => TlsPrint(buf) = {[kind |-> "tls", from |-> {c}, whole |-> TRUE]}
  <1>1. /\ buf[1].part = "hello1" /\ buf[1].of = c
        /\ n = 2 => buf[2].part = "hello2" /\ buf[2].of = c
    BY Conversations
  <1>2. n < 2 => TlsPrint(buf) = {}
    BY <1>1 DEF TlsPrint
  <1>3. ASSUME n = 2 PROVE TlsPrint(buf) = {[kind |-> "tls", from |-> {c}, whole |-> TRUE]}
    <2>1. TlsPrint(buf) = {PrintOf("tls", buf[1], buf[2], "hello2")}
      BY <1>1, <1>3 DEF TlsPrint
    <2>. QED  BY <1>1, <1>3, <2>1 DEF PrintOf
  <1>. QED  BY <1>1, <1>2, <1>3

\* That of a client whose first segment reads as a hello at that one.
LEMMA EarlyAtFirst ==
  ASSUME NEW c, NEW kinds, kinds[c] = "early", NEW buf,
         buf[1] = [of |-> c, part |-> Parts[kinds[c]][1]]
  PROVE  /\ buf[1].part = "early1"
         /\ TlsPrint(buf) = {[kind |-> "tls", from |-> {c}, whole |-> FALSE]}
  <1>1. buf[1].part = "early1" /\ buf[1].of = c
    BY Conversations
  <1>. QED  BY <1>1 DEF TlsPrint

\* What a segment does: the buffer is kept or dropped, may become a hello to
\* look at, and may be the end of an SSH key exchange.
LEMMA Effects ==
  ASSUME NEW buf, Collected(buf)
  PROVE  /\ pending' = <<>> \/ pending' = buf
         /\ hello' = hello \/ (hello' = buf /\ buf[1].part \in Handshakes)
         /\ \/ sshDone' = sshDone /\ timers' = timers /\ prints' = prints
            \/ sshDone' = TRUE /\ timers' = timers + 1 /\ prints' = prints \union SshPrint(buf)
  BY DEF Collected

-----------------------------------------------------------------------------
(* The steps                                                               *)

LEMMA SegmentIs ==
  ASSUME CaptureTypeInv, conn # 0, NEW k \in 1..5
  PROVE  /\ conn \in Conns
         /\ Segment(conn, k) = [of |-> conn, part |-> Parts[proto[conn]][k]]
         /\ Segment(conn, k) \in Segments
  <1>1. conn \in Conns /\ proto \in [Conns -> Kinds]
    BY BuffersAssumption DEF CaptureTypeInv, Conns
  <1>. QED  BY <1>1, SegmentTyped DEF Segment

\* A segment that leaves a sound buffer behind: the types, the buffers and the
\* fingerprints are as they should be.
LEMMA CollectedInv ==
  ASSUME CaptureInv, conn # 0, hello = <<>>,
         NEW buf \in Seq(Segments), Collected(buf),
         conn' = conn, proto' = proto,
         sent' \in 0..5, repeats' \in Nat, unclean' \in {unclean, unclean \union {conn}},
         Sound(buf, conn, proto, sent', unclean')
  PROVE  CaptureTypeInv' /\ BufferInv' /\ PrintInv'
  <1>1. /\ pending' = <<>> \/ pending' = buf
        /\ hello' = hello \/ (hello' = buf /\ buf[1].part \in Handshakes)
        /\ \/ sshDone' = sshDone /\ timers' = timers /\ prints' = prints
           \/ sshDone' = TRUE /\ timers' = timers + 1 /\ prints' = prints \union SshPrint(buf)
    BY Effects
  <1>2. /\ conn \in 0..MaxConns /\ conn \in Conns /\ proto \in [Conns -> Kinds] /\ timers \in Nat
        /\ sshDone \in BOOLEAN /\ hello \in Seq(Segments)
    BY BuffersAssumption DEF CaptureInv, CaptureTypeInv, Conns
  <1>3. <<>> \in Seq(Segments) /\ hello = <<>>
    OBVIOUS
  <1>4. CaptureTypeInv'
    <2>1. pending' \in Seq(Segments) /\ hello' \in Seq(Segments)
      BY <1>1, <1>3
    <2>2. sshDone' \in BOOLEAN
      BY <1>1, <1>2
    <2>3. timers' \in Nat
      BY <1>1, <1>2
    <2>. QED  BY <1>2, <2>1, <2>2, <2>3 DEF CaptureTypeInv
  <1>5. Sound(pending', conn', proto', sent', unclean') /\ Sound(hello', conn', proto', sent', unclean')
    <2>1. Sound(<<>>, conn, proto, sent', unclean')
      BY SoundEmpty
    <2>. QED  BY <1>1, <1>3, <2>1
  <1>6. sshDone' => timers' > 0
    <2>1. sshDone => timers > 0
      BY DEF CaptureInv, BufferInv
    <2>2. CASE sshDone' = sshDone /\ timers' = timers
      BY <2>1, <2>2
    <2>3. CASE timers' = timers + 1
      BY <1>2, <2>3
    <2>. QED  BY <1>1, <2>2, <2>3
  <1>7. Len(hello') # 0 => hello'[1].part \in Handshakes
    BY <1>1, <1>3
  <1>8. unclean' \subseteq 1..conn'
    BY <1>2 DEF CaptureInv, BufferInv, Conns
  <1>9. BufferInv'
    BY <1>5, <1>6, <1>7, <1>8 DEF BufferInv
  <1>10. ASSUME NEW p \in prints', p.from \intersect unclean' = {} PROVE OneClient(p, conn, proto)
    <2>1. p \in prints \/ p \in SshPrint(buf)
      BY <1>1
    <2>2. CASE p \in prints
      <3>1. p.from \intersect unclean = {}
        BY <1>10
      <3>. QED  BY <2>2, <3>1 DEF CaptureInv, PrintInv
    <2>3. CASE p \in SshPrint(buf)
      BY <1>2, <1>10, <2>3, SshPrintsSound
    <2>. QED  BY <2>1, <2>2, <2>3
  <1>11. PrintInv'
    BY <1>10 DEF PrintInv, OneClient
  <1>. QED  BY <1>4, <1>9, <1>11

\* The first segments of a clean client, with one more.
LEMMA OneMoreOfTheFirst ==
  ASSUME CaptureTypeInv, conn # 0, sent < 5, FirstOnes(pending, sent),
         NEW buf, buf = Append(pending, Segment(conn, sent + 1))
  PROVE  /\ buf \in Seq(Segments) /\ Len(buf) = sent + 1
         /\ \A i \in 1..(sent + 1) : buf[i] = [of |-> conn, part |-> Parts[proto[conn]][i]]
  <1>1. sent \in Nat /\ sent + 1 \in 1..5 /\ pending \in Seq(Segments) /\ Len(pending) = sent
    BY DEF CaptureTypeInv, FirstOnes
  <1>2. /\ Segment(conn, sent + 1) = [of |-> conn, part |-> Parts[proto[conn]][sent + 1]]
        /\ Segment(conn, sent + 1) \in Segments
    BY <1>1, SegmentIs
  <1>3. /\ buf \in Seq(Segments) /\ Len(buf) = sent + 1
        /\ \A i \in 1..sent : buf[i] = pending[i]
        /\ buf[sent + 1] = Segment(conn, sent + 1)
    BY <1>1, <1>2, AppendedAt
  <1>4. ASSUME NEW i \in 1..(sent + 1) PROVE buf[i] = [of |-> conn, part |-> Parts[proto[conn]][i]]
    <2>1. CASE i = sent + 1
      BY <1>2, <1>3, <2>1
    <2>2. CASE i # sent + 1
      <3>1. i \in 1..sent /\ i \in 1..5
        BY <1>1, <2>2
      <3>2. pending[i] = Segment(conn, i)
        BY <3>1 DEF FirstOnes
      <3>. QED  BY <1>3, <3>1, <3>2, SegmentIs
    <2>. QED  BY <2>1, <2>2
  <1>. QED  BY <1>3, <1>4

LEMMA ArrivesSsh ==
  ASSUME CaptureInv, Arrives
  PROVE  SshInv'
  <1> SUFFICES ASSUME conn \notin unclean, proto[conn] = "ssh"
               PROVE  \/ sent' <= 2 /\ timers' = 0 /\ FirstOnes(pending, sent)' /\ Len(hello') = 0
                      \/ sent' >= 3 /\ Printed("ssh")'
    BY DEF SshInv, Arrives
  <1>0. /\ conn # 0 /\ hello = <<>> /\ sent < 5 /\ sent' = sent + 1 /\ conn' = conn /\ proto' = proto
        /\ CaptureTypeInv /\ sent \in 0..5
    BY DEF Arrives, CaptureInv, CaptureTypeInv
  <1> DEFINE buf == Append(pending, Segment(conn, sent + 1))
  <1>1. Collected(buf)
    BY DEF Arrives
  <1>2. conn \in Conns /\ proto \in [Conns -> Kinds]
    BY <1>0, SegmentIs DEF CaptureTypeInv
  <1>3. CASE sent <= 2 /\ timers = 0 /\ FirstOnes(pending, sent)
    <2>1. /\ buf \in Seq(Segments) /\ Len(buf) = sent + 1
          /\ \A i \in 1..(sent + 1) : buf[i] = [of |-> conn, part |-> Parts[proto[conn]][i]]
      BY <1>0, <1>3, OneMoreOfTheFirst
    <2>2. sent + 1 \in 1..3
      BY <1>0, <1>3
    <2>3. /\ buf[1].part = "banner"
          /\ sent + 1 < 3 => SshPrint(buf) = {}
          /\ sent + 1 = 3 => SshPrint(buf) = {[kind |-> "ssh", from |-> {conn}, whole |-> TRUE]}
      BY <1>2, <2>1, <2>2, SshAtThird
    <2>4. ~(Len(buf) > MaxBuf) /\ buf[1].part \notin Handshakes
          /\ ~(buf[1].part \notin Handshakes \union {"banner"})
      BY <2>1, <2>2, <2>3, BuffersAssumption DEF Handshakes
    <2>5. sshDone = FALSE
      BY <1>3 DEF CaptureInv, BufferInv, CaptureTypeInv
    <2> HIDE DEF buf
    <2>6. /\ IF sshDone \/ SshPrint(buf) = {}
             THEN pending' = buf /\ UNCHANGED <<sshDone, timers, prints>>
             ELSE /\ pending' = <<>>
                  /\ sshDone' = TRUE
                  /\ timers' = timers + 1
                  /\ prints' = prints \union SshPrint(buf)
          /\ UNCHANGED hello
      BY <1>1, <2>4 DEF Collected
    <2>7. CASE sent + 1 < 3
      <3>1. pending' = buf /\ timers' = 0 /\ hello' = <<>> /\ sent' <= 2
        BY <1>0, <1>3, <2>3, <2>6, <2>7
      <3>2. FirstOnes(pending, sent)'
        BY <1>0, <2>1, <3>1 DEF FirstOnes, Segment
      <3>. QED  BY <3>1, <3>2
    <2>8. CASE sent + 1 = 3
      BY <1>0, <2>3, <2>5, <2>6, <2>8 DEF Printed, PrintedAs
    <2>. QED  BY <2>2, <2>7, <2>8
  <1>4. CASE sent >= 3 /\ Printed("ssh")
    <2>1. prints \subseteq prints'
      BY <1>1, Effects
    <2>. QED  BY <1>0, <1>4, <2>1 DEF Printed, PrintedAs
  <1>. QED  BY <1>0, <1>3, <1>4 DEF CaptureInv, SshInv

LEMMA ArrivesTls ==
  ASSUME CaptureInv, Arrives
  PROVE  TlsInv'
  <1> SUFFICES ASSUME conn \notin unclean, proto[conn] = "tls"
               PROVE  \/ /\ sent' <= 1 /\ timers' = 0 /\ FirstOnes(pending, sent)'
                         /\ Len(hello') = 0 \/ FirstOnes(hello, sent)'
                      \/ sent' = 2 /\ FirstOnes(hello, 2)'
                      \/ sent' >= 2 /\ Printed("tls")'
    BY DEF TlsInv, Arrives
  <1>0. /\ conn # 0 /\ hello = <<>> /\ sent < 5 /\ sent' = sent + 1 /\ conn' = conn /\ proto' = proto
        /\ CaptureTypeInv /\ sent \in 0..5
    BY DEF Arrives, CaptureInv, CaptureTypeInv
  <1> DEFINE buf == Append(pending, Segment(conn, sent + 1))
  <1>1. Collected(buf)
    BY DEF Arrives
  <1>2. conn \in Conns /\ proto \in [Conns -> Kinds]
    BY <1>0, SegmentIs DEF CaptureTypeInv
  <1>3. CASE sent <= 1 /\ timers = 0 /\ FirstOnes(pending, sent)
    <2>1. /\ buf \in Seq(Segments) /\ Len(buf) = sent + 1
          /\ \A i \in 1..(sent + 1) : buf[i] = [of |-> conn, part |-> Parts[proto[conn]][i]]
      BY <1>0, <1>3, OneMoreOfTheFirst
    <2>2. sent + 1 \in 1..2
      BY <1>0, <1>3
    <2>3. buf[1].part = "hello1"
      BY <1>2, <2>1, <2>2, TlsAtSecond
    <2>4. ~(Len(buf) > MaxBuf) /\ buf[1].part # "banner"
          /\ ~(buf[1].part \notin Handshakes \union {"banner"})
      BY <2>1, <2>2, <2>3, BuffersAssumption DEF Handshakes
    <2> HIDE DEF buf
    <2>5. pending' = buf /\ hello' = buf /\ timers' = 0
      BY <1>1, <1>3, <2>4 DEF Collected
    <2>6. FirstOnes(pending, sent)' /\ FirstOnes(hello, sent)'
      BY <1>0, <2>1, <2>5 DEF FirstOnes, Segment
    <2>7. sent' <= 1 \/ sent' = 2
      BY <1>0, <2>2
    <2>8. CASE sent' = 2
      BY <2>6, <2>8 DEF FirstOnes
    <2>. QED  BY <2>5, <2>6, <2>7, <2>8
  <1>4. CASE sent = 2 /\ FirstOnes(hello, 2)
    BY <1>0, <1>4 DEF FirstOnes
  <1>5. CASE sent >= 2 /\ Printed("tls")
    <2>1. prints \subseteq prints'
      BY <1>1, Effects
    <2>. QED  BY <1>0, <1>5, <2>1 DEF Printed, PrintedAs
  <1>. QED  BY <1>0, <1>3, <1>4, <1>5 DEF CaptureInv, TlsInv

LEMMA ArrivesEarly ==
  ASSUME CaptureInv, Arrives
  PROVE  EarlyInv'
  <1> SUFFICES ASSUME conn \notin unclean, proto[conn] = "early"
               PROVE  \/ sent' = 1 /\ FirstOnes(hello, 1)'
                      \/ sent' >= 1 /\ PrintedAs("tls", FALSE)'
    BY DEF EarlyInv, Arrives
  <1>0. /\ conn # 0 /\ hello = <<>> /\ sent < 5 /\ sent' = sent + 1 /\ conn' = conn /\ proto' = proto
        /\ CaptureTypeInv /\ sent \in 0..5
    BY DEF Arrives, CaptureInv, CaptureTypeInv
  <1> DEFINE buf == Append(pending, Segment(conn, sent + 1))
  <1>1. Collected(buf)
    BY DEF Arrives
  <1>2. conn \in Conns /\ proto \in [Conns -> Kinds]
    BY <1>0, SegmentIs DEF CaptureTypeInv
  <1>3. CASE sent = 0 /\ timers = 0 /\ FirstOnes(pending, 0)
    <2>0. FirstOnes(pending, sent) /\ sent + 1 = 1 /\ 1 \in 1..1
      BY <1>0, <1>3
    <2>1. /\ buf \in Seq(Segments) /\ Len(buf) = sent + 1
          /\ \A i \in 1..(sent + 1) : buf[i] = [of |-> conn, part |-> Parts[proto[conn]][i]]
      BY <1>0, <2>0, OneMoreOfTheFirst
    <2>2. Len(buf) = 1 /\ buf[1] = [of |-> conn, part |-> Parts[proto[conn]][1]]
      BY <2>0, <2>1
    <2>3. buf[1].part = "early1"
      BY <2>2, Conversations
    <2>4. ~(Len(buf) > MaxBuf) /\ buf[1].part # "banner"
          /\ ~(buf[1].part \notin Handshakes \union {"banner"})
      BY <2>2, <2>3, BuffersAssumption DEF Handshakes
    <2> HIDE DEF buf
    <2>5. hello' = buf
      BY <1>1, <2>4 DEF Collected
    <2>6. FirstOnes(hello, 1)'
      <3>1. ASSUME NEW i \in 1..1 PROVE buf[i] = [of |-> conn, part |-> Parts[proto[conn]][i]]
        <4>1. i = 1
          OBVIOUS
        <4>. QED  BY <2>2, <4>1
      <3>. QED  BY <1>0, <2>2, <2>5, <3>1 DEF FirstOnes, Segment
    <2>7. sent' = 1
      BY <1>0, <2>0
    <2>. QED  BY <2>6, <2>7
  <1>4. CASE sent = 1 /\ FirstOnes(hello, 1)
    BY <1>0, <1>4 DEF FirstOnes
  <1>5. CASE sent >= 1 /\ PrintedAs("tls", FALSE)
    <2>1. prints \subseteq prints'
      BY <1>1, Effects
    <2>. QED  BY <1>0, <1>5, <2>1 DEF PrintedAs
  <1>. QED  BY <1>0, <1>3, <1>4, <1>5 DEF CaptureInv, EarlyInv

LEMMA ArrivesKeeps ==
  ASSUME CaptureInv, Arrives
  PROVE  CaptureInv'
  <1>0. /\ conn # 0 /\ hello = <<>> /\ sent < 5 /\ sent' = sent + 1
        /\ conn' = conn /\ proto' = proto /\ repeats' = repeats /\ unclean' = unclean
    BY DEF Arrives
  <1> DEFINE buf == Append(pending, Segment(conn, sent + 1))
  <1>1. CaptureTypeInv /\ Sound(pending, conn, proto, sent, unclean)
    BY DEF CaptureInv, BufferInv
  <1>2. /\ sent \in 0..4 /\ sent + 1 \in 1..5 /\ sent + 1 \in 0..5 /\ repeats \in Nat
        /\ pending \in Seq(Segments) /\ proto \in [Conns -> Kinds]
    BY <1>0, <1>1 DEF CaptureTypeInv
  <1>3. /\ conn \in Conns /\ Segment(conn, sent + 1) \in Segments
        /\ Segment(conn, sent + 1) = [of |-> conn, part |-> Parts[proto[conn]][sent + 1]]
    BY <1>0, <1>1, <1>2, SegmentIs
  <1>4. buf \in Seq(Segments) /\ Sound(buf, conn, proto, sent', unclean')
    BY <1>0, <1>1, <1>2, <1>3, SoundNext, AppendedAt
  <1>5. Collected(buf)
    BY DEF Arrives
  <1> HIDE DEF buf
  <1>6. CaptureTypeInv' /\ BufferInv' /\ PrintInv'
    BY <1>0, <1>2, <1>4, <1>5, CollectedInv
  <1>. QED  BY <1>6, ArrivesSsh, ArrivesTls, ArrivesEarly DEF CaptureInv

LEMMA ArrivesAgainKeeps ==
  ASSUME CaptureInv, ArrivesAgain
  PROVE  CaptureInv'
  <1>0. /\ conn # 0 /\ hello = <<>> /\ sent > 0 /\ sent' = sent
        /\ conn' = conn /\ proto' = proto /\ repeats' = repeats + 1 /\ unclean' = unclean \union {conn}
    BY DEF ArrivesAgain
  <1> DEFINE buf == Append(pending, Segment(conn, sent))
  <1>1. CaptureTypeInv /\ Sound(pending, conn, proto, sent, unclean)
    BY DEF CaptureInv, BufferInv
  <1>2. /\ sent \in 1..5 /\ sent \in 0..5 /\ repeats + 1 \in Nat
        /\ pending \in Seq(Segments) /\ proto \in [Conns -> Kinds]
    BY <1>0, <1>1 DEF CaptureTypeInv
  <1>3. /\ conn \in Conns /\ Segment(conn, sent) \in Segments
        /\ Segment(conn, sent) = [of |-> conn, part |-> Parts[proto[conn]][sent]]
    BY <1>0, <1>1, <1>2, SegmentIs
  <1>4. buf \in Seq(Segments) /\ Sound(buf, conn, proto, sent', unclean')
    BY <1>0, <1>1, <1>2, <1>3, SoundAgain, AppendedAt
  <1>5. Collected(buf)
    BY DEF ArrivesAgain
  <1> HIDE DEF buf
  <1>6. CaptureTypeInv' /\ BufferInv' /\ PrintInv'
    BY <1>0, <1>2, <1>4, <1>5, CollectedInv
  <1>7. conn' \in unclean'
    BY <1>0
  <1>. QED  BY <1>6, <1>7 DEF CaptureInv, SshInv, TlsInv, EarlyInv

LEMMA TlsFingerprintKeeps ==
  ASSUME CaptureInv, TlsFingerprint
  PROVE  CaptureInv'
  <1>0. /\ hello # <<>> /\ hello' = <<>>
        /\ conn' = conn /\ proto' = proto /\ sent' = sent /\ repeats' = repeats
        /\ sshDone' = sshDone /\ unclean' = unclean
        /\ \/ TlsPrint(hello) = {} /\ pending' = pending /\ timers' = timers /\ prints' = prints
           \/ TlsPrint(hello) # {} /\ pending' = <<>> /\ timers' = timers + 1 /\ prints' = prints \union TlsPrint(hello)
    BY DEF TlsFingerprint
  <1>1. /\ conn \in 0..MaxConns /\ proto \in [Conns -> Kinds] /\ sent \in 0..5 /\ repeats \in Nat
        /\ pending \in Seq(Segments) /\ sshDone \in BOOLEAN /\ hello \in Seq(Segments) /\ timers \in Nat
        /\ (conn = 0 => sent = 0)
    BY DEF CaptureInv, CaptureTypeInv
  <1>2. /\ Sound(pending, conn, proto, sent, unclean) /\ Sound(hello, conn, proto, sent, unclean)
        /\ (sshDone => timers > 0) /\ unclean \subseteq 1..conn
        /\ (Len(hello) # 0 => hello[1].part \in Handshakes)
    BY DEF CaptureInv, BufferInv
  <1>3. Len(hello) \in Nat /\ Len(hello) # 0 /\ <<>> \in Seq(Segments) /\ Len(hello') = 0
    BY <1>0, <1>1
  <1>4. timers' \in Nat /\ timers' >= timers
    BY <1>0, <1>1
  <1>5. CaptureTypeInv'
    <2>1. pending' \in Seq(Segments)
      BY <1>0, <1>1, <1>3
    <2>. QED  BY <1>0, <1>1, <1>3, <1>4, <2>1 DEF CaptureTypeInv
  <1>6. BufferInv'
    <2>1. Sound(<<>>, conn, proto, sent, unclean)
      BY SoundEmpty
    <2>2. Sound(pending', conn', proto', sent', unclean') /\ Sound(hello', conn', proto', sent', unclean')
      BY <1>0, <1>2, <2>1
    <2>3. sshDone' => timers' > 0
      BY <1>0, <1>1, <1>2, <1>4
    <2>. QED  BY <1>0, <1>2, <1>3, <2>2, <2>3 DEF BufferInv
  <1>7. PrintInv'
    <2>1. ASSUME NEW p \in prints', p.from \intersect unclean' = {} PROVE OneClient(p, conn, proto)
      <3>1. p \in prints \/ p \in TlsPrint(hello)
        BY <1>0
      <3>2. p.from \intersect unclean = {}
        BY <1>0, <2>1
      <3>3. CASE p \in prints
        BY <3>2, <3>3 DEF CaptureInv, PrintInv
      <3>4. CASE p \in TlsPrint(hello)
        BY <1>1, <1>2, <1>3, <3>2, <3>4, TlsPrintsSound
      <3>. QED  BY <3>1, <3>3, <3>4
    <2>. QED  BY <1>0, <2>1 DEF PrintInv, OneClient
  <1>8. prints \subseteq prints'
    BY <1>0
  <1>9. SshInv'
    <2> SUFFICES ASSUME conn # 0, conn \notin unclean, proto[conn] = "ssh"
                 PROVE  sent' >= 3 /\ Printed("ssh")'
      BY <1>0 DEF SshInv
    <2>1. sent >= 3 /\ Printed("ssh")
      BY <1>3 DEF CaptureInv, SshInv
    <2>. QED  BY <1>0, <1>8, <2>1 DEF Printed, PrintedAs
  <1>10. TlsInv'
    <2> SUFFICES ASSUME conn # 0, conn \notin unclean, proto[conn] = "tls"
                 PROVE  \/ sent' <= 1 /\ timers' = 0 /\ FirstOnes(pending, sent)' /\ Len(hello') = 0
                        \/ sent' >= 2 /\ Printed("tls")'
      BY <1>0 DEF TlsInv
    <2>1. \/ /\ sent <= 1 /\ timers = 0 /\ FirstOnes(pending, sent)
             /\ Len(hello) = 0 \/ FirstOnes(hello, sent)
          \/ sent = 2 /\ FirstOnes(hello, 2)
          \/ sent >= 2 /\ Printed("tls")
      BY DEF CaptureInv, TlsInv
    <2>2. conn \in Conns
      BY <1>1, BuffersAssumption DEF Conns
    <2>3. ASSUME NEW n \in 1..2, FirstOnes(hello, n)
          PROVE  /\ n < 2 => TlsPrint(hello) = {}
                 /\ n = 2 => TlsPrint(hello) = {[kind |-> "tls", from |-> {conn}, whole |-> TRUE]}
      <3>1. Len(hello) = n /\ \A i \in 1..n : hello[i] = [of |-> conn, part |-> Parts[proto[conn]][i]]
        BY <2>3 DEF FirstOnes, Segment
      <3>. QED  BY <1>1, <2>2, <3>1, TlsAtSecond
    <2>4. CASE sent <= 1 /\ timers = 0 /\ FirstOnes(pending, sent) /\ FirstOnes(hello, sent)
      <3>1. sent = 1
        BY <1>1, <1>3, <2>4 DEF FirstOnes
      <3>2. TlsPrint(hello) = {}
        BY <2>3, <2>4, <3>1
      <3>3. pending' = pending /\ timers' = 0 /\ sent' = sent
        BY <1>0, <2>4, <3>2
      <3>. QED  BY <1>0, <1>3, <2>4, <3>3 DEF FirstOnes, Segment
    <2>5. CASE sent = 2 /\ FirstOnes(hello, 2)
      <3>1. TlsPrint(hello) = {[kind |-> "tls", from |-> {conn}, whole |-> TRUE]}
        BY <2>3, <2>5
      <3>. QED  BY <1>0, <2>5, <3>1 DEF Printed, PrintedAs
    <2>6. CASE sent >= 2 /\ Printed("tls")
      BY <1>0, <1>8, <2>6 DEF Printed, PrintedAs
    <2>. QED  BY <1>3, <2>1, <2>4, <2>5, <2>6
  <1>11. EarlyInv'
    <2> SUFFICES ASSUME conn # 0, conn \notin unclean, proto[conn] = "early"
                 PROVE  sent' >= 1 /\ PrintedAs("tls", FALSE)'
      BY <1>0 DEF EarlyInv
    <2>1. \/ sent = 1 /\ FirstOnes(hello, 1)
          \/ sent >= 1 /\ PrintedAs("tls", FALSE)
      BY <1>3 DEF CaptureInv, EarlyInv
    <2>2. CASE sent = 1 /\ FirstOnes(hello, 1)
      <3>1. hello[1] = [of |-> conn, part |-> Parts[proto[conn]][1]]
        BY <2>2 DEF FirstOnes, Segment
      <3>2. TlsPrint(hello) = {[kind |-> "tls", from |-> {conn}, whole |-> FALSE]}
        BY <3>1, EarlyAtFirst
      <3>. QED  BY <1>0, <2>2, <3>2 DEF PrintedAs
    <2>3. CASE sent >= 1 /\ PrintedAs("tls", FALSE)
      BY <1>0, <1>8, <2>3 DEF PrintedAs
    <2>. QED  BY <2>1, <2>2, <2>3
  <1>. QED  BY <1>5, <1>6, <1>7, <1>9, <1>10, <1>11 DEF CaptureInv

LEMMA FlushKeeps ==
  ASSUME CaptureInv, Flush
  PROVE  CaptureInv'
  <1>0. /\ timers > 0 /\ timers' = timers - 1 /\ pending' = <<>> /\ sshDone' = FALSE
        /\ conn' = conn /\ proto' = proto /\ sent' = sent /\ repeats' = repeats
        /\ hello' = hello /\ prints' = prints /\ unclean' = unclean
    BY DEF Flush
  <1>1. CaptureTypeInv'
    <2>1. <<>> \in Seq(Segments) /\ FALSE \in BOOLEAN
      OBVIOUS
    <2>2. timers' \in Nat
      BY <1>0 DEF CaptureInv, CaptureTypeInv
    <2>. QED  BY <1>0, <2>1, <2>2 DEF CaptureInv, CaptureTypeInv
  <1>2. BufferInv'
    <2>1. Sound(<<>>, conn, proto, sent, unclean)
      BY SoundEmpty
    <2>. QED  BY <1>0, <2>1 DEF CaptureInv, BufferInv
  <1>3. timers # 0
    BY <1>0
  <1>4. SshInv'
    BY <1>0, <1>3 DEF CaptureInv, SshInv, Printed, PrintedAs
  <1>5. TlsInv'
    BY <1>0, <1>3 DEF CaptureInv, TlsInv, Printed, PrintedAs, FirstOnes, Segment
  <1>6. PrintInv'
    BY <1>0 DEF CaptureInv, PrintInv, OneClient
  <1>7. EarlyInv'
    BY <1>0, <1>3 DEF CaptureInv, EarlyInv, PrintedAs, FirstOnes, Segment
  <1>. QED  BY <1>1, <1>2, <1>4, <1>5, <1>6, <1>7 DEF CaptureInv

LEMMA ConnectKeeps ==
  ASSUME CaptureInv, Connect
  PROVE  CaptureInv'
  <1>0. /\ conn < MaxConns /\ hello = <<>> /\ conn' = conn + 1 /\ sent' = 0
        /\ unclean' = (IF pending # <<>> \/ timers > 0 THEN unclean \union {conn + 1} ELSE unclean)
        /\ repeats' = repeats /\ pending' = pending /\ sshDone' = sshDone /\ hello' = hello
        /\ timers' = timers /\ prints' = prints
    BY DEF Connect
  <1>1. PICK kind \in Kinds : proto' = [proto EXCEPT ![conn + 1] = kind]
    BY Conversations DEF Connect
  <1>2. /\ conn \in 0..MaxConns /\ proto \in [Conns -> Kinds] /\ repeats \in Nat
        /\ pending \in Seq(Segments) /\ sshDone \in BOOLEAN /\ hello \in Seq(Segments) /\ timers \in Nat
    BY DEF CaptureInv, CaptureTypeInv
  <1>3. conn \in Nat /\ conn + 1 \in 1..MaxConns /\ conn + 1 # 0 /\ MaxConns \in Nat
    BY <1>0, <1>2, BuffersAssumption
  <1>4. /\ Sound(pending, conn, proto, sent, unclean) /\ Sound(hello, conn, proto, sent, unclean)
        /\ (sshDone => timers > 0) /\ unclean \subseteq 1..conn
    BY DEF CaptureInv, BufferInv
  <1>5. /\ unclean \subseteq unclean'
        /\ unclean' \subseteq 1..(conn + 1)
        /\ Len(pending) # 0 => conn + 1 \in unclean'
        /\ conn + 1 \notin unclean' => pending = <<>> /\ timers = 0
    <2>1. unclean \subseteq unclean'
      BY <1>0
    <2>2. 1..conn \subseteq 1..(conn + 1) /\ conn + 1 \in 1..(conn + 1)
      BY <1>3
    <2>3. unclean' \subseteq 1..(conn + 1)
      BY <1>0, <1>4, <2>2
    <2>4. Len(pending) # 0 => pending # <<>>
      OBVIOUS
    <2>5. ~(timers > 0) => timers = 0
      BY <1>2
    <2>. QED  BY <1>0, <2>1, <2>3, <2>4, <2>5
  <1>6. CaptureTypeInv'
    <2>1. proto' \in [Conns -> Kinds]
      BY <1>1, <1>2
    <2>2. conn' \in 0..MaxConns /\ sent' \in 0..5
      BY <1>0, <1>3
    <2>. QED  BY <1>0, <1>2, <2>1, <2>2 DEF CaptureTypeInv
  <1>7. BufferInv'
    <2>1. Sound(pending, conn', proto', 0, unclean')
      BY <1>0, <1>1, <1>2, <1>4, <1>5, SoundConnect
    <2>2. Sound(<<>>, conn', proto', 0, unclean')
      BY SoundEmpty
    <2>3. Len(hello') = 0
      BY <1>0
    <2>. QED  BY <1>0, <1>4, <1>5, <2>1, <2>2, <2>3 DEF BufferInv
  <1>8. PrintInv'
    <2>1. ASSUME NEW p \in prints, p.from \intersect unclean' = {} PROVE OneClient(p, conn, proto)
      <3>1. p.from \intersect unclean = {}
        BY <1>5, <2>1
      <3>. QED  BY <3>1 DEF CaptureInv, PrintInv
    <2>2. ASSUME NEW x \in 1..conn PROVE x \in 1..(conn + 1) /\ proto'[x] = proto[x]
      BY <1>1, <1>2, <1>3 DEF Conns
    <2>3. ASSUME NEW p \in prints, OneClient(p, conn, proto) PROVE OneClient(p, conn', proto')
      BY <1>0, <2>2, <2>3 DEF OneClient
    <2>. QED  BY <1>0, <2>1, <2>3 DEF PrintInv
  <1>9. ASSUME conn + 1 \notin unclean'
        PROVE  /\ sent' = 0 /\ sent' <= 1 /\ sent' <= 2 /\ timers' = 0
               /\ FirstOnes(pending, sent)' /\ FirstOnes(pending, 0)' /\ Len(hello') = 0
    <2>1. pending' = <<>> /\ timers' = 0 /\ sent' = 0 /\ hello' = <<>>
      BY <1>0, <1>5, <1>9
    <2>. QED  BY <2>1 DEF FirstOnes
  <1>10. SshInv' /\ TlsInv' /\ EarlyInv'
    BY <1>0, <1>9 DEF SshInv, TlsInv, EarlyInv
  <1>. QED  BY <1>6, <1>7, <1>8, <1>10 DEF CaptureInv

LEMMA CaptureStart == CaptureInit => CaptureInv
  <1> SUFFICES ASSUME CaptureInit PROVE CaptureInv
    OBVIOUS
  <1>1. CaptureTypeInv
    <2>1. [c \in Conns |-> "other"] \in [Conns -> Kinds]
      BY DEF Kinds
    <2>2. 0 \in 0..MaxConns /\ 0 \in 0..5
      BY BuffersAssumption
    <2>3. proto \in [Conns -> Kinds]
      BY <2>1 DEF CaptureInit, Conns
    <2>4. <<>> \in Seq(Segments) /\ FALSE \in BOOLEAN /\ 0 \in Nat
      OBVIOUS
    <2>. QED  BY <2>2, <2>3, <2>4 DEF CaptureInit, CaptureTypeInv
  <1>2. BufferInv
    BY SoundEmpty DEF CaptureInit, BufferInv
  <1>. QED  BY <1>1, <1>2 DEF CaptureInit, CaptureInv, SshInv, TlsInv, EarlyInv, PrintInv

LEMMA CaptureInductive == CaptureInv /\ [CaptureNext]_captureVars => CaptureInv'
  <1>1. ASSUME CaptureInv, UNCHANGED captureVars PROVE CaptureInv'
    BY <1>1 DEF captureVars, CaptureInv, CaptureTypeInv, BufferInv, SshInv, TlsInv, EarlyInv,
                PrintInv, OneClient, Printed, PrintedAs, FirstOnes, Segment
  <1>. QED  BY <1>1, ArrivesKeeps, ArrivesAgainKeeps, TlsFingerprintKeeps, FlushKeeps, ConnectKeeps
         DEF CaptureNext

LEMMA CaptureImplies == CaptureInv => PrintsMatchClients
  <1> SUFFICES ASSUME CaptureInv PROVE PrintsMatchClients
    OBVIOUS
  <1>1. PrintsAreOfOneClient
    BY DEF CaptureInv, PrintInv, PrintsAreOfOneClient, OneClient
  <1>2. HelloIsPrinted
    <2>1. sent \in Nat /\ Len(<<>>) = 0
      BY DEF CaptureInv, CaptureTypeInv
    <2>2. ASSUME conn # 0, conn \notin unclean, hello = <<>>, proto[conn] = "ssh", sent >= 3
          PROVE  Printed("ssh")
      <3>1. ~(sent <= 2)
        BY <2>1, <2>2
      <3>. QED  BY <2>2, <3>1 DEF CaptureInv, SshInv
    <2>3. ASSUME conn # 0, conn \notin unclean, hello = <<>>, proto[conn] = "tls", sent >= 2
          PROVE  Printed("tls")
      <3>1. ~(sent <= 1) /\ Len(hello) # 2
        BY <2>1, <2>3
      <3>. QED  BY <2>3, <3>1 DEF CaptureInv, TlsInv, FirstOnes
    <2>4. ASSUME conn # 0, conn \notin unclean, hello = <<>>, proto[conn] = "early", sent >= 1
          PROVE  PrintedAs("tls", FALSE)
      <3>1. ~(sent = 0) /\ Len(hello) # 1
        BY <2>1, <2>4
      <3>. QED  BY <2>4, <3>1 DEF CaptureInv, EarlyInv, FirstOnes
    <2>. QED  BY <2>2, <2>3, <2>4 DEF HelloIsPrinted, Printed, PrintedAs
  <1>. QED  BY <1>1, <1>2 DEF PrintsMatchClients

\* For any number of connections that reuse a port pair and of repeated
\* segments, and any sizes of the buffers: a fingerprint (packet_capture._handle)
\* is of one client or was made of bytes of a connection that did not find the
\* flow clean; it is of the whole hello unless its first segment already read as
\* one (fingerprint.parse_client_hello), and never then; and a clean client is
\* fingerprinted when it has said hello.
THEOREM CaptureCorrect == CaptureSpec => []PrintsMatchClients
  BY CaptureStart, CaptureInductive, CaptureImplies, PTL DEF CaptureSpec

=================================================================================
