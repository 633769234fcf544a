---------------------------- MODULE PacketCapture ----------------------------
(***************************************************************************)
(* network.packet_capture: the first bytes of a flow are collected until   *)
(* they make an SSH or a TLS fingerprint.  A flow is an address and a port *)
(* pair, so that connections that reuse the port are one flow; buffers are *)
(* given up for their size or after a fingerprint, never for their age.    *)
(* One flow is modelled, with the connections that use it in turn.         *)
(***************************************************************************)
EXTENDS Naturals, Sequences, FiniteSets

CONSTANTS
    MaxConns,      \* bound: connections on the flow
    MaxRepeats,    \* bound: segments sent again
    SmallBuf,      \* 1024 bytes, in segments: given up if it is no handshake
    MaxBuf         \* _MAX_BUF, in segments

\* A banner and a key exchange in two segments are far below _MAX_BUF.
ASSUME BuffersAssumption ==
    /\ MaxConns \in Nat /\ MaxRepeats \in Nat
    /\ SmallBuf \in Nat /\ MaxBuf \in Nat /\ MaxBuf >= 3

VARIABLES
    conn,          \* the connection that has the port
    proto,         \* [connection -> what it speaks]
    sent,          \* segments of it seen so far
    repeats,       \* segments seen twice so far
    pending,       \* _PENDING: the bytes collected, as segments [of, part]
    sshDone,       \* the flow is in _SSH_DONE
    hello,         \* the snapshot of a TLS handshake being fingerprinted
    timers,        \* _flush_after threads that sleep
    prints,        \* fingerprints emitted: [kind, from, whole]
    unclean        \* history: connections that found something of another one's

captureVars == <<conn, proto, sent, repeats, pending, sshDone, hello, timers, prints, unclean>>

\* The segments of a connection: an SSH banner and a key exchange in two, a TLS
\* hello in two, and what follows.  An "early" hello is cut behind its
\* compression methods or in the data of its last extension, any other "tls"
\* one in front of them or between.
Parts == [ssh |-> <<"banner", "kex1", "kex2", "data", "data">>,
          tls |-> <<"hello1", "hello2", "data", "data", "data">>,
          early |-> <<"early1", "hello2", "data", "data", "data">>,
          other |-> <<"data", "data", "data", "data", "data">>]

CaptureInit ==
    /\ conn = 0
    /\ proto = [c \in 1..MaxConns |-> "other"]
    /\ sent = 0
    /\ repeats = 0
    /\ pending = <<>>
    /\ sshDone = FALSE
    /\ hello = <<>>
    /\ timers = 0
    /\ prints = {}
    /\ unclean = {}

-----------------------------------------------------------------------------
(* core.fingerprint: a message is made of its first segment and the next   *)
(* one, whatever that is.  An SSH packet is waited for by its length; the  *)
(* lengths in a TLS hello only cut what is there.                           *)

\* parse_ssh_kexinit skips the banners; what follows must start a packet.
Banners(buf) == {i \in DOMAIN buf : \A j \in 1..i : buf[j].part = "banner"}
KexInit(buf) == SubSeq(buf, Cardinality(Banners(buf)) + 1, Len(buf))

PrintOf(kind, first, second, part) ==
    [kind |-> kind, from |-> {first.of, second.of}, whole |-> second.part = part]

SshPrint(buf) ==
    LET rest == KexInit(buf)
    IN  IF Len(rest) >= 2 /\ rest[1].part = "kex1"
        THEN {PrintOf("ssh", rest[1], rest[2], "kex2")} ELSE {}

\* parse_client_hello: fields that are missing raise, and nothing is printed.
\* Extensions that are missing altogether, and the end of the last one's data,
\* are not missed: the first segment of an early hello is printed as it is.
TlsPrint(buf) ==
    IF buf[1].part = "early1"
    THEN {[kind |-> "tls", from |-> {buf[1].of}, whole |-> FALSE]}
    ELSE IF Len(buf) >= 2 THEN {PrintOf("tls", buf[1], buf[2], "hello2")} ELSE {}

-----------------------------------------------------------------------------
(* _handle, called by the sniffer for one segment after the other          *)

\* _maybe_handshake
Handshakes == {"hello1", "early1"}

\* What the lock is held for, once a segment has been added to the buffer.
Collected(buf) ==
    \/ /\ Len(buf) > MaxBuf
       /\ pending' = <<>>
       /\ UNCHANGED <<sshDone, hello, timers, prints>>
    \/ /\ Len(buf) <= MaxBuf /\ buf[1].part = "banner"
       /\ IF sshDone \/ SshPrint(buf) = {}
          THEN pending' = buf /\ UNCHANGED <<sshDone, timers, prints>>
          ELSE /\ pending' = <<>>
               /\ sshDone' = TRUE
               /\ timers' = timers + 1
               /\ prints' = prints \union SshPrint(buf)
       /\ UNCHANGED hello
    \/ /\ Len(buf) <= MaxBuf /\ buf[1].part \in Handshakes
       /\ pending' = buf
       /\ hello' = buf
       /\ UNCHANGED <<sshDone, timers, prints>>
    \/ /\ Len(buf) <= MaxBuf /\ buf[1].part \notin Handshakes \union {"banner"}
       /\ pending' = IF Len(buf) > SmallBuf THEN <<>> ELSE buf
       /\ UNCHANGED <<sshDone, hello, timers, prints>>

Segment(c, k) == [of |-> c, part |-> Parts[proto[c]][k]]

Arrives ==
    /\ conn # 0 /\ hello = <<>>
    /\ sent < 5
    /\ sent' = sent + 1
    /\ Collected(Append(pending, Segment(conn, sent + 1)))
    /\ UNCHANGED <<conn, proto, repeats, unclean>>

\* A segment is sent, and captured, again.
ArrivesAgain ==
    /\ conn # 0 /\ hello = <<>>
    /\ sent > 0 /\ repeats < MaxRepeats
    /\ repeats' = repeats + 1
    /\ unclean' = unclean \union {conn}
    /\ Collected(Append(pending, Segment(conn, sent)))
    /\ UNCHANGED <<conn, proto, sent>>

\* Behind the lock; taken again to drop the buffer.
TlsFingerprint ==
    /\ hello # <<>>
    /\ hello' = <<>>
    /\ IF TlsPrint(hello) = {}
       THEN UNCHANGED <<pending, timers, prints>>
       ELSE /\ pending' = <<>>
            /\ timers' = timers + 1
            /\ prints' = prints \union TlsPrint(hello)
    /\ UNCHANGED <<conn, proto, sent, repeats, sshDone, unclean>>

\* Mutant: the mark of the flow is not taken back.
MutFlush ==
    /\ timers > 0
    /\ timers' = timers - 1
    /\ pending' = <<>>
    /\ UNCHANGED <<conn, proto, sent, repeats, sshDone, hello, prints, unclean>>

\* _flush_after: 30 seconds later, whoever has the port by then.
Flush ==
    /\ timers > 0
    /\ timers' = timers - 1
    /\ pending' = <<>>
    /\ sshDone' = FALSE
    /\ UNCHANGED <<conn, proto, sent, repeats, hello, prints, unclean>>

\* The port is taken by a new connection, finished or not as the last one is.
Connect ==
    /\ conn < MaxConns /\ hello = <<>>
    /\ \E p \in DOMAIN Parts : proto' = [proto EXCEPT ![conn + 1] = p]
    /\ conn' = conn + 1
    /\ sent' = 0
    /\ unclean' = IF pending # <<>> \/ timers > 0
                  THEN unclean \union {conn + 1} ELSE unclean
    /\ UNCHANGED <<repeats, pending, sshDone, hello, timers, prints>>

CaptureNext == Arrives \/ ArrivesAgain \/ TlsFingerprint \/ Flush \/ Connect

CaptureSpec == CaptureInit /\ [][CaptureNext]_captureVars

-----------------------------------------------------------------------------
(* Properties                                                              *)

\* A fingerprint is that of one client, unless a segment came twice or a
\* connection found the port pair in use: it began behind bytes of its
\* predecessor, or with its predecessor's timer running.  It is made of the
\* whole hello, unless the cut left a first segment that reads as a shorter one.
PrintsAreOfOneClient ==
    \A p \in prints : p.from \intersect unclean = {} =>
        \E c \in 1..conn : p.from = {c} /\ (p.whole <=> proto[c] # "early")

\* Every connection that starts clean and says hello is fingerprinted as soon
\* as it has, whatever the connections before it left unfinished: with the
\* whole of it, or with as much as its first segment holds when that reads.
HelloIsPrinted ==
    conn # 0 /\ conn \notin unclean /\ hello = <<>> =>
        /\ proto[conn] = "ssh" /\ sent >= 3 => [kind |-> "ssh", from |-> {conn}, whole |-> TRUE] \in prints
        /\ proto[conn] = "tls" /\ sent >= 2 => [kind |-> "tls", from |-> {conn}, whole |-> TRUE] \in prints
        /\ proto[conn] = "early" /\ sent >= 1 => [kind |-> "tls", from |-> {conn}, whole |-> FALSE] \in prints

\* Both: every clean client has its fingerprint, and no fingerprint is wrong.
PrintsMatchClients == PrintsAreOfOneClient /\ HelloIsPrinted
=============================================================================
