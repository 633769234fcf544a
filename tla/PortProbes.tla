------------------------------- MODULE PortProbes -------------------------------
(***************************************************************************)
(* sensors.rdp_sensor and sensors.win_sensor: what is recorded of a client *)
(* that sends a few bytes to a port that is not what it seems, and may     *)
(* stall, finish or be cut off at any of them.  Bytes come in units: a     *)
(* header that says how many units follow it, or a unit of a body.         *)
(***************************************************************************)
EXTENDS Naturals, Sequences

CONSTANTS
    Streams,       \* what a client means to send: sequences of units
    Budget         \* READ_BUDGET, in units

ASSUME StreamsAssumption ==
    Streams \subseteq Seq([is : STRING, length : Nat])

VARIABLES
    kind,          \* the port: "rdp", "port" of Windows, "greeting" port of it
    stream,        \* what the client has still to send
    arrived,       \* what it has sent and the handler has not read
    link,          \* "open", "finished" by the client, or "cut"
    probeAt,       \* where the handler stands
    frame,         \* units of the message, or of the payload, read so far
    told,          \* events: [type, says], what they say as a set of units
    spoken,        \* history: all that the client has sent
    lostTo         \* history: the state of the link when a read was given up

probeVars == <<kind, stream, arrived, link, probeAt, frame, told, spoken, lostTo>>

ProbeInit ==
    /\ kind \in {"rdp", "port", "greeting"}
    /\ stream \in Streams
    /\ arrived = <<>>
    /\ link = "open"
    /\ probeAt = IF kind = "rdp" THEN "request" ELSE "greet"
    /\ frame = <<>>
    /\ told = <<[type |-> "probe", says |-> {}]>>
    /\ spoken = <<>>
    /\ lostTo = "nothing"

Units(s) == {s[i].is : i \in DOMAIN s}
Tell(type, says) == told' = Append(told, [type |-> type, says |-> says])

-----------------------------------------------------------------------------
(* The client and the network                                              *)

ClientSends ==
    /\ link = "open" /\ stream # <<>>
    /\ arrived' = Append(arrived, Head(stream))
    /\ spoken' = Append(spoken, Head(stream))
    /\ stream' = Tail(stream)
    /\ UNCHANGED <<kind, link, probeAt, frame, told, lostTo>>

Finishes ==
    /\ link = "open"
    /\ link' = "finished"
    /\ UNCHANGED <<kind, stream, arrived, probeAt, frame, told, spoken, lostTo>>

IsCut ==
    /\ link \in {"open", "finished"}
    /\ link' = "cut"
    /\ UNCHANGED <<kind, stream, arrived, probeAt, frame, told, spoken, lostTo>>

-----------------------------------------------------------------------------
(* rdp_sensor: _Handler.handle                                             *)

Foreign == frame # <<>> /\ frame[1].is # "head"

\* A message ends with what its header said, or with the stream.
Complete(s) == s # <<>> /\ Len(s) > s[1].length
Ended == link = "finished" /\ arrived = <<>>

\* _recv_tpkt, a unit at a time.
RdpReads ==
    /\ kind = "rdp" /\ probeAt \in {"request", "core"}
    /\ arrived # <<>> /\ ~Foreign /\ ~Complete(frame)
    /\ frame' = Append(frame, Head(arrived))
    /\ arrived' = Tail(arrived)
    /\ UNCHANGED <<kind, stream, link, probeAt, told, spoken, lostTo>>

IsRead(s) == Complete(s) \/ (s # <<>> /\ Ended)

\* No header, or one of something else: nothing is made of it.
NoMessage == Foreign \/ (frame = <<>> /\ Ended)

\* Mutant: what stands behind the cookie is not looked at.
MutParsed(s) ==
    IF Len(s) >= 2 /\ s[2].is = "cr"
    THEN {s[i].is : i \in DOMAIN s \intersect 1..3} \intersect {"cookie", "protocols"} ELSE {}

\* A connection request says who asks, unless it is something else.
Parsed(s) ==
    IF Len(s) >= 2 /\ s[2].is = "cr" THEN Units(s) \intersect {"cookie", "protocols"} ELSE {}

\* _parse_connection_request and its event, then _build_connection_confirm,
\* which fails on a connection that was cut.
RdpConnect ==
    /\ kind = "rdp" /\ probeAt = "request"
    /\ ~NoMessage /\ IsRead(frame)
    /\ Tell("rdp_connect", Parsed(frame))
    /\ probeAt' \in IF link = "cut" THEN {"end", "core"} ELSE {"core"}
    /\ frame' = <<>>
    /\ UNCHANGED <<kind, stream, arrived, link, spoken, lostTo>>

\* _parse_client_core: nothing is reported of a message without the block.
RdpClientInfo ==
    /\ kind = "rdp" /\ probeAt = "core"
    /\ ~NoMessage /\ IsRead(frame)
    /\ IF "core" \in Units(Tail(frame)) THEN Tell("client_info", {"core"}) ELSE UNCHANGED told
    /\ probeAt' = "end"
    /\ frame' = <<>>
    /\ UNCHANGED <<kind, stream, arrived, link, spoken, lostTo>>

\* The early returns, and the exceptions: fifteen seconds of silence, or a reset.
RdpGivesUp ==
    /\ kind = "rdp" /\ probeAt \in {"request", "core"}
    /\ NoMessage \/ (~IsRead(frame) /\ arrived = <<>>) \/ link = "cut"
    /\ probeAt' = "end"
    /\ lostTo' = link
    /\ UNCHANGED <<kind, stream, arrived, link, frame, told, spoken>>

\* finally:
RdpEnd ==
    /\ kind = "rdp" /\ probeAt = "end"
    /\ Tell("session_end", {})
    /\ probeAt' = "closed"
    /\ UNCHANGED <<kind, stream, arrived, link, frame, spoken, lostTo>>

-----------------------------------------------------------------------------
(* win_sensor: _PortHandler.handle                                         *)

\* The ports of PORT_PROFILES with a greeting may fail to send it.
Greets ==
    /\ probeAt = "greet"
    /\ probeAt' \in IF kind = "greeting" /\ link = "cut" THEN {"read", "closed"} ELSE {"read"}
    /\ UNCHANGED <<kind, stream, arrived, link, frame, told, spoken, lostTo>>

WinReads ==
    /\ probeAt = "read" /\ arrived # <<>> /\ Len(frame) < Budget
    /\ frame' = Append(frame, Head(arrived))
    /\ arrived' = Tail(arrived)
    /\ UNCHANGED <<kind, stream, link, probeAt, told, spoken, lostTo>>

\* Full, or the end, or five seconds of silence, or a reset.
WinStops ==
    /\ probeAt = "read"
    /\ Len(frame) = Budget \/ arrived = <<>> \/ link = "cut"
    /\ IF frame # <<>> THEN Tell("payload", Units(frame)) ELSE UNCHANGED told
    /\ probeAt' = "closed"
    /\ UNCHANGED <<kind, stream, arrived, link, frame, spoken, lostTo>>

ProbeNext ==
    \/ ClientSends \/ Finishes \/ IsCut
    \/ RdpReads \/ RdpConnect \/ RdpClientInfo \/ RdpGivesUp \/ RdpEnd
    \/ Greets \/ WinReads \/ WinStops

ProbeSpec == ProbeInit /\ [][ProbeNext]_probeVars

-----------------------------------------------------------------------------
(* Properties                                                              *)

Said(type) == UNION {told[i].says : i \in {j \in DOMAIN told : told[j].type = type}}
Story == [i \in DOMAIN told |-> told[i].type]

\* The units of the first message a client has sent, as far as its header goes.
FirstMessage == {i \in DOMAIN spoken : i <= 1 + spoken[1].length}

\* Who the client has said it is: the cookie with its name and the protocols it
\* asks for, if that message is a connection request.
Introduced ==
    {is \in {"cookie", "protocols"} :
        /\ 2 \in FirstMessage /\ spoken[2].is = "cr"
        /\ \E i \in FirstMessage : spoken[i].is = is}

\* An RDP client leaves one of three stories, with an end to each.  What is told
\* of its request is all it introduced itself with and nothing of what it sent
\* behind that, however its bytes came.  Of what the handler has read only that
\* is lost which something foreign began, or which silence or a reset cut short:
\* a client that has finished is told of.  The Windows ports lose nothing.
ProbeIsTold ==
    probeAt = "closed" =>
        /\ kind = "rdp" =>
              /\ Story \in {<<"probe", "session_end">>,
                            <<"probe", "rdp_connect", "session_end">>,
                            <<"probe", "rdp_connect", "client_info", "session_end">>}
              /\ Story[2] = "rdp_connect" => told[2].says = Introduced
              /\ frame # <<>> /\ ~Foreign => lostTo \in {"open", "cut"}
        /\ kind # "rdp" => Units(frame) = Said("payload")
=============================================================================
