----------------------------- MODULE SshChannels -----------------------------
(***************************************************************************)
(* One connection of the SSH sensors (ssh_sensor._Handler and its twin in  *)
(* ssh_shell_base, which the ESXi and Windows shells run on).              *)
(*                                                                         *)
(* The transport thread of the SSH library answers the client: it queues   *)
(* each opened channel and calls back into the server object on a shell or *)
(* exec request.  The handler thread takes channels from the queue and     *)
(* starts a thread for each.  Between the two there is one Event for all   *)
(* channels of the connection and a table of exec commands keyed by        *)
(* channel.  The library (queue, callbacks, timeouts) is external.         *)
(***************************************************************************)
EXTENDS Naturals, Sequences

CONSTANT Channels   \* the channels the client may open on the connection

NoChan == "no channel"

ASSUME ChannelsAssumption == NoChan \notin Channels

VARIABLES
    active,      \* the transport is up
    queue,       \* opened channels that accept() has not returned yet
    opened,      \* channels opened so far
    request,     \* [Channels -> what the client has asked for on the channel]
    execForChan, \* _exec_for_chan: channels with a stashed command
    event,       \* server.event
    pc, chan,    \* the handler thread, and its local chan
    thread,      \* [Channels -> state of the channel's serving thread]
    servedAs,    \* [Channels -> what the thread found the channel to be]
    closed       \* channels that have been closed

clientVars == <<active, opened, request>>
serverVars == <<queue, execForChan, event>>
handlerVars == <<pc, chan>>
threadVars == <<thread, servedAs, closed>>
vars == <<clientVars, serverVars, handlerVars, threadVars>>

Pcs == {"loop", "accept", "wait", "start", "join", "close", "done"}
Kinds == {"none", "shell", "exec"}

TypeOK ==
    /\ active \in BOOLEAN
    /\ queue \in Seq(Channels)
    /\ opened \in SUBSET Channels
    /\ request \in [Channels -> Kinds]
    /\ execForChan \in SUBSET Channels
    /\ event \in BOOLEAN
    /\ pc \in Pcs
    /\ chan \in Channels \union {NoChan}
    /\ thread \in [Channels -> {"none", "started", "serving", "ended"}]
    /\ servedAs \in [Channels -> Kinds]
    /\ closed \in SUBSET Channels

Init ==
    /\ active = TRUE
    /\ queue = <<>>
    /\ opened = {}
    /\ request = [c \in Channels |-> "none"]
    /\ execForChan = {}
    /\ event = FALSE
    /\ pc = "loop"
    /\ chan = NoChan
    /\ thread = [c \in Channels |-> "none"]
    /\ servedAs = [c \in Channels |-> "none"]
    /\ closed = {}

-----------------------------------------------------------------------------
(* The client, and the transport thread on its behalf                      *)

\* check_channel_request grants every session channel.
Open(c) ==
    /\ active
    /\ c \notin opened
    /\ opened' = opened \union {c}
    /\ queue' = Append(queue, c)
    /\ UNCHANGED <<active, request, execForChan, event, handlerVars, threadVars>>

CanRequest(c) == active /\ c \in opened \ closed /\ request[c] = "none"

RequestShell(c) ==
    /\ CanRequest(c)
    /\ request' = [request EXCEPT ![c] = "shell"]
    /\ event' = TRUE
    /\ UNCHANGED <<active, opened, queue, execForChan, handlerVars, threadVars>>

\* The command is logged and stashed for its channel.
RequestExec(c) ==
    /\ CanRequest(c)
    /\ request' = [request EXCEPT ![c] = "exec"]
    /\ execForChan' = execForChan \union {c}
    /\ event' = TRUE
    /\ UNCHANGED <<active, opened, queue, handlerVars, threadVars>>

Disconnect ==
    /\ active
    /\ active' = FALSE
    /\ UNCHANGED <<opened, request, serverVars, handlerVars, threadVars>>

-----------------------------------------------------------------------------
(* The handler thread                                                      *)

\* while transport.is_active(): server.event.clear()
Loop ==
    /\ pc = "loop"
    /\ IF active
         THEN pc' = "accept" /\ event' = FALSE
         ELSE pc' = "join" /\ UNCHANGED event
    /\ UNCHANGED <<chan, queue, execForChan, clientVars, threadVars>>

\* Mutant: the channel stays in the queue.
MutAcceptChannel ==
    /\ pc = "accept"
    /\ queue # <<>>
    /\ chan' = Head(queue)
    /\ pc' = "wait"
    /\ UNCHANGED <<queue, execForChan, event, clientVars, threadVars>>

AcceptChannel ==
    /\ pc = "accept"
    /\ queue # <<>>
    /\ chan' = Head(queue)
    /\ queue' = Tail(queue)
    /\ pc' = "wait"
    /\ UNCHANGED <<execForChan, event, clientVars, threadVars>>

\* accept(30) returns None: no channel for 30 s, or the transport is gone.
AcceptNone ==
    /\ pc = "accept"
    /\ queue = <<>>
    /\ pc' = "join"
    /\ UNCHANGED <<chan, serverVars, clientVars, threadVars>>

WaitReturns ==
    /\ pc = "wait"
    /\ event
    /\ pc' = "start"
    /\ UNCHANGED <<chan, serverVars, clientVars, threadVars>>

\* Mutant: the timeout closes nothing.
MutWaitLeavesOpen ==
    /\ pc = "wait"
    /\ ~event
    /\ chan' = NoChan
    /\ pc' = "loop"
    /\ UNCHANGED <<serverVars, clientVars, threadVars>>

\* event.wait(30) runs out: the channel is closed unserved.
WaitTimesOut ==
    /\ pc = "wait"
    /\ ~event
    /\ closed' = closed \union {chan}
    /\ chan' = NoChan
    /\ pc' = "loop"
    /\ UNCHANGED <<serverVars, clientVars, thread, servedAs>>

StartThread ==
    /\ pc = "start"
    /\ thread' = [thread EXCEPT ![chan] = "started"]
    /\ chan' = NoChan
    /\ pc' = "loop"
    /\ UNCHANGED <<serverVars, clientVars, servedAs, closed>>

\* join(timeout=5) on every thread: all have ended, or some have not.
Join ==
    /\ pc = "join"
    /\ pc' = "close"
    /\ UNCHANGED <<chan, serverVars, clientVars, threadVars>>

\* transport.close(): what is still being served is cut off.
CloseTransport ==
    /\ pc = "close"
    /\ active' = FALSE
    /\ pc' = "done"
    /\ UNCHANGED <<chan, opened, request, serverVars, threadVars>>

HandlerStep ==
    \/ Loop
    \/ AcceptChannel \/ AcceptNone
    \/ WaitReturns \/ WaitTimesOut
    \/ StartThread
    \/ Join
    \/ CloseTransport

-----------------------------------------------------------------------------
(* The serving threads: _serve_shell                                       *)

\* take_exec pops the command stashed for this channel.
TakeExec(c) ==
    /\ thread[c] = "started"
    /\ thread' = [thread EXCEPT ![c] = "serving"]
    /\ servedAs' = [servedAs EXCEPT ![c] = IF c \in execForChan THEN "exec" ELSE "shell"]
    /\ execForChan' = execForChan \ {c}
    /\ UNCHANGED <<queue, event, clientVars, handlerVars, closed>>

\* An exec has been answered; a shell ends with exit or with the client.
Finish(c) ==
    /\ thread[c] = "serving"
    /\ thread' = [thread EXCEPT ![c] = "ended"]
    /\ closed' = closed \union {c}
    /\ UNCHANGED <<servedAs, serverVars, clientVars, handlerVars>>

MustFinish(c) == servedAs[c] = "exec" \/ ~active

ThreadStep(c) == TakeExec(c) \/ Finish(c)

Next ==
    \/ \E c \in Channels : Open(c) \/ RequestShell(c) \/ RequestExec(c)
    \/ Disconnect
    \/ HandlerStep
    \/ \E c \in Channels : ThreadStep(c)

Spec == Init /\ [][Next]_vars

\* Both timeouts run out, threads are scheduled, an exec is answered, and a
\* shell ends once the transport is closed; the client owes nothing.
FairSpec ==
    /\ Spec
    /\ WF_vars(HandlerStep)
    /\ \A c \in Channels : WF_vars(TakeExec(c)) /\ WF_vars(MustFinish(c) /\ Finish(c))

-----------------------------------------------------------------------------
(* Properties                                                              *)

\* A command runs on the channel it was sent on, at most once, and only if it
\* was sent: the table is keyed by channel and emptied by the one who reads it.
ExecOnOwnChannel ==
    \A c \in Channels :
       /\ servedAs[c] = "exec" => request[c] = "exec" /\ c \notin execForChan
       /\ c \in execForChan => request[c] = "exec"

\* A channel is in one place only: waiting in the queue, in the hands of the
\* handler, or with its own thread; and it is not served after it was closed.
ChannelInOnePlace ==
    /\ \A i, j \in DOMAIN queue : queue[i] = queue[j] => i = j
    /\ \A i \in DOMAIN queue : thread[queue[i]] = "none" /\ queue[i] # chan
                               /\ queue[i] \notin closed
    /\ chan # NoChan => thread[chan] = "none" /\ chan \notin closed
    /\ \A c \in Channels : thread[c] \in {"started", "serving"} => c \notin closed

\* The strengthening that makes ChannelInOnePlace inductive: what is anywhere
\* has been opened, and the handler holds a channel while it waits or starts.
OnlyOpened ==
    /\ \A i \in DOMAIN queue : queue[i] \in opened
    /\ chan # NoChan => chan \in opened
    /\ \A c \in Channels : thread[c] # "none" => c \in opened
    /\ closed \subseteq opened
    /\ pc \in {"wait", "start"} => chan # NoChan

\* However the wake-ups fall, every channel the handler has taken from the
\* queue ends up closed.
TakenChannelsClose == \A c \in Channels : (chan = c) ~> (c \in closed)

\* Both: nothing is run on, or held by, a channel that it does not belong to.
ChannelsSound == ExecOnOwnChannel /\ ChannelInOnePlace

-----------------------------------------------------------------------------
(* Statements of the comments                                              *)

\* "a single SSH session can multiplex several": while the connection lasts, a
\* channel is not closed on a client whose request had been granted.
GrantedRequestIsServed ==
    \A c \in Channels : request[c] # "none" /\ c \in closed => servedAs[c] # "none"
=============================================================================
