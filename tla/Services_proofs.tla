---------------------------- MODULE Services_proofs ----------------------------
(***************************************************************************)
(* Proofs about parts that run for themselves: the channels of an SSH      *)
(* connection, for any set of channels; the supervision of the services,   *)
(* for every profile and any number of faults; a Telnet session, for any   *)
(* number of lines; and the database readers, for any number of threads    *)
(* and of changes of the files.                                            *)
(***************************************************************************)
EXTENDS SshChannels, Supervision, TelnetSession, GeoReaders, FiniteSetTheorems,
        TLAPS

-----------------------------------------------------------------------------
(* The channels of an SSH connection                                       *)

\* Typing needs OnlyOpened: what a timeout closes is a channel, because the
\* handler holds one while it waits.
BaseInv == TypeOK /\ OnlyOpened

\* The initial state is well typed, and nothing is anywhere.
LEMMA BaseInit == Init => BaseInv
<1> SUFFICES ASSUME Init PROVE TypeOK /\ OnlyOpened
  BY DEF BaseInv
<1>1. active \in BOOLEAN /\ event \in BOOLEAN
  BY DEF Init
<1>2. TypeOK
  BY <1>1 DEF Init, TypeOK, Pcs, Kinds
<1>3. OnlyOpened
  BY DEF Init, OnlyOpened
<1> QED BY <1>2, <1>3

\* Every step of a connection preserves typing and OnlyOpened.
LEMMA BaseInductive == BaseInv /\ [Next]_vars => BaseInv'
<1> SUFFICES ASSUME TypeOK, OnlyOpened, [Next]_vars PROVE TypeOK' /\ OnlyOpened'
  BY DEF BaseInv
<1> USE DEF TypeOK, OnlyOpened, Pcs, Kinds, clientVars, serverVars, handlerVars, threadVars
<1>1. ASSUME NEW c \in Channels, Open(c) PROVE TypeOK' /\ OnlyOpened'
  <2>1. TypeOK'
    BY <1>1 DEF Open
  <2>2. \A i \in DOMAIN queue' : queue'[i] \in opened'
    BY <1>1 DEF Open
  <2> QED BY <1>1, <2>1, <2>2 DEF Open
<1>2. ASSUME NEW c \in Channels, RequestShell(c) PROVE TypeOK' /\ OnlyOpened'
  BY <1>2 DEF RequestShell
<1>3. ASSUME NEW c \in Channels, RequestExec(c) PROVE TypeOK' /\ OnlyOpened'
  BY <1>3 DEF RequestExec
<1>4. CASE Disconnect
  BY <1>4 DEF Disconnect
<1>5. CASE Loop
  BY <1>5 DEF Loop
<1>6. CASE AcceptChannel
  <2>1. /\ Head(queue) = queue[1] /\ 1 \in DOMAIN queue
        /\ Tail(queue) \in Seq(Channels)
        /\ \A i \in DOMAIN Tail(queue) : i + 1 \in DOMAIN queue /\ Tail(queue)[i] = queue[i + 1]
    BY <1>6 DEF AcceptChannel
  <2>2. chan' \in Channels /\ chan' \in opened /\ chan' # NoChan
    BY <1>6, <2>1, ChannelsAssumption DEF AcceptChannel
  <2>3. \A i \in DOMAIN queue' : queue'[i] \in opened
    BY <1>6, <2>1 DEF AcceptChannel
  <2> QED BY <1>6, <2>1, <2>2, <2>3 DEF AcceptChannel
<1>7. CASE AcceptNone
  BY <1>7 DEF AcceptNone
<1>8. CASE WaitReturns
  BY <1>8 DEF WaitReturns
<1>9. CASE WaitTimesOut
  BY <1>9 DEF WaitTimesOut
<1>10. CASE StartThread
  BY <1>10 DEF StartThread
<1>11. CASE Join
  BY <1>11 DEF Join
<1>12. CASE CloseTransport
  BY <1>12 DEF CloseTransport
<1>13. ASSUME NEW c \in Channels, TakeExec(c) PROVE TypeOK' /\ OnlyOpened'
  BY <1>13 DEF TakeExec
<1>14. ASSUME NEW c \in Channels, Finish(c) PROVE TypeOK' /\ OnlyOpened'
  BY <1>14 DEF Finish
<1>15. CASE UNCHANGED vars
  BY <1>15 DEF vars
<1> QED
  BY <1>1, <1>2, <1>3, <1>4, <1>5, <1>6, <1>7, <1>8, <1>9, <1>10, <1>11, <1>12,
     <1>13, <1>14, <1>15 DEF Next, HandlerStep, ThreadStep

\* Every state of a connection is well typed.
THEOREM TypeCorrect == Spec => []TypeOK
<1>1. Spec => []BaseInv
  BY BaseInit, BaseInductive, PTL DEF Spec
<1>2. BaseInv => TypeOK
  BY DEF BaseInv
<1> QED BY <1>1, <1>2, PTL

-----------------------------------------------------------------------------
\* Every step keeps commands on their channels: only a request stashes one,
\* and only a channel without a request can make one.
LEMMA ExecInductive ==
  BaseInv /\ ExecOnOwnChannel /\ [Next]_vars => ExecOnOwnChannel'
<1> SUFFICES ASSUME TypeOK, ExecOnOwnChannel, [Next]_vars PROVE ExecOnOwnChannel'
  BY DEF BaseInv
<1> USE DEF TypeOK, Kinds, ExecOnOwnChannel, clientVars, serverVars, handlerVars, threadVars
<1>1. ASSUME NEW c \in Channels, Open(c) PROVE ExecOnOwnChannel'
  BY <1>1 DEF Open
<1>2. ASSUME NEW c \in Channels, RequestShell(c) PROVE ExecOnOwnChannel'
  BY <1>2 DEF RequestShell, CanRequest
<1>3. ASSUME NEW c \in Channels, RequestExec(c) PROVE ExecOnOwnChannel'
  BY <1>3 DEF RequestExec, CanRequest
<1>4. CASE Disconnect
  BY <1>4 DEF Disconnect
<1>5. CASE HandlerStep
  <2>1. UNCHANGED <<servedAs, request, execForChan>>
    BY <1>5 DEF HandlerStep, Loop, AcceptChannel, AcceptNone, WaitReturns, WaitTimesOut,
                StartThread, Join, CloseTransport
  <2> QED BY <2>1
<1>6. ASSUME NEW c \in Channels, TakeExec(c) PROVE ExecOnOwnChannel'
  BY <1>6 DEF TakeExec
<1>7. ASSUME NEW c \in Channels, Finish(c) PROVE ExecOnOwnChannel'
  BY <1>7 DEF Finish
<1>8. CASE UNCHANGED vars
  BY <1>8 DEF vars
<1> QED
  BY <1>1, <1>2, <1>3, <1>4, <1>5, <1>6, <1>7, <1>8 DEF Next, ThreadStep

\* A command runs at most once, on the channel it was sent on, however many
\* channels a client multiplexes over the connection.
THEOREM CommandsStay == Spec => []ExecOnOwnChannel
<1>1. Init => BaseInv /\ ExecOnOwnChannel
  BY BaseInit DEF Init, ExecOnOwnChannel
<1> QED BY <1>1, BaseInductive, ExecInductive, PTL DEF Spec

-----------------------------------------------------------------------------
\* Every step hands a channel over: from the queue to the handler, from there
\* to a thread or to the closed ones.
LEMMA PlaceInductive ==
  BaseInv /\ ChannelInOnePlace /\ [Next]_vars => ChannelInOnePlace'
<1> SUFFICES ASSUME TypeOK, OnlyOpened, ChannelInOnePlace, [Next]_vars
             PROVE  ChannelInOnePlace'
  BY DEF BaseInv
<1> USE DEF TypeOK, OnlyOpened, ChannelInOnePlace, clientVars, serverVars, handlerVars, threadVars
<1>1. ASSUME NEW c \in Channels, Open(c) PROVE ChannelInOnePlace'
  <2>1. /\ Len(queue') = Len(queue) + 1
        /\ \A i \in 1..Len(queue) : queue'[i] = queue[i]
        /\ queue'[Len(queue) + 1] = c
    BY <1>1 DEF Open
  <2>2. /\ \A i \in DOMAIN queue : queue[i] # c
        /\ thread[c] = "none" /\ c # chan /\ c \notin closed
    BY <1>1, ChannelsAssumption DEF Open
  <2>3. \A i, j \in DOMAIN queue' : queue'[i] = queue'[j] => i = j
    BY <2>1, <2>2
  <2>4. \A i \in DOMAIN queue' : /\ thread[queue'[i]] = "none" /\ queue'[i] # chan
                                 /\ queue'[i] \notin closed
    BY <2>1, <2>2
  <2> QED BY <1>1, <2>3, <2>4 DEF Open
<1>2. ASSUME NEW c \in Channels, RequestShell(c) \/ RequestExec(c) PROVE ChannelInOnePlace'
  BY <1>2 DEF RequestShell, RequestExec
<1>3. CASE Disconnect \/ Loop \/ AcceptNone \/ WaitReturns \/ Join \/ CloseTransport
  <2>1. UNCHANGED <<queue, chan, thread, closed>>
    BY <1>3 DEF Disconnect, Loop, AcceptNone, WaitReturns, Join, CloseTransport
  <2> QED BY <2>1
<1>4. CASE AcceptChannel
  <2>1. /\ Head(queue) = queue[1] /\ 1 \in DOMAIN queue
        /\ \A i \in DOMAIN Tail(queue) : i + 1 \in DOMAIN queue /\ Tail(queue)[i] = queue[i + 1]
        /\ DOMAIN Tail(queue) \subseteq Nat \ {0}
    BY <1>4 DEF AcceptChannel
  <2>2. \A i, j \in DOMAIN queue' : queue'[i] = queue'[j] => i = j
    BY <1>4, <2>1 DEF AcceptChannel
  <2>3. \A i \in DOMAIN queue' : /\ thread[queue'[i]] = "none" /\ queue'[i] # chan'
                                 /\ queue'[i] \notin closed
    BY <1>4, <2>1 DEF AcceptChannel
  <2> QED BY <1>4, <2>1, <2>2, <2>3 DEF AcceptChannel
<1>5. CASE WaitTimesOut
  <2>1. chan \in Channels /\ thread[chan] = "none"
    BY <1>5 DEF WaitTimesOut
  <2>2. \A i \in DOMAIN queue : queue[i] # NoChan
    BY ChannelsAssumption
  <2> QED BY <1>5, <2>1, <2>2 DEF WaitTimesOut
<1>6. CASE StartThread
  <2>1. chan \in Channels /\ chan \notin closed
    BY <1>6 DEF StartThread
  <2>2. \A i \in DOMAIN queue : queue[i] # NoChan /\ queue[i] # chan
    BY ChannelsAssumption
  <2> QED BY <1>6, <2>1, <2>2 DEF StartThread
<1>7. ASSUME NEW c \in Channels, TakeExec(c) PROVE ChannelInOnePlace'
  BY <1>7 DEF TakeExec
<1>8. ASSUME NEW c \in Channels, Finish(c) PROVE ChannelInOnePlace'
  BY <1>8 DEF Finish
<1>9. CASE UNCHANGED vars
  BY <1>9 DEF vars
<1> QED
  BY <1>1, <1>2, <1>3, <1>4, <1>5, <1>6, <1>7, <1>8, <1>9 DEF Next, HandlerStep, ThreadStep

\* No channel is ever both queued and taken, taken twice, or served after it
\* was closed.
THEOREM OnePlace == Spec => []ChannelInOnePlace
<1>1. Init => BaseInv /\ ChannelInOnePlace
  BY BaseInit DEF Init, ChannelInOnePlace
<1> QED BY <1>1, BaseInductive, PlaceInductive, PTL DEF Spec

\* Both together, as the runs check them.
THEOREM SoundChannels == Spec => []ChannelsSound
<1>1. ExecOnOwnChannel /\ ChannelInOnePlace => ChannelsSound
  BY DEF ChannelsSound
<1> QED BY <1>1, CommandsStay, OnePlace, PTL

-----------------------------------------------------------------------------
(* The supervision of the services                                         *)

SupTypeInv ==
  /\ todo \in [AllServices -> SUBSET Nat]
  /\ listening \in [AllServices -> SUBSET Nat]
  /\ dead \subseteq AllServices
  /\ running \in BOOLEAN

\* A service whose thread lives has something to serve or to try: its one port,
\* or one at least of those it waits for.
Serving(s) ==
  /\ Kind(s) = "direct" => todo[s] \cup listening[s] = Ports(s)
  /\ Kind(s) \in {"joins", "beacon"} => todo[s] \cup listening[s] # {}

SupIInv ==
  /\ SupTypeInv
  /\ ~running => listening = Nowhere
  /\ running => \A s \in Services \ dead : Serving(s)

-----------------------------------------------------------------------------
LEMMA ServicesLemma ==
  /\ Services \subseteq AllServices
  /\ \A s \in AllServices : /\ Ports(s) \subseteq Nat /\ Ports(s) # {}
                            /\ Kind(s) \in {"direct", "joins", "beacon", "parks"}
                            /\ Kind(s) = "direct" => \A p, q \in Ports(s) : p = q
  BY DEF Services, AllServices, Ports, Kind

\* A thread that ends, or loses a port that is not its last.
LEMMA LosesLemma ==
  ASSUME SupIInv, running, running' = running, profile' = profile,
         NEW s \in AllServices, NEW p,
         \/ Ends(s)
         \/ Kind(s) # "direct" /\ Loses(s, p)
  PROVE  SupIInv'
  <1>. USE DEF SupIInv, SupTypeInv
  <1>1. CASE Ends(s)
    BY <1>1, ServicesLemma DEF Ends, Serving, Services
  <1>2. CASE ~Ends(s)
    <2>1. /\ todo' = [todo EXCEPT ![s] = @ \ {p}]
          /\ listening' = [listening EXCEPT ![s] = @ \ {p}]
          /\ dead' = dead
          /\ Kind(s) \in {"joins", "beacon"} => (todo[s] \cup listening[s]) \ {p} # {}
      BY <1>2 DEF Loses
    <2>2. Kind(s) # "direct" /\ SupTypeInv'
      BY <1>2, <2>1
    <2>3. ASSUME NEW t \in Services' \ dead' PROVE Serving(t)'
      <3>1. t \in Services \ dead /\ t \in AllServices
        BY <2>1, <2>3, ServicesLemma DEF Services
      <3>2. CASE t = s
        BY <2>1, <2>2, <3>1, <3>2 DEF Serving
      <3>3. CASE t # s
        BY <2>1, <3>1, <3>3 DEF Serving
      <3>. QED  BY <3>2, <3>3
    <2>. QED  BY <2>2, <2>3
  <1>. QED  BY <1>1, <1>2

LEMMA BindLemma ==
  ASSUME SupIInv, NEW s \in AllServices, NEW p \in todo[s], Bind(s, p)
  PROVE  SupIInv'
  <1>. USE DEF SupIInv, SupTypeInv
  <1>1. /\ running /\ UNCHANGED <<profile, running, dead>>
        /\ todo' = [todo EXCEPT ![s] = @ \ {p}]
        /\ listening' = [listening EXCEPT ![s] = @ \cup {p}]
    BY DEF Bind, MayTry
  <1>2. SupTypeInv'
    BY <1>1
  <1>3. ASSUME NEW t \in Services' \ dead' PROVE Serving(t)'
    <2>1. t \in Services \ dead /\ t \in AllServices
      BY <1>1, <1>3, ServicesLemma DEF Services
    <2>2. todo'[t] \cup listening'[t] = todo[t] \cup listening[t]
      BY <1>1, <2>1
    <2>. QED  BY <1>1, <2>1, <2>2 DEF Serving
  <1>. QED  BY <1>1, <1>2, <1>3

LEMMA StartLemma ==
  ASSUME SupIInv, Start \/ Exits
  PROVE  SupIInv'
  <1>. USE DEF SupIInv, SupTypeInv
  <1>1. CASE Start
    <2>1. /\ ~running /\ running' = TRUE /\ UNCHANGED <<profile, listening, dead>>
          /\ listening = Nowhere
          /\ todo' = [s \in AllServices |-> IF s \in Services THEN Ports(s) ELSE {}]
      BY <1>1 DEF Start
    <2>2. SupTypeInv'
      BY <2>1, ServicesLemma
    <2>3. ASSUME NEW t \in Services' \ dead' PROVE Serving(t)'
      <3>1. t \in AllServices /\ todo'[t] = Ports(t) /\ listening'[t] = {}
        BY <2>1, <2>3, ServicesLemma DEF Services, Nowhere
      <3>. QED  BY <3>1, ServicesLemma DEF Serving
    <2>. QED  BY <2>1, <2>2, <2>3
  <1>2. CASE Exits
    BY <1>2 DEF Exits, Nowhere
  <1>. QED  BY <1>1, <1>2

\* Once a process has settled, a port it should listen on is missing without
\* anybody noticing only where a sibling thread of the same service lives on,
\* or among the Windows ports (serve of each sensor, _watchdog).
THEOREM NoticedTheorem == SupSpec => []LossIsNoticed
  <1>1. SupInit => SupIInv
    BY DEF SupInit, SupIInv, SupTypeInv, Nowhere
  <1>2. SupIInv /\ [SupNext]_supVars => SupIInv'
    <2>. SUFFICES ASSUME SupIInv, [SupNext]_supVars PROVE SupIInv'
      OBVIOUS
    <2>1. CASE Start \/ Exits
      BY <2>1, StartLemma
    <2>2. ASSUME NEW s \in AllServices, NEW p \in todo[s], Bind(s, p) \/ BindFails(s, p) \/ GoesWithout(s, p)
          PROVE  SupIInv'
      <3>1. CASE Bind(s, p)
        BY <3>1, BindLemma
      <3>2. CASE BindFails(s, p)
        BY <3>2, LosesLemma DEF BindFails, MayTry
      <3>3. CASE GoesWithout(s, p)
        <4>1. Kind(s) # "direct"
          BY <3>3 DEF GoesWithout, Kind
        <4>. QED  BY <3>3, <4>1, LosesLemma DEF GoesWithout, MayTry
      <3>. QED  BY <2>2, <3>1, <3>2, <3>3
    <2>3. ASSUME NEW s \in AllServices, NEW p \in listening[s], ListenerFails(s, p)
          PROVE  SupIInv'
      BY <2>3, LosesLemma DEF ListenerFails
    <2>4. CASE UNCHANGED <<profile, dataDir, running, bound>>
      BY <2>4 DEF bound, SupIInv, SupTypeInv, Serving, Services
    <2>5. CASE (\E p \in UNION {Ports(s) : s \in Services} : PortTaken(p)) \/ PortGivenBack \/ UNCHANGED supVars
      BY <2>4, <2>5 DEF PortTaken, PortGivenBack, supVars
    <2>. QED  BY <2>1, <2>2, <2>3, <2>5 DEF SupNext, ServiceStep
  <1>3. SupIInv => LossIsNoticed
    <2>. SUFFICES ASSUME SupIInv, running, dead = {}, todo = Nowhere, NEW s \in Services, Missing(s) # {}
                  PROVE  Kind(s) = "parks" \/ (Kind(s) \in {"joins", "beacon"} /\ listening[s] # {})
      BY DEF LossIsNoticed
    <2>1. Serving(s) /\ s \in AllServices /\ todo[s] = {}
      BY ServicesLemma DEF SupIInv, Nowhere
    <2>2. CASE Kind(s) = "direct"
      <3>1. listening[s] = Ports(s) /\ s # "beacon"
        BY <2>1, <2>2 DEF Serving, Kind
      <3>. QED  BY <3>1 DEF Missing, Wanted
    <2>. QED  BY <2>1, <2>2, ServicesLemma DEF Serving
  <1>. QED  BY <1>1, <1>2, <1>3, PTL DEF SupSpec

-----------------------------------------------------------------------------
(* A Telnet session                                                        *)

Entry == [type : {"connection", "auth", "command", "end"}, ok : BOOLEAN, n : Nat]

\* The story so far, by the part of the session that is being told: three login
\* attempts at most, a shell with its commands, and the end.
InLogin == telAt \in {"login", "user", "password", "pass", "incorrect"}
InShell == telAt \in {"banner", "prompt", "line", "answer", "end"}
TelnetTypes ==
  /\ telAt \in {"login", "user", "password", "pass", "incorrect", "banner", "prompt", "line",
                "answer", "end", "closed"}
  /\ telLog \in Seq(Entry) /\ Len(telLog) >= 1 /\ telLog[1].type = "connection"
  /\ cmdCount \in Nat /\ attempt \in Nat

CommandsIn(log) == {j \in DOMAIN log : log[j].type = "command"}
Newest == telLog[Len(telLog)]

SoFar ==
  /\ InLogin =>
       /\ Len(telLog) = attempt /\ attempt <= (IF telAt = "incorrect" THEN 4 ELSE 3)
       /\ ~Newest.ok /\ CommandsIn(telLog) = {} /\ cmdCount = 0
  /\ InShell =>
       /\ Newest.ok /\ Newest.type \in {"auth", "command"}
       /\ cmdCount = Cardinality(CommandsIn(telLog))
       /\ cmdCount = IF Newest.type = "command" THEN Newest.n ELSE 0
  /\ telAt # "closed" => \A i \in DOMAIN telLog : telLog[i].type # "end"

\* What StoryTold says of one entry that is not an end.
EntryTold(log, i) ==
  /\ log[i].type = "connection" => i = 1
  /\ log[i].type = "auth" => log[i].n = i - 1 /\ log[i].n <= 3 /\ ~log[i - 1].ok
  /\ log[i].type = "command" =>
       /\ log[i - 1].ok /\ log[i - 1].type \in {"auth", "command"}
       /\ log[i].n = IF log[i - 1].type = "command" THEN log[i - 1].n + 1 ELSE 1
EndTold(log, i) ==
  log[i].type = "end" =>
    i = Len(log) /\ log[i - 1].ok /\ log[i].n = Cardinality(CommandsIn(log))
Told == \A i \in DOMAIN telLog : EntryTold(telLog, i) /\ EndTold(telLog, i)

TelnetInv == TelnetTypes /\ SoFar /\ Told

\* What an entry at the end adds to a log, and to its commands.
LEMMA AppendedLemma ==
  ASSUME NEW log \in Seq(Entry), NEW e \in Entry
  PROVE  /\ Append(log, e) \in Seq(Entry)
         /\ Len(log) \in Nat /\ Len(Append(log, e)) = Len(log) + 1
         /\ DOMAIN log = 1..Len(log)
         /\ DOMAIN Append(log, e) = 1..(Len(log) + 1)
         /\ \A i \in 1..Len(log) : Append(log, e)[i] = log[i]
         /\ Append(log, e)[Len(log) + 1] = e
         /\ Cardinality(CommandsIn(log)) \in Nat
         /\ e.type # "command" => CommandsIn(Append(log, e)) = CommandsIn(log)
         /\ e.type = "command" => Cardinality(CommandsIn(Append(log, e))) = Cardinality(CommandsIn(log)) + 1
  <1>1. /\ Append(log, e) \in Seq(Entry)
        /\ Len(log) \in Nat /\ Len(Append(log, e)) = Len(log) + 1
        /\ DOMAIN log = 1..Len(log)
        /\ DOMAIN Append(log, e) = 1..(Len(log) + 1)
        /\ \A i \in 1..Len(log) : Append(log, e)[i] = log[i]
        /\ Append(log, e)[Len(log) + 1] = e
    OBVIOUS
  <1>2. CommandsIn(log) \subseteq 1..Len(log)
    BY <1>1 DEF CommandsIn
  <1>3. IsFiniteSet(CommandsIn(log)) /\ Cardinality(CommandsIn(log)) \in Nat
    <2>1. IsFiniteSet(1..Len(log))
      <3>1. 1 \in Int /\ Len(log) \in Int
        BY <1>1
      <3>. QED  BY <3>1, FS_Interval, Zenon
    <2>. QED  BY <2>1, <1>2, FS_Subset, FS_CardinalityType
  <1>4. e.type # "command" => CommandsIn(Append(log, e)) = CommandsIn(log)
    BY <1>1 DEF CommandsIn
  <1>5. ASSUME e.type = "command"
        PROVE  Cardinality(CommandsIn(Append(log, e))) = Cardinality(CommandsIn(log)) + 1
    <2>1. CommandsIn(Append(log, e)) = CommandsIn(log) \cup {Len(log) + 1}
      BY <1>1, <1>5 DEF CommandsIn
    <2>2. Len(log) + 1 \notin CommandsIn(log)
      BY <1>1, <1>2
    <2>. QED  BY <1>3, <2>1, <2>2, FS_AddElement
  <1>. QED  BY <1>1, <1>3, <1>4, <1>5

\* A new entry that is told right leaves the older ones told, as long as none
\* of them is an end.
LEMMA ToldGrows ==
  ASSUME TelnetInv, NEW e \in Entry, telLog' = Append(telLog, e),
         \A i \in DOMAIN telLog : telLog[i].type # "end",
         EntryTold(telLog', Len(telLog) + 1), EndTold(telLog', Len(telLog) + 1)
  PROVE  /\ telLog' \in Seq(Entry) /\ Len(telLog') = Len(telLog) + 1 /\ telLog'[1].type = "connection"
         /\ Newest' = e /\ Told'
         /\ e.type # "end" => \A i \in DOMAIN telLog' : telLog'[i].type # "end"
  <1>1. telLog \in Seq(Entry) /\ Len(telLog) >= 1 /\ telLog[1].type = "connection" /\ Told
    BY DEF TelnetInv, TelnetTypes
  <1>2. /\ telLog' \in Seq(Entry)
        /\ Len(telLog) \in Nat /\ Len(telLog') = Len(telLog) + 1
        /\ DOMAIN telLog = 1..Len(telLog) /\ DOMAIN telLog' = 1..(Len(telLog) + 1)
        /\ \A i \in 1..Len(telLog) : telLog'[i] = telLog[i]
        /\ telLog'[Len(telLog) + 1] = e
    BY <1>1, AppendedLemma
  <1>3. ASSUME NEW i \in DOMAIN telLog' PROVE EntryTold(telLog', i) /\ EndTold(telLog', i)
    <2>1. CASE i = Len(telLog) + 1
      BY <2>1
    <2>2. CASE i = 1
      <3>1. telLog'[i] = telLog[1] /\ telLog[1].type = "connection"
        BY <1>1, <1>2, <2>2
      <3>. QED  BY <2>2, <3>1 DEF EntryTold, EndTold
    <2>3. CASE i # 1 /\ i # Len(telLog) + 1
      <3>1. i \in DOMAIN telLog /\ telLog'[i] = telLog[i] /\ telLog'[i - 1] = telLog[i - 1]
        BY <1>2, <2>3
      <3>2. EntryTold(telLog, i) /\ telLog[i].type # "end"
        BY <1>1, <3>1 DEF Told
      <3>. QED  BY <3>1, <3>2 DEF EntryTold, EndTold
    <2>. QED  BY <2>1, <2>2, <2>3
  <1>. QED  BY <1>1, <1>2, <1>3 DEF Newest, Told

\* A step that records nothing, within the login or within the shell, or out of
\* either.
LEMMA QuietLemma ==
  ASSUME TelnetInv, telLog' = telLog, cmdCount' = cmdCount, attempt' = attempt,
         \/ telAt' = telAt
         \/ telAt' = "closed"
         \/ InLogin /\ telAt' \in {"login", "user", "password", "pass"} /\ attempt <= 3
         \/ InShell /\ telAt' \in {"banner", "prompt", "line", "answer", "end"}
  PROVE  TelnetInv'
  <1>1. TelnetTypes'
    BY DEF TelnetInv, TelnetTypes, InLogin
  <1>2. SoFar'
    BY DEF TelnetInv, TelnetTypes, SoFar, InLogin, InShell, Newest
  <1>3. Told'
    BY DEF TelnetInv, Told
  <1>. QED  BY <1>1, <1>2, <1>3 DEF TelnetInv

LEMMA LoginLemma ==
  ASSUME TelnetInv, NEW line \in TelnetLines, AuthFails(line) \/ AuthSucceeds(line)
  PROVE  TelnetInv'
  <1>1. /\ telAt = "pass" /\ Len(telLog) = attempt /\ attempt \in Nat /\ attempt <= 3
        /\ ~Newest.ok /\ CommandsIn(telLog) = {} /\ cmdCount = 0
        /\ \A i \in DOMAIN telLog : telLog[i].type # "end"
        /\ telLog \in Seq(Entry) /\ attempt >= 1
    BY DEF TelnetInv, TelnetTypes, SoFar, InLogin, AuthFails, AuthSucceeds
  <1>2. PICK ok \in BOOLEAN : /\ telLog' = Append(telLog, [type |-> "auth", ok |-> ok, n |-> attempt])
                              /\ cmdCount' = cmdCount
                              /\ \/ ok /\ telAt' = "banner" /\ attempt' = attempt
                                 \/ ~ok /\ telAt' = "incorrect" /\ attempt' = attempt + 1
    BY DEF AuthFails, AuthSucceeds, Emit
  <1>3. [type |-> "auth", ok |-> ok, n |-> attempt] \in Entry
    BY <1>1 DEF Entry
  <1>4. PICK r \in Entry : /\ r.type = "auth" /\ r.ok = ok /\ r.n = attempt /\ telLog' = Append(telLog, r)
    BY <1>2, <1>3
  <1>5. /\ Len(telLog) \in Nat /\ telLog'[Len(telLog) + 1] = r
        /\ telLog'[Len(telLog)] = Newest
        /\ CommandsIn(telLog') = CommandsIn(telLog)
    BY <1>1, <1>4, AppendedLemma DEF Newest
  <1>6. EntryTold(telLog', Len(telLog) + 1) /\ EndTold(telLog', Len(telLog) + 1)
    BY <1>1, <1>4, <1>5 DEF EntryTold, EndTold
  <1>7. /\ telLog' \in Seq(Entry) /\ Len(telLog') = Len(telLog) + 1 /\ telLog'[1].type = "connection"
        /\ Newest' = r /\ Told'
        /\ \A i \in DOMAIN telLog' : telLog'[i].type # "end"
    BY <1>1, <1>4, <1>6, ToldGrows
  <1>8. TelnetTypes'
    BY <1>1, <1>2, <1>7 DEF TelnetTypes
  <1>9. CASE ok
    <2>1. telAt' = "banner" /\ r.ok /\ cmdCount' = 0
      BY <1>1, <1>2, <1>4, <1>9
    <2>2. Cardinality(CommandsIn(telLog')) = 0
      BY <1>1, <1>5, FS_EmptySet
    <2>3. SoFar'
      BY <1>4, <1>7, <2>1, <2>2 DEF SoFar, InLogin, InShell
    <2>. QED  BY <1>7, <1>8, <2>3 DEF TelnetInv
  <1>10. CASE ~ok
    <2>1. telAt' = "incorrect" /\ ~r.ok /\ cmdCount' = 0 /\ attempt' = attempt + 1
      BY <1>1, <1>2, <1>4, <1>10
    <2>2. SoFar'
      BY <1>1, <1>4, <1>5, <1>7, <2>1 DEF SoFar, InLogin, InShell
    <2>. QED  BY <1>7, <1>8, <2>2 DEF TelnetInv
  <1>. QED  BY <1>9, <1>10

LEMMA CommandLemma ==
  ASSUME TelnetInv, NEW line \in TelnetLines, ReadCommand(line)
  PROVE  TelnetInv'
  <1>1. /\ Newest.ok /\ Newest.type \in {"auth", "command"}
        /\ cmdCount = Cardinality(CommandsIn(telLog)) /\ cmdCount \in Nat
        /\ cmdCount = IF Newest.type = "command" THEN Newest.n ELSE 0
        /\ \A i \in DOMAIN telLog : telLog[i].type # "end"
        /\ telLog \in Seq(Entry) /\ attempt \in Nat
    BY DEF TelnetInv, TelnetTypes, SoFar, InShell, ReadCommand
  <1>2. /\ telAt' \in {"end", "answer"} /\ attempt' = attempt /\ cmdCount' = cmdCount + 1
        /\ telLog' = Append(telLog, [type |-> "command", ok |-> TRUE, n |-> cmdCount + 1])
    BY DEF ReadCommand, Emit
  <1>3. PICK r \in Entry : r.type = "command" /\ r.ok = TRUE /\ r.n = cmdCount + 1 /\ telLog' = Append(telLog, r)
    <2>1. [type |-> "command", ok |-> TRUE, n |-> cmdCount + 1] \in Entry
      BY <1>1 DEF Entry
    <2>. QED  BY <1>2, <2>1
  <1>4. /\ Len(telLog) \in Nat /\ telLog'[Len(telLog) + 1] = r
        /\ Len(telLog) >= 1 /\ telLog'[Len(telLog)] = Newest
        /\ Cardinality(CommandsIn(telLog')) = cmdCount + 1
    <2>1. Len(telLog) >= 1 /\ Len(telLog) \in Nat
      BY DEF TelnetInv, TelnetTypes
    <2>2. /\ telLog'[Len(telLog) + 1] = r
          /\ \A i \in 1..Len(telLog) : telLog'[i] = telLog[i]
          /\ Cardinality(CommandsIn(telLog')) = Cardinality(CommandsIn(telLog)) + 1
      BY <1>1, <1>3, AppendedLemma
    <2>3. telLog'[Len(telLog)] = telLog[Len(telLog)]
      BY <2>1, <2>2
    <2>4. Cardinality(CommandsIn(telLog')) = cmdCount + 1
      BY <1>1, <2>2
    <2>. QED  BY <2>1, <2>2, <2>3, <2>4 DEF Newest
  <1>5. r.n = IF Newest.type = "command" THEN Newest.n + 1 ELSE 1
    BY <1>1, <1>3
  <1>6. EntryTold(telLog', Len(telLog) + 1) /\ EndTold(telLog', Len(telLog) + 1)
    BY <1>1, <1>3, <1>4, <1>5 DEF EntryTold, EndTold
  <1>7. /\ telLog' \in Seq(Entry) /\ Len(telLog') = Len(telLog) + 1 /\ telLog'[1].type = "connection"
        /\ Newest' = r /\ Told'
        /\ \A i \in DOMAIN telLog' : telLog'[i].type # "end"
    BY <1>1, <1>3, <1>6, ToldGrows
  <1>8. TelnetTypes'
    BY <1>1, <1>2, <1>4, <1>7 DEF TelnetTypes
  <1>9. SoFar'
    BY <1>2, <1>3, <1>4, <1>7 DEF SoFar, InLogin, InShell
  <1>. QED  BY <1>7, <1>8, <1>9 DEF TelnetInv

LEMMA EndLemma ==
  ASSUME TelnetInv, SessionEnd
  PROVE  TelnetInv'
  <1>1. /\ Newest.ok /\ cmdCount = Cardinality(CommandsIn(telLog)) /\ cmdCount \in Nat
        /\ \A i \in DOMAIN telLog : telLog[i].type # "end"
        /\ telLog \in Seq(Entry) /\ attempt \in Nat
    BY DEF TelnetInv, TelnetTypes, SoFar, InShell, SessionEnd
  <1>2. /\ telAt' = "closed" /\ attempt' = attempt /\ cmdCount' = cmdCount
        /\ telLog' = Append(telLog, [type |-> "end", ok |-> TRUE, n |-> cmdCount])
    BY DEF SessionEnd, Emit
  <1>3. PICK r \in Entry : r.type = "end" /\ r.n = cmdCount /\ telLog' = Append(telLog, r)
    BY <1>1, <1>2 DEF Entry
  <1>4. /\ Len(telLog) \in Nat /\ telLog'[Len(telLog) + 1] = r
        /\ Len(telLog) >= 1 /\ telLog'[Len(telLog)] = Newest /\ Len(telLog') = Len(telLog) + 1
        /\ CommandsIn(telLog') = CommandsIn(telLog)
    BY <1>1, <1>3, AppendedLemma DEF Newest, TelnetInv, TelnetTypes
  <1>5. EntryTold(telLog', Len(telLog) + 1) /\ EndTold(telLog', Len(telLog) + 1)
    BY <1>1, <1>3, <1>4 DEF EntryTold, EndTold
  <1>6. /\ telLog' \in Seq(Entry) /\ Len(telLog') = Len(telLog) + 1 /\ telLog'[1].type = "connection"
        /\ Told'
    BY <1>1, <1>3, <1>5, ToldGrows
  <1>7. TelnetTypes'
    BY <1>1, <1>2, <1>4, <1>6 DEF TelnetTypes
  <1>8. SoFar'
    BY <1>2 DEF SoFar, InLogin, InShell
  <1>. QED  BY <1>6, <1>7, <1>8 DEF TelnetInv

LEMMA TelnetInductive == TelnetInv /\ [TelnetNext]_telnetVars => TelnetInv'
  <1>. SUFFICES ASSUME TelnetInv, [TelnetNext]_telnetVars PROVE TelnetInv'
    OBVIOUS
  <1>1. CASE HalfClose \/ Close \/ ResetArrives \/ Trickles \/ UNCHANGED telnetVars
    BY <1>1, QuietLemma DEF HalfClose, Close, ResetArrives, Trickles, telnetVars
  <1>2. CASE LoginPrompt \/ PasswordPrompt \/ Incorrect
    <2>1. attempt <= (IF telAt = "incorrect" THEN 4 ELSE 3) /\ InLogin /\ attempt \in Nat
      BY <1>2 DEF LoginPrompt, PasswordPrompt, Incorrect, Sends, TelnetInv, TelnetTypes, SoFar, InLogin
    <2>. QED  BY <1>2, <2>1, QuietLemma DEF LoginPrompt, PasswordPrompt, Incorrect, Sends
  <1>3. ASSUME NEW line \in TelnetLines, ReadUser(line) PROVE TelnetInv'
    <2>1. attempt <= 3 /\ InLogin /\ telAt' = "password" /\ UNCHANGED <<attempt, cmdCount, telLog>>
      BY <1>3 DEF ReadUser, TelnetInv, TelnetTypes, SoFar, InLogin
    <2>. QED  BY <2>1, QuietLemma
  <1>4. CASE GiveUp
    BY <1>4, QuietLemma DEF GiveUp
  <1>5. CASE Banner \/ Prompt \/ Answer \/ ReadEmpty \/ Breaks
    BY <1>5, QuietLemma DEF Banner, Prompt, Answer, ReadEmpty, Breaks, Sends, InShell
  <1>. QED
    BY <1>1, <1>2, <1>3, <1>4, <1>5, LoginLemma, CommandLemma, EndLemma DEF TelnetNext, Handler

\* The story a connection tells is in order however the client types, stays
\* silent or goes away (_handle_login, _handle_shell).
THEOREM StoryCorrect == TelnetSpec => []StoryTold
  <1>1. TelnetInit => TelnetInv
    <2>. SUFFICES ASSUME TelnetInit PROVE TelnetInv
      OBVIOUS
    <2>. DEFINE r == [type |-> "connection", ok |-> FALSE, n |-> 0]
    <2>1. r \in Entry /\ r.type = "connection" /\ r.ok = FALSE /\ telLog = <<r>>
      BY DEF TelnetInit, Entry
    <2>. HIDE DEF r
    <2>2. telAt = "login" /\ attempt = 1 /\ cmdCount = 0
      BY DEF TelnetInit
    <2>3. Len(telLog) = 1 /\ DOMAIN telLog = {1} /\ telLog[1] = r /\ telLog \in Seq(Entry)
      BY <2>1
    <2>4. TelnetTypes
      BY <2>1, <2>3, <2>2 DEF TelnetTypes
    <2>5. CommandsIn(telLog) = {}
      BY <2>1, <2>3 DEF CommandsIn
    <2>6. SoFar
      BY <2>1, <2>3, <2>5, <2>2 DEF SoFar, InLogin, InShell, Newest
    <2>7. Told
      BY <2>1, <2>3 DEF Told, EntryTold, EndTold
    <2>. QED  BY <2>4, <2>6, <2>7 DEF TelnetInv
  <1>2. TelnetInv => StoryTold
    <2>. SUFFICES ASSUME TelnetInv, NEW i \in DOMAIN telLog
                  PROVE  LET e == telLog[i]
                             before == telLog[i - 1]
                         IN  CASE e.type = "connection" -> i = 1
                               [] e.type = "auth" -> e.n = i - 1 /\ e.n <= 3 /\ ~before.ok
                               [] e.type = "command" ->
                                    /\ before.ok /\ before.type \in {"auth", "command"}
                                    /\ e.n = IF before.type = "command" THEN before.n + 1 ELSE 1
                               [] e.type = "end" ->
                                    /\ i = Len(telLog) /\ before.ok
                                    /\ e.n = Cardinality({j \in DOMAIN telLog : telLog[j].type = "command"})
      BY DEF StoryTold
    <2>1. telLog[i].type \in {"connection", "auth", "command", "end"}
      <3>1. telLog[i] \in Entry
        BY DEF TelnetInv, TelnetTypes
      <3>. QED  BY <3>1 DEF Entry
    <2>2. EntryTold(telLog, i) /\ EndTold(telLog, i)
      BY DEF TelnetInv, Told
    <2>. QED  BY <2>1, <2>2 DEF EntryTold, EndTold, CommandsIn
  <1>. QED  BY <1>1, <1>2, TelnetInductive, PTL DEF TelnetSpec

-----------------------------------------------------------------------------
(* The database readers                                                    *)

Places == {"idle", "ensure", "city", "open", "tor", "tor_lock", "tor_read", "ptr", "resolve"}
Lookers == [at : Places, ip : Addresses \union {"none"}, mtime : Nat]

GeoTypes ==
  /\ disk \in [Files -> Nat]
  /\ reader \in [file : Nat, mtime : Nat, open : BOOLEAN]
  /\ cache \in Seq(Addresses \union {"none"})
  /\ looker \in [Threads -> Lookers]
  /\ {geoLock, torLock} \subseteq Threads \union {Free}

\* The time recorded for a reader is never newer than the file it was opened
\* on, nor is the time a thread is about to record; and a reader that has been
\* closed is older than the file that is there.
ReaderInv ==
  /\ reader.mtime <= reader.file /\ reader.file <= disk["city"]
  /\ InUse /\ ~reader.open => reader.mtime < disk["city"]
  /\ \A t \in Threads : At(t, "open") => looker[t].mtime <= disk["city"]

GeoInv == GeoTypes /\ ReaderInv /\ LocksHeld /\ CacheSound

LEMMA GeoFacts ==
  ASSUME GeoTypes
  PROVE  /\ disk["city"] \in Nat /\ disk["tor"] \in Nat
         /\ reader.mtime \in Nat /\ reader.file \in Nat /\ reader.open \in BOOLEAN
         /\ \A t \in Threads : /\ looker[t] \in Lookers
                               /\ looker[t].at \in Places /\ looker[t].mtime \in Nat
                               /\ looker[t].ip \in Addresses \union {"none"}
  BY DEF GeoTypes, Files, Lookers

\* A thread that goes on to another place keeps its address and its time.
LEMMA MovesOn ==
  ASSUME GeoTypes, NEW t \in Threads, NEW where \in Places, Moves(t, where)
  PROVE  /\ looker' \in [Threads -> Lookers] /\ looker'[t].at = where
         /\ \A u \in Threads : u # t => looker'[u] = looker[u]
         /\ \A u \in Threads : looker'[u].mtime = looker[u].mtime
  <1>1. looker' = [looker EXCEPT ![t].at = where] /\ looker \in [Threads -> Lookers]
    BY DEF GeoTypes, Moves
  <1>2. looker'[t] = [looker[t] EXCEPT !.at = where] /\ looker[t] \in Lookers
    BY <1>1
  <1>3. looker'[t] \in Lookers /\ looker'[t].at = where /\ looker'[t].mtime = looker[t].mtime
    BY <1>2 DEF Lookers
  <1>4. \A u \in Threads : u # t => looker'[u] = looker[u]
    BY <1>1
  <1>5. DOMAIN looker' = Threads /\ looker' = [u \in Threads |-> looker'[u]]
    BY <1>1
  <1>6. \A u \in Threads : looker'[u] \in Lookers
    BY <1>1, <1>3, <1>4
  <1>. QED  BY <1>3, <1>4, <1>5, <1>6

LEMMA LockOf ==
  ASSUME LocksHeld, NEW u \in Threads
  PROVE  /\ geoLock = u <=> (looker[u].at = "city" \/ looker[u].at = "open")
         /\ torLock = u <=> looker[u].at = "tor_read"
  <1>1. /\ geoLock = u <=> looker[u].at \in {"city", "open"}
        /\ torLock = u <=> looker[u].at = "tor_read"
    BY Zenon DEF LocksHeld
  <1>2. looker[u].at \in {"city", "open"} <=> (looker[u].at = "city" \/ looker[u].at = "open")
    OBVIOUS
  <1>. QED  BY <1>1, <1>2, Zenon

\* What a step of one thread does to the locks, if it takes or gives one only
\* together with its place.
LEMMA LocksKept ==
  ASSUME LocksHeld, NEW t \in Threads, GeoTypes,
         \A u \in Threads : u # t => looker'[u] = looker[u],
         \/ geoLock' = geoLock /\ ((looker'[t].at = "city" \/ looker'[t].at = "open") <=> (looker[t].at = "city" \/ looker[t].at = "open"))
         \/ geoLock = Free /\ geoLock' = t /\ (looker'[t].at = "city" \/ looker'[t].at = "open")
         \/ geoLock = t /\ geoLock' = Free /\ ~(looker'[t].at = "city" \/ looker'[t].at = "open"),
         \/ torLock' = torLock /\ (looker'[t].at = "tor_read" <=> looker[t].at = "tor_read")
         \/ torLock = Free /\ torLock' = t /\ looker'[t].at = "tor_read"
         \/ torLock = t /\ torLock' = Free /\ looker'[t].at # "tor_read"
  PROVE  LocksHeld'
  <1> SUFFICES ASSUME NEW u \in Threads
               PROVE  /\ geoLock' = u <=> (looker'[u].at = "city" \/ looker'[u].at = "open")
                      /\ torLock' = u <=> looker'[u].at = "tor_read"
    BY DEF LocksHeld
  <1>1. u # Free /\ t # Free
    BY CacheAssumption DEF Free
  <1>2. /\ geoLock = u <=> (looker[u].at = "city" \/ looker[u].at = "open")
        /\ torLock = u <=> looker[u].at = "tor_read"
        /\ geoLock = t <=> (looker[t].at = "city" \/ looker[t].at = "open")
        /\ torLock = t <=> looker[t].at = "tor_read"
    BY LockOf
  <1>3. CASE u = t
    BY <1>1, <1>2, <1>3
  <1>4. CASE u # t
    BY <1>1, <1>2, <1>4
  <1>. QED  BY <1>3, <1>4

\* One thread moves, and neither the files nor the reader change.
LEMMA ThreadMoves ==
  ASSUME GeoInv, NEW t \in Threads, NEW where \in Places \ {"open"}, Moves(t, where),
         UNCHANGED <<disk, reader>>
  PROVE  ReaderInv' /\ looker' \in [Threads -> Lookers] /\ looker'[t].at = where
         /\ \A u \in Threads : u # t => looker'[u] = looker[u]
  <1>1. GeoTypes /\ ReaderInv
    BY DEF GeoInv
  <1>2. /\ looker' \in [Threads -> Lookers] /\ looker'[t].at = where
        /\ \A u \in Threads : u # t => looker'[u] = looker[u]
    BY <1>1, MovesOn
  <1>3. \A u \in Threads : At(u, "open")' => At(u, "open") /\ looker'[u] = looker[u]
    BY <1>2 DEF At
  <1>. QED  BY <1>1, <1>2, <1>3 DEF ReaderInv, InUse

LEMMA EnsureKeeps ==
  ASSUME GeoInv, NEW t \in Threads, Ensure(t)
  PROVE  GeoInv'
  <1>1. GeoTypes /\ LocksHeld /\ CacheSound
    BY DEF GeoInv
  <1>2. /\ looker[t].at = "ensure" /\ geoLock = Free /\ UNCHANGED <<disk, reader, cache, torLock>>
        /\ \/ Moves(t, "tor") /\ geoLock' = geoLock
           \/ Moves(t, "city") /\ geoLock' = t
    BY DEF Ensure, At, world
  <1>3. PICK where \in {"tor", "city"} :
          Moves(t, where) /\ geoLock' = IF where = "city" THEN t ELSE geoLock
    BY <1>2
  <1>4. ReaderInv' /\ looker' \in [Threads -> Lookers] /\ looker'[t].at = where
        /\ \A u \in Threads : u # t => looker'[u] = looker[u]
    BY <1>2, <1>3, ThreadMoves DEF Places
  <1>5. LocksHeld'
    BY <1>1, <1>2, <1>3, <1>4, LocksKept
  <1>6. GeoTypes'
    BY <1>1, <1>2, <1>3, <1>4 DEF GeoTypes
  <1>. QED  BY <1>1, <1>2, <1>4, <1>5, <1>6 DEF GeoInv, CacheSound

LEMMA StatKeeps ==
  ASSUME GeoInv, NEW t \in Threads, Stat(t)
  PROVE  GeoInv'
  <1>1. GeoTypes /\ LocksHeld /\ CacheSound /\ ReaderInv
    BY DEF GeoInv
  <1>2. looker[t].at = "city" /\ geoLock = t /\ UNCHANGED <<disk, cache, torLock>>
    BY <1>1, LockOf DEF Stat, At, world
  <1>3. CASE UpToDate
    <2>1. Moves(t, "tor") /\ geoLock' = Free /\ UNCHANGED reader
      BY <1>3 DEF Stat
    <2>2. ReaderInv' /\ looker' \in [Threads -> Lookers] /\ looker'[t].at = "tor"
          /\ \A u \in Threads : u # t => looker'[u] = looker[u]
      BY <1>2, <2>1, ThreadMoves DEF Places
    <2>3. LocksHeld'
      BY <1>1, <1>2, <2>1, <2>2, LocksKept
    <2>4. GeoTypes'
      BY <1>1, <1>2, <2>1, <2>2 DEF GeoTypes
    <2>. QED  BY <1>1, <1>2, <2>2, <2>3, <2>4 DEF GeoInv, CacheSound
  <1>4. CASE ~UpToDate
    <2>1. /\ looker' = [looker EXCEPT ![t].at = "open", ![t].mtime = disk["city"]]
          /\ reader' = [reader EXCEPT !.open = FALSE] /\ geoLock' = geoLock
      BY <1>4 DEF Stat
    <2>2. /\ looker' \in [Threads -> Lookers]
          /\ looker'[t].at = "open" /\ looker'[t].mtime = disk["city"]
          /\ \A u \in Threads : u # t => looker'[u] = looker[u]
      BY <1>1, <2>1, GeoFacts DEF GeoTypes, Lookers, Places
    <2>3. /\ reader' \in [file : Nat, mtime : Nat, open : BOOLEAN]
          /\ reader'.file = reader.file /\ reader'.mtime = reader.mtime
          /\ reader = NoReader => reader' = NoReader
      <3>1. reader \in [file : Nat, mtime : Nat, open : BOOLEAN]
        BY <1>1 DEF GeoTypes
      <3>2. reader' \in [file : Nat, mtime : Nat, open : BOOLEAN]
            /\ reader'.file = reader.file /\ reader'.mtime = reader.mtime
        BY <2>1, <3>1
      <3>3. reader = NoReader => reader' = NoReader
        <4> SUFFICES ASSUME reader = NoReader PROVE reader' = NoReader
          OBVIOUS
        <4>1. reader'.file = 0 /\ reader'.mtime = 0 /\ reader'.open = FALSE
          BY <2>1, <3>1 DEF NoReader
        <4>2. reader' = [file |-> reader'.file, mtime |-> reader'.mtime, open |-> reader'.open]
          BY <3>2
        <4>. QED  BY <4>1, <4>2 DEF NoReader
      <3>. QED  BY <3>2, <3>3
    <2>4. InUse => reader.mtime < disk["city"]
      BY <1>1, <1>4, GeoFacts DEF UpToDate
    <2>5. ReaderInv'
      <3>1. InUse' => InUse
        BY <2>3 DEF InUse
      <3>2. \A u \in Threads : At(u, "open")' => looker'[u].mtime <= disk'["city"]
        BY <1>1, <1>2, <2>2, GeoFacts DEF ReaderInv, At
      <3>. QED  BY <1>1, <1>2, <2>3, <2>4, <3>1, <3>2 DEF ReaderInv
    <2>6. LocksHeld'
      BY <1>1, <1>2, <2>1, <2>2, LocksKept
    <2>7. GeoTypes'
      BY <1>1, <1>2, <2>1, <2>2, <2>3 DEF GeoTypes
    <2>. QED  BY <1>1, <1>2, <2>5, <2>6, <2>7 DEF GeoInv, CacheSound
  <1>. QED  BY <1>3, <1>4

LEMMA OpenReaderKeeps ==
  ASSUME GeoInv, NEW t \in Threads, OpenReader(t)
  PROVE  GeoInv'
  <1>1. GeoTypes /\ LocksHeld /\ CacheSound /\ ReaderInv
    BY DEF GeoInv
  <1>2. /\ looker[t].at = "open" /\ geoLock = t /\ geoLock' = Free /\ UNCHANGED <<disk, cache, torLock>>
        /\ reader' = Opened(looker[t].mtime)
        /\ looker' = [looker EXCEPT ![t].at = "tor", ![t].mtime = 0]
    BY <1>1, LockOf DEF OpenReader, At, world
  <1>3. /\ looker' \in [Threads -> Lookers]
        /\ looker'[t].at = "tor"
        /\ \A u \in Threads : u # t => looker'[u] = looker[u]
    BY <1>1, <1>2, GeoFacts DEF GeoTypes, Lookers, Places
  <1>4. looker[t].mtime \in Nat /\ looker[t].mtime <= disk["city"]
    BY <1>1, <1>2, GeoFacts DEF ReaderInv, At
  <1>5. /\ reader' \in [file : Nat, mtime : Nat, open : BOOLEAN]
        /\ reader'.mtime <= reader'.file /\ reader'.file <= disk["city"]
        /\ InUse' /\ ~reader'.open => reader'.mtime < disk["city"]
    <2>1. CASE "city" \in damaged
      <3>1. reader' = reader
        BY <1>2, <2>1 DEF Opened
      <3>. QED  BY <1>1, <3>1 DEF GeoTypes, ReaderInv, InUse
    <2>2. CASE "city" \notin damaged
      <3>1. reader' = [file |-> disk["city"], mtime |-> looker[t].mtime, open |-> TRUE]
        BY <1>2, <2>2 DEF Opened
      <3>. QED  BY <1>1, <1>4, <3>1, GeoFacts
    <2>. QED  BY <2>1, <2>2
  <1>6. \A u \in Threads : At(u, "open")' => looker'[u].mtime <= disk'["city"]
    BY <1>1, <1>2, <1>3 DEF ReaderInv, At
  <1>7. ReaderInv'
    BY <1>2, <1>5, <1>6 DEF ReaderInv
  <1>8. LocksHeld'
    BY <1>1, <1>2, <1>3, LocksKept
  <1>9. GeoTypes'
    BY <1>1, <1>2, <1>3, <1>5 DEF GeoTypes
  <1>. QED  BY <1>1, <1>2, <1>7, <1>8, <1>9 DEF GeoInv, CacheSound

\* The list of exits: a check without the lock, and one with it.
LEMMA TorKeeps ==
  ASSUME GeoInv, NEW t \in Threads, TorCheck(t) \/ TorLock(t) \/ TorRead(t)
  PROVE  GeoInv'
  <1>1. GeoTypes /\ LocksHeld /\ CacheSound
    BY DEF GeoInv
  <1>2. looker[t].at \in {"tor", "tor_lock", "tor_read"} /\ UNCHANGED <<disk, reader, cache, geoLock>>
    BY DEF TorCheck, TorLock, TorRead, At, world
  <1>3. PICK where \in {"tor_lock", "ptr", "tor_read"} :
          /\ Moves(t, where)
          /\ \/ looker[t].at # "tor_read" /\ where # "tor_read" /\ torLock' = torLock
             \/ looker[t].at # "tor_read" /\ where = "tor_read" /\ torLock = Free /\ torLock' = t
             \/ looker[t].at = "tor_read" /\ where # "tor_read" /\ torLock' = Free
    <2>1. CASE TorCheck(t)
      BY <2>1 DEF TorCheck, At
    <2>2. CASE TorLock(t)
      BY <2>2 DEF TorLock, At
    <2>3. CASE TorRead(t)
      BY <2>3 DEF TorRead, At
    <2>. QED  BY <2>1, <2>2, <2>3
  <1>4. ReaderInv' /\ looker' \in [Threads -> Lookers] /\ looker'[t].at = where
        /\ \A u \in Threads : u # t => looker'[u] = looker[u]
    BY <1>2, <1>3, ThreadMoves DEF Places
  <1>5. looker[t].at = "tor_read" => torLock = t
    BY <1>1, LockOf
  <1>6. LocksHeld'
    BY <1>1, <1>2, <1>3, <1>4, <1>5, LocksKept
  <1>7. GeoTypes'
    BY <1>1, <1>2, <1>3, <1>4 DEF GeoTypes
  <1>. QED  BY <1>1, <1>2, <1>4, <1>6, <1>7 DEF GeoInv, CacheSound

\* What is stored is new, and there is room for it.
LEMMA StoreSound ==
  ASSUME GeoTypes, CacheSound, NEW ip \in Addresses \union {"none"}
  PROVE  LET c == Store(Evicted, ip)
         IN  /\ c \in Seq(Addresses \union {"none"}) /\ Len(c) <= CacheMax
             /\ \A i, j \in DOMAIN c : c[i] = c[j] => i = j
  <1> DEFINE A == Addresses \union {"none"}
             e == Evicted
             c == Store(e, ip)
  <1>1. cache \in Seq(A) /\ Len(cache) \in Nat /\ DOMAIN cache = 1..Len(cache) /\ Len(cache) <= CacheMax
        /\ \A i, j \in 1..Len(cache) : cache[i] = cache[j] => i = j
    BY DEF GeoTypes, CacheSound
  <1>2. CacheMax \in Nat /\ EvictCount \in Nat /\ EvictCount >= 1 /\ EvictCount <= CacheMax
    BY CacheAssumption
  <1>3. /\ e \in Seq(A) /\ Len(e) \in Nat /\ Len(e) + 1 <= CacheMax
        /\ \A i, j \in 1..Len(e) : e[i] = e[j] => i = j
    <2>1. CASE Len(cache) >= CacheMax
      <3>1. e = SubSeq(cache, EvictCount + 1, Len(cache))
        BY <2>1 DEF Evicted
      <3>2. Len(cache) - EvictCount \in Nat
        BY <1>1, <1>2, <2>1
      <3>3. /\ e \in Seq(A) /\ Len(e) = Len(cache) - EvictCount
            /\ \A i \in 1..Len(e) : e[i] = cache[EvictCount + i]
        <4> DEFINE m == EvictCount + 1
        <4>1. m \in 1..(Len(cache) + 1) /\ Len(cache) - m + 1 = Len(cache) - EvictCount
          BY <1>1, <1>2, <2>1, <3>2
        <4>2. \A i \in 1..(Len(cache) - EvictCount) : m + i - 1 = EvictCount + i
          BY <1>1, <1>2
        <4> HIDE DEF m, e
        <4>3. e = SubSeq(cache, m, Len(cache))
          BY <3>1 DEF m
        <4>4. e \in Seq(A)
          BY <1>1, <4>1, <4>3
        <4>5. Len(e) = Len(cache) - m + 1 /\ \A i \in 1..Len(e) : e[i] = cache[m + i - 1]
          BY <1>1, <4>1, <4>3
        <4>. QED  BY <4>1, <4>2, <4>4, <4>5
      <3> HIDE DEF e
      <3>4. \A i \in 1..Len(e) : EvictCount + i \in 1..Len(cache)
        BY <1>1, <1>2, <3>2, <3>3
      <3>5. \A i, j \in 1..Len(e) : e[i] = e[j] => EvictCount + i = EvictCount + j
        BY <1>1, <3>3, <3>4
      <3>6. \A i, j \in 1..Len(e) : EvictCount + i = EvictCount + j => i = j
        BY <1>2, <3>3
      <3>7. Len(e) \in Nat /\ Len(e) + 1 <= CacheMax
        BY <1>1, <1>2, <3>2, <3>3
      <3>. QED  BY <3>3, <3>5, <3>6, <3>7
    <2>2. CASE ~(Len(cache) >= CacheMax)
      <3>1. e = cache
        BY <2>2 DEF Evicted
      <3>. QED  BY <1>1, <1>2, <2>2, <3>1
    <2>. QED  BY <2>1, <2>2
  <1> HIDE DEF e
  <1>4. CASE \E i \in DOMAIN e : e[i] = ip
    <2>1. c = e /\ DOMAIN e = 1..Len(e)
      BY <1>3, <1>4 DEF Store
    <2>2. Len(c) <= CacheMax
      BY <1>2, <1>3, <2>1
    <2>. QED  BY <1>3, <2>1, <2>2 DEF e
  <1>5. CASE \A i \in DOMAIN e : e[i] # ip
    <2>1. c = Append(e, ip) /\ DOMAIN e = 1..Len(e)
      BY <1>3, <1>5 DEF Store
    <2>2. /\ c \in Seq(A) /\ Len(c) = Len(e) + 1 /\ DOMAIN c = 1..(Len(e) + 1)
          /\ c[Len(e) + 1] = ip /\ \A i \in 1..Len(e) : c[i] = e[i]
      BY <1>3, <2>1
    <2> HIDE DEF c
    <2>3. \A i \in 1..(Len(e) + 1) : i \in 1..Len(e) \/ i = Len(e) + 1
      BY <1>3
    <2>4. \A i, j \in DOMAIN c : c[i] = c[j] => i = j
      BY <1>3, <1>5, <2>1, <2>2, <2>3
    <2>. QED  BY <1>3, <2>2, <2>4 DEF c, e
  <1>. QED  BY <1>4, <1>5

LEMMA PtrKeeps ==
  ASSUME GeoInv, NEW t \in Threads, PtrCheck(t) \/ PtrStore(t)
  PROVE  GeoInv'
  <1>1. GeoTypes /\ LocksHeld /\ CacheSound
    BY DEF GeoInv
  <1>2. /\ looker[t].at \in {"ptr", "resolve"} /\ UNCHANGED <<disk, reader, geoLock, torLock>>
        /\ cache' = cache \/ cache' = Store(Evicted, looker[t].ip)
    BY DEF PtrCheck, PtrStore, At, world
  <1>3. PICK where \in {"idle", "resolve"} : Moves(t, where)
    BY DEF PtrCheck, PtrStore
  <1>4. ReaderInv' /\ looker' \in [Threads -> Lookers] /\ looker'[t].at = where
        /\ \A u \in Threads : u # t => looker'[u] = looker[u]
    BY <1>2, <1>3, ThreadMoves DEF Places
  <1>5. looker[t].ip \in Addresses \union {"none"}
    BY <1>1, GeoFacts
  <1>6. cache' \in Seq(Addresses \union {"none"}) /\ CacheSound'
    <2>1. CASE cache' = cache
      BY <1>1, <2>1 DEF GeoTypes, CacheSound
    <2>2. CASE cache' = Store(Evicted, looker[t].ip)
      BY <1>1, <1>5, <2>2, StoreSound DEF CacheSound
    <2>. QED  BY <1>2, <2>1, <2>2
  <1>7. LocksHeld'
    BY <1>1, <1>2, <1>3, <1>4, LocksKept
  <1>8. GeoTypes'
    BY <1>1, <1>2, <1>4, <1>6 DEF GeoTypes
  <1>. QED  BY <1>4, <1>6, <1>7, <1>8 DEF GeoInv

LEMMA EnrichKeeps ==
  ASSUME GeoInv, NEW t \in Threads, NEW ip \in Addresses, Enrich(t, ip)
  PROVE  GeoInv'
  <1>1. GeoTypes /\ LocksHeld /\ CacheSound /\ ReaderInv
    BY DEF GeoInv
  <1>2. /\ looker[t].at = "idle" /\ UNCHANGED <<disk, reader, cache, geoLock, torLock>>
        /\ looker' = [looker EXCEPT ![t].at = "ensure", ![t].ip = ip]
    BY DEF Enrich, At, world
  <1>3. /\ looker' \in [Threads -> Lookers] /\ looker'[t].at = "ensure"
        /\ \A u \in Threads : u # t => looker'[u] = looker[u]
    BY <1>1, <1>2, GeoFacts DEF GeoTypes, Lookers, Places
  <1>4. ReaderInv'
    <2>1. \A u \in Threads : At(u, "open")' => At(u, "open") /\ looker'[u] = looker[u]
      BY <1>3 DEF At
    <2>. QED  BY <1>1, <1>2, <2>1 DEF ReaderInv, InUse
  <1>5. LocksHeld'
    BY <1>1, <1>2, <1>3, LocksKept
  <1>6. GeoTypes'
    BY <1>1, <1>2, <1>3 DEF GeoTypes
  <1>. QED  BY <1>1, <1>2, <1>4, <1>5, <1>6 DEF GeoInv, CacheSound

\* A file only gets newer.
LEMMA WorldKeeps ==
  ASSUME GeoInv, HourPasses \/ \E f \in Files : Replaced(f) \/ Damaged(f) \/ Repaired(f)
  PROVE  GeoInv'
  <1>1. GeoTypes /\ LocksHeld /\ CacheSound /\ ReaderInv
    BY DEF GeoInv
  <1>2. UNCHANGED <<reader, cache, geoLock, torLock, looker>>
    BY DEF HourPasses, Replaced, Damaged, Repaired
  <1>3. disk' \in [Files -> Nat] /\ disk["city"] <= disk'["city"]
    <2>1. CASE HourPasses \/ \E f \in Files : Damaged(f) \/ Repaired(f)
      <3>1. disk' = disk
        BY <2>1 DEF HourPasses, Damaged, Repaired, world
      <3>. QED  BY <1>1, <3>1, GeoFacts DEF GeoTypes
    <2>2. CASE \E f \in Files : Replaced(f)
      <3>1. PICK f \in Files : disk' = [disk EXCEPT ![f] = disk[f] + 1]
        BY <2>2 DEF Replaced
      <3>. QED  BY <1>1, <3>1 DEF GeoTypes, Files
    <2>. QED  BY <2>1, <2>2
  <1>4. ReaderInv'
    <2>1. disk["city"] \in Nat /\ disk'["city"] \in Nat
      BY <1>1, <1>3, GeoFacts DEF Files
    <2>2. reader'.mtime <= reader'.file /\ reader'.file <= disk'["city"]
      BY <1>1, <1>2, <1>3, <2>1, GeoFacts DEF ReaderInv
    <2>3. InUse' /\ ~reader'.open => reader'.mtime < disk'["city"]
      BY <1>1, <1>2, <1>3, <2>1, GeoFacts DEF ReaderInv, InUse
    <2>4. \A t \in Threads : At(t, "open")' => looker'[t].mtime <= disk'["city"]
      BY <1>1, <1>2, <1>3, <2>1, GeoFacts DEF ReaderInv, At
    <2>. QED  BY <2>2, <2>3, <2>4 DEF ReaderInv
  <1>5. GeoTypes'
    BY <1>1, <1>2, <1>3 DEF GeoTypes
  <1>. QED  BY <1>1, <1>2, <1>4, <1>5 DEF GeoInv, CacheSound, LocksHeld

LEMMA GeoStart == GeoInit => GeoInv
  <1> SUFFICES ASSUME GeoInit PROVE GeoInv
    OBVIOUS
  <1>1. /\ disk \in [Files -> Nat] /\ reader = [file |-> 0, mtime |-> 0, open |-> FALSE] /\ cache = <<>>
        /\ looker = [t \in Threads |-> [at |-> "idle", ip |-> "none", mtime |-> 0]]
        /\ geoLock = Free /\ torLock = Free
    BY DEF GeoInit, NoReader
  <1>2. GeoTypes
    BY <1>1 DEF GeoTypes, Lookers, Places
  <1>3. ReaderInv
    BY <1>1, <1>2, GeoFacts DEF ReaderInv, InUse, NoReader, At
  <1>4. LocksHeld
    BY <1>1, CacheAssumption DEF LocksHeld, Free
  <1>5. CacheSound
    BY <1>1, CacheAssumption DEF CacheSound
  <1>. QED  BY <1>2, <1>3, <1>4, <1>5 DEF GeoInv

LEMMA GeoInductive == GeoInv /\ [GeoNext]_geoVars => GeoInv'
  <1> SUFFICES ASSUME GeoInv, [GeoNext]_geoVars PROVE GeoInv'
    OBVIOUS
  <1>1. CASE UNCHANGED geoVars
    BY <1>1 DEF geoVars, GeoInv, GeoTypes, ReaderInv, LocksHeld, CacheSound, InUse, At
  <1>2. ASSUME NEW t \in Threads, Step(t) PROVE GeoInv'
    BY <1>2, EnsureKeeps, StatKeeps, OpenReaderKeeps, TorKeeps, PtrKeeps DEF Step
  <1>3. ASSUME NEW t \in Threads, NEW ip \in Addresses, Enrich(t, ip) PROVE GeoInv'
    BY <1>3, EnrichKeeps
  <1>4. CASE HourPasses \/ \E f \in Files : Replaced(f) \/ Damaged(f) \/ Repaired(f)
    BY <1>4, WorldKeeps
  <1>. QED  BY <1>1, <1>2, <1>3, <1>4 DEF GeoNext

LEMMA GeoImplies == GeoInv => GeoSound
  <1> SUFFICES ASSUME GeoInv PROVE GeoSound
    OBVIOUS
  <1>1. GeoTypes /\ ReaderInv
    BY DEF GeoInv
  <1>2. CheckIsRight
    <2> SUFFICES ASSUME InUse, UpToDate, disk["city"] > 0
                 PROVE  reader.open /\ reader.file = disk["city"]
      BY DEF CheckIsRight, ReaderFresh
    <2>1. disk["city"] <= reader.mtime
      BY <1>1, GeoFacts DEF UpToDate
    <2>. QED  BY <1>1, <2>1, GeoFacts DEF ReaderInv
  <1>. QED  BY <1>2 DEF GeoInv, GeoSound

\* For any number of threads, addresses and changes of the files: what a check
\* takes for up to date is open and is the file that is there; each lock has
\* one holder; the cache is within its limit and has each address once.
THEOREM GeoCorrect == GeoSpec => []GeoSound
  <1>. QED  BY GeoStart, GeoInductive, GeoImplies, PTL DEF GeoSpec
=============================================================================
