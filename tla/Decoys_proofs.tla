----------------------------- MODULE Decoys_proofs -----------------------------
(***************************************************************************)
(* For any number of sessions, connections, requests and frames: one       *)
(* universe is shown, the logs tell what was asked, and every link of a    *)
(* bait document comes home.                                               *)
(***************************************************************************)
EXTENDS FakeUniverse, PortProbes, HttpDecoys, RedisSession, BeaconRoutes,
        SequenceTheorems, FiniteSetTheorems, TLAPS

-----------------------------------------------------------------------------
(* The fake world                                                          *)

Building == {"load", "truncate", "write", "build", "buildsys"}

\* Where a thread can be, and that only the lock's holder builds.
PlacesInv ==
  /\ uAt \in [Threads -> Building \cup {"idle", "wait", "shell", "live", "broken", "serve"}]
  /\ world \in [Threads -> Int]
  /\ \A s \in Sessions : uAt[s] \in Building => lock = s

\* Nobody builds what is there, and a shell has both of one universe.
OneBuilderInv ==
  /\ sys # NoWorld => fs = sys
  /\ \A s \in Sessions :
       /\ uAt[s] \in {"load", "truncate", "write", "build"} => fs = NoWorld /\ sys = NoWorld
       /\ uAt[s] = "buildsys" => fs = world[s] /\ sys = NoWorld
       /\ uAt[s] = "shell" => fs # NoWorld
       /\ uAt[s] = "live" => sys # NoWorld
  /\ \A t \in Threads : uAt[t] \in {"truncate", "write", "build", "buildsys"} => world[t] # NoWorld
  /\ made >= 0 /\ made \in Int /\ file \in Int

\* What the installer left is the only universe there is.
SeededInv ==
  seed # NoWorld =>
    /\ ~writable /\ file = seed /\ seed = 1
    /\ readable => /\ fs \in {NoWorld, seed} /\ sys \in {NoWorld, seed} /\ share \in {NoWorld, seed}
                   /\ \A t \in Threads : world[t] \in {NoWorld, seed}
                   /\ shown \subseteq {seed}
    /\ \A t \in Threads : uAt[t] \notin {"truncate", "write"}

\* What this process has made up: one for the sessions, one for the file share.
ForSessions == IF fs = NoWorld /\ \A s \in Sessions : uAt[s] \notin {"truncate", "write", "build", "buildsys"}
               THEN 0 ELSE 1
ForShare == IF uAt[ShareThread] \in {"idle", "load"} THEN 0 ELSE 1
MadeInv ==
  /\ starts \in Int /\ seed \in {0, 1}
  /\ made <= seed + 2 * (starts - 1) + ForSessions + ForShare

UniverseIInv == PlacesInv /\ OneBuilderInv /\ SeededInv

-----------------------------------------------------------------------------
LEMMA UniverseInitLemma == UniverseInit => UniverseIInv
  BY DEF UniverseInit, UniverseIInv, PlacesInv, OneBuilderInv, SeededInv, Building, NoWorld, Half, Threads

\* Loading, generating and writing, by any thread.
LEMMA LoadLemma ==
  ASSUME UniverseIInv, NEW t \in Threads, Load(t) \/ Truncate(t) \/ Write(t)
  PROVE  UniverseIInv'
  <1>. USE DEF UniverseIInv, PlacesInv, OneBuilderInv, SeededInv, Building, NoWorld, Half, Threads
  <1>1. CASE Load(t)
    BY <1>1 DEF Load, Generate, UniGoto, disk, seen
  <1>2. CASE Truncate(t)
    BY <1>2 DEF Truncate, UniGoto, seen
  <1>3. CASE Write(t)
    BY <1>3 DEF Write, UniGoto, seen
  <1>. QED  BY <1>1, <1>2, <1>3

\* What a session does.
LEMMA SessionLemma ==
  ASSUME UniverseIInv, NEW s \in Sessions,
         \/ GetFs(s) \/ Acquire(s) \/ BuildFs(s) \/ BuildSys(s)
         \/ ReadFile(s) \/ GetSys(s) \/ ShowLive(s)
  PROVE  UniverseIInv'
  <1>. USE ThreadAssumption DEF UniverseIInv, PlacesInv, OneBuilderInv, SeededInv, Building, NoWorld, Half, Threads
  <1>1. CASE GetFs(s)
    BY <1>1 DEF GetFs, UniGoto, disk, seen
  <1>2. CASE Acquire(s)
    BY <1>2 DEF Acquire, UniGoto, disk, seen, NoThread
  <1>3. CASE BuildFs(s)
    BY <1>3 DEF BuildFs, UniGoto, disk, seen
  <1>4. CASE BuildSys(s)
    BY <1>4 DEF BuildSys, UniGoto, disk, seen
  <1>5. CASE ReadFile(s)
    BY <1>5 DEF ReadFile, disk, memory
  <1>6. CASE GetSys(s)
    BY <1>6 DEF GetSys, UniGoto, disk, seen
  <1>7. CASE ShowLive(s)
    BY <1>7 DEF ShowLive, UniGoto, disk
  <1>. QED  BY <1>1, <1>2, <1>3, <1>4, <1>5, <1>6, <1>7

\* The file share, and the end of the process.
LEMMA ShareLemma ==
  ASSUME UniverseIInv, WarmShare \/ BuildShare \/ ServeShare \/ RestartService
  PROVE  UniverseIInv'
  <1>. USE ThreadAssumption DEF UniverseIInv, PlacesInv, OneBuilderInv, SeededInv, Building, NoWorld, Half, Threads
  <1>1. CASE WarmShare
    BY <1>1 DEF WarmShare, UniGoto, disk, seen
  <1>2. CASE BuildShare
    BY <1>2 DEF BuildShare, UniGoto, disk, seen
  <1>3. CASE ServeShare
    BY <1>3 DEF ServeShare, disk, memory
  <1>4. CASE RestartService
    BY <1>4 DEF RestartService, disk
  <1>. QED  BY <1>1, <1>2, <1>3, <1>4

\* A session that loads has the lock, and nothing has been made for the others.
LEMMA MadeStep ==
  ASSUME UniverseIInv, MadeInv, [UniverseNext]_uniVars
  PROVE  MadeInv'
  <1>. USE ThreadAssumption DEF MadeInv, Threads, NoWorld
  <1>0. ForSessions \in {0, 1} /\ ForShare \in {0, 1}
    BY DEF ForSessions, ForShare
  <1>1. CASE UNCHANGED uniVars
    BY <1>1 DEF uniVars, ForSessions, ForShare
  <1>2. ASSUME NEW t \in Threads, Load(t) PROVE MadeInv'
    <2>1. /\ starts' = starts /\ seed' = seed /\ fs' = fs
          /\ made' \in {made, made + 1} /\ made \in Int
          /\ uAt[t] = "load" /\ uAt' = [uAt EXCEPT ![t] = uAt'[t]]
          /\ uAt'[t] \in {"truncate", "build"} /\ DOMAIN uAt = Threads
      BY <1>2 DEF Load, Generate, UniGoto, disk, seen, UniverseIInv, PlacesInv, OneBuilderInv
    <2>2. CASE t = ShareThread
      <3>1. ForShare = 0 /\ ForShare' = 1
        BY <2>1, <2>2 DEF ForShare
      <3>2. ForSessions' = ForSessions
        BY <2>1, <2>2 DEF ForSessions
      <3>. QED  BY <1>0, <2>1, <3>1, <3>2
    <2>3. CASE t \in Sessions
      <3>1. fs = NoWorld /\ \A s \in Sessions : s # t => uAt[s] \notin Building
        BY <2>1, <2>3 DEF UniverseIInv, PlacesInv, OneBuilderInv, Building
      <3>2. ForSessions = 0
        BY <2>1, <2>3, <3>1 DEF ForSessions, Building
      <3>3. ForSessions' = 1
        BY <2>1, <2>3 DEF ForSessions
      <3>4. ForShare' = ForShare
        BY <2>1, <2>3 DEF ForShare
      <3>. QED  BY <1>0, <2>1, <3>2, <3>3, <3>4
    <2>. QED  BY <2>2, <2>3
  <1>3. ASSUME NEW t \in Threads, Truncate(t) \/ Write(t) PROVE MadeInv'
    <2>1. /\ starts' = starts /\ seed' = seed /\ fs' = fs /\ made' = made
          /\ uAt[t] \in {"truncate", "write"} /\ uAt' = [uAt EXCEPT ![t] = uAt'[t]]
          /\ uAt'[t] \in {"write", "build"} /\ DOMAIN uAt = Threads
      BY <1>3 DEF Truncate, Write, UniGoto, seen, UniverseIInv, PlacesInv
    <2>2. ForSessions' = ForSessions /\ ForShare' = ForShare
      BY <2>1 DEF ForSessions, ForShare
    <2>. QED  BY <2>1, <2>2
  <1>4. ASSUME NEW s \in Sessions,
               GetFs(s) \/ Acquire(s) \/ BuildFs(s) \/ BuildSys(s) \/ ReadFile(s) \/ GetSys(s) \/ ShowLive(s)
        PROVE  MadeInv'
    <2>1. /\ starts' = starts /\ seed' = seed /\ made' = made /\ DOMAIN uAt = Threads
          /\ \A t \in Threads : t # s => uAt'[t] = uAt[t]
      BY <1>4 DEF GetFs, Acquire, BuildFs, BuildSys, ReadFile, GetSys, ShowLive, UniGoto, disk, seen,
                  memory, UniverseIInv, PlacesInv
    <2>2. ForShare' = ForShare
      BY <2>1 DEF ForShare
    <2>3. ForSessions' = ForSessions
      <3>1. CASE GetFs(s) \/ Acquire(s) \/ ReadFile(s) \/ GetSys(s) \/ ShowLive(s)
        <4>1. fs' = fs /\ uAt[s] \notin {"truncate", "write", "build", "buildsys"}
                       /\ uAt'[s] \notin {"truncate", "write", "build", "buildsys"}
          BY <2>1, <3>1 DEF GetFs, Acquire, ReadFile, GetSys, ShowLive, UniGoto, disk, memory,
                            UniverseIInv, PlacesInv
        <4>. QED  BY <2>1, <4>1 DEF ForSessions
      <3>2. CASE BuildFs(s)
        <4>1. fs' # NoWorld /\ uAt[s] = "build"
          BY <3>2 DEF BuildFs, UniverseIInv, OneBuilderInv
        <4>. QED  BY <4>1 DEF ForSessions
      <3>3. CASE BuildSys(s)
        <4>1. fs' = fs /\ fs # NoWorld
          BY <3>3 DEF BuildSys, UniverseIInv, OneBuilderInv
        <4>. QED  BY <4>1 DEF ForSessions
      <3>. QED  BY <1>4, <3>1, <3>2, <3>3
    <2>. QED  BY <2>1, <2>2, <2>3
  <1>5. CASE WarmShare \/ BuildShare \/ ServeShare
    <2>1. /\ starts' = starts /\ seed' = seed /\ fs' = fs /\ made' = made
          /\ \A s \in Sessions : uAt'[s] = uAt[s]
      BY <1>5 DEF WarmShare, BuildShare, ServeShare, UniGoto, disk, seen, memory, UniverseIInv, PlacesInv
    <2>2. ForSessions' = ForSessions
      BY <2>1 DEF ForSessions
    <2>3. ForShare' = ForShare
      BY <1>5 DEF WarmShare, BuildShare, ServeShare, UniGoto, memory, ForShare, UniverseIInv, PlacesInv
    <2>. QED  BY <2>1, <2>2, <2>3
  <1>6. CASE RestartService
    <2>1. /\ starts' = starts + 1 /\ seed' = seed /\ made' = made
          /\ fs' = NoWorld /\ uAt' = [t \in Threads |-> "idle"]
      BY <1>6 DEF RestartService, disk
    <2>2. ForSessions' = 0 /\ ForShare' = 0
      BY <2>1 DEF ForSessions, ForShare
    <2>3. made \in Int
      BY DEF UniverseIInv, OneBuilderInv
    <2>. QED  BY <1>0, <2>1, <2>2, <2>3
  <1>. QED  BY <1>1, <1>2, <1>3, <1>4, <1>5, <1>6 DEF UniverseNext

\* No more universes are made than one for the sessions and one for the file share
\* of every process; an identity that the installer left, and the sensor can read,
\* is the only one shown; and the two halves of a process agree.
THEOREM OneUniverseTheorem == UniverseSpec => []OneUniverse
  <1>1. UniverseInit => UniverseIInv
    BY UniverseInitLemma
  <1>4. UniverseInit => MadeInv
    BY ThreadAssumption DEF UniverseInit, MadeInv, ForSessions, ForShare, Threads, NoWorld
  <1>5. UniverseIInv /\ MadeInv /\ [UniverseNext]_uniVars => MadeInv'
    BY MadeStep
  <1>2. UniverseIInv /\ [UniverseNext]_uniVars => UniverseIInv'
    <2>. SUFFICES ASSUME UniverseIInv, [UniverseNext]_uniVars PROVE UniverseIInv'
      OBVIOUS
    <2>1. CASE UNCHANGED uniVars
      BY <2>1 DEF uniVars, UniverseIInv, PlacesInv, OneBuilderInv, SeededInv
    <2>2. CASE UniverseNext
      BY <2>2, LoadLemma, SessionLemma, ShareLemma DEF UniverseNext
    <2>. QED  BY <2>1, <2>2
  <1>3. UniverseIInv /\ MadeInv => OneUniverse
    <2>. SUFFICES ASSUME UniverseIInv, MadeInv PROVE OneUniverse
      OBVIOUS
    <2>1. ForSessions \in {0, 1} /\ ForShare \in {0, 1} /\ made \in Int
      BY DEF ForSessions, ForShare, UniverseIInv, OneBuilderInv
    <2>2. made <= seed + 2 * starts
      BY <2>1 DEF MadeInv
    <2>. QED  BY <2>2 DEF UniverseIInv, OneBuilderInv, SeededInv, OneUniverse
  <1>. QED  BY <1>1, <1>2, <1>3, <1>4, <1>5, PTL DEF UniverseSpec

-----------------------------------------------------------------------------
(* RDP and Windows ports                                                   *)

\* What the log holds of an RDP client, by where its handler stands: the events
\* are those of the story, one after the other.
First == [type |-> "probe", says |-> {}]
Connect == [type |-> "rdp_connect", says |-> told[2].says]
Info == [type |-> "client_info", says |-> {"core"}]
Last == [type |-> "session_end", says |-> {}]
RdpInv ==
  kind = "rdp" =>
    /\ probeAt \in {"request", "core", "end", "closed"}
    /\ probeAt = "request" => told = <<First>>
    /\ probeAt = "core" => told = <<First, Connect>>
    /\ probeAt = "end" => told \in {<<First>>, <<First, Connect>>, <<First, Connect, Info>>}
    /\ probeAt = "closed" =>
         told \in {<<First, Last>>, <<First, Connect, Last>>, <<First, Connect, Info, Last>>}
    /\ probeAt \in {"end", "closed"} /\ frame # <<>> /\ ~Foreign => lostTo \in {"open", "cut"}

WinInv ==
  kind # "rdp" =>
    /\ probeAt \in {"greet", "read", "closed"}
    /\ probeAt = "greet" => frame = <<>>
    /\ probeAt # "closed" => told = <<First>>
    /\ probeAt = "closed" =>
         \/ frame = <<>> /\ told = <<First>>
         \/ told = <<First, [type |-> "payload", says |-> Units(frame)]>>

ProbeInv ==
  /\ kind \in {"rdp", "port", "greeting"} /\ link \in {"open", "finished", "cut"}
  /\ RdpInv /\ WinInv

\* Steps of the client and of the network, which record nothing.
LEMMA ProbeQuiet ==
  ASSUME ProbeInv, link' \in {"open", "finished", "cut"},
         UNCHANGED <<kind, probeAt, frame, told, lostTo>>
  PROVE  ProbeInv'
  BY DEF ProbeInv, RdpInv, WinInv, Connect, Foreign

\* What an entry at the end makes of a short log.
LEMMA AppendedTuple ==
  ASSUME NEW a, NEW b, NEW c, NEW d
  PROVE  /\ Append(<<a>>, b) = <<a, b>>
         /\ Append(<<a, b>>, c) = <<a, b, c>>
         /\ Append(<<a, b, c>>, d) = <<a, b, c, d>>
  <1>. DEFINE S == {a, b, c, d}
  <1>1. /\ <<a>> \in Seq(S) /\ <<a, b>> \in Seq(S) /\ <<a, b, c>> \in Seq(S)
        /\ <<a, b, c, d>> \in Seq(S) /\ b \in S /\ c \in S /\ d \in S
    OBVIOUS
  <1>. HIDE DEF S
  <1>2. Append(<<a>>, b) = <<a, b>>
    <2>1. Append(<<a>>, b) \in Seq(S) /\ Len(Append(<<a>>, b)) = Len(<<a, b>>)
      BY <1>1
    <2>2. \A i \in 1..2 : Append(<<a>>, b)[i] = <<a, b>>[i]
      BY <1>1
    <2>. QED  BY <1>1, <2>1, <2>2, SeqEqual
  <1>3. Append(<<a, b>>, c) = <<a, b, c>>
    <2>1. Append(<<a, b>>, c) \in Seq(S) /\ Len(Append(<<a, b>>, c)) = Len(<<a, b, c>>)
      BY <1>1
    <2>2. \A i \in 1..3 : Append(<<a, b>>, c)[i] = <<a, b, c>>[i]
      BY <1>1
    <2>. QED  BY <1>1, <2>1, <2>2, SeqEqual
  <1>4. Append(<<a, b, c>>, d) = <<a, b, c, d>>
    <2>1. Append(<<a, b, c>>, d) \in Seq(S) /\ Len(Append(<<a, b, c>>, d)) = Len(<<a, b, c, d>>)
      BY <1>1
    <2>2. \A i \in 1..4 : Append(<<a, b, c>>, d)[i] = <<a, b, c, d>>[i]
      BY <1>1
    <2>. QED  BY <1>1, <2>1, <2>2, SeqEqual
  <1>. QED  BY <1>2, <1>3, <1>4

LEMMA RdpStep ==
  ASSUME ProbeInv, kind = "rdp",
         RdpReads \/ RdpConnect \/ RdpClientInfo \/ RdpGivesUp \/ RdpEnd
  PROVE  ProbeInv'
  <1>1. kind' = "rdp" /\ link' = link /\ link \in {"open", "finished", "cut"} /\ RdpInv
    BY DEF ProbeInv, RdpReads, RdpConnect, RdpClientInfo, RdpGivesUp, RdpEnd
  <1>. SUFFICES RdpInv'
    BY <1>1 DEF ProbeInv, WinInv
  <1>2. CASE RdpReads
    BY <1>1, <1>2 DEF RdpReads, RdpInv, Connect
  <1>3. CASE RdpConnect
    <2>1. told = <<First>> /\ told' = Append(told, [type |-> "rdp_connect", says |-> Parsed(frame)])
          /\ probeAt' \in {"end", "core"} /\ frame' = <<>>
      BY <1>1, <1>3 DEF RdpConnect, RdpInv, Tell
    <2>2. told' = <<First, [type |-> "rdp_connect", says |-> Parsed(frame)]>>
      BY <2>1, AppendedTuple
    <2>3. Connect' = [type |-> "rdp_connect", says |-> Parsed(frame)]
      BY <2>2 DEF Connect
    <2>. QED  BY <2>1, <2>2, <2>3 DEF RdpInv
  <1>4. CASE RdpClientInfo
    <2>1. /\ told = <<First, Connect>> /\ probeAt' = "end" /\ frame' = <<>>
          /\ told' = told \/ told' = Append(told, Info)
      BY <1>1, <1>4 DEF RdpClientInfo, RdpInv, Tell, Info
    <2>2. told' = <<First, Connect>> \/ told' = <<First, Connect, Info>>
      BY <2>1
    <2>3. Connect' = Connect
      BY <2>1 DEF Connect
    <2>. QED  BY <2>1, <2>2, <2>3 DEF RdpInv
  <1>5. CASE RdpGivesUp
    <2>1. /\ told' = told /\ frame' = frame /\ lostTo' = link /\ probeAt' = "end"
          /\ told \in {<<First>>, <<First, Connect>>} /\ Connect' = Connect
      BY <1>1, <1>5 DEF RdpGivesUp, RdpInv, Connect
    <2>2. ASSUME frame # <<>>, ~Foreign PROVE link # "finished"
      BY <1>5, <2>2 DEF RdpGivesUp, NoMessage, IsRead, Ended
    <2>3. frame' # <<>> /\ ~Foreign' => lostTo' \in {"open", "cut"}
      BY <1>1, <2>1, <2>2 DEF Foreign
    <2>. QED  BY <2>1, <2>3 DEF RdpInv
  <1>6. CASE RdpEnd
    <2>1. /\ told' = Append(told, Last) /\ probeAt' = "closed" /\ frame' = frame /\ lostTo' = lostTo
          /\ told \in {<<First>>, <<First, Connect>>, <<First, Connect, Info>>}
          /\ frame # <<>> /\ ~Foreign => lostTo \in {"open", "cut"}
      BY <1>1, <1>6 DEF RdpEnd, RdpInv, Tell, Last
    <2>2. told' \in {<<First, Last>>, <<First, Connect, Last>>, <<First, Connect, Info, Last>>}
      <3>1. CASE told = <<First>>
        BY <2>1, <3>1, AppendedTuple
      <3>2. CASE told = <<First, Connect>>
        BY <2>1, <3>2, AppendedTuple
      <3>3. CASE told = <<First, Connect, Info>>
        BY <2>1, <3>3, AppendedTuple
      <3>. QED  BY <2>1, <3>1, <3>2, <3>3
    <2>3. told' \in {<<First, Last>>, <<First, Connect', Last>>, <<First, Connect', Info, Last>>}
      <3>1. CASE told' = <<First, Last>>
        BY <3>1
      <3>2. CASE told' = <<First, Connect, Last>> \/ told' = <<First, Connect, Info, Last>>
        <4>1. told'[2] = Connect
          BY <3>2
        <4>2. Connect.says = told[2].says
          BY DEF Connect
        <4>3. Connect' = Connect
          BY <4>1, <4>2 DEF Connect
        <4>. QED  BY <3>2, <4>3
      <3>. QED  BY <2>2, <3>1, <3>2
    <2>. QED  BY <2>1, <2>3 DEF RdpInv, Foreign
  <1>. QED  BY <1>2, <1>3, <1>4, <1>5, <1>6

LEMMA WinStep ==
  ASSUME ProbeInv, kind # "rdp", Greets \/ WinReads \/ WinStops
  PROVE  ProbeInv'
  <1>1. /\ kind' = kind /\ link' = link /\ WinInv
        /\ kind \in {"rdp", "port", "greeting"} /\ link \in {"open", "finished", "cut"}
    BY DEF ProbeInv, Greets, WinReads, WinStops
  <1>. SUFFICES WinInv'
    BY <1>1 DEF ProbeInv, RdpInv
  <1>2. CASE Greets
    BY <1>1, <1>2 DEF Greets, WinInv
  <1>3. CASE WinReads
    BY <1>1, <1>3 DEF WinReads, WinInv
  <1>4. CASE WinStops
    <2>1. /\ told = <<First>> /\ probeAt' = "closed" /\ frame' = frame
          /\ \/ frame # <<>> /\ told' = Append(told, [type |-> "payload", says |-> Units(frame)])
             \/ frame = <<>> /\ told' = told
      BY <1>1, <1>4 DEF WinStops, WinInv, Tell
    <2>2. \/ frame' = <<>> /\ told' = <<First>>
          \/ told' = <<First, [type |-> "payload", says |-> Units(frame')]>>
      BY <2>1 DEF Units
    <2>. QED  BY <2>1, <2>2 DEF WinInv
  <1>. QED  BY <1>2, <1>3, <1>4

-----------------------------------------------------------------------------
(* What an RDP client introduces itself with                               *)

WireUnits == [is : STRING, length : Nat]
Wire == Seq(WireUnits)

\* While the request is read, it and what waits behind it are what was sent; and
\* no more is read than its header says.
RequestInv ==
  probeAt = "request" =>
    /\ Len(spoken) = Len(frame) + Len(arrived)
    /\ \A i \in 1..Len(frame) : frame[i] = spoken[i]
    /\ \A i \in 1..Len(arrived) : arrived[i] = spoken[Len(frame) + i]
    /\ Len(frame) # 0 => Len(frame) <= 1 + frame[1].length

\* Once it is told of, nothing that is still sent belongs to it.
AskedInv ==
  Len(told) >= 2 /\ told[2].type = "rdp_connect" =>
    /\ told[2].says = Introduced
    /\ Len(spoken) # 0
    /\ Len(spoken) >= 1 + spoken[1].length \/ link # "open"

SpokenInv ==
  kind = "rdp" =>
    /\ stream \in Wire /\ arrived \in Wire /\ frame \in Wire /\ spoken \in Wire
    /\ RequestInv /\ AskedInv

\* What is read is the first message of what was sent.
LEMMA RequestHeard ==
  ASSUME SpokenInv, kind = "rdp", probeAt = "request", IsRead(frame)
  PROVE  /\ Parsed(frame) = Introduced
         /\ Len(spoken) # 0
         /\ Len(spoken) >= 1 + spoken[1].length \/ link # "open"
  <1>1. /\ frame \in Wire /\ spoken \in Wire /\ arrived \in Wire
        /\ Len(spoken) = Len(frame) + Len(arrived)
        /\ \A i \in 1..Len(frame) : frame[i] = spoken[i]
        /\ Len(frame) # 0 => Len(frame) <= 1 + frame[1].length
    BY DEF SpokenInv, RequestInv
  <1>2. Len(frame) \in Nat /\ Len(arrived) \in Nat /\ Len(spoken) \in Nat
    BY <1>1 DEF Wire
  <1>3. frame # <<>> /\ Len(frame) # 0
    BY <1>1 DEF IsRead, Complete, Wire
  <1>4. frame[1] = spoken[1] /\ frame[1].length \in Nat
    <2>1. 1 \in 1..Len(frame)
      BY <1>2, <1>3
    <2>2. frame[1] \in WireUnits
      BY <1>1, <2>1 DEF Wire
    <2>. QED  BY <1>1, <2>1, <2>2 DEF WireUnits
  <1>5. \/ Len(frame) = 1 + spoken[1].length
        \/ Len(spoken) = Len(frame) /\ Len(frame) <= 1 + spoken[1].length /\ link # "open"
    <2>1. CASE Complete(frame)
      <3>1. Len(frame) > frame[1].length
        BY <2>1 DEF Complete
      <3>. QED  BY <1>1, <1>2, <1>3, <1>4, <3>1
    <2>2. CASE Ended
      <3>1. Len(arrived) = 0 /\ link # "open"
        BY <2>2 DEF Ended
      <3>. QED  BY <1>1, <1>2, <1>3, <1>4, <3>1
    <2>. QED  BY <2>1, <2>2 DEF IsRead
  <1>6. FirstMessage = 1..Len(frame)
    <2>1. DOMAIN spoken = 1..Len(spoken)
      BY <1>1 DEF Wire
    <2>2. ASSUME NEW i PROVE i \in FirstMessage <=> i \in 1..Len(frame)
      <3>1. i \in FirstMessage <=> i \in 1..Len(spoken) /\ i <= 1 + spoken[1].length
        BY <2>1 DEF FirstMessage
      <3>. QED  BY <1>1, <1>2, <1>4, <1>5, <3>1
    <2>. QED  BY <2>2
  <1>7. 2 \in FirstMessage <=> Len(frame) >= 2
    BY <1>2, <1>6
  <1>8. Units(frame) = {frame[i].is : i \in 1..Len(frame)}
    <2>1. DOMAIN frame = 1..Len(frame)
      BY <1>1 DEF Wire
    <2>. QED  BY <2>1 DEF Units
  <1>9. ASSUME NEW is \in {"cookie", "protocols"}
        PROVE  is \in Units(frame) <=> \E i \in FirstMessage : spoken[i].is = is
    BY <1>1, <1>6, <1>8
  <1>10. Len(frame) >= 2 => frame[2] = spoken[2]
    BY <1>1, <1>2
  <1>11. Parsed(frame) = Introduced
    <2>1. CASE Len(frame) >= 2 /\ frame[2].is = "cr"
      <3>1. Parsed(frame) = Units(frame) \intersect {"cookie", "protocols"}
        BY <2>1 DEF Parsed
      <3>2. Introduced = {is \in {"cookie", "protocols"} : \E i \in FirstMessage : spoken[i].is = is}
        BY <1>7, <1>10, <2>1 DEF Introduced
      <3>. QED  BY <1>9, <3>1, <3>2
    <2>2. CASE ~(Len(frame) >= 2 /\ frame[2].is = "cr")
      <3>1. Parsed(frame) = {}
        BY <2>2 DEF Parsed
      <3>2. ~(2 \in FirstMessage /\ spoken[2].is = "cr")
        BY <1>7, <1>10, <2>2
      <3>. QED  BY <3>1, <3>2 DEF Introduced
    <2>. QED  BY <2>1, <2>2
  <1>12. Len(spoken) # 0 /\ (Len(spoken) >= 1 + spoken[1].length \/ link # "open")
    BY <1>1, <1>2, <1>3, <1>4, <1>5
  <1>. QED  BY <1>11, <1>12

\* A unit more, behind a message that is whole, adds nothing to it.
LEMMA NothingAdded ==
  ASSUME spoken \in Wire, NEW unit \in WireUnits,
         Len(spoken) # 0, Len(spoken) >= 1 + spoken[1].length, spoken' = Append(spoken, unit)
  PROVE  Introduced' = Introduced /\ Len(spoken') # 0 /\ Len(spoken') >= 1 + spoken'[1].length
  <1>1. /\ Len(spoken) \in Nat /\ Len(spoken') = Len(spoken) + 1
        /\ DOMAIN spoken = 1..Len(spoken) /\ DOMAIN spoken' = 1..(Len(spoken) + 1)
        /\ \A i \in 1..Len(spoken) : spoken'[i] = spoken[i]
    BY DEF Wire
  <1>2. spoken'[1] = spoken[1] /\ spoken[1].length \in Nat
    <2>1. 1 \in 1..Len(spoken)
      BY <1>1
    <2>2. spoken[1] \in WireUnits
      BY <2>1 DEF Wire
    <2>. QED  BY <1>1, <2>1, <2>2 DEF WireUnits
  <1>3. FirstMessage' = FirstMessage
    <2>1. ASSUME NEW i PROVE i \in FirstMessage' <=> i \in FirstMessage
      <3>1. i \in FirstMessage' <=> i \in 1..(Len(spoken) + 1) /\ i <= 1 + spoken[1].length
        BY <1>1, <1>2 DEF FirstMessage
      <3>2. i \in FirstMessage <=> i \in 1..Len(spoken) /\ i <= 1 + spoken[1].length
        BY <1>1 DEF FirstMessage
      <3>. QED  BY <1>1, <1>2, <3>1, <3>2
    <2>. QED  BY <2>1
  <1>4. \A i \in FirstMessage : spoken'[i] = spoken[i]
    BY <1>1 DEF FirstMessage
  <1>5. Introduced' = Introduced
    BY <1>3, <1>4 DEF Introduced
  <1>. QED  BY <1>1, <1>2, <1>5

LEMMA SendsHeard ==
  ASSUME SpokenInv, kind = "rdp", ClientSends
  PROVE  SpokenInv'
  <1>1. /\ stream \in Wire /\ arrived \in Wire /\ frame \in Wire /\ spoken \in Wire
        /\ RequestInv /\ AskedInv
    BY DEF SpokenInv
  <1>2. /\ stream # <<>> /\ link = "open" /\ arrived' = Append(arrived, Head(stream))
        /\ spoken' = Append(spoken, Head(stream)) /\ stream' = Tail(stream)
        /\ UNCHANGED <<kind, link, probeAt, frame, told>>
    BY DEF ClientSends
  <1>3. Head(stream) \in WireUnits
    BY <1>1, <1>2 DEF Wire
  <1>4. /\ stream' \in Wire /\ arrived' \in Wire /\ spoken' \in Wire
        /\ Len(arrived) \in Nat /\ Len(spoken) \in Nat /\ Len(frame) \in Nat
        /\ Len(arrived') = Len(arrived) + 1 /\ Len(spoken') = Len(spoken) + 1
        /\ \A i \in 1..Len(arrived) : arrived'[i] = arrived[i]
        /\ \A i \in 1..Len(spoken) : spoken'[i] = spoken[i]
        /\ arrived'[Len(arrived) + 1] = Head(stream) /\ spoken'[Len(spoken) + 1] = Head(stream)
    BY <1>1, <1>2, <1>3 DEF Wire
  <1>5. RequestInv'
    <2>. SUFFICES ASSUME probeAt = "request" PROVE RequestInv'
      BY <1>2 DEF RequestInv
    <2>1. /\ Len(spoken) = Len(frame) + Len(arrived)
          /\ \A i \in 1..Len(frame) : frame[i] = spoken[i]
          /\ \A i \in 1..Len(arrived) : arrived[i] = spoken[Len(frame) + i]
          /\ Len(frame) # 0 => Len(frame) <= 1 + frame[1].length
      BY <1>1 DEF RequestInv
    <2>2. Len(spoken') = Len(frame') + Len(arrived')
      BY <1>2, <1>4, <2>1
    <2>3. ASSUME NEW i \in 1..Len(frame) PROVE frame'[i] = spoken'[i]
      <3>1. i \in 1..Len(spoken)
        BY <1>4, <2>1
      <3>. QED  BY <1>2, <1>4, <2>1, <3>1
    <2>4. ASSUME NEW i \in 1..(Len(arrived) + 1) PROVE arrived'[i] = spoken'[Len(frame) + i]
      <3>1. CASE i = Len(arrived) + 1
        <4>1. Len(frame) + i = Len(spoken) + 1
          BY <1>4, <2>1, <3>1
        <4>. QED  BY <1>4, <3>1, <4>1
      <3>2. CASE i # Len(arrived) + 1
        <4>1. i \in 1..Len(arrived) /\ Len(frame) + i \in 1..Len(spoken)
          BY <1>4, <2>1, <3>2
        <4>. QED  BY <1>4, <2>1, <4>1
      <3>. QED  BY <3>1, <3>2
    <2>. QED  BY <1>2, <1>4, <2>1, <2>2, <2>3, <2>4 DEF RequestInv
  <1>6. AskedInv'
    <2>. SUFFICES ASSUME Len(told) >= 2, told[2].type = "rdp_connect" PROVE AskedInv'
      BY <1>2 DEF AskedInv
    <2>1. told[2].says = Introduced /\ Len(spoken) # 0 /\ Len(spoken) >= 1 + spoken[1].length
      BY <1>1, <1>2 DEF AskedInv
    <2>2. Introduced' = Introduced /\ Len(spoken') # 0 /\ Len(spoken') >= 1 + spoken'[1].length
      BY <1>1, <1>2, <1>3, <2>1, NothingAdded
    <2>. QED  BY <1>2, <2>1, <2>2 DEF AskedInv
  <1>. QED  BY <1>1, <1>2, <1>4, <1>5, <1>6 DEF SpokenInv

LEMMA ReadsHeard ==
  ASSUME SpokenInv, RdpReads
  PROVE  SpokenInv'
  <1>0. /\ kind = "rdp" /\ arrived # <<>> /\ ~Complete(frame)
        /\ frame' = Append(frame, Head(arrived)) /\ arrived' = Tail(arrived)
        /\ UNCHANGED <<kind, stream, link, probeAt, told, spoken>>
    BY DEF RdpReads
  <1>1. /\ stream \in Wire /\ arrived \in Wire /\ frame \in Wire /\ spoken \in Wire
        /\ RequestInv /\ AskedInv
    BY <1>0 DEF SpokenInv
  <1>2. Head(arrived) \in WireUnits /\ Head(arrived) = arrived[1]
    BY <1>0, <1>1 DEF Wire
  <1>3. /\ frame' \in Wire /\ arrived' \in Wire
        /\ Len(arrived) \in Nat /\ Len(frame) \in Nat /\ Len(arrived) # 0
        /\ Len(frame') = Len(frame) + 1 /\ Len(arrived') = Len(arrived) - 1
        /\ \A i \in 1..Len(frame) : frame'[i] = frame[i]
        /\ frame'[Len(frame) + 1] = Head(arrived)
        /\ \A i \in 1..(Len(arrived) - 1) : arrived'[i] = arrived[i + 1]
    BY <1>0, <1>1, <1>2 DEF Wire
  <1>4. RequestInv'
    <2>. SUFFICES ASSUME probeAt = "request" PROVE RequestInv'
      BY <1>0 DEF RequestInv
    <2>1. /\ Len(spoken) = Len(frame) + Len(arrived)
          /\ \A i \in 1..Len(frame) : frame[i] = spoken[i]
          /\ \A i \in 1..Len(arrived) : arrived[i] = spoken[Len(frame) + i]
      BY <1>1 DEF RequestInv
    <2>2. Len(spoken') = Len(frame') + Len(arrived')
      BY <1>0, <1>3, <2>1
    <2>3. ASSUME NEW i \in 1..(Len(frame) + 1) PROVE frame'[i] = spoken[i]
      <3>1. CASE i = Len(frame) + 1
        <4>1. 1 \in 1..Len(arrived)
          BY <1>3
        <4>. QED  BY <1>2, <1>3, <2>1, <3>1, <4>1
      <3>2. CASE i # Len(frame) + 1
        <4>1. i \in 1..Len(frame)
          BY <1>3, <3>2
        <4>. QED  BY <1>3, <2>1, <4>1
      <3>. QED  BY <3>1, <3>2
    <2>4. ASSUME NEW i \in 1..(Len(arrived) - 1) PROVE arrived'[i] = spoken[Len(frame) + 1 + i]
      <3>1. i + 1 \in 1..Len(arrived) /\ Len(frame) + (i + 1) = Len(frame) + 1 + i
        BY <1>3
      <3>. QED  BY <1>3, <2>1, <3>1
    <2>5. Len(frame') <= 1 + frame'[1].length
      <3>1. CASE Len(frame) = 0
        <4>1. frame'[1] \in WireUnits
          BY <1>2, <1>3, <3>1
        <4>2. frame'[1].length \in Nat
          BY <4>1 DEF WireUnits
        <4>. QED  BY <1>3, <3>1, <4>2
      <3>2. CASE Len(frame) # 0
        <4>1. frame # <<>> /\ 1 \in 1..Len(frame)
          BY <1>1, <1>3, <3>2
        <4>2. ~(Len(frame) > frame[1].length) /\ frame'[1] = frame[1]
          BY <1>0, <1>3, <4>1 DEF Complete
        <4>3. frame[1] \in WireUnits
          BY <1>1, <4>1 DEF Wire
        <4>4. frame[1].length \in Nat
          BY <4>3 DEF WireUnits
        <4>. QED  BY <1>3, <4>2, <4>4
      <3>. QED  BY <3>1, <3>2
    <2>. QED  BY <1>0, <1>3, <2>2, <2>3, <2>4, <2>5 DEF RequestInv
  <1>5. AskedInv'
    BY <1>0, <1>1 DEF AskedInv, Introduced, FirstMessage
  <1>. QED  BY <1>0, <1>1, <1>3, <1>4, <1>5 DEF SpokenInv

\* The other steps of the handler: it leaves the request, and at most the
\* request's own event becomes the second one.
LEMMA LeavesHeard ==
  ASSUME SpokenInv, kind = "rdp", UNCHANGED <<kind, stream, arrived, link, spoken>>,
         frame' \in {frame, <<>>}, probeAt' # "request",
         Len(told') >= 2 /\ told'[2].type = "rdp_connect" =>
            \/ Len(told) >= 2 /\ told'[2] = told[2]
            \/ probeAt = "request" /\ IsRead(frame) /\ told'[2].says = Parsed(frame)
  PROVE  SpokenInv'
  <1>1. <<>> \in Wire /\ frame \in Wire
    BY DEF Wire, SpokenInv
  <1>2. RequestInv'
    BY DEF RequestInv
  <1>3. Introduced' = Introduced
    BY DEF Introduced, FirstMessage
  <1>4. AskedInv'
    <2>. SUFFICES ASSUME Len(told') >= 2, told'[2].type = "rdp_connect" PROVE AskedInv'
      BY DEF AskedInv
    <2>1. CASE Len(told) >= 2 /\ told'[2] = told[2]
      BY <1>3, <2>1 DEF AskedInv, SpokenInv
    <2>2. CASE probeAt = "request" /\ IsRead(frame) /\ told'[2].says = Parsed(frame)
      BY <1>3, <2>2, RequestHeard DEF AskedInv
    <2>. QED  BY <2>1, <2>2
  <1>. QED  BY <1>1, <1>2, <1>4 DEF SpokenInv

LEMMA HandlerHeard ==
  ASSUME ProbeInv, SpokenInv, RdpConnect \/ RdpClientInfo \/ RdpGivesUp \/ RdpEnd
  PROVE  SpokenInv'
  <1>0. kind = "rdp" /\ RdpInv
    BY DEF RdpConnect, RdpClientInfo, RdpGivesUp, RdpEnd, ProbeInv
  <1>1. CASE RdpConnect
    <2>1. /\ told = <<First>> /\ told' = Append(told, [type |-> "rdp_connect", says |-> Parsed(frame)])
          /\ IsRead(frame) /\ probeAt = "request" /\ probeAt' # "request" /\ frame' = <<>>
          /\ UNCHANGED <<kind, stream, arrived, link, spoken>>
      BY <1>0, <1>1 DEF RdpConnect, RdpInv, Tell
    <2>2. told' = <<First, [type |-> "rdp_connect", says |-> Parsed(frame)]>>
      BY <2>1, AppendedTuple
    <2>3. told'[2].says = Parsed(frame)
      BY <2>2
    <2>. QED  BY <1>0, <2>1, <2>3, LeavesHeard
  <1>2. CASE RdpClientInfo
    <2>1. /\ told = <<First, Connect>>
          /\ told' = told \/ told' = Append(told, Info)
          /\ probeAt' # "request" /\ frame' = <<>>
          /\ UNCHANGED <<kind, stream, arrived, link, spoken>>
      BY <1>0, <1>2 DEF RdpClientInfo, RdpInv, Tell, Info
    <2>2. Len(told) >= 2 /\ told'[2] = told[2]
      <3>1. told' = <<First, Connect>> \/ told' = <<First, Connect, Info>>
        <4>1. Append(<<First, Connect>>, Info) = <<First, Connect, Info>>
          BY AppendedTuple
        <4>. QED  BY <2>1, <4>1
      <3>. QED  BY <2>1, <3>1
    <2>. QED  BY <1>0, <2>1, <2>2, LeavesHeard
  <1>3. CASE RdpGivesUp
    <2>1. /\ told' = told /\ frame' = frame /\ probeAt' # "request"
          /\ UNCHANGED <<kind, stream, arrived, link, spoken>>
      BY <1>3 DEF RdpGivesUp
    <2>. QED  BY <1>0, <2>1, LeavesHeard
  <1>4. CASE RdpEnd
    <2>1. /\ told' = Append(told, Last) /\ probeAt' # "request" /\ frame' = frame
          /\ told \in {<<First>>, <<First, Connect>>, <<First, Connect, Info>>}
          /\ UNCHANGED <<kind, stream, arrived, link, spoken>>
      BY <1>0, <1>4 DEF RdpEnd, RdpInv, Tell, Last
    <2>2. \/ told' = <<First, Last>>
          \/ Len(told) >= 2 /\ told'[2] = told[2]
      <3>1. CASE told = <<First>>
        BY <2>1, <3>1, AppendedTuple
      <3>2. CASE told = <<First, Connect>>
        <4>1. told' = <<First, Connect, Last>>
          BY <2>1, <3>2, AppendedTuple
        <4>. QED  BY <3>2, <4>1
      <3>3. CASE told = <<First, Connect, Info>>
        <4>1. told' \in {<<First, Last>>, <<First, Connect, Last>>, <<First, Connect, Info, Last>>}
          BY <2>1, <3>3, AppendedTuple
        <4>. QED  BY <3>3, <4>1
      <3>. QED  BY <2>1, <3>1, <3>2, <3>3
    <2>3. told' = <<First, Last>> => told'[2].type # "rdp_connect"
      BY DEF Last
    <2>. QED  BY <1>0, <2>1, <2>2, <2>3, LeavesHeard
  <1>. QED  BY <1>1, <1>2, <1>3, <1>4

LEMMA HeardInductive == ProbeInv /\ SpokenInv /\ [ProbeNext]_probeVars => SpokenInv'
  <1>. SUFFICES ASSUME ProbeInv, SpokenInv, [ProbeNext]_probeVars PROVE SpokenInv'
    OBVIOUS
  <1>. SUFFICES ASSUME kind' = "rdp" PROVE SpokenInv'
    BY DEF SpokenInv
  <1>1. kind = "rdp"
    BY DEF ProbeNext, probeVars, ClientSends, Finishes, IsCut, RdpReads, RdpConnect, RdpClientInfo,
           RdpGivesUp, RdpEnd, Greets, WinReads, WinStops
  <1>2. CASE Finishes \/ IsCut \/ UNCHANGED probeVars
    <2>1. /\ link' = link \/ link' # "open"
          /\ UNCHANGED <<kind, stream, arrived, probeAt, frame, told, spoken>>
      BY <1>2 DEF Finishes, IsCut, probeVars
    <2>. QED  BY <2>1 DEF SpokenInv, RequestInv, AskedInv, Introduced, FirstMessage
  <1>3. ~(Greets \/ WinReads \/ WinStops)
    BY <1>1 DEF Greets, WinReads, WinStops, ProbeInv, RdpInv
  <1>. QED  BY <1>1, <1>2, <1>3, SendsHeard, ReadsHeard, HandlerHeard DEF ProbeNext

\* However a client of these ports sends, stalls or is cut off, its story is
\* told: with who an RDP client said it is, exactly, and with all that was read
\* before silence or a reset (handle).
THEOREM ProbeCorrect == ProbeSpec => []ProbeIsTold
  <1>1. ProbeInit => ProbeInv
    BY DEF ProbeInit, ProbeInv, RdpInv, WinInv, First
  <1>2. ProbeInv /\ [ProbeNext]_probeVars => ProbeInv'
    <2>. SUFFICES ASSUME ProbeInv, [ProbeNext]_probeVars PROVE ProbeInv'
      OBVIOUS
    <2>1. CASE ClientSends \/ Finishes \/ IsCut \/ UNCHANGED probeVars
      <3>1. link' \in {"open", "finished", "cut"} /\ UNCHANGED <<kind, probeAt, frame, told, lostTo>>
        BY <2>1 DEF ClientSends, Finishes, IsCut, probeVars, ProbeInv
      <3>. QED  BY <3>1, ProbeQuiet
    <2>2. CASE RdpReads \/ RdpConnect \/ RdpClientInfo \/ RdpGivesUp \/ RdpEnd
      <3>1. kind = "rdp"
        BY <2>2 DEF RdpReads, RdpConnect, RdpClientInfo, RdpGivesUp, RdpEnd
      <3>. QED  BY <2>2, <3>1, RdpStep
    <2>3. CASE Greets \/ WinReads \/ WinStops
      <3>1. kind # "rdp"
        BY <2>3 DEF Greets, WinReads, WinStops, ProbeInv, RdpInv
      <3>. QED  BY <2>3, <3>1, WinStep
    <2>. QED  BY <2>1, <2>2, <2>3 DEF ProbeNext
  <1>3. ProbeInit => SpokenInv
    <2>. SUFFICES ASSUME ProbeInit, kind = "rdp" PROVE SpokenInv
      BY DEF SpokenInv
    <2>1. /\ stream \in Wire /\ arrived = <<>> /\ frame = <<>> /\ spoken = <<>>
          /\ told = <<First>>
      BY StreamsAssumption DEF ProbeInit, Wire, WireUnits, First
    <2>2. RequestInv /\ AskedInv
      BY <2>1 DEF RequestInv, AskedInv
    <2>. QED  BY <2>1, <2>2 DEF SpokenInv, Wire
  <1>4. ProbeInv /\ SpokenInv => ProbeIsTold
    <2>. SUFFICES ASSUME ProbeInv, SpokenInv, probeAt = "closed" PROVE ProbeIsTold
      BY DEF ProbeIsTold
    <2>1. CASE kind = "rdp"
      <3>1. /\ told \in {<<First, Last>>, <<First, Connect, Last>>, <<First, Connect, Info, Last>>}
            /\ frame # <<>> /\ ~Foreign => lostTo \in {"open", "cut"}
        BY <2>1 DEF ProbeInv, RdpInv
      <3>2. Story \in {<<"probe", "session_end">>,
                       <<"probe", "rdp_connect", "session_end">>,
                       <<"probe", "rdp_connect", "client_info", "session_end">>}
        <4>1. CASE told = <<First, Last>>
          BY <4>1 DEF Story, First, Last
        <4>2. CASE told = <<First, Connect, Last>>
          <5>1. Story = <<"probe", "rdp_connect", "session_end">>
            BY <4>2 DEF Story, First, Connect, Last
          <5>. QED  BY <5>1
        <4>3. CASE told = <<First, Connect, Info, Last>>
          <5>1. Story = <<"probe", "rdp_connect", "client_info", "session_end">>
            BY <4>3 DEF Story, First, Connect, Info, Last
          <5>. QED  BY <5>1
        <4>. QED  BY <3>1, <4>1, <4>2, <4>3
      <3>3. Story[2] = "rdp_connect" => told[2].says = Introduced
        <4>1. Len(told) >= 2 /\ Story[2] = told[2].type
          BY <3>1 DEF Story
        <4>. QED  BY <2>1, <4>1 DEF SpokenInv, AskedInv
      <3>. QED  BY <2>1, <3>1, <3>2, <3>3 DEF ProbeIsTold
    <2>2. CASE kind # "rdp"
      <3>1. CASE frame = <<>> /\ told = <<First>>
        <4>1. Units(frame) = {}
          BY <3>1 DEF Units
        <4>2. Said("payload") = {}
          BY <3>1 DEF Said, First
        <4>. QED  BY <2>2, <4>1, <4>2 DEF ProbeIsTold
      <3>2. CASE told = <<First, [type |-> "payload", says |-> Units(frame)]>>
        <4>1. {j \in DOMAIN told : told[j].type = "payload"} = {2} /\ told[2].says = Units(frame)
          BY <3>2 DEF First
        <4>2. Said("payload") = Units(frame)
          BY <4>1 DEF Said
        <4>. QED  BY <2>2, <4>2 DEF ProbeIsTold
      <3>. QED  BY <2>2, <3>1, <3>2 DEF ProbeInv, WinInv
    <2>. QED  BY <2>1, <2>2
  <1>. QED  BY <1>1, <1>2, <1>3, <1>4, HeardInductive, PTL DEF ProbeSpec

-----------------------------------------------------------------------------
(* Logs                                                                    *)

\* A log, whatever its entries are.
IsLog(s) == s \in Seq({s[i] : i \in DOMAIN s})

LEMMA LongerLog ==
  ASSUME NEW s, NEW e, IsLog(s)
  PROVE  /\ IsLog(Append(s, e))
         /\ Len(s) \in Nat /\ Len(Append(s, e)) = Len(s) + 1
         /\ DOMAIN s = 1..Len(s) /\ DOMAIN Append(s, e) = 1..(Len(s) + 1)
         /\ \A i \in 1..Len(s) : Append(s, e)[i] = s[i]
         /\ Append(s, e)[Len(s) + 1] = e
  <1>. DEFINE S == {s[i] : i \in DOMAIN s} \cup {e}
              t == Append(s, e)
  <1>1. s \in Seq(S) /\ e \in S
    BY DEF IsLog
  <1>. HIDE DEF S
  <1>2. /\ Len(s) \in Nat /\ t \in Seq(S) /\ Len(t) = Len(s) + 1
        /\ DOMAIN s = 1..Len(s) /\ DOMAIN t = 1..(Len(s) + 1)
        /\ \A i \in 1..Len(s) : t[i] = s[i]
        /\ t[Len(s) + 1] = e
    BY <1>1
  <1>3. IsLog(t)
    BY <1>2 DEF IsLog
  <1>. QED  BY <1>2, <1>3

LEMMA Longest ==
  ASSUME NEW s, NEW a, NEW b, IsLog(s)
  PROVE  /\ IsLog(Append(Append(s, a), b))
         /\ Len(s) \in Nat /\ Len(Append(Append(s, a), b)) = Len(s) + 2
         /\ DOMAIN s = 1..Len(s) /\ DOMAIN Append(Append(s, a), b) = 1..(Len(s) + 2)
         /\ \A i \in 1..Len(s) : Append(Append(s, a), b)[i] = s[i]
         /\ Append(Append(s, a), b)[Len(s) + 1] = a
         /\ Append(Append(s, a), b)[Len(s) + 2] = b
  <1>. DEFINE t == Append(s, a)
  <1>1. /\ IsLog(t) /\ Len(s) \in Nat /\ Len(t) = Len(s) + 1
        /\ DOMAIN s = 1..Len(s)
        /\ \A i \in 1..Len(s) : t[i] = s[i]
        /\ t[Len(s) + 1] = a
    BY LongerLog
  <1>. HIDE DEF t
  <1>2. /\ IsLog(Append(t, b)) /\ Len(Append(t, b)) = Len(t) + 1
        /\ DOMAIN Append(t, b) = 1..(Len(t) + 1)
        /\ \A i \in 1..Len(t) : Append(t, b)[i] = t[i]
        /\ Append(t, b)[Len(t) + 1] = b
    BY <1>1, LongerLog
  <1>3. /\ IsLog(Append(t, b)) /\ Len(s) \in Nat /\ Len(Append(t, b)) = Len(s) + 2
        /\ DOMAIN s = 1..Len(s) /\ DOMAIN Append(t, b) = 1..(Len(s) + 2)
        /\ \A i \in 1..Len(s) : Append(t, b)[i] = s[i]
        /\ Append(t, b)[Len(s) + 1] = a
        /\ Append(t, b)[Len(s) + 2] = b
    BY <1>1, <1>2
  <1>. QED  BY <1>3 DEF t

-----------------------------------------------------------------------------
(* Web applications                                                        *)

LEMMA ConcatLog ==
  ASSUME NEW s, NEW a, NEW b, IsLog(s)
  PROVE  s \o <<>> = s /\ s \o <<a>> = Append(s, a) /\ s \o <<a, b>> = Append(Append(s, a), b)
  <1>. DEFINE S == {s[i] : i \in DOMAIN s} \cup {a, b}
              t == Append(Append(s, a), b)
  <1>1. s \in Seq(S) /\ a \in S /\ b \in S
    BY DEF IsLog
  <1>. HIDE DEF S
  <1>2. /\ t \in Seq(S) /\ Len(s) \in Nat /\ Len(t) = Len(s) + 2
        /\ \A i \in 1..Len(s) : t[i] = s[i]
        /\ t[Len(s) + 1] = a /\ t[Len(s) + 2] = b
    BY <1>1
  <1>3. s \o <<a, b>> \in Seq(S) /\ Len(s \o <<a, b>>) = Len(s) + 2
    BY <1>1, <1>2
  <1>4. \A i \in 1..Len(t) : t[i] = (s \o <<a, b>>)[i]
    BY <1>1, <1>2
  <1>5. t = s \o <<a, b>>
    BY <1>2, <1>3, <1>4, SeqEqual
  <1>6. s \o <<>> \in Seq(S) /\ Len(s \o <<>>) = Len(s) /\ \A i \in 1..Len(s) : (s \o <<>>)[i] = s[i]
    BY <1>1
  <1>7. s \o <<>> = s
    BY <1>1, <1>6, SeqEqual
  <1>8. s \o <<a>> = Append(s, a)
    <2>1. /\ s \o <<a>> \in Seq(S) /\ Len(s \o <<a>>) = Len(s) + 1
          /\ Append(s, a) \in Seq(S) /\ Len(Append(s, a)) = Len(s) + 1
      BY <1>1, <1>2
    <2>2. \A i \in 1..Len(Append(s, a)) : Append(s, a)[i] = (s \o <<a>>)[i]
      BY <1>1, <1>2
    <2>. QED  BY <2>1, <2>2, SeqEqual
  <1>. QED  BY <1>5, <1>7, <1>8

\* The events of a log are of requests that were made.
HeardInv ==
  /\ IsLog(asked) /\ IsLog(heard)
  /\ \A j \in DOMAIN heard : heard[j].of \in 1..Len(asked)
  /\ DeniedMeansHeard

\* The one cookie a browser has over TLS: it is planted once, by the first page.
JarInv ==
  site.tls /\ site.app = "owa" =>
    /\ jar = cookies /\ cookies \in {0, 1}
    /\ \A i \in DOMAIN asked : asked[i].status = "page" => jar = 1
    /\ \A i \in DOMAIN asked, j \in DOMAIN heard :
          asked[i].status = "page" /\ heard[j].of > i => heard[j].cookie = 1

Visit(k) == [path |-> k.path, method |-> k.method, brings |-> k.brings, cookie |-> jar]

\* What one request adds to the log: up to two events, of it and with the
\* cookie it came with; the second is a login if the visitor is turned away,
\* with its secret exactly if that can be read.
LEMMA RequestTold ==
  ASSUME HeardInv, NEW k \in Kinds, VisitorAsks(k)
  PROVE  \E a, b, status :
           /\ asked' = Append(asked, [request |-> Visit(k), status |-> status])
           /\ a.of = Len(asked) + 1 /\ a.cookie = jar /\ b.of = Len(asked) + 1 /\ b.cookie = jar
           /\ heard' \in {heard, Append(heard, a), Append(Append(heard, a), b)}
           /\ status = "denied" =>
                /\ heard' = Append(Append(heard, a), b)
                /\ b.secret <=> k.brings \in Taken
                /\ b.type \in {"http_login", "esxi_login"}
  <1>. DEFINE r == Visit(k)
              N == Len(asked) + 1
  <1>1. IsLog(heard) /\ r.cookie = jar /\ r.brings = k.brings
    BY DEF HeardInv, Visit
  <1>2. \A type, secret : /\ Event(type, r, secret).of = N /\ Event(type, r, secret).cookie = jar
                          /\ Event(type, r, secret).secret = secret /\ Event(type, r, secret).type = type
    BY <1>1 DEF Event
  <1>3. CASE site.app = "owa"
    <2>. DEFINE a == OwaTrace(r)
                b == OwaLogin(r)
    <2>1. asked' = Append(asked, [request |-> r, status |-> OwaStatus(r)]) /\ heard' = heard \o OwaEvents(r)
      BY <1>3 DEF VisitorAsks, Visit
    <2>2. OwaEvents(r) = <<a>> \/ OwaEvents(r) = <<a, b>>
      BY DEF OwaEvents
    <2>3. heard' = Append(heard, a) \/ heard' = Append(Append(heard, a), b)
      <3>. HIDE DEF a, b
      <3>1. CASE OwaEvents(r) = <<a>>
        BY <1>1, <2>1, <3>1, ConcatLog
      <3>2. CASE OwaEvents(r) = <<a, b>>
        BY <1>1, <2>1, <3>2, ConcatLog
      <3>. QED  BY <2>2, <3>1, <3>2
    <2>4. a.of = N /\ a.cookie = jar /\ b.of = N /\ b.cookie = jar /\ b.type = "http_login"
      BY <1>2 DEF OwaTrace, OwaLogin
    <2>5. ASSUME OwaStatus(r) = "denied"
          PROVE  heard' = Append(Append(heard, a), b) /\ (b.secret <=> k.brings \in Taken)
      <3>1. OwaEndpoint(r.path, r.method) = "login_post" /\ r.brings # "form_256k"
        BY <2>5 DEF OwaStatus, OwaEndpoint
      <3>2. OwaEvents(r) = <<a, b>>
        BY <3>1 DEF OwaEvents
      <3>3. r.brings \in Forms <=> k.brings \in Taken
        BY <1>1, <1>3, <3>1 DEF Forms, Taken
      <3>4. b.secret <=> k.brings \in Taken
        <4>1. b.secret = (r.brings \in Forms)
          BY <1>2 DEF OwaLogin
        <4>. HIDE DEF a, b, r
        <4>. QED  BY <3>3, <4>1, Zenon
      <3>5. heard' = Append(Append(heard, a), b)
        <4>. HIDE DEF a, b
        <4>. QED  BY <1>1, <2>1, <3>2, ConcatLog
      <3>. QED  BY <3>4, <3>5
    <2>. HIDE DEF a, b, r, N
    <2>. QED  BY <2>1, <2>3, <2>4, <2>5 DEF r, N
  <1>4. CASE site.app # "owa"
    <2>. DEFINE a == Event("esxi_request", r, FALSE)
                b == Event("esxi_login", r, r.brings = "soap_login")
    <2>1. asked' = Append(asked, [request |-> r, status |-> EsxiStatus(r)]) /\ heard' = heard \o EsxiEvents(r)
      BY <1>4 DEF VisitorAsks, Visit
    <2>2. EsxiEvents(r) \in {<<>>, <<a>>, <<a, b>>}
      BY DEF EsxiEvents
    <2>3. heard' \in {heard, Append(heard, a), Append(Append(heard, a), b)}
      <3>. HIDE DEF a, b
      <3>1. CASE EsxiEvents(r) = <<>>
        BY <1>1, <2>1, <3>1, ConcatLog
      <3>2. CASE EsxiEvents(r) = <<a>>
        BY <1>1, <2>1, <3>2, ConcatLog
      <3>3. CASE EsxiEvents(r) = <<a, b>>
        BY <1>1, <2>1, <3>3, ConcatLog
      <3>. QED  BY <2>2, <3>1, <3>2, <3>3
    <2>4. a.of = N /\ a.cookie = jar /\ b.of = N /\ b.cookie = jar /\ b.type = "esxi_login"
      BY <1>2
    <2>5. ASSUME EsxiStatus(r) = "denied"
          PROVE  heard' = Append(Append(heard, a), b) /\ (b.secret <=> k.brings \in Taken)
      <3>1. EsxiEndpoint(r.path, r.method) = "soap" /\ IsLogin(r)
        BY <2>5 DEF EsxiStatus, EsxiEndpoint
      <3>2. EsxiEvents(r) = <<a, b>>
        BY <3>1 DEF EsxiEvents
      <3>3. r.brings = "soap_login" <=> k.brings \in Taken
        BY <1>1, <1>4 DEF Taken
      <3>4. b.secret <=> k.brings \in Taken
        <4>1. b.secret = (r.brings = "soap_login")
          BY <1>2
        <4>. HIDE DEF a, b, r
        <4>. QED  BY <3>3, <4>1, Zenon
      <3>5. heard' = Append(Append(heard, a), b)
        <4>. HIDE DEF a, b
        <4>. QED  BY <1>1, <2>1, <3>2, ConcatLog
      <3>. QED  BY <3>4, <3>5
    <2>. HIDE DEF a, b, r, N
    <2>. QED  BY <2>1, <2>3, <2>4, <2>5 DEF r, N
  <1>. QED  BY <1>3, <1>4

\* A request leaves what was told of the earlier ones as it is.
LEMMA VisitKeeps ==
  ASSUME HeardInv, JarInv, NEW k \in Kinds, VisitorAsks(k)
  PROVE  HeardInv' /\ JarInv'
  <1>. DEFINE N == Len(asked) + 1
  <1>1. PICK a, b, status :
           /\ asked' = Append(asked, [request |-> Visit(k), status |-> status])
           /\ a.of = N /\ a.cookie = jar /\ b.of = N /\ b.cookie = jar
           /\ heard' \in {heard, Append(heard, a), Append(Append(heard, a), b)}
           /\ status = "denied" =>
                /\ heard' = Append(Append(heard, a), b)
                /\ b.secret <=> k.brings \in Taken
                /\ b.type \in {"http_login", "esxi_login"}
    BY RequestTold
  <1>2. /\ IsLog(asked') /\ Len(asked) \in Nat /\ Len(asked') = N
        /\ DOMAIN asked = 1..Len(asked) /\ DOMAIN asked' = 1..N
        /\ \A i \in 1..Len(asked) : asked'[i] = asked[i]
        /\ asked'[N] = [request |-> Visit(k), status |-> status]
    BY <1>1, LongerLog DEF HeardInv
  <1>3. /\ IsLog(heard) /\ Len(heard) \in Nat /\ DOMAIN heard = 1..Len(heard)
        /\ IsLog(heard') /\ Len(heard') \in Nat /\ DOMAIN heard' = 1..Len(heard')
        /\ Len(heard) <= Len(heard')
        /\ \A j \in 1..Len(heard) : heard'[j] = heard[j]
        /\ \A j \in 1..Len(heard') : j > Len(heard) => heard'[j] = a \/ heard'[j] = b
    <2>1. IsLog(heard)
      BY DEF HeardInv
    <2>2. CASE heard' = heard
      <3>1. Len(heard) \in Nat /\ DOMAIN heard = 1..Len(heard)
        BY <2>1, LongerLog
      <3>. QED  BY <2>1, <2>2, <3>1
    <2>3. CASE heard' = Append(heard, a)
      BY <2>1, <2>3, LongerLog
    <2>4. CASE heard' = Append(Append(heard, a), b)
      BY <2>1, <2>4, Longest
    <2>. QED  BY <1>1, <2>2, <2>3, <2>4
  <1>4. ASSUME NEW j \in DOMAIN heard'
        PROVE  \/ j \in DOMAIN heard /\ heard'[j] = heard[j] /\ heard[j].of \in 1..Len(asked)
               \/ heard'[j].of = N /\ heard'[j].cookie = jar
    <2>1. CASE j \in DOMAIN heard
      BY <1>3, <2>1 DEF HeardInv
    <2>2. CASE j \notin DOMAIN heard
      <3>1. j \in 1..Len(heard') /\ j > Len(heard)
        BY <1>3, <2>2
      <3>. QED  BY <1>1, <1>3, <3>1
    <2>. QED  BY <2>1, <2>2
  <1>5. site' = site
    BY DEF VisitorAsks
  <1>6. DeniedMeansHeard'
    <2>. DEFINE Heard(log, j, i, brings) ==
                  /\ log[j].of = i /\ log[j].type \in {"http_login", "esxi_login"}
                  /\ log[j].secret <=> brings \in Taken
    <2>t. Taken' = Taken
      BY <1>5 DEF Taken
    <2>. SUFFICES ASSUME NEW i \in DOMAIN asked', asked'[i].status = "denied"
                  PROVE  \E j \in DOMAIN heard' : Heard(heard', j, i, asked'[i].request.brings)
      BY <2>t DEF DeniedMeansHeard
    <2>1. CASE i = N
      <3>1. status = "denied" /\ asked'[i].request.brings = k.brings
        BY <1>2, <2>1 DEF Visit
      <3>2. /\ heard' = Append(Append(heard, a), b) /\ b.type \in {"http_login", "esxi_login"}
            /\ b.secret <=> k.brings \in Taken
        BY <1>1, <3>1
      <3>3. Len(heard) + 2 \in DOMAIN heard' /\ heard'[Len(heard) + 2] = b
        BY <1>3, <3>2, Longest
      <3>. QED  BY <1>1, <2>1, <3>1, <3>2, <3>3
    <2>2. CASE i # N
      <3>1. i \in DOMAIN asked /\ asked[i].status = "denied" /\ asked'[i] = asked[i]
        BY <1>2, <2>2
      <3>2. PICK j \in DOMAIN heard : Heard(heard, j, i, asked[i].request.brings)
        BY <3>1 DEF HeardInv, DeniedMeansHeard
      <3>3. j \in DOMAIN heard' /\ heard'[j] = heard[j]
        <4>1. j \in 1..Len(heard) /\ 1..Len(heard) \subseteq 1..Len(heard')
          BY <1>3
        <4>. QED  BY <1>3, <4>1
      <3>. QED  BY <3>1, <3>2, <3>3
    <2>. QED  BY <2>1, <2>2
  <1>7. HeardInv'
    <2>1. \A j \in DOMAIN heard' : heard'[j].of \in 1..Len(asked')
      BY <1>2, <1>4
    <2>. QED  BY <1>2, <1>3, <1>6, <2>1 DEF HeardInv
  <1>8. ASSUME site.tls, site.app = "owa"
        PROVE  /\ jar' = cookies' /\ cookies' \in {0, 1}
               /\ \A i \in DOMAIN asked' : asked'[i].status = "page" => jar' = 1
               /\ \A i \in DOMAIN asked', j \in DOMAIN heard' :
                     asked'[i].status = "page" /\ heard'[j].of > i => heard'[j].cookie = 1
    <2>1. /\ jar = cookies /\ cookies \in {0, 1}
          /\ \A i \in DOMAIN asked : asked[i].status = "page" => jar = 1
          /\ \A i \in DOMAIN asked, j \in DOMAIN heard :
                asked[i].status = "page" /\ heard[j].of > i => heard[j].cookie = 1
      BY <1>8 DEF JarInv
    <2>2. /\ status = OwaStatus(Visit(k)) \/ asked'[N].status = OwaStatus(Visit(k))
          /\ jar' = IF Plants(Visit(k)) THEN cookies + 1 ELSE jar
          /\ cookies' = IF Plants(Visit(k)) THEN cookies + 1 ELSE cookies
          /\ Visit(k).cookie = jar
      <3>1. asked' = Append(asked, [request |-> Visit(k), status |-> OwaStatus(Visit(k))])
        BY <1>8 DEF VisitorAsks, Visit
      <3>2. asked'[N] = [request |-> Visit(k), status |-> OwaStatus(Visit(k))]
        BY <3>1, LongerLog DEF HeardInv
      <3>3. Visit(k).cookie = jar
        BY DEF Visit
      <3>. QED  BY <1>8, <3>2, <3>3 DEF VisitorAsks, Visit
    <2>3. asked'[N].status = OwaStatus(Visit(k))
      BY <1>2, <2>2
    <2>4. jar' = cookies' /\ cookies' \in {0, 1} /\ (jar = 1 => jar' = 1)
      BY <2>1, <2>2 DEF Plants
    <2>5. asked'[N].status = "page" => jar' = 1
      BY <2>1, <2>2, <2>3 DEF Plants
    <2>6. ASSUME NEW i \in DOMAIN asked', asked'[i].status = "page" PROVE jar' = 1
      BY <1>2, <2>1, <2>4, <2>5, <2>6
    <2>7. ASSUME NEW i \in DOMAIN asked', NEW j \in DOMAIN heard',
                 asked'[i].status = "page", heard'[j].of > i
          PROVE  heard'[j].cookie = 1
      <3>1. i < N /\ i \in DOMAIN asked /\ asked[i].status = "page"
        BY <1>2, <1>4, <2>7
      <3>2. jar = 1
        BY <2>1, <3>1
      <3>. QED  BY <1>4, <2>1, <2>7, <3>1, <3>2
    <2>. QED  BY <2>4, <2>6, <2>7
  <1>. QED  BY <1>5, <1>7, <1>8 DEF JarInv

\* Whatever visitors ask for, and however often: everyone turned away has a login
\* in the log, with the name and the password exactly if they came in a form or
\* in bare tags, and over TLS each visitor of OWA is one cookie
\* (_log_request, login_post, _sdk, new_session).
THEOREM VisitorCorrect == HttpSpec => []VisitorIsToldApart
  <1>1. HttpInit => HeardInv /\ JarInv
    <2>. SUFFICES ASSUME HttpInit PROVE HeardInv /\ JarInv
      OBVIOUS
    <2>1. asked = <<>> /\ heard = <<>> /\ jar = 0 /\ cookies = 0
      BY DEF HttpInit
    <2>. QED  BY <2>1 DEF HeardInv, JarInv, IsLog, DeniedMeansHeard
  <1>2. HeardInv /\ JarInv /\ [HttpNext]_httpVars => HeardInv' /\ JarInv'
    <2>. SUFFICES ASSUME HeardInv, JarInv, [HttpNext]_httpVars PROVE HeardInv' /\ JarInv'
      OBVIOUS
    <2>1. CASE UNCHANGED httpVars
      BY <2>1 DEF httpVars, HeardInv, JarInv, IsLog, DeniedMeansHeard, Taken
    <2>. QED  BY <2>1, VisitKeeps DEF HttpNext
  <1>3. HeardInv /\ JarInv => VisitorIsToldApart
    BY DEF HeardInv, JarInv, VisitorIsToldApart, CookieCorrelates
  <1>. QED  BY <1>1, <1>2, <1>3, PTL DEF HttpSpec

-----------------------------------------------------------------------------
(* Redis connections                                                       *)

Mine(c) == {i \in DOMAIN redisLog : redisLog[i].conn = c}
Stages == {"idle", "read", "reply", "ended"}
Live(c) == redisAt[c] \in {"read", "reply"}

\* What a handler knows of its connection is what the log says of it so far.
HandlerInv(c) ==
  /\ redisAt[c] \in Stages
  /\ redisAt[c] = "idle" <=> Mine(c) = {}
  /\ redisAt[c] = "idle" => wire[c] = <<>>
  /\ cmds[c] \in 0..MaxCmds
  /\ redisAt[c] \in {"idle", "read", "reply"} =>
       /\ Cardinality(Mine(c)) <= cmds[c] + 1
       /\ \A j \in Mine(c) : redisLog[j].type # "end"
  /\ redisAt[c] = "ended" =>
       \E j \in Mine(c) : redisLog[j].type = "end" /\ \A k \in Mine(c) : k <= j

DirInv(c) ==
  cfgDir[c] # "" <=>
    \E j \in SetsDir(Mine(c)) :
      redisLog[j].cmd.val # "" /\ \A k \in SetsDir(Mine(c)) : k <= j

\* Behind a frame that was cut short there is nothing, on the wire and then in
\* the log, because its sender is gone.
CutLast(w) == \A i \in DOMAIN w : w[i].cmd.val = "part" => i = Len(w)
CutInv(c) ==
  /\ IsLog(wire[c]) /\ CutLast(wire[c])
  /\ \A i \in DOMAIN wire[c] : wire[c][i].cmd.val = "part" => c \in closed
  /\ \A j \in Mine(c) :
        redisLog[j].cmd.val = "part" => c \in closed /\ (Live(c) => wire[c] = <<>>)

ConnInv(c) == HandlerInv(c) /\ DirInv(c) /\ CutInv(c)

\* What AttackIsTold says of one event.
EventTold(i) ==
  /\ redisLog[i].cmd.name = "SAVE" =>
       (redisLog[i].chain = "rce_payload_write_commit" <=>
          \E j \in SetsDir(Earlier(i)) :
             redisLog[j].cmd.val # "" /\ \A k \in SetsDir(Earlier(i)) : k <= j)
  /\ redisLog[i].type = "connection" <=> Earlier(i) = {}
  /\ redisLog[i].type = "end" => Later(i) = {} /\ Cardinality(Earlier(i)) <= MaxCmds + 1
  /\ redisLog[i].cmd.val = "part" => \A j \in Later(i) : redisLog[j].type = "end"

RedisTypes ==
  /\ IsLog(redisLog) /\ \A i \in DOMAIN redisLog : redisLog[i].conn \in Conns
  /\ redisAt \in [Conns -> Stages] /\ DOMAIN wire = Conns
  /\ DOMAIN cfgDir = Conns /\ cmds \in [Conns -> Nat] /\ closed \subseteq Conns

RedisInv ==
  /\ RedisTypes
  /\ \A c \in Conns : ConnInv(c)
  /\ \A i \in DOMAIN redisLog : EventTold(i)

\* What an event of a connection does to the log, and to the others' in it.
Kept ==
  \A i \in DOMAIN redisLog : i \in DOMAIN redisLog' /\ redisLog'[i] = redisLog[i]
Emitted(c, e, n) ==
  /\ Len(redisLog) \in Nat /\ DOMAIN redisLog = 1..Len(redisLog)
  /\ n \in Nat /\ n = Len(redisLog) + 1 /\ \A i \in DOMAIN redisLog : i \in Nat /\ i < n
  /\ DOMAIN redisLog' = 1..n /\ IsLog(redisLog') /\ redisLog'[n] = e
  /\ \A i \in DOMAIN redisLog' : redisLog'[i].conn \in Conns
  /\ Kept
  /\ n \notin Mine(c) /\ Mine(c)' = Mine(c) \cup {n}
  /\ \A d \in Conns : d # c => Mine(d)' = Mine(d)
Around(c, n) ==
  /\ Earlier(n)' = Mine(c) /\ Later(n)' = {}
  /\ \A i \in DOMAIN redisLog :
       /\ Earlier(i)' = Earlier(i)
       /\ i \in Mine(c) => Later(i)' = Later(i) \cup {n}
       /\ i \notin Mine(c) => Later(i)' = Later(i)

LEMMA EmitLemma ==
  ASSUME RedisTypes, NEW c \in Conns, NEW e, e.conn = c, redisLog' = Append(redisLog, e),
         NEW n, n = Len(redisLog) + 1
  PROVE  Emitted(c, e, n) /\ Around(c, n)
  <1>1. /\ Len(redisLog) \in Nat /\ DOMAIN redisLog = 1..Len(redisLog)
        /\ Len(redisLog') = n /\ DOMAIN redisLog' = 1..n /\ IsLog(redisLog')
        /\ \A i \in 1..Len(redisLog) : redisLog'[i] = redisLog[i]
        /\ redisLog'[n] = e /\ n \in Nat
    BY LongerLog DEF RedisTypes
  <1>2. \A i \in DOMAIN redisLog' : i = n \/ (i \in DOMAIN redisLog /\ redisLog'[i] = redisLog[i])
    BY <1>1
  <1>3. \A i \in DOMAIN redisLog : i # n /\ i \in DOMAIN redisLog' /\ redisLog'[i] = redisLog[i]
    BY <1>1
  <1>4. \A i \in DOMAIN redisLog' : redisLog'[i].conn \in Conns
    BY <1>1, <1>2 DEF RedisTypes
  <1>5. n \notin Mine(c) /\ Mine(c)' = Mine(c) \cup {n}
    BY <1>1, <1>2, <1>3 DEF Mine
  <1>6. \A d \in Conns : d # c => Mine(d)' = Mine(d)
    BY <1>1, <1>2, <1>3 DEF Mine
  <1>7. Earlier(n)' = Mine(c) /\ Later(n)' = {}
    <2>1. 1..(n - 1) = DOMAIN redisLog /\ (n + 1)..n = {}
      BY <1>1
    <2>2. Earlier(n)' = {j \in 1..(n - 1) : redisLog'[j].conn = redisLog'[n].conn}
      BY DEF Earlier
    <2>3. Later(n)' = {j \in (n + 1)..Len(redisLog') : redisLog'[j].conn = redisLog'[n].conn}
      BY DEF Later
    <2>4. Earlier(n)' = Mine(c)
      BY <1>1, <1>3, <2>1, <2>2 DEF Mine
    <2>. QED  BY <1>1, <2>1, <2>3, <2>4
  <1>8. ASSUME NEW i \in DOMAIN redisLog
        PROVE  /\ Earlier(i)' = Earlier(i)
               /\ i \in Mine(c) => Later(i)' = Later(i) \cup {n}
               /\ i \notin Mine(c) => Later(i)' = Later(i)
    <2>1. /\ Earlier(i)' = {j \in 1..(i - 1) : redisLog'[j].conn = redisLog'[i].conn}
          /\ Later(i)' = {j \in (i + 1)..n : redisLog'[j].conn = redisLog'[i].conn}
      BY <1>1 DEF Earlier, Later
    <2>2. redisLog'[i] = redisLog[i] /\ i \in 1..Len(redisLog)
      BY <1>1
    <2>3. 1..(i - 1) \subseteq 1..Len(redisLog)
      BY <1>1, <2>2
    <2>4. Earlier(i)' = Earlier(i)
      BY <1>1, <2>1, <2>2, <2>3 DEF Earlier
    <2>5. \A j \in (i + 1)..n : j = n \/ (j \in (i + 1)..Len(redisLog) /\ redisLog'[j] = redisLog[j])
      BY <1>1, <2>2
    <2>6. n \in (i + 1)..n /\ (i + 1)..Len(redisLog) \subseteq (i + 1)..n /\ n \notin (i + 1)..Len(redisLog)
      BY <1>1, <2>2
    <2>7. i \in Mine(c) <=> redisLog[i].conn = c
      BY DEF Mine
    <2>8. CASE redisLog[i].conn = c
      <3>1. Later(i)' = Later(i) \cup {n}
        BY <1>1, <2>1, <2>2, <2>5, <2>6, <2>8 DEF Later
      <3>. QED  BY <2>4, <2>7, <2>8, <3>1
    <2>9. CASE redisLog[i].conn # c
      <3>1. Later(i)' = Later(i)
        BY <1>1, <2>1, <2>2, <2>5, <2>6, <2>9 DEF Later
      <3>. QED  BY <2>4, <2>7, <2>9, <3>1
    <2>. QED  BY <2>8, <2>9
  <1>9. Emitted(c, e, n)
    <2>1. \A i \in DOMAIN redisLog : i \in Nat /\ i < n
      BY <1>1
    <2>. QED  BY <1>1, <1>3, <1>4, <1>5, <1>6, <2>1 DEF Emitted, Kept
  <1>. QED  BY <1>7, <1>8, <1>9 DEF Around

\* A connection that a step leaves alone.
LEMMA Elsewhere ==
  ASSUME NEW d, ConnInv(d), redisAt'[d] = redisAt[d], wire'[d] = wire[d], cfgDir'[d] = cfgDir[d],
         cmds'[d] = cmds[d], d \in closed => d \in closed', Mine(d)' = Mine(d),
         \A j \in Mine(d) : redisLog'[j] = redisLog[j]
  PROVE  ConnInv(d)'
  <1>1. HandlerInv(d)'
    BY DEF ConnInv, HandlerInv
  <1>2. DirInv(d)'
    <2>1. SetsDir(Mine(d))' = SetsDir(Mine(d))
      BY DEF SetsDir
    <2>2. \A j \in SetsDir(Mine(d)) : redisLog'[j] = redisLog[j]
      BY DEF SetsDir
    <2>. QED  BY <2>1, <2>2 DEF ConnInv, DirInv
  <1>3. CutInv(d)'
    BY DEF ConnInv, CutInv, Live, IsLog
  <1>. QED  BY <1>1, <1>2, <1>3 DEF ConnInv

\* An event that fits what its connection has told so far leaves all told.
Fits(c, e) ==
  /\ e.conn = c
  /\ e.type = "connection" <=> Mine(c) = {}
  /\ e.type = "end" => Cardinality(Mine(c)) <= MaxCmds + 1
  /\ e.cmd.name = "SAVE" =>
       (e.chain = "rce_payload_write_commit" <=>
          \E j \in SetsDir(Mine(c)) :
            redisLog[j].cmd.val # "" /\ \A k \in SetsDir(Mine(c)) : k <= j)
  /\ \A j \in Mine(c) : redisLog[j].cmd.val = "part" => e.type = "end"

LEMMA EventFits ==
  ASSUME RedisInv, NEW c \in Conns, NEW e, redisAt[c] # "ended", Fits(c, e),
         redisLog' = Append(redisLog, e)
  PROVE  \A i \in DOMAIN redisLog' : EventTold(i)'
  <1>1. PICK n : n = Len(redisLog) + 1
    OBVIOUS
  <1>2. RedisTypes /\ ConnInv(c)
    BY DEF RedisInv
  <1>3. Emitted(c, e, n) /\ Around(c, n)
    <2>1. e.conn = c
      BY DEF Fits
    <2>. QED  BY <1>1, <1>2, <2>1, EmitLemma
  <1>4. /\ Len(redisLog) \in Nat /\ DOMAIN redisLog = 1..Len(redisLog) /\ DOMAIN redisLog' = 1..n
        /\ n = Len(redisLog) + 1 /\ n \in Nat /\ redisLog'[n] = e
    BY <1>3 DEF Emitted
  <1>5. Kept
    BY <1>3 DEF Emitted
  <1>6. EventTold(n)'
    <2>1. \A j \in Mine(c) : redisLog'[j] = redisLog[j]
      BY <1>5 DEF Mine, Kept
    <2>2. Earlier(n)' = Mine(c) /\ Later(n)' = {}
      BY <1>3 DEF Around
    <2>3. SetsDir(Earlier(n))' = SetsDir(Mine(c))
      <3>1. SetsDir(Earlier(n))' = {j \in Earlier(n)' : redisLog'[j].cmd.name = "CONFIG SET dir"}
        BY DEF SetsDir
      <3>. QED  BY <2>1, <2>2, <3>1 DEF SetsDir
    <2>4. \A j \in SetsDir(Mine(c)) : redisLog'[j] = redisLog[j]
      BY <2>1 DEF SetsDir
    <2>. QED  BY <1>4, <2>2, <2>3, <2>4 DEF EventTold, Fits
  <1>7. ASSUME NEW i \in DOMAIN redisLog PROVE EventTold(i)'
    <2>1. EventTold(i) /\ redisLog'[i] = redisLog[i]
      BY <1>5 DEF RedisInv, Kept
    <2>2. Earlier(i)' = Earlier(i)
      BY <1>3 DEF Around
    <2>3. \A j \in Earlier(i) : redisLog'[j] = redisLog[j]
      <3>1. \A j \in Earlier(i) : j \in DOMAIN redisLog
        <4>1. i \in 1..Len(redisLog) /\ \A j \in 1..(i - 1) : j \in 1..Len(redisLog)
          BY <1>4
        <4>. QED  BY <1>4, <4>1 DEF Earlier
      <3>. QED  BY <1>5, <3>1 DEF Kept
    <2>4. SetsDir(Earlier(i))' = SetsDir(Earlier(i)) /\ \A j \in SetsDir(Earlier(i)) : redisLog'[j] = redisLog[j]
      BY <2>2, <2>3 DEF SetsDir
    <2>5. \A j \in Later(i) : redisLog'[j] = redisLog[j]
      <3>1. \A j \in Later(i) : j \in DOMAIN redisLog
        <4>1. i \in 1..Len(redisLog) /\ \A j \in (i + 1)..Len(redisLog) : j \in 1..Len(redisLog)
          BY <1>4
        <4>. QED  BY <1>4, <4>1 DEF Later
      <3>. QED  BY <1>5, <3>1 DEF Kept
    <2>6. i \in Mine(c) => redisLog[i].type # "end"
      BY <1>2 DEF ConnInv, HandlerInv, Stages
    <2>7. redisLog[i].type = "end" => Later(i)' = Later(i)
      BY <1>3, <2>6 DEF Around
    <2>8. ASSUME redisLog[i].cmd.val = "part", NEW j \in Later(i)' PROVE redisLog'[j].type = "end"
      <3>1. CASE j \in Later(i)
        BY <2>1, <2>5, <2>8, <3>1 DEF EventTold
      <3>2. CASE j \notin Later(i)
        <4>1. i \in Mine(c) /\ j = n
          BY <1>3, <2>8, <3>2 DEF Around
        <4>. QED  BY <1>4, <2>8, <4>1 DEF Fits
      <3>. QED  BY <3>1, <3>2
    <2>. QED  BY <2>1, <2>2, <2>4, <2>7, <2>8 DEF EventTold
  <1>. QED
    <2>1. \A i \in DOMAIN redisLog' : i = n \/ i \in DOMAIN redisLog
      BY <1>4
    <2>2. ASSUME NEW i \in DOMAIN redisLog' PROVE EventTold(i)'
      BY <1>6, <1>7, <2>1
    <2>. QED  BY <2>2

\* A step of one connection's client or handler.
OnlyOf(c) ==
  /\ redisAt' \in [Conns -> Stages] /\ DOMAIN wire' = Conns
  /\ DOMAIN cfgDir' = Conns /\ cmds' \in [Conns -> Nat]
  /\ closed \subseteq closed' /\ closed' \subseteq Conns
  /\ \A d \in Conns : d # c => /\ redisAt'[d] = redisAt[d] /\ wire'[d] = wire[d]
                               /\ cfgDir'[d] = cfgDir[d] /\ cmds'[d] = cmds[d]

LEMMA OneEmits ==
  ASSUME RedisInv, NEW c \in Conns, NEW e, redisAt[c] # "ended", Fits(c, e),
         redisLog' = Append(redisLog, e), OnlyOf(c), ConnInv(c)'
  PROVE  RedisInv'
  <1>1. PICK n : n = Len(redisLog) + 1
    OBVIOUS
  <1>2. Emitted(c, e, n)
    <2>1. e.conn = c /\ RedisTypes
      BY DEF Fits, RedisInv
    <2>. QED  BY <1>1, <2>1, EmitLemma
  <1>3. RedisTypes'
    BY <1>2 DEF Emitted, OnlyOf, RedisTypes
  <1>4. ASSUME NEW d \in Conns, d # c PROVE ConnInv(d)'
    <2>1. /\ redisAt'[d] = redisAt[d] /\ wire'[d] = wire[d] /\ cfgDir'[d] = cfgDir[d]
          /\ cmds'[d] = cmds[d] /\ (d \in closed => d \in closed')
      BY <1>4 DEF OnlyOf
    <2>2. Mine(d)' = Mine(d)
      BY <1>2, <1>4 DEF Emitted
    <2>3. \A j \in Mine(d) : redisLog'[j] = redisLog[j]
      BY <1>2 DEF Emitted, Kept, Mine
    <2>4. ConnInv(d)
      BY DEF RedisInv
    <2>. QED  BY <2>1, <2>2, <2>3, <2>4, Elsewhere
  <1>5. \A d \in Conns : ConnInv(d)'
    BY <1>4
  <1>6. \A i \in DOMAIN redisLog' : EventTold(i)'
    BY EventFits
  <1>. QED  BY <1>3, <1>5, <1>6 DEF RedisInv

LEMMA OneIsQuiet ==
  ASSUME RedisInv, NEW c \in Conns, redisLog' = redisLog, OnlyOf(c), ConnInv(c)'
  PROVE  RedisInv'
  <1>1. RedisTypes'
    BY DEF RedisInv, OnlyOf, RedisTypes, IsLog
  <1>2. ASSUME NEW d \in Conns, d # c PROVE ConnInv(d)'
    <2>1. /\ redisAt'[d] = redisAt[d] /\ wire'[d] = wire[d] /\ cfgDir'[d] = cfgDir[d]
          /\ cmds'[d] = cmds[d] /\ (d \in closed => d \in closed')
      BY <1>2 DEF OnlyOf
    <2>2. Mine(d)' = Mine(d)
      BY DEF Mine
    <2>3. ConnInv(d)
      BY DEF RedisInv
    <2>. QED  BY <2>1, <2>2, <2>3, Elsewhere
  <1>3. \A d \in Conns : ConnInv(d)'
    BY <1>2
  <1>4. ASSUME NEW i \in DOMAIN redisLog' PROVE EventTold(i)'
    <2>1. EventTold(i)
      BY DEF RedisInv
    <2>2. Earlier(i)' = Earlier(i) /\ Later(i)' = Later(i)
      BY DEF Earlier, Later
    <2>3. SetsDir(Earlier(i))' = SetsDir(Earlier(i))
      BY <2>2 DEF SetsDir
    <2>. QED  BY <2>1, <2>2, <2>3 DEF EventTold
  <1>. QED  BY <1>1, <1>3, <1>4 DEF RedisInv

-----------------------------------------------------------------------------
\* What can be taken from the front of a log.
LEMMA ShorterLog ==
  ASSUME NEW s, IsLog(s), Len(s) # 0
  PROVE  /\ IsLog(Tail(s)) /\ Len(s) \in Nat /\ Len(s) >= 1 /\ Len(Tail(s)) = Len(s) - 1
         /\ DOMAIN s = 1..Len(s) /\ DOMAIN Tail(s) = 1..(Len(s) - 1)
         /\ Head(s) = s[1] /\ \A i \in 1..(Len(s) - 1) : Tail(s)[i] = s[i + 1]
  <1>. DEFINE S == {s[i] : i \in DOMAIN s}
  <1>1. s \in Seq(S)
    BY DEF IsLog
  <1>. HIDE DEF S
  <1>2. /\ Tail(s) \in Seq(S) /\ Len(s) \in Nat /\ Len(s) >= 1 /\ Len(Tail(s)) = Len(s) - 1
        /\ DOMAIN s = 1..Len(s) /\ DOMAIN Tail(s) = 1..(Len(s) - 1)
        /\ Head(s) = s[1] /\ \A i \in 1..(Len(s) - 1) : Tail(s)[i] = s[i + 1]
    BY <1>1
  <1>3. IsLog(Tail(s))
    <2>. DEFINE t == Tail(s)
    <2>1. t \in Seq(S)
      BY <1>2
    <2>. HIDE DEF t
    <2>2. t \in Seq({t[i] : i \in DOMAIN t})
      BY <2>1
    <2>. QED  BY <2>2 DEF IsLog, t
  <1>. QED  BY <1>2, <1>3

\* Frames are taken from the wire in their order, so one that was cut short is
\* still the last.
LEMMA CutTail ==
  ASSUME NEW w, IsLog(w), Len(w) # 0, CutLast(w)
  PROVE  /\ IsLog(Tail(w)) /\ CutLast(Tail(w))
         /\ \A i \in DOMAIN Tail(w) : \E j \in DOMAIN w : Tail(w)[i] = w[j]
         /\ 1 \in DOMAIN w /\ Head(w) = w[1]
         /\ Head(w).cmd.val = "part" => Tail(w) = <<>>
  <1>. DEFINE t == Tail(w)
  <1>1. /\ IsLog(t) /\ Len(w) \in Nat /\ Len(w) >= 1 /\ Len(t) = Len(w) - 1
        /\ DOMAIN w = 1..Len(w) /\ DOMAIN t = 1..(Len(w) - 1)
        /\ Head(w) = w[1] /\ \A i \in 1..(Len(w) - 1) : t[i] = w[i + 1]
    BY ShorterLog
  <1>. HIDE DEF t
  <1>0. Len(w) \in Nat /\ Len(t) = Len(w) - 1
    BY <1>1
  <1>2. ASSUME NEW i \in DOMAIN t PROVE /\ t[i] = w[i + 1] /\ i + 1 \in DOMAIN w
                                        /\ t[i].cmd.val = "part" => i = Len(t)
    <2>1. i \in Nat /\ i + 1 \in 1..Len(w) /\ t[i] = w[i + 1]
      BY <1>1
    <2>2. i + 1 \in DOMAIN w
      BY <1>1, <2>1
    <2>3. w[i + 1].cmd.val = "part" => i + 1 = Len(w)
      BY <2>2 DEF CutLast
    <2>. QED  BY <1>1, <2>1, <2>2, <2>3
  <1>3. CutLast(t)
    BY <1>2 DEF CutLast
  <1>4. 1 \in DOMAIN w
    BY <1>1
  <1>5. ASSUME Head(w).cmd.val = "part" PROVE t = <<>>
    <2>1. Len(w) = 1
      BY <1>1, <1>4, <1>5 DEF CutLast
    <2>2. Len(t) = 0
      BY <1>0, <2>1
    <2>3. t \in Seq({t[i] : i \in DOMAIN t})
      BY <1>1 DEF IsLog
    <2>. QED  BY <2>2, <2>3
  <1>6. /\ IsLog(t) /\ CutLast(t)
        /\ \A i \in DOMAIN t : \E j \in DOMAIN w : t[i] = w[j]
        /\ 1 \in DOMAIN w /\ Head(w) = w[1]
        /\ Head(w).cmd.val = "part" => t = <<>>
    BY <1>1, <1>2, <1>3, <1>4, <1>5
  <1>. QED  BY <1>6 DEF t

\* The directory a handler remembers is the one the log shows set last.
LEMMA DirKept ==
  ASSUME NEW c, NEW e, NEW n, Emitted(c, e, n), DirInv(c), cfgDir'[c] = cfgDir[c],
         e.cmd.name # "CONFIG SET dir"
  PROVE  DirInv(c)'
  <1>1. /\ Mine(c)' = Mine(c) \cup {n} /\ redisLog'[n].cmd.name # "CONFIG SET dir"
        /\ \A j \in Mine(c) : redisLog'[j] = redisLog[j]
    BY DEF Emitted, Kept, Mine
  <1>2. SetsDir(Mine(c))' = SetsDir(Mine(c)) /\ \A j \in SetsDir(Mine(c)) : redisLog'[j] = redisLog[j]
    BY <1>1 DEF SetsDir
  <1>. QED  BY <1>2 DEF DirInv

LEMMA NewestLemma ==
  ASSUME NEW M, NEW n \in Nat, \A k \in M : k \in Nat /\ k < n
  PROVE  /\ \A k \in M \cup {n} : k \in Nat /\ k <= n
         /\ \A j \in M \cup {n} : n <= j => j = n
  OBVIOUS

LEMMA DirSet ==
  ASSUME NEW c, NEW e, NEW n, Emitted(c, e, n), cfgDir'[c] = e.cmd.val,
         e.cmd.name = "CONFIG SET dir"
  PROVE  DirInv(c)'
  <1>1. Mine(c)' = Mine(c) \cup {n} /\ redisLog'[n] = e
    BY DEF Emitted
  <1>5. n \in Nat /\ \A k \in Mine(c) : k \in Nat /\ k < n
    BY DEF Emitted, Mine
  <1>2. /\ n \in SetsDir(Mine(c))' /\ redisLog'[n].cmd.val = cfgDir'[c]
        /\ \A k \in SetsDir(Mine(c))' : k \in Nat /\ k <= n
    <2>1. SetsDir(Mine(c))' = {j \in Mine(c) \cup {n} : redisLog'[j].cmd.name = "CONFIG SET dir"}
      BY <1>1 DEF SetsDir
    <2>2. n \in SetsDir(Mine(c))' /\ redisLog'[n].cmd.val = cfgDir'[c]
      BY <1>1, <2>1
    <2>3. \A k \in Mine(c) \cup {n} : k \in Nat /\ k <= n
      BY <1>5, NewestLemma
    <2>. QED  BY <2>1, <2>2, <2>3
  <1>3. cfgDir'[c] # "" => \E j \in SetsDir(Mine(c))' :
                             redisLog'[j].cmd.val # "" /\ \A k \in SetsDir(Mine(c))' : k <= j
    BY <1>2
  <1>4. ASSUME NEW j \in SetsDir(Mine(c))', redisLog'[j].cmd.val # "", \A k \in SetsDir(Mine(c))' : k <= j
        PROVE  cfgDir'[c] # ""
    <2>1. SetsDir(Mine(c))' \subseteq Mine(c) \cup {n}
      BY <1>1 DEF SetsDir
    <2>2. j = n
      BY <1>2, <1>4, <1>5, <2>1, NewestLemma
    <2>. QED  BY <1>2, <1>4, <2>2
  <1>. QED  BY <1>3, <1>4 DEF DirInv

\* One more event of a connection that has told some.
LEMMA MineGrows ==
  ASSUME NEW c, NEW e, NEW n, Emitted(c, e, n)
  PROVE  /\ IsFiniteSet(Mine(c)) /\ Cardinality(Mine(c)) \in Nat
         /\ Cardinality(Mine(c)') = Cardinality(Mine(c)) + 1
         /\ n \in Mine(c)' /\ Mine(c)' # {} /\ \A k \in Mine(c)' : k <= n
         /\ \A j \in Mine(c)' : j = n \/ (j \in Mine(c) /\ redisLog'[j] = redisLog[j])
  <1>1. /\ Mine(c)' = Mine(c) \cup {n} /\ n \notin Mine(c) /\ n \in Nat
        /\ Mine(c) \subseteq 1..Len(redisLog) /\ Len(redisLog) \in Nat /\ n = Len(redisLog) + 1
        /\ \A j \in Mine(c) : redisLog'[j] = redisLog[j]
    BY DEF Emitted, Kept, Mine
  <1>2. IsFiniteSet(Mine(c)) /\ Cardinality(Mine(c)) \in Nat
    <2>1. IsFiniteSet(1..Len(redisLog))
      BY <1>1, FS_Interval
    <2>. QED  BY <1>1, <2>1, FS_Subset, FS_CardinalityType
  <1>3. Cardinality(Mine(c)') = Cardinality(Mine(c)) + 1
    BY <1>1, <1>2, FS_AddElement
  <1>4. \A k \in Mine(c)' : k <= n
    BY <1>1
  <1>. QED  BY <1>1, <1>2, <1>3, <1>4

LEMMA OneMoved ==
  ASSUME NEW f \in [Conns -> Stages], NEW c, NEW a \in Stages
  PROVE  /\ [f EXCEPT ![c] = a] \in [Conns -> Stages]
         /\ \A d \in Conns : d # c => [f EXCEPT ![c] = a][d] = f[d]
  OBVIOUS

Moves(c) ==
  /\ closed \subseteq closed' /\ closed' \subseteq Conns
  /\ \/ redisAt' = redisAt \/ redisAt' = [redisAt EXCEPT ![c] = "read"]
     \/ redisAt' = [redisAt EXCEPT ![c] = "reply"] \/ redisAt' = [redisAt EXCEPT ![c] = "ended"]
  /\ wire' = wire \/ \E w : wire' = [wire EXCEPT ![c] = w]
  /\ cfgDir' = cfgDir \/ \E d : cfgDir' = [cfgDir EXCEPT ![c] = d]
  /\ cmds' = cmds \/ \E k \in Nat : cmds' = [cmds EXCEPT ![c] = k]

LEMMA MovesAlone ==
  ASSUME RedisTypes, NEW c \in Conns, Moves(c)
  PROVE  OnlyOf(c)
  <1>1. redisAt' \in [Conns -> Stages] /\ \A d \in Conns : d # c => redisAt'[d] = redisAt[d]
    <2>1. redisAt \in [Conns -> Stages]
      BY DEF RedisTypes
    <2>2. /\ "read" \in Stages /\ "reply" \in Stages /\ "ended" \in Stages
      BY DEF Stages
    <2>3. redisAt' = redisAt \/ \E a \in Stages : redisAt' = [redisAt EXCEPT ![c] = a]
      BY <2>2, Zenon DEF Moves
    <2>. QED  BY <2>1, <2>3, OneMoved
  <1>2. DOMAIN wire' = Conns /\ \A d \in Conns : d # c => wire'[d] = wire[d]
    BY DEF RedisTypes, Moves
  <1>3. DOMAIN cfgDir' = Conns /\ \A d \in Conns : d # c => cfgDir'[d] = cfgDir[d]
    BY DEF RedisTypes, Moves
  <1>4. cmds' \in [Conns -> Nat] /\ \A d \in Conns : d # c => cmds'[d] = cmds[d]
    BY DEF RedisTypes, Moves
  <1>. QED  BY <1>1, <1>2, <1>3, <1>4 DEF OnlyOf, Moves

LEMMA ConnectStep ==
  ASSUME RedisInv, NEW c \in Conns, RedisConnect(c)
  PROVE  RedisInv'
  <1>. DEFINE e == [conn |-> c, type |-> "connection", cmd |-> NoCommand, chain |-> ""]
  <1>1. /\ redisAt[c] = "idle" /\ redisAt' = [redisAt EXCEPT ![c] = "read"]
        /\ redisLog' = Append(redisLog, e) /\ UNCHANGED <<wire, closed, cfgDir, cmds>>
    BY DEF RedisConnect, RedisEmit
  <1>2. /\ e.conn = c /\ e.type = "connection" /\ e.cmd.name = "none" /\ e.cmd.val = ""
    BY DEF NoCommand
  <1>. HIDE DEF e
  <1>3. PICK n : n = Len(redisLog) + 1
    OBVIOUS
  <1>4. RedisTypes /\ HandlerInv(c) /\ DirInv(c) /\ CutInv(c)
    BY DEF RedisInv, ConnInv
  <1>5. Emitted(c, e, n)
    BY <1>1, <1>2, <1>3, <1>4, EmitLemma
  <1>6. Mine(c) = {} /\ wire[c] = <<>> /\ cmds[c] \in 0..MaxCmds
    BY <1>1, <1>4 DEF HandlerInv, Stages
  <1>7. /\ Cardinality(Mine(c)') = 1 /\ Mine(c)' # {}
        /\ \A j \in Mine(c)' : redisLog'[j] = e
    <2>1. Cardinality(Mine(c)) = 0
      BY <1>6, FS_EmptySet
    <2>2. redisLog'[n] = e
      BY <1>5 DEF Emitted
    <2>3. /\ Cardinality(Mine(c)') = 1 /\ Mine(c)' # {}
          /\ \A j \in Mine(c)' : j = n \/ (j \in Mine(c) /\ redisLog'[j] = redisLog[j])
      BY <1>5, <2>1, MineGrows
    <2>. QED  BY <1>6, <2>2, <2>3
  <1>8. redisAt'[c] = "read" /\ cmds'[c] = cmds[c] /\ wire'[c] = wire[c] /\ cfgDir'[c] = cfgDir[c]
    BY <1>1, <1>4 DEF RedisTypes
  <1>9. HandlerInv(c)'
    <2>1. 1 <= cmds[c] + 1 /\ \A j \in Mine(c)' : redisLog'[j].type # "end"
      <3>1. 1 <= cmds[c] + 1
        BY <1>6, CommandsAssumption
      <3>. QED  BY <1>2, <1>7, <3>1
    <2>. QED  BY <1>6, <1>7, <1>8, <2>1 DEF HandlerInv, Stages
  <1>10. DirInv(c)'
    BY <1>2, <1>4, <1>5, <1>8, DirKept
  <1>11. CutInv(c)'
    <2>1. \A j \in Mine(c)' : redisLog'[j].cmd.val # "part"
      BY <1>2, <1>7
    <2>2. IsLog(wire'[c]) /\ CutLast(wire'[c]) /\ DOMAIN wire'[c] = {}
      BY <1>4, <1>6, <1>8 DEF CutInv
    <2>. QED  BY <2>1, <2>2 DEF CutInv, IsLog
  <1>12. Fits(c, e)
    BY <1>2, <1>6 DEF Fits
  <1>13. OnlyOf(c)
    <2>1. closed' = closed /\ cfgDir' = cfgDir /\ cmds' = cmds /\ closed \subseteq Conns
      BY <1>1, <1>4 DEF RedisTypes
    <2>. QED  BY <1>1, <1>4, <2>1, MovesAlone DEF Moves
  <1>. QED  BY <1>1, <1>9, <1>10, <1>11, <1>12, <1>13, OneEmits DEF ConnInv

LEMMA EndStep ==
  ASSUME RedisInv, NEW c \in Conns, End(c), redisAt[c] \in {"read", "reply"},
         wire'[c] = wire[c] \/ (Len(wire[c]) # 0 /\ wire'[c] = Tail(wire[c])),
         wire' = wire \/ \E w : wire' = [wire EXCEPT ![c] = w]
  PROVE  RedisInv'
  <1>. DEFINE e == [conn |-> c, type |-> "end", cmd |-> NoCommand, chain |-> ""]
  <1>1. /\ redisAt' = [redisAt EXCEPT ![c] = "ended"]
        /\ redisLog' = Append(redisLog, e) /\ UNCHANGED <<closed, cfgDir, cmds>>
    BY DEF End, RedisEmit
  <1>2. /\ e.conn = c /\ e.type = "end" /\ e.cmd.name = "none" /\ e.cmd.val = ""
    BY DEF NoCommand
  <1>. HIDE DEF e
  <1>3. PICK n : n = Len(redisLog) + 1
    OBVIOUS
  <1>4. RedisTypes /\ HandlerInv(c) /\ DirInv(c) /\ CutInv(c)
    BY DEF RedisInv, ConnInv
  <1>5. Emitted(c, e, n)
    BY <1>1, <1>2, <1>3, <1>4, EmitLemma
  <1>6. Mine(c) # {} /\ cmds[c] \in 0..MaxCmds /\ Cardinality(Mine(c)) <= cmds[c] + 1
    BY <1>4 DEF HandlerInv, Stages
  <1>7. /\ n \in Mine(c)' /\ Mine(c)' # {} /\ redisLog'[n] = e /\ \A k \in Mine(c)' : k <= n
        /\ \A j \in Mine(c)' : j = n \/ (j \in Mine(c) /\ redisLog'[j] = redisLog[j])
        /\ Cardinality(Mine(c)) \in Nat
    <2>1. redisLog'[n] = e
      BY <1>5 DEF Emitted
    <2>. QED  BY <1>5, <2>1, MineGrows
  <1>8. redisAt'[c] = "ended" /\ cmds'[c] = cmds[c] /\ cfgDir'[c] = cfgDir[c]
    BY <1>1, <1>4 DEF RedisTypes
  <1>9. HandlerInv(c)'
    BY <1>2, <1>6, <1>7, <1>8 DEF HandlerInv, Stages
  <1>10. DirInv(c)'
    BY <1>2, <1>4, <1>5, <1>8, DirKept
  <1>11. CutInv(c)'
    <2>1. /\ IsLog(wire'[c]) /\ CutLast(wire'[c])
          /\ \A i \in DOMAIN wire'[c] : wire'[c][i].cmd.val = "part" => c \in closed
      <3>1. CASE wire'[c] = wire[c]
        BY <1>4, <3>1 DEF CutInv
      <3>2. CASE Len(wire[c]) # 0 /\ wire'[c] = Tail(wire[c])
        <4>1. /\ IsLog(Tail(wire[c])) /\ CutLast(Tail(wire[c]))
              /\ \A i \in DOMAIN Tail(wire[c]) : \E j \in DOMAIN wire[c] : Tail(wire[c])[i] = wire[c][j]
          BY <1>4, <3>2, CutTail DEF CutInv
        <4>. QED  BY <1>4, <3>2, <4>1 DEF CutInv
      <3>. QED  BY <3>1, <3>2
    <2>2. \A j \in Mine(c)' : redisLog'[j].cmd.val = "part" => c \in closed
      BY <1>2, <1>4, <1>7 DEF CutInv
    <2>. QED  BY <1>1, <1>8, <2>1, <2>2 DEF CutInv, Live, IsLog
  <1>12. Fits(c, e)
    <2>1. Cardinality(Mine(c)) <= MaxCmds + 1
      BY <1>6, <1>7, CommandsAssumption
    <2>. QED  BY <1>2, <1>6, <2>1 DEF Fits
  <1>13. OnlyOf(c)
    <2>1. closed' = closed /\ cfgDir' = cfgDir /\ cmds' = cmds /\ closed \subseteq Conns
      BY <1>1, <1>4 DEF RedisTypes
    <2>. QED  BY <1>1, <1>4, <2>1, MovesAlone DEF Moves
  <1>14. redisAt[c] # "ended"
    OBVIOUS
  <1>. QED  BY <1>1, <1>9, <1>10, <1>11, <1>12, <1>13, <1>14, OneEmits DEF ConnInv

LEMMA RecordStep ==
  ASSUME RedisInv, NEW c \in Conns, Record(c)
  PROVE  RedisInv'
  <1>. DEFINE cmd == Head(wire[c]).cmd
              dir == DirAfter(cfgDir[c], cmd)
              e == [conn |-> c, type |-> "command", cmd |-> cmd, chain |-> RedisChainOf(cmd, dir)]
  <1>1. /\ redisAt[c] = "read" /\ redisAt' = [redisAt EXCEPT ![c] = "reply"]
        /\ redisLog' = Append(redisLog, e) /\ closed' = closed
        /\ cfgDir' = [cfgDir EXCEPT ![c] = dir] /\ cmds' = [cmds EXCEPT ![c] = @ + 1]
        /\ wire' = [wire EXCEPT ![c] = Tail(@)] /\ wire[c] # <<>> /\ cmds[c] < MaxCmds
    BY DEF Record, RedisEmit
  <1>2. /\ e.conn = c /\ e.type = "command" /\ e.cmd = cmd /\ e.chain = RedisChainOf(cmd, dir)
    OBVIOUS
  <1>3. PICK n : n = Len(redisLog) + 1
    OBVIOUS
  <1>4. RedisTypes /\ HandlerInv(c) /\ DirInv(c) /\ CutInv(c)
    BY DEF RedisInv, ConnInv
  <1>5. Emitted(c, e, n)
    <2>. HIDE DEF e
    <2>. QED  BY <1>1, <1>2, <1>3, <1>4, EmitLemma
  <1>. HIDE DEF e, cmd, dir
  <1>6. /\ Mine(c) # {} /\ cmds[c] \in 0..MaxCmds /\ Cardinality(Mine(c)) <= cmds[c] + 1
        /\ \A j \in Mine(c) : redisLog[j].type # "end"
    BY <1>1, <1>4 DEF HandlerInv, Stages
  <1>7. /\ Mine(c)' # {} /\ redisLog'[n] = e /\ Cardinality(Mine(c)) \in Nat
        /\ Cardinality(Mine(c)') = Cardinality(Mine(c)) + 1
        /\ \A j \in Mine(c)' : j = n \/ (j \in Mine(c) /\ redisLog'[j] = redisLog[j])
    <2>1. redisLog'[n] = e
      BY <1>5 DEF Emitted
    <2>. QED  BY <1>5, <2>1, MineGrows
  <1>8. redisAt'[c] = "reply" /\ cmds'[c] = cmds[c] + 1 /\ wire'[c] = Tail(wire[c]) /\ cfgDir'[c] = dir
    BY <1>1, <1>4 DEF RedisTypes
  <1>9. HandlerInv(c)'
    <2>1. \A j \in Mine(c)' : redisLog'[j].type # "end"
      BY <1>2, <1>6, <1>7
    <2>2. /\ cmds'[c] \in 0..MaxCmds /\ Cardinality(Mine(c)') <= cmds'[c] + 1
      BY <1>1, <1>6, <1>7, <1>8, CommandsAssumption
    <2>. QED  BY <1>7, <1>8, <2>1, <2>2 DEF HandlerInv, Stages
  <1>10. DirInv(c)'
    <2>1. CASE cmd.name = "CONFIG SET dir"
      <3>1. e.cmd.name = "CONFIG SET dir" /\ cfgDir'[c] = e.cmd.val
        BY <1>2, <1>8, <2>1 DEF dir, DirAfter
      <3>. QED  BY <1>5, <3>1, DirSet
    <2>2. CASE cmd.name # "CONFIG SET dir"
      <3>1. e.cmd.name # "CONFIG SET dir" /\ cfgDir'[c] = cfgDir[c]
        BY <1>2, <1>8, <2>2 DEF dir, DirAfter
      <3>. QED  BY <1>4, <1>5, <3>1, DirKept
    <2>. QED  BY <2>1, <2>2
  <1>11. Len(wire[c]) # 0
    <2>1. wire[c] \in Seq({wire[c][i] : i \in DOMAIN wire[c]})
      BY <1>4 DEF CutInv, IsLog
    <2>. QED  BY <1>1, <2>1
  <1>12. /\ IsLog(Tail(wire[c])) /\ CutLast(Tail(wire[c]))
         /\ \A i \in DOMAIN Tail(wire[c]) : \E j \in DOMAIN wire[c] : Tail(wire[c])[i] = wire[c][j]
         /\ 1 \in DOMAIN wire[c] /\ cmd = wire[c][1].cmd
         /\ cmd.val = "part" => Tail(wire[c]) = <<>>
    <2>1. IsLog(wire[c]) /\ CutLast(wire[c])
      BY <1>4 DEF CutInv
    <2>. QED  BY <1>11, <2>1, CutTail DEF cmd
  <1>13. \A j \in Mine(c) : redisLog[j].cmd.val # "part"
    <2>1. Live(c) /\ wire[c] # <<>>
      BY <1>1 DEF Live
    <2>. QED  BY <1>4, <2>1 DEF CutInv
  <1>14. CutInv(c)'
    <2>1. \A i \in DOMAIN wire'[c] : wire'[c][i].cmd.val = "part" => c \in closed
      BY <1>4, <1>8, <1>12 DEF CutInv
    <2>2. cmd.val = "part" => c \in closed /\ wire'[c] = <<>>
      BY <1>4, <1>8, <1>12 DEF CutInv
    <2>3. ASSUME NEW j \in Mine(c)', redisLog'[j].cmd.val = "part" PROVE c \in closed /\ wire'[c] = <<>>
      <3>1. j = n
        BY <1>7, <1>13, <2>3
      <3>2. cmd.val = "part"
        BY <1>2, <1>7, <2>3, <3>1
      <3>. QED  BY <2>2, <3>2
    <2>4. IsLog(wire'[c]) /\ CutLast(wire'[c])
      BY <1>8, <1>12
    <2>. QED  BY <1>1, <2>1, <2>3, <2>4 DEF CutInv, IsLog
  <1>15. Fits(c, e)
    <2>1. ASSUME cmd.name = "SAVE"
          PROVE  e.chain = "rce_payload_write_commit" <=> cfgDir[c] # ""
      BY <1>2, <2>1 DEF dir, DirAfter, RedisChainOf
    <2>2. e.cmd.name = "SAVE" =>
            (e.chain = "rce_payload_write_commit" <=>
               \E j \in SetsDir(Mine(c)) :
                 redisLog[j].cmd.val # "" /\ \A k \in SetsDir(Mine(c)) : k <= j)
      BY <1>2, <1>4, <2>1 DEF DirInv
    <2>. QED  BY <1>2, <1>6, <1>13, <2>2 DEF Fits
  <1>16. OnlyOf(c)
    <2>1. closed' = closed /\ closed \subseteq Conns /\ cmds[c] + 1 \in Nat
      BY <1>1, <1>4 DEF RedisTypes
    <2>2. \E k \in Nat : cmds' = [cmds EXCEPT ![c] = k]
      BY <1>1, <2>1
    <2>3. \E w : wire' = [wire EXCEPT ![c] = w]
      BY <1>1
    <2>4. \E d : cfgDir' = [cfgDir EXCEPT ![c] = d]
      BY <1>1
    <2>. QED  BY <1>1, <1>4, <2>1, <2>2, <2>3, <2>4, MovesAlone DEF Moves
  <1>17. redisAt[c] # "ended"
    BY <1>1
  <1>. QED  BY <1>1, <1>9, <1>10, <1>14, <1>15, <1>16, <1>17, OneEmits DEF ConnInv

\* What the client adds to the wire, while it is there, is not behind a frame
\* that was cut short.
LEMMA WireGrows ==
  ASSUME NEW c, NEW f, CutInv(c), c \notin closed, wire'[c] = Append(wire[c], f),
         redisLog' = redisLog, closed \subseteq closed', f.cmd.val = "part" => c \in closed'
  PROVE  CutInv(c)'
  <1>. DEFINE w == wire[c]
  <1>1. /\ IsLog(w) /\ \A i \in DOMAIN w : w[i].cmd.val # "part"
        /\ \A j \in Mine(c) : redisLog[j].cmd.val # "part"
    BY DEF CutInv
  <1>2. /\ IsLog(wire'[c]) /\ Len(w) \in Nat /\ Len(wire'[c]) = Len(w) + 1
        /\ DOMAIN w = 1..Len(w) /\ DOMAIN wire'[c] = 1..(Len(w) + 1)
        /\ \A i \in 1..Len(w) : wire'[c][i] = w[i]
        /\ wire'[c][Len(w) + 1] = f
    <2>1. IsLog(wire[c])
      BY <1>1
    <2>. QED  BY <2>1, LongerLog
  <1>. HIDE DEF w
  <1>3. \A i \in DOMAIN wire'[c] : i = Len(w) + 1 \/ (i \in DOMAIN w /\ wire'[c][i] = w[i])
    BY <1>2
  <1>4. CutLast(wire'[c]) /\ \A i \in DOMAIN wire'[c] : wire'[c][i].cmd.val = "part" => c \in closed'
    BY <1>1, <1>2, <1>3 DEF CutLast
  <1>5. Mine(c)' = Mine(c)
    BY DEF Mine
  <1>6. \A j \in Mine(c)' : redisLog'[j].cmd.val # "part"
    BY <1>1, <1>5
  <1>. QED  BY <1>2, <1>4, <1>6 DEF CutInv, IsLog

\* The rest of what is known of a connection, when nothing is told of it.
LEMMA QuietKeeps ==
  ASSUME NEW c, HandlerInv(c), DirInv(c), redisLog' = redisLog, cmds'[c] = cmds[c],
         cfgDir'[c] = cfgDir[c], redisAt[c] # "idle",
         redisAt'[c] = redisAt[c] \/ (redisAt[c] = "reply" /\ redisAt'[c] = "read")
  PROVE  HandlerInv(c)' /\ DirInv(c)'
  <1>1. Mine(c)' = Mine(c)
    BY DEF Mine
  <1>2. SetsDir(Mine(c))' = SetsDir(Mine(c))
    BY <1>1 DEF SetsDir
  <1>3. DirInv(c)'
    BY <1>2 DEF DirInv
  <1>4. HandlerInv(c)'
    BY <1>1 DEF HandlerInv, Stages
  <1>. QED  BY <1>3, <1>4

LEMMA SendStep ==
  ASSUME RedisInv, NEW c \in Conns, Send(c)
  PROVE  RedisInv'
  <1>1. /\ redisAt[c] # "idle" /\ c \notin closed
        /\ redisAt' = redisAt /\ closed' = closed /\ cfgDir' = cfgDir /\ cmds' = cmds
        /\ redisLog' = redisLog
    BY DEF Send
  <1>2. RedisTypes /\ HandlerInv(c) /\ DirInv(c) /\ CutInv(c)
    BY DEF RedisInv, ConnInv
  <1>3. PICK f \in {Command(cmd) : cmd \in Commands} \union {Blank, Broken} :
               wire' = [wire EXCEPT ![c] = Append(@, f)]
    BY DEF Send
  <1>4. f.cmd.val # "part"
    <2>1. CASE f = Blank \/ f = Broken
      <3>1. Blank.cmd.val = "" /\ Broken.cmd.val = ""
        BY DEF Blank, Broken, NoCommand
      <3>. QED  BY <2>1, <3>1
    <2>2. CASE f \in {Command(cmd) : cmd \in Commands}
      <3>1. PICK cmd \in Commands : f = Command(cmd)
        BY <2>2
      <3>2. f.cmd = cmd /\ cmd.val # "part"
        BY <3>1, CommandsAssumption DEF Command
      <3>. QED  BY <3>2
    <2>. QED  BY <1>3, <2>1, <2>2
  <1>5. wire'[c] = Append(wire[c], f)
    BY <1>2, <1>3 DEF RedisTypes
  <1>6. CutInv(c)'
    BY <1>1, <1>2, <1>4, <1>5, WireGrows
  <1>7. HandlerInv(c)' /\ DirInv(c)'
    BY <1>1, <1>2, QuietKeeps
  <1>8. OnlyOf(c)
    <2>1. closed \subseteq Conns
      BY <1>2 DEF RedisTypes
    <2>2. \E w : wire' = [wire EXCEPT ![c] = w]
      BY <1>3
    <2>. QED  BY <1>1, <1>2, <2>1, <2>2, MovesAlone DEF Moves
  <1>. QED  BY <1>1, <1>6, <1>7, <1>8, OneIsQuiet DEF ConnInv

LEMMA CloseStep ==
  ASSUME RedisInv, NEW c \in Conns, Close(c)
  PROVE  RedisInv'
  <1>1. /\ redisAt[c] # "idle" /\ c \notin closed
        /\ redisAt' = redisAt /\ closed' = closed \cup {c} /\ cfgDir' = cfgDir /\ cmds' = cmds
        /\ redisLog' = redisLog
    BY DEF Close
  <1>2. RedisTypes /\ HandlerInv(c) /\ DirInv(c) /\ CutInv(c)
    BY DEF RedisInv, ConnInv
  <1>3. wire' = wire \/ \E f : wire' = [wire EXCEPT ![c] = Append(wire[c], f)]
    BY DEF Close
  <1>4. CutInv(c)'
    <2>1. CASE wire' = wire
      <3>1. Mine(c)' = Mine(c) /\ wire'[c] = wire[c] /\ redisAt'[c] = redisAt[c]
        BY <1>1, <2>1 DEF Mine
      <3>. QED  BY <1>1, <1>2, <3>1 DEF CutInv, Live, IsLog
    <2>2. CASE \E f : wire' = [wire EXCEPT ![c] = Append(wire[c], f)]
      <3>1. PICK f : wire' = [wire EXCEPT ![c] = Append(wire[c], f)]
        BY <2>2
      <3>2. wire'[c] = Append(wire[c], f)
        BY <1>2, <3>1 DEF RedisTypes
      <3>. QED  BY <1>1, <1>2, <3>2, WireGrows
    <2>. QED  BY <1>3, <2>1, <2>2
  <1>5. HandlerInv(c)' /\ DirInv(c)'
    BY <1>1, <1>2, QuietKeeps
  <1>6. OnlyOf(c)
    <2>1. closed \subseteq closed' /\ closed' \subseteq Conns
      BY <1>1, <1>2 DEF RedisTypes
    <2>2. wire' = wire \/ \E w : wire' = [wire EXCEPT ![c] = w]
      BY <1>3
    <2>. QED  BY <1>1, <1>2, <2>1, <2>2, MovesAlone DEF Moves
  <1>. QED  BY <1>1, <1>4, <1>5, <1>6, OneIsQuiet DEF ConnInv

\* A wire that is a log and not empty has a first frame.
LEMMA SomeFrame ==
  ASSUME NEW w, IsLog(w), w # <<>>
  PROVE  Len(w) # 0
  <1>1. w \in Seq({w[i] : i \in DOMAIN w})
    BY DEF IsLog
  <1>. QED  BY <1>1

LEMMA SkipStep ==
  ASSUME RedisInv, NEW c \in Conns, Skip(c)
  PROVE  RedisInv'
  <1>1. /\ redisAt[c] = "read" /\ wire[c] # <<>> /\ wire' = [wire EXCEPT ![c] = Tail(@)]
        /\ redisAt' = redisAt /\ closed' = closed /\ cfgDir' = cfgDir /\ cmds' = cmds
        /\ redisLog' = redisLog
    BY DEF Skip
  <1>2. RedisTypes /\ HandlerInv(c) /\ DirInv(c) /\ CutInv(c)
    BY DEF RedisInv, ConnInv
  <1>3. wire'[c] = Tail(wire[c]) /\ Len(wire[c]) # 0
    <2>1. wire'[c] = Tail(wire[c])
      BY <1>1, <1>2 DEF RedisTypes
    <2>2. Len(wire[c]) # 0
      BY <1>1, <1>2, SomeFrame DEF CutInv
    <2>. QED  BY <2>1, <2>2
  <1>4. CutInv(c)'
    <2>1. /\ IsLog(wire'[c]) /\ CutLast(wire'[c])
          /\ \A i \in DOMAIN wire'[c] : \E j \in DOMAIN wire[c] : wire'[c][i] = wire[c][j]
      <3>1. IsLog(wire[c]) /\ CutLast(wire[c])
        BY <1>2 DEF CutInv
      <3>. QED  BY <1>3, <3>1, CutTail
    <2>2. \A i \in DOMAIN wire'[c] : wire'[c][i].cmd.val = "part" => c \in closed'
      BY <1>1, <1>2, <2>1 DEF CutInv
    <2>3. \A j \in Mine(c)' : redisLog'[j].cmd.val # "part"
      <3>1. Mine(c)' = Mine(c) /\ Live(c)
        BY <1>1 DEF Mine, Live
      <3>. QED  BY <1>1, <1>2, <3>1 DEF CutInv
    <2>. QED  BY <2>1, <2>2, <2>3 DEF CutInv, IsLog
  <1>5. HandlerInv(c)' /\ DirInv(c)'
    BY <1>1, <1>2, QuietKeeps
  <1>6. OnlyOf(c)
    <2>1. closed \subseteq Conns
      BY <1>2 DEF RedisTypes
    <2>2. \E w : wire' = [wire EXCEPT ![c] = w]
      BY <1>1
    <2>. QED  BY <1>1, <1>2, <2>1, <2>2, MovesAlone DEF Moves
  <1>. QED  BY <1>1, <1>4, <1>5, <1>6, OneIsQuiet DEF ConnInv

LEMMA ReplyStep ==
  ASSUME RedisInv, NEW c \in Conns, Reply(c)
  PROVE  RedisInv'
  <1>1. /\ redisAt[c] = "reply" /\ redisAt' = [redisAt EXCEPT ![c] = "read"]
        /\ wire' = wire /\ closed' = closed /\ cfgDir' = cfgDir /\ cmds' = cmds
        /\ redisLog' = redisLog
    BY DEF Reply
  <1>2. RedisTypes /\ HandlerInv(c) /\ DirInv(c) /\ CutInv(c)
    BY DEF RedisInv, ConnInv
  <1>3. redisAt'[c] = "read"
    BY <1>1, <1>2 DEF RedisTypes
  <1>4. CutInv(c)'
    <2>1. Mine(c)' = Mine(c) /\ Live(c)
      BY <1>1 DEF Mine, Live
    <2>. QED  BY <1>1, <1>2, <2>1 DEF CutInv, IsLog
  <1>5. HandlerInv(c)' /\ DirInv(c)'
    BY <1>1, <1>2, <1>3, QuietKeeps
  <1>6. OnlyOf(c)
    <2>1. closed \subseteq Conns
      BY <1>2 DEF RedisTypes
    <2>. QED  BY <1>1, <1>2, <2>1, MovesAlone DEF Moves
  <1>. QED  BY <1>1, <1>4, <1>5, <1>6, OneIsQuiet DEF ConnInv

LEMMA LeaveStep ==
  ASSUME RedisInv, NEW c \in Conns, Leave(c)
  PROVE  RedisInv'
  <1>1. redisAt[c] = "read" /\ End(c)
    BY DEF Leave
  <1>2. RedisTypes /\ CutInv(c)
    BY DEF RedisInv, ConnInv
  <1>3. CASE wire' = wire
    BY <1>1, <1>3, EndStep
  <1>4. CASE wire[c] # <<>> /\ wire' = [wire EXCEPT ![c] = Tail(wire[c])]
    <2>1. wire'[c] = Tail(wire[c])
      BY <1>2, <1>4 DEF RedisTypes
    <2>2. Len(wire[c]) # 0
      BY <1>2, <1>4, SomeFrame DEF CutInv
    <2>3. \E w : wire' = [wire EXCEPT ![c] = w]
      BY <1>4
    <2>. QED  BY <1>1, <2>1, <2>2, <2>3, EndStep
  <1>. QED  BY <1>3, <1>4 DEF Leave

LEMMA ReplyFailsStep ==
  ASSUME RedisInv, NEW c \in Conns, ReplyFails(c)
  PROVE  RedisInv'
  <1>1. redisAt[c] = "reply" /\ End(c) /\ wire' = wire
    BY DEF ReplyFails
  <1>. QED  BY <1>1, EndStep

LEMMA EmptyLog == IsLog(<<>>) /\ DOMAIN <<>> = {}
  <1>1. \A S : <<>> \in Seq(S)
    BY EmptySeq
  <1>. QED  BY <1>1 DEF IsLog

LEMMA RedisInitial == RedisInit => RedisInv
  <1>. SUFFICES ASSUME RedisInit PROVE RedisInv
    OBVIOUS
  <1>1. IsLog(redisLog) /\ DOMAIN redisLog = {} /\ \A c \in Conns : Mine(c) = {}
    <2>1. redisLog = <<>>
      BY DEF RedisInit
    <2>. QED  BY <2>1, EmptyLog DEF Mine
  <1>2. RedisTypes
    <2>1. /\ redisAt = [c \in Conns |-> "idle"] /\ wire = [c \in Conns |-> <<>>]
          /\ closed = {} /\ cfgDir = [c \in Conns |-> ""] /\ cmds = [c \in Conns |-> 0]
      BY DEF RedisInit
    <2>2. redisAt \in [Conns -> Stages] /\ cmds \in [Conns -> Nat]
      BY <2>1 DEF Stages
    <2>3. DOMAIN wire = Conns /\ DOMAIN cfgDir = Conns /\ closed \subseteq Conns
      BY <2>1
    <2>. QED  BY <1>1, <2>2, <2>3 DEF RedisTypes
  <1>3. ASSUME NEW c \in Conns PROVE ConnInv(c)
    <2>1. Mine(c) = {} /\ SetsDir(Mine(c)) = {}
      BY <1>1 DEF SetsDir
    <2>2. redisAt[c] = "idle" /\ wire[c] = <<>> /\ cfgDir[c] = "" /\ cmds[c] = 0
      BY DEF RedisInit
    <2>3. HandlerInv(c)
      <3>1. Cardinality(Mine(c)) = 0
        BY <2>1, FS_EmptySet
      <3>2. 0 \in 0..MaxCmds /\ 0 <= 0 + 1
        BY CommandsAssumption
      <3>. QED  BY <2>1, <2>2, <3>1, <3>2 DEF HandlerInv, Stages
    <2>4. DirInv(c)
      BY <2>1, <2>2 DEF DirInv
    <2>5. CutInv(c)
      <3>1. IsLog(wire[c]) /\ DOMAIN wire[c] = {}
        BY <2>2, EmptyLog
      <3>. QED  BY <2>1, <3>1 DEF CutInv, CutLast
    <2>. QED  BY <2>3, <2>4, <2>5 DEF ConnInv
  <1>. QED  BY <1>1, <1>2, <1>3 DEF RedisInv

LEMMA RedisInductive == RedisInv /\ [RedisNext]_redisVars => RedisInv'
  <1>1. ASSUME RedisInv, RedisNext PROVE RedisInv'
    <2>1. PICK c \in Conns : \/ RedisConnect(c) \/ Send(c) \/ Close(c)
                             \/ Leave(c) \/ Skip(c) \/ Record(c) \/ Reply(c) \/ ReplyFails(c)
      BY <1>1 DEF RedisNext
    <2>. QED  BY <1>1, <2>1, ConnectStep, SendStep, CloseStep, LeaveStep, SkipStep, RecordStep,
                 ReplyStep, ReplyFailsStep
  <1>2. ASSUME RedisInv, UNCHANGED redisVars PROVE RedisInv'
    <2>1. /\ redisAt' = redisAt /\ wire' = wire /\ closed' = closed /\ cfgDir' = cfgDir
          /\ cmds' = cmds /\ redisLog' = redisLog
      BY <1>2 DEF redisVars
    <2>2. RedisTypes'
      BY <1>2, <2>1 DEF RedisInv, RedisTypes, IsLog
    <2>3. ASSUME NEW c \in Conns PROVE ConnInv(c)'
      <3>1. Mine(c)' = Mine(c) /\ ConnInv(c)
        BY <1>2, <2>1 DEF Mine, RedisInv
      <3>. QED  BY <2>1, <3>1, Elsewhere
    <2>4. ASSUME NEW i \in DOMAIN redisLog' PROVE EventTold(i)'
      <3>1. Earlier(i)' = Earlier(i) /\ Later(i)' = Later(i) /\ EventTold(i)
        BY <1>2, <2>1 DEF Earlier, Later, RedisInv
      <3>2. SetsDir(Earlier(i))' = SetsDir(Earlier(i))
        BY <2>1, <3>1 DEF SetsDir
      <3>. QED  BY <2>1, <3>1, <3>2 DEF EventTold
    <2>. QED  BY <2>2, <2>3, <2>4 DEF RedisInv
  <1>. QED  BY <1>1, <1>2

\* The last event of a connection whose handler has ended is its end.
LEMMA LastIsEnd ==
  ASSUME RedisInv, NEW i \in DOMAIN redisLog, Later(i) = {}, redisAt[redisLog[i].conn] = "ended"
  PROVE  redisLog[i].type = "end"
  <1>. DEFINE c == redisLog[i].conn
  <1>1. c \in Conns /\ Len(redisLog) \in Nat /\ DOMAIN redisLog = 1..Len(redisLog)
    <2>1. redisLog \in Seq({redisLog[k] : k \in DOMAIN redisLog})
      BY DEF RedisInv, RedisTypes, IsLog
    <2>2. Len(redisLog) \in Nat /\ DOMAIN redisLog = 1..Len(redisLog)
      BY <2>1
    <2>. QED  BY <2>2 DEF RedisInv, RedisTypes
  <1>2. PICK j \in Mine(c) : redisLog[j].type = "end" /\ \A k \in Mine(c) : k <= j
    BY <1>1 DEF RedisInv, ConnInv, HandlerInv
  <1>3. i \in Mine(c) /\ i <= j /\ j \in 1..Len(redisLog) /\ redisLog[j].conn = c
    BY <1>1, <1>2 DEF Mine
  <1>4. j \notin (i + 1)..Len(redisLog)
    BY <1>3 DEF Later
  <1>5. i \in Nat /\ j \in Nat /\ j <= Len(redisLog)
    BY <1>1, <1>3
  <1>6. i = j
    BY <1>1, <1>3, <1>4, <1>5
  <1>. QED  BY <1>2, <1>6

LEMMA RedisTells == RedisInv => AttackIsTold
  <1>. SUFFICES ASSUME RedisInv, NEW i \in DOMAIN redisLog
                PROVE  /\ EventTold(i)
                       /\ Later(i) = {} /\ redisAt[redisLog[i].conn] = "ended" => redisLog[i].type = "end"
    BY DEF AttackIsTold, CommitFollowsDir, ConnectionTold, EventTold
  <1>. QED  BY LastIsEnd DEF RedisInv

\* Every connection of the cache store is told in the log from its opening to
\* its end, a command cut short is the last of its connection, and a SAVE is
\* flagged as the commit of an attack by the directory its own connection set
\* last (sensors.redis_sensor._handle), for any number of connections.
THEOREM AttackCorrect == RedisSpec => []AttackIsTold
  <1>. QED  BY RedisInitial, RedisInductive, RedisTells, PTL DEF RedisSpec

-----------------------------------------------------------------------------
(* The links of a bait document                                            *)

Documents == [format : Formats, agent : Agents, id : DownloadIds]
Auths == {"none", "type1", "type3"}

\* What a link of a document is answered with.
SlotOf(d, way) == CASE way.trigger = "renders" -> "wd"
                     [] way.trigger = "clicks" /\ d.format # "pdf" -> "lnk"
                     [] OTHER -> "img"

ComesHome(d, way, auth) ==
  LET h == HandledAs(way.path, auth)
  IN  /\ h.event # "http_request"
      /\ h.agent = d.agent /\ h.id = d.id /\ h.slot = SlotOf(d, way)
      /\ h.status = 401 => way.trigger = "renders" /\ auth # "type3"
      /\ way.trigger = "renders" => (h.event = "canary_ntlm_credentials_captured" <=> auth = "type3")
      /\ way.trigger # "renders" => h.event = "canary_beacon_received"

LEMMA TailOfPrefixed ==
  ASSUME NEW S, NEW q \in Seq(S), NEW e \in S
  PROVE  Len(<<e>> \o q) = Len(q) + 1 /\ (<<e>> \o q)[1] = e /\ Tail(<<e>> \o q) = q
  <1> DEFINE p == <<e>> \o q
  <1>1. <<e>> \in Seq(S) /\ Len(<<e>>) = 1 /\ <<e>>[1] = e /\ Len(q) \in Nat
    OBVIOUS
  <1>2. /\ p \in Seq(S) /\ Len(p) = 1 + Len(q)
        /\ \A i \in 1..(1 + Len(q)) : p[i] = IF i <= 1 THEN <<e>>[i] ELSE q[i - 1]
    BY <1>1, ConcatProperties
  <1> HIDE DEF p
  <1>3. p[1] = e
    <2>1. 1 \in 1..(1 + Len(q)) /\ 1 <= 1
      BY <1>1
    <2>. QED  BY <1>1, <1>2, <2>1
  <1>4. Tail(p) \in Seq(S) /\ Len(Tail(p)) = Len(q) /\ \A i \in 1..Len(q) : Tail(p)[i] = p[i + 1]
    BY <1>1, <1>2
  <1>5. ASSUME NEW i \in 1..Len(q) PROVE Tail(p)[i] = q[i]
    <2>1. i + 1 \in 1..(1 + Len(q)) /\ ~(i + 1 <= 1) /\ (i + 1) - 1 = i
      BY <1>1
    <2>. QED  BY <1>2, <1>4, <2>1
  <1>6. Tail(p) = q
    BY <1>4, <1>5, SeqEqual
  <1>7. Len(p) = Len(q) + 1
    BY <1>1, <1>2
  <1>. QED  BY <1>3, <1>6, <1>7 DEF p

\* A label the patterns do not know is in every address of a document.
LEMMA StrangersGoUnheard ==
  ASSUME NEW d, d.agent \notin PlainAgents, NEW auth
  PROVE  /\ \A slot \in {"img", "lnk"} : HandledAs(Pixel(d, slot), auth) = Unrecognised
         /\ HandledAs(<<"b">> \o Pixel(d, "img"), auth) = Unrecognised
         /\ \A ext \in {"dotx", "xlsx"} : HandledAs(Dav(d, ext), auth) = Unrecognised
  <1>1. ASSUME NEW slot \in {"img", "lnk"} PROVE HandledAs(Pixel(d, slot), auth) = Unrecognised
    <2> DEFINE p == <<d.agent, d.id, Leaf(slot, "png")>>
    <2>1. Pixel(d, slot) = p /\ Len(p) = 3 /\ p[1] = d.agent
      BY DEF Pixel
    <2> HIDE DEF p
    <2>2. ~DavMatch(p) /\ ~BeaconMatch(p)
      BY <2>1 DEF DavMatch, BeaconMatch, Stripped
    <2>. QED  BY <2>1, <2>2 DEF HandledAs
  <1>2. HandledAs(<<"b">> \o Pixel(d, "img"), auth) = Unrecognised
    <2> DEFINE leaf == Leaf("img", "png")
               q == <<d.agent, d.id, leaf>>
               p == <<"b">> \o q
               S == {"b", d.agent, d.id, leaf}
    <2>1. Pixel(d, "img") = q
      BY DEF Pixel
    <2> HIDE DEF leaf
    <2>2. d.agent \in S /\ d.id \in S /\ leaf \in S /\ "b" \in S
      OBVIOUS
    <2> HIDE DEF S
    <2>3. Len(q) = 3 /\ q[1] = d.agent /\ q \in Seq(S)
      BY <2>2
    <2> HIDE DEF q
    <2>4. Len(p) = 4 /\ p[1] = "b" /\ Tail(p) = q
      <3>1. Len(p) = Len(q) + 1 /\ p[1] = "b" /\ Tail(p) = q
        BY <2>2, <2>3, TailOfPrefixed
      <3>. QED  BY <2>3, <3>1
    <2> HIDE DEF p
    <2>5. ~DavMatch(p) /\ ~BeaconMatch(p)
      BY <2>3, <2>4 DEF DavMatch, BeaconMatch, Stripped
    <2>6. HandledAs(p, auth) = Unrecognised
      BY <2>5 DEF HandledAs
    <2>. QED  BY <2>1, <2>6 DEF p
  <1>3. ASSUME NEW ext \in {"dotx", "xlsx"} PROVE HandledAs(Dav(d, ext), auth) = Unrecognised
    <2> DEFINE leaf == Leaf("", ext)
               p == <<"dav", d.agent, d.id, leaf>>
    <2>1. Dav(d, ext) = p
      BY DEF Dav
    <2> HIDE DEF leaf
    <2>2. Len(p) = 4 /\ p[1] = "dav" /\ p[2] = d.agent
      OBVIOUS
    <2> HIDE DEF p
    <2>3. ~DavMatch(p) /\ ~BeaconMatch(p)
      BY <2>2 DEF DavMatch, BeaconMatch, Stripped
    <2>. QED  BY <2>1, <2>3 DEF HandledAs
  <1>. QED  BY <1>1, <1>2, <1>3

LEMMA PixelHome ==
  ASSUME NEW d, d.agent \in PlainAgents, NEW slot \in {"img", "lnk"}, NEW auth
  PROVE  HandledAs(Pixel(d, slot), auth)
           = [event |-> "canary_beacon_received", agent |-> d.agent, id |-> d.id, slot |-> slot, status |-> 200]
  <1> DEFINE p == <<d.agent, d.id, [slot |-> slot, ext |-> "png"]>>
  <1>1. Pixel(d, slot) = p
    BY DEF Pixel, Leaf
  <1>2. Len(p) = 3 /\ p[1] = d.agent /\ p[2] = d.id /\ p[3].slot = slot /\ p[3].ext = "png"
    OBVIOUS
  <1> HIDE DEF p
  <1>3. Stripped(p) = p
    BY <1>2 DEF Stripped
  <1>4. ~DavMatch(p)
    BY <1>2 DEF DavMatch
  <1>5. BeaconMatch(p)
    BY <1>2, <1>3 DEF BeaconMatch
  <1>. QED  BY <1>1, <1>2, <1>3, <1>4, <1>5 DEF HandledAs, Slot

LEMMA SharePixelHome ==
  ASSUME NEW d, d.agent \in PlainAgents, NEW auth
  PROVE  HandledAs(<<"b">> \o Pixel(d, "img"), auth)
           = [event |-> "canary_beacon_received", agent |-> d.agent, id |-> d.id, slot |-> "img", status |-> 200]
  <1> DEFINE leaf == [slot |-> "img", ext |-> "png"]
             q == <<d.agent, d.id, leaf>>
             p == <<"b">> \o q
             S == {"b", d.agent, d.id, leaf}
  <1>1. Pixel(d, "img") = q
    BY DEF Pixel, Leaf
  <1>2. Len(q) = 3 /\ q[1] = d.agent /\ q[2] = d.id /\ q[3] = leaf /\ q \in Seq(S) /\ "b" \in S
    OBVIOUS
  <1> HIDE DEF S
  <1>3. leaf.slot = "img" /\ leaf.ext = "png"
    OBVIOUS
  <1> HIDE DEF q, leaf
  <1>4. Len(p) = 4 /\ p[1] = "b" /\ Tail(p) = q
    <2>1. Len(p) = Len(q) + 1 /\ p[1] = "b" /\ Tail(p) = q
      BY <1>2, TailOfPrefixed
    <2>. QED  BY <1>2, <2>1
  <1> HIDE DEF p
  <1>5. Stripped(p) = q
    BY <1>4 DEF Stripped
  <1>6. BeaconMatch(p)
    BY <1>2, <1>3, <1>5 DEF BeaconMatch
  <1>7. ~DavMatch(p)
    BY <1>4 DEF DavMatch
  <1>8. HandledAs(p, auth)
           = [event |-> "canary_beacon_received", agent |-> d.agent, id |-> d.id, slot |-> "img", status |-> 200]
    BY <1>2, <1>3, <1>5, <1>6, <1>7 DEF HandledAs, Slot
  <1>. QED  BY <1>1, <1>8 DEF p

LEMMA DavHome ==
  ASSUME NEW d, d.agent \in PlainAgents, NEW ext \in {"dotx", "xlsx"}, NEW auth
  PROVE  HandledAs(Dav(d, ext), auth)
           = [event |-> DavEvent(auth), agent |-> d.agent, id |-> d.id, slot |-> "wd",
              status |-> IF auth = "type3" THEN 404 ELSE 401]
  <1> DEFINE p == <<"dav", d.agent, d.id, [slot |-> "", ext |-> ext]>>
  <1>1. Dav(d, ext) = p
    BY DEF Dav, Leaf
  <1>2. Len(p) = 4 /\ p[1] = "dav" /\ p[2] = d.agent /\ p[3] = d.id
    OBVIOUS
  <1> HIDE DEF p
  <1>3. DavMatch(p)
    BY <1>2 DEF DavMatch
  <1>. QED  BY <1>1, <1>2, <1>3 DEF HandledAs

LEMMA EveryLinkAnswered ==
  ASSUME NEW d \in Documents, NEW way \in Links(d), NEW auth \in Auths
  PROVE  IF d.agent \in PlainAgents THEN ComesHome(d, way, auth) ELSE HandledAs(way.path, auth) = Unrecognised
  <1>1. \/ \E trigger \in {"opens", "clicks"}, slot \in {"img", "lnk"} :
              /\ way = Link(trigger, Pixel(d, slot))
              /\ slot = "lnk" <=> trigger = "clicks" /\ d.format # "pdf"
        \/ way = Link("opens", <<"b">> \o Pixel(d, "img"))
        \/ \E ext \in {"dotx", "xlsx"} : way = Link("renders", Dav(d, ext))
    <2>1. base # "none"
      BY DEF Links
    <2>2. d.format \in {"docx", "xlsx", "pdf", "rtf", "html"}
      BY DEF Documents, Formats
    <2>3. CASE d.format = "docx"
      BY <2>1, <2>3 DEF Links, DocxLinks
    <2>4. CASE d.format = "xlsx"
      BY <2>1, <2>4 DEF Links, XlsxLinks
    <2>5. CASE d.format = "pdf"
      BY <2>1, <2>5 DEF Links, PdfLinks
    <2>6. CASE d.format = "rtf"
      BY <2>1, <2>6 DEF Links, RtfLinks
    <2>7. CASE d.format = "html"
      BY <2>1, <2>7 DEF Links, HtmlLinks
    <2>. QED  BY <2>2, <2>3, <2>4, <2>5, <2>6, <2>7
  <1>2. ASSUME NEW trigger \in {"opens", "clicks"}, NEW slot \in {"img", "lnk"},
               way = Link(trigger, Pixel(d, slot)), slot = "lnk" <=> trigger = "clicks" /\ d.format # "pdf",
               d.agent \in PlainAgents
        PROVE  ComesHome(d, way, auth)
    <2>1. way.trigger = trigger /\ way.path = Pixel(d, slot)
      BY <1>2 DEF Link
    <2>2. HandledAs(way.path, auth)
            = [event |-> "canary_beacon_received", agent |-> d.agent, id |-> d.id, slot |-> slot, status |-> 200]
      BY <1>2, <2>1, PixelHome
    <2>3. SlotOf(d, way) = slot
      BY <1>2, <2>1 DEF SlotOf
    <2>. QED  BY <2>1, <2>2, <2>3 DEF ComesHome
  <1>3. ASSUME way = Link("opens", <<"b">> \o Pixel(d, "img")), d.agent \in PlainAgents
        PROVE  ComesHome(d, way, auth)
    <2>1. way.trigger = "opens" /\ way.path = <<"b">> \o Pixel(d, "img")
      BY <1>3 DEF Link
    <2>2. HandledAs(way.path, auth)
            = [event |-> "canary_beacon_received", agent |-> d.agent, id |-> d.id, slot |-> "img", status |-> 200]
      BY <1>3, <2>1, SharePixelHome
    <2>3. SlotOf(d, way) = "img"
      BY <2>1 DEF SlotOf
    <2>. QED  BY <2>1, <2>2, <2>3 DEF ComesHome
  <1>4. ASSUME NEW ext \in {"dotx", "xlsx"}, way = Link("renders", Dav(d, ext)), d.agent \in PlainAgents
        PROVE  ComesHome(d, way, auth)
    <2>1. way.trigger = "renders" /\ way.path = Dav(d, ext)
      BY <1>4 DEF Link
    <2>2. HandledAs(way.path, auth)
            = [event |-> DavEvent(auth), agent |-> d.agent, id |-> d.id, slot |-> "wd",
               status |-> IF auth = "type3" THEN 404 ELSE 401]
      BY <1>4, <2>1, DavHome
    <2>3. SlotOf(d, way) = "wd"
      BY <2>1 DEF SlotOf
    <2>4. /\ DavEvent(auth) # "http_request"
          /\ DavEvent(auth) = "canary_ntlm_credentials_captured" <=> auth = "type3"
      BY DEF DavEvent, Auths
    <2>. QED  BY <2>1, <2>2, <2>3, <2>4 DEF ComesHome
  <1>5. ASSUME d.agent \notin PlainAgents PROVE HandledAs(way.path, auth) = Unrecognised
    <2>1. ASSUME NEW trigger \in {"opens", "clicks"}, NEW slot \in {"img", "lnk"},
                 way = Link(trigger, Pixel(d, slot))
          PROVE  HandledAs(way.path, auth) = Unrecognised
      <3>1. way.path = Pixel(d, slot)
        BY <2>1 DEF Link
      <3>. QED  BY <1>5, <3>1, StrangersGoUnheard
    <2>2. ASSUME way = Link("opens", <<"b">> \o Pixel(d, "img"))
          PROVE  HandledAs(way.path, auth) = Unrecognised
      <3>1. way.path = <<"b">> \o Pixel(d, "img")
        BY <2>2 DEF Link
      <3>. QED  BY <1>5, <3>1, StrangersGoUnheard
    <2>3. ASSUME NEW ext \in {"dotx", "xlsx"}, way = Link("renders", Dav(d, ext))
          PROVE  HandledAs(way.path, auth) = Unrecognised
      <3>1. way.path = Dav(d, ext)
        BY <2>3 DEF Link
      <3>. QED  BY <1>5, <3>1, StrangersGoUnheard
    <2>. QED  BY <1>1, <2>1, <2>2, <2>3
  <1>. QED  BY <1>1, <1>2, <1>3, <1>4, <1>5

RoutesInv ==
  /\ document # NoDocument => document \in Documents
  /\ fetch # NoFetch =>
       /\ document # NoDocument
       /\ fetch.link \in Links(document) /\ fetch.link.trigger = "renders" /\ fetch.stage \in {"none", "type1"}
  /\ report # NoReport =>
       /\ document # NoDocument
       /\ report.link \in Links(document) /\ report.auth \in Auths
       /\ report.answer = HandledAs(report.link.path, report.auth)
       /\ report.auth # "none" => report.link.trigger = "renders"

LEMMA RequestKeeps ==
  ASSUME RoutesInv, document # NoDocument, NEW way \in Links(document), NEW auth \in Auths,
         auth # "none" => way.trigger = "renders", Request(way, auth)
  PROVE  RoutesInv'
  <1>1. document \in Documents
    BY DEF RoutesInv
  <1>2. \/ ComesHome(document, way, auth)
        \/ HandledAs(way.path, auth) = Unrecognised
    BY <1>1, EveryLinkAnswered
  <1> DEFINE h == HandledAs(way.path, auth)
  <1>3. /\ report' = [link |-> way, auth |-> auth, answer |-> h]
        /\ base' = base /\ document' = document
    BY DEF Request
  <1>4. fetch' = IF h.status = 401 THEN [stage |-> auth, link |-> way] ELSE NoFetch
    BY <1>3 DEF Request
  <1>u. Unrecognised.status = 404
    BY Zenon DEF Unrecognised
  <1>5. h.status = 401 => way.trigger = "renders" /\ auth # "type3"
    BY <1>2, <1>u DEF ComesHome
  <1> HIDE DEF h
  <1>6. Links(document)' = Links(document)
    BY <1>3 DEF Links
  <1>7. fetch' # NoFetch =>
          fetch'.link \in Links(document)' /\ fetch'.link.trigger = "renders" /\ fetch'.stage \in {"none", "type1"}
    BY <1>4, <1>5, <1>6 DEF Auths
  <1>8. /\ report'.link \in Links(document)' /\ report'.auth \in Auths
        /\ report'.answer = HandledAs(report'.link.path, report'.auth)
        /\ report'.auth # "none" => report'.link.trigger = "renders"
    BY <1>3, <1>6 DEF h
  <1>. QED  BY <1>1, <1>3, <1>7, <1>8 DEF RoutesInv

LEMMA RoutesInductive == RoutesInv /\ [RoutesNext]_routeVars => RoutesInv'
  <1> SUFFICES ASSUME RoutesInv, [RoutesNext]_routeVars PROVE RoutesInv'
    OBVIOUS
  <1>1. ASSUME NEW format \in Formats, NEW agent \in Agents, NEW id \in DownloadIds,
               TakesDocument(format, agent, id)
        PROVE  RoutesInv'
    <2>1. document' \in Documents /\ fetch' = NoFetch /\ report' = NoReport
      BY <1>1 DEF TakesDocument, Documents
    <2>. QED  BY <2>1 DEF RoutesInv
  <1>2. ASSUME document # NoDocument, NEW way \in Links(document), Views(way) PROVE RoutesInv'
    <2>1. Request(way, "none") /\ "none" \in Auths
      BY <1>2 DEF Views, Auths
    <2>. QED  BY <1>2, <2>1, RequestKeeps
  <1>3. ASSUME AnswersChallenge PROVE RoutesInv'
    <2> DEFINE auth == IF fetch.stage = "none" THEN "type1" ELSE "type3"
    <2>1. fetch # NoFetch /\ Request(fetch.link, auth) /\ auth \in Auths
      BY <1>3 DEF AnswersChallenge, Auths
    <2>2. document # NoDocument /\ fetch.link \in Links(document) /\ fetch.link.trigger = "renders"
      BY <2>1 DEF RoutesInv
    <2> HIDE DEF auth
    <2>. QED  BY <2>1, <2>2, RequestKeeps
  <1>4. ASSUME GivesUp PROVE RoutesInv'
    BY <1>4 DEF GivesUp, RoutesInv, Links
  <1>5. ASSUME UNCHANGED routeVars PROVE RoutesInv'
    BY <1>5 DEF routeVars, RoutesInv, Links
  <1>. QED  BY <1>1, <1>2, <1>3, <1>4, <1>5 DEF RoutesNext

LEMMA RoutesImply == RoutesInv => EveryLinkComesHome
  <1> SUFFICES ASSUME RoutesInv, report # NoReport
               PROVE  IF document.agent \in PlainAgents
                      THEN /\ report.answer.event # "http_request"
                           /\ report.answer.agent = document.agent /\ report.answer.id = document.id
                           /\ report.answer.slot = SlotOf(document, report.link)
                           /\ report.answer.event = "canary_ntlm_credentials_captured" <=> report.auth = "type3"
                      ELSE report.answer = Unrecognised
    BY DEF EveryLinkComesHome, SlotOf
  <1>1. /\ document \in Documents /\ report.link \in Links(document) /\ report.auth \in Auths
        /\ report.answer = HandledAs(report.link.path, report.auth)
        /\ report.auth # "none" => report.link.trigger = "renders"
    BY DEF RoutesInv
  <1>2. IF document.agent \in PlainAgents THEN ComesHome(document, report.link, report.auth)
        ELSE report.answer = Unrecognised
    BY <1>1, EveryLinkAnswered
  <1>. QED  BY <1>1, <1>2 DEF ComesHome

\* For any node labels of one segment, and any of them that the patterns of
\* fileshare_sensor know: every address that the five builders put into a
\* document of a node with a known label is recognised by the applications of
\* the host it points to, as a beacon of this copy, with what its reader did;
\* with any other label no address is recognised.
THEOREM RoutesCorrect == RoutesSpec => []EveryLinkComesHome
  <1>1. RoutesInit => RoutesInv
    BY DEF RoutesInit, RoutesInv
  <1>. QED  BY <1>1, RoutesInductive, RoutesImply, PTL DEF RoutesSpec

=================================================================================
