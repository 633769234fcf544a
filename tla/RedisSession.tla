----------------------------- MODULE RedisSession -----------------------------
(***************************************************************************)
(* sensors.redis_sensor: one thread per connection reads a command, flags  *)
(* what belongs to an attack chain, emits it and replies.  What has been   *)
(* configured is remembered per connection.  The connections here all come *)
(* from one source, so that their events carry the same session id.        *)
(***************************************************************************)
EXTENDS Naturals, Sequences, FiniteSets

CONSTANTS
    Conns,         \* bound: the connections of the source
    Commands,      \* [name, val]: what it may send
    MaxCmds,       \* MAX_CMDS
    MaxFrames      \* bound: frames sent over all connections

\* "part" is what is left of a value that was cut short.
ASSUME CommandsAssumption ==
    /\ MaxCmds \in Nat
    /\ \A cmd \in Commands : cmd = [name |-> cmd.name, val |-> cmd.val] /\ cmd.val # "part"

VARIABLES
    redisAt,       \* [connection -> where its handler stands]
    wire,          \* [connection -> frames sent and not yet read]
    closed,        \* connections the client has closed
    cfgDir,        \* [connection -> cfg_dir, "" if it is None or empty]
    cmds,          \* [connection -> n_cmds]
    frames,        \* frames sent so far
    redisLog       \* events, in the order they are emitted

redisVars == <<redisAt, wire, closed, cfgDir, cmds, frames, redisLog>>

\* What _parse_command makes of a frame: a command, nothing (an empty line, a
\* count of 0), or None (the end of the stream, a header that does not parse).
NoCommand == [name |-> "none", val |-> ""]
Command(cmd) == [form |-> "command", cmd |-> cmd]
Blank == [form |-> "blank", cmd |-> NoCommand]
Broken == [form |-> "broken", cmd |-> NoCommand]

RedisInit ==
    /\ redisAt = [c \in Conns |-> "idle"]
    /\ wire = [c \in Conns |-> <<>>]
    /\ closed = {}
    /\ cfgDir = [c \in Conns |-> ""]
    /\ cmds = [c \in Conns |-> 0]
    /\ frames = 0
    /\ redisLog = <<>>

RedisEmit(c, type, cmd, chain) ==
    redisLog' = Append(redisLog, [conn |-> c, type |-> type, cmd |-> cmd, chain |-> chain])

-----------------------------------------------------------------------------
(* The client                                                              *)

RedisConnect(c) ==
    /\ redisAt[c] = "idle"
    /\ redisAt' = [redisAt EXCEPT ![c] = "read"]
    /\ RedisEmit(c, "connection", NoCommand, "")
    /\ UNCHANGED <<wire, closed, cfgDir, cmds, frames>>

Send(c) ==
    /\ redisAt[c] # "idle" /\ c \notin closed
    /\ frames < MaxFrames
    /\ \E f \in {Command(cmd) : cmd \in Commands} \union {Blank, Broken} :
         wire' = [wire EXCEPT ![c] = Append(@, f)]
    /\ frames' = frames + 1
    /\ UNCHANGED <<redisAt, closed, cfgDir, cmds, redisLog>>

\* The client is gone, after its last frame or in the middle of one: a short
\* read or an unfinished line still makes a command of what has arrived.
Close(c) ==
    /\ redisAt[c] # "idle" /\ c \notin closed
    /\ closed' = closed \union {c}
    /\ \/ UNCHANGED wire
       \/ \E cmd \in Commands :
            /\ cmd.val # ""
            /\ wire' = [wire EXCEPT ![c] = Append(@, Command([cmd EXCEPT !.val = "part"]))]
    /\ UNCHANGED <<redisAt, cfgDir, cmds, frames, redisLog>>

-----------------------------------------------------------------------------
(* The handler                                                             *)

\* The finally clause.
End(c) ==
    /\ redisAt' = [redisAt EXCEPT ![c] = "ended"]
    /\ RedisEmit(c, "end", NoCommand, "")
    /\ UNCHANGED <<closed, cfgDir, cmds, frames>>

\* MAX_CMDS, the end of the stream, a timeout, or a frame that does not parse.
Leave(c) ==
    /\ redisAt[c] = "read"
    /\ \/ cmds[c] >= MaxCmds /\ UNCHANGED wire
       \/ wire[c] = <<>> /\ UNCHANGED wire
       \/ /\ wire[c] # <<>> /\ Head(wire[c]).form = "broken"
          /\ wire' = [wire EXCEPT ![c] = Tail(@)]
    /\ End(c)

\* An empty command is skipped, and not counted.
Skip(c) ==
    /\ redisAt[c] = "read" /\ cmds[c] < MaxCmds
    /\ wire[c] # <<>> /\ Head(wire[c]).form = "blank"
    /\ wire' = [wire EXCEPT ![c] = Tail(@)]
    /\ UNCHANGED <<redisAt, closed, cfgDir, cmds, frames, redisLog>>

DirAfter(dir, cmd) == IF cmd.name = "CONFIG SET dir" THEN cmd.val ELSE dir

\* Directories by what they contain, in the order of the code's tests.
DirChain(dir) ==
    CASE dir = "ssh" -> "ssh_key_write_setup"
      [] dir = "cron" -> "cron_write_setup"
      [] dir = "www" -> "webshell_write_setup"
      [] OTHER -> ""

\* The chain a command belongs to, given cfg_dir as the command leaves it.
RedisChainOf(cmd, dir) ==
    CASE cmd.name = "CONFIG SET dir" -> DirChain(cmd.val)
      [] cmd.name = "CONFIG SET dbfilename" /\ cmd.val = "ssh" -> "ssh_key_write_setup"
      [] cmd.name = "SAVE" /\ dir # "" -> "rce_payload_write_commit"
      [] cmd.name = "SLAVEOF" -> "replication_rce"
      [] cmd.name = "MODULE LOAD" -> "module_load_rce"
      [] OTHER -> ""

\* Mutant: the handler goes on after the end of the stream has cut a command,
\* and takes what it has read for another one.
MutReplyFails(c) ==
    /\ redisAt[c] = "reply" /\ c \in closed
    /\ RedisEmit(c, "command", NoCommand, "")
    /\ redisAt' = [redisAt EXCEPT ![c] = "read"]
    /\ UNCHANGED <<wire, closed, cfgDir, cmds, frames>>

Record(c) ==
    /\ redisAt[c] = "read" /\ cmds[c] < MaxCmds
    /\ wire[c] # <<>> /\ Head(wire[c]).form = "command"
    /\ LET cmd == Head(wire[c]).cmd
           dir == DirAfter(cfgDir[c], cmd)
       IN  /\ cfgDir' = [cfgDir EXCEPT ![c] = dir]
           /\ RedisEmit(c, "command", cmd, RedisChainOf(cmd, dir))
    /\ wire' = [wire EXCEPT ![c] = Tail(@)]
    /\ cmds' = [cmds EXCEPT ![c] = @ + 1]
    /\ redisAt' = [redisAt EXCEPT ![c] = "reply"]
    /\ UNCHANGED <<closed, frames>>

Reply(c) ==
    /\ redisAt[c] = "reply"
    /\ redisAt' = [redisAt EXCEPT ![c] = "read"]
    /\ UNCHANGED <<wire, closed, cfgDir, cmds, frames, redisLog>>

\* Writing to a client that is gone may fail: the loop is left.
ReplyFails(c) ==
    /\ redisAt[c] = "reply" /\ c \in closed
    /\ End(c)
    /\ UNCHANGED wire

RedisNext ==
    \E c \in Conns :
        \/ RedisConnect(c) \/ Send(c) \/ Close(c)
        \/ Leave(c) \/ Skip(c) \/ Record(c) \/ Reply(c) \/ ReplyFails(c)

RedisSpec == RedisInit /\ [][RedisNext]_redisVars

-----------------------------------------------------------------------------
(* Properties                                                              *)

\* The events of the connection of event i, before it and after it.
Earlier(i) == {j \in 1..(i - 1) : redisLog[j].conn = redisLog[i].conn}
Later(i) == {j \in (i + 1)..Len(redisLog) : redisLog[j].conn = redisLog[i].conn}
SetsDir(js) == {j \in js : redisLog[j].cmd.name = "CONFIG SET dir"}

\* A SAVE is flagged as the commit of a written file just if the directory set
\* last on its connection, however far back, is not the empty one.
CommitFollowsDir ==
    \A i \in DOMAIN redisLog :
        redisLog[i].cmd.name = "SAVE" =>
            (redisLog[i].chain = "rce_payload_write_commit" <=>
                \E j \in SetsDir(Earlier(i)) :
                    redisLog[j].cmd.val # "" /\ \A k \in SetsDir(Earlier(i)) : k <= j)

\* A connection's events are its opening, at most MaxCmds commands and one
\* end, in this order, whether it times out, is closed while it is answered or
\* in the middle of a command; a command cut short is the last one.
ConnectionTold ==
    \A i \in DOMAIN redisLog :
        LET e == redisLog[i] IN
        /\ e.type = "connection" <=> Earlier(i) = {}
        /\ e.type = "end" => Later(i) = {} /\ Cardinality(Earlier(i)) <= MaxCmds + 1
        /\ Later(i) = {} /\ redisAt[e.conn] = "ended" => e.type = "end"
        /\ e.cmd.val = "part" => \A j \in Later(i) : redisLog[j].type = "end"

\* Both: the log tells each connection, and each attack by what it set first.
AttackIsTold == CommitFollowsDir /\ ConnectionTold
=============================================================================
