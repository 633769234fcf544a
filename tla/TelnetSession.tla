----------------------------- MODULE TelnetSession -----------------------------
(***************************************************************************)
(* sensors.telnet_sensor: a connection from its login prompts to the end   *)
(* of its shell.  A line is also ended by 20 seconds of silence and by the *)
(* end of the stream; neither is told from an empty line.  The 20 seconds  *)
(* are those of one recv(1): option bytes and backspaces start them anew   *)
(* and add nothing to the line, so a client that trickles them keeps the   *)
(* read, and its thread, for as long as it likes.                          *)
(***************************************************************************)
EXTENDS Naturals, Sequences, FiniteSets

CONSTANT
    MaxTelnetLines \* bound: lines with content the client sends

VARIABLES
    telAt,         \* where the handler stands
    peer,          \* the client: "open", "half" closed, "closing", "reset"
    trickling,     \* whether bytes that are no content keep coming from it
    attempt,       \* the login attempt, past 3 when all have failed
    user,          \* username
    lines,         \* lines with content read so far
    cmdCount,      \* cmd_count
    telLog         \* events: [type, ok, n]

telnetVars == <<telAt, peer, trickling, attempt, user, lines, cmdCount, telLog>>

TelnetInit ==
    /\ telAt = "login"
    /\ peer = "open"
    /\ trickling = FALSE
    /\ attempt = 1
    /\ user = ""
    /\ lines = 0
    /\ cmdCount = 0
    /\ telLog = <<[type |-> "connection", ok |-> FALSE, n |-> 0]>>

\* What a line may say: a name that is let in with any password, a name and a
\* password that are weak together, anything else, or nothing.
TelnetLines == {"root", "weak", "other", "exit", ""}

\* (username, password) in WEAK_CREDS or username == "root"
Accepted(name, password) == name = "root" \/ (name = "weak" /\ password = "weak")

Emit(type, ok, n) == telLog' = Append(telLog, [type |-> type, ok |-> ok, n |-> n])

-----------------------------------------------------------------------------
(* The connection                                                          *)

\* The client shuts down its side and goes on reading; or it is gone, and the
\* next packets will be answered by a reset.
HalfClose ==
    /\ peer = "open"
    /\ peer' = "half"
    /\ trickling' = FALSE
    /\ UNCHANGED <<telAt, attempt, user, lines, cmdCount, telLog>>

Close ==
    /\ peer \in {"open", "half"}
    /\ peer' = "closing"
    /\ trickling' = FALSE
    /\ UNCHANGED <<telAt, attempt, user, lines, cmdCount, telLog>>

ResetArrives ==
    /\ peer = "closing"
    /\ peer' = "reset"
    /\ UNCHANGED <<trickling, telAt, attempt, user, lines, cmdCount, telLog>>

\* The client starts to send option negotiations and backspaces, each within 20
\* seconds of the last, or leaves off.
Trickles ==
    /\ peer = "open"
    /\ trickling' = ~trickling
    /\ UNCHANGED <<telAt, peer, attempt, user, lines, cmdCount, telLog>>

\* sendall, which raises once the connection has been reset.
Sends(from, to) ==
    /\ telAt = from
    /\ peer # "reset"
    /\ telAt' = to
    /\ UNCHANGED <<peer, trickling, attempt, user, lines, cmdCount, telLog>>

\* _read_line: a line with content while the client sends; "" also for a
\* timeout, and at once when the stream has ended; nothing while bytes come
\* that are consumed and not kept.
Reads(line) ==
    /\ ~trickling
    /\ line # "" => lines < MaxTelnetLines /\ peer \notin {"half", "reset"}
    /\ lines' = IF line = "" THEN lines ELSE lines + 1
    /\ UNCHANGED <<peer, trickling>>

-----------------------------------------------------------------------------
(* The login loop                                                          *)

LoginPrompt == Sends("login", "user")
PasswordPrompt == Sends("password", "pass")

\* Mutant: a fourth attempt is let in.
MutIncorrect == Sends("incorrect", IF attempt > 4 THEN "closed" ELSE "login")

\* Sent after the third attempt, too; then it is over.
Incorrect == Sends("incorrect", IF attempt > 3 THEN "closed" ELSE "login")

ReadUser(line) ==
    /\ telAt = "user"
    /\ Reads(line)
    /\ user' = line
    /\ telAt' = "password"
    /\ UNCHANGED <<attempt, cmdCount, telLog>>

AuthFails(line) ==
    /\ telAt = "pass"
    /\ ~Accepted(user, line)
    /\ Reads(line)
    /\ Emit("auth", FALSE, attempt)
    /\ telAt' = "incorrect"
    /\ attempt' = attempt + 1
    /\ UNCHANGED <<user, cmdCount>>

AuthSucceeds(line) ==
    /\ telAt = "pass"
    /\ Accepted(user, line)
    /\ Reads(line)
    /\ Emit("auth", TRUE, attempt)
    /\ telAt' = "banner"
    /\ UNCHANGED <<attempt, user, cmdCount>>

\* In front of the shell a send that fails returns: no end is recorded.
GiveUp ==
    /\ telAt \in {"login", "password", "incorrect", "banner"}
    /\ peer = "reset"
    /\ telAt' = "closed"
    /\ UNCHANGED <<peer, trickling, attempt, user, lines, cmdCount, telLog>>

-----------------------------------------------------------------------------
(* The shell                                                               *)

Banner == Sends("banner", "prompt")
Prompt == Sends("prompt", "line")
Answer == Sends("answer", "prompt")

ReadEmpty ==
    /\ telAt = "line"
    /\ Reads("")
    /\ telAt' = "prompt"
    /\ UNCHANGED <<attempt, user, cmdCount, telLog>>

ReadCommand(line) ==
    /\ telAt = "line"
    /\ line # ""
    /\ Reads(line)
    /\ cmdCount' = cmdCount + 1
    /\ Emit("command", TRUE, cmdCount + 1)
    /\ telAt' = IF line = "exit" THEN "end" ELSE "answer"
    /\ UNCHANGED <<attempt, user>>

\* Mutant: a prompt that cannot be sent does not end the loop.
MutBreaks ==
    /\ telAt = "answer"
    /\ peer = "reset"
    /\ telAt' = "end"
    /\ UNCHANGED <<peer, trickling, attempt, user, lines, cmdCount, telLog>>

\* A send that fails leaves the loop.
Breaks ==
    /\ telAt \in {"prompt", "answer"}
    /\ peer = "reset"
    /\ telAt' = "end"
    /\ UNCHANGED <<peer, trickling, attempt, user, lines, cmdCount, telLog>>

SessionEnd ==
    /\ telAt = "end"
    /\ telAt' = "closed"
    /\ Emit("end", TRUE, cmdCount)
    /\ UNCHANGED <<peer, trickling, attempt, user, lines, cmdCount>>

Handler ==
    \/ LoginPrompt \/ PasswordPrompt \/ Incorrect
    \/ \E line \in TelnetLines :
          \/ ReadUser(line) \/ AuthFails(line) \/ AuthSucceeds(line)
          \/ ReadCommand(line)
    \/ GiveUp
    \/ Banner \/ Prompt \/ Answer \/ ReadEmpty \/ Breaks \/ SessionEnd

TelnetNext == HalfClose \/ Close \/ ResetArrives \/ Trickles \/ Handler

TelnetSpec == TelnetInit /\ [][TelnetNext]_telnetVars

\* The handler goes on where it can: a silent read times out, a read that is
\* trickled to does not.  Packets to a client that is gone are answered by its
\* reset.  Nothing makes the client stop.
TelnetFairness == WF_telnetVars(Handler) /\ WF_telnetVars(ResetArrives)

-----------------------------------------------------------------------------
(* Properties                                                              *)

\* The story a connection tells: logins numbered from one, three at most, an
\* accepted one the last; commands only after it, numbered without a gap; one
\* end, which counts them, for every shell that was left and for nothing else.
StoryTold ==
    \A i \in DOMAIN telLog :
        LET e == telLog[i]
            before == telLog[i - 1]
        IN  CASE e.type = "connection" -> i = 1
              [] e.type = "auth" -> e.n = i - 1 /\ e.n <= 3 /\ ~before.ok
              [] e.type = "command" -> before.ok /\ before.type \in {"auth", "command"}
                                       /\ e.n = IF before.type = "command" THEN before.n + 1 ELSE 1
              [] e.type = "end" -> /\ i = Len(telLog) /\ before.ok
                                   /\ e.n = Cardinality({j \in DOMAIN telLog : telLog[j].type = "command"})

\* Whoever is gone is let go, also from the shell, which asks a silent client
\* for ever; and the login ends for every client that leaves off trickling,
\* also one that never says a word.
LetGo ==
    /\ (peer = "closing") ~> (telAt = "closed")
    /\ <>[]~trickling => ((telAt = "login") ~> (telAt \in {"prompt", "closed"}))

=============================================================================
