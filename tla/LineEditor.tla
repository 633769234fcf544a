------------------------------ MODULE LineEditor ------------------------------
(***************************************************************************)
(* The interactive loop of a fake shell: ssh_sensor._serve_shell and its   *)
(* twin in ssh_shell_base, from the client's keys to the logged commands.  *)
(*                                                                         *)
(* Keys travel in packets of any size; the thread takes them one by one,   *)
(* echoes each, and logs the line when it ends.  Every echo is a send that *)
(* fails once the client has closed the channel, so a key can be handled   *)
(* or lost depending on when the client goes.  The twins differ in three   *)
(* places: ^D, a failed echo, and the event that ends the shell.           *)
(***************************************************************************)
EXTENDS Naturals, Sequences, SequencesExt

CONSTANTS
    Twins,       \* "ssh" for ssh_sensor, "base" for ssh_shell_base
    Letters,     \* printable keys; ExitKey stands for the typed word exit
    ExitKey,
    MaxKeys      \* bound: keys the client presses

CR == "CR"
LF == "LF"
Erase == "backspace"
CtrlC == "^C"
CtrlD == "^D"
Keys == Letters \union {CR, LF, Erase, CtrlC, CtrlD}

ASSUME LettersAssumption == Letters \intersect {CR, LF, Erase, CtrlC, CtrlD} = {}

VARIABLES
    twin,          \* which loop serves the channel
    present,       \* the client has not closed the channel
    typed,         \* keys sent and not received
    data,          \* the packet being worked through
    buf,           \* the line so far
    last_was_cr,
    logged,        \* the ssh_command events of the channel
    status,        \* "on" while the loop runs; how it ended
    taken,         \* history: the keys taken out of a packet
    pressed        \* bound's counter: keys pressed so far

editorVars == <<twin, present, typed, data, buf, last_was_cr, logged, status, taken, pressed>>

EditorInit ==
    /\ twin \in Twins
    /\ present = TRUE
    /\ typed = <<>> /\ data = <<>> /\ buf = <<>>
    /\ last_was_cr = FALSE
    /\ logged = <<>>
    /\ status = "on"
    /\ taken = <<>> /\ pressed = 0

-----------------------------------------------------------------------------
(* The client                                                              *)

Press(k) ==
    /\ present
    /\ pressed < MaxKeys
    /\ typed' = Append(typed, k)
    /\ pressed' = pressed + 1
    /\ UNCHANGED <<twin, present, data, buf, last_was_cr, logged, status, taken>>

\* What is on the wire still arrives.
CloseChannel ==
    /\ present
    /\ present' = FALSE
    /\ UNCHANGED <<twin, typed, data, buf, last_was_cr, logged, status, taken, pressed>>

-----------------------------------------------------------------------------
(* The loop                                                                *)

Receive ==
    /\ status = "on"
    /\ data = <<>>
    /\ typed # <<>>
    /\ data' = typed /\ typed' = <<>>
    /\ UNCHANGED <<twin, present, buf, last_was_cr, logged, status, taken, pressed>>

\* recv returns nothing: the client has closed and all it sent was handled.
ReceiveEnd ==
    /\ status = "on"
    /\ data = <<>> /\ typed = <<>>
    /\ ~present
    /\ status' = "closed"
    /\ UNCHANGED <<twin, present, typed, data, buf, last_was_cr, logged, taken, pressed>>

Takes(k) ==
    /\ status = "on"
    /\ data # <<>> /\ Head(data) = k
    /\ data' = Tail(data)
    /\ taken' = Append(taken, k)
    /\ UNCHANGED <<twin, present, typed, pressed>>

\* The second half of a CR LF.
SwallowLf ==
    /\ last_was_cr
    /\ Takes(LF)
    /\ last_was_cr' = FALSE
    /\ UNCHANGED <<buf, logged, status>>

\* A send on a closed channel raises, and the thread ends without a word.
KeyFails(k) ==
    /\ ~present
    /\ Takes(k)
    /\ status' = "failed"
    /\ UNCHANGED <<buf, logged>>

\* The line end is sent first, then the line is logged and executed.
LineEnd(k) ==
    /\ k = CR \/ (k = LF /\ ~last_was_cr)
    /\ last_was_cr' = (k = CR)
    /\ \/ KeyFails(k)
       \/ /\ present
          /\ Takes(k)
          /\ logged' = Append(logged, buf)
          /\ buf' = <<>>
          /\ status' = IF buf = <<ExitKey>> THEN "exit" ELSE "on"

\* Mutant: an erase key leaves the flag of the last line end alone.
MutErases ==
    /\ \/ /\ buf = <<>> \/ present \/ twin = "base"
          /\ Takes(Erase)
          /\ buf' = IF buf = <<>> THEN buf ELSE Front(buf)
          /\ UNCHANGED <<logged, status>>
       \/ twin = "ssh" /\ buf # <<>> /\ KeyFails(Erase)
    /\ UNCHANGED last_was_cr

\* An empty line is not echoed; the base loop shrugs off a failing echo.
Erases ==
    /\ \/ /\ buf = <<>> \/ present \/ twin = "base"
          /\ Takes(Erase)
          /\ buf' = IF buf = <<>> THEN buf ELSE Front(buf)
          /\ UNCHANGED <<logged, status>>
       \/ twin = "ssh" /\ buf # <<>> /\ KeyFails(Erase)
    /\ last_was_cr' = FALSE

Interrupts ==
    /\ \/ /\ present
          /\ Takes(CtrlC)
          /\ buf' = <<>>
          /\ UNCHANGED <<logged, status>>
       \/ KeyFails(CtrlC)
    /\ last_was_cr' = FALSE

\* ssh_sensor only: ^D on an empty line logs out, elsewhere it is ignored.
LogsOut ==
    /\ twin = "ssh"
    /\ \/ /\ buf # <<>> \/ present
          /\ Takes(CtrlD)
          /\ status' = IF buf = <<>> THEN "ctrl-d" ELSE "on"
          /\ UNCHANGED <<buf, logged>>
       \/ buf = <<>> /\ KeyFails(CtrlD)
    /\ last_was_cr' = FALSE

\* Any other key; in the base loop ^D is one of them.
Presses(k) ==
    /\ k \in Letters \/ (k = CtrlD /\ twin = "base")
    /\ present
    /\ Takes(k)
    /\ buf' = Append(buf, k)
    /\ last_was_cr' = FALSE
    /\ UNCHANGED <<logged, status>>

\* The echo of a key fails: one loop dies, the other drops the packet and
\* goes back to recv.
EchoFails(k) ==
    /\ k \in Letters \/ (k = CtrlD /\ twin = "base")
    /\ status = "on" /\ ~present
    /\ data # <<>> /\ Head(data) = k
    /\ data' = <<>>
    /\ buf' = Append(buf, k)
    /\ last_was_cr' = FALSE
    /\ taken' = Append(taken, k)
    /\ status' = IF twin = "ssh" THEN "failed" ELSE "on"
    /\ UNCHANGED <<twin, present, typed, logged, pressed>>

EditorNext ==
    \/ \E k \in Keys : Press(k)
    \/ CloseChannel
    \/ Receive \/ ReceiveEnd
    \/ SwallowLf
    \/ \E k \in {CR, LF} : LineEnd(k)
    \/ Erases \/ Interrupts \/ LogsOut
    \/ \E k \in Keys : Presses(k) \/ EchoFails(k)

EditorSpec == EditorInit /\ [][EditorNext]_editorVars

-----------------------------------------------------------------------------
(* Properties                                                              *)

\* The lines a terminal would make of a key sequence: one ends where a CR, or
\* an LF that does not follow a CR, was pressed, and each is edited by itself.
EndsAt(s) == {i \in DOMAIN s : s[i] = CR \/ (s[i] = LF /\ ~(i > 1 /\ s[i - 1] = CR))}

\* What the terminal of this loop shows of a line after one more key.
Shown(loop, line, k) ==
    CASE k = CtrlC -> <<>>
      [] k = Erase -> IF line = <<>> THEN line ELSE Front(line)
      [] k = LF \/ (k = CtrlD /\ loop = "ssh") -> line
      [] OTHER -> Append(line, k)
Edited(loop, s) ==
    LET edit[n \in 0..Len(s)] == IF n = 0 THEN <<>> ELSE Shown(loop, edit[n - 1], s[n])
    IN  edit[Len(s)]

\* The keys of the n-th line, when these are the ends.
KeysOfLine(s, ends, n) == SubSeq(s, (IF n = 1 THEN 0 ELSE ends[n - 1]) + 1, ends[n] - 1)

\* What is logged is what was typed: as long as the client is there every line
\* of the keys taken is logged, edited as its terminal showed it and once
\* whatever it ends lines with.  "Logs every line" (ssh_sensor.py:12-13) holds so
\* far and no further: a key that cannot be echoed to a client that has gone ends
\* the loop, or costs the rest of its packet, and the lines in it are lost.  They
\* are missing at the end; none is made up, torn or out of order.
LoggedAsTyped ==
    \E ends \in [DOMAIN logged -> EndsAt(taken)] :
        /\ \A m, n \in DOMAIN logged : m < n => ends[m] < ends[n]
        /\ \A i \in EndsAt(taken) : \/ \E n \in DOMAIN logged : ends[n] = i
                                    \/ ~present /\ \A n \in DOMAIN logged : ends[n] < i
        /\ \A n \in DOMAIN logged : logged[n] = Edited(twin, KeysOfLine(taken, ends, n))
=============================================================================
