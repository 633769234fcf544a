------------------------------ MODULE DecoyShells ------------------------------
(***************************************************************************)
(* The shells that pretend to be an ESXi host and a Windows server         *)
(* (esxi_shell, win_shell), and the classifier that says what a line means *)
(* (core.classify, and the rules each shell adds to it).  Each line is     *)
(* read twice, by classify() for the log and by execute() for the answer;  *)
(* the two must agree on what the intruder was doing.                      *)
(*                                                                         *)
(* A line is the sequence of its words in lower case, and whether more     *)
(* than one blank separates them: execute() splits at any blanks, while a  *)
(* regular expression may want exactly one.  A URL is the word "http:",    *)
(* encoded PowerShell the word "base64".                                   *)
(***************************************************************************)
EXTENDS Naturals, Sequences, SequencesExt

CONSTANTS
    EsxiLines, WinLines,   \* what the intruder may type
    MaxLines               \* bound: lines of one session

VARIABLES
    shell,      \* "esxi" or "win"
    account,    \* the account that logged in
    where,      \* cwd: what was typed for ESXi, the parts of the path for Windows
    line,       \* the line just read
    answer,     \* what execute() made of it: [kind, did]
    tags,       \* what classify() made of it: [techniques, category]
    lines       \* lines read

decoyVars == <<shell, account, where, line, answer, tags, lines>>

NoLine == [words |-> <<>>, wide |-> FALSE]

-----------------------------------------------------------------------------
(* core.classify                                                           *)

\* The words of a pattern occur in the line in this order, each step of the
\* pattern being a set of alternatives.
Occurs(pattern, words) ==
    \E at \in [DOMAIN pattern -> DOMAIN words] :
        /\ \A i \in DOMAIN pattern : words[at[i]] \in pattern[i]
        /\ \A i, j \in DOMAIN pattern : i < j => at[i] < at[j]

Rule(patterns, category, techniques) ==
    [patterns |-> patterns, category |-> category, techniques |-> techniques]

\* "Ordered most-specific first": the rules that the lines of these two
\* shells can meet.
CmdRules ==
    << Rule({<<{"wget", "curl"}, {"http:"}>>}, "payload_download", {"T1105"}),
       Rule({<<{"tftp", "ftpget", "scp", "rsync"}>>}, "payload_download", {"T1105"}),
       Rule({<<{"chmod", "chattr"}, {"+x", "777", "755"}>>}, "make_executable", {"T1222"}),
       Rule({<<{"echo", "printf"}, {"|"}, {"sh", "bash"}>>, <<{"wget", "curl"}, {"|"}, {"sh", "bash"}>>},
            "pipe_to_shell", {"T1059.004", "T1105"}),
       Rule({<<{"systemctl", "service"}, {"enable", "start"}>>}, "persistence_service", {"T1543.002"}),
       Rule({<<{"uname", "lscpu", "nproc"}>>}, "recon_system", {"T1082"}),
       Rule({<<{"whoami", "id", "groups"}>>}, "recon_user", {"T1033"}),
       Rule({<<{"ifconfig", "netstat", "arp", "route"}>>}, "recon_network", {"T1016"}),
       Rule({<<{"/etc/passwd", "/etc/shadow"}>>}, "recon_accounts", {"T1087.001"}),
       Rule({<<{"rm"}, {"-rf"}, {"/", "/vmfs"}>>}, "destruction", {"T1485"}) >>

NavigationWords == {"ls", "cd", "pwd", "cat", "echo", "clear", "exit", "logout"}

Matches(rule, words) == \E pattern \in rule.patterns : Occurs(pattern, words)

\* All matching rules contribute techniques, the first one sets the category.
ClassifyCommand(words) ==
    LET hits == SelectSeq(CmdRules, LAMBDA rule : Matches(rule, words))
    IN  [techniques |-> UNION {hits[i].techniques : i \in DOMAIN hits},
         category |-> IF words = <<>> THEN "empty"
                      ELSE IF hits # <<>> THEN Head(hits).category
                      ELSE IF Head(words) \in NavigationWords THEN "navigation"
                      ELSE "other"]

-----------------------------------------------------------------------------
(* The rules of the personalities                                          *)

Has(l, words) == \E i \in DOMAIN l.words : l.words[i] \in words
Adjacent(l, words) ==
    \E i \in DOMAIN l.words : IsPrefix(words, SubSeq(l.words, i, Len(l.words)))

\* "vm process kill" with single blanks, or a power operation.
StopsVms(l) ==
    \/ ~l.wide /\ Adjacent(l, <<"vm", "process", "kill">>)
    \/ Has(l, {"vmsvc/power.off", "vmsvc/power.shutdown", "vmsvc/power.suspend"})

EsxiRules(l) ==
    << [holds |-> StopsVms(l), category |-> "service_stop", techniques |-> {"T1489"}],
       [holds |-> Has(l, {"*.vmdk"}),
        category |-> "encryption_target_recon", techniques |-> {"T1083"}],
       [holds |-> Has(l, {"./encrypt"}),
        category |-> "data_encrypted_for_impact", techniques |-> {"T1486"}],
       [holds |-> Has(l, {"vmdumper", "vsish"}), category |-> "", techniques |-> {"T1082"}] >>

TurnsRecoveryOff(l) ==
    Adjacent(l, <<"recoveryenabled", "no">>) \/ Adjacent(l, <<"bootstatuspolicy", "ignoreallfailures">>)

InhibitsRecovery(l) ==
    \/ Adjacent(l, <<"vssadmin", "delete", "shadows">>)
    \/ Adjacent(l, <<"wbadmin", "delete">>)
    \/ Has(l, {"bcdedit"}) /\ TurnsRecoveryOff(l)

\* net user <name> <password> /add, net localgroup administrators <name> /add
CreatesAccount(l) ==
    \E i \in DOMAIN l.words :
        /\ l.words[i] = "net" /\ i + 4 \in DOMAIN l.words /\ l.words[i + 4] = "/add"
        /\ \/ l.words[i + 1] = "user"
           \/ l.words[i + 1] = "localgroup" /\ l.words[i + 2] = "administrators"

Decoded(l) == Adjacent(l, <<"-enc", "base64">>)

WinRules(l) ==
    << [holds |-> Decoded(l), category |-> "obfuscated_powershell", techniques |-> {"T1059.001", "T1027"}],
       [holds |-> InhibitsRecovery(l), category |-> "inhibit_system_recovery", techniques |-> {"T1490"}],
       [holds |-> CreatesAccount(l), category |-> "create_account", techniques |-> {"T1136.001"}],
       [holds |-> Occurs(<<{"reg"}, {"save", "export"}, {"sam"}>>, l.words) \/ Has(l, {"ntdsutil"}),
        category |-> "credential_dumping", techniques |-> {"T1003"}],
       [holds |-> Occurs(<<{"certutil"}, {"-urlcache"}>>, l.words) \/ Has(l, {"iwr", "curl", "wget"}),
        category |-> "payload_download", techniques |-> {"T1105"}],
       [holds |-> \E w \in {"view", "group", "user", "share"} : Adjacent(l, <<"net", w>>),
        category |-> "discovery", techniques |-> {"T1087"}] >>

\* cat = cat or "...": base always has a category, if only "other", so that no
\* rule of a personality ever sets one; its techniques do come through.
OrElse(cat, other) == IF cat # "" THEN cat ELSE other
CategoryOf(first, rules) ==
    FoldLeft(LAMBDA cat, rule : IF rule.holds THEN OrElse(cat, rule.category) ELSE cat, first, rules)

Classify(l) ==
    LET base == ClassifyCommand(l.words)
        rules == IF shell = "esxi" THEN EsxiRules(l) ELSE WinRules(l)
        hits == {i \in DOMAIN rules : rules[i].holds}
    IN  [techniques |-> base.techniques \union UNION {rules[i].techniques : i \in hits},
         category |-> CategoryOf(base.category, rules)]

-----------------------------------------------------------------------------
(* execute(): what is answered, and what it pretends to have done          *)

Answers(kind) == [kind |-> kind, did |-> "nothing"]
Pretends(kind, what) == [kind |-> kind, did |-> what]
Begins(args, words) == IsPrefix(words, args)

Esxcli(args) ==
    IF Begins(args, <<"vm", "process", "list">>) THEN Answers("vms")
    ELSE IF Begins(args, <<"vm", "process", "kill">>) THEN Pretends("silence", "vm stopped")
    ELSE IF args # <<>> /\ args[1] \in {"system", "hardware", "network", "storage"}
      THEN Answers("information")
    ELSE Answers("usage")

Vimcmd(args) ==
    IF args = <<>> THEN Answers("unknown")
    ELSE IF args[1] \in {"vmsvc/power.off", "vmsvc/power.shutdown", "vmsvc/power.suspend"} /\ Len(args) > 1
      THEN Pretends("silence", "vm stopped")
    ELSE IF args[1] \in {"vmsvc/getallvms", "vmsvc/power.getstate"} THEN Answers("vms")
    ELSE IF args[1] = "hostsvc/hostsummary" THEN Answers("information")
    ELSE Answers("unknown")

EsxiLs(args) ==
    LET target == IF args # <<>> /\ Last(args) # "-l" THEN Last(args) ELSE where
    IN  Answers(CASE target = "/vmfs/volumes" -> "datastores"
                  [] target = "/vmfs" -> "volumes"
                  [] target = "/" -> "root"
                  [] target = "/vmfs/volumes/datastore1" -> "vms"
                  [] OTHER -> "silence")

EsxiExecute(words) ==
    LET c == Head(words)  args == Tail(words)
    IN  CASE c \in {"exit", "logout", "quit"} -> Answers("exit")
          [] c = "esxcli" -> Esxcli(args)
          [] c = "vim-cmd" -> Vimcmd(args)
          [] c = "ls" -> EsxiLs(args)
          [] c = "cd" -> Answers("silence")
          [] c = "find" -> Answers(IF Contains(args, "*.vmdk") THEN "vms" ELSE "silence")
          [] c \in {"vmware", "esxtop", "df", "ps", "uname", "whoami", "id", "hostname",
                    "uptime", "date", "pwd", "help", "echo"} -> Answers("information")
          [] OTHER -> Answers("unknown")

\* The directories that exist; the parts of a path without a trailing slash.
\* dir takes its last word for one, unless that is an option.
Options == {"/a", "/b", "/s", "/w"}
Dir(path) ==
    Answers(IF path \in {<<>>, <<"c:">>} THEN "root"
            ELSE IF \E i \in 1..(Len(path) - 1) : SubSeq(path, i, i + 1) = <<"users", "administrator">>
              THEN "desktop and secrets"
            ELSE IF Last(path) = "users" THEN "accounts"
            ELSE "not found")

WinExecute(words) ==
    LET c == Head(words)  args == Tail(words)
    IN  CASE c \in {"exit", "logoff"} -> Answers("exit")
          [] c = "dir" ->
               Dir(IF args # <<>> /\ Last(args) \notin Options THEN <<Last(args)>> ELSE where)
          [] c = "type" -> Answers(IF args # <<>> /\ args[1] \in {"vcenter-creds.txt", "passwords.xlsx"}
                                   THEN "secret" ELSE "not found")
          [] c = "cd" -> Answers("silence")
          [] c = "net" -> IF Contains(args, "/add") THEN Pretends("information", "account made")
                          ELSE Answers("information")
          [] c \in {"powershell", "powershell.exe", "pwsh"} ->
               IF Decoded([words |-> words, wide |-> FALSE])
               THEN Pretends("silence", "script run") ELSE Answers("silence")
          [] c \in {"vssadmin", "wbadmin"} ->
               IF Contains(args, "delete") THEN Pretends("success", "recovery inhibited") ELSE Answers("success")
          [] c = "bcdedit" ->
               IF TurnsRecoveryOff([words |-> args, wide |-> FALSE]) THEN Pretends("success", "recovery inhibited")
               ELSE Answers("success")
          [] c = "cipher" -> Pretends("success", "disk wiped")
          [] c = "certutil" -> Pretends("success", "file fetched")
          [] c \in {"whoami", "systeminfo", "ipconfig", "tasklist", "arp", "netstat", "nltest",
                    "wmic", "reg", "echo", "set", "ver", "hostname", "query"} -> Answers("information")
          [] c \in {"md", "del", "copy", "move", "ren", "attrib"} -> Answers("silence")
          [] OTHER -> Answers("unknown")

\* cd takes any word: ESXi keeps it as typed, Windows glues it to the path.
Moves(words) ==
    IF words = <<>> \/ Head(words) # "cd" THEN where
    ELSE IF shell = "esxi" THEN (IF Len(words) > 1 THEN words[2] ELSE "/")
    ELSE IF Len(words) = 1 THEN where
    ELSE IF words[2] = "c:" THEN <<"c:">> ELSE Append(where, words[2])

-----------------------------------------------------------------------------
DecoyInit ==
    /\ \/ shell = "esxi" /\ account = "root" /\ where = "/"
       \/ shell = "win" /\ account \in {"administrator", "admin"} /\ where = <<"c:", "users", account>>
    /\ line = NoLine
    /\ answer = Answers("prompt")
    /\ tags = [techniques |-> {}, category |-> "empty"]
    /\ lines = 0

ReadLine(l) ==
    /\ lines < MaxLines /\ answer.kind # "exit"
    /\ lines' = lines + 1
    /\ line' = l
    /\ tags' = Classify(l)
    /\ answer' = IF l.words = <<>> THEN Answers("silence")
                 ELSE IF shell = "esxi" THEN EsxiExecute(l.words) ELSE WinExecute(l.words)
    /\ where' = Moves(l.words)
    /\ UNCHANGED <<shell, account>>

DecoyNext == \E l \in (IF shell = "esxi" THEN EsxiLines ELSE WinLines) : ReadLine(l)

DecoySpec == DecoyInit /\ [][DecoyNext]_decoyVars

-----------------------------------------------------------------------------
(* Statements of the comments                                              *)

=============================================================================
