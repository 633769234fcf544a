------------------------------ MODULE FakeShell ------------------------------
(***************************************************************************)
(* The shell of the SSH sensor over its fake file system: path resolution, *)
(* the tree, and the commands that look at it.  A client types commands    *)
(* and remembers what each one claimed about each path; the sensor         *)
(* remembers which bait documents it saw leave.                            *)
(*                                                                         *)
(* A string is split at its slashes, so "/etc" is <<"", "etc">>, "//x" is  *)
(* <<"", "", "x">> and "/" is <<"", "">>; appending "/" and a string is    *)
(* then concatenation.  A path that has been resolved is the sequence of   *)
(* its names, with "//" in front if it is the string with four slashes     *)
(* that two of them become.                                                *)
(***************************************************************************)
EXTENDS Naturals, Sequences, SequencesExt, FiniteSets

CONSTANTS Users,       \* account names that can log in, each one plain name
          Typed,       \* arguments the client types, split at their slashes
          MaxCommands  \* bound: commands of one session

Nameless == ""

ASSUME ShellAssumption ==
  /\ Users \subseteq STRING \ {Nameless, ".", "..", "//"}
  /\ Typed \subseteq Seq(STRING \ {"//"}) \ {<<>>, <<Nameless>>}

VARIABLES user, cwd, home, claims, copies, noted, commands, open

shellVars == <<user, cwd, home, claims, copies, noted, commands, open>>

----------------------------------------------------------------------------
(* FakeFS._build: one file of every sort the commands treat differently.   *)
(* kind is what the bytes are, "text" or "binary"; private is a mode with  *)
(* rw-------.                                                              *)

Entry(path, kind, private, owner) ==
  [path |-> path, kind |-> kind, private |-> private, owner |-> owner]

Plain ==
  { Entry(<<"etc", "passwd">>, "text", FALSE, "root"),
    Entry(<<"root", "notes">>, "text", FALSE, "root"),
    Entry(<<"root", ".ssh", "id_rsa">>, "text", TRUE, "root"),
    Entry(<<"home", "admin", ".history">>, "text", TRUE, "admin"),
    Entry(<<"var", "backups", "db.gz">>, "binary", FALSE, "root"),
    Entry(<<"proc", "version">>, "text", FALSE, "root") }

Canaries ==
  { Entry(<<"root", "vault.docx">>, "binary", TRUE, "root"),
    Entry(<<"root", "meeting.rtf">>, "text", TRUE, "root") }

(* render_proc_path: /proc files that exist for cat only. *)
Live == { <<"proc", "meminfo">> }

Entries == Plain \cup Canaries
Files == { e.path : e \in Entries }
CanaryPaths == { e.path : e \in Canaries }
EntryOf(p) == CHOOSE e \in Entries : e.path = p

(* "Auto-create parent directories". *)
Parents(p) == { SubSeq(p, 1, n) : n \in 0 .. Len(p) - 1 }

Dirs == UNION { Parents(p) : p \in Files }
Tree == Files \cup Dirs
Below(d) == { p \in Tree : IsStrictPrefix(d, p) }
Children(d) == { Append(d, p[Len(d) + 1]) : p \in Below(d) }

Hidden(p) == p # <<>> /\ Last(p) \in {".ssh", ".history"}

----------------------------------------------------------------------------
(* FakeFS._norm                                                            *)

(* A PurePosixPath keeps exactly two leading slashes as a root of its own. *)
TwoSlashes(t) == Len(t) >= 3 /\ t[2] = Nameless /\ (t[3] # Nameless \/ Len(t) = 3)

Onto(done, name) ==
  CASE name \in {Nameless, "."} -> done
    [] name = ".." -> IF done = <<>> THEN <<>> ELSE Front(done)
    [] OTHER -> Append(done, name)

Walk(t) ==
  LET walk[i \in 0..Len(t)] == IF i = 0 THEN <<>> ELSE Onto(walk[i - 1], t[i])
  IN  walk[Len(t)]

Norm(t) == IF TwoSlashes(t) THEN <<"//">> \o Walk(t) ELSE Walk(t)

(* The root "//", joined to the names with slashes and one in front, gives *)
(* four of them.                                                           *)
Doubled(p) == p # <<>> /\ Head(p) = "//"
Split(p) ==
  CASE p = <<>> -> <<Nameless, Nameless>>
    [] p # <<>> /\ Doubled(p) -> <<Nameless, Nameless, Nameless, Nameless>> \o Tail(p)
    [] OTHER -> <<Nameless>> \o p

\* Mutant: the tree takes a path as it was resolved.
MutAsked(p) == p

(* exists, is_dir, is_file, is_canary, read, meta and list_dir all         *)
(* normalise once more what they are asked about.                          *)
Asked(p) == Norm(Split(p))
Exists(p) == Asked(p) \in Tree
IsDir(p) == Asked(p) \in Dirs
IsFile(p) == Asked(p) \in Files

(* _resolve: "~" is taken as it is, "~/x" is glued to HOME, and a relative *)
(* path to the current directory without its trailing slashes.             *)
Absolute(t) == Len(t) > 1 /\ t[1] = Nameless
Trimmed(p) == IF p \in {<<>>, <<"//">>} THEN <<Nameless>> ELSE Split(p)
Resolve(t) ==
  IF t = <<"~">> THEN home
  ELSE LET tilde == IF t[1] = "~" THEN Split(home) \o Tail(t) ELSE t
       IN  Norm(IF Absolute(tilde) THEN tilde ELSE Trimmed(cwd) \o tilde)

----------------------------------------------------------------------------
(* What one command claims about the paths it names. *)

(* Any number of leading slashes means the root to the system the shell    *)
(* imitates, and to its client.                                            *)
Meant(p) == IF Doubled(p) THEN Tail(p) ELSE p

Claim(p, there, by) ==
  [path |-> Meant(p), there |-> there, by |-> by, doubled |-> Doubled(p)]
Says(ps, there, by) == { Claim(p, there, by) : p \in ps }

Denied(f) == /\ EntryOf(f).private
             /\ user \notin {EntryOf(f).owner, "root"}

(* cat: existence, kind, permission; a bait document is noted and not      *)
(* printed.                                                                *)
CatShows(f) == f \in Files \ CanaryPaths /\ ~Denied(f) /\ EntryOf(f).kind = "text"
CatNotes(f) == f \in CanaryPaths /\ ~Denied(f)

LsSays(p, shown) ==
  LET entries == IF IsDir(p) THEN {c \in Children(Asked(p)) : shown \/ ~Hidden(c)} ELSE {}
  IN  IF Exists(p) THEN Says({p} \cup entries, TRUE, "ls") ELSE Says({p}, FALSE, "ls")

(* The live files of /proc go by the path as resolved, and before all.     *)
CatSays(p) == Says({p}, p \in Live \/ Exists(p), "cat")

(* head, tail and the checksums read at once: a directory is a file that   *)
(* is not there.                                                           *)
HeadSays(p) == Says({p}, IsFile(p), "head")
HashSays(p) == Says({p}, IsFile(p), "hash")

(* find and grep -r compare the paths of the tree with the one resolved,   *)
(* which four slashes match nowhere; alone they are stripped to none.      *)
Found(p) == IF p \in {<<>>, <<"//">>} THEN Tree ELSE {q \in Tree : IsPrefix(p, q)}

FindSays(p) ==
  IF Exists(p) /\ Found(p) # {} THEN Says(Found(p), TRUE, "find") ELSE Says({p}, FALSE, "find")

Grepped(p) == IF IsFile(p) THEN {Asked(p)} ELSE Found(p) \cap Files
GrepSays(p) == Says(Grepped(p), TRUE, "grep")

FileSays(p) == Says({p}, Exists(p), "file")
StatSays(p) == Says({p}, Exists(p), "stat")
Base64Says(p) == Says({p}, Exists(p), "base64")

Answer(command, p) ==
  CASE command = "ls" -> LsSays(p, FALSE)
    [] command = "ls -a" -> LsSays(p, TRUE)
    [] command = "cat" -> CatSays(p)
    [] command = "head" -> HeadSays(p)
    [] command = "hash" -> HashSays(p)
    [] command = "find" -> FindSays(p)
    [] command = "grep -r" -> GrepSays(p)
    [] command = "file" -> FileSays(p)
    [] command = "stat" -> StatSays(p)
    [] command \in {"base64", "cat | base64", "base64 | head"} -> Base64Says(p)

(* Which files' complete bytes reach the client: base64 sends them all,    *)
(* head, tail and grep send text.                                          *)
Sends(command, p) ==
  CASE command = "cat" -> {f \in {Asked(p)} : CatShows(f)}
    [] command = "head" -> {f \in {Asked(p)} \cap Files : EntryOf(f).kind = "text"}
    [] command = "grep -r" -> {f \in Grepped(p) : EntryOf(f).kind = "text"}
    [] command \in {"base64", "cat | base64"} -> {Asked(p)} \cap Files
    [] OTHER -> {}

(* _emit_canary_event, of cat and every form of base64: it names the path  *)
(* as resolved.                                                            *)
Notes(command, p) ==
  CASE command = "cat" -> {q \in {p} : CatNotes(Asked(q))}
    [] command \in {"base64", "cat | base64", "base64 | head"} ->
         {q \in {p} : Asked(q) \in CanaryPaths}
    [] OTHER -> {}

----------------------------------------------------------------------------
ShellInit ==
  /\ user \in Users
  /\ LET start == IF user = "root" THEN <<"root">> ELSE <<"home", user>>
     IN  cwd = IF Exists(start) THEN start ELSE <<>>
  /\ home = cwd
  /\ claims = {} /\ copies = {} /\ noted = {} /\ commands = 0
  /\ open = TRUE

Ready == open /\ commands < MaxCommands

Cd(t) ==
  /\ Ready
  /\ LET target == Resolve(t) IN
       /\ cwd' = IF IsDir(target) THEN target ELSE cwd
       /\ claims' = claims \cup Says({target}, Exists(target), "cd")
  /\ commands' = commands + 1
  /\ UNCHANGED <<user, home, copies, noted, open>>

(* A sudo in front of the command runs it as the same user: nothing else.  *)
Look(command, t) ==
  /\ Ready
  /\ LET p == Resolve(t) IN
       /\ claims' = claims \cup Answer(command, p)
       /\ copies' = copies \cup { [path |-> q, by |-> command] : q \in Sends(command, p) }
       /\ noted' = noted \cup Notes(command, p)
  /\ commands' = commands + 1
  /\ UNCHANGED <<user, cwd, home, open>>

(* find without a path starts in the current directory as it was resolved. *)
FindHere ==
  /\ Ready
  /\ claims' = claims \cup FindSays(cwd)
  /\ commands' = commands + 1
  /\ UNCHANGED <<user, cwd, home, copies, noted, open>>

(* A pipe or redirection other than the two forms of base64, a command of  *)
(* the fall-through, and everything that reads no file.                    *)
Silent == Ready /\ commands' = commands + 1
          /\ UNCHANGED <<user, cwd, home, claims, copies, noted, open>>

Exit == open /\ open' = FALSE /\ UNCHANGED <<user, cwd, home, claims, copies, noted, commands>>

Lookers == {"ls", "ls -a", "cat", "head", "hash", "find", "grep -r", "file", "stat",
            "base64", "cat | base64", "base64 | head"}

ShellNext ==
  \/ \E t \in Typed : Cd(t)
  \/ \E command \in Lookers, t \in Typed : Look(command, t)
  \/ FindHere
  \/ Silent
  \/ Exit

ShellSpec == ShellInit /\ [][ShellNext]_shellVars

----------------------------------------------------------------------------
(* Whatever a client does, two commands contradict each other about what   *)
(* it means by a path in three ways only: cat knows live /proc files no    *)
(* other command knows, head and the checksums call a directory missing,   *)
(* and find shows nothing of a path resolved from two leading slashes,     *)
(* which is what "~/x" becomes for an account without a home directory:    *)
(* every other command takes it for the path with one.  In particular      *)
(* every name a listing or find shows can be walked to, read and listed,   *)
(* and the current directory is one.                                       *)
StoriesAgree ==
  /\ IsDir(cwd)
  /\ \A yes, no \in claims :
       yes.path = no.path /\ yes.there /\ ~no.there =>
         \/ yes.path \in Live /\ yes.by = "cat"
         \/ yes.path \in Dirs /\ no.by \in {"head", "hash"}
         \/ no.doubled /\ no.by = "find"

(* A complete copy of a bait document never leaves by way of base64        *)
(* without the event that says so, under whatever name, and what head or   *)
(* grep hand out silently is text only.                                    *)
CanaryCopiesNoted ==
  \A c \in copies :
    c.path \in CanaryPaths /\ c.path \notin {Asked(p) : p \in noted} =>
      c.by \in {"head", "grep -r"} /\ EntryOf(c.path).kind = "text"

\* Both: the shell keeps its story, and notes who copies the bait.
ShellKeepsItsStory == StoriesAgree /\ CanaryCopiesNoted
=============================================================================
