---------------------------- MODULE FakeUniverse ----------------------------
(***************************************************************************)
(* The fake universe of one sensor: the file fake_world.json in the data   *)
(* directory, the threads that load it or make one up, and the singletons  *)
(* built from it (the SSH sensor's file system and live system, the file   *)
(* share's tree).                                                          *)
(*                                                                         *)
(* The installer writes the file as root, into a directory that only root  *)
(* and the synchroniser's group may search: the sensor's user can neither  *)
(* read nor write it, and each process makes up a universe of its own.     *)
(* Ad-hoc runs and tests have a directory of their own and may have no     *)
(* file.  All are initial states here.  A universe is a number, numbered   *)
(* in the order universes are generated.  A write truncates the file       *)
(* first, so another thread or a crash can meet it half written.           *)
(***************************************************************************)
EXTENDS Integers

CONSTANTS Sessions,      \* threads that run a shell of the SSH sensor
          ShareThread,   \* the file share's thread of the same process
          MaxStarts      \* bound: starts of the service

Threads == Sessions \cup {ShareThread}
NoWorld == 0             \* no universe
Half == -1               \* a file that does not parse, or of another schema
NoThread == "nobody"

ASSUME ThreadAssumption == ShareThread \notin Sessions /\ NoThread \notin Threads

VARIABLES
  file,        \* fake_world.json: NoWorld, Half or a universe
  seed,        \* the universe the installer left in it, or NoWorld
  readable,    \* may the sensor search its data directory
  writable,    \* and write into it
  made,        \* universes generated so far
  fs, sys,     \* _FS and _SYS: the universe they were built from
  share,       \* _SHARE
  lock,        \* _FS_LOCK
  uAt,         \* where each thread is
  world,       \* the universe a thread is building from
  shown,       \* universes a client has been shown
  starts

uniVars == <<file, seed, readable, writable, made, fs, sys, share, lock, uAt, world, shown, starts>>
memory == <<fs, sys, share, lock, uAt, world>>
disk == <<file, seed, readable, writable>>
seen == <<shown, starts>>

UniverseInit ==
  /\ \/ file = NoWorld /\ seed = NoWorld /\ readable = TRUE /\ writable = TRUE /\ made = 0
     \/ file = 1 /\ seed = 1 /\ readable \in BOOLEAN /\ writable = FALSE /\ made = 1
     \/ file = Half /\ seed = NoWorld /\ readable = TRUE /\ writable \in BOOLEAN /\ made = 0
  /\ fs = NoWorld /\ sys = NoWorld /\ share = NoWorld /\ lock = NoThread
  /\ uAt = [t \in Threads |-> "idle"]
  /\ world = [t \in Threads |-> NoWorld]
  /\ shown = {} /\ starts = 1

UniGoto(t, p) == uAt' = [uAt EXCEPT ![t] = p]

----------------------------------------------------------------------------
(* FakeWorld.load_or_create, in the steps another thread can see between. *)

(* FakeWorld._generate: names, addresses, secrets, drawn independently of  *)
(* any universe there was before.                                          *)
Generate == made' = made + 1

(* Mutant: the file is only written, never read back. *)
MutLoad(t) ==
  /\ uAt[t] = "load"
  /\ Generate
  /\ world' = [world EXCEPT ![t] = made']
  /\ UniGoto(t, IF writable THEN "truncate" ELSE "build")
  /\ UNCHANGED <<disk, fs, sys, share, lock, seen>>

(* A readable file of the current schema is the universe; anything else -  *)
(* missing, not permitted, unparsable, another schema - has a new one      *)
(* generated.                                                              *)
Load(t) ==
  /\ uAt[t] = "load"
  /\ IF readable /\ file \notin {NoWorld, Half}
     THEN /\ world' = [world EXCEPT ![t] = file]
          /\ UniGoto(t, "build") /\ UNCHANGED made
     ELSE /\ Generate
          /\ world' = [world EXCEPT ![t] = made']
          /\ UniGoto(t, IF writable THEN "truncate" ELSE "build")
  /\ UNCHANGED <<disk, fs, sys, share, lock, seen>>

Truncate(t) ==
  /\ uAt[t] = "truncate"
  /\ file' = Half
  /\ UniGoto(t, "write")
  /\ UNCHANGED <<seed, readable, writable, made, fs, sys, share, lock, world, seen>>

(* The write can fail half way (a full disk): load_or_create ignores it. *)
Write(t) ==
  /\ uAt[t] = "write"
  /\ file' \in {world[t], Half}
  /\ UniGoto(t, "build")
  /\ UNCHANGED <<seed, readable, writable, made, fs, sys, share, lock, world, seen>>

----------------------------------------------------------------------------
(* _get_fs and _get_sys of the SSH sensor. *)

(* _get_fs looks at _FS without the lock first. *)
GetFs(s) ==
  /\ uAt[s] = "idle"
  /\ UniGoto(s, IF fs # NoWorld THEN "shell" ELSE "wait")
  /\ UNCHANGED <<disk, made, fs, sys, share, lock, world, seen>>

Acquire(s) ==
  /\ uAt[s] = "wait" /\ lock = NoThread
  /\ IF fs # NoWorld
     THEN UniGoto(s, "shell") /\ UNCHANGED lock
     ELSE UniGoto(s, "load") /\ lock' = s
  /\ UNCHANGED <<disk, made, fs, sys, share, world, seen>>

BuildFs(s) ==
  /\ s \in Sessions /\ uAt[s] = "build"
  /\ fs' = world[s]
  /\ UniGoto(s, "buildsys")
  /\ UNCHANGED <<disk, made, sys, share, lock, world, seen>>

BuildSys(s) ==
  /\ uAt[s] = "buildsys"
  /\ sys' = world[s]
  /\ world' = [world EXCEPT ![s] = NoWorld]
  /\ lock' = NoThread
  /\ UniGoto(s, "shell")
  /\ UNCHANGED <<disk, made, fs, share, seen>>

(* A command that reads the file system shows its universe. *)
ReadFile(s) ==
  /\ uAt[s] = "shell"
  /\ shown' = shown \cup {fs}
  /\ UNCHANGED <<disk, memory, made, starts>>

(* _get_sys calls _get_fs when _SYS is None and returns _SYS whatever that *)
(* did: _get_fs returns at once when _FS is already there.                 *)
GetSys(s) ==
  /\ uAt[s] = "shell"
  /\ UniGoto(s, IF sys = NoWorld THEN "broken" ELSE "live")
  /\ UNCHANGED <<disk, made, fs, sys, share, lock, world, seen>>

(* uptime, ps, free and the rest of /proc are of the live system.          *)
ShowLive(s) ==
  /\ uAt[s] = "live"
  /\ shown' = shown \cup {sys}
  /\ UniGoto(s, "shell")
  /\ UNCHANGED <<disk, made, fs, sys, share, lock, world, starts>>

----------------------------------------------------------------------------
(* _get_share of the file share takes no lock: serve calls it before it    *)
(* listens, so its request threads find _SHARE set.                        *)

WarmShare ==
  /\ uAt[ShareThread] = "idle"
  /\ UniGoto(ShareThread, "load")
  /\ UNCHANGED <<disk, made, fs, sys, share, lock, world, seen>>

BuildShare ==
  /\ uAt[ShareThread] = "build"
  /\ share' = world[ShareThread]
  /\ world' = [world EXCEPT ![ShareThread] = NoWorld]
  /\ UniGoto(ShareThread, "serve")
  /\ UNCHANGED <<disk, made, fs, sys, lock, seen>>

ServeShare ==
  /\ share # NoWorld
  /\ shown' = shown \cup {share}
  /\ UNCHANGED <<disk, memory, made, starts>>

----------------------------------------------------------------------------
(* The service stops anywhere, a half-written file stays half written, and *)
(* systemd starts it again.                                                *)
RestartService ==
  /\ starts < MaxStarts
  /\ starts' = starts + 1
  /\ fs' = NoWorld /\ sys' = NoWorld /\ share' = NoWorld /\ lock' = NoThread
  /\ uAt' = [t \in Threads |-> "idle"]
  /\ world' = [t \in Threads |-> NoWorld]
  /\ UNCHANGED <<disk, made, shown>>

UniverseNext ==
  \/ \E t \in Threads : Load(t) \/ Truncate(t) \/ Write(t)
  \/ \E s \in Sessions : \/ GetFs(s) \/ Acquire(s) \/ BuildFs(s) \/ BuildSys(s)
                         \/ ReadFile(s) \/ GetSys(s) \/ ShowLive(s)
  \/ WarmShare \/ BuildShare \/ ServeShare
  \/ RestartService

UniverseSpec == UniverseInit /\ [][UniverseNext]_uniVars

----------------------------------------------------------------------------
(* As installed, the sensor cannot read its data directory: every process  *)
(* makes up universes of its own, but one for all its sessions and one for *)
(* its file share at the most, so that no more are ever made than two for  *)
(* each start, however the threads race.  Where the directory is open to   *)
(* the sensor, what the installer left there is the only universe a client *)
(* is ever shown, by either sensor and after any restart, and nothing      *)
(* overwrites it.  And everywhere, while a process lives, its file system  *)
(* and its live system are of one universe, whichever thread built them    *)
(* and whatever the file share's thread did to the file.                   *)
OneUniverse ==
  /\ made <= seed + 2 * starts
  /\ (seed # NoWorld /\ readable) => (shown \subseteq {seed} /\ file = seed)
  /\ sys # NoWorld => fs = sys
=============================================================================
