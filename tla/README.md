# A TLA+ model of the honeypot deployer

This directory specifies, model-checks and in part proves the behaviour of the
agent under `src/nodewatch` and of what `install.sh` sets up around it. It is a
reading of the code: every definition names, in `PROJECT.json` under `map`, the
source lines it stands for, or is marked external where it stands for rsyslog,
git, the network, the clock, a client or the SSH library.

    tlc   -workers 2 -config MCDecoys.cfg MCDecoys.tla
    tlapm Tables_proofs.tla

## 1. The system

An agent is several processes on one host that share a log directory, a data
directory and one clone of a git repository.

| Component | Source | State | Operations |
|---|---|---|---|
| Event log | `core/logger.py` | `events.jsonl`, `sessions/`, `by_ip/` | `emit`, `heartbeat`, `configure` |
| Aggregator | `sync/aggregator.py` | cursor `.git/hp-state.json`; raw files, `ips/`, `sessions/`, `node.json` | `run` |
| Synchroniser | `sync/github_sync.py` | the clone: HEAD, `main`, tree, index lock; the remote | `main`, `maintain` |
| Log-prune script | written by `install.sh` 1102-1175 | `events.jsonl` and the cursor | truncate and reset |
| Session tracker | `core/session.py` | one table per process | `get` |
| Connection logger | `network/connection_logger.py` | open file, position, inode | `_tail` |
| Passive capture | `network/packet_capture.py`, `core/fingerprint.py` | pending first bytes per flow, timers | `_handle`, `_flush_after` |
| Runner and watchdog | `runner.py`, the `serve` of each sensor, `beacon.py` | named threads, bound ports | start, `_watchdog`, exit |
| SSH front | `ssh_sensor.py`, `ssh_shell_base.py` | channels, Event, exec table, line being typed | transport callbacks, `handle`, line loop |
| Fake shell and file system | `ssh_sensor.py`, `fake_fs.py`, `fake_system.py` | current directory; a read-only tree | each command |
| Fake world | `fake_world.py` | `fake_world.json`, two singletons per process | load, generate, write |
| Personalities | `esxi_shell.py`, `win_shell.py`, `core/classify.py` | current directory | `classify`, `execute` |
| File share | `fileshare_sensor.py` | the tree, the download registry | requests, downloads, beacons, NTLM |
| Canaries | `core/canary.py`, the builders in `fake_fs.py` | links inside documents | build, recognise |
| Web decoys | `owa_sensor.py`, `esxi_sensor.py` | a cookie | requests |
| Docker, Redis, Telnet, RDP, Windows ports | one sensor each | container table; directory last configured; login attempts; bytes read | one protocol each |
| Enrichment | `core/enrichment.py` | database readers, exit list, names, burst counters | `enrich`, reloads, `_record_connection` |
| Lifecycle | `install.sh`, `upgrade.sh`, `uninstall.sh` | users, units, files, firewall | install, upgrade, uninstall |

**How they interact.** Sensors, capture and connection logger append JSON lines
to the one `events.jsonl`; every one of them goes through enrichment and the
tracker first. Every five minutes a timer starts a sync: the aggregator reads
the log behind its cursor, writes the clone's files and then the cursor; the
synchroniser commits, pulls, pushes and trims. Once a day the prune script, as
root, truncates the log and resets the cursor. Log, cursor and clone are shared
without locks; only systemd keeps a unit from running twice. Within a sensor,
threads share a table, a reader, a singleton or an Event, with a lock, a partial
lock or none. The watchdog turns the death of one named thread into a restart
of the whole process, which forgets every table.

**What is hard.** Interleavings on the log file; a run killed between two of its
writes; the merge of a batch into a file that holds earlier batches; git
commands that fail and are passed over; one wake-up shared by several channels;
a file renamed under its reader; a port pair reused before its timer has fired;
a table iterated by one request and changed by another; a reader closed while
another thread is in it; a silent client, an empty read, a reset in the middle
of a message; a process without the right to read its own data. The repository
has no tests. `PROJECT.json` lists each such hazard at its line.

**What makes each part correct.**

* Event log, aggregator, prune: an emitted event reaches the repository, once.
* Profiles: what a profile says depends on the events, not on the batches.
* Synchroniser: what is written gets to the remote; what is trimmed is there.
* Tracker, burst counters: one id per visit, honest counts, bounded tables.
* Connection logger, capture: each line once and in order; a fingerprint is of
  one client.
* SSH channels: each request is answered on its own channel; no connection keeps
  a thread for ever.
* Shells: what is logged is what was typed; what is pretended should be flagged;
  what was said about a path stays true.
* Decoy ports: whatever was received is told, and no story contradicts itself.
* Canaries: every link leads home, and a beacon is tied to the right download.
* Fake world: a node shows one identity.
* Supervision: a lost port is noticed and comes back.

## 2. Modules

| Module | Models | State and actions |
|---|---|---|
| `EventPipeline` | `emit`, `aggregator.run`, the prune script on one log file | `file` and `cursor`; one action per write of a run, five steps of prune |
| `EventDelivery` | the promise about an event, without files or cursors | abstract specification that `EventPipeline` refines |
| `ProfileMerge` | the folds and merges of `ips/` and `sessions/`, the verdict | the file (`prof`, `sess`), the batch (`upd`, `sessUpd`), and `whole`, one run over everything |
| `GitSync` | `main` and `maintain` over histories | per clone HEAD, `main`, tree, lock; one action per git command |
| `SessionTracker` | `IpSessionTracker.get` in several processes | the ordered table; a clock that can be set back |
| `ConnlogTail` | `_tail` against rsyslog and rotation | one action per system call of the reader |
| `SshChannels` | the channels of one SSH connection | queue, Event, exec table, a thread per channel |
| `LineEditor` | the two interactive loops, key by key | the keys in flight, the line, the log; sends that fail |
| `FakeShell` | path resolution, the tree, the commands that look at it | current directory; what each path was claimed to be; bait seen leaving |
| `DecoyShells` | the ESXi and Windows shells and `classify` | the line, its tags, what the shell pretends it did |
| `FakeUniverse` | `fake_world.json` and the singletons made of it | per thread where it stands between load, generate, truncate, write, build |
| `CanaryBeacon` | the download registry, beacons, NTLM reports, restarts | the registry, and the downloads it should remember |
| `BeaconRoutes` | the links of five document formats and the patterns that recognise them | a document that leaves, is opened, and calls |
| `ShareTree` | the share's tree, listings, redirects, login page | the last request and what its page promises |
| `HttpDecoys` | OWA and ESXi web routes | the visitor's cookie, what was asked, what was heard |
| `DockerSensor` | request threads over the container table | insert, move, room, evict, record; an iteration step by step |
| `RedisSession` | a connection's commands and their chains | the directory last set, the log |
| `TelnetSession` | login and shell of one connection | attempts, the user, the client's half-closed stream |
| `PortProbes` | RDP messages and the Windows ports | bytes in units, silence, cuts, the budget |
| `PacketCapture` | one port pair used by several connections | the pending buffer, timers, fingerprints |
| `GeoReaders` | database readers, exit list, cache of names under threads | per thread its step; generations of files |
| `ConnectionTiming` | `_record_connection` | the table of counters, and the calls it should describe |
| `Supervision` | profiles, ports, threads, watchdog, systemd | per service what it tries and listens on |
| `MCEventPipeline`, `MCProfileMerge`, `MCDecoyShells` | instances of the module of that name | constants for TLC |
| `MCLogs` | `EventPipeline` and `ConnlogTail` side by side | `part`, see section 3 |
| `MCDecoys` | fourteen parts side by side | `part`, see section 3 |
| `MCServices` | four parts with fairness side by side | `part`, see section 3 |
| `EventPipeline_proofs`, `GitSync_proofs`, `ProfileMerge_proofs` | theorems about the module of that name | section 5 |
| `Services_proofs` | theorems about `SshChannels`, `Supervision`, `TelnetSession`, `GeoReaders` | section 5 |
| `Tables_proofs` | about `SessionTracker`, `DockerSensor`, `CanaryBeacon`, `ConnectionTiming` | section 5 |
| `Connections_proofs` | about `ConnlogTail`, `PacketCapture` | section 5 |
| `Decoys_proofs` | about `FakeUniverse`, `PortProbes`, `HttpDecoys`, `RedisSession`, `BeaconRoutes` | section 5 |
| `Shells_proofs` | about `FakeShell`, `ShareTree`, `LineEditor` | section 5 |

`EventPipeline` composes three components that share a file. It leaves out what
a profile says, which `ProfileMerge` models, and what happens to the clone
afterwards, which `GitSync` models; both take the aggregator's batch as input.
`SshChannels` ends where a channel has its thread; a shell on it is `LineEditor`,
which hands lines to `FakeShell` or `DecoyShells`. `CanaryBeacon` starts where
`BeaconRoutes` has recognised a call.

**EventPipeline.** `exposed` is a history variable: the events appended while
the protocol protects nothing (`AtRisk`). The properties say that these are the
only events that can get lost, so `AtRisk` answers "when can an event get
lost"; `find_dropped` shows its first part, an append between the last stat and
the truncation. Two more follow from the same reading: a run in flight that
persists the old cursor after a truncation, and a run that dies before it
persists the cursor and repeats its batch (`RepeatedOnlyByCrash`). An event in
`Poison` stands for a payload on which the loop body raises.

**ProfileMerge.** A dictionary is a record whose zero fields are missing keys,
because that is what `get(k, 0)` and `if k in upd` tell apart. Some keys are
carried over exactly, some may lose earlier batches and never gain, and verdicts
derived from the second kind change with the batches (`find_verdict`). One SSH
login counts twice in `cred_successes`, as `ssh_auth` and as `ssh_login_ok`; a
`telnet_auth` counts in none.

**GitSync.** Since each run rewrites `node.json`, parted histories conflict and
the rebase stops; a sync killed during the rebase leaves the same state. A
killed git leaves its index lock, which no code removes: from then on every
`git add` and commit of that clone fails and is passed over, `[sync] pushed` is
still printed, and a trim takes days that were never committed. The properties
say "unless `lock`" for that reason.

**ConnlogTail.** `cutOff` holds the lines that lost their file's name or
content unread or were written out of the reader's reach; `unfollowed` those
written while it had no tail on the file, and those it left when it ended. An
inode number is free again once its last name and descriptor are gone.

**FakeShell.** `_resolve` normalises a path and every question to the tree
normalises its answer again (`Asked`). Once is not enough: Python keeps exactly
two leading slashes, so a path typed with two stays apart after the first time
and becomes the path with one after the second. What it resolves to and what the
tree takes it for are therefore two things; `find` and `grep -r`, which compare
names with the resolved path, see nothing of it.

**DecoyShells.** A line is its words and whether it holds more than one blank in
a row; an empty line is answered with silence. The rules match a line by words
that occur in it in some order (`Occurs`), that it has (`Has`), or that stand
together (`Adjacent`). The comments of both shells say that what is answered as
destruction is flagged in `classify()`; `find_overlooked` shows that it is not:
nothing looks for `cipher`, `vssadmin` and `wbadmin` want the verb right behind
the name, and `vm process kill` wants single blanks. What no comment claims is
only noted in section 6. The categories that the rules set are modelled as they
come out: the one found first is never replaced.

**LineEditor.** What a line should be is defined without the loop's variables:
`Edited` is what the keys of a line come to, one after the other (`Shown`), and
`EndsAt` is where lines end in the keys taken. The property asks for an
assignment of logged lines to ends, in order and onto all of them, except that a
loop which has lost its client may miss the last ones. That exception is a
disagreement with `ssh_sensor.py:12-13`; see section 6.

**GeoReaders.** A closed reader raises when it is used, and the exception is
swallowed, so that the lookup is empty. If reopening fails, the closed reader
stays in use until the next hourly check.

**Supervision.** Services differ in what a lost port means: `direct` dies with
its one port, `joins` waits for all its threads, `beacon` binds one after the
other and then joins, `parks` ignores it. The data directory is as installed
("closed" to the sensor), or repaired and empty, or with a certificate.

## 3. Runs

Each run that passes explores its complete state space. Every safety property
and every action property it checks is also proved, without the bounds
(section 5).

| Run | Shows | Bounds, and why they are enough |
|---|---|---|
| `logs` | of the event log: what can lose, repeat or block an event, the refinement of `EventDelivery`, every other event is published; of the kernel log: which lines can be skipped, their order, the others are yielded | 3 events over 2 hours and 2 addresses, cap 1, the third a poison line, one crash of each process: a batch is written in several steps, the file is truncated with events before and after, a run overlaps the truncation, the poison lies in front of, behind or alone in a batch; 2 lines, 3 inodes, one truncation, one kill: two rotations around each system call |
| `git_single` | nothing lost, the floor kept, nothing unpushed dropped by the re-anchoring, every batch pushed | 4 batches, a floor of 1 day: trims follow trims; 2 network failures and 2 crashes combine a lock with a lost push |
| `git_shared` | the remote only grows, a stopped rebase is final | 2 clones with 2 batches each: histories part, and the one that lost the race goes on committing |
| `decoys` | seventeen properties of fourteen parts | below |
| `services` | safety and liveness of four parts | below |

The parts of `decoys` have no state in common, so their product would show
nothing that each alone does not. `MCDecoys` therefore chooses one at the start
(`part`) and lets only that one move; its reachable states are the union of the
fourteen. A property of a part that is not running speaks of that part's initial
state. `logs` and `services` do the same for two and four, with each part's fairness
conjoined with `part`; a part that does not run is put where its liveness
properties ask nothing.

| Part of `decoys` | Property | Bounds |
|---|---|---|
| `ProfileMerge` | `CountersCarried`, `OrderKept`, `SevereVerdictKept` | 4 events of 7 kinds, every cut into runs; a command cap of 2 is exceeded by two batches |
| `SessionTracker` | `SessionIsAWindow` | 3 addresses, 2 places: each eviction order; window 1, a clock of 3 instants that goes back; one process, since processes share nothing |
| `ConnectionTiming` | `BurstsWithinFactorTwo` | 5 calls, 2 addresses, one place, window 2 |
| `PacketCapture` | `PrintsMatchClients` | 3 connections on one port pair, a repeated segment, a hello cut in front of its compression methods and one cut behind them, buffers of 2 and 4 segments |
| `PortProbes` | `ProbeIsTold` | 6 streams with true and false lengths, cut at every unit |
| `DockerSensor` | `StartKnowsItsCreate`, `BoundedAtRest` | 3 requests, room for one: two creates overlap each other and a start |
| `RedisSession` | `AttackIsTold` | 4 frames, at most 3 commands |
| `HttpDecoys` | `VisitorIsToldApart` | 3 requests of 15 kinds, over HTTP and HTTPS |
| `ShareTree` | `ListedIsServed` | every page reachable by links from 11 typed addresses |
| `BeaconRoutes` | `EveryLinkComesHome` | every document, link, base address and answer to the challenge, on a node with a plain label and on one with a blank in it |
| `CanaryBeacon` | `AttributedOrForgotten` | 3 downloads over a table of 2, one restart |
| `FakeUniverse` | `OneUniverse` | 2 sessions and the share's thread, 2 starts |
| `FakeShell` | `ShellKeepsItsStory` | 2 commands out of every kind on 14 arguments, 3 accounts: what the first says of a path meets what the second says |
| `LineEditor` | `LoggedAsTyped` | 4 keys in every split into packets, the client gone at any of them |

| Part of `services` | Property | Bounds |
|---|---|---|
| `TelnetSession` | `StoryTold`, `LetGo` | 5 lines: three failed logins, or two and commands; the client trickles at any time, or half-closes, or goes |
| `SshChannels` | `ChannelsSound`, `TakenChannelsClose` | 2 channels: one waits while the other is served |
| `GeoReaders` | `GeoSound`, `RefreshPickedUp` | 2 threads, one address, 2 changes of the files: a reader is replaced while the other thread is in it |
| `Supervision` | `LossIsNoticed`, `Recovers` | each profile, each state of the data directory, 3 faults |

`CHECK_DEADLOCK FALSE` stands where a behaviour ends: a connection that is over,
a bound that is used up, a reader whose lines are all read.

Seven runs are expected to be violated. Each checks one sentence of the
documentation or a comment against the code; `PROJECT.json` quotes it under
`findings`.

| Run | The statement | What happens |
|---|---|---|
| `find_dropped` | no un-synced event is ever dropped | appended between the last stat and the truncation |
| `find_wedged` | pushes events every five minutes | one event that makes the fold raise stops all |
| `find_verdict` | the verdict is that of the merged profile | it is derived after counts were dropped |
| `find_shared` | plays nicely with hundreds of nodes | the second node stops in a rebase for good |
| `find_lost_wake` | a session can multiplex several channels | the request is forgotten, the channel closed |
| `find_overlooked` | what the pretended shells destroy is flagged in `classify()` | `cipher /w` is answered as done and has no technique |
| `find_crashloop` | HTTPS is a bonus, never fatal | as installed, looking for the certificate ends the process, for ever |

## 4. Fairness

* `EventPipeline`: weak fairness of the aggregator and of the prune script. Both
  are started by timers for ever, and systemd lets a oneshot finish. Nothing is
  assumed of the sensors, and crashes are bounded.
* `GitSync`: weak fairness of each clone's next step. git returns; failures of
  the network are bounded.
* `ConnlogTail`: weak fairness of the reader, a loop under `Restart=always`, and
  of rsyslog reopening its file, the last step of a rotation.
* `SshChannels`: weak fairness of the handler, whose waits have timeouts, and of
  the threads; a shell has to end only once the transport is closed. The client
  owes nothing.
* `TelnetSession`: weak fairness of the handler and of the reset with which the
  peer's system answers what is sent to a closed socket. The timeout of 20 s is
  that of one byte, and option bytes and backspaces are consumed without making
  the line longer: a client that trickles them (`trickling`) keeps a read from
  ever ending, and nothing obliges it to stop. So the second half of `LetGo`, that
  the login ends, is about clients that leave off in the end; the first, that
  whoever is gone is let go, is about all.
* `GeoReaders`: weak fairness of each thread, of lookups (attackers keep coming)
  and of the hour; a file that could not be read becomes readable again. Changes
  of the files are bounded by `MaxChanges`, so the property is about the last.
* `Supervision`: weak fairness of the threads that bind, of the exit (the
  watchdog polls) and of the end of a foreign hold on a port; systemd's
  `Restart=always`.

## 5. Proofs

TLAPS checks the theorems below for every value of the constants, under the
named assumptions, which TLC evaluates in the runs. Between them they state
every invariant and every action property that a passing run checks, and the
refinement of `EventDelivery`.

| Module | Theorem | States |
|---|---|---|
| `EventPipeline_proofs` | `TypeCorrect` (only proved), `NoLossUnlessExposed`, `NoReplayWithoutCrash` | `[]TypeOK`, `[]LostOnlyIfExposed`, `[]RepeatedOnlyByCrash` |
| | `CursorCorrect`, `CountersCorrect` | `[]CursorAccountedFor`, `[]CountersFollowRaw` |
| | `Refinement` | `Spec` implements `EventDelivery` |
| `GitSync_proofs` | `InvCorrect` | `[]SyncInv`, the inductive invariant |
| | `RemoteKept`, `Kept`, `RebaseFinal`, `ResetKeeps` | `RemoteOnlyGrows`, `[]BatchesKept`, `[]StoppedRebaseIsFinal`, `ResetDropsNothing` |
| | `FloorCorrect` | `[]FloorKept`, for one clone |
| `ProfileMerge_proofs` | `CarriedCorrect`, `VerdictCorrect`, `OrderCorrect` | `[]CountersCarried`, `[]SevereVerdictKept`, `[]OrderKept` |
| `Services_proofs` | `SoundChannels` | `[]ChannelsSound` |
| | `NoticedTheorem` | `[]LossIsNoticed` |
| | `StoryCorrect` | `[]StoryTold` |
| | `GeoCorrect` | `[]GeoSound` |
| `Tables_proofs` | `SessionTheorem`, `TableTheorem` | `SessionIsAWindow`, `[]TableSound` |
| | `BoundedTheorem`, `StartKnowsTheorem` | `[]BoundedAtRest`, `[]StartKnowsItsCreate` |
| | `AttributionTheorem` | `[]AttributedOrForgotten` |
| | `BurstsTheorem` | `[]BurstsWithinFactorTwo` |
| `Connections_proofs` | `TailTypeCorrect`, `TailCorrect` | `[]TailTypeOK`, `[]LinesComeThrough` |
| | `CaptureCorrect` | `[]PrintsMatchClients` |
| `Decoys_proofs` | `OneUniverseTheorem` | `[]OneUniverse` |
| | `ProbeCorrect`, `VisitorCorrect`, `AttackCorrect` | `[]ProbeIsTold`, `[]VisitorIsToldApart`, `[]AttackIsTold` |
| | `RoutesCorrect` | `[]EveryLinkComesHome` |
| `Shells_proofs` | `ShellStoryCorrect` | `[]ShellKeepsItsStory` |
| | `ShareCorrect` | `[]ListedIsServed` |
| | `EditorCorrect` | `[]LoggedAsTyped` |

**EventPipeline**, under `ConstantsAssumption`. `LostOnlyIfExposed` is not
inductive: that a line below the new cursor has been written depends on what the
run has read and appended, and that truncation loses nothing on what prune has
seen. `LossInv` adds `BatchCoversRead` (a line between the old and the new
position is in the batch, or exposed), `AppendedIsWritten`, and
`PruneDecisionSound` (what prune relied on is still true of every line but the
exposed ones). `RepeatedOnlyByCrash` needs `CopyInv` on top: a line is in the
file once, and a line behind the cursor has at most as many copies as runs have
died. `Refinement` maps `readable` to the pending events and reuses both.
`CursorAccountedFor` needs to know when the cursor may point past the end of the
file (`CursorsInStep`: between truncation and reset, or after a prune that died
there) and that an unexposed poison line also holds the run that has read it,
not only the cursor (`PoisonHoldsRun`). For `CountersFollowRaw`, `CountsOf` says
by how much the three counts of an event, in the raw files, in the profiles and
in `node.json`, may differ at each step of a run; at rest it is the property.

**GitSync**, for any number of clones that share a remote, under
`BoundsAssumption`. Why may `reset --hard` and the trim delete? Because the chain
of commands has established that the tree is what HEAD holds
(`CleanSinceCommit`) and that main is in the remote (`MaintainedIsPushed`);
neither is local to one command, so both are part of `SyncInv`, with
`HeadIsMain`. The clone that acts keeps its own part, one lemma per kind of
step; the others see nothing but a remote that has grown, and their parts
survive because being an ancestor is transitive. `ResetDropsNothing` is about a
pair of states and follows from `SyncInv` step by step (`StepDropsNothing`).
`FloorCorrect` assumes a single clone, as the run `git_single` does: with
several, a pull brings other nodes' trims. Alone, a clone is never behind its
remote (`AheadAt`), so no pull moves it and no rebase starts, and its tree holds
its own batches only, the newest with them (`AloneInv`).

**ProfileMerge**, under `InputsAssumption` (an event has the fields and types
that `emit` gives it) and `BoundsAssumption`. Not one of the three properties
is inductive: each compares a file with what one run over everything would have
written, and that depends on what is still in the batch. `KeysInv` and `FlagsInv`
say that file and batch together are `whole`, for the keys that are carried
exactly; `LossInv` that the others are only too low, and that an address has no
more successes than attempts in either; `FreshInv` that an empty dictionary is a
fresh one. `SevereVerdictKept` then follows from the verdict being monotone in
what was kept. `OrderKept` is `SessionInv`: the commands of the file and of the
batch, one behind the other, are the last ones of `whole` (`Tails`), which
taking the last `CommandCap` of them preserves.

**SshChannels**, under `ChannelsAssumption` (`NoChan` is no channel). That no
channel is in two hands needs in addition that only opened channels are in any
(`OnlyOpened`): otherwise a new channel could already be held.

**Supervision.** `SupIInv` says of each thread that lives: with one port, that
it has it or has still to try it; with several, that one is left to try or to
serve. Losing the last one ends the thread, which is what the watchdog sees.

**TelnetSession**, for any number of lines. `TelnetInv` ties the handler's place
to its log: in the login there are as many entries as attempts and none was
good, in the shell the newest entry is good and `cmdCount` counts the commands
(`SoFar`), and each entry follows from the one before it (`Told`).

**GeoReaders**, under `CacheAssumption` (a tenth of the cache is at least one
entry). A reader is used without the lock and may be closed under a lookup; that
cannot be helped, but the next check must not be fooled. `CheckIsRight` is not
inductive: `ReaderInv` adds that the time recorded is never newer than the file
that was opened, although the file can be replaced between the two, and that a
closed reader is older than the file that is there, although opening can fail.
The locks and the cache are kept by one lemma each (`LocksKept`, `StoreSound`).

**SessionTracker**, under `ConstantsAssumption`. That eviction never cuts a
session short is a statement about the order of the table: whoever stands behind
an address has been seen since it was (`Ordered`). So the entry at the front of
a table with one too many has been followed by as many others as there are
places (`CrowdLemma`, an injection into `others`), and it may go. `WithoutLemma`
says that taking an entry out keeps the order of the rest, `TouchLemma` that an
answer keeps `Ordered`, with an eviction or without. Nothing is assumed of the
clock. `TableSound` is only proved; it follows from `Ordered` and from `Apart`
(no id was ever given to two).

**DockerSensor**, under `ContMaxAssumption`, for any number of threads.
`BoundedAtRest` speaks only of quiet moments; the invariant (`BoundInv`) says
that as long as the table is too large some thread will still look at its size.
The case that decides is `move_to_end` of an entry that another thread has
evicted: it raises, the thread stops looking, but the eviction that caused it
has another thread at the loop. `StartKnowsItsCreate` needs that what was
inserted is in the table or was evicted (`TableInv`) and that an iteration which
has not been disturbed has passed no container it names (`ScanInv`), which rests
on every change of the order counting as a change (`MoveToEndLemma`). A create
without an analysis is reported with no techniques, and its start with T1610.

**CanaryBeacon**, under `DlMaxAssumption`. Which download an id belongs to is
lost with an eviction or a restart, so the property compares the answer with the
whole history. `RegistryInv` says what the table is: the tail of the downloads
of this life, entry `i` being download `Older + i`, all of them or `DlMax`.
`LookUpLemma` reads it off, `RegisterLemma` and `DownloadLemma` keep it with
room and at the bound. A report keeps its truth afterwards because it holds the
number of downloads since (`since`) as of its lookup.

**ConnectionTiming**, under `TimingAssumption`. A record knows how many calls it
has counted (`count`), and these are the last ones of its address
(`RecordInv`); that eviction may have made it forget earlier ones is thereby
part of the statement. `Bursts` says what the numbers of a record are worth: the
running burst is the calls since its first one, all of them within the window;
the window in front of it holds no more calls than the greatest burst, and so no
window holds more than twice as many. `CallsOfOther` says that a call disturbs
no other address's record.

**ConnlogTail**, under `BoundsAssumption` (there is at least one inode). `ReachInv`
accounts for every line: it was yielded, or lost in a named window, or lies
behind the position in the file the reader holds, or in the file that has taken
over the name. `OrderInv` says that what the reader will come to was written
after what it has yielded, `FilesInv` that rsyslog writes in one file at a time,
`PlaceInv` where the reader has a file open.

**PacketCapture**, under `BuffersAssumption`. A clean client's three segments fit
the buffer; with less than 16 kB no fingerprint would ever come about. `Sound`
says what a buffer may hold: a clean connection's segments in their order, and
whoever stands behind another one's bytes is unclean. The parser of a hello
compares no length with the bytes there are: one that is cut behind its
compression methods is printed as far as it goes, and its rest never is
(`early`). `SshInv`, `TlsInv` and `EarlyInv` say that a clean client is in one of
a few situations until its fingerprint is there.

**FakeUniverse**, under `ThreadAssumption` (the share's thread is no session).
`OneBuilderInv` says that who holds the lock and has passed the checks builds
what is not there, so the two singletons never come from different worlds.
`MadeInv` counts: a session that loads holds the lock and finds nothing built, so
that a process makes at most one universe for its sessions and one for the
share, which is all that can be said of an installed host. Where the directory
is open to the sensor, `SeededInv` says that what the installer left is read
before anything could write.

**PortProbes**, **HttpDecoys**, **RedisSession**. In each, the invariant says
which logs are possible at each place of the handler: for RDP one of six
(`RdpInv`), for a Windows port one of two (`WinInv`). What an RDP client is said
to have introduced itself with is compared with what it sent, not with what was
read: `RequestInv` says that while the request is read it and the bytes behind it
are what was sent, `AskedInv` that nothing sent later belongs to it.
`JarInv` says that a browser over TLS has one cookie, planted by its first page;
nothing like it holds over plain HTTP, and the property asks for none. For Redis
each connection's own entries in the shared log are followed (`ConnInv`), with
the directory it set last (`DirInv`) and nothing behind a frame that was cut
(`CutInv`), under `CommandsAssumption` (a command is a name and a value, and no
whole one is a part).

**BeaconRoutes**, for any labels of one path segment and any downloads. A label
is whatever the operator typed; `PlainAgents` are those of the form the patterns
want. `EveryLinkAnswered` goes through the links of each document and the
patterns in their order; `StrangersGoUnheard` does the same for a label of
another form, none of whose links is ever recognised; `RoutesInv` carries both
over the two rounds of the challenge.

**FakeShell**, for any number of commands, under `ShellAssumption` (account names
and typed arguments are split at their slashes, and an account is one plain
name). The property compares any two claims ever made; the invariant says of
each alone that one path of the tree stands behind it (`Grounded`). Two claims
about what a client means by a path then agree, because the tree is read-only
and a path written in two ways is the same path for the tree, after the second
normalisation if not after the first (`ResolveResolves`, `AskedIsMeant`). What
`find` says of a path with two leading slashes is the exception that remains.

**ShareTree**, for any typed addresses. `ShareInv` adds to the property what the
answer says of the address it answers, so that a link followed from it is one
the tree has. That a path without dots is its own normal form (`PlainNormal`)
is about a recursive function over a path of any length.

**LineEditor**, under `LettersAssumption` (letters are none of the control keys).
The invariant has the assignment of lines to ends with it (`Complete`: all ends
are taken and the line being typed is the rest; `Begun`: those of a loop that
died). `Edited` over one more key is one more `Shown` (`EditedAppend`), so that a
line end assigns the new line to itself.

**Induction.** The theorems of the library for induction take an operator as a
parameter and cannot be used. Where a definition recurses over a number
(`ShareNorm`, `Walk`, `Edited`), the proof takes the least number for which the claim
fails, which exists because `<` is well-founded (`LeastNumber`).

**Only model-checked.** All liveness: `EventuallyPublished`, `EventuallyPushed`,
`EventuallyYielded`, `TakenChannelsClose`, `LetGo`, `RefreshPickedUp` and
`Recovers`, since fairness and ENABLED are beyond the prover. `FloorKept` with several clones is
neither checked nor proved.

## 6. What the modelling showed besides

Behaviours that are in the models and that the properties are worded around.

Some contradict a sentence of the repository. They have no run of their own,
because another run or a property's exception already has them:

* "Capture the credentials from every Login SOAP call" (`esxi_sensor.py:17-21`):
  tags with a prefix give a login event with empty names. `VisitorIsToldApart`
  says which requests a password is taken from.
* The shell "logs every line" (`ssh_sensor.py:12-13`): the line end is echoed
  before the line is logged, so that a client which sends lines and closes loses
  the last of them. `LoggedAsTyped` holds without exception only for a client
  that is there.
* One persisted identity for each node (`fake_world.py:5-8`, 19-21): as installed
  the sensor may not read `fake_world.json`, and every process makes its own
  universe. `OneUniverse` says what is left of the sentence.
* A beacon port in use is "skipped, never fatal" (`beacon.py:111-113`, 135):
  Werkzeug exits with `SystemExit`, which passes the `except Exception`, so that
  the receiver's thread ends and the watchdog takes the process down.
  `Supervision` has it as `BindFails`; `find_crashloop` is the same end by way
  of the certificate.

The others contradict none that we know of:

* As installed the SSH host key cannot be read, so every connection makes a new
  one; the HTTPS threads of OWA and of the share die unnoticed; the ESXi HTTPS
  sensor restarts for ever.
* `_get_sys` calls `_get_fs` while another session is between building the file
  system and the live system, gets the first and returns `None` for the second:
  a command that needs it fails (`broken` in `FakeUniverse`; no property looks
  at it).
* The installer takes any label for a node (`install.sh:37`, 233) and the bait
  carries it as it is; with a blank in it, or longer than 64 characters, no bait
  document of the node ever reports.
* A TLS hello cut behind its compression methods is fingerprinted without its
  extensions, and only so.
* A Telnet client that trickles option bytes or backspaces holds a read, and the
  thread with it, for as long as it likes.
* A Docker start of a create that was not analysed is reported as T1610, which
  its create event does not name.
* Kerberos and type-2 tokens are reported as captured credentials; a click in a
  PDF is reported as a rendered image; a beacon on OWA is logged twice.
* `cat` refuses private files that `head`, `base64`, `grep` and `md5sum` show;
  `head` and `grep` of a bait file emit no event; `find` and `grep -r` find
  nothing of a path with two leading slashes, which every other command takes
  for the path with one.
* Leaving a shell of the shared base with `exit` logs a second end.
* `certutil` is answered as done without its download option as well, and has no
  technique then; `net user x /add` is answered as done and logged as discovery.
  No comment says otherwise.
* The classifiers of the two personalities end in `cat = cat or ...` after a
  category is set, so that the aggregator's two categories never appear.
* Forms above 256 kB are refused; Basic credentials on `/folder` are not logged.
* The RDP sensor never applies its `MAX_PDU`; a message cut by silence is lost.
* A Redis `SAVE` on another connection than its `CONFIG SET dir` is not flagged.
* A Docker request that raises answers 500 and leaves no second event.
* A database reader whose reopening fails stays closed for up to an hour; a clock
  set back makes the burst windows grow.

## 7. Not modelled

* Torn lines of `events.jsonl`: one append-mode write per line, below the size at
  which Linux would split it in practice; a full disk is left out.
* `sessions/` and `by_ip/` logs: nothing reads them back. The window before
  `configure` has run.
* `threat_intel.py` and `http_stealth.py`: tables that label and words in
  headers. A label can be judged only against its own table.
* `config.py`: reads one file once; its choices are constants and initial states.
* `install.sh`, `upgrade.sh`, `uninstall.sh` themselves: run once, by hand, in
  one order. What they leave (owners, modes, units, the base address, the
  identity file, the prune and refresh scripts) is in the models.
* `whois` and AbuseIPDB: off unless configured, with caches like the one for
  names, which is modelled.
* What an opener's headers and scripts reveal (`fileshare_sensor.py`, the
  metadata of a beacon): parsing without state.
* The text of files, pages, banners and answers, and what commands print of the
  machine: wording. Where a text carries a link, `BeaconRoutes` models the link.
* Parsing of kernel log lines: stateless.

## 8. Plan

Every safety property the runs check is proved. What would come next, in this
order: the safety behind `Recovers` and `TakenChannelsClose`, that in each state
which is not at rest some thread has a step to take; refinement mappings for the
parts that have a promise simpler than themselves, `ConnlogTail` to a queue that
loses named lines, `RedisSession` to one log per connection; a composition of
`CanaryBeacon` with `Supervision`, whose restarts make the registry forget.
