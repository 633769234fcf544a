---------------------------- MODULE EventPipeline ----------------------------
(***************************************************************************)
(* The path of an event from a sensor to the per-node repository.          *)
(*                                                                         *)
(* Every process of the agent appends whole JSON lines to one file,        *)
(* events.jsonl (EventLogger.emit).  Two other processes work on the same  *)
(* file without any lock between them:                                     *)
(*                                                                         *)
(*   - the aggregator (a oneshot the sync timer starts) loads a cursor,    *)
(*     reads the lines behind it, appends them to the raw files of the     *)
(*     repository, folds them into the profiles and node.json, and         *)
(*     persists the cursor last;                                           *)
(*   - the log-prune script (a daily oneshot, run as root) truncates the   *)
(*     file once it is big enough and the cursor has reached its end, and  *)
(*     then sets the cursor back to 0.                                     *)
(*                                                                         *)
(* Positions are counted in lines instead of bytes.  Each event is a       *)
(* record with its own event_id, so an element of Events is emitted once.  *)
(***************************************************************************)
EXTENDS Naturals, Sequences

CONSTANTS
    Events,          \* the events the sensors may emit
    Hours,           \* hour buckets: one raw file per hour
    HourOf,          \* [Events -> Hours]
    IPs,             \* source addresses: one profile file per address
    IpOf,            \* [Events -> IPs]
    Poison,          \* events whose payload makes the fold raise
    Cap,             \* HP_EVENTS_MAX_MB, in lines
    MaxRunCrashes,   \* bound: aggregator runs that die half way
    MaxPruneCrashes  \* bound: prune runs that die half way

ASSUME ConstantsAssumption ==
    /\ HourOf \in [Events -> Hours]
    /\ IpOf \in [Events -> IPs]
    /\ Poison \subseteq Events
    /\ Cap \in Nat
    /\ MaxRunCrashes \in Nat
    /\ MaxPruneCrashes \in Nat

VARIABLES
    \* on disk
    file,        \* events.jsonl: the sequence of its lines
    cursor,      \* "pos" in .git/hp-state.json; 0 while that file is missing
    rawCopies,   \* per event: lines in events/YYYY/MM/DD/<node>-HH.jsonl
    counted,     \* per event: times it was added into an ips/<ip>.json
    tallied,     \* per event: times it was added into node.json total_events
    \* the aggregator process
    aggPc, newPos, batch, appended, folded,
    \* the prune process
    prunePc, prunePos,
    \* faults so far
    runCrashes, pruneCrashes,
    \* history, read by no action
    emitted,     \* the events some process has appended
    exposed,     \* those appended while the file and a cursor were out of step
    overlapped   \* a run and a truncation that was not yet reset have met

diskVars == <<file, cursor, rawCopies, counted, tallied>>
aggVars == <<aggPc, newPos, batch, appended, folded>>
pruneVars == <<prunePc, prunePos>>
faultVars == <<runCrashes, pruneCrashes>>
historyVars == <<emitted, exposed, overlapped>>
vars == <<diskVars, aggVars, pruneVars, faultVars, historyVars>>

AggPcs == {"idle", "read", "raw", "profiles", "node", "persist"}
PrunePcs == {"idle", "readpos", "restat", "truncate", "reset"}

TypeOK ==
    /\ file \in Seq(Events)
    /\ cursor \in Nat
    /\ rawCopies \in [Events -> Nat]
    /\ counted \in [Events -> Nat]
    /\ tallied \in [Events -> Nat]
    /\ aggPc \in AggPcs
    /\ newPos \in Nat
    /\ batch \in SUBSET Events
    /\ appended \in SUBSET Events
    /\ folded \in SUBSET Events
    /\ prunePc \in PrunePcs
    /\ prunePos \in Nat
    /\ runCrashes \in Nat
    /\ pruneCrashes \in Nat
    /\ emitted \in SUBSET Events
    /\ exposed \in SUBSET Events
    /\ overlapped \in BOOLEAN

Init ==
    /\ file = <<>>
    /\ cursor = 0
    /\ rawCopies = [e \in Events |-> 0]
    /\ counted = [e \in Events |-> 0]
    /\ tallied = [e \in Events |-> 0]
    /\ aggPc = "idle"
    /\ newPos = 0
    /\ batch = {}
    /\ appended = {}
    /\ folded = {}
    /\ prunePc = "idle"
    /\ prunePos = 0
    /\ runCrashes = 0
    /\ pruneCrashes = 0
    /\ emitted = {}
    /\ exposed = {}
    /\ overlapped = FALSE

-----------------------------------------------------------------------------
(* Sensors: EventLogger.emit                                               *)

AggRunning == aggPc # "idle"

\* The moments in which a line appended to the file is not protected by the
\* cursor protocol: prune has decided to truncate and has not finished, or the
\* persisted cursor, or the one a running aggregator will persist, is past the
\* end of the file.
AtRisk ==
    \/ prunePc \in {"truncate", "reset"}
    \/ cursor > Len(file)
    \/ AggRunning /\ newPos > Len(file)

\* One line is written with one append-mode write under the process' lock.
Emit(e) ==
    /\ e \notin emitted
    /\ file' = Append(file, e)
    /\ emitted' = emitted \union {e}
    /\ exposed' = IF AtRisk THEN exposed \union {e} ELSE exposed
    /\ UNCHANGED <<cursor, rawCopies, counted, tallied, overlapped>>
    /\ UNCHANGED <<aggVars, pruneVars, faultVars>>

-----------------------------------------------------------------------------
(* The aggregator: run()                                                   *)

Raises(e) == e \in Poison

\* Adds one to every event of S.
Bump(count, S) == [e \in Events |-> IF e \in S THEN count[e] + 1 ELSE count[e]]

\* The process ends and its locals are gone.
AggExit ==
    /\ aggPc' = "idle"
    /\ newPos' = 0
    /\ batch' = {}
    /\ appended' = {}
    /\ folded' = {}

AggStart ==
    /\ aggPc = "idle"
    /\ aggPc' = "read"
    /\ newPos' = cursor
    /\ overlapped' = (overlapped \/ prunePc = "reset")
    /\ UNCHANGED <<batch, appended, folded, emitted, exposed>>
    /\ UNCHANGED <<diskVars, pruneVars, faultVars>>

\* A buffered read returns some of the lines behind newPos; the loop body
\* folds them into the batch.
AggRead ==
    /\ aggPc = "read"
    /\ \E n \in (newPos + 1)..Len(file) :
         /\ \A i \in (newPos + 1)..n : ~Raises(file[i])
         /\ batch' = batch \union {file[i] : i \in (newPos + 1)..n}
         /\ newPos' = n
    /\ UNCHANGED <<aggPc, appended, folded>>
    /\ UNCHANGED <<diskVars, pruneVars, faultVars, historyVars>>

\* Mutant: the bad line is skipped.
MutAggRaiseSkips ==
    /\ aggPc = "read"
    /\ newPos + 1 \in 1..Len(file)
    /\ Raises(file[newPos + 1])
    /\ newPos' = newPos + 1
    /\ UNCHANGED <<aggPc, batch, appended, folded>>
    /\ UNCHANGED <<diskVars, pruneVars, faultVars, historyVars>>

\* The loop body raises: the run ends before it has written anything.
AggRaise ==
    /\ aggPc = "read"
    /\ newPos + 1 \in 1..Len(file)
    /\ Raises(file[newPos + 1])
    /\ AggExit
    /\ UNCHANGED <<diskVars, pruneVars, faultVars, historyVars>>

\* Mutant: the end is never recognised.
MutAggEofStrict ==
    /\ aggPc = "read"
    /\ newPos > Len(file)
    /\ aggPc' = "raw"
    /\ UNCHANGED <<newPos, batch, appended, folded>>
    /\ UNCHANGED <<diskVars, pruneVars, faultVars, historyVars>>

\* End of file, or a seek past the end of a truncated file.
AggEof ==
    /\ aggPc = "read"
    /\ newPos >= Len(file)
    /\ aggPc' = "raw"
    /\ UNCHANGED <<newPos, batch, appended, folded>>
    /\ UNCHANGED <<diskVars, pruneVars, faultVars, historyVars>>

\* One hour's events are appended to that hour's raw file.
AggAppendRaw(h) ==
    LET bucket == {e \in batch : HourOf[e] = h} IN
    /\ aggPc = "raw"
    /\ bucket # {}
    /\ bucket \intersect appended = {}
    /\ rawCopies' = Bump(rawCopies, bucket)
    /\ appended' = appended \union bucket
    /\ UNCHANGED <<aggPc, newPos, batch, folded>>
    /\ UNCHANGED <<file, cursor, counted, tallied>>
    /\ UNCHANGED <<pruneVars, faultVars, historyVars>>

\* Mutant: the profiles do not wait for the raw files.
MutAggRawDoneEarly ==
    /\ aggPc = "raw"
    /\ aggPc' = "profiles"
    /\ UNCHANGED <<newPos, batch, appended, folded>>
    /\ UNCHANGED <<diskVars, pruneVars, faultVars, historyVars>>

AggRawDone ==
    /\ aggPc = "raw"
    /\ appended = batch
    /\ aggPc' = "profiles"
    /\ UNCHANGED <<newPos, batch, appended, folded>>
    /\ UNCHANGED <<diskVars, pruneVars, faultVars, historyVars>>

\* One profile is loaded, merged with the batch, and replaced atomically.
AggMergeProfile(ip) ==
    LET group == {e \in batch : IpOf[e] = ip} IN
    /\ aggPc = "profiles"
    /\ group # {}
    /\ group \intersect folded = {}
    /\ counted' = Bump(counted, group)
    /\ folded' = folded \union group
    /\ UNCHANGED <<aggPc, newPos, batch, appended>>
    /\ UNCHANGED <<file, cursor, rawCopies, tallied>>
    /\ UNCHANGED <<pruneVars, faultVars, historyVars>>

AggProfilesDone ==
    /\ aggPc = "profiles"
    /\ folded = batch
    /\ aggPc' = "node"
    /\ UNCHANGED <<newPos, batch, appended, folded>>
    /\ UNCHANGED <<diskVars, pruneVars, faultVars, historyVars>>

AggNodeJson ==
    /\ aggPc = "node"
    /\ tallied' = Bump(tallied, batch)
    /\ aggPc' = "persist"
    /\ UNCHANGED <<newPos, batch, appended, folded>>
    /\ UNCHANGED <<file, cursor, rawCopies, counted>>
    /\ UNCHANGED <<pruneVars, faultVars, historyVars>>

\* Mutant: nothing is persisted.
MutAggPersistForgets ==
    /\ aggPc = "persist"
    /\ AggExit
    /\ UNCHANGED <<diskVars, pruneVars, faultVars, historyVars>>

AggPersist ==
    /\ aggPc = "persist"
    /\ cursor' = newPos
    /\ AggExit
    /\ UNCHANGED <<file, rawCopies, counted, tallied>>
    /\ UNCHANGED <<pruneVars, faultVars, historyVars>>

\* The run is killed, or the machine goes down, between any two writes.
AggCrash ==
    /\ AggRunning
    /\ runCrashes < MaxRunCrashes
    /\ runCrashes' = runCrashes + 1
    /\ AggExit
    /\ UNCHANGED pruneCrashes
    /\ UNCHANGED <<diskVars, pruneVars, historyVars>>

AggStep ==
    \/ AggStart
    \/ AggRead
    \/ AggRaise
    \/ AggEof
    \/ \E h \in Hours : AggAppendRaw(h)
    \/ AggRawDone
    \/ \E ip \in IPs : AggMergeProfile(ip)
    \/ AggProfilesDone
    \/ AggNodeJson
    \/ AggPersist

-----------------------------------------------------------------------------
(* The log-prune script                                                    *)

\* The script ends and its variables are gone.
PruneExit == prunePc' = "idle" /\ prunePos' = 0

\* First stat: below the cap the script leaves the file alone.
PruneStat ==
    /\ prunePc = "idle"
    /\ Len(file) >= Cap
    /\ prunePc' = "readpos"
    /\ UNCHANGED prunePos
    /\ UNCHANGED <<diskVars, aggVars, faultVars, historyVars>>

PruneReadPos ==
    /\ prunePc = "readpos"
    /\ prunePos' = cursor
    /\ prunePc' = "restat"
    /\ UNCHANGED <<diskVars, aggVars, faultVars, historyVars>>

\* Mutants: no second look at the size; the position compared with the cap.
MutPruneRestatAlways ==
    /\ prunePc = "restat"
    /\ prunePc' = "truncate"
    /\ UNCHANGED prunePos
    /\ UNCHANGED <<diskVars, aggVars, faultVars, historyVars>>

MutPruneRestatCap ==
    /\ prunePc = "restat"
    /\ IF prunePos >= Cap
         THEN prunePc' = "truncate" /\ UNCHANGED prunePos
         ELSE PruneExit
    /\ UNCHANGED <<diskVars, aggVars, faultVars, historyVars>>

\* Second stat and the decision.
PruneRestat ==
    /\ prunePc = "restat"
    /\ IF prunePos >= Len(file)
         THEN prunePc' = "truncate" /\ UNCHANGED prunePos
         ELSE PruneExit
    /\ UNCHANGED <<diskVars, aggVars, faultVars, historyVars>>

PruneTruncate ==
    /\ prunePc = "truncate"
    /\ file' = <<>>
    /\ prunePc' = "reset"
    /\ overlapped' = (overlapped \/ AggRunning)
    /\ UNCHANGED <<cursor, rawCopies, counted, tallied, prunePos, emitted, exposed>>
    /\ UNCHANGED <<aggVars, faultVars>>

PruneReset ==
    /\ prunePc = "reset"
    /\ cursor' = 0
    /\ PruneExit
    /\ UNCHANGED <<file, rawCopies, counted, tallied>>
    /\ UNCHANGED <<aggVars, faultVars, historyVars>>

PruneCrash ==
    /\ prunePc # "idle"
    /\ pruneCrashes < MaxPruneCrashes
    /\ pruneCrashes' = pruneCrashes + 1
    /\ PruneExit
    /\ UNCHANGED runCrashes
    /\ UNCHANGED <<diskVars, aggVars, historyVars>>

PruneStep ==
    \/ PruneStat
    \/ PruneReadPos
    \/ PruneRestat
    \/ PruneTruncate
    \/ PruneReset

-----------------------------------------------------------------------------
Next ==
    \/ \E e \in Events : Emit(e)
    \/ AggStep
    \/ AggCrash
    \/ PruneStep
    \/ PruneCrash

Spec == Init /\ [][Next]_vars

\* The sync timer starts a run every five minutes and systemd lets it finish;
\* nothing obliges a sensor to emit or prune to find the file large enough.
FairSpec == Spec /\ WF_vars(AggStep) /\ WF_vars(PruneStep)

-----------------------------------------------------------------------------
(* Safety                                                                  *)

\* e is a line the next run would read.
Pending(e) == \E i \in 1..Len(file) : i > cursor /\ file[i] = e

\* An event that some process appended is in the raw files, or is still behind
\* the cursor, whatever the aggregator and prune do and wherever they die;
\* only an event appended while the file and a cursor were out of step may go
\* missing.  (run persists the cursor last; prune compares before it truncates.)
LostOnlyIfExposed ==
    \A e \in emitted : rawCopies[e] > 0 \/ Pending(e) \/ e \in exposed

\* A line is appended to the raw files a second time only because a run died
\* between its first write and the cursor: at most one more copy per dead run.
\* Prune's reset of the cursor never replays a line that was not exposed.
RepeatedOnlyByCrash ==
    \A e \in Events : e \notin exposed => rawCopies[e] <= 1 + runCrashes

\* node.json never counts an event more often than the profiles do, nor a
\* profile more often than the raw files hold it; and each run that died
\* leaves them at most one apart.
CountersFollowRaw ==
    \A e \in Events :
       /\ tallied[e] <= counted[e]
       /\ counted[e] <= rawCopies[e]
       /\ rawCopies[e] <= tallied[e] + runCrashes + (IF AggRunning THEN 1 ELSE 0)

\* Only two things leave a cursor beyond the end of the file, where it hides
\* every line to come: a prune run that died, and an aggregator run that was
\* under way between the truncation and the reset of the cursor.
StaleCursorHasCause ==
    ~AggRunning /\ prunePc = "idle" /\ cursor > Len(file)
        => overlapped \/ pruneCrashes > 0

\* A line the fold cannot digest holds the cursor in front of it: it is never
\* skipped, and no line behind it is published before it.
PoisonHoldsCursor ==
    \A i \in 1..Len(file) :
       file[i] \in Poison \ exposed =>
          /\ cursor < i
          /\ \A j \in i..Len(file) : file[j] \notin exposed => rawCopies[file[j]] = 0

\* Both: where the cursor stands is always accounted for.
CursorAccountedFor == StaleCursorHasCause /\ PoisonHoldsCursor

-----------------------------------------------------------------------------
(* Refinement                                                              *)

Delivery == INSTANCE EventDelivery WITH
    accepted <- emitted,
    readable <- {e \in emitted : Pending(e)},
    published <- {e \in Events : rawCopies[e] > 0},
    atRisk <- exposed

\* The event path keeps the agent's promise: a protected event stays readable
\* until it is in the raw files, and raw files are never taken back.
KeepsDeliveryPromise == Delivery!Spec

-----------------------------------------------------------------------------
(* Liveness                                                                *)

\* A line the fold cannot digest lies behind the cursor, and so does e: every
\* run that reads both ends without having written e, whichever comes first.
BlockedByPoison(e) ==
    Pending(e) /\ \E i \in 1..Len(file) : cursor < i /\ Raises(file[i])

\* Every event that was not exposed reaches the raw files, its profile and
\* node.json, if runs keep being started and only finitely many die; nothing
\* but a line the fold cannot digest holds it back.
EventuallyPublished ==
    \A e \in Events : (e \in emitted \ exposed) ~> (tallied[e] > 0 \/ BlockedByPoison(e))

-----------------------------------------------------------------------------
(* Statements of the documentation                                         *)

\* README: "This guarantees no un-synced event is ever dropped".
NoUnsyncedEventDropped ==
    \A e \in emitted : rawCopies[e] > 0 \/ Pending(e)

\* README: the agent "captures events to JSONL, and pushes them every five
\* minutes": every event gets into the repository.
EveryEventPublished == \A e \in Events : (e \in emitted) ~> (rawCopies[e] > 0)

-----------------------------------------------------------------------------
(* The inductive invariant behind LostOnlyIfExposed                        *)

Settled(e) == rawCopies[e] > 0 \/ e \in exposed

\* What a running aggregator has passed is settled or in its hands.
BatchCoversRead ==
    AggRunning => /\ cursor <= newPos
                  /\ \A i \in 1..Len(file) :
                       cursor < i /\ i <= newPos => Settled(file[i]) \/ file[i] \in batch

\* The cursor is persisted only when the whole batch is in the raw files.
AppendedIsWritten ==
    /\ \A e \in appended : rawCopies[e] > 0
    /\ aggPc \in {"profiles", "node", "persist"} => appended = batch

\* Prune's copy of the cursor is not ahead of the cursor, and what it is about
\* to cut off beyond that copy was appended after its second stat.
PruneDecisionSound ==
    /\ prunePc \in {"restat", "truncate"} => prunePos <= cursor
    /\ prunePc = "truncate" =>
         \A i \in 1..Len(file) : i > prunePos => file[i] \in exposed
    /\ prunePc = "reset" => \A i \in 1..Len(file) : file[i] \in exposed

LossInv ==
    /\ TypeOK
    /\ LostOnlyIfExposed
    /\ BatchCoversRead
    /\ AppendedIsWritten
    /\ PruneDecisionSound
-----------------------------------------------------------------------------
(* The inductive invariant behind RepeatedOnlyByCrash                      *)

\* A line is in the file once, and only what was emitted is anywhere.
EmittedOnce ==
    /\ \A i, j \in 1..Len(file) : file[i] = file[j] => i = j
    /\ \A i \in 1..Len(file) : file[i] \in emitted
    /\ batch \subseteq emitted
    /\ \A e \in Events \ emitted : rawCopies[e] = 0

\* What a run has appended is part of what it has read.
AppendedFromBatch ==
    /\ appended \subseteq batch
    /\ aggPc \in {"idle", "read"} => appended = {}
    /\ aggPc = "idle" => batch = {}

\* A line behind the cursor has been written only by runs that died, or by
\* this one; what the run has not read yet is not in its batch.
CopiesBehindCursor ==
    /\ \A i \in 1..Len(file) : i > cursor /\ file[i] \notin exposed =>
         file[i] \in appended \/ rawCopies[file[i]] <= runCrashes
    /\ AggRunning => \A i \in 1..Len(file) : i > newPos /\ file[i] \notin exposed =>
         file[i] \notin batch
    /\ \A e \in batch \ appended : e \notin exposed => rawCopies[e] <= runCrashes

CopyInv ==
    /\ LossInv
    /\ RepeatedOnlyByCrash
    /\ EmittedOnce
    /\ AppendedFromBatch
    /\ CopiesBehindCursor
=============================================================================
