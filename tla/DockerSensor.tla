----------------------------- MODULE DockerSensor -----------------------------
(***************************************************************************)
(* sensors.docker_sensor: the Docker API.  Every request runs in a thread  *)
(* of its own (make_server(threaded=True)) and the table of the containers *)
(* attackers have "created" is shared by them without a lock.  A create    *)
(* inserts, moves to the end and evicts from the front in separate steps;  *)
(* a start iterates over the table, which raises once it has been changed. *)
(***************************************************************************)
EXTENDS Naturals, Sequences, FiniteSets

CONSTANTS
    MaxRequests,   \* bound: requests of a behaviour, numbered as they arrive
    Bodies,        \* bodies of a create: [shape, signs]
    ContMax        \* _CONT_MAX

ASSUME ContMaxAssumption == MaxRequests \in Nat /\ ContMax \in Nat

VARIABLES
    at,            \* [request -> where its thread stands]
    asks,          \* [request -> what it asks for]
    containers,    \* _CONTAINERS: the creates, whose number is the id, oldest first
    changes,       \* the dictionary's change counter, which iteration compares
    scan,          \* [request -> position and change counter of its iteration]
    events,        \* what has been emitted
    evicted        \* history: ids taken from the table

dockerVars == <<at, asks, containers, changes, scan, events, evicted>>

Requests == 1..MaxRequests

\* A body that is a JSON object has the shape "object", or "malformed" if a
\* field has a type the analysis chokes on; it is taken for the signs found in
\* it.  Anything else has the shape "other".
NoBody == [shape |-> "none", signs |-> {}]

Nothing == [kind |-> "none", body |-> NoBody, ids |-> {}]

DockerInit ==
    /\ at = [r \in Requests |-> "idle"]
    /\ asks = [r \in Requests |-> Nothing]
    /\ containers = <<>>
    /\ changes = 0
    /\ scan = [r \in Requests |-> [pos |-> 0, changes |-> 0]]
    /\ events = {}
    /\ evicted = {}

-----------------------------------------------------------------------------
(* What a create payload is taken for                                      *)

ChainOf == [host_root |-> "host_filesystem_mount_escape",
            privileged |-> "privileged_container_escape",
            host_namespace |-> "host_namespace_escape",
            nsenter |-> "nsenter_host_escape",
            miner |-> "cryptominer_image",
            wallet |-> "cryptominer_image"]

TechniqueOf == [host_root |-> "T1611", privileged |-> "T1611", host_namespace |-> "T1611",
                nsenter |-> "T1611", miner |-> "T1496", wallet |-> "T1496"]

AnalyzeCreate(signs) ==
    [chains |-> {ChainOf[s] : s \in signs},
     techniques |-> {"T1610"} \union {TechniqueOf[s] : s \in signs}]

NoAnalysis == [chains |-> {}, techniques |-> {}]
Unknown == [chains |-> {}, techniques |-> {"T1610"}]

Analysis(c) == IF asks[c].body.shape = "object" THEN AnalyzeCreate(asks[c].body.signs) ELSE NoAnalysis

\* What a start reads off the entry: techniques default to T1610 when it has
\* none, which is so for a create that was not analysed.
Prior(c) == IF Analysis(c) = NoAnalysis THEN Unknown ELSE Analysis(c)

-----------------------------------------------------------------------------
Created == {r \in Requests : at[r] = "done" /\ asks[r].kind = "create"}
Ids(t) == {t[i] : i \in DOMAIN t}
Emit(event) == events' = events \union {event}
Goto(r, from, to) == at[r] = from /\ at' = [at EXCEPT ![r] = to]
NoTable == UNCHANGED <<containers, changes, evicted>>

\* Every hit is logged, then routed; a query is answered at once and the same
\* way.  An id is given by a prefix of it, which is the prefix of any set of
\* ids; only ids that were answered are known.
Arrive(r) ==
    \E kind \in {"query", "pull", "create", "start", "exec"},
      body \in Bodies \union {NoBody}, ids \in SUBSET Created :
        /\ kind = "create" <=> body \in Bodies
        /\ kind # "start" => ids = {}
        /\ r = Cardinality({q \in Requests : at[q] # "idle"}) + 1
        /\ Goto(r, "idle", IF kind = "query" THEN "done" ELSE kind)
        /\ asks' = [asks EXCEPT ![r] = [kind |-> kind, body |-> body, ids |-> ids]]
        /\ Emit([type |-> "api", of |-> r])
        /\ UNCHANGED scan /\ NoTable

\* Only objects can be analysed; a HostConfig or Env of another type raises,
\* and so does an exec whose body is not an object.  The answer is a 500.
Raises(r) ==
    /\ \/ at[r] = "create" /\ asks[r].body.shape = "malformed"
       \/ at[r] = "exec"
    /\ at' = [at EXCEPT ![r] = "failed"]
    /\ UNCHANGED <<asks, scan, events>> /\ NoTable

Insert(r) ==
    /\ asks[r].body.shape # "malformed"
    /\ Goto(r, "create", "move")
    /\ containers' = Append(containers, r)
    /\ changes' = changes + 1
    /\ UNCHANGED <<asks, scan, events, evicted>>

\* The table with the entry of r moved behind the others.
AtEnd(r) ==
    LET place == CHOOSE i \in DOMAIN containers : containers[i] = r
    IN  Append([i \in 1..(Len(containers) - 1) |-> containers[IF i < place THEN i ELSE i + 1]], r)

\* Another create may have come in between, or taken this one out again:
\* KeyError, caught around the whole of _register_container.
MoveToEnd(r) ==
    /\ at[r] = "move"
    /\ IF r \in Ids(containers)
       THEN /\ at' = [at EXCEPT ![r] = "room"]
            /\ containers' = AtEnd(r)
            /\ changes' = IF containers[Len(containers)] = r THEN changes ELSE changes + 1
       ELSE /\ at' = [at EXCEPT ![r] = "record"]
            /\ UNCHANGED <<containers, changes>>
    /\ UNCHANGED <<asks, scan, events, evicted>>

\* Mutant: one entry is let in too many.
MutRoom(r) ==
    /\ at[r] = "room"
    /\ at' = [at EXCEPT ![r] = IF Len(containers) > ContMax + 1 THEN "evict" ELSE "record"]
    /\ UNCHANGED <<asks, scan, events>> /\ NoTable

\* while len > _CONT_MAX
Room(r) ==
    /\ at[r] = "room"
    /\ at' = [at EXCEPT ![r] = IF Len(containers) > ContMax THEN "evict" ELSE "record"]
    /\ UNCHANGED <<asks, scan, events>> /\ NoTable

\* popitem(last=False); an empty table raises, which is caught as well.
Evict(r) ==
    /\ at[r] = "evict"
    /\ IF containers = <<>>
       THEN at' = [at EXCEPT ![r] = "record"] /\ NoTable
       ELSE /\ at' = [at EXCEPT ![r] = "room"]
            /\ evicted' = evicted \union {Head(containers)}
            /\ containers' = Tail(containers)
            /\ changes' = changes + 1
    /\ UNCHANGED <<asks, scan, events>>

RecordCreate(r) ==
    /\ Goto(r, "record", "done")
    /\ Emit([type |-> "create", of |-> r, analysis |-> Analysis(r)])
    /\ UNCHANGED <<asks, scan>> /\ NoTable

-----------------------------------------------------------------------------
BeginScan(r) ==
    /\ Goto(r, "start", "scan")
    /\ scan' = [scan EXCEPT ![r] = [pos |-> 1, changes |-> changes]]
    /\ UNCHANGED <<asks, events>> /\ NoTable

\* RuntimeError: mutated during iteration.
ScanRaises(r) ==
    /\ scan[r].changes # changes
    /\ Goto(r, "scan", "failed")
    /\ UNCHANGED <<asks, scan, events>> /\ NoTable

\* What the iteration is at: a container, or none behind the last.
Here(r) == IF scan[r].pos \in DOMAIN containers THEN {containers[scan[r].pos]} ELSE {}

ScanNext(r) ==
    /\ at[r] = "scan"
    /\ scan[r].changes = changes
    /\ ~(Here(r) \subseteq asks[r].ids)
    /\ scan' = [scan EXCEPT ![r].pos = @ + 1]
    /\ UNCHANGED <<at, asks, events>> /\ NoTable

\* Mutant: the first container in the table is taken.
MutScanEnds(r) ==
    /\ scan[r].changes = changes
    /\ Goto(r, "scan", "done")
    /\ LET found == IF containers = <<>> THEN {} ELSE {Head(containers)} IN
       Emit([type |-> "start", of |-> r, found |-> found,
             analysis |-> IF found = {} THEN Unknown ELSE Prior(Head(containers))])
    /\ UNCHANGED <<asks, scan>> /\ NoTable

\* The first match, or the end of the table: the event is emitted with what the
\* create was taken for, or with nothing but T1610 where nothing is known of it.
ScanEnds(r) ==
    /\ Goto(r, "scan", "done")
    /\ scan[r].changes = changes
    /\ Here(r) \subseteq asks[r].ids
    /\ Emit([type |-> "start", of |-> r, found |-> Here(r),
             analysis |-> IF Here(r) = {} THEN Unknown ELSE Prior(containers[scan[r].pos])])
    /\ UNCHANGED <<asks, scan>> /\ NoTable

\* An exec, and the pull of an image, are logged a second time.
Report(r) ==
    /\ at[r] \in {"exec", "pull"}
    /\ at' = [at EXCEPT ![r] = "done"]
    /\ Emit([type |-> at[r], of |-> r])
    /\ UNCHANGED <<asks, scan>> /\ NoTable

DockerNext ==
    \E r \in Requests :
        \/ Arrive(r) \/ Raises(r)
        \/ Insert(r) \/ MoveToEnd(r) \/ Room(r) \/ Evict(r) \/ RecordCreate(r)
        \/ BeginScan(r) \/ ScanRaises(r) \/ ScanNext(r) \/ ScanEnds(r)
        \/ Report(r)

DockerSpec == DockerInit /\ [][DockerNext]_dockerVars

-----------------------------------------------------------------------------
(* Properties                                                              *)

Starts == {e \in events : e.type = "start"}

\* A start that is reported is tied to a container whose id it named, and to
\* the one named if it was named in full; it is reported without its create
\* only if all that it named have been evicted, however creates interleave.
\* It names the attack its create was taken for, chains and techniques; only a
\* create that was not analysed, whose event has neither, is started as T1610.
StartKnowsItsCreate ==
    \A e \in Starts :
        /\ e.found \subseteq asks[e.of].ids
        /\ e.found = {} => asks[e.of].ids \subseteq evicted
        /\ \A c \in e.found :
              \E made \in events :
                 /\ made.type = "create" /\ made.of = c
                 /\ e.analysis = IF made.analysis = NoAnalysis THEN Unknown ELSE made.analysis

\* However many creates insert, reorder and evict at once and fail half-way,
\* no more than ContMax containers stay once they are through.
BoundedAtRest ==
    (\A r \in Requests : at[r] \notin {"move", "room", "evict"}) => Len(containers) <= ContMax
=============================================================================
