------------------------------ MODULE GeoReaders ------------------------------
(***************************************************************************)
(* core.enrichment: what the handler threads of all sensors share when     *)
(* they enrich an address.  The database readers are opened, and opened    *)
(* again when an hourly check finds a newer file, under a lock; they are   *)
(* used without it.  The same lines do this for the city and then for the  *)
(* ASN database: one reader stands for both.  The exit list of the Tor     *)
(* network is read once an hour under a lock of its own, which does not    *)
(* cover its first check.  Names of addresses are cached.                  *)
(*                                                                         *)
(* A file is its generation, the modification time of the code; 0 is a     *)
(* file that does not exist.  Files are replaced by the weekly refresh; a  *)
(* file can be unreadable for a while.  The installer may have had none.   *)
(***************************************************************************)
EXTENDS Naturals, Sequences

CONSTANTS
    Threads,       \* handler threads
    Addresses,     \* public addresses they enrich
    MaxChanges,    \* bound: times a file is replaced or becomes unreadable
    CacheMax,      \* _PTR_CACHE_MAX
    EvictCount     \* _PTR_CACHE_MAX // 10

\* A tenth of the cache is something; no thread is called like a free lock.
ASSUME CacheAssumption ==
    /\ MaxChanges \in Nat /\ CacheMax \in Nat /\ EvictCount \in 1..CacheMax
    /\ "free" \notin Threads

Files == {"city", "tor"}
NoReader == [file |-> 0, mtime |-> 0, open |-> FALSE]

VARIABLES
    disk,          \* [file -> its generation]
    damaged,       \* files that cannot be read at present
    changes,
    reader,        \* _city_reader, and the mtime recorded for it
    checkDue,      \* more than an hour has passed since _last_mtime_check
    list,          \* generation of _TOR_EXITS
    listDue,       \* the same for _TOR_LAST_LOAD
    geoLock, torLock,
    cache,         \* _ptr_cache: addresses, oldest first
    looker         \* [thread -> its address, place, and the mtime it has read]

geoVars == <<disk, damaged, changes, reader, checkDue, list, listDue,
             geoLock, torLock, cache, looker>>
world == <<disk, damaged, changes>>

Free == "free"
At(t, where) == looker[t].at = where
Moves(t, where) == looker' = [looker EXCEPT ![t].at = where]

GeoInit ==
    /\ disk \in {[f \in Files |-> 0], [f \in Files |-> 1]}
    /\ damaged = {} /\ changes = 0
    /\ reader = NoReader
    /\ checkDue = TRUE
    /\ list = 0 /\ listDue = TRUE
    /\ geoLock = Free /\ torLock = Free
    /\ cache = <<>>
    /\ looker = [t \in Threads |-> [at |-> "idle", ip |-> "none", mtime |-> 0]]

-----------------------------------------------------------------------------
(* _ensure_readers                                                         *)

Enrich(t, ip) ==
    /\ At(t, "idle")
    /\ looker' = [looker EXCEPT ![t].at = "ensure", ![t].ip = ip]
    /\ UNCHANGED <<world, reader, checkDue, list, listDue, geoLock, torLock, cache>>

InUse == reader # NoReader

\* The lock is taken and, if there is nothing to do, given back.
Ensure(t) ==
    /\ At(t, "ensure") /\ geoLock = Free
    /\ IF InUse /\ ~checkDue
         THEN /\ Moves(t, "tor")
              /\ UNCHANGED <<checkDue, geoLock>>
         ELSE /\ Moves(t, "city")
              /\ checkDue' = FALSE
              /\ geoLock' = t
    /\ UNCHANGED <<world, reader, list, listDue, torLock, cache>>

UpToDate == disk["city"] = 0 \/ (InUse /\ disk["city"] <= reader.mtime)

\* getmtime and the comparison; an old reader is closed before the new one
\* is opened, and stays in use.
Stat(t) ==
    /\ At(t, "city")
    /\ IF UpToDate
         THEN /\ Moves(t, "tor")
              /\ geoLock' = Free
              /\ UNCHANGED reader
         ELSE /\ looker' = [looker EXCEPT ![t].at = "open", ![t].mtime = disk["city"]]
              /\ reader' = [reader EXCEPT !.open = FALSE]
              /\ UNCHANGED geoLock
    /\ UNCHANGED <<world, checkDue, list, listDue, torLock, cache>>

\* Mutant: the modification time is recorded before the file is opened.
MutOpened(mtime) ==
    IF "city" \in damaged THEN [reader EXCEPT !.mtime = mtime]
    ELSE [file |-> disk["city"], mtime |-> mtime, open |-> TRUE]

\* A reader that cannot be opened is an exception: nothing is recorded.
Opened(mtime) ==
    IF "city" \in damaged THEN reader
    ELSE [file |-> disk["city"], mtime |-> mtime, open |-> TRUE]

OpenReader(t) ==
    /\ At(t, "open")
    /\ reader' = Opened(looker[t].mtime)
    /\ looker' = [looker EXCEPT ![t].at = "tor", ![t].mtime = 0]
    /\ geoLock' = Free
    /\ UNCHANGED <<world, checkDue, list, listDue, torLock, cache>>

-----------------------------------------------------------------------------
(* _load_tor_exits, and _load_proxies, which is the same                   *)

TorCheck(t) ==
    /\ At(t, "tor")
    /\ Moves(t, IF listDue THEN "tor_lock" ELSE "ptr")
    /\ UNCHANGED <<world, reader, checkDue, list, listDue, geoLock, torLock, cache>>

\* The time of the load is taken before it succeeds.
TorLock(t) ==
    /\ At(t, "tor_lock") /\ torLock = Free
    /\ IF listDue
         THEN Moves(t, "tor_read") /\ torLock' = t
         ELSE Moves(t, "ptr") /\ UNCHANGED torLock
    /\ listDue' = FALSE
    /\ UNCHANGED <<world, reader, checkDue, list, geoLock, cache>>

TorRead(t) ==
    /\ At(t, "tor_read")
    /\ list' = IF "tor" \in damaged \/ disk["tor"] = 0 THEN list ELSE disk["tor"]
    /\ torLock' = Free
    /\ Moves(t, "ptr")
    /\ UNCHANGED <<world, reader, checkDue, listDue, geoLock, cache>>

-----------------------------------------------------------------------------
(* _ptr: looked up under the lock, resolved without it                     *)

Cached(ip) == \E i \in DOMAIN cache : cache[i] = ip

PtrCheck(t) ==
    /\ At(t, "ptr")
    /\ Moves(t, IF Cached(looker[t].ip) THEN "idle" ELSE "resolve")
    /\ UNCHANGED <<world, reader, checkDue, list, listDue, geoLock, torLock, cache>>

\* A full cache loses its oldest entries, also when the address is in it by now.
Evicted == IF Len(cache) >= CacheMax THEN SubSeq(cache, EvictCount + 1, Len(cache)) ELSE cache
Store(c, ip) == IF \E i \in DOMAIN c : c[i] = ip THEN c ELSE Append(c, ip)

PtrStore(t) ==
    /\ At(t, "resolve")
    /\ cache' = Store(Evicted, looker[t].ip)
    /\ Moves(t, "idle")
    /\ UNCHANGED <<world, reader, checkDue, list, listDue, geoLock, torLock>>

-----------------------------------------------------------------------------
(* Time and the files                                                      *)

HourPasses ==
    /\ ~checkDue \/ ~listDue
    /\ checkDue' = TRUE /\ listDue' = TRUE
    /\ UNCHANGED <<world, reader, list, geoLock, torLock, cache, looker>>

Replaced(f) ==
    /\ changes < MaxChanges
    /\ changes' = changes + 1
    /\ disk' = [disk EXCEPT ![f] = @ + 1]
    /\ damaged' = damaged \ {f}
    /\ UNCHANGED <<reader, checkDue, list, listDue, geoLock, torLock, cache, looker>>

Damaged(f) ==
    /\ f \notin damaged /\ changes < MaxChanges
    /\ damaged' = damaged \union {f}
    /\ changes' = changes + 1
    /\ UNCHANGED <<disk, reader, checkDue, list, listDue, geoLock, torLock, cache, looker>>

Repaired(f) ==
    /\ f \in damaged
    /\ damaged' = damaged \ {f}
    /\ UNCHANGED <<disk, changes, reader, checkDue, list, listDue, geoLock, torLock, cache, looker>>

Step(t) ==
    \/ Ensure(t) \/ Stat(t) \/ OpenReader(t)
    \/ TorCheck(t) \/ TorLock(t) \/ TorRead(t)
    \/ PtrCheck(t) \/ PtrStore(t)

GeoNext ==
    \/ \E t \in Threads : Step(t) \/ \E ip \in Addresses : Enrich(t, ip)
    \/ HourPasses
    \/ \E f \in Files : Replaced(f) \/ Damaged(f) \/ Repaired(f)

\* Threads run, connections keep coming, hours pass, no damage is for ever.
GeoSpec ==
    /\ GeoInit /\ [][GeoNext]_geoVars
    /\ \A t \in Threads : WF_geoVars(Step(t))
    /\ \A t \in Threads : WF_geoVars(\E ip \in Addresses : Enrich(t, ip))
    /\ WF_geoVars(HourPasses)
    /\ \A f \in Files : WF_geoVars(Repaired(f))

-----------------------------------------------------------------------------
(* Properties                                                              *)

ReaderFresh == disk["city"] > 0 => reader.open /\ reader.file = disk["city"]

\* "the hourly mtime re-check picks up the change": the files are replaced a
\* last time, and from some moment on every lookup uses them, whatever could
\* not be read, was half replaced or was being used meanwhile.
RefreshPickedUp == <>[](ReaderFresh /\ list = disk["tor"])

\* What a check of the files takes for up to date is: a reader that is open, of
\* the file that is there.  So a reader which failed to open is tried again,
\* and a file replaced between the look at its time and its opening is at
\* worst opened twice.
CheckIsRight == InUse /\ UpToDate => ReaderFresh

\* A lock is held by the one thread that is where it is needed.
LocksHeld ==
    \A t \in Threads :
        /\ geoLock = t <=> looker[t].at \in {"city", "open"}
        /\ torLock = t <=> looker[t].at = "tor_read"

\* The cache keeps to its limit, each address once, however many threads
\* resolve the same one.
CacheSound == Len(cache) <= CacheMax /\ \A i, j \in DOMAIN cache : cache[i] = cache[j] => i = j

GeoSound == CheckIsRight /\ LocksHeld /\ CacheSound
=============================================================================
