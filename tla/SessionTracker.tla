---------------------------- MODULE SessionTracker ----------------------------
(***************************************************************************)
(* core.session: session ids for stateless probes.                         *)
(*                                                                         *)
(* A process keeps an ordered table of the addresses it has seen, the one  *)
(* seen longest ago first.  get(ip) hands out the id in the table while    *)
(* the address is seen at least once per Window, a new one otherwise, and  *)
(* evicts from the front what exceeds MaxEntries.  The clock is the wall   *)
(* clock, which may be set back.  Every process has a table of its own.    *)
(***************************************************************************)
EXTENDS Naturals, Sequences, FiniteSets

CONSTANTS
    Processes,     \* processes that import core.session
    Visitors,      \* source addresses
    Window,        \* WINDOW_SECONDS
    MaxEntries,    \* max_entries
    MaxTime,       \* bound: the clock runs from 0 to MaxTime
    MaxSids        \* bound: ids handed out

ASSUME ConstantsAssumption ==
    /\ Window \in Nat /\ MaxEntries \in Nat \ {0}
    /\ MaxTime \in Nat /\ MaxSids \in Nat

VARIABLES
    now,       \* time.time()
    table,     \* [process -> _table: entries [ip, sid, seen], oldest first]
    sids,      \* ids made so far by uuid4
    last       \* history: [process -> [ip -> what get last answered]]

trackerVars == <<now, table, sids, last>>

Sids == 1..MaxSids
Never == [sid |-> 0, seen |-> 0, others |-> {}]

TableEntry == [ip : Visitors, sid : Sids, seen : 0..MaxTime]
TrackerAnswer == [sid : 0..MaxSids, seen : 0..MaxTime, others : SUBSET Visitors]

TrackerTypeOK ==
    /\ now \in 0..MaxTime
    /\ table \in [Processes -> Seq(TableEntry)]
    /\ sids \in 0..MaxSids
    /\ last \in [Processes -> [Visitors -> TrackerAnswer]]

TrackerInit ==
    /\ now = 0
    /\ table = [p \in Processes |-> <<>>]
    /\ sids = 0
    /\ last = [p \in Processes |-> [ip \in Visitors |-> Never]]

-----------------------------------------------------------------------------
TableEntries(t) == {t[i] : i \in DOMAIN t}

\* The table without the entry of ip, which it holds once at most.
Without(t, ip) ==
    LET places == {i \in DOMAIN t : t[i].ip = ip}
    IN  IF places = {} THEN t
        ELSE [i \in 1..(Len(t) - 1) |-> t[IF \E j \in places : j <= i THEN i + 1 ELSE i]]

\* while len > max: popitem(last=False).  One entry was added.
WithinBound(t) == IF Len(t) > MaxEntries THEN Tail(t) ELSE t

\* What get answers, with the addresses this process has seen since.
Remember(p, ip, sid) ==
    last' = [last EXCEPT ![p] = [x \in Visitors |->
        IF x = ip THEN [sid |-> sid, seen |-> now, others |-> {}]
                  ELSE [last[p][x] EXCEPT !.others = last[p][x].others \union {ip}]]]

\* Mutant: a refresh does not move the entry to the end.
MutGetKnownInPlace(p, ip) ==
    \E i \in DOMAIN table[p] :
        /\ table[p][i].ip = ip /\ now <= table[p][i].seen + Window
        /\ table' = [table EXCEPT ![p][i].seen = now]
        /\ Remember(p, ip, table[p][i].sid)
        /\ UNCHANGED <<now, sids>>

\* Within the window: the same id, seen now, moved to the end.
GetKnown(p, ip) ==
    \E e \in TableEntries(table[p]) :
        /\ e.ip = ip /\ now <= e.seen + Window
        /\ table' = [table EXCEPT ![p] = Append(Without(@, ip), [e EXCEPT !.seen = now])]
        /\ Remember(p, ip, e.sid)
        /\ UNCHANGED <<now, sids>>

\* Unknown or expired: a new id at the end.
GetNew(p, ip) ==
    /\ sids < MaxSids
    /\ \A e \in TableEntries(table[p]) : e.ip = ip => now > e.seen + Window
    /\ sids' = sids + 1
    /\ table' = [table EXCEPT ![p] =
          WithinBound(Append(Without(@, ip), [ip |-> ip, sid |-> sids + 1, seen |-> now]))]
    /\ Remember(p, ip, sids + 1)
    /\ UNCHANGED now

Tick == now < MaxTime /\ now' = now + 1 /\ UNCHANGED <<table, sids, last>>

\* The wall clock is set back.
SetBack == now > 0 /\ now' = now - 1 /\ UNCHANGED <<table, sids, last>>

TrackerNext ==
    \/ \E p \in Processes, ip \in Visitors : GetKnown(p, ip) \/ GetNew(p, ip)
    \/ Tick
    \/ SetBack

TrackerSpec == TrackerInit /\ [][TrackerNext]_trackerVars

-----------------------------------------------------------------------------
(* Properties                                                              *)

\* The table is bounded, holds an address once, and no two addresses and no
\* two processes ever share an id.
TableSound ==
    /\ \A p \in Processes : Len(table[p]) <= MaxEntries
    /\ \A p \in Processes : \A i, j \in DOMAIN table[p] :
          table[p][i].ip = table[p][j].ip \/ table[p][i].sid = table[p][j].sid => i = j
    /\ \A p, q \in Processes : \A e \in TableEntries(table[p]), f \in TableEntries(table[q]) :
          e.sid = f.sid => p = q

Recent(a) == a.sid # 0 /\ now <= a.seen + Window
Answered(p, ip) == last'[p][ip] # last[p][ip] /\ last'[p][ip].others = {}

\* A session does not fall apart: an address seen again within the window
\* keeps its id, if fewer than MaxEntries other addresses came in between;
\* eviction takes the address that has been quiet the longest.
SessionHolds ==
    [][\A p \in Processes, ip \in Visitors :
          Answered(p, ip) /\ Recent(last[p][ip]) /\ Cardinality(last[p][ip].others) < MaxEntries
             => last'[p][ip].sid = last[p][ip].sid]_trackerVars

\* Two visits more than a window apart never look like one session.
SessionEnds ==
    [][\A p \in Processes, ip \in Visitors :
          Answered(p, ip) /\ last'[p][ip].sid = last[p][ip].sid => Recent(last[p][ip])]_trackerVars

\* Both: a session is what the window says, no less and no more.
SessionIsAWindow == SessionHolds /\ SessionEnds
=============================================================================
