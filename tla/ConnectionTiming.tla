--------------------------- MODULE ConnectionTiming ---------------------------
(***************************************************************************)
(* core.enrichment._record_connection: the rate and the bursts that go     *)
(* into the events of an address.  One lock covers it; the table drops the *)
(* address that has been in it longest, not the one that was quiet longest.*)
(***************************************************************************)
EXTENDS Naturals, Sequences, FiniteSets

CONSTANTS
    Sources,       \* addresses
    TimingMax,     \* _TIMING_MAX
    BurstWindow,   \* _BURST_WINDOW
    MaxCalls       \* bound: connections recorded

ASSUME TimingAssumption == TimingMax \in Nat /\ BurstWindow \in Nat /\ MaxCalls \in Nat

VARIABLES
    timing,        \* _TIMING: [ip, count, burst, max, bursts, last], oldest first
    clock,
    calls          \* history: [ip, at] of every connection

timingVars == <<timing, clock, calls>>

TimingInit == timing = <<>> /\ clock = 0 /\ calls = <<>>

-----------------------------------------------------------------------------
Index(ip) == {i \in DOMAIN timing : timing[i].ip = ip}
NewRecord(ip) == [ip |-> ip, count |-> 1, burst |-> 1, max |-> 1, bursts |-> 0, last |-> clock]

\* Mutant: the burst goes on as long as the calls follow each other closely.
MutCounted(r) ==
    IF clock - r.last <= BurstWindow
      THEN [r EXCEPT !.count = @ + 1, !.burst = @ + 1,
                     !.max = IF r.burst + 1 > @ THEN r.burst + 1 ELSE @, !.last = clock]
      ELSE [r EXCEPT !.count = @ + 1, !.burst = 1, !.last = clock,
                     !.bursts = IF r.burst > 1 THEN @ + 1 ELSE @]

\* A burst is what falls into the window that its first call opened; the last
\* one is not counted before another call comes.
Counted(r) ==
    IF clock - r.last <= BurstWindow
      THEN [r EXCEPT !.count = @ + 1, !.burst = @ + 1,
                     !.max = IF r.burst + 1 > @ THEN r.burst + 1 ELSE @]
      ELSE [r EXCEPT !.count = @ + 1, !.burst = 1, !.last = clock,
                     !.bursts = IF r.burst > 1 THEN @ + 1 ELSE @]

Bounded(t) == IF Len(t) > TimingMax THEN Tail(t) ELSE t

RecordConnection(ip) ==
    /\ Len(calls) < MaxCalls
    /\ timing' = IF Index(ip) = {} THEN Bounded(Append(timing, NewRecord(ip)))
                 ELSE [i \in DOMAIN timing |-> IF i \in Index(ip) THEN Counted(timing[i]) ELSE timing[i]]
    /\ calls' = Append(calls, [ip |-> ip, at |-> clock])
    /\ UNCHANGED clock

\* Time matters up to a window and a bit more.
Passes(n) ==
    /\ Len(calls) \in 1..(MaxCalls - 1) /\ clock < calls[Len(calls)].at + BurstWindow + 1
    /\ clock' = clock + n
    /\ UNCHANGED <<timing, calls>>

TimingNext == (\E ip \in Sources : RecordConnection(ip)) \/ Passes(1)
TimingSpec == TimingInit /\ [][TimingNext]_timingVars

-----------------------------------------------------------------------------
(* Properties                                                              *)

\* The calls of an address since it is in the table.
Remembered(r) ==
    LET all == {i \in DOMAIN calls : calls[i].ip = r.ip}
    IN  {i \in all : Cardinality({j \in all : j >= i}) <= r.count}
Within(r, from) == Cardinality({i \in Remembered(r) : calls[i].at \in from..(from + BurstWindow)})

\* max_burst_in_window never exceeds the busiest window of the address, and
\* is at least half of it, although the windows are laid from first call to
\* first call; the table keeps to its limit, each address once.
BurstsWithinFactorTwo ==
    /\ \A i \in DOMAIN timing :
          /\ \E k \in Remembered(timing[i]) : Within(timing[i], calls[k].at) >= timing[i].max
          /\ \A k \in Remembered(timing[i]) : Within(timing[i], calls[k].at) <= 2 * timing[i].max
    /\ Len(timing) <= TimingMax
    /\ Cardinality({timing[i].ip : i \in DOMAIN timing}) = Len(timing)
=============================================================================
