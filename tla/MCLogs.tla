--------------------------------- MODULE MCLogs ---------------------------------
(***************************************************************************)
(* The two log files of a node and who reads them, for TLC: events.jsonl   *)
(* with the aggregator and the prune script, the kernel log with its tail. *)
(* They have no state in common: a behaviour is one of one part, chosen at *)
(* the start, and that part has its fairness.                              *)
(***************************************************************************)
EXTENDS MCEventPipeline, ConnlogTail

VARIABLE part

MCInit ==
    /\ part \in {"events", "kernel"}
    /\ Init /\ TailInit
    /\ part # "kernel" => path = 0

\* A tail may be left without a file for ever.
NoFile == tailPc = "exists" /\ path = 0 /\ UNCHANGED tailVars

MCNext ==
    \/ part = "events" /\ Next /\ UNCHANGED <<part, tailVars>>
    \/ part = "kernel" /\ (TailNext \/ NoFile) /\ UNCHANGED <<part, vars>>

MCFairness ==
    /\ WF_vars(part = "events" /\ AggStep)
    /\ WF_vars(part = "events" /\ PruneStep)
    /\ WF_tailVars(part = "kernel" /\ ReaderStep)
    /\ WF_tailVars(part = "kernel" /\ Reopen)

MCSpec == MCInit /\ [][MCNext]_<<part, vars, tailVars>> /\ MCFairness
=============================================================================
