--------------------------- MODULE MCEventPipeline ---------------------------
(* Small instances of EventPipeline for TLC.                               *)
EXTENDS EventPipeline

\* Neighbouring events fall in different hours and profiles, so that a batch
\* is written in several steps.
MCHourOf == [e \in Events |-> e % 2]
MCIpOf == [e \in Events |-> (e \div 2) % 2]
=============================================================================
