---------------------------- MODULE EventDelivery ----------------------------
(***************************************************************************)
(* What the agent promises about an event a sensor has emitted, without    *)
(* files, cursors or batches: it stays readable until it is published, and *)
(* only an event accepted at risk may ever be missing.  Publication is     *)
(* permanent and only of accepted events.                                  *)
(***************************************************************************)
CONSTANT Events

VARIABLES
    accepted,    \* events some sensor has emitted
    readable,    \* those a future synchronisation would read
    published,   \* those in the repository
    atRisk       \* those accepted while nothing protected them

vars == <<accepted, readable, published, atRisk>>

Init ==
    /\ accepted = {}
    /\ readable = {}
    /\ published = {}
    /\ atRisk = {}

\* A protected event is readable from the moment it is accepted.
Accept(e) ==
    /\ e \notin accepted
    /\ accepted' = accepted \union {e}
    /\ \/ readable' = readable \union {e} /\ atRisk' = atRisk
       \/ readable' \in {readable, readable \union {e}} /\ atRisk' = atRisk \union {e}
    /\ UNCHANGED published

\* Some events are copied to the repository, again or for the first time.
Publish(S) ==
    /\ S \subseteq readable \union published \union atRisk
    /\ published' = published \union S
    /\ UNCHANGED <<accepted, readable, atRisk>>

\* The set of readable events moves, but never over an event that is protected
\* and not yet published.
MoveOn ==
    /\ readable' \subseteq accepted
    /\ \A e \in accepted \ (published \union atRisk) : e \in readable' <=> e \in readable
    /\ UNCHANGED <<accepted, published, atRisk>>

Next ==
    \/ \E e \in Events : Accept(e)
    \/ \E S \in SUBSET Events : Publish(S)
    \/ MoveOn

Spec == Init /\ [][Next]_vars
=============================================================================
