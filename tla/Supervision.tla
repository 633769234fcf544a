------------------------------ MODULE Supervision ------------------------------
(***************************************************************************)
(* The sensor process: the services a profile runs in named threads, the   *)
(* ports each of them binds, the watchdog that ends the process when a     *)
(* named thread is dead, and systemd, which starts it again.               *)
(*                                                                         *)
(* Services differ in what a lost port means to them.  "direct" binds one  *)
(* port in the named thread and dies with it; "joins" starts a thread per  *)
(* port and waits for all of them; "beacon" binds its ports one after the  *)
(* other, then does the same; "parks" binds what it can and sleeps.  Other *)
(* programs of the host may hold a port.                                   *)
(*                                                                         *)
(* Certificates are in the data directory, which the sensor never may      *)
(* write.  As installed it may not even search it ("closed": root and the  *)
(* synchroniser's group may); a test or a repaired host has it "empty" or  *)
(* with the "cert" of the share or of owa in it.                           *)
(***************************************************************************)
EXTENDS Naturals, FiniteSets

CONSTANTS
    Profiles,      \* the profiles checked
    DataDirs,      \* what the data directory may be like
    MaxFaults      \* bound: listeners that die and ports taken by other programs

VARIABLES
    profile,       \* config: sensor_profile
    dataDir,       \* "closed", "empty" or "cert"
    running,       \* the process is up
    todo,          \* [service -> ports it has not tried yet]
    listening,     \* [service -> ports it listens on]
    dead,          \* named threads that have ended
    foreign,       \* ports held by other programs
    faults

bound == <<todo, listening, dead>>
supVars == <<profile, dataDir, running, bound, foreign, faults>>

Kind(s) ==
    CASE s \in {"ssh", "esxi_https"} -> "direct"
      [] s \in {"owa", "fileshare"} -> "joins"
      [] s = "beacon" -> "beacon"
      [] s = "winserver" -> "parks"

Services ==
    CASE profile = "owa" -> {"owa"}
      [] profile = "fileshare" -> {"ssh", "fileshare"}
      [] profile = "winserver" -> {"winserver", "ssh", "beacon"}
      [] profile = "esxi" -> {"esxi_https", "ssh", "beacon"}
      [] OTHER -> {"ssh", "beacon"}

\* Two stand for the eight Windows ports.
Ports(s) ==
    CASE s = "ssh" -> {22}
      [] s = "esxi_https" -> {443}
      [] s \in {"owa", "fileshare"} -> {80, 443}
      [] s = "winserver" -> {135, 445}
      [] s = "beacon" -> {80, 443}

AllServices == {"ssh", "esxi_https", "owa", "fileshare", "winserver", "beacon"}
Nowhere == [s \in AllServices |-> {}]
Taken(p) == p \in foreign \/ \E s \in AllServices : p \in listening[s]

SupInit ==
    /\ profile \in Profiles
    /\ dataDir \in DataDirs
    /\ running = FALSE
    /\ todo = Nowhere /\ listening = Nowhere /\ dead = {}
    /\ foreign = {}
    /\ faults = 0

-----------------------------------------------------------------------------
\* systemd, RestartSec=3; main starts the threads of the profile.
Start ==
    /\ ~running
    /\ running' = TRUE
    /\ todo' = [s \in AllServices |-> IF s \in Services THEN Ports(s) ELSE {}]
    /\ UNCHANGED <<profile, dataDir, listening, dead, foreign, faults>>

\* Threads bind in any order; the beacon tries 80 first.
MayTry(s, p) ==
    /\ running /\ s \in Services \ dead
    /\ p \in todo[s]
    /\ s = "beacon" /\ 80 \in todo[s] => p = 80

\* The named thread ends and its sockets are closed.
Ends(s) ==
    /\ dead' = dead \union {s}
    /\ todo' = [todo EXCEPT ![s] = {}]
    /\ listening' = [listening EXCEPT ![s] = {}]

\* One port less; a service that joins is at its end with the last one.
Loses(s, p) ==
    IF Kind(s) \in {"joins", "beacon"} /\ todo[s] \subseteq {p} /\ listening[s] \subseteq {p}
      THEN Ends(s)
      ELSE /\ todo' = [todo EXCEPT ![s] = @ \ {p}]
           /\ listening' = [listening EXCEPT ![s] = @ \ {p}]
           /\ UNCHANGED dead

\* TLS needs a certificate: exists() of a file in a closed directory is a
\* PermissionError, as load_cert_chain of a missing one is an error.  Only the
\* ESXi sensor makes one up in memory.
NoCertificate(s, p) ==
    p = 443 /\ IF s = "esxi_https" THEN dataDir = "closed" ELSE dataDir # "cert"

Bind(s, p) ==
    /\ MayTry(s, p)
    /\ ~Taken(p) /\ ~NoCertificate(s, p)
    /\ todo' = [todo EXCEPT ![s] = @ \ {p}]
    /\ listening' = [listening EXCEPT ![s] = @ \union {p}]
    /\ UNCHANGED <<profile, dataDir, running, dead, foreign, faults>>

\* _ensure_cert finds nothing, cannot write, and there is no TLS.
GoesWithout(s, p) ==
    /\ MayTry(s, p)
    /\ s = "beacon" /\ p = 443 /\ dataDir = "empty"
    /\ Loses(s, p)
    /\ UNCHANGED <<profile, dataDir, running, foreign, faults>>

\* Mutant: a sensor that cannot bind stays as an idle thread.
MutBindFails(s, p) ==
    /\ MayTry(s, p) /\ ~(s = "beacon" /\ p = 443 /\ dataDir = "empty")
    /\ Taken(p) \/ NoCertificate(s, p)
    /\ Loses(s, p)
    /\ UNCHANGED <<profile, dataDir, running, foreign, faults>>

\* An OSError ends a sensor's thread and is a warning to the Windows ports.
\* Werkzeug turns it into SystemExit, which passes the beacon's "except
\* Exception", and _ensure_cert's PermissionError is outside of any: both end
\* the beacon's thread before anything has been served.
BindFails(s, p) ==
    /\ MayTry(s, p) /\ ~(s = "beacon" /\ p = 443 /\ dataDir = "empty")
    /\ Taken(p) \/ NoCertificate(s, p)
    /\ IF Kind(s) \in {"direct", "beacon"} THEN Ends(s) ELSE Loses(s, p)
    /\ UNCHANGED <<profile, dataDir, running, foreign, faults>>

\* The thread that serves a port ends with an exception.
ListenerFails(s, p) ==
    /\ running /\ p \in listening[s]
    /\ faults < MaxFaults
    /\ faults' = faults + 1
    /\ IF Kind(s) = "direct" THEN Ends(s) ELSE Loses(s, p)
    /\ UNCHANGED <<profile, dataDir, running, foreign>>

\* Mutant: the process waits until every named thread is dead.
MutExits ==
    /\ running
    /\ dead = Services
    /\ running' = FALSE
    /\ todo' = Nowhere /\ listening' = Nowhere /\ dead' = {}
    /\ UNCHANGED <<profile, dataDir, foreign, faults>>

\* The watchdog finds a named thread dead, or the main thread of owa is done.
Exits ==
    /\ running
    /\ dead # {}
    /\ running' = FALSE
    /\ todo' = Nowhere /\ listening' = Nowhere /\ dead' = {}
    /\ UNCHANGED <<profile, dataDir, foreign, faults>>

\* Another program of the host takes a free port, and gives it back.
PortTaken(p) ==
    /\ ~Taken(p)
    /\ faults < MaxFaults
    /\ faults' = faults + 1
    /\ foreign' = foreign \union {p}
    /\ UNCHANGED <<profile, dataDir, running, bound>>

PortGivenBack ==
    /\ foreign # {}
    /\ foreign' = {}
    /\ UNCHANGED <<profile, dataDir, running, bound, faults>>

ServiceStep ==
    \/ Start
    \/ \E s \in AllServices : \E p \in todo[s] : 
          Bind(s, p) \/ BindFails(s, p) \/ GoesWithout(s, p)

SupNext ==
    \/ ServiceStep
    \/ Exits
    \/ \E s \in AllServices : \E p \in listening[s] : ListenerFails(s, p)
    \/ \E p \in UNION {Ports(s) : s \in Services} : PortTaken(p)
    \/ PortGivenBack

\* Threads are scheduled, the watchdog polls, systemd restarts; a port is not
\* held for ever.
SupSpec ==
    /\ SupInit /\ [][SupNext]_supVars
    /\ WF_supVars(ServiceStep) /\ WF_supVars(Exits) /\ WF_supVars(PortGivenBack)

-----------------------------------------------------------------------------
(* Properties                                                              *)

Wanted(s) == IF s = "beacon" /\ dataDir # "cert" THEN {80} ELSE Ports(s)
Missing(s) == Wanted(s) \ listening[s]

\* Once a process has settled, a port it should listen on is missing without
\* anybody noticing only where a sibling thread of the same service lives on,
\* or among the Windows ports.
LossIsNoticed ==
    running /\ dead = {} /\ todo = Nowhere =>
        \A s \in Services : Missing(s) # {} =>
            \/ Kind(s) = "parks"
            \/ Kind(s) \in {"joins", "beacon"} /\ listening[s] # {}

\* Where the directory can be searched and no service has a second listener
\* (the beacon's would need a certificate), whatever is lost comes back.
Whole == running /\ \A s \in Services : Missing(s) = {}
Recovers ==
    (dataDir = "empty" /\ \A s \in Services : Kind(s) \in {"direct", "beacon"}) => <>[]Whole

\* FINDING.  "HTTPS is a bonus - never fatal if missing": the beacon receiver
\* ends up listening on 80.  As installed, the search for a certificate ends
\* its thread, the watchdog the process, and systemd starts it all again.
HttpsIsABonus == "beacon" \in Services => <>[](80 \in listening["beacon"])
=============================================================================
