------------------------------- MODULE MCServices -------------------------------
(***************************************************************************)
(* Parts that must get somewhere, for TLC: a Telnet session, the channels  *)
(* of an SSH connection, the readers of the geographic databases, and the  *)
(* supervision of the services.  They have no state in common: a behaviour *)
(* is one of one part, chosen at the start, and that part has its fairness. *)
(***************************************************************************)
EXTENDS TelnetSession, SshChannels, GeoReaders, Supervision

VARIABLE part

\* A part that does not run is where it owes nothing.
MCInit ==
    /\ part \in {"telnet", "ssh", "geo", "supervision"}
    /\ Init /\ GeoInit /\ SupInit
    /\ IF part = "telnet"
       THEN TelnetInit
       ELSE /\ telAt = "closed" /\ peer = "reset" /\ trickling = FALSE /\ attempt = 1 /\ user = ""
            /\ lines = 0 /\ cmdCount = 0 /\ telLog = <<>>
    /\ part # "geo" => disk["city"] = 0
    /\ part # "supervision" => profile = "ssh" /\ dataDir = "cert"

Still(p, v) == IF part = p THEN TRUE ELSE UNCHANGED v

Rest ==
    /\ UNCHANGED part
    /\ Still("telnet", telnetVars)
    /\ Still("ssh", vars)
    /\ Still("geo", geoVars)
    /\ Still("supervision", supVars)

MCNext ==
    \/ part = "telnet" /\ TelnetNext /\ Rest
    \/ part = "ssh" /\ Next /\ Rest
    \/ part = "geo" /\ GeoNext /\ Rest
    \/ part = "supervision" /\ SupNext /\ Rest

\* The fairness of each module, for the part that runs.
MCFairness ==
    /\ WF_telnetVars(part = "telnet" /\ Handler)
    /\ WF_telnetVars(part = "telnet" /\ ResetArrives)
    /\ WF_vars(part = "ssh" /\ HandlerStep)
    /\ \A c \in Channels :
          /\ WF_vars(part = "ssh" /\ TakeExec(c))
          /\ WF_vars(part = "ssh" /\ MustFinish(c) /\ Finish(c))
    /\ \A t \in Threads :
          /\ WF_geoVars(part = "geo" /\ Step(t))
          /\ WF_geoVars(part = "geo" /\ \E ip \in Addresses : Enrich(t, ip))
    /\ WF_geoVars(part = "geo" /\ HourPasses)
    /\ \A f \in Files : WF_geoVars(part = "geo" /\ Repaired(f))
    /\ WF_supVars(part = "supervision" /\ ServiceStep)
    /\ WF_supVars(part = "supervision" /\ Exits)
    /\ WF_supVars(part = "supervision" /\ PortGivenBack)

MCVars == <<part, telnetVars, vars, geoVars, supVars>>

MCSpec == MCInit /\ [][MCNext]_MCVars /\ MCFairness
=============================================================================
