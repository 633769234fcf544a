----------------------------- MODULE CanaryBeacon -----------------------------
(***************************************************************************)
(* sensors.fileshare_sensor: a bait file is handed out with an id of its   *)
(* own, and whoever opens it later calls home with that id.  The registry  *)
(* that ties the two together is a bounded table in memory under a lock.   *)
(* Downloads and beacons are threads of one server; a process may be       *)
(* restarted between any two of their steps.                               *)
(***************************************************************************)
EXTENDS Naturals, Sequences

CONSTANTS
    IPs,           \* addresses of downloaders and openers
    Beacons,       \* bound: beacon requests in flight at once
    DlMax,         \* _DL_MAX
    MaxDownloads,  \* bound: ids issued
    Headers,       \* Authorization headers, of those ParseNtlm tells apart
    MaxRestarts    \* bound: restarts of the service

ASSUME DlMaxAssumption == DlMax \in Nat \ {0}

VARIABLES
    registry,      \* _DL_REGISTRY: [id, ip], oldest first
    downloads,     \* history: every download [ip, method, life], by its id
    serving,       \* ids registered, whose answer is not sent yet
    known,         \* ids that are out in a file
    beacon,        \* [beacon -> the event it is about to emit, or Idle]
    life           \* restarts so far

canaryVars == <<registry, downloads, serving, known, beacon, life>>

Idle == [event |-> "none"]
Nobody == "nobody"

CanaryInit ==
    /\ registry = <<>>
    /\ downloads = <<>>
    /\ serving = {}
    /\ known = {}
    /\ beacon = [b \in Beacons |-> Idle]
    /\ life = 0

-----------------------------------------------------------------------------
(* _register_download and _lookup_download, each one critical section      *)

\* To the end, and then: while len > _DL_MAX: popitem(last=False).
Register(r, entry) == IF Len(r) >= DlMax THEN Append(Tail(r), entry) ELSE Append(r, entry)

\* Mutant: an id that is not found is given to the last downloader.
MutLookUp(id) == IF registry = <<>> THEN Nobody ELSE registry[Len(registry)].ip

LookUp(id) ==
    LET hits == {i \in DOMAIN registry : registry[i].id = id}
    IN  IF hits = {} THEN Nobody ELSE registry[CHOOSE i \in hits : TRUE].ip

\* A canary is asked for, by GET or HEAD.
Download(ip, method) ==
    /\ Len(downloads) < MaxDownloads
    /\ LET id == Len(downloads) + 1 IN
         /\ registry' = Register(registry, [id |-> id, ip |-> ip])
         /\ downloads' = Append(downloads, [ip |-> ip, method |-> method, life |-> life])
         /\ serving' = serving \union {id}
    /\ UNCHANGED <<known, beacon, life>>

\* Only GET is answered with the file.
HandOut(id) ==
    /\ id \in serving
    /\ serving' = serving \ {id}
    /\ known' = IF downloads[id].method = "GET" THEN known \union {id} ELSE known
    /\ UNCHANGED <<registry, downloads, beacon, life>>

-----------------------------------------------------------------------------
(* Beacons: pixels of any slot, and the WebDAV template with its NTLM      *)

\* What parse_ntlm_authorization makes of a header: nothing, only the scheme
\* of a token without an NTLMSSP message in it, or the type of the message.
\* "type3_short" ends in front of the flags: its names are not read.
AnyHeader == {"none", "foreign", "kerberos", "type1", "type2", "type3", "type3_short"}

ParseNtlm(header) ==
    CASE header \in {"none", "foreign"} -> {}
      [] header = "kerberos" -> {"scheme"}
      [] header = "type1" -> {"message", "type1"}
      [] header = "type3" -> {"message", "type3", "names", "response"}
      [] OTHER -> {"message"}

\* canary_event
DavReport(header) ==
    LET ntlm == ParseNtlm(header)
    IN  CASE ntlm = {} -> "canary_webdav_probe"
          [] "type1" \in ntlm -> "canary_ntlm_negotiate"
          [] OTHER -> "canary_ntlm_credentials_captured"

\* _beacon_intel looks the id up; what follows takes its time (enrichment).
\* An id that was never issued is 0.
BeaconArrives(b, id, opener, event, header) ==
    /\ beacon[b] = Idle
    /\ beacon' = [beacon EXCEPT ![b] =
          [id |-> id, opener |-> opener, event |-> event, header |-> header,
           downloader |-> LookUp(id), different |-> LookUp(id) \notin {Nobody, opener},
           life |-> life, since |-> Len(downloads) - id]]
    /\ UNCHANGED <<registry, downloads, serving, known, life>>

PixelBeacon(b, id, opener) == BeaconArrives(b, id, opener, "canary_beacon_received", "none")
DavBeacon(b, id, opener, header) == BeaconArrives(b, id, opener, DavReport(header), header)

ReportBeacon(b) ==
    /\ beacon[b] # Idle
    /\ beacon' = [beacon EXCEPT ![b] = Idle]
    /\ UNCHANGED <<registry, downloads, serving, known, life>>

\* The registry and what is being handled are lost.
Restart ==
    /\ life < MaxRestarts
    /\ life' = life + 1
    /\ registry' = <<>>
    /\ serving' = {}
    /\ beacon' = [b \in Beacons |-> Idle]
    /\ UNCHANGED <<downloads, known>>

CanaryNext ==
    \/ \E ip \in IPs, method \in {"GET", "HEAD"} : Download(ip, method)
    \/ \E id \in serving : HandOut(id)
    \/ \E b \in Beacons, id \in known \union {0}, opener \in IPs :
          \/ PixelBeacon(b, id, opener)
          \/ \E header \in Headers : DavBeacon(b, id, opener, header)
    \/ \E b \in Beacons : ReportBeacon(b)
    \/ Restart

CanarySpec == CanaryInit /\ [][CanaryNext]_canaryVars

-----------------------------------------------------------------------------
(* Properties                                                              *)

Handled == {beacon[b] : b \in Beacons} \ {Idle}
Forgotten(r) == r.id = 0 \/ downloads[r.id].life # r.life \/ r.since >= DlMax

\* A beacon is attributed to the address that downloaded this very file, also
\* if others were downloading, and evicting, while it was handled; it is
\* attributed to nobody just if its id was never issued, was issued before the
\* last restart, or DlMax downloads or more have come since.
AttributedOrForgotten ==
    \A r \in Handled :
        /\ r.downloader = IF Forgotten(r) THEN Nobody ELSE downloads[r.id].ip
        /\ r.different => r.opener # downloads[r.id].ip
=============================================================================
