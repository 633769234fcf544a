-------------------------------- MODULE MCDecoys --------------------------------
(***************************************************************************)
(* The decoys, and the bookkeeping they share, for TLC.  They have no      *)
(* state in common: a behaviour is one of one part, chosen at the start,   *)
(* while the variables of the others stay as they are.                     *)
(***************************************************************************)
EXTENDS MCProfileMerge, SessionTracker, ConnectionTiming, PacketCapture, PortProbes,
        DockerSensor, RedisSession, HttpDecoys, ShareTree, BeaconRoutes, CanaryBeacon,
        FakeUniverse, FakeShell, LineEditor

VARIABLE part

AllParts == {"profiles", "tracker", "timing", "capture", "probes", "docker", "redis", "http",
           "share", "routes", "canary", "universe", "shell", "editor"}

Unit(is) == [is |-> is, length |-> 0]

\* A part with several initial states has one of them where it does not run.
MCInit ==
    /\ part \in AllParts
    /\ Init /\ TrackerInit /\ TimingInit /\ CaptureInit /\ ProbeInit /\ DockerInit /\ RedisInit
    /\ HttpInit /\ ShareInit /\ RoutesInit /\ CanaryInit /\ UniverseInit /\ ShellInit
    /\ EditorInit
    /\ part # "probes" => kind = "rdp" /\ stream = <<Unit("noise"), Unit("cookie")>>
    /\ part # "http" => site = [app |-> "owa", tls |-> TRUE]
    /\ part # "routes" => base = "none"
    /\ part # "universe" => file = NoWorld
    /\ part # "shell" => user = "root"
    /\ part # "editor" => twin = "ssh"

Still(p, v) == IF part = p THEN TRUE ELSE UNCHANGED v

Rest ==
    /\ UNCHANGED part
    /\ Still("profiles", vars)
    /\ Still("tracker", trackerVars)
    /\ Still("timing", timingVars)
    /\ Still("capture", captureVars)
    /\ Still("probes", probeVars)
    /\ Still("docker", dockerVars)
    /\ Still("redis", redisVars)
    /\ Still("http", httpVars)
    /\ Still("share", shareVars)
    /\ Still("routes", routeVars)
    /\ Still("canary", canaryVars)
    /\ Still("universe", uniVars)
    /\ Still("shell", shellVars)
    /\ Still("editor", editorVars)

MCNext ==
    \/ part = "profiles" /\ Next /\ Rest
    \/ part = "tracker" /\ TrackerNext /\ Rest
    \/ part = "timing" /\ TimingNext /\ Rest
    \/ part = "capture" /\ CaptureNext /\ Rest
    \/ part = "probes" /\ ProbeNext /\ Rest
    \/ part = "docker" /\ DockerNext /\ Rest
    \/ part = "redis" /\ RedisNext /\ Rest
    \/ part = "http" /\ HttpNext /\ Rest
    \/ part = "share" /\ ShareNext /\ Rest
    \/ part = "routes" /\ RoutesNext /\ Rest
    \/ part = "canary" /\ CanaryNext /\ Rest
    \/ part = "universe" /\ UniverseNext /\ Rest
    \/ part = "shell" /\ ShellNext /\ Rest
    \/ part = "editor" /\ EditorNext /\ Rest

MCVars ==
    <<part, vars, trackerVars, timingVars, captureVars, probeVars, dockerVars, redisVars, httpVars,
      shareVars, routeVars, canaryVars, uniVars, shellVars, editorVars>>

MCSpec == MCInit /\ [][MCNext]_MCVars

-----------------------------------------------------------------------------
(* Instances                                                               *)

MCBodies == {[shape |-> "malformed", signs |-> {}], [shape |-> "other", signs |-> {}],
             [shape |-> "object", signs |-> {"miner", "privileged"}]}

Redis(name, val) == [name |-> name, val |-> val]
MCCommands == {Redis("CONFIG SET dir", "ssh"), Redis("CONFIG SET dir", ""), Redis("SAVE", "")}

\* What an RDP client means to send: a request and its core data, a header that
\* promises more or less than follows, something else, and no header at all.
Header(n) == [is |-> "head", length |-> n]
Asks(n) == <<Header(n), Unit("cr"), Unit("cookie"), Unit("protocols")>>
Tells(is) == <<Header(1), Unit(is)>>
MCStreams ==
    {Asks(3) \o Tells("core"), Asks(3) \o Tells("other"), Asks(9) \o Tells("core"),
     Asks(1) \o Tells("core"), Tells("other") \o Tells("core"),
     <<Unit("noise"), Unit("cookie")>>}

Kind(p, m, b) == [path |-> p, method |-> m, brings |-> b]
MCKinds ==
    {Kind("/", "GET", "none"), Kind("/", "POST", "form"), Kind("/owa", "GET", "query"),
     Kind("/owa/auth.owa", "POST", "form"), Kind("/owa/auth/logon.aspx", "POST", "form_8k"),
     Kind("/owa/auth.owa", "POST", "form_256k"), Kind("/owa/auth.owa", "GET", "none"),
     Kind("/autodiscover/autodiscover.xml", "GET", "basic"),
     Kind("/ui/", "GET", "none"), Kind("/sdk", "POST", "none"), Kind("/sdk", "POST", "soap_login"),
     Kind("/sdk", "POST", "soap_login_prefixed"), Kind("/sdk/vimServiceVersions.xml", "GET", "none"),
     Kind("/folder", "GET", "basic"), Kind("/other", "DELETE", "none")}

At(path, slash) == [path |-> path, slash |-> slash, autoindex |-> FALSE]
MCTypedUrls ==
    {At(<<>>, TRUE), [At(<<>>, TRUE) EXCEPT !.autoindex = TRUE], At(<<"docs">>, FALSE),
     At(<<"docs", "..">>, FALSE), At(<<"..", ".", "private">>, TRUE), At(<<"server-status">>, FALSE),
     At(<<"wp-admin">>, TRUE), At(<<"pma">>, FALSE), At(<<".well-known", "security.txt">>, FALSE),
     At(<<"README.txt">>, TRUE), At(<<"cgi-bin">>, TRUE)}

\* Arguments typed in the shell: with ~, .., a doubled slash, bait and proc.
MCTyped ==
    {<<"root">>, <<"..">>, <<"", "root">>, <<"~">>, <<"~", "notes">>, <<"vault.docx">>,
     <<"meeting.rtf">>, <<".ssh">>, <<"proc", "meminfo">>, <<"", "">>, <<"", "", "">>,
     <<"", "", "etc">>, <<"", "", "root", "vault.docx">>, <<"..", "etc", "passwd">>}
=============================================================================
