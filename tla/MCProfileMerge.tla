---------------------------- MODULE MCProfileMerge ----------------------------
(* Small instances of ProfileMerge for TLC: the events are those the       *)
(* sensors emit, each with the data its sensor puts in.                    *)
EXTENDS ProfileMerge

NoData ==
    [et |-> "connection", ts |-> 2, accepted |-> FALSE, automated |-> FALSE,
     is_scanner |-> FALSE, botnet |-> FALSE, category |-> None, techniques |-> {},
     username |-> None, command |-> None, infra |-> None, as_org |-> None,
     in_session |-> FALSE]

\* Connections, which carry what is known of the source.
Scan == [NoData EXCEPT !.ts = 1, !.is_scanner = TRUE, !.infra = "cloud", !.as_org = "AS2"]
Visit == [NoData EXCEPT !.ts = 3, !.automated = TRUE, !.infra = "tor", !.as_org = "AS1"]

\* The followed session.
InSession == [NoData EXCEPT !.in_session = TRUE]
Guess == [InSession EXCEPT !.et = "telnet_auth", !.username = "root", !.accepted = TRUE]
Bot == [InSession EXCEPT !.et = "telnet_command", !.botnet = TRUE]
Login == [InSession EXCEPT !.et = "ssh_login_ok", !.ts = 3, !.username = "admin"]
Watch == [InSession EXCEPT !.et = "ssh_command", !.command = "w"]
Encrypt == [InSession EXCEPT !.et = "ssh_command", !.ts = 1, !.command = "enc",
                             !.techniques = {"T1486"},
                             !.category = "data_encrypted_for_impact"]

MCInputs == {Scan, Visit, Guess, Bot, Login, Watch, Encrypt}
MCEventTypes == {ev.et : ev \in MCInputs}
MCCategories == {"data_encrypted_for_impact"}
=============================================================================
