----------------------------- MODULE ProfileMerge -----------------------------
(***************************************************************************)
(* The files ips/<ip>.json and sessions/<sid>.json across aggregator runs. *)
(*                                                                         *)
(* A run folds the events of its batch into a fresh dictionary, one event  *)
(* after the other, then merges the dictionary with the file and replaces  *)
(* the file by the result: a key the merge does not carry over is gone.    *)
(* Where a run starts and ends is the timer's choice, so what a file says  *)
(* should not depend on how the events were cut into batches.              *)
(*                                                                         *)
(* One source address with one session.  A dictionary is a record; a       *)
(* missing key is the zero of its field (0, {}, <<>>, FALSE, None), which  *)
(* is what the code's get(k, ...) and "if k in upd" tell apart.  Of the    *)
(* set-valued keys, which are all merged alike, two are kept.              *)
(***************************************************************************)
EXTENDS Naturals, Sequences

CONSTANTS
    Inputs,        \* the events that may arrive, records of EventShape
    EventTypes,    \* the event types they have
    Categories,    \* the attack categories they have
    CommandCap,    \* 5000: commands kept in a session file
    MaxEvents      \* bound: events that arrive

None == ""

LoginTypes == {"ssh_auth", "ssh_login_ok", "http_login", "esxi_login"}
CorpusTypes == LoginTypes \union {"telnet_auth"}
SilentCategories == {None, "navigation", "empty", "other"}

\* What the fold looks at in an event: absent data is None, {} or FALSE.
EventShape(ev) ==
    /\ ev.et \in EventTypes
    /\ ev.ts \in Nat
    /\ ev.accepted \in BOOLEAN
    /\ ev.automated \in BOOLEAN
    /\ ev.is_scanner \in BOOLEAN
    /\ ev.botnet \in BOOLEAN
    /\ ev.in_session \in BOOLEAN
    /\ ev.category \in Categories \union SilentCategories

ASSUME InputsAssumption == \A ev \in Inputs : EventShape(ev)
ASSUME BoundsAssumption == CommandCap \in Nat \ {0} /\ MaxEvents \in Nat

VARIABLES
    prof,       \* ips/<ip>.json
    upd,        \* ip_updates[ip] of the run under way
    whole,      \* history: the dictionary one run over all events would hold
    sess,       \* sessions/<sid>.json
    sessUpd,    \* sess_updates[sid] of the run under way
    sessWhole   \* history: the same for the session

profVars == <<prof, upd, whole>>
sessVars == <<sess, sessUpd, sessWhole>>
vars == <<profVars, sessVars>>

-----------------------------------------------------------------------------
(* The loop body: one event into the dictionaries of the batch             *)

NoProfile ==
    [event_count |-> 0, first_seen |-> 0, last_seen |-> 0,
     event_types |-> [et \in EventTypes |-> 0],
     usernames_tried |-> {}, attack_techniques |-> {},
     cred_attempts |-> 0, cred_successes |-> 0, commands_run |-> 0,
     attack_categories |-> [c \in Categories |-> 0],
     automated |-> FALSE, is_known_scanner |-> FALSE, botnet_probe |-> FALSE,
     infra |-> None, as_org |-> None]

One(cond) == IF cond THEN 1 ELSE 0
OneMore(count, k) == [x \in DOMAIN count |-> count[x] + One(x = k)]
Present(x) == x # None
LatestOf(new, old) == IF Present(new) THEN new ELSE old
FirstOf(old, new) == IF Present(old) THEN old ELSE new

IsAttempt(ev) == ev.et \in LoginTypes

IsSuccess(ev) == IsAttempt(ev) /\ (ev.accepted \/ ev.et = "ssh_login_ok")

FoldProfile(p, ev) ==
    [event_count |-> p.event_count + 1,
     first_seen |-> IF p.event_count = 0 THEN ev.ts ELSE p.first_seen,
     last_seen |-> ev.ts,
     event_types |-> OneMore(p.event_types, ev.et),
     usernames_tried |-> p.usernames_tried \union
         {u \in {ev.username} : ev.et \in CorpusTypes /\ Present(u)},
     attack_techniques |-> p.attack_techniques \union ev.techniques,
     cred_attempts |-> p.cred_attempts + One(IsAttempt(ev)),
     cred_successes |-> p.cred_successes + One(IsSuccess(ev)),
     commands_run |-> p.commands_run + One(ev.et = "ssh_command"),
     attack_categories |-> IF ev.category \in SilentCategories THEN p.attack_categories
                           ELSE OneMore(p.attack_categories, ev.category),
     automated |-> p.automated \/ ev.automated,
     is_known_scanner |-> p.is_known_scanner \/ ev.is_scanner,
     botnet_probe |-> p.botnet_probe \/ (ev.et = "telnet_command" /\ ev.botnet),
     infra |-> LatestOf(ev.infra, p.infra),
     as_org |-> FirstOf(p.as_org, ev.as_org)]

NoSession ==
    [events |-> 0, event_types |-> [et \in EventTypes |-> 0],
     first_seen |-> 0, last_seen |-> 0, commands |-> <<>>,
     login_ok |-> FALSE, login_user |-> None]

FoldSession(s, ev) ==
    [events |-> s.events + 1,
     event_types |-> OneMore(s.event_types, ev.et),
     first_seen |-> IF s.events = 0 THEN ev.ts ELSE s.first_seen,
     last_seen |-> ev.ts,
     commands |-> IF ev.et = "ssh_command" /\ Present(ev.command)
                  THEN Append(s.commands, ev.command) ELSE s.commands,
     login_ok |-> s.login_ok \/ ev.et = "ssh_login_ok",
     login_user |-> IF ev.et = "ssh_login_ok" THEN ev.username ELSE s.login_user]

-----------------------------------------------------------------------------
(* The merge with the file                                                 *)

\* Mutant: the counts of the batch replace those of the file.
MutSumOf(a, b) == b

SumOf(a, b) == [x \in DOMAIN a |-> a[x] + b[x]]

\* "if k in upd": a batch without the key writes a file without the key.
CarriedIfTouched(old, new) == IF new > 0 THEN old + new ELSE 0

\* existing["first_seen"] wins when it is there and earlier.
EarlierOf(seen, old, new) == IF seen > 0 /\ old < new THEN old ELSE new

MergeProfile(existing, u) ==
    [event_count |-> CarriedIfTouched(existing.event_count, u.event_count),
     first_seen |-> EarlierOf(existing.event_count, existing.first_seen, u.first_seen),
     last_seen |-> u.last_seen,
     event_types |-> SumOf(existing.event_types, u.event_types),
     usernames_tried |-> existing.usernames_tried \union u.usernames_tried,
     attack_techniques |-> existing.attack_techniques \union u.attack_techniques,
     cred_attempts |-> CarriedIfTouched(existing.cred_attempts, u.cred_attempts),
     cred_successes |-> CarriedIfTouched(existing.cred_successes, u.cred_successes),
     commands_run |-> CarriedIfTouched(existing.commands_run, u.commands_run),
     attack_categories |-> SumOf(existing.attack_categories, u.attack_categories),
     automated |-> existing.automated \/ u.automated,
     is_known_scanner |-> existing.is_known_scanner \/ u.is_known_scanner,
     botnet_probe |-> existing.botnet_probe \/ u.botnet_probe,
     infra |-> LatestOf(u.infra, existing.infra),
     as_org |-> LatestOf(u.as_org, existing.as_org)]

LastOf(s, n) == SubSeq(s, IF Len(s) > n THEN Len(s) - n + 1 ELSE 1, Len(s))

\* Mutant: the commands of the batch come first.
MutJoinCommands(old, new) == IF new = <<>> THEN <<>> ELSE LastOf(new \o old, CommandCap)

JoinCommands(old, new) == IF new = <<>> THEN <<>> ELSE LastOf(old \o new, CommandCap)

MergeSession(existing, u) ==
    [events |-> existing.events + u.events,
     event_types |-> SumOf(existing.event_types, u.event_types),
     first_seen |-> EarlierOf(existing.events, existing.first_seen, u.first_seen),
     last_seen |-> u.last_seen,
     commands |-> JoinCommands(existing.commands, u.commands),
     login_ok |-> u.login_ok,
     login_user |-> u.login_user]

-----------------------------------------------------------------------------
(* The verdict derived from a profile: _profile_actor.  Of the evidence a   *)
(* verdict accepts, one technique or category of each kind is kept; the    *)
(* other keys are sets and sticky flags, merged as those here are.         *)

Shows(p, techniques, categories) ==
    \/ p.attack_techniques \intersect techniques # {}
    \/ \E c \in categories \intersect Categories : p.attack_categories[c] > 0

Interactive(p) == p.commands_run > 0
Ransomware(p) == Shows(p, {"T1486", "T1490"},
                          {"data_encrypted_for_impact", "inhibit_system_recovery"})
Cryptojacking(p) == Shows(p, {"T1496"}, {})
CredentialDumping(p) == Shows(p, {"T1003"}, {"credential_dumping"})
Escape(p) == Shows(p, {"T1611"}, {})
Bruteforce(p) == p.cred_attempts >= 5 /\ ~Interactive(p)
\* Mutant: what the client did does not count against a known scanner.
MutBenignScanner(p) == p.is_known_scanner /\ p.cred_successes = 0 /\ ~Interactive(p)

BenignScanner(p) ==
    /\ p.is_known_scanner
    /\ p.cred_successes = 0
    /\ ~Interactive(p) /\ ~Ransomware(p) /\ ~Cryptojacking(p)

\* The if/elif chain: the first verdict whose condition holds.
Verdicts(p) ==
    << <<BenignScanner(p), "research_scanner">>,
       <<Ransomware(p), "ransomware_operator">>,
       <<Cryptojacking(p), "cryptojacker">>,
       <<CredentialDumping(p), "credential_harvester">>,
       <<Escape(p), "container_escape_operator">>,
       <<p.botnet_probe, "iot_botnet">>,
       <<Interactive(p), "interactive_operator">>,
       <<Bruteforce(p), "credential_bruteforcer">>,
       <<p.automated, "automated_scanner">>,
       <<TRUE, "prober">> >>

ActorType(p) ==
    LET v == Verdicts(p)
        first == CHOOSE i \in 1..Len(v) : v[i][1] /\ \A j \in 1..(i - 1) : ~v[j][1]
    IN  v[first][2]

-----------------------------------------------------------------------------
(* The runs                                                                *)

Init ==
    /\ prof = NoProfile /\ upd = NoProfile /\ whole = NoProfile
    /\ sess = NoSession /\ sessUpd = NoSession /\ sessWhole = NoSession

\* The run's loop reads the next event.
Fold(ev) ==
    /\ whole.event_count < MaxEvents
    /\ upd' = FoldProfile(upd, ev)
    /\ whole' = FoldProfile(whole, ev)
    /\ sessUpd' = IF ev.in_session THEN FoldSession(sessUpd, ev) ELSE sessUpd
    /\ sessWhole' = IF ev.in_session THEN FoldSession(sessWhole, ev) ELSE sessWhole
    /\ UNCHANGED <<prof, sess>>

\* The run reaches the end of the log and merges what it has.
Merge ==
    /\ upd.event_count > 0
    /\ prof' = MergeProfile(prof, upd)
    /\ upd' = NoProfile
    /\ sess' = IF sessUpd.events > 0 THEN MergeSession(sess, sessUpd) ELSE sess
    /\ sessUpd' = NoSession
    /\ UNCHANGED <<whole, sessWhole>>

Next ==
    \/ \E ev \in Inputs : Fold(ev)
    \/ Merge

Spec == Init /\ [][Next]_vars

-----------------------------------------------------------------------------
(* Properties                                                              *)

ProfileType ==
    [event_count : Nat, first_seen : Nat, last_seen : Nat,
     event_types : [EventTypes -> Nat],
     usernames_tried : SUBSET {ev.username : ev \in Inputs},
     attack_techniques : SUBSET UNION {ev.techniques : ev \in Inputs},
     cred_attempts : Nat, cred_successes : Nat, commands_run : Nat,
     attack_categories : [Categories -> Nat],
     automated : BOOLEAN, is_known_scanner : BOOLEAN, botnet_probe : BOOLEAN,
     infra : {None} \union {ev.infra : ev \in Inputs},
     as_org : {None} \union {ev.as_org : ev \in Inputs}]

SessionType ==
    [events : Nat, event_types : [EventTypes -> Nat],
     first_seen : Nat, last_seen : Nat,
     commands : Seq({ev.command : ev \in Inputs}),
     login_ok : BOOLEAN, login_user : {None} \union {ev.username : ev \in Inputs}]

\* Every dictionary has the fields the code writes, with values of their type.
TypeOK ==
    /\ prof \in ProfileType /\ upd \in ProfileType /\ whole \in ProfileType
    /\ sess \in SessionType /\ sessUpd \in SessionType /\ sessWhole \in SessionType

\* What the file would be if the run under way ended here.
Merged == IF upd.event_count > 0 THEN MergeProfile(prof, upd) ELSE prof
MergedSession == IF sessUpd.events > 0 THEN MergeSession(sess, sessUpd) ELSE sess

\* However the events are cut into batches, the file holds exactly the counts,
\* sets, flags and latest values that one run over all of them would have.
CarriedExactly ==
    /\ Merged.event_count = whole.event_count
    /\ Merged.last_seen = whole.last_seen
    /\ Merged.event_types = whole.event_types
    /\ Merged.usernames_tried = whole.usernames_tried
    /\ Merged.attack_techniques = whole.attack_techniques
    /\ Merged.attack_categories = whole.attack_categories
    /\ Merged.automated = whole.automated
    /\ Merged.is_known_scanner = whole.is_known_scanner
    /\ Merged.botnet_probe = whole.botnet_probe
    /\ Merged.infra = whole.infra

\* The counters that the merge may lose are never too high, and a profile
\* never shows more successful logins than attempts, whichever it has lost.
CountersNeverInflated ==
    /\ Merged.cred_attempts <= whole.cred_attempts
    /\ Merged.commands_run <= whole.commands_run
    /\ Merged.cred_successes <= Merged.cred_attempts

\* The start of the activity is never dated later than one run would date it,
\* also when processes wrote their events out of order.
FirstSeenNotLater ==
    /\ Merged.first_seen <= whole.first_seen
    /\ MergedSession.first_seen <= sessWhole.first_seen

\* The commands in a session file are the last ones of a stretch of the
\* session, in order, and at most CommandCap; its counts are complete.
SessionInOrder ==
    LET kept == sess.commands
        all == sessWhole.commands
    IN  /\ Len(kept) <= CommandCap
        /\ \E d \in 0..Len(all) :
              d + Len(kept) <= Len(all) /\ \A i \in 1..Len(kept) : kept[i] = all[d + i]
        /\ MergedSession.events = sessWhole.events
        /\ MergedSession.event_types = sessWhole.event_types

\* The two verdicts that outrank everything the merge can lose stay.
SevereVerdictKept ==
    upd.event_count = 0 /\ (Ransomware(whole) \/ Cryptojacking(whole))
        => ActorType(prof) = ActorType(whole)

\* What a merge must not do to the numbers: lose some, or count some twice.
CountersCarried == CarriedExactly /\ CountersNeverInflated

\* What a merge must not do to the order: of first and last, and of commands.
OrderKept == FirstSeenNotLater /\ SessionInOrder

-----------------------------------------------------------------------------
(* Statements of the documentation                                         *)

\* aggregator.py: the verdict is derived "from a fully-merged IP profile".
VerdictOfWholeHistory == upd.event_count = 0 => ActorType(prof) = ActorType(whole)
=============================================================================
