-------------------------- MODULE ProfileMerge_proofs --------------------------
(***************************************************************************)
(* For any events, any caps and any number of aggregations and cuts: the   *)
(* profile and the session of an address agree with the events they were   *)
(* merged from.                                                            *)
(***************************************************************************)
EXTENDS ProfileMerge, SequenceTheorems, TLAPS

-----------------------------------------------------------------------------
(* Types                                                                   *)

LEMMA ZeroProfile == NoProfile \in ProfileType
  <1>1. /\ [et \in EventTypes |-> 0] \in [EventTypes -> Nat]
        /\ [c \in Categories |-> 0] \in [Categories -> Nat]
        /\ {} \in SUBSET {ev.username : ev \in Inputs}
        /\ {} \in SUBSET UNION {ev.techniques : ev \in Inputs}
        /\ None \in {None} \union {ev.infra : ev \in Inputs}
        /\ None \in {None} \union {ev.as_org : ev \in Inputs}
        /\ 0 \in Nat /\ FALSE \in BOOLEAN
    OBVIOUS
  <1>. QED  BY <1>1 DEF NoProfile, ProfileType

LEMMA ZeroSession == NoSession \in SessionType
  <1>1. /\ [et \in EventTypes |-> 0] \in [EventTypes -> Nat]
        /\ <<>> \in Seq({ev.command : ev \in Inputs})
        /\ None \in {None} \union {ev.username : ev \in Inputs}
        /\ 0 \in Nat /\ FALSE \in BOOLEAN
    OBVIOUS
  <1>. QED  BY <1>1 DEF NoSession, SessionType

LEMMA CountOneMore ==
  ASSUME NEW S, NEW count \in [S -> Nat], NEW k
  PROVE  OneMore(count, k) \in [S -> Nat]
  BY DEF OneMore, One

LEMMA FoldProfileType ==
  ASSUME NEW p \in ProfileType, NEW ev \in Inputs
  PROVE  FoldProfile(p, ev) \in ProfileType
  <1>1. /\ p.event_count \in Nat /\ p.first_seen \in Nat
        /\ p.event_types \in [EventTypes -> Nat] /\ p.attack_categories \in [Categories -> Nat]
        /\ p.cred_attempts \in Nat /\ p.cred_successes \in Nat /\ p.commands_run \in Nat
    BY DEF ProfileType
  <1>2. /\ p.usernames_tried \in SUBSET {e.username : e \in Inputs}
        /\ p.attack_techniques \in SUBSET UNION {e.techniques : e \in Inputs}
        /\ p.infra \in {None} \union {e.infra : e \in Inputs}
        /\ p.as_org \in {None} \union {e.as_org : e \in Inputs}
    BY DEF ProfileType
  <1>3. /\ p.event_count + 1 \in Nat /\ ev.ts \in Nat
        /\ (IF p.event_count = 0 THEN ev.ts ELSE p.first_seen) \in Nat
        /\ p.cred_attempts + One(IsAttempt(ev)) \in Nat
        /\ p.cred_successes + One(IsSuccess(ev)) \in Nat
        /\ p.commands_run + One(ev.et = "ssh_command") \in Nat
    BY <1>1, InputsAssumption DEF EventShape, One
  <1>4. /\ OneMore(p.event_types, ev.et) \in [EventTypes -> Nat]
        /\ (IF ev.category \in SilentCategories THEN p.attack_categories
            ELSE OneMore(p.attack_categories, ev.category)) \in [Categories -> Nat]
    BY <1>1, CountOneMore
  <1>5. /\ p.usernames_tried \union {u \in {ev.username} : ev.et \in CorpusTypes /\ Present(u)}
             \in SUBSET {e.username : e \in Inputs}
        /\ p.attack_techniques \union ev.techniques \in SUBSET UNION {e.techniques : e \in Inputs}
    BY <1>2
  <1>6. /\ LatestOf(ev.infra, p.infra) \in {None} \union {e.infra : e \in Inputs}
        /\ FirstOf(p.as_org, ev.as_org) \in {None} \union {e.as_org : e \in Inputs}
    BY <1>2 DEF LatestOf, FirstOf
  <1>7. /\ (p.automated \/ ev.automated) \in BOOLEAN
        /\ (p.is_known_scanner \/ ev.is_scanner) \in BOOLEAN
        /\ (p.botnet_probe \/ (ev.et = "telnet_command" /\ ev.botnet)) \in BOOLEAN
    OBVIOUS
  <1>. QED  BY <1>3, <1>4, <1>5, <1>6, <1>7 DEF FoldProfile, ProfileType

LEMMA FoldSessionType ==
  ASSUME NEW s \in SessionType, NEW ev \in Inputs
  PROVE  FoldSession(s, ev) \in SessionType
  <1>1. /\ s.events \in Nat /\ s.first_seen \in Nat /\ s.event_types \in [EventTypes -> Nat]
        /\ s.commands \in Seq({e.command : e \in Inputs})
        /\ s.login_user \in {None} \union {e.username : e \in Inputs}
    BY DEF SessionType
  <1>2. /\ s.events + 1 \in Nat /\ ev.ts \in Nat
        /\ (IF s.events = 0 THEN ev.ts ELSE s.first_seen) \in Nat
    BY <1>1, InputsAssumption DEF EventShape
  <1>3. OneMore(s.event_types, ev.et) \in [EventTypes -> Nat]
    BY <1>1, CountOneMore
  <1>4. (IF ev.et = "ssh_command" /\ Present(ev.command)
         THEN Append(s.commands, ev.command) ELSE s.commands) \in Seq({e.command : e \in Inputs})
    <2>1. ev.command \in {e.command : e \in Inputs}
      OBVIOUS
    <2>2. Append(s.commands, ev.command) \in Seq({e.command : e \in Inputs})
      BY <1>1, <2>1
    <2>. QED  BY <1>1, <2>2
  <1>5. (IF ev.et = "ssh_login_ok" THEN ev.username ELSE s.login_user)
          \in {None} \union {e.username : e \in Inputs}
    BY <1>1
  <1>6. (s.login_ok \/ ev.et = "ssh_login_ok") \in BOOLEAN
    OBVIOUS
  <1>. QED  BY <1>2, <1>3, <1>4, <1>5, <1>6 DEF FoldSession, SessionType

LEMMA Sums ==
  ASSUME NEW S, NEW a \in [S -> Nat], NEW b \in [S -> Nat]
  PROVE  SumOf(a, b) \in [S -> Nat] /\ \A x \in S : SumOf(a, b)[x] = a[x] + b[x]
  BY DEF SumOf

LEMMA MergeProfileType ==
  ASSUME NEW p \in ProfileType, NEW u \in ProfileType
  PROVE  MergeProfile(p, u) \in ProfileType
  <1>1. \A q \in {p, u} :
          /\ q.event_count \in Nat /\ q.first_seen \in Nat /\ q.last_seen \in Nat
          /\ q.event_types \in [EventTypes -> Nat] /\ q.attack_categories \in [Categories -> Nat]
          /\ q.cred_attempts \in Nat /\ q.cred_successes \in Nat /\ q.commands_run \in Nat
    BY DEF ProfileType
  <1>2. \A q \in {p, u} :
          /\ q.usernames_tried \in SUBSET {e.username : e \in Inputs}
          /\ q.attack_techniques \in SUBSET UNION {e.techniques : e \in Inputs}
          /\ q.infra \in {None} \union {e.infra : e \in Inputs}
          /\ q.as_org \in {None} \union {e.as_org : e \in Inputs}
    BY DEF ProfileType
  <1>3. /\ CarriedIfTouched(p.event_count, u.event_count) \in Nat
        /\ CarriedIfTouched(p.cred_attempts, u.cred_attempts) \in Nat
        /\ CarriedIfTouched(p.cred_successes, u.cred_successes) \in Nat
        /\ CarriedIfTouched(p.commands_run, u.commands_run) \in Nat
        /\ EarlierOf(p.event_count, p.first_seen, u.first_seen) \in Nat
        /\ u.last_seen \in Nat
    BY <1>1 DEF CarriedIfTouched, EarlierOf
  <1>4. /\ SumOf(p.event_types, u.event_types) \in [EventTypes -> Nat]
        /\ SumOf(p.attack_categories, u.attack_categories) \in [Categories -> Nat]
    BY <1>1, Sums
  <1>5. /\ p.usernames_tried \union u.usernames_tried \in SUBSET {e.username : e \in Inputs}
        /\ p.attack_techniques \union u.attack_techniques \in SUBSET UNION {e.techniques : e \in Inputs}
        /\ LatestOf(u.infra, p.infra) \in {None} \union {e.infra : e \in Inputs}
        /\ LatestOf(u.as_org, p.as_org) \in {None} \union {e.as_org : e \in Inputs}
    BY <1>2 DEF LatestOf
  <1>6. /\ (p.automated \/ u.automated) \in BOOLEAN
        /\ (p.is_known_scanner \/ u.is_known_scanner) \in BOOLEAN
        /\ (p.botnet_probe \/ u.botnet_probe) \in BOOLEAN
    OBVIOUS
  <1>. QED  BY <1>3, <1>4, <1>5, <1>6 DEF MergeProfile, ProfileType

\* What is kept of the commands: the last ones of all.
LEMMA LastOnes ==
  ASSUME NEW S, NEW s \in Seq(S), NEW n \in Nat \ {0}
  PROVE  /\ LastOf(s, n) \in Seq(S) /\ Len(LastOf(s, n)) \in Nat /\ Len(LastOf(s, n)) <= n
         /\ Len(LastOf(s, n)) <= Len(s)
         /\ \A i \in 1..Len(LastOf(s, n)) : LastOf(s, n)[i] = s[Len(s) - Len(LastOf(s, n)) + i]
  <1>1. Len(s) \in Nat
    OBVIOUS
  <1>2. CASE Len(s) > n
    <2>1. LastOf(s, n) = SubSeq(s, Len(s) - n + 1, Len(s))
      BY <1>2 DEF LastOf
    <2>2. /\ Len(s) - n + 1 \in Int /\ Len(s) \in Int /\ Len(s) - n + 1 <= Len(s)
          /\ \A i \in (Len(s) - n + 1)..Len(s) : s[i] \in S
      BY <1>1, <1>2
    <2>3. /\ LastOf(s, n) \in Seq(S) /\ Len(LastOf(s, n)) = Len(s) - (Len(s) - n + 1) + 1
          /\ \A i \in 1..(Len(s) - (Len(s) - n + 1) + 1) :
                LastOf(s, n)[i] = s[(Len(s) - n + 1) + i - 1]
      BY <2>1, <2>2, SubSeqProperties
    <2>4. Len(LastOf(s, n)) = n
      BY <1>1, <2>3
    <2>5. \A i \in 1..n : (Len(s) - n + 1) + i - 1 = Len(s) - n + i
      BY <1>1
    <2>6. \A i \in 1..n : LastOf(s, n)[i] = s[Len(s) - n + i]
      BY <1>1, <2>3, <2>5
    <2>. QED  BY <1>1, <1>2, <2>3, <2>4, <2>6
  <1>3. CASE ~(Len(s) > n)
    <2>1. LastOf(s, n) = SubSeq(s, 1, Len(s))
      BY <1>3 DEF LastOf
    <2>2. LastOf(s, n) = s
      BY <2>1
    <2>. QED  BY <1>1, <1>3, <2>2
  <1>. QED  BY <1>2, <1>3

LEMMA MergeSessionType ==
  ASSUME NEW s \in SessionType, NEW u \in SessionType
  PROVE  MergeSession(s, u) \in SessionType
  <1>1. \A q \in {s, u} :
          /\ q.events \in Nat /\ q.first_seen \in Nat /\ q.last_seen \in Nat
          /\ q.event_types \in [EventTypes -> Nat]
          /\ q.commands \in Seq({e.command : e \in Inputs})
    BY DEF SessionType
  <1>2. u.login_ok \in BOOLEAN /\ u.login_user \in {None} \union {e.username : e \in Inputs}
    BY DEF SessionType
  <1>3. s.events + u.events \in Nat /\ EarlierOf(s.events, s.first_seen, u.first_seen) \in Nat
    BY <1>1 DEF EarlierOf
  <1>4. SumOf(s.event_types, u.event_types) \in [EventTypes -> Nat]
    BY <1>1, Sums
  <1>5. JoinCommands(s.commands, u.commands) \in Seq({e.command : e \in Inputs})
    <2>1. s.commands \o u.commands \in Seq({e.command : e \in Inputs})
      BY <1>1
    <2>2. LastOf(s.commands \o u.commands, CommandCap) \in Seq({e.command : e \in Inputs})
      BY <2>1, BoundsAssumption, LastOnes
    <2>. QED  BY <2>2 DEF JoinCommands
  <1>. QED  BY <1>1, <1>2, <1>3, <1>4, <1>5 DEF MergeSession, SessionType

LEMMA FoldTypes ==
  ASSUME TypeOK, NEW ev \in Inputs, Fold(ev)
  PROVE  TypeOK'
  BY FoldProfileType, FoldSessionType DEF TypeOK, Fold

LEMMA MergeTypes ==
  ASSUME TypeOK, Merge
  PROVE  TypeOK'
  BY MergeProfileType, MergeSessionType, ZeroProfile, ZeroSession DEF TypeOK, Merge

LEMMA TypeInductive == TypeOK /\ [Next]_vars => TypeOK'
  <1>1. ASSUME TypeOK, UNCHANGED vars PROVE TypeOK'
    BY <1>1 DEF TypeOK, vars, profVars, sessVars
  <1>. QED  BY <1>1, FoldTypes, MergeTypes DEF Next

\* Every dictionary has the fields that the loop body and the merges write,
\* with values of their type, for all events that may arrive.
THEOREM TypeCorrect == Spec => []TypeOK
  <1>1. Init => TypeOK
    BY ZeroProfile, ZeroSession DEF Init, TypeOK
  <1>. QED  BY <1>1, TypeInductive, PTL DEF Spec

-----------------------------------------------------------------------------
(* Profiles                                                                *)

\* The keys that the file and the batch hold together as one run would.
KeysInv ==
  /\ whole.event_count = prof.event_count + upd.event_count
  /\ whole.event_types = SumOf(prof.event_types, upd.event_types)
  /\ whole.attack_categories = SumOf(prof.attack_categories, upd.attack_categories)
  /\ whole.usernames_tried = prof.usernames_tried \union upd.usernames_tried
  /\ whole.attack_techniques = prof.attack_techniques \union upd.attack_techniques
  /\ whole.infra = LatestOf(upd.infra, prof.infra)
  /\ whole.last_seen = IF upd.event_count > 0 THEN upd.last_seen ELSE prof.last_seen
FlagsInv ==
  /\ whole.automated = (prof.automated \/ upd.automated)
  /\ whole.is_known_scanner = (prof.is_known_scanner \/ upd.is_known_scanner)
  /\ whole.botnet_probe = (prof.botnet_probe \/ upd.botnet_probe)

\* The counters the file may lose: only too low, and each login an attempt.
LossInv ==
  /\ prof.cred_attempts + upd.cred_attempts <= whole.cred_attempts
  /\ prof.commands_run + upd.commands_run <= whole.commands_run
  /\ prof.cred_successes <= prof.cred_attempts
  /\ upd.cred_successes <= upd.cred_attempts

\* An empty dictionary is a fresh one; the first event is in the file, if there
\* is one, and otherwise in the batch.
FreshInv ==
  /\ upd.event_count = 0 => upd = NoProfile
  /\ prof.event_count = 0 => prof = NoProfile
  /\ prof.event_count > 0 => prof.first_seen <= whole.first_seen
  /\ prof.event_count = 0 => upd.first_seen <= whole.first_seen

ProfileInv == KeysInv /\ FlagsInv /\ LossInv /\ FreshInv

LEMMA ProfileFields ==
  ASSUME NEW p \in ProfileType
  PROVE  /\ p.event_count \in Nat /\ p.first_seen \in Nat /\ p.last_seen \in Nat
         /\ p.event_types \in [EventTypes -> Nat] /\ p.attack_categories \in [Categories -> Nat]
         /\ p.cred_attempts \in Nat /\ p.cred_successes \in Nat /\ p.commands_run \in Nat
  BY DEF ProfileType

LEMMA ProfileFlags ==
  ASSUME NEW p \in ProfileType
  PROVE  /\ p.automated \in BOOLEAN /\ p.is_known_scanner \in BOOLEAN /\ p.botnet_probe \in BOOLEAN
  BY DEF ProfileType

LEMMA ProfileZeros ==
  /\ NoProfile.event_count = 0 /\ NoProfile.first_seen = 0 /\ NoProfile.last_seen = 0
  /\ NoProfile.event_types = [et \in EventTypes |-> 0]
  /\ NoProfile.attack_categories = [c \in Categories |-> 0]
  /\ NoProfile.usernames_tried = {} /\ NoProfile.attack_techniques = {}
  /\ NoProfile.cred_attempts = 0 /\ NoProfile.cred_successes = 0 /\ NoProfile.commands_run = 0
  /\ NoProfile.automated = FALSE /\ NoProfile.is_known_scanner = FALSE
  /\ NoProfile.botnet_probe = FALSE /\ NoProfile.infra = None
  BY DEF NoProfile

LEMMA FoldedProfile ==
  ASSUME NEW p, NEW ev, NEW q, q = FoldProfile(p, ev)
  PROVE  /\ q.event_count = p.event_count + 1
         /\ q.first_seen = (IF p.event_count = 0 THEN ev.ts ELSE p.first_seen)
         /\ q.last_seen = ev.ts
         /\ q.event_types = OneMore(p.event_types, ev.et)
         /\ q.usernames_tried = p.usernames_tried \union
              {u \in {ev.username} : ev.et \in CorpusTypes /\ Present(u)}
         /\ q.attack_techniques = p.attack_techniques \union ev.techniques
         /\ q.cred_attempts = p.cred_attempts + One(IsAttempt(ev))
         /\ q.cred_successes = p.cred_successes + One(IsSuccess(ev))
         /\ q.commands_run = p.commands_run + One(ev.et = "ssh_command")
         /\ q.attack_categories = (IF ev.category \in SilentCategories THEN p.attack_categories
                                   ELSE OneMore(p.attack_categories, ev.category))
         /\ q.infra = LatestOf(ev.infra, p.infra)
  BY DEF FoldProfile

LEMMA FoldedFlags ==
  ASSUME NEW p, NEW ev, NEW q, q = FoldProfile(p, ev)
  PROVE  /\ q.automated = (p.automated \/ ev.automated)
         /\ q.is_known_scanner = (p.is_known_scanner \/ ev.is_scanner)
         /\ q.botnet_probe = (p.botnet_probe \/ (ev.et = "telnet_command" /\ ev.botnet))
  BY DEF FoldProfile

LEMMA MergedProfile ==
  ASSUME NEW p, NEW u, NEW q, q = MergeProfile(p, u)
  PROVE  /\ q.event_count = CarriedIfTouched(p.event_count, u.event_count)
         /\ q.first_seen = EarlierOf(p.event_count, p.first_seen, u.first_seen)
         /\ q.last_seen = u.last_seen
         /\ q.event_types = SumOf(p.event_types, u.event_types)
         /\ q.usernames_tried = p.usernames_tried \union u.usernames_tried
         /\ q.attack_techniques = p.attack_techniques \union u.attack_techniques
         /\ q.cred_attempts = CarriedIfTouched(p.cred_attempts, u.cred_attempts)
         /\ q.cred_successes = CarriedIfTouched(p.cred_successes, u.cred_successes)
         /\ q.commands_run = CarriedIfTouched(p.commands_run, u.commands_run)
         /\ q.attack_categories = SumOf(p.attack_categories, u.attack_categories)
         /\ q.infra = LatestOf(u.infra, p.infra)
  BY DEF MergeProfile

LEMMA MergedFlags ==
  ASSUME NEW p, NEW u, NEW q, q = MergeProfile(p, u)
  PROVE  /\ q.automated = (p.automated \/ u.automated)
         /\ q.is_known_scanner = (p.is_known_scanner \/ u.is_known_scanner)
         /\ q.botnet_probe = (p.botnet_probe \/ u.botnet_probe)
  BY DEF MergeProfile

\* Counting one more and adding up commute.
LEMMA OneMoreOfSum ==
  ASSUME NEW S, NEW a \in [S -> Nat], NEW b \in [S -> Nat], NEW k
  PROVE  OneMore(SumOf(a, b), k) = SumOf(a, OneMore(b, k))
  <1>1. SumOf(a, b) \in [S -> Nat] /\ OneMore(b, k) \in [S -> Nat]
    BY Sums, CountOneMore
  <1>2. /\ OneMore(SumOf(a, b), k) = [x \in S |-> SumOf(a, b)[x] + One(x = k)]
        /\ SumOf(a, OneMore(b, k)) = [x \in S |-> a[x] + OneMore(b, k)[x]]
    BY <1>1 DEF OneMore, SumOf
  <1>3. ASSUME NEW x \in S PROVE SumOf(a, b)[x] + One(x = k) = a[x] + OneMore(b, k)[x]
    <2>1. SumOf(a, b)[x] = a[x] + b[x] /\ OneMore(b, k)[x] = b[x] + One(x = k)
      BY DEF SumOf, OneMore
    <2>2. a[x] \in Nat /\ b[x] \in Nat /\ One(x = k) \in Nat
      BY DEF One
    <2>. QED  BY <2>1, <2>2
  <1>. QED  BY <1>2, <1>3

LEMMA SumWithZero ==
  ASSUME NEW S, NEW a \in [S -> Nat]
  PROVE  SumOf(a, [x \in S |-> 0]) = a
  <1>1. SumOf(a, [x \in S |-> 0]) = [x \in S |-> a[x] + 0]
    BY DEF SumOf
  <1>2. \A x \in S : a[x] + 0 = a[x]
    OBVIOUS
  <1>. QED  BY <1>1, <1>2

\* One event more, in the batch and in the run over everything.
LEMMA FoldKeeps ==
  ASSUME TypeOK, ProfileInv, NEW ev \in Inputs, Fold(ev)
  PROVE  ProfileInv'
  <1>1. prof' = prof /\ upd' = FoldProfile(upd, ev) /\ whole' = FoldProfile(whole, ev)
    BY DEF Fold
  <1>2. prof \in ProfileType /\ upd \in ProfileType /\ whole \in ProfileType
    BY DEF TypeOK
  <1>3. KeysInv'
    <2>1. whole'.event_count = prof'.event_count + upd'.event_count
      <3>1. /\ prof.event_count \in Nat /\ upd.event_count \in Nat
            /\ whole.event_count = prof.event_count + upd.event_count
        BY <1>2, ProfileFields DEF ProfileInv, KeysInv
      <3>2. whole'.event_count = whole.event_count + 1 /\ upd'.event_count = upd.event_count + 1
        BY <1>1, FoldedProfile
      <3>. QED  BY <1>1, <3>1, <3>2
    <2>2. whole'.event_types = SumOf(prof'.event_types, upd'.event_types)
      <3>1. /\ prof.event_types \in [EventTypes -> Nat] /\ upd.event_types \in [EventTypes -> Nat]
            /\ whole.event_types = SumOf(prof.event_types, upd.event_types)
        BY <1>2, ProfileFields DEF ProfileInv, KeysInv
      <3>2. /\ whole'.event_types = OneMore(whole.event_types, ev.et)
            /\ upd'.event_types = OneMore(upd.event_types, ev.et)
        BY <1>1, FoldedProfile
      <3>. QED  BY <1>1, <3>1, <3>2, OneMoreOfSum
    <2>3. whole'.attack_categories = SumOf(prof'.attack_categories, upd'.attack_categories)
      <3>1. /\ prof.attack_categories \in [Categories -> Nat] /\ upd.attack_categories \in [Categories -> Nat]
            /\ whole.attack_categories = SumOf(prof.attack_categories, upd.attack_categories)
        BY <1>2, ProfileFields DEF ProfileInv, KeysInv
      <3>2. \A p \in {whole, upd} : FoldProfile(p, ev).attack_categories =
              IF ev.category \in SilentCategories THEN p.attack_categories
              ELSE OneMore(p.attack_categories, ev.category)
        BY FoldedProfile
      <3>3. CASE ev.category \in SilentCategories
        BY <1>1, <3>1, <3>2, <3>3
      <3>4. CASE ev.category \notin SilentCategories
        BY <1>1, <3>1, <3>2, <3>4, OneMoreOfSum
      <3>. QED  BY <3>3, <3>4
    <2>4. /\ whole'.usernames_tried = prof'.usernames_tried \union upd'.usernames_tried
          /\ whole'.attack_techniques = prof'.attack_techniques \union upd'.attack_techniques
      <3>1. /\ whole.usernames_tried = prof.usernames_tried \union upd.usernames_tried
            /\ whole.attack_techniques = prof.attack_techniques \union upd.attack_techniques
        BY DEF ProfileInv, KeysInv
      <3>. DEFINE us == {u \in {ev.username} : ev.et \in CorpusTypes /\ Present(u)}
      <3>2. /\ whole'.usernames_tried = whole.usernames_tried \union us
            /\ upd'.usernames_tried = upd.usernames_tried \union us
            /\ whole'.attack_techniques = whole.attack_techniques \union ev.techniques
            /\ upd'.attack_techniques = upd.attack_techniques \union ev.techniques
        BY <1>1, FoldedProfile
      <3>. HIDE DEF us
      <3>. QED  BY <1>1, <3>1, <3>2
    <2>5. whole'.infra = LatestOf(upd'.infra, prof'.infra)
      <3>1. whole.infra = LatestOf(upd.infra, prof.infra)
        BY DEF ProfileInv, KeysInv
      <3>2. whole'.infra = LatestOf(ev.infra, whole.infra) /\ upd'.infra = LatestOf(ev.infra, upd.infra)
        BY <1>1, FoldedProfile
      <3>. QED  BY <1>1, <3>1, <3>2 DEF LatestOf, Present
    <2>6. whole'.last_seen = IF upd'.event_count > 0 THEN upd'.last_seen ELSE prof'.last_seen
      <3>1. upd.event_count \in Nat
        BY <1>2, ProfileFields
      <3>2. upd'.event_count = upd.event_count + 1 /\ whole'.last_seen = ev.ts /\ upd'.last_seen = ev.ts
        BY <1>1, FoldedProfile
      <3>. QED  BY <3>1, <3>2
    <2>. QED  BY <2>1, <2>2, <2>3, <2>4, <2>5, <2>6 DEF KeysInv
  <1>4. FlagsInv'
    <2>1. /\ whole.automated = (prof.automated \/ upd.automated)
          /\ whole.is_known_scanner = (prof.is_known_scanner \/ upd.is_known_scanner)
          /\ whole.botnet_probe = (prof.botnet_probe \/ upd.botnet_probe)
      BY DEF ProfileInv, FlagsInv
    <2>2. \A p \in {whole, upd} :
            /\ FoldProfile(p, ev).automated = (p.automated \/ ev.automated)
            /\ FoldProfile(p, ev).is_known_scanner = (p.is_known_scanner \/ ev.is_scanner)
            /\ FoldProfile(p, ev).botnet_probe =
                 (p.botnet_probe \/ (ev.et = "telnet_command" /\ ev.botnet))
      BY FoldedFlags
    <2>3. whole'.automated = (prof'.automated \/ upd'.automated)
      BY <1>1, <2>1, <2>2
    <2>4. whole'.is_known_scanner = (prof'.is_known_scanner \/ upd'.is_known_scanner)
      BY <1>1, <2>1, <2>2
    <2>5. whole'.botnet_probe = (prof'.botnet_probe \/ upd'.botnet_probe)
      BY <1>1, <2>1, <2>2
    <2>. QED  BY <2>3, <2>4, <2>5 DEF FlagsInv
  <1>5. LossInv'
    <2>1. \A p \in {prof, upd, whole} :
            p.cred_attempts \in Nat /\ p.cred_successes \in Nat /\ p.commands_run \in Nat
      BY <1>2, ProfileFields
    <2>2. /\ One(IsAttempt(ev)) \in Nat /\ One(IsSuccess(ev)) \in Nat
          /\ One(ev.et = "ssh_command") \in Nat /\ One(IsSuccess(ev)) <= One(IsAttempt(ev))
      BY DEF One, IsSuccess
    <2>3. \A p \in {whole, upd} :
            /\ FoldProfile(p, ev).cred_attempts = p.cred_attempts + One(IsAttempt(ev))
            /\ FoldProfile(p, ev).cred_successes = p.cred_successes + One(IsSuccess(ev))
            /\ FoldProfile(p, ev).commands_run = p.commands_run + One(ev.et = "ssh_command")
      BY FoldedProfile
    <2>4. LossInv
      BY DEF ProfileInv
    <2>. QED  BY <1>1, <2>1, <2>2, <2>3, <2>4 DEF LossInv
  <1>6. FreshInv'
    <2>1. /\ prof.event_count \in Nat /\ upd.event_count \in Nat /\ upd.first_seen \in Nat
          /\ whole.first_seen \in Nat /\ whole.event_count = prof.event_count + upd.event_count
      BY <1>2, ProfileFields DEF ProfileInv, KeysInv
    <2>2. \A p \in {whole, upd} :
            /\ FoldProfile(p, ev).event_count = p.event_count + 1
            /\ FoldProfile(p, ev).first_seen = IF p.event_count = 0 THEN ev.ts ELSE p.first_seen
      BY FoldedProfile
    <2>3. ev.ts \in Nat
      BY InputsAssumption DEF EventShape
    <2>4. upd'.event_count # 0 /\ whole'.first_seen = (IF whole.event_count = 0 THEN ev.ts ELSE whole.first_seen)
          /\ upd'.first_seen = (IF upd.event_count = 0 THEN ev.ts ELSE upd.first_seen)
      BY <1>1, <2>1, <2>2
    <2>5. prof'.event_count > 0 => prof'.first_seen <= whole'.first_seen
      BY <1>1, <2>1, <2>4 DEF ProfileInv, FreshInv
    <2>6. prof'.event_count = 0 => upd'.first_seen <= whole'.first_seen
      BY <1>1, <2>1, <2>3, <2>4 DEF ProfileInv, FreshInv
    <2>. QED  BY <1>1, <2>4, <2>5, <2>6 DEF ProfileInv, FreshInv
  <1>. QED  BY <1>3, <1>4, <1>5, <1>6 DEF ProfileInv

\* The end of a run.
LEMMA MergeKeeps ==
  ASSUME TypeOK, ProfileInv, Merge
  PROVE  ProfileInv'
  <1>1. /\ upd.event_count > 0 /\ prof' = MergeProfile(prof, upd) /\ upd' = NoProfile /\ whole' = whole
    BY DEF Merge
  <1>2. prof \in ProfileType /\ upd \in ProfileType /\ whole \in ProfileType
    BY DEF TypeOK
  <1>3. \A p \in {prof, upd, whole} :
          /\ p.event_count \in Nat /\ p.first_seen \in Nat
          /\ p.event_types \in [EventTypes -> Nat] /\ p.attack_categories \in [Categories -> Nat]
          /\ p.cred_attempts \in Nat /\ p.cred_successes \in Nat /\ p.commands_run \in Nat
    BY <1>2, ProfileFields
  <1>4. KeysInv /\ FlagsInv /\ LossInv /\ FreshInv
    BY DEF ProfileInv
  <1>5. prof'.event_count = prof.event_count + upd.event_count /\ prof'.event_count > 0
    <2>1. prof'.event_count = CarriedIfTouched(prof.event_count, upd.event_count)
      BY <1>1, MergedProfile
    <2>. QED  BY <1>1, <1>3, <2>1 DEF CarriedIfTouched
  <1>6. KeysInv'
    <2>1. whole'.event_count = prof'.event_count + upd'.event_count
      BY <1>1, <1>3, <1>4, <1>5, ProfileZeros DEF KeysInv
    <2>2. whole'.event_types = SumOf(prof'.event_types, upd'.event_types)
      <3>1. prof'.event_types = SumOf(prof.event_types, upd.event_types)
        BY <1>1, MergedProfile
      <3>2. whole'.event_types = prof'.event_types
        BY <1>1, <1>4, <3>1 DEF KeysInv
      <3>3. prof'.event_types \in [EventTypes -> Nat]
        BY <1>3, <3>1, Sums
      <3>4. upd'.event_types = [et \in EventTypes |-> 0]
        BY <1>1, ProfileZeros
      <3>. QED  BY <3>2, <3>3, <3>4, SumWithZero
    <2>3. whole'.attack_categories = SumOf(prof'.attack_categories, upd'.attack_categories)
      <3>1. prof'.attack_categories = SumOf(prof.attack_categories, upd.attack_categories)
        BY <1>1, MergedProfile
      <3>2. whole'.attack_categories = prof'.attack_categories
        BY <1>1, <1>4, <3>1 DEF KeysInv
      <3>3. prof'.attack_categories \in [Categories -> Nat]
        BY <1>3, <3>1, Sums
      <3>4. upd'.attack_categories = [c \in Categories |-> 0]
        BY <1>1, ProfileZeros
      <3>. QED  BY <3>2, <3>3, <3>4, SumWithZero
    <2>4. /\ whole'.usernames_tried = prof'.usernames_tried \union upd'.usernames_tried
          /\ whole'.attack_techniques = prof'.attack_techniques \union upd'.attack_techniques
      <3>1. /\ prof'.usernames_tried = prof.usernames_tried \union upd.usernames_tried
            /\ prof'.attack_techniques = prof.attack_techniques \union upd.attack_techniques
        BY <1>1, MergedProfile
      <3>2. upd'.usernames_tried = {} /\ upd'.attack_techniques = {}
        BY <1>1, ProfileZeros
      <3>. QED  BY <1>1, <1>4, <3>1, <3>2 DEF KeysInv
    <2>5. whole'.infra = LatestOf(upd'.infra, prof'.infra)
      <3>1. prof'.infra = LatestOf(upd.infra, prof.infra) /\ upd'.infra = None
        BY <1>1, MergedProfile, ProfileZeros
      <3>. QED  BY <1>1, <1>4, <3>1 DEF KeysInv, LatestOf, Present
    <2>6. whole'.last_seen = IF upd'.event_count > 0 THEN upd'.last_seen ELSE prof'.last_seen
      <3>1. prof'.last_seen = upd.last_seen /\ upd'.event_count = 0
        BY <1>1, MergedProfile, ProfileZeros
      <3>. QED  BY <1>1, <1>4, <3>1 DEF KeysInv
    <2>. QED  BY <2>1, <2>2, <2>3, <2>4, <2>5, <2>6 DEF KeysInv
  <1>7. FlagsInv'
    <2>1. /\ prof'.automated = (prof.automated \/ upd.automated)
          /\ prof'.is_known_scanner = (prof.is_known_scanner \/ upd.is_known_scanner)
          /\ prof'.botnet_probe = (prof.botnet_probe \/ upd.botnet_probe)
      BY <1>1, MergedFlags
    <2>2. /\ upd'.automated = FALSE /\ upd'.is_known_scanner = FALSE /\ upd'.botnet_probe = FALSE
      BY <1>1, ProfileZeros
    <2>3. /\ whole.automated = (prof.automated \/ upd.automated)
          /\ whole.is_known_scanner = (prof.is_known_scanner \/ upd.is_known_scanner)
          /\ whole.botnet_probe = (prof.botnet_probe \/ upd.botnet_probe)
      BY <1>4 DEF FlagsInv
    <2>4. whole'.automated = (prof'.automated \/ upd'.automated)
      BY <1>1, <2>1, <2>2, <2>3
    <2>5. whole'.is_known_scanner = (prof'.is_known_scanner \/ upd'.is_known_scanner)
      BY <1>1, <2>1, <2>2, <2>3
    <2>6. whole'.botnet_probe = (prof'.botnet_probe \/ upd'.botnet_probe)
      BY <1>1, <2>1, <2>2, <2>3
    <2>. QED  BY <2>4, <2>5, <2>6 DEF FlagsInv
  <1>8. LossInv'
    <2>1. /\ prof'.cred_attempts = CarriedIfTouched(prof.cred_attempts, upd.cred_attempts)
          /\ prof'.cred_successes = CarriedIfTouched(prof.cred_successes, upd.cred_successes)
          /\ prof'.commands_run = CarriedIfTouched(prof.commands_run, upd.commands_run)
      BY <1>1, MergedProfile
    <2>2. upd'.cred_attempts = 0 /\ upd'.cred_successes = 0 /\ upd'.commands_run = 0
      BY <1>1, ProfileZeros
    <2>. QED  BY <1>1, <1>3, <1>4, <2>1, <2>2 DEF LossInv, CarriedIfTouched
  <1>9. FreshInv'
    <2>1. prof'.first_seen = EarlierOf(prof.event_count, prof.first_seen, upd.first_seen)
      BY <1>1, MergedProfile
    <2>2. prof'.first_seen <= whole'.first_seen
      BY <1>1, <1>3, <1>4, <2>1 DEF FreshInv, EarlierOf
    <2>. QED  BY <1>1, <1>5, <2>2 DEF FreshInv
  <1>. QED  BY <1>6, <1>7, <1>8, <1>9 DEF ProfileInv

LEMMA ProfileStart == Init => ProfileInv
  <1>. SUFFICES ASSUME Init PROVE ProfileInv
    OBVIOUS
  <1>1. prof = NoProfile /\ upd = NoProfile /\ whole = NoProfile
    BY DEF Init
  <1>2. KeysInv
    <2>1. /\ SumOf([et \in EventTypes |-> 0], [et \in EventTypes |-> 0]) = [et \in EventTypes |-> 0]
          /\ SumOf([c \in Categories |-> 0], [c \in Categories |-> 0]) = [c \in Categories |-> 0]
      BY DEF SumOf
    <2>. QED  BY <1>1, <2>1, ProfileZeros DEF KeysInv, LatestOf
  <1>3. FlagsInv
    BY <1>1, ProfileZeros DEF FlagsInv
  <1>4. LossInv /\ FreshInv
    BY <1>1, ProfileZeros DEF LossInv, FreshInv
  <1>. QED  BY <1>2, <1>3, <1>4 DEF ProfileInv

LEMMA ProfileInductive == TypeOK /\ ProfileInv /\ [Next]_vars => ProfileInv'
  <1>1. ASSUME ProfileInv, UNCHANGED vars PROVE ProfileInv'
    BY <1>1 DEF ProfileInv, KeysInv, FlagsInv, LossInv, FreshInv, vars, profVars
  <1>. QED  BY <1>1, FoldKeeps, MergeKeeps DEF Next

\* What the file would be, field by field.
LEMMA MergedNow ==
  ASSUME TypeOK, ProfileInv
  PROVE  /\ Merged.event_count = prof.event_count + upd.event_count
         /\ Merged.event_types = SumOf(prof.event_types, upd.event_types)
         /\ Merged.attack_categories = SumOf(prof.attack_categories, upd.attack_categories)
         /\ Merged.usernames_tried = prof.usernames_tried \union upd.usernames_tried
         /\ Merged.attack_techniques = prof.attack_techniques \union upd.attack_techniques
         /\ Merged.infra = LatestOf(upd.infra, prof.infra)
         /\ Merged.last_seen = (IF upd.event_count > 0 THEN upd.last_seen ELSE prof.last_seen)
         /\ Merged.automated = (prof.automated \/ upd.automated)
         /\ Merged.is_known_scanner = (prof.is_known_scanner \/ upd.is_known_scanner)
         /\ Merged.botnet_probe = (prof.botnet_probe \/ upd.botnet_probe)
  <1>1. /\ prof.event_count \in Nat /\ upd.event_count \in Nat
        /\ prof.event_types \in [EventTypes -> Nat] /\ prof.attack_categories \in [Categories -> Nat]
    BY ProfileFields DEF TypeOK
  <1>2. prof.automated \in BOOLEAN /\ prof.is_known_scanner \in BOOLEAN /\ prof.botnet_probe \in BOOLEAN
    BY ProfileFlags DEF TypeOK
  <1>3. CASE upd.event_count > 0
    <2>1. Merged = MergeProfile(prof, upd)
      BY <1>3 DEF Merged
    <2>2. Merged.event_count = CarriedIfTouched(prof.event_count, upd.event_count)
      BY <2>1, MergedProfile
    <2>3. Merged.event_count = prof.event_count + upd.event_count
      BY <1>3, <2>2 DEF CarriedIfTouched
    <2>4. Merged.last_seen = upd.last_seen
      BY <2>1, MergedProfile
    <2>5. /\ Merged.automated = (prof.automated \/ upd.automated)
          /\ Merged.is_known_scanner = (prof.is_known_scanner \/ upd.is_known_scanner)
          /\ Merged.botnet_probe = (prof.botnet_probe \/ upd.botnet_probe)
      BY <2>1, MergedFlags
    <2>6. /\ Merged.event_types = SumOf(prof.event_types, upd.event_types)
          /\ Merged.attack_categories = SumOf(prof.attack_categories, upd.attack_categories)
          /\ Merged.usernames_tried = prof.usernames_tried \union upd.usernames_tried
          /\ Merged.attack_techniques = prof.attack_techniques \union upd.attack_techniques
          /\ Merged.infra = LatestOf(upd.infra, prof.infra)
      BY <2>1, MergedProfile
    <2>. QED  BY <1>3, <2>3, <2>4, <2>5, <2>6
  <1>4. CASE ~(upd.event_count > 0)
    <2>1. Merged = prof /\ upd = NoProfile
      BY <1>1, <1>4 DEF Merged, ProfileInv, FreshInv
    <2>2. Merged.event_types = SumOf(prof.event_types, upd.event_types)
      BY <1>1, <2>1, ProfileZeros, SumWithZero
    <2>3. Merged.attack_categories = SumOf(prof.attack_categories, upd.attack_categories)
      BY <1>1, <2>1, ProfileZeros, SumWithZero
    <2>4. Merged.event_count = prof.event_count + upd.event_count
      BY <1>1, <2>1, ProfileZeros
    <2>5. /\ Merged.usernames_tried = prof.usernames_tried \union upd.usernames_tried
          /\ Merged.attack_techniques = prof.attack_techniques \union upd.attack_techniques
          /\ Merged.infra = LatestOf(upd.infra, prof.infra)
          /\ Merged.last_seen = (IF upd.event_count > 0 THEN upd.last_seen ELSE prof.last_seen)
      BY <1>4, <2>1, ProfileZeros DEF LatestOf, Present
    <2>6. /\ upd.automated = FALSE /\ upd.is_known_scanner = FALSE /\ upd.botnet_probe = FALSE
      BY <2>1, ProfileZeros
    <2>7. Merged.automated = (prof.automated \/ upd.automated)
      BY <1>2, <2>1, <2>6
    <2>8. Merged.is_known_scanner = (prof.is_known_scanner \/ upd.is_known_scanner)
      BY <1>2, <2>1, <2>6
    <2>9. Merged.botnet_probe = (prof.botnet_probe \/ upd.botnet_probe)
      BY <1>2, <2>1, <2>6
    <2>. QED  BY <2>2, <2>3, <2>4, <2>5, <2>7, <2>8, <2>9
  <1>. QED  BY <1>3, <1>4

LEMMA ProfileCarries ==
  ASSUME TypeOK, ProfileInv
  PROVE  CountersCarried
  <1>1. CarriedExactly
    <2>1. KeysInv /\ FlagsInv
      BY DEF ProfileInv
    <2>. QED  BY <2>1, MergedNow DEF CarriedExactly, KeysInv, FlagsInv
  <1>2. CountersNeverInflated
    <2>1. \A p \in {prof, upd, whole} :
            /\ p.cred_attempts \in Nat /\ p.cred_successes \in Nat /\ p.commands_run \in Nat
            /\ p.event_count \in Nat
      BY ProfileFields DEF TypeOK
    <2>2. LossInv /\ FreshInv
      BY DEF ProfileInv
    <2>3. CASE upd.event_count > 0
      <3>1. Merged = MergeProfile(prof, upd)
        BY <2>3 DEF Merged
      <3>2. /\ Merged.cred_attempts = CarriedIfTouched(prof.cred_attempts, upd.cred_attempts)
            /\ Merged.cred_successes = CarriedIfTouched(prof.cred_successes, upd.cred_successes)
            /\ Merged.commands_run = CarriedIfTouched(prof.commands_run, upd.commands_run)
        BY <3>1, MergedProfile
      <3>. QED  BY <2>1, <2>2, <3>2 DEF LossInv, CarriedIfTouched, CountersNeverInflated
    <2>4. CASE ~(upd.event_count > 0)
      <3>1. Merged = prof
        BY <2>4 DEF Merged
      <3>. QED  BY <2>1, <2>2, <3>1 DEF LossInv, CountersNeverInflated
    <2>. QED  BY <2>3, <2>4
  <1>. QED  BY <1>1, <1>2 DEF CountersCarried

\* However the timer cuts the events into runs, the merge of a profile
\* (aggregator._merge_ip) loses no count, set, flag or latest value it carries
\* over, and inflates none of those it may lose.
THEOREM CarriedCorrect == Spec => []CountersCarried
  <1>1. Init => TypeOK /\ ProfileInv
    BY ZeroProfile, ZeroSession, ProfileStart DEF Init, TypeOK
  <1>. QED  BY <1>1, TypeInductive, ProfileInductive, ProfileCarries, PTL DEF Spec

-----------------------------------------------------------------------------
(* The verdict                                                             *)

\* The first verdict that holds is the one that is given.
LEMMA FirstVerdict ==
  ASSUME NEW p, NEW n \in 1..10, Verdicts(p)[n][1], \A j \in 1..(n - 1) : ~Verdicts(p)[j][1]
  PROVE  ActorType(p) = Verdicts(p)[n][2]
  <1>. DEFINE v == Verdicts(p)
              Is(i) == v[i][1] /\ \A j \in 1..(i - 1) : ~v[j][1]
              first == CHOOSE i \in 1..Len(v) : Is(i)
  <1>1. Len(v) = 10
    BY DEF Verdicts
  <1>2. Is(n)
    OBVIOUS
  <1>3. ActorType(p) = v[first][2]
    BY DEF ActorType
  <1>. HIDE DEF v
  <1>4. first \in 1..10 /\ Is(first)
    BY <1>1, <1>2
  <1>. HIDE DEF first
  <1>5. n \in Nat /\ first \in Nat /\ n >= 1 /\ first >= 1
    BY <1>4
  <1>6. ~(first < n) /\ ~(n < first)
    BY <1>2, <1>4, <1>5
  <1>7. first = n
    BY <1>5, <1>6
  <1>. QED  BY <1>3, <1>7 DEF v

LEMMA SevereVerdict ==
  ASSUME NEW p
  PROVE  /\ Ransomware(p) => ActorType(p) = "ransomware_operator"
         /\ ~Ransomware(p) /\ Cryptojacking(p) => ActorType(p) = "cryptojacker"
  <1>1. /\ Verdicts(p)[1][1] = BenignScanner(p) /\ Verdicts(p)[2] = <<Ransomware(p), "ransomware_operator">>
        /\ Verdicts(p)[3] = <<Cryptojacking(p), "cryptojacker">>
    BY DEF Verdicts
  <1>2. ASSUME Ransomware(p) PROVE ActorType(p) = "ransomware_operator"
    <2>1. ~BenignScanner(p)
      BY <1>2 DEF BenignScanner
    <2>2. Verdicts(p)[2][1] /\ Verdicts(p)[2][2] = "ransomware_operator"
      BY <1>1, <1>2
    <2>3. \A j \in 1..(2 - 1) : ~Verdicts(p)[j][1]
      <3>1. ~Verdicts(p)[1][1]
        BY <1>1, <2>1
      <3>2. \A j \in 1..(2 - 1) : j = 1
        OBVIOUS
      <3>. QED  BY <3>1, <3>2
    <2>4. 2 \in 1..10
      OBVIOUS
    <2>. QED  BY <2>2, <2>3, <2>4, FirstVerdict
  <1>3. ASSUME ~Ransomware(p), Cryptojacking(p) PROVE ActorType(p) = "cryptojacker"
    <2>1. ~BenignScanner(p)
      BY <1>3 DEF BenignScanner
    <2>2. Verdicts(p)[3][1] /\ Verdicts(p)[3][2] = "cryptojacker"
      BY <1>1, <1>3
    <2>3. \A j \in 1..(3 - 1) : ~Verdicts(p)[j][1]
      <3>1. ~Verdicts(p)[1][1] /\ ~Verdicts(p)[2][1]
        BY <1>1, <1>3, <2>1
      <3>2. \A j \in 1..(3 - 1) : j = 1 \/ j = 2
        OBVIOUS
      <3>. QED  BY <3>1, <3>2
    <2>4. 3 \in 1..10
      OBVIOUS
    <2>. QED  BY <2>2, <2>3, <2>4, FirstVerdict
  <1>. QED  BY <1>2, <1>3

LEMMA VerdictStays ==
  ASSUME TypeOK, ProfileInv
  PROVE  SevereVerdictKept
  <1>. SUFFICES ASSUME upd.event_count = 0, Ransomware(whole) \/ Cryptojacking(whole)
                PROVE  ActorType(prof) = ActorType(whole)
    BY DEF SevereVerdictKept
  <1>1. whole.attack_techniques = prof.attack_techniques /\ whole.attack_categories = prof.attack_categories
    <2>1. upd = NoProfile /\ prof.attack_categories \in [Categories -> Nat]
      BY ProfileFields DEF ProfileInv, FreshInv, TypeOK
    <2>. QED  BY <2>1, ProfileZeros, SumWithZero DEF ProfileInv, KeysInv
  <1>2. \A t, c : Shows(whole, t, c) <=> Shows(prof, t, c)
    BY <1>1 DEF Shows
  <1>3. (Ransomware(whole) <=> Ransomware(prof)) /\ (Cryptojacking(whole) <=> Cryptojacking(prof))
    BY <1>2 DEF Ransomware, Cryptojacking
  <1>. QED  BY <1>3, SevereVerdict

\* An address that has shown ransomware or a miner is given that verdict by
\* _profile_actor, whichever counters the merges have lost on the way.
THEOREM VerdictCorrect == Spec => []SevereVerdictKept
  <1>1. Init => TypeOK /\ ProfileInv
    BY ZeroProfile, ZeroSession, ProfileStart DEF Init, TypeOK
  <1>. QED  BY <1>1, TypeInductive, ProfileInductive, VerdictStays, PTL DEF Spec

-----------------------------------------------------------------------------
(* Sessions                                                                *)

\* The commands of the file and of the batch, together, are the last ones of
\* the session.
Tails(kept, new, all) ==
  \E d \in 0..Len(all) :
    /\ d + Len(kept) + Len(new) = Len(all)
    /\ \A i \in 1..Len(kept) : kept[i] = all[d + i]
    /\ \A i \in 1..Len(new) : new[i] = all[d + Len(kept) + i]

SessionInv ==
  /\ sessWhole.events = sess.events + sessUpd.events
  /\ sessWhole.event_types = SumOf(sess.event_types, sessUpd.event_types)
  /\ sessUpd.events = 0 => sessUpd = NoSession
  /\ Len(sess.commands) <= CommandCap
  /\ Tails(sess.commands, sessUpd.commands, sessWhole.commands)
  /\ sess.events > 0 => sess.first_seen <= sessWhole.first_seen
  /\ sess.events = 0 => sess = NoSession /\ sessUpd.first_seen <= sessWhole.first_seen

LEMMA SessionFields ==
  ASSUME NEW s \in SessionType
  PROVE  /\ s.events \in Nat /\ s.first_seen \in Nat /\ s.event_types \in [EventTypes -> Nat]
         /\ s.commands \in Seq({ev.command : ev \in Inputs}) /\ Len(s.commands) \in Nat
  <1>1. /\ s.events \in Nat /\ s.first_seen \in Nat /\ s.event_types \in [EventTypes -> Nat]
        /\ s.commands \in Seq({ev.command : ev \in Inputs})
    BY DEF SessionType
  <1>. QED  BY <1>1

LEMMA SessionZeros ==
  /\ NoSession.events = 0 /\ NoSession.first_seen = 0 /\ NoSession.commands = <<>>
  /\ NoSession.event_types = [et \in EventTypes |-> 0]
  BY DEF NoSession

LEMMA FoldedSession ==
  ASSUME NEW s, NEW ev, NEW q, q = FoldSession(s, ev)
  PROVE  /\ q.events = s.events + 1
         /\ q.event_types = OneMore(s.event_types, ev.et)
         /\ q.first_seen = (IF s.events = 0 THEN ev.ts ELSE s.first_seen)
         /\ q.commands = (IF ev.et = "ssh_command" /\ Present(ev.command)
                          THEN Append(s.commands, ev.command) ELSE s.commands)
  BY DEF FoldSession

LEMMA MergedSessions ==
  ASSUME NEW s, NEW u, NEW q, q = MergeSession(s, u)
  PROVE  /\ q.events = s.events + u.events
         /\ q.event_types = SumOf(s.event_types, u.event_types)
         /\ q.first_seen = EarlierOf(s.events, s.first_seen, u.first_seen)
         /\ q.commands = JoinCommands(s.commands, u.commands)
  BY DEF MergeSession

\* A command that comes in the batch is the last of the session.
LEMMA TailsGrow ==
  ASSUME NEW S, NEW kept \in Seq(S), NEW new \in Seq(S), NEW all \in Seq(S), NEW x \in S,
         Tails(kept, new, all)
  PROVE  Tails(kept, Append(new, x), Append(all, x))
  <1>1. PICK d \in 0..Len(all) :
          /\ d + Len(kept) + Len(new) = Len(all)
          /\ \A i \in 1..Len(kept) : kept[i] = all[d + i]
          /\ \A i \in 1..Len(new) : new[i] = all[d + Len(kept) + i]
    BY DEF Tails
  <1>2. Len(kept) \in Nat /\ Len(new) \in Nat /\ Len(all) \in Nat /\ d \in Nat
    BY <1>1
  <1>3. /\ Len(Append(all, x)) = Len(all) + 1 /\ Len(Append(new, x)) = Len(new) + 1
        /\ \A i \in 1..Len(all) : Append(all, x)[i] = all[i]
        /\ \A i \in 1..Len(new) : Append(new, x)[i] = new[i]
        /\ Append(all, x)[Len(all) + 1] = x /\ Append(new, x)[Len(new) + 1] = x
    OBVIOUS
  <1>4. d \in 0..Len(Append(all, x)) /\ d + Len(kept) + Len(Append(new, x)) = Len(Append(all, x))
    BY <1>1, <1>2, <1>3
  <1>5. \A i \in 1..Len(kept) : kept[i] = Append(all, x)[d + i]
    <2>1. \A i \in 1..Len(kept) : d + i \in 1..Len(all)
      BY <1>1, <1>2
    <2>. QED  BY <1>1, <1>3, <2>1
  <1>6. \A i \in 1..Len(Append(new, x)) : Append(new, x)[i] = Append(all, x)[d + Len(kept) + i]
    <2>1. ASSUME NEW i \in 1..Len(new)
          PROVE  Append(new, x)[i] = Append(all, x)[d + Len(kept) + i]
      <3>1. d + Len(kept) + i \in 1..Len(all)
        BY <1>1, <1>2
      <3>. QED  BY <1>1, <1>3, <3>1
    <2>2. d + Len(kept) + (Len(new) + 1) = Len(all) + 1
      BY <1>1, <1>2
    <2>3. \A i \in 1..(Len(new) + 1) : i \in 1..Len(new) \/ i = Len(new) + 1
      BY <1>2
    <2>. QED  BY <1>3, <2>1, <2>2, <2>3
  <1>. QED  BY <1>4, <1>5, <1>6 DEF Tails

\* What is joined is cut at the front, and so still the last of the session.
LEMMA TailsJoin ==
  ASSUME NEW S, NEW kept \in Seq(S), NEW new \in Seq(S), NEW all \in Seq(S), Tails(kept, new, all)
  PROVE  Len(JoinCommands(kept, new)) <= CommandCap /\ Tails(JoinCommands(kept, new), <<>>, all)
  <1>0. CommandCap \in Nat \ {0}
    BY BoundsAssumption
  <1>1. PICK d \in 0..Len(all) :
          /\ d + Len(kept) + Len(new) = Len(all)
          /\ \A i \in 1..Len(kept) : kept[i] = all[d + i]
          /\ \A i \in 1..Len(new) : new[i] = all[d + Len(kept) + i]
    BY DEF Tails
  <1>2. Len(kept) \in Nat /\ Len(new) \in Nat /\ Len(all) \in Nat /\ d \in Nat
    BY <1>1
  <1>3. CASE new = <<>>
    <2>1. JoinCommands(kept, new) = <<>> /\ Len(<<>>) = 0
      BY <1>3 DEF JoinCommands
    <2>2. Len(all) \in 0..Len(all) /\ Len(all) + 0 + 0 = Len(all) /\ 0 <= CommandCap /\ 1..0 = {}
      BY <1>0, <1>2
    <2>. QED  BY <2>1, <2>2 DEF Tails
  <1>4. CASE new # <<>>
    <2>. DEFINE both == kept \o new
                j == LastOf(both, CommandCap)
    <2>1. JoinCommands(kept, new) = j
      BY <1>4 DEF JoinCommands
    <2>2. /\ both \in Seq(S) /\ Len(both) = Len(kept) + Len(new)
          /\ \A i \in 1..Len(kept) : both[i] = kept[i]
          /\ \A i \in 1..Len(new) : both[Len(kept) + i] = new[i]
      <3>1. /\ both \in Seq(S) /\ Len(both) = Len(kept) + Len(new)
            /\ \A i \in 1..(Len(kept) + Len(new)) :
                 both[i] = IF i <= Len(kept) THEN kept[i] ELSE new[i - Len(kept)]
        BY ConcatProperties
      <3>. HIDE DEF both
      <3>2. \A i \in 1..Len(new) : /\ Len(kept) + i \in 1..(Len(kept) + Len(new))
                                   /\ ~(Len(kept) + i <= Len(kept)) /\ (Len(kept) + i) - Len(kept) = i
        BY <1>2
      <3>3. \A i \in 1..Len(kept) : i \in 1..(Len(kept) + Len(new)) /\ i <= Len(kept)
        BY <1>2
      <3>. QED  BY <3>1, <3>2, <3>3
    <2>. HIDE DEF both
    <2>3. \A i \in 1..Len(both) : both[i] = all[d + i]
      <3>1. ASSUME NEW i \in 1..Len(both), i \notin 1..Len(kept) PROVE both[i] = all[d + i]
        <4>1. PICK k \in 1..Len(new) : i = Len(kept) + k
          <5>1. i - Len(kept) \in 1..Len(new) /\ i = Len(kept) + (i - Len(kept))
            BY <1>2, <2>2, <3>1
          <5>. QED  BY <5>1
        <4>2. d + Len(kept) + k = d + i
          BY <1>2, <4>1
        <4>. QED  BY <1>1, <2>2, <4>1, <4>2
      <3>. QED  BY <1>1, <2>2, <3>1
    <2>4. /\ Len(j) \in Nat /\ Len(j) <= CommandCap /\ Len(j) <= Len(both)
          /\ \A i \in 1..Len(j) : j[i] = both[Len(both) - Len(j) + i]
      <3>1. both \in Seq(S)
        BY <2>2
      <3>. QED  BY <1>0, <3>1, LastOnes
    <2>. HIDE DEF j
    <2>. DEFINE e == d + (Len(both) - Len(j))
    <2>5. e \in 0..Len(all) /\ e + Len(j) + 0 = Len(all)
      BY <1>1, <1>2, <2>2, <2>4
    <2>6. ASSUME NEW i \in 1..Len(j) PROVE j[i] = all[e + i]
      <3>1. Len(both) - Len(j) + i \in 1..Len(both) /\ d + (Len(both) - Len(j) + i) = e + i
        BY <1>2, <2>2, <2>4
      <3>. QED  BY <2>3, <2>4, <3>1
    <2>. HIDE DEF e
    <2>7. Len(<<>>) = 0 /\ 1..0 = {}
      OBVIOUS
    <2>8. Tails(j, <<>>, all)
      BY <2>5, <2>6, <2>7 DEF Tails
    <2>. QED  BY <2>1, <2>4, <2>8
  <1>. QED  BY <1>3, <1>4

LEMMA SessionFolds ==
  ASSUME TypeOK, SessionInv, NEW ev \in Inputs, Fold(ev)
  PROVE  SessionInv'
  <1>0. sess' = sess
    BY DEF Fold
  <1>1. sess \in SessionType /\ sessUpd \in SessionType /\ sessWhole \in SessionType
    BY DEF TypeOK
  <1>2. CASE ~ev.in_session
    <2>1. sessUpd' = sessUpd /\ sessWhole' = sessWhole
      BY <1>2 DEF Fold
    <2>. QED  BY <1>0, <2>1 DEF SessionInv
  <1>3. CASE ev.in_session
    <2>1. sessUpd' = FoldSession(sessUpd, ev) /\ sessWhole' = FoldSession(sessWhole, ev)
      BY <1>3 DEF Fold
    <2>2. /\ sess.events \in Nat /\ sessUpd.events \in Nat /\ sessWhole.events = sess.events + sessUpd.events
          /\ sessUpd.first_seen \in Nat /\ sessWhole.first_seen \in Nat
      BY <1>1, SessionFields DEF SessionInv
    <2>3. sessWhole'.events = sess'.events + sessUpd'.events /\ sessUpd'.events # 0
      <3>1. sessWhole'.events = sessWhole.events + 1 /\ sessUpd'.events = sessUpd.events + 1
        BY <2>1, FoldedSession
      <3>. QED  BY <1>0, <2>2, <3>1
    <2>4. sessWhole'.event_types = SumOf(sess'.event_types, sessUpd'.event_types)
      <3>1. /\ sessWhole'.event_types = OneMore(sessWhole.event_types, ev.et)
            /\ sessUpd'.event_types = OneMore(sessUpd.event_types, ev.et)
        BY <2>1, FoldedSession
      <3>2. sess.event_types \in [EventTypes -> Nat] /\ sessUpd.event_types \in [EventTypes -> Nat]
        BY <1>1, SessionFields
      <3>3. sessWhole.event_types = SumOf(sess.event_types, sessUpd.event_types)
        BY DEF SessionInv
      <3>. QED  BY <1>0, <3>1, <3>2, <3>3, OneMoreOfSum
    <2>5. Tails(sess'.commands, sessUpd'.commands, sessWhole'.commands)
      <3>. DEFINE S == {e.command : e \in Inputs}
      <3>1. /\ sess.commands \in Seq(S) /\ sessUpd.commands \in Seq(S) /\ sessWhole.commands \in Seq(S)
            /\ ev.command \in S
        BY <1>1, SessionFields
      <3>. HIDE DEF S
      <3>2. Tails(sess.commands, sessUpd.commands, sessWhole.commands)
        BY DEF SessionInv
      <3>3. \A s \in {sessUpd, sessWhole} : FoldSession(s, ev).commands =
              IF ev.et = "ssh_command" /\ Present(ev.command) THEN Append(s.commands, ev.command)
              ELSE s.commands
        BY FoldedSession
      <3>4. Tails(sess.commands, Append(sessUpd.commands, ev.command), Append(sessWhole.commands, ev.command))
        BY <3>1, <3>2, TailsGrow
      <3>. QED  BY <1>0, <2>1, <3>2, <3>3, <3>4
    <2>6. /\ sess'.events > 0 => sess'.first_seen <= sessWhole'.first_seen
          /\ sess'.events = 0 => sess' = NoSession /\ sessUpd'.first_seen <= sessWhole'.first_seen
      <3>1. /\ sessWhole'.first_seen = (IF sessWhole.events = 0 THEN ev.ts ELSE sessWhole.first_seen)
            /\ sessUpd'.first_seen = (IF sessUpd.events = 0 THEN ev.ts ELSE sessUpd.first_seen)
        BY <2>1, FoldedSession
      <3>2. ev.ts \in Nat
        BY InputsAssumption DEF EventShape
      <3>3. /\ sess.events > 0 => sess.first_seen <= sessWhole.first_seen
            /\ sess.events = 0 => sess = NoSession /\ sessUpd.first_seen <= sessWhole.first_seen
        BY DEF SessionInv
      <3>4. CASE sess.events > 0
        BY <1>0, <2>2, <3>1, <3>3, <3>4
      <3>5. CASE sess.events = 0
        BY <1>0, <2>2, <3>1, <3>2, <3>3, <3>5
      <3>. QED  BY <2>2, <3>4, <3>5
    <2>7. Len(sess'.commands) <= CommandCap
      BY <1>0 DEF SessionInv
    <2>. QED  BY <2>3, <2>4, <2>5, <2>6, <2>7 DEF SessionInv
  <1>. QED  BY <1>2, <1>3

LEMMA SessionMerges ==
  ASSUME TypeOK, SessionInv, Merge
  PROVE  SessionInv'
  <1>0. sessUpd' = NoSession /\ sessWhole' = sessWhole
    BY DEF Merge
  <1>1. sess \in SessionType /\ sessUpd \in SessionType /\ sessWhole \in SessionType
    BY DEF TypeOK
  <1>2. CASE ~(sessUpd.events > 0)
    <2>1. sess' = sess
      BY <1>2 DEF Merge
    <2>2. sessUpd = NoSession
      <3>0. sessUpd.events \in Nat
        BY <1>1, SessionFields
      <3>1. sessUpd.events = 0
        BY <3>0, <1>2
      <3>. QED  BY <3>1 DEF SessionInv
    <2>. QED  BY <1>0, <2>1, <2>2 DEF SessionInv
  <1>3. CASE sessUpd.events > 0
    <2>1. sess' = MergeSession(sess, sessUpd)
      BY <1>3 DEF Merge
    <2>2. /\ sess.events \in Nat /\ sessUpd.events \in Nat /\ sessWhole.events = sess.events + sessUpd.events
          /\ sessUpd.first_seen \in Nat /\ sessWhole.first_seen \in Nat /\ sess.first_seen \in Nat
      BY <1>1, SessionFields DEF SessionInv
    <2>3. sess'.events = sess.events + sessUpd.events /\ sess'.events > 0
      BY <1>3, <2>1, <2>2, MergedSessions
    <2>4. sessWhole'.events = sess'.events + sessUpd'.events
      BY <1>0, <2>2, <2>3, SessionZeros
    <2>5. sessWhole'.event_types = SumOf(sess'.event_types, sessUpd'.event_types)
      <3>1. sess'.event_types = SumOf(sess.event_types, sessUpd.event_types)
        BY <2>1, MergedSessions
      <3>2. sess.event_types \in [EventTypes -> Nat] /\ sessUpd.event_types \in [EventTypes -> Nat]
        BY <1>1, SessionFields
      <3>3. sess'.event_types \in [EventTypes -> Nat]
        BY <3>1, <3>2, Sums
      <3>4. sessWhole'.event_types = sess'.event_types
        BY <1>0, <3>1 DEF SessionInv
      <3>5. sessUpd'.event_types = [et \in EventTypes |-> 0]
        BY <1>0, SessionZeros
      <3>. QED  BY <3>3, <3>4, <3>5, SumWithZero
    <2>6. /\ Len(sess'.commands) <= CommandCap
          /\ Tails(sess'.commands, sessUpd'.commands, sessWhole'.commands)
      <3>. DEFINE S == {e.command : e \in Inputs}
      <3>1. /\ sess.commands \in Seq(S) /\ sessUpd.commands \in Seq(S) /\ sessWhole.commands \in Seq(S)
        BY <1>1, SessionFields
      <3>. HIDE DEF S
      <3>2. Tails(sess.commands, sessUpd.commands, sessWhole.commands)
        BY DEF SessionInv
      <3>3. sess'.commands = JoinCommands(sess.commands, sessUpd.commands) /\ sessUpd'.commands = <<>>
        BY <1>0, <2>1, MergedSessions, SessionZeros
      <3>4. /\ Len(JoinCommands(sess.commands, sessUpd.commands)) <= CommandCap
            /\ Tails(JoinCommands(sess.commands, sessUpd.commands), <<>>, sessWhole.commands)
        BY <3>1, <3>2, TailsJoin
      <3>. QED  BY <1>0, <3>3, <3>4
    <2>7. sess'.first_seen <= sessWhole'.first_seen
      <3>1. sess'.first_seen = EarlierOf(sess.events, sess.first_seen, sessUpd.first_seen)
        BY <2>1, MergedSessions
      <3>2. /\ sess.events > 0 => sess.first_seen <= sessWhole.first_seen
            /\ sess.events = 0 => sessUpd.first_seen <= sessWhole.first_seen
        BY DEF SessionInv
      <3>. QED  BY <1>0, <2>2, <3>1, <3>2 DEF EarlierOf
    <2>8. sess'.events # 0
      BY <2>2, <2>3
    <2>. QED  BY <1>0, <2>4, <2>5, <2>6, <2>7, <2>8 DEF SessionInv
  <1>. QED  BY <1>2, <1>3

LEMMA SessionStart == Init => SessionInv
  <1>. SUFFICES ASSUME Init PROVE SessionInv
    OBVIOUS
  <1>1. sess = NoSession /\ sessUpd = NoSession /\ sessWhole = NoSession
    BY DEF Init
  <1>2. SumOf([et \in EventTypes |-> 0], [et \in EventTypes |-> 0]) = [et \in EventTypes |-> 0]
    BY DEF SumOf
  <1>3. Tails(<<>>, <<>>, <<>>) /\ Len(<<>>) <= CommandCap
    BY BoundsAssumption DEF Tails
  <1>. QED  BY <1>1, <1>2, <1>3, SessionZeros DEF SessionInv

LEMMA SessionInductive == TypeOK /\ SessionInv /\ [Next]_vars => SessionInv'
  <1>1. ASSUME SessionInv, UNCHANGED vars PROVE SessionInv'
    BY <1>1 DEF SessionInv, vars, sessVars
  <1>. QED  BY <1>1, SessionFolds, SessionMerges DEF Next

LEMMA ShorterThanTheSum ==
  ASSUME NEW a \in Nat, NEW b \in Nat, NEW c \in Nat, NEW k \in Nat, a + b + c = k
  PROVE  a + b <= k
  OBVIOUS

LEMMA OrderStays ==
  ASSUME TypeOK, ProfileInv, SessionInv
  PROVE  OrderKept
  <1>0. /\ prof \in ProfileType /\ upd \in ProfileType /\ whole \in ProfileType
        /\ sess \in SessionType /\ sessUpd \in SessionType /\ sessWhole \in SessionType
    BY DEF TypeOK
  <1>1. Merged.first_seen <= whole.first_seen
    <2>1. /\ prof.event_count \in Nat /\ prof.first_seen \in Nat /\ upd.event_count \in Nat
          /\ upd.first_seen \in Nat /\ whole.first_seen \in Nat
      BY <1>0, ProfileFields
    <2>2. FreshInv
      BY DEF ProfileInv
    <2>3. CASE upd.event_count > 0
      <3>1. Merged.first_seen = EarlierOf(prof.event_count, prof.first_seen, upd.first_seen)
        BY <2>3, MergedProfile DEF Merged
      <3>. QED  BY <2>1, <2>2, <3>1 DEF FreshInv, EarlierOf
    <2>4. CASE ~(upd.event_count > 0)
      <3>1. Merged = prof /\ (prof.event_count = 0 => prof.first_seen = 0)
        BY <2>2, <2>4, ProfileZeros DEF Merged, FreshInv
      <3>. QED  BY <2>1, <2>2, <3>1 DEF FreshInv
    <2>. QED  BY <2>3, <2>4
  <1>2. MergedSession.first_seen <= sessWhole.first_seen
    <2>1. /\ sess.events \in Nat /\ sess.first_seen \in Nat /\ sessUpd.events \in Nat
          /\ sessUpd.first_seen \in Nat /\ sessWhole.first_seen \in Nat
      BY <1>0, SessionFields
    <2>2. /\ sess.events > 0 => sess.first_seen <= sessWhole.first_seen
          /\ sess.events = 0 => sess = NoSession /\ sessUpd.first_seen <= sessWhole.first_seen
      BY DEF SessionInv
    <2>3. CASE sessUpd.events > 0
      <3>1. MergedSession.first_seen = EarlierOf(sess.events, sess.first_seen, sessUpd.first_seen)
        BY <2>3, MergedSessions DEF MergedSession
      <3>. QED  BY <2>1, <2>2, <3>1 DEF EarlierOf
    <2>4. CASE ~(sessUpd.events > 0)
      <3>1. MergedSession = sess /\ (sess.events = 0 => sess.first_seen = 0)
        BY <2>2, <2>4, SessionZeros DEF MergedSession
      <3>. QED  BY <2>1, <2>2, <3>1
    <2>. QED  BY <2>3, <2>4
  <1>3. /\ MergedSession.events = sessWhole.events
        /\ MergedSession.event_types = sessWhole.event_types
    <2>1. CASE sessUpd.events > 0
      BY <2>1, MergedSessions DEF MergedSession, SessionInv
    <2>2. CASE ~(sessUpd.events > 0)
      <3>1. /\ sess.events \in Nat /\ sessUpd.events \in Nat /\ sess.event_types \in [EventTypes -> Nat]
        BY <1>0, SessionFields
      <3>2. MergedSession = sess /\ sessUpd = NoSession
        BY <2>2, <3>1 DEF MergedSession, SessionInv
      <3>. QED  BY <3>1, <3>2, SessionZeros, SumWithZero DEF SessionInv
    <2>. QED  BY <2>1, <2>2
  <1>4. \E d \in 0..Len(sessWhole.commands) :
          /\ d + Len(sess.commands) <= Len(sessWhole.commands)
          /\ \A i \in 1..Len(sess.commands) : sess.commands[i] = sessWhole.commands[d + i]
    <2>1. PICK d \in 0..Len(sessWhole.commands) :
            /\ d + Len(sess.commands) + Len(sessUpd.commands) = Len(sessWhole.commands)
            /\ \A i \in 1..Len(sess.commands) : sess.commands[i] = sessWhole.commands[d + i]
      BY DEF SessionInv, Tails
    <2>2. /\ Len(sess.commands) \in Nat /\ Len(sessUpd.commands) \in Nat /\ Len(sessWhole.commands) \in Nat
      BY <1>0, SessionFields
    <2>3. d + Len(sess.commands) <= Len(sessWhole.commands)
      <3>1. d + Len(sess.commands) + Len(sessUpd.commands) = Len(sessWhole.commands)
        BY <2>1
      <3>2. d \in Nat
        BY <2>2
      <3>. QED  BY <2>2, <3>1, <3>2, ShorterThanTheSum
    <2>. QED  BY <2>1, <2>3
  <1>5. SessionInOrder
    BY <1>3, <1>4 DEF SessionInOrder, SessionInv
  <1>. QED  BY <1>1, <1>2, <1>5 DEF OrderKept, FirstSeenNotLater

\* However the timer cuts the events into runs, nobody is first seen later than
\* he was, and a session file (aggregator._merge_session) holds a stretch of
\* the commands in their order, for every cap, with all its events counted.
THEOREM OrderCorrect == Spec => []OrderKept
  <1>1. Init => TypeOK /\ ProfileInv /\ SessionInv
    BY ZeroProfile, ZeroSession, ProfileStart, SessionStart DEF Init, TypeOK
  <1>. QED  BY <1>1, TypeInductive, ProfileInductive, SessionInductive, OrderStays, PTL DEF Spec
=============================================================================
