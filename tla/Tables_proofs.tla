----------------------------- MODULE Tables_proofs -----------------------------
(***************************************************************************)
(* The bounded tables the sensors share, for any bound and any number of   *)
(* users: a session is what the window says, the container table is        *)
(* bounded at rest and a start finds its create, a file that calls home is *)
(* tied to who downloaded it, and the greatest burst of an address is      *)
(* within a factor of two of its busiest window.                           *)
(***************************************************************************)
EXTENDS SessionTracker, DockerSensor, CanaryBeacon, ConnectionTiming, FiniteSetTheorems, TLAPS

-----------------------------------------------------------------------------
(* SessionTracker: any window and table, under a clock that is set back    *)

Unique(t) == \A i, j \in 1..Len(t) : t[i].ip = t[j].ip => i = j
Holds(t, ip) == \E i \in 1..Len(t) : t[i].ip = ip

\* A table and what was answered: the table has the last answers; who stands
\* behind an address has been seen since; and an address without an entry was
\* followed by as many others as the table has places.
Ordered(t, answers) ==
  /\ Unique(t)
  /\ \A i \in 1..Len(t) : answers[t[i].ip].sid = t[i].sid /\ answers[t[i].ip].seen = t[i].seen
  /\ \A i, j \in 1..Len(t) : i < j => t[j].ip \in answers[t[i].ip].others
  /\ \A x \in Visitors : answers[x].sid # 0 /\ ~Holds(t, x) => Cardinality(answers[x].others) >= MaxEntries

Sound(t, answers) == Len(t) <= MaxEntries /\ Ordered(t, answers)

\* No two addresses and no two processes were ever given the same id.
Apart(answers) == \A p, q \in Processes, x, y \in Visitors :
  answers[p][x].sid # 0 /\ answers[p][x].sid = answers[q][y].sid => p = q /\ x = y

TrackerIInv ==
  /\ TrackerTypeOK
  /\ \A p \in Processes : Sound(table[p], last[p])
  /\ \A p \in Processes, x \in Visitors : last[p][x].sid <= sids /\ IsFiniteSet(last[p][x].others)
  /\ Apart(last)

-----------------------------------------------------------------------------
LEMMA TrackerInitLemma == TrackerInit => TrackerIInv
  <1>. SUFFICES ASSUME TrackerInit PROVE TrackerIInv
    OBVIOUS
  <1>1. TrackerTypeOK
    BY ConstantsAssumption DEF TrackerInit, TrackerTypeOK, TrackerAnswer, Never
  <1>2. \A p \in Processes : Sound(table[p], last[p])
    BY ConstantsAssumption DEF TrackerInit, Sound, Ordered, Unique, Never
  <1>3. \A p \in Processes, x \in Visitors : last[p][x].sid <= sids /\ IsFiniteSet(last[p][x].others)
    <2>1. \A p \in Processes, x \in Visitors : last[p][x].sid = 0 /\ last[p][x].others = {}
      BY DEF TrackerInit, Never
    <2>2. sids = 0
      BY DEF TrackerInit
    <2>3. IsFiniteSet({})
      BY FS_EmptySet
    <2>4. ASSUME NEW p \in Processes, NEW x \in Visitors
          PROVE  last[p][x].sid <= sids /\ IsFiniteSet(last[p][x].others)
      <3>1. last[p][x].sid = 0 /\ last[p][x].others = {}
        BY <2>1
      <3>2. IsFiniteSet(last[p][x].others)
        BY <2>3, <3>1, Zenon
      <3>. QED  BY <2>2, <3>1, <3>2
    <2>. QED  BY <2>4
  <1>4. Apart(last)
    BY DEF TrackerInit, Never, Apart
  <1>. QED  BY <1>1, <1>2, <1>3, <1>4 DEF TrackerIInv

\* w is t without the entries of ip: each of the others once and in its order.
Picks(w, t, ip) ==
  \E from \in [1..Len(w) -> 1..Len(t)] :
     /\ \A i \in 1..Len(w) : w[i] = t[from[i]] /\ w[i].ip # ip
     /\ \A i, j \in 1..Len(w) : i < j => from[i] < from[j]
     /\ \A k \in 1..Len(t) : t[k].ip # ip => \E i \in 1..Len(w) : from[i] = k

\* Taking an address out keeps the others, once and in their order.
LEMMA WithoutLemma ==
  ASSUME NEW t \in Seq(TableEntry), Unique(t), NEW ip, NEW w, w = Without(t, ip)
  PROVE  /\ w \in Seq(TableEntry)
         /\ Holds(t, ip) => Len(w) = Len(t) - 1
         /\ ~Holds(t, ip) => Len(w) = Len(t)
         /\ Picks(w, t, ip)
  <1>. DEFINE n == Len(t)
              places == {i \in DOMAIN t : t[i].ip = ip}
  <1>1. n \in Nat /\ DOMAIN t = 1..n /\ \A i \in 1..n : t[i] \in TableEntry
    OBVIOUS
  <1>2. CASE ~Holds(t, ip)
    <2>1. places = {} /\ w = t
      BY <1>1, <1>2 DEF Holds, Without
    <2>. DEFINE from == [i \in 1..n |-> i]
    <2>2. /\ from \in [1..n -> 1..n]
          /\ \A i \in 1..n : t[i] = t[from[i]] /\ t[i].ip # ip
          /\ \A i, j \in 1..n : i < j => from[i] < from[j]
          /\ \A k \in 1..n : t[k].ip # ip => \E i \in 1..n : from[i] = k
      BY <1>1, <1>2 DEF Holds
    <2>. HIDE DEF from
    <2>3. \E f \in [1..Len(w) -> 1..Len(t)] :
            /\ \A i \in 1..Len(w) : w[i] = t[f[i]] /\ w[i].ip # ip
            /\ \A i, j \in 1..Len(w) : i < j => f[i] < f[j]
            /\ \A k \in 1..Len(t) : t[k].ip # ip => \E i \in 1..Len(w) : f[i] = k
      <3>1. from \in [1..Len(w) -> 1..Len(t)]
        BY <2>1, <2>2
      <3>. WITNESS from \in [1..Len(w) -> 1..Len(t)]
      <3>. QED  BY <2>1, <2>2
    <2>4. w \in Seq(TableEntry) /\ Len(w) = Len(t)
      BY <2>1
    <2>. QED  BY <1>2, <2>3, <2>4 DEF Picks
  <1>3. CASE Holds(t, ip)
    <2>1. PICK place \in 1..n : t[place].ip = ip
      BY <1>3 DEF Holds
    <2>2. \A i \in 1..n : t[i].ip = ip => i = place
      BY <2>1 DEF Unique
    <2>3. places = {place}
      BY <1>1, <2>1, <2>2
    <2>. DEFINE old(i) == IF place <= i THEN i + 1 ELSE i
                m == n - 1
    <2>4. w = [i \in 1..m |-> t[old(i)]]
      BY <2>3 DEF Without
    <2>5. /\ m \in Nat
          /\ \A i \in 1..m : old(i) \in 1..n /\ old(i) # place
          /\ \A i, j \in 1..m : i < j => old(i) < old(j)
      BY <1>1, <2>1
    <2>6. \A k \in 1..n : k # place => \E i \in 1..m : old(i) = k
      <3>1. SUFFICES ASSUME NEW k \in 1..n, k # place PROVE \E i \in 1..m : old(i) = k
        OBVIOUS
      <3>2. CASE k < place
        <4>1. k \in 1..m /\ old(k) = k
          BY <1>1, <2>1, <3>2
        <4>. QED  BY <4>1
      <3>3. CASE k > place
        <4>1. k - 1 \in 1..m /\ old(k - 1) = k
          BY <1>1, <2>1, <3>3
        <4>. QED  BY <4>1
      <3>. QED  BY <1>1, <3>1, <3>2, <3>3
    <2>. DEFINE from == [i \in 1..m |-> old(i)]
    <2>7. \A i \in 1..m : from[i] = old(i)
      OBVIOUS
    <2>8. from \in [1..m -> 1..n]
      BY <2>5
    <2>. HIDE DEF from, old, m
    <2>9. \A i \in 1..m : w[i] = t[old(i)]
      BY <2>4
    <2>10. w \in Seq(TableEntry) /\ Len(w) = m
      BY <1>1, <2>4, <2>5
    <2>11. \A i \in 1..m : w[i] = t[from[i]] /\ w[i].ip # ip
      <3>1. SUFFICES ASSUME NEW i \in 1..m PROVE w[i] = t[from[i]] /\ w[i].ip # ip
        OBVIOUS
      <3>2. w[i] = t[old(i)] /\ from[i] = old(i) /\ old(i) \in 1..n /\ old(i) # place
        BY <2>5, <2>7, <2>9
      <3>3. t[old(i)].ip # ip
        BY <2>2, <3>2
      <3>. QED  BY <3>2, <3>3
    <2>12. \A i, j \in 1..m : i < j => from[i] < from[j]
      BY <2>5, <2>7
    <2>13. \A k \in 1..n : t[k].ip # ip => \E i \in 1..m : from[i] = k
      BY <2>1, <2>6, <2>7
    <2>14. Len(w) = n - 1
      BY <2>10 DEF m
    <2>15. \E f \in [1..Len(w) -> 1..Len(t)] :
             /\ \A i \in 1..Len(w) : w[i] = t[f[i]] /\ w[i].ip # ip
             /\ \A i, j \in 1..Len(w) : i < j => f[i] < f[j]
             /\ \A k \in 1..Len(t) : t[k].ip # ip => \E i \in 1..Len(w) : f[i] = k
      <3>1. from \in [1..Len(w) -> 1..Len(t)]
        BY <2>8, <2>10
      <3>. WITNESS from \in [1..Len(w) -> 1..Len(t)]
      <3>. QED  BY <2>10, <2>11, <2>12, <2>13
    <2>. QED  BY <1>3, <2>10, <2>14, <2>15 DEF Picks
  <1>. QED  BY <1>2, <1>3

\* As many others as there are places, each once.
LEMMA CrowdLemma ==
  ASSUME NEW t \in Seq(TableEntry), Unique(t), Len(t) = MaxEntries + 1,
         NEW others, IsFiniteSet(others), \A i \in 2..Len(t) : t[i].ip \in others
  PROVE  Cardinality(others) >= MaxEntries
  <1>. DEFINE f == [i \in 1..MaxEntries |-> t[i + 1].ip]
  <1>1. MaxEntries \in Nat
    BY ConstantsAssumption
  <1>2. \A i \in 1..MaxEntries : i + 1 \in 2..Len(t) /\ i + 1 \in 1..Len(t)
    BY <1>1
  <1>3. f \in [1..MaxEntries -> others]
    BY <1>2
  <1>4. ASSUME NEW i \in 1..MaxEntries, NEW j \in 1..MaxEntries, f[i] = f[j] PROVE i = j
    <2>1. t[i + 1].ip = t[j + 1].ip
      BY <1>4
    <2>2. i + 1 = j + 1
      BY <1>2, <2>1 DEF Unique
    <2>. QED  BY <1>1, <2>2
  <1>5. f \in Injection(1..MaxEntries, others)
    BY <1>3, <1>4 DEF Injection, IsInjective
  <1>6. Cardinality(1..MaxEntries) <= Cardinality(others)
    BY <1>5, FS_Injection
  <1>7. Cardinality(1..MaxEntries) = MaxEntries
    BY <1>1, FS_Interval
  <1>8. Cardinality(others) \in Nat
    BY FS_CardinalityType
  <1>. QED  BY <1>1, <1>6, <1>7, <1>8

\* How the answers change when ip is answered with e.
Touched(old, new, ip, e) ==
  /\ new[ip] = [sid |-> e.sid, seen |-> e.seen, others |-> {}]
  /\ \A x \in Visitors \ {ip} : /\ new[x].sid = old[x].sid /\ new[x].seen = old[x].seen
                              /\ new[x].others = old[x].others \cup {ip}

AllFinite(answers) == \A x \in Visitors : IsFiniteSet(answers[x].others)

\* What one answer to ip makes of a table and of what was answered before.
LEMMA TouchLemma ==
  ASSUME NEW t \in Seq(TableEntry), NEW old \in [Visitors -> TrackerAnswer], Sound(t, old),
         AllFinite(old),
         NEW ip \in Visitors, NEW e \in TableEntry, e.ip = ip,
         NEW new \in [Visitors -> TrackerAnswer], Touched(old, new, ip, e)
  PROVE  /\ WithinBound(Append(Without(t, ip), e)) \in Seq(TableEntry)
         /\ Sound(WithinBound(Append(Without(t, ip), e)), new)
         /\ AllFinite(new)
  <1>. USE DEF Touched, AllFinite
  <1>. DEFINE w == Without(t, ip)
              v == Append(w, e)
              k == Len(w) + 1
  <1>1. MaxEntries \in Nat \ {0} /\ Len(t) \in Nat /\ Len(t) <= MaxEntries /\ Ordered(t, old) /\ Unique(t)
    BY ConstantsAssumption DEF Sound, Ordered
  <1>2. w \in Seq(TableEntry) /\ Len(w) <= Len(t) /\ Len(w) \in Nat
    <2>1. w \in Seq(TableEntry) /\ (Len(w) = Len(t) \/ Len(w) = Len(t) - 1)
      BY <1>1, WithoutLemma
    <2>. QED  BY <1>1, <2>1
  <1>0. Picks(w, t, ip)
    BY <1>1, WithoutLemma
  <1>. HIDE DEF w
  <1>3. PICK from \in [1..Len(w) -> 1..Len(t)] :
          /\ \A i \in 1..Len(w) : w[i] = t[from[i]] /\ w[i].ip # ip
          /\ \A i, j \in 1..Len(w) : i < j => from[i] < from[j]
          /\ \A j \in 1..Len(t) : t[j].ip # ip => \E i \in 1..Len(w) : from[i] = j
    BY <1>0 DEF Picks
  <1>4. /\ v \in Seq(TableEntry) /\ Len(v) = k /\ v[k] = e /\ k \in Nat /\ k >= 1
        /\ \A i \in 1..Len(w) : v[i] = w[i]
    BY <1>2
  <1>. HIDE DEF v
  <1>5. \A i \in 1..k : (i \in 1..Len(w) /\ i < k) \/ i = k
    BY <1>2
  <1>. HIDE DEF k
  <1>6. \A i \in 1..Len(w) : v[i] = t[from[i]] /\ v[i].ip # ip /\ from[i] \in 1..Len(t) /\ v[i].ip \in Visitors
    <2>1. \A j \in 1..Len(t) : t[j].ip \in Visitors
      <3>1. \A j \in 1..Len(t) : t[j] \in TableEntry
        OBVIOUS
      <3>2. \A a \in TableEntry : a.ip \in Visitors
        BY DEF TableEntry
      <3>. QED  BY <3>1, <3>2, Zenon
    <2>. QED  BY <1>3, <1>4, <2>1
  <1>7. \A x \in Visitors : IsFiniteSet(new[x].others) /\ Cardinality(new[x].others) \in Nat
    <2>1. ASSUME NEW x \in Visitors PROVE IsFiniteSet(new[x].others)
      <3>1. CASE x = ip
        <4>1. new[x].others = {}
          BY <3>1
        <4>. QED  BY <4>1, FS_EmptySet, Zenon
      <3>2. CASE x # ip
        <4>1. new[x].others = old[x].others \cup {ip} /\ IsFiniteSet(old[x].others)
          BY <3>2
        <4>2. IsFiniteSet(old[x].others \cup {ip})
          BY <4>1, FS_AddElement
        <4>. QED  BY <4>1, <4>2, Zenon
      <3>. QED  BY <3>1, <3>2
    <2>. QED  BY <2>1, FS_CardinalityType
  <1>8. Unique(v)
    <2>1. ASSUME NEW i \in 1..Len(w), NEW j \in 1..Len(w), v[i].ip = v[j].ip PROVE i = j
      <3>1. from[i] = from[j]
        <4>1. t[from[i]].ip = t[from[j]].ip /\ from[i] \in 1..Len(t) /\ from[j] \in 1..Len(t)
          BY <1>6, <2>1
        <4>2. \A a, b \in 1..Len(t) : t[a].ip = t[b].ip => a = b
          BY <1>1, Zenon DEF Unique
        <4>. QED  BY <4>1, <4>2, Zenon
      <3>2. from[i] \in Int /\ from[j] \in Int /\ ~(from[i] < from[j]) /\ ~(from[j] < from[i])
        BY <1>1, <1>6, <3>1
      <3>3. ~(i < j) /\ ~(j < i)
        BY <1>3, <3>2
      <3>. QED  BY <1>2, <3>3
    <2>2. \A i \in 1..Len(w) : v[i].ip # v[k].ip
      BY <1>4, <1>6
    <2>. QED  BY <1>4, <1>5, <2>1, <2>2 DEF Unique
  <1>9. \A i \in 1..k : new[v[i].ip].sid = v[i].sid /\ new[v[i].ip].seen = v[i].seen
    <2>1. ASSUME NEW i \in 1..Len(w) PROVE new[v[i].ip].sid = v[i].sid /\ new[v[i].ip].seen = v[i].seen
      <3>1. old[v[i].ip].sid = v[i].sid /\ old[v[i].ip].seen = v[i].seen
        BY <1>1, <1>6 DEF Ordered
      <3>. QED  BY <1>6, <3>1
    <2>2. new[v[k].ip].sid = v[k].sid /\ new[v[k].ip].seen = v[k].seen
      BY <1>4
    <2>3. ASSUME NEW i \in 1..k PROVE new[v[i].ip].sid = v[i].sid /\ new[v[i].ip].seen = v[i].seen
      <3>1. CASE i = k
        BY <2>2, <3>1
      <3>2. CASE i \in 1..Len(w)
        BY <2>1, <3>2
      <3>. QED  BY <1>5, <3>1, <3>2
    <2>. QED  BY <2>3
  <1>10. \A i, j \in 1..k : i < j => v[j].ip \in new[v[i].ip].others
    <2>1. ASSUME NEW i \in 1..Len(w), NEW j \in 1..Len(w), i < j PROVE v[j].ip \in new[v[i].ip].others
      <3>1. v[j].ip \in old[v[i].ip].others
        <4>1. from[i] < from[j] /\ from[i] \in 1..Len(t) /\ from[j] \in 1..Len(t)
          BY <1>3, <1>6, <2>1
        <4>2. t[from[j]].ip \in old[t[from[i]].ip].others
          BY <1>1, <4>1 DEF Ordered
        <4>3. v[i] = t[from[i]] /\ v[j] = t[from[j]]
          BY <1>6
        <4>. QED  BY <4>2, <4>3
      <3>. QED  BY <1>6, <3>1
    <2>2. \A i \in 1..Len(w) : v[k].ip \in new[v[i].ip].others
      BY <1>4, <1>6
    <2>. QED  BY <1>2, <1>4, <1>5, <2>1, <2>2
  <1>11. ASSUME NEW x \in Visitors, new[x].sid # 0, ~Holds(v, x)
         PROVE  Cardinality(new[x].others) >= MaxEntries
    <2>1. x # ip
      BY <1>4, <1>11 DEF Holds
    <2>2. ~Holds(t, x)
      <3>1. SUFFICES ASSUME NEW j \in 1..Len(t), t[j].ip = x PROVE FALSE
        BY DEF Holds
      <3>2. PICK i \in 1..Len(w) : from[i] = j
        BY <1>3, <2>1, <3>1
      <3>3. v[i].ip = x /\ i \in 1..k
        BY <1>2, <1>6, <3>1, <3>2 DEF k
      <3>. QED  BY <1>4, <1>11, <3>3 DEF Holds
    <2>3. Cardinality(old[x].others) >= MaxEntries
      BY <1>1, <1>11, <2>1, <2>2 DEF Ordered
    <2>4. old[x].others \in SUBSET new[x].others
      BY <2>1
    <2>5. /\ Cardinality(old[x].others) <= Cardinality(new[x].others)
          /\ Cardinality(old[x].others) \in Nat /\ Cardinality(new[x].others) \in Nat
      BY <1>7, <2>4, FS_Subset, FS_CardinalityType
    <2>. QED  BY <1>1, <2>3, <2>5
  <1>12. CASE k <= MaxEntries
    <2>1. WithinBound(v) = v
      BY <1>1, <1>4, <1>12 DEF WithinBound
    <2>. QED  BY <1>4, <1>7, <1>8, <1>9, <1>10, <1>11, <1>12, <2>1 DEF Sound, Ordered, v, w
  <1>13. CASE k = MaxEntries + 1
    <2>. DEFINE u == Tail(v)
    <2>1. /\ WithinBound(v) = u /\ u \in Seq(TableEntry) /\ Len(u) = MaxEntries
          /\ \A i \in 1..MaxEntries : u[i] = v[i + 1] /\ i + 1 \in 1..k
      BY <1>1, <1>4, <1>13 DEF WithinBound
    <2>. HIDE DEF u
    <2>2. Unique(u)
      <3>1. SUFFICES ASSUME NEW i \in 1..MaxEntries, NEW j \in 1..MaxEntries, u[i].ip = u[j].ip PROVE i = j
        BY <2>1 DEF Unique
      <3>2. i + 1 = j + 1
        BY <1>4, <1>8, <2>1, <3>1 DEF Unique
      <3>. QED  BY <1>1, <3>2
    <2>3. \A i \in 1..MaxEntries : new[u[i].ip].sid = u[i].sid /\ new[u[i].ip].seen = u[i].seen
      BY <1>9, <2>1
    <2>4. ASSUME NEW i \in 1..MaxEntries, NEW j \in 1..MaxEntries, i < j
          PROVE  u[j].ip \in new[u[i].ip].others
      <3>1. i + 1 < j + 1
        BY <1>1, <2>4
      <3>2. i + 1 \in 1..k /\ j + 1 \in 1..k /\ u[i] = v[i + 1] /\ u[j] = v[j + 1]
        BY <2>1
      <3>3. v[j + 1].ip \in new[v[i + 1].ip].others
        BY <1>10, <3>1, <3>2
      <3>. QED  BY <3>2, <3>3
    <2>5. ASSUME NEW x \in Visitors, new[x].sid # 0, ~Holds(u, x)
          PROVE  Cardinality(new[x].others) >= MaxEntries
      <3>1. CASE ~Holds(v, x)
        BY <1>11, <2>5, <3>1
      <3>2. CASE Holds(v, x)
        <4>1. v[1].ip = x
          <5>1. PICK j \in 1..k : v[j].ip = x
            BY <1>4, <3>2 DEF Holds
          <5>2. CASE j # 1
            <6>1. j - 1 \in 1..MaxEntries /\ (j - 1) + 1 = j
              BY <1>1, <1>13, <5>2
            <6>2. u[j - 1].ip = x
              BY <2>1, <5>1, <6>1
            <6>. QED  BY <2>1, <2>5, <6>1, <6>2 DEF Holds
          <5>. QED  BY <5>1, <5>2
        <4>2. \A i \in 2..k : v[i].ip \in new[x].others
          <5>1. \A i \in 2..k : i \in 1..k /\ 1 \in 1..k /\ 1 < i
            BY <1>4
          <5>. QED  BY <1>10, <4>1, <5>1
        <4>. QED  BY <1>4, <1>7, <1>8, <1>13, <4>2, CrowdLemma
      <3>. QED  BY <3>1, <3>2
    <2>6. Sound(u, new)
      BY <1>1, <2>1, <2>2, <2>3, <2>4, <2>5 DEF Sound, Ordered
    <2>. QED  BY <1>7, <2>1, <2>6 DEF v, w
  <1>. QED  BY <1>1, <1>2, <1>12, <1>13 DEF k
-----------------------------------------------------------------------------
\* What get remembers of an answer.
LEMMA RememberLemma ==
  ASSUME TrackerTypeOK, NEW p \in Processes, NEW ip \in Visitors, NEW sid \in 0..MaxSids,
         Remember(p, ip, sid)
  PROVE  /\ last' \in [Processes -> [Visitors -> TrackerAnswer]]
         /\ last'[p][ip] = [sid |-> sid, seen |-> now, others |-> {}]
         /\ \A x \in Visitors \ {ip} :
               /\ last'[p][x].sid = last[p][x].sid /\ last'[p][x].seen = last[p][x].seen
               /\ last'[p][x].others = last[p][x].others \cup {ip}
         /\ \A q \in Processes \ {p} : last'[q] = last[q]
  <1>. DEFINE answers == [x \in Visitors |->
                IF x = ip THEN [sid |-> sid, seen |-> now, others |-> {}]
                          ELSE [last[p][x] EXCEPT !.others = last[p][x].others \cup {ip}]]
  <1>1. last' = [last EXCEPT ![p] = answers]
    BY DEF Remember
  <1>2. \A x \in Visitors : last[p][x] \in TrackerAnswer
    BY DEF TrackerTypeOK
  <1>3. answers[ip] = [sid |-> sid, seen |-> now, others |-> {}] /\ answers[ip] \in TrackerAnswer
    BY DEF TrackerTypeOK, TrackerAnswer
  <1>4. ASSUME NEW x \in Visitors \ {ip}
        PROVE  /\ answers[x] \in TrackerAnswer
               /\ answers[x].sid = last[p][x].sid /\ answers[x].seen = last[p][x].seen
               /\ answers[x].others = last[p][x].others \cup {ip}
    <2>1. answers[x] = [last[p][x] EXCEPT !.others = last[p][x].others \cup {ip}]
      OBVIOUS
    <2>. HIDE DEF answers
    <2>2. last[p][x] \in TrackerAnswer
      BY <1>2
    <2>. QED  BY <2>1, <2>2 DEF TrackerAnswer
  <1>5. answers = [x \in Visitors |-> answers[x]]
    OBVIOUS
  <1>. HIDE DEF answers
  <1>6. answers \in [Visitors -> TrackerAnswer]
    BY <1>3, <1>4, <1>5
  <1>7. last'[p] = answers /\ \A q \in Processes \ {p} : last'[q] = last[q]
    BY <1>1 DEF TrackerTypeOK
  <1>8. last' \in [Processes -> [Visitors -> TrackerAnswer]]
    BY <1>1, <1>6 DEF TrackerTypeOK
  <1>. QED  BY <1>3, <1>4, <1>7, <1>8

\* A refresh is of the answer this process gave last, and never evicts.
LEMMA KnownLemma ==
  ASSUME TrackerIInv, NEW p \in Processes, NEW ip \in Visitors, GetKnown(p, ip)
  PROVE  /\ last[p][ip].sid \in Sids /\ Recent(last[p][ip])
         /\ [ip |-> ip, sid |-> last[p][ip].sid, seen |-> now] \in TableEntry
         /\ table' = [table EXCEPT ![p] = WithinBound(Append(Without(table[p], ip),
               [ip |-> ip, sid |-> last[p][ip].sid, seen |-> now]))]
         /\ Remember(p, ip, last[p][ip].sid)
         /\ UNCHANGED <<now, sids>>
  <1>. DEFINE t == table[p]
              w == Without(t, ip)
  <1>1. /\ t \in Seq(TableEntry) /\ Sound(t, last[p]) /\ now \in 0..MaxTime
        /\ Unique(t) /\ Len(t) <= MaxEntries /\ Len(t) \in Nat /\ MaxEntries \in Nat /\ Window \in Nat
    <2>1. t \in Seq(TableEntry) /\ Sound(t, last[p]) /\ now \in 0..MaxTime
      BY DEF TrackerIInv, TrackerTypeOK
    <2>2. Len(t) \in Nat
      BY <2>1
    <2>. QED  BY <2>1, <2>2, ConstantsAssumption DEF Sound, Ordered
  <1>2. PICK i \in DOMAIN t :
          /\ t[i].ip = ip /\ now <= t[i].seen + Window
          /\ table' = [table EXCEPT ![p] = Append(w, [t[i] EXCEPT !.seen = now])]
          /\ Remember(p, ip, t[i].sid)
          /\ UNCHANGED <<now, sids>>
    BY DEF GetKnown, TableEntries
  <1>. HIDE DEF t
  <1>3. i \in 1..Len(t) /\ t[i] \in TableEntry
    BY <1>1
  <1>4. last[p][ip].sid = t[i].sid /\ last[p][ip].seen = t[i].seen
    BY <1>1, <1>2, <1>3 DEF Sound, Ordered
  <1>5. [t[i] EXCEPT !.seen = now] = [ip |-> ip, sid |-> last[p][ip].sid, seen |-> now]
    BY <1>2, <1>3, <1>4 DEF TableEntry
  <1>6. t[i].sid \in Sids /\ t[i].seen \in 0..MaxTime
    BY <1>3 DEF TableEntry
  <1>7. [ip |-> ip, sid |-> last[p][ip].sid, seen |-> now] \in TableEntry
    BY <1>1, <1>4, <1>6 DEF TableEntry
  <1>8. Recent(last[p][ip])
    BY <1>2, <1>4, <1>6 DEF Recent, Sids
  <1>9. w \in Seq(TableEntry) /\ Len(w) = Len(t) - 1
    <2>1. Holds(t, ip)
      BY <1>2, <1>3 DEF Holds
    <2>. QED  BY <1>1, <2>1, WithoutLemma
  <1>. HIDE DEF w
  <1>. DEFINE v == Append(w, [ip |-> ip, sid |-> last[p][ip].sid, seen |-> now])
  <1>10. Len(v) = Len(t)
    BY <1>1, <1>7, <1>9
  <1>11. WithinBound(v) = v
    BY <1>1, <1>10 DEF WithinBound
  <1>12. table' = [table EXCEPT ![p] = WithinBound(v)]
    BY <1>2, <1>5, <1>11
  <1>13. Remember(p, ip, last[p][ip].sid) /\ UNCHANGED <<now, sids>>
    BY <1>2, <1>4
  <1>. QED  BY <1>4, <1>6, <1>7, <1>8, <1>12, <1>13 DEF t, w

\* A new id is greater than all before, and the answer of an address with an
\* entry is not recent.
LEMMA NewLemma ==
  ASSUME TrackerIInv, NEW p \in Processes, NEW ip \in Visitors, GetNew(p, ip)
  PROVE  /\ sids + 1 \in Sids /\ last[p][ip].sid # sids + 1
         /\ [ip |-> ip, sid |-> sids + 1, seen |-> now] \in TableEntry
         /\ table' = [table EXCEPT ![p] = WithinBound(Append(Without(table[p], ip),
               [ip |-> ip, sid |-> sids + 1, seen |-> now]))]
         /\ Remember(p, ip, sids + 1)
         /\ sids' = sids + 1 /\ now' = now
         /\ Recent(last[p][ip]) => Cardinality(last[p][ip].others) >= MaxEntries
  <1>1. sids \in Nat /\ sids < MaxSids /\ MaxSids \in Nat /\ now \in 0..MaxTime
    BY ConstantsAssumption DEF TrackerIInv, TrackerTypeOK, GetNew
  <1>2. sids + 1 \in Sids
    BY <1>1 DEF Sids
  <1>3. [ip |-> ip, sid |-> sids + 1, seen |-> now] \in TableEntry
    BY <1>1, <1>2 DEF TableEntry
  <1>4. last[p][ip].sid # sids + 1
    <2>1. last[p][ip].sid <= sids /\ last[p][ip] \in TrackerAnswer
      BY DEF TrackerIInv, TrackerTypeOK
    <2>2. last[p][ip].sid \in 0..MaxSids
      BY <2>1 DEF TrackerAnswer
    <2>. QED  BY <1>1, <2>1, <2>2
  <1>5. ASSUME Recent(last[p][ip]) PROVE Cardinality(last[p][ip].others) >= MaxEntries
    <2>1. Sound(table[p], last[p]) /\ table[p] \in Seq(TableEntry)
      BY DEF TrackerIInv, TrackerTypeOK
    <2>2. ~Holds(table[p], ip)
      <3>1. SUFFICES ASSUME NEW i \in 1..Len(table[p]), table[p][i].ip = ip PROVE FALSE
        BY DEF Holds
      <3>2. last[p][ip].seen = table[p][i].seen
        BY <2>1, <3>1 DEF Sound, Ordered
      <3>3. table[p][i] \in TableEntries(table[p])
        BY <2>1 DEF TableEntries
      <3>4. now > table[p][i].seen + Window
        BY <3>1, <3>3 DEF GetNew
      <3>5. table[p][i] \in TableEntry
        BY <2>1
      <3>6. table[p][i].seen \in Nat /\ Window \in Nat /\ now \in Nat
        BY <1>1, <3>5, ConstantsAssumption DEF TableEntry
      <3>. QED  BY <1>5, <3>2, <3>4, <3>6 DEF Recent
    <2>. QED  BY <1>5, <2>1, <2>2 DEF Recent, Sound, Ordered
  <1>6. /\ table' = [table EXCEPT ![p] = WithinBound(Append(Without(table[p], ip),
               [ip |-> ip, sid |-> sids + 1, seen |-> now]))]
        /\ Remember(p, ip, sids + 1)
        /\ sids' = sids + 1 /\ now' = now
    BY DEF GetNew
  <1>. QED  BY <1>2, <1>3, <1>4, <1>5, <1>6

\* Nobody but ip of process p was given the id.
OwnId(p, ip, sid) == \A q \in Processes, x \in Visitors : last[q][x].sid = sid => q = p /\ x = ip

\* Either way of answering keeps the invariant.
LEMMA GetLemma ==
  ASSUME TrackerIInv, NEW p \in Processes, NEW ip \in Visitors, NEW sid \in Sids,
         [ip |-> ip, sid |-> sid, seen |-> now] \in TableEntry,
         table' = [table EXCEPT ![p] = WithinBound(Append(Without(table[p], ip),
               [ip |-> ip, sid |-> sid, seen |-> now]))],
         Remember(p, ip, sid), now' = now,
         sids' \in 0..MaxSids, sids <= sids', sid <= sids',
         OwnId(p, ip, sid)
  PROVE  TrackerIInv'
  <1>. DEFINE e == [ip |-> ip, sid |-> sid, seen |-> now]
              u == WithinBound(Append(Without(table[p], ip), e))
  <1>1. TrackerTypeOK /\ table[p] \in Seq(TableEntry) /\ last[p] \in [Visitors -> TrackerAnswer]
    BY DEF TrackerIInv, TrackerTypeOK
  <1>2. sid \in 0..MaxSids
    BY ConstantsAssumption DEF Sids
  <1>3. /\ last' \in [Processes -> [Visitors -> TrackerAnswer]]
        /\ last'[p][ip] = [sid |-> sid, seen |-> now, others |-> {}]
        /\ \A x \in Visitors \ {ip} :
              /\ last'[p][x].sid = last[p][x].sid /\ last'[p][x].seen = last[p][x].seen
              /\ last'[p][x].others = last[p][x].others \cup {ip}
        /\ \A q \in Processes \ {p} : last'[q] = last[q]
    BY <1>1, <1>2, RememberLemma
  <1>4. /\ u \in Seq(TableEntry) /\ Sound(u, last'[p])
        /\ \A x \in Visitors : IsFiniteSet(last'[p][x].others)
    <2>1. Sound(table[p], last[p]) /\ \A x \in Visitors : IsFiniteSet(last[p][x].others)
      BY DEF TrackerIInv
    <2>2. e \in TableEntry /\ e.ip = ip /\ last'[p] \in [Visitors -> TrackerAnswer]
      BY <1>3
    <2>3. last'[p][ip] = [sid |-> e.sid, seen |-> e.seen, others |-> {}]
      BY <1>3
    <2>4. Touched(last[p], last'[p], ip, e) /\ AllFinite(last[p])
      BY <1>3, <2>1, <2>3 DEF Touched, AllFinite
    <2>. HIDE DEF e
    <2>5. /\ WithinBound(Append(Without(table[p], ip), e)) \in Seq(TableEntry)
          /\ Sound(WithinBound(Append(Without(table[p], ip), e)), last'[p])
          /\ AllFinite(last'[p])
      BY <1>1, <2>1, <2>2, <2>4, TouchLemma
    <2>. QED  BY <2>5 DEF AllFinite
  <1>. HIDE DEF u
  <1>5. table'[p] = u /\ \A q \in Processes \ {p} : table'[q] = table[q]
    BY <1>1 DEF TrackerTypeOK, u
  <1>6. TrackerTypeOK'
    BY <1>1, <1>3, <1>4 DEF TrackerTypeOK, u
  <1>7. \A q \in Processes : Sound(table'[q], last'[q])
    BY <1>3, <1>4, <1>5 DEF TrackerIInv
  <1>8. ASSUME NEW q \in Processes, NEW x \in Visitors
        PROVE  last'[q][x].sid <= sids' /\ IsFiniteSet(last'[q][x].others)
    <2>1. /\ last[q][x].sid <= sids /\ IsFiniteSet(last[q][x].others)
          /\ last[q][x] \in TrackerAnswer /\ sids \in Nat
      BY DEF TrackerIInv, TrackerTypeOK
    <2>2. last[q][x].sid \in Nat /\ sids' \in Nat
      BY <2>1 DEF TrackerAnswer
    <2>3. last[q][x].sid <= sids'
      BY <2>1, <2>2
    <2>4. CASE q # p
      BY <1>3, <2>1, <2>3, <2>4
    <2>5. CASE q = p /\ x = ip
      <3>1. last'[q][x].sid = sid
        BY <1>3, <2>5
      <3>. QED  BY <1>4, <2>5, <3>1
    <2>6. CASE q = p /\ x # ip
      <3>1. last'[q][x].sid = last[q][x].sid
        BY <1>3, <2>6
      <3>. QED  BY <1>4, <2>3, <2>6, <3>1
    <2>. QED  BY <2>4, <2>5, <2>6
  <1>9. Apart(last')
    <2>1. SUFFICES ASSUME NEW q \in Processes, NEW r \in Processes, NEW x \in Visitors, NEW y \in Visitors,
                          last'[q][x].sid # 0, last'[q][x].sid = last'[r][y].sid
                   PROVE  q = r /\ x = y
      BY DEF Apart
    <2>2. \A a \in Processes, z \in Visitors : (a = p /\ z = ip) \/ last'[a][z].sid = last[a][z].sid
      BY <1>3
    <2>3. last'[p][ip].sid = sid
      BY <1>3
    <2>4. CASE q = p /\ x = ip
      BY <2>1, <2>2, <2>3, <2>4 DEF OwnId
    <2>5. CASE r = p /\ y = ip
      BY <2>1, <2>2, <2>3, <2>5 DEF OwnId
    <2>6. CASE ~(q = p /\ x = ip) /\ ~(r = p /\ y = ip)
      <3>1. last'[q][x].sid = last[q][x].sid /\ last'[r][y].sid = last[r][y].sid
        BY <2>2, <2>6
      <3>2. Apart(last)
        BY DEF TrackerIInv
      <3>3. last[q][x].sid # 0 /\ last[q][x].sid = last[r][y].sid
        BY <2>1, <3>1
      <3>. QED  BY <3>2, <3>3 DEF Apart
    <2>. QED  BY <2>4, <2>5, <2>6
  <1>. QED  BY <1>6, <1>7, <1>8, <1>9 DEF TrackerIInv, Apart, Sound, Ordered, Unique, Holds
-----------------------------------------------------------------------------
\* Only the clock moves, or nothing.
LEMMA ClockLemma ==
  ASSUME TrackerIInv, Tick \/ SetBack \/ UNCHANGED trackerVars
  PROVE  TrackerIInv' /\ last' = last
  <1>1. UNCHANGED <<table, sids, last>>
    BY DEF Tick, SetBack, trackerVars
  <1>2. now' \in 0..MaxTime
    BY ConstantsAssumption DEF TrackerIInv, TrackerTypeOK, Tick, SetBack, trackerVars
  <1>3. TrackerTypeOK'
    BY <1>1, <1>2 DEF TrackerIInv, TrackerTypeOK
  <1>. QED  BY <1>1, <1>3 DEF TrackerIInv, Apart, Sound, Ordered, Unique, Holds

LEMMA TrackerStepLemma == TrackerIInv /\ [TrackerNext]_trackerVars => TrackerIInv'
  <1>. SUFFICES ASSUME TrackerIInv, [TrackerNext]_trackerVars PROVE TrackerIInv'
    OBVIOUS
  <1>0. sids \in 0..MaxSids /\ MaxSids \in Nat
    BY ConstantsAssumption DEF TrackerIInv, TrackerTypeOK
  <1>1. ASSUME NEW p \in Processes, NEW ip \in Visitors, GetKnown(p, ip) PROVE TrackerIInv'
    <2>. DEFINE sid == last[p][ip].sid
    <2>1. sid <= sids
      BY DEF TrackerIInv
    <2>2. /\ sid \in Sids /\ [ip |-> ip, sid |-> sid, seen |-> now] \in TableEntry
          /\ table' = [table EXCEPT ![p] = WithinBound(Append(Without(table[p], ip),
                [ip |-> ip, sid |-> sid, seen |-> now]))]
          /\ Remember(p, ip, sid) /\ now' = now /\ sids' = sids
      BY <1>1, KnownLemma
    <2>4. OwnId(p, ip, sid)
      <3>1. Apart(last) /\ last[p][ip].sid # 0
        BY <1>0, <2>2 DEF TrackerIInv, Sids
      <3>2. SUFFICES ASSUME NEW q \in Processes, NEW x \in Visitors, last[q][x].sid = last[p][ip].sid
                     PROVE  q = p /\ x = ip
        BY DEF OwnId
      <3>. QED  BY <3>1, <3>2 DEF Apart
    <2>. HIDE DEF sid
    <2>3. sids' \in 0..MaxSids /\ sids <= sids' /\ sid <= sids'
      BY <1>0, <2>1, <2>2
    <2>. QED  BY <2>2, <2>3, <2>4, GetLemma
  <1>2. ASSUME NEW p \in Processes, NEW ip \in Visitors, GetNew(p, ip) PROVE TrackerIInv'
    <2>. DEFINE sid == sids + 1
    <2>1. /\ sid \in Sids /\ [ip |-> ip, sid |-> sid, seen |-> now] \in TableEntry
          /\ table' = [table EXCEPT ![p] = WithinBound(Append(Without(table[p], ip),
                [ip |-> ip, sid |-> sid, seen |-> now]))]
          /\ Remember(p, ip, sid) /\ now' = now /\ sids' = sid
      BY <1>2, NewLemma
    <2>2. sids' \in 0..MaxSids /\ sids <= sids' /\ sid <= sids'
      BY <1>0, <2>1 DEF Sids
    <2>3. OwnId(p, ip, sid)
      <3>1. ASSUME NEW q \in Processes, NEW x \in Visitors PROVE last[q][x].sid # sid
        <4>1. last[q][x].sid <= sids /\ last[q][x] \in TrackerAnswer
          BY DEF TrackerIInv, TrackerTypeOK
        <4>2. last[q][x].sid \in 0..MaxSids
          BY <4>1 DEF TrackerAnswer
        <4>. QED  BY <1>0, <4>1, <4>2
      <3>. QED  BY <3>1 DEF OwnId
    <2>. HIDE DEF sid
    <2>. QED  BY <2>1, <2>2, <2>3, GetLemma
  <1>3. CASE Tick \/ SetBack \/ UNCHANGED trackerVars
    BY <1>3, ClockLemma
  <1>. QED  BY <1>1, <1>2, <1>3 DEF TrackerNext

LEMMA TrackerInvLemma == TrackerSpec => []TrackerIInv
  BY TrackerInitLemma, TrackerStepLemma, PTL DEF TrackerSpec

\* Who is answered in a step is the one get was called for.
LEMMA AnsweredLemma ==
  ASSUME TrackerTypeOK, NEW q \in Processes, NEW x \in Visitors, NEW sid \in Sids, Remember(q, x, sid),
         NEW p \in Processes, NEW ip \in Visitors, Answered(p, ip)
  PROVE  p = q /\ ip = x /\ last'[p][ip].sid = sid
  <1>1. sid \in 0..MaxSids
    BY ConstantsAssumption DEF Sids
  <1>2. /\ last'[q][x] = [sid |-> sid, seen |-> now, others |-> {}]
        /\ \A y \in Visitors \ {x} : last'[q][y].others = last[q][y].others \cup {x}
        /\ \A r \in Processes \ {q} : last'[r] = last[r]
    BY <1>1, RememberLemma
  <1>3. p = q
    BY <1>2 DEF Answered
  <1>4. ip = x
    BY <1>2, <1>3 DEF Answered
  <1>. QED  BY <1>2, <1>3, <1>4

\* What both properties ask of one step.
KeepsSession(p, ip) ==
  Answered(p, ip) =>
    /\ Recent(last[p][ip]) /\ Cardinality(last[p][ip].others) < MaxEntries
         => last'[p][ip].sid = last[p][ip].sid
    /\ last'[p][ip].sid = last[p][ip].sid => Recent(last[p][ip])

LEMMA SessionStepLemma ==
  ASSUME TrackerIInv, [TrackerNext]_trackerVars, NEW p \in Processes, NEW ip \in Visitors
  PROVE  KeepsSession(p, ip)
  <1>. SUFFICES ASSUME Answered(p, ip)
                PROVE  /\ Recent(last[p][ip]) /\ Cardinality(last[p][ip].others) < MaxEntries
                            => last'[p][ip].sid = last[p][ip].sid
                       /\ last'[p][ip].sid = last[p][ip].sid => Recent(last[p][ip])
    BY DEF KeepsSession
  <1>0. TrackerTypeOK
    BY DEF TrackerIInv
  <1>1. ASSUME NEW q \in Processes, NEW x \in Visitors, GetKnown(q, x)
        PROVE  last'[p][ip].sid = last[p][ip].sid /\ Recent(last[p][ip])
    <2>1. last[q][x].sid \in Sids /\ Recent(last[q][x]) /\ Remember(q, x, last[q][x].sid)
      BY <1>1, KnownLemma
    <2>2. p = q /\ ip = x /\ last'[p][ip].sid = last[q][x].sid
      BY <1>0, <2>1, AnsweredLemma
    <2>. QED  BY <2>1, <2>2
  <1>2. ASSUME NEW q \in Processes, NEW x \in Visitors, GetNew(q, x)
        PROVE  /\ last'[p][ip].sid # last[p][ip].sid
               /\ ~(Recent(last[p][ip]) /\ Cardinality(last[p][ip].others) < MaxEntries)
    <2>1. /\ sids + 1 \in Sids /\ last[q][x].sid # sids + 1 /\ Remember(q, x, sids + 1)
          /\ Recent(last[q][x]) => Cardinality(last[q][x].others) >= MaxEntries
      BY <1>2, NewLemma
    <2>2. p = q /\ ip = x /\ last'[p][ip].sid = sids + 1
      BY <1>0, <2>1, AnsweredLemma
    <2>3. Cardinality(last[q][x].others) \in Nat /\ MaxEntries \in Nat
      BY ConstantsAssumption, FS_CardinalityType DEF TrackerIInv
    <2>. QED  BY <2>1, <2>2, <2>3
  <1>3. CASE Tick \/ SetBack \/ UNCHANGED trackerVars
    BY <1>3, ClockLemma DEF Answered
  <1>. QED  BY <1>1, <1>2, <1>3 DEF TrackerNext

-----------------------------------------------------------------------------
\* A session is what the window says (core/session.py, SessionTracker.get): an
\* address seen again within the window keeps its id unless as many others as
\* the table has places came in between, and one id never spans a longer gap.
THEOREM SessionTheorem == TrackerSpec => SessionIsAWindow
  <1>1. ASSUME TrackerIInv, [TrackerNext]_trackerVars
        PROVE  \A p \in Processes, ip \in Visitors : KeepsSession(p, ip)
    BY <1>1, SessionStepLemma
  <1>2. TrackerIInv /\ [TrackerNext]_trackerVars =>
          [\A p \in Processes, ip \in Visitors :
             Answered(p, ip) /\ Recent(last[p][ip]) /\ Cardinality(last[p][ip].others) < MaxEntries
                => last'[p][ip].sid = last[p][ip].sid]_trackerVars
    BY <1>1 DEF KeepsSession
  <1>3. TrackerIInv /\ [TrackerNext]_trackerVars =>
          [\A p \in Processes, ip \in Visitors :
             Answered(p, ip) /\ last'[p][ip].sid = last[p][ip].sid => Recent(last[p][ip])]_trackerVars
    BY <1>1 DEF KeepsSession
  <1>4. TrackerSpec => SessionHolds
    BY <1>2, TrackerInvLemma, PTL DEF TrackerSpec, SessionHolds
  <1>5. TrackerSpec => SessionEnds
    BY <1>3, TrackerInvLemma, PTL DEF TrackerSpec, SessionEnds
  <1>. QED  BY <1>4, <1>5 DEF SessionIsAWindow
\* The table is bounded and holds an address once, and no two addresses and no
\* two processes share an id (core/session.py: the table and its eviction).
THEOREM TableTheorem == TrackerSpec => []TableSound
  <1>1. ASSUME TrackerIInv PROVE TableSound
    <2>1. ASSUME NEW p \in Processes
          PROVE  /\ table[p] \in Seq(TableEntry) /\ DOMAIN table[p] = 1..Len(table[p])
                 /\ Len(table[p]) <= MaxEntries /\ Unique(table[p])
                 /\ \A i \in DOMAIN table[p] :
                      /\ table[p][i].ip \in Visitors /\ table[p][i].sid # 0
                      /\ last[p][table[p][i].ip].sid = table[p][i].sid
      <3>1. table[p] \in Seq(TableEntry) /\ Sound(table[p], last[p])
        BY <1>1 DEF TrackerIInv, TrackerTypeOK
      <3>2. \A i \in DOMAIN table[p] : table[p][i] \in TableEntry /\ i \in 1..Len(table[p])
        BY <3>1
      <3>3. \A e \in TableEntry : e.ip \in Visitors /\ e.sid # 0
        BY ConstantsAssumption DEF TableEntry, Sids
      <3>. QED  BY <3>1, <3>2, <3>3 DEF Sound, Ordered
    <2>2. \A p \in Processes : \A i, j \in DOMAIN table[p] :
             table[p][i].ip = table[p][j].ip => i = j
      BY <2>1 DEF Unique
    <2>3. \A p, q \in Processes : \A i \in DOMAIN table[p], j \in DOMAIN table[q] :
             table[p][i].sid = table[q][j].sid => p = q /\ table[p][i].ip = table[q][j].ip
      BY <1>1, <2>1 DEF TrackerIInv, Apart
    <2>4. \A p \in Processes : Len(table[p]) <= MaxEntries
      BY <2>1
    <2>5. \A p \in Processes : \A i, j \in DOMAIN table[p] :
             table[p][i].ip = table[p][j].ip \/ table[p][i].sid = table[p][j].sid => i = j
      BY <2>2, <2>3
    <2>6. \A p, q \in Processes : \A e \in TableEntries(table[p]), f \in TableEntries(table[q]) :
             e.sid = f.sid => p = q
      BY <2>3 DEF TableEntries
    <2>. QED  BY <2>4, <2>5, <2>6 DEF TableSound
  <1>. QED  BY <1>1, TrackerInvLemma, PTL

-----------------------------------------------------------------------------
(* DockerSensor: any number of request threads and any table               *)

Inserted == {"move", "room", "evict", "record", "done"}
Places == Inserted \cup {"idle", "failed", "pull", "create", "start", "exec", "scan"}
Kinds == {"none", "query", "pull", "create", "start", "exec"}

DockerTypeInv ==
  /\ at \in [Requests -> Places]
  /\ asks \in [Requests -> [kind : Kinds, body : Bodies \cup {NoBody}, ids : SUBSET Requests]]
  /\ containers \in Seq(Requests)
  /\ changes \in Nat
  /\ scan \in [Requests -> [pos : Nat, changes : Nat]]
  /\ evicted \subseteq Requests

\* Where a thread is says what it was asked; a start names known creates.
AsksInv ==
  \A r \in Requests :
    /\ at[r] \in (Inserted \ {"done"}) \cup {"create"} => asks[r].kind = "create"
    /\ at[r] \in {"pull", "exec", "start", "scan"} => asks[r].kind # "create"
    /\ asks[r].ids \subseteq Created

\* What was inserted is in the table once, or has been taken from it.
TableInv ==
  /\ \A i, j \in 1..Len(containers) : containers[i] = containers[j] => i = j
  /\ \A i \in 1..Len(containers) : at[containers[i]] \in Inserted
  /\ \A r \in Requests : asks[r].kind = "create" /\ at[r] \in Inserted => r \in Ids(containers) \cup evicted

\* A thread that will still look at the size of the table.
Busy(r) == at[r] \in {"room", "evict"} \/ (at[r] = "move" /\ r \in Ids(containers))

BoundInv == Len(containers) > ContMax => \E r \in Requests : Busy(r)

\* While nothing has changed, an iteration has passed no container it names.
ScanSound(r) ==
  /\ scan[r].changes <= changes /\ scan[r].pos >= 1
  /\ scan[r].changes = changes =>
       \A i \in 1..Len(containers) : i < scan[r].pos => containers[i] \notin asks[r].ids

ScanInv == \A r \in Requests : at[r] = "scan" => ScanSound(r)

ToldInv ==
  /\ \A c \in Created : [type |-> "create", of |-> c, analysis |-> Analysis(c)] \in events
  /\ \A e \in Starts : e.of \in Requests /\ at[e.of] = "done"

DockerIInv ==
  DockerTypeInv /\ AsksInv /\ TableInv /\ BoundInv /\ ScanInv /\ ToldInv /\ StartKnowsItsCreate

-----------------------------------------------------------------------------
LEMMA DockerInitLemma == DockerInit => DockerIInv
  <1>. SUFFICES ASSUME DockerInit PROVE DockerIInv
    OBVIOUS
  <1>. USE DEF DockerInit
  <1>1. DockerTypeInv
    BY DEF DockerTypeInv, Nothing, NoBody, Places, Inserted, Kinds
  <1>2. AsksInv /\ TableInv /\ ScanInv
    BY DEF AsksInv, TableInv, ScanInv, Nothing, Inserted
  <1>3. BoundInv
    BY ContMaxAssumption DEF BoundInv
  <1>4. ToldInv /\ StartKnowsItsCreate
    BY DEF ToldInv, StartKnowsItsCreate, Starts, Created
  <1>. QED  BY <1>1, <1>2, <1>3, <1>4 DEF DockerIInv

\* Created only grows, and what it was created for stays.
LEMMA CreatedLemma ==
  ASSUME DockerTypeInv, NEW r \in Requests, at[r] # "done",
         at' = [at EXCEPT ![r] = at'[r]],
         at[r] = "idle" \/ asks' = asks,
         \A q \in Requests : q # r => asks'[q] = asks[q]
  PROVE  /\ Created \subseteq Created'
         /\ \A c \in Created : asks'[c] = asks[c] /\ Analysis(c)' = Analysis(c)
  BY DEF DockerTypeInv, Created, Analysis

\* A step that leaves the table and what was asked, and takes the thread where
\* it has no more and no less to do.
Quiet(r) ==
  /\ at[r] \notin {"done", "idle"} /\ at'[r] \in Places \ {"idle", "create"}
  /\ at' = [at EXCEPT ![r] = at'[r]]
  /\ UNCHANGED <<asks, containers, changes, evicted>>
  /\ at[r] \in Inserted => at'[r] \in Inserted
  /\ at'[r] \in Inserted \ {"done"} => at[r] \in Inserted
  /\ at'[r] = "done" /\ asks[r].kind = "create" =>
       /\ at[r] \in Inserted
       /\ [type |-> "create", of |-> r, analysis |-> Analysis(r)] \in events'
  /\ at'[r] \in {"pull", "exec", "start", "scan"} => asks[r].kind # "create"
  /\ at'[r] \in {"room", "evict"} \/ ~Busy(r) \/ Len(containers) <= ContMax
  /\ scan' \in [Requests -> [pos : Nat, changes : Nat]]
  /\ \A q \in Requests \ {r} : scan'[q] = scan[q]
  /\ at'[r] = "scan" => ScanSound(r)'
  /\ events \subseteq events'

LEMMA QuietLemma ==
  ASSUME DockerIInv, NEW r \in Requests, Quiet(r)
  PROVE  /\ DockerTypeInv' /\ AsksInv' /\ TableInv' /\ BoundInv' /\ ScanInv'
         /\ \A c \in Created' : [type |-> "create", of |-> c, analysis |-> Analysis(c)'] \in events'
  <1>. USE DEF DockerIInv, Quiet
  <1>1. DockerTypeInv'
    BY DEF DockerTypeInv
  <1>2. \A q \in Requests : q # r => at'[q] = at[q]
    BY DEF DockerTypeInv
  <1>3. Created \subseteq Created' /\ Created' \subseteq Created \cup {r}
    BY <1>2 DEF Created
  <1>4. AsksInv'
    BY <1>2, <1>3 DEF AsksInv
  <1>5. TableInv'
    <2>1. Ids(containers)' = Ids(containers)
      BY DEF Ids
    <2>2. \A i \in 1..Len(containers) : containers[i] \in Requests
      BY DEF DockerTypeInv
    <2>3. \A i \in 1..Len(containers) : at'[containers[i]] \in Inserted
      BY <1>2, <2>2 DEF TableInv
    <2>4. ASSUME NEW q \in Requests, asks[q].kind = "create", at'[q] \in Inserted
          PROVE  at[q] \in Inserted
      BY <1>2, <2>4
    <2>. QED  BY <2>1, <2>3, <2>4 DEF TableInv
  <1>6. BoundInv'
    <2>1. SUFFICES ASSUME Len(containers) > ContMax PROVE \E q \in Requests : Busy(q)'
      BY DEF BoundInv
    <2>2. PICK q \in Requests : Busy(q)
      BY <2>1 DEF BoundInv
    <2>3. CASE q = r
      BY <2>1, <2>2, <2>3, ContMaxAssumption DEF Busy, DockerTypeInv
    <2>4. CASE q # r
      BY <1>2, <2>2, <2>4 DEF Busy, Ids
    <2>. QED  BY <2>3, <2>4
  <1>7. ScanInv'
    BY <1>2 DEF ScanInv, ScanSound
  <1>8. \A c \in Created' : [type |-> "create", of |-> c, analysis |-> Analysis(c)'] \in events'
    <2>1. \A c \in Requests : Analysis(c)' = Analysis(c)
      BY DEF Analysis
    <2>. QED  BY <1>2, <1>3, <2>1 DEF ToldInv, Created
  <1>. QED  BY <1>1, <1>4, <1>5, <1>6, <1>7, <1>8

\* A step that emits no start.
LEMMA SameStartsLemma ==
  ASSUME DockerIInv, NEW r \in Requests, at[r] # "done",
         Starts' = Starts, events \subseteq events', evicted \subseteq evicted',
         \A q \in Requests \ {r} : at'[q] = at[q] /\ asks'[q] = asks[q]
  PROVE  /\ StartKnowsItsCreate'
         /\ \A e \in Starts' : e.of \in Requests /\ at'[e.of] = "done"
  <1>1. \A e \in Starts : e.of \in Requests \ {r} /\ at[e.of] = "done"
    BY DEF DockerIInv, ToldInv
  <1>2. \A e \in Starts : asks'[e.of] = asks[e.of]
    BY <1>1
  <1>3. StartKnowsItsCreate'
    BY <1>2 DEF DockerIInv, StartKnowsItsCreate
  <1>. QED  BY <1>1, <1>3

LEMMA RestLemma ==
  ASSUME DockerIInv, NEW r \in Requests,
         Raises(r) \/ Room(r) \/ RecordCreate(r) \/ BeginScan(r) \/ ScanRaises(r) \/ ScanNext(r) \/ Report(r)
  PROVE  DockerIInv'
  <1>0. /\ at \in [Requests -> Places] /\ changes \in Nat /\ Len(containers) \in Nat
        /\ scan \in [Requests -> [pos : Nat, changes : Nat]]
        /\ UNCHANGED <<asks, containers, changes, evicted>>
    BY DEF DockerIInv, DockerTypeInv, Raises, Room, RecordCreate, BeginScan, ScanRaises, ScanNext, Report, NoTable
  <1>1. CASE Raises(r)
    <2>1. Quiet(r)
      BY <1>0, <1>1 DEF Raises, Quiet, DockerIInv, AsksInv, Places, Inserted, Busy
    <2>2. Starts' = Starts /\ \A q \in Requests \ {r} : at'[q] = at[q]
      BY <1>0, <1>1 DEF Raises, Starts
    <2>. QED  BY <1>0, <2>1, <2>2, QuietLemma, SameStartsLemma DEF Quiet, DockerIInv, ToldInv
  <1>2. CASE Room(r)
    <2>1. Quiet(r)
      BY <1>0, <1>2, ContMaxAssumption DEF Room, Quiet, DockerIInv, AsksInv, Places, Inserted, Busy
    <2>2. Starts' = Starts /\ \A q \in Requests \ {r} : at'[q] = at[q]
      BY <1>0, <1>2 DEF Room, Starts
    <2>. QED  BY <1>0, <2>1, <2>2, QuietLemma, SameStartsLemma DEF Quiet, DockerIInv, ToldInv
  <1>3. CASE RecordCreate(r)
    <2>1. Quiet(r)
      BY <1>0, <1>3 DEF RecordCreate, Quiet, DockerIInv, AsksInv, Places, Inserted, Busy, Goto, Emit
    <2>2. Starts' = Starts /\ \A q \in Requests \ {r} : at'[q] = at[q]
      BY <1>0, <1>3 DEF RecordCreate, Starts, Goto, Emit
    <2>. QED  BY <1>0, <2>1, <2>2, QuietLemma, SameStartsLemma DEF Quiet, DockerIInv, ToldInv
  <1>4. CASE BeginScan(r)
    <2>1. Quiet(r)
      BY <1>0, <1>4 DEF BeginScan, Quiet, DockerIInv, AsksInv, Places, Inserted, Busy, Goto, ScanSound
    <2>2. Starts' = Starts /\ \A q \in Requests \ {r} : at'[q] = at[q]
      BY <1>0, <1>4 DEF BeginScan, Starts, Goto
    <2>. QED  BY <1>0, <2>1, <2>2, QuietLemma, SameStartsLemma DEF Quiet, DockerIInv, ToldInv
  <1>5. CASE ScanRaises(r)
    <2>1. Quiet(r)
      BY <1>0, <1>5 DEF ScanRaises, Quiet, DockerIInv, AsksInv, Places, Inserted, Busy, Goto
    <2>2. Starts' = Starts /\ \A q \in Requests \ {r} : at'[q] = at[q]
      BY <1>0, <1>5 DEF ScanRaises, Starts, Goto
    <2>. QED  BY <1>0, <2>1, <2>2, QuietLemma, SameStartsLemma DEF Quiet, DockerIInv, ToldInv
  <1>6. CASE ScanNext(r)
    <2>1. Quiet(r)
      BY <1>0, <1>6 DEF ScanNext, Quiet, DockerIInv, AsksInv, Places, Inserted, Busy, ScanInv, ScanSound, Here
    <2>2. Starts' = Starts /\ \A q \in Requests \ {r} : at'[q] = at[q]
      BY <1>0, <1>6 DEF ScanNext, Starts
    <2>. QED  BY <1>0, <2>1, <2>2, QuietLemma, SameStartsLemma DEF Quiet, DockerIInv, ToldInv
  <1>7. CASE Report(r)
    <2>1. Quiet(r)
      BY <1>0, <1>7 DEF Report, Quiet, DockerIInv, AsksInv, Places, Inserted, Busy, Emit
    <2>2. Starts' = Starts /\ \A q \in Requests \ {r} : at'[q] = at[q]
      BY <1>0, <1>7 DEF Report, Starts, Emit
    <2>. QED  BY <1>0, <2>1, <2>2, QuietLemma, SameStartsLemma DEF Quiet, DockerIInv, ToldInv
  <1>. QED  BY <1>1, <1>2, <1>3, <1>4, <1>5, <1>6, <1>7

\* The end of an iteration over an unchanged table: nothing was missed.
LEMMA ScanEndsLemma ==
  ASSUME DockerIInv, NEW r \in Requests, ScanEnds(r)
  PROVE  DockerIInv'
  <1>. DEFINE e == [type |-> "start", of |-> r, found |-> Here(r),
                    analysis |-> IF Here(r) = {} THEN Unknown ELSE Prior(containers[scan[r].pos])]
  <1>1. /\ at[r] = "scan" /\ at' = [at EXCEPT ![r] = "done"] /\ at'[r] = "done"
        /\ scan[r].changes = changes /\ Here(r) \subseteq asks[r].ids
        /\ events' = events \cup {e}
        /\ UNCHANGED <<asks, scan, containers, changes, evicted>>
    BY DEF ScanEnds, Goto, Emit, NoTable, DockerIInv, DockerTypeInv
  <1>2. Quiet(r)
    BY <1>1 DEF Quiet, DockerIInv, DockerTypeInv, AsksInv, Places, Inserted, Busy
  <1>3. Starts' = Starts \cup {e}
    BY <1>1 DEF Starts
  <1>4. \A d \in Starts' : d.of \in Requests /\ at'[d.of] = "done"
    BY <1>1, <1>3 DEF DockerIInv, DockerTypeInv, ToldInv
  <1>5. asks[r].ids \subseteq Created /\ asks[r].ids \subseteq Requests
    BY DEF DockerIInv, AsksInv, DockerTypeInv
  <1>6. Here(r) = {} => asks[r].ids \subseteq evicted
    <2>1. SUFFICES ASSUME Here(r) = {}, NEW c \in asks[r].ids PROVE c \in evicted
      OBVIOUS
    <2>2. scan[r].pos \in Nat /\ Len(containers) \in Nat /\ DOMAIN containers = 1..Len(containers)
      BY DEF DockerIInv, DockerTypeInv
    <2>3. scan[r].pos >= 1
      BY <1>1 DEF DockerIInv, ScanInv, ScanSound
    <2>4. scan[r].pos > Len(containers)
      <3>1. scan[r].pos \notin DOMAIN containers
        BY <2>1, Zenon DEF Here
      <3>. QED  BY <2>2, <2>3, <3>1
    <2>5. c \notin Ids(containers)
      BY <1>1, <2>2, <2>4 DEF DockerIInv, ScanInv, ScanSound, Ids
    <2>6. c \in Ids(containers) \cup evicted
      BY <1>5 DEF DockerIInv, TableInv, Created, Inserted
    <2>. QED  BY <2>5, <2>6
  <1>7. ASSUME NEW c \in Here(r)
        PROVE  \E made \in events' :
                  /\ made.type = "create" /\ made.of = c
                  /\ e.analysis = IF made.analysis = NoAnalysis THEN Unknown ELSE made.analysis
    <2>1. Here(r) # {} /\ c = containers[scan[r].pos] /\ e.analysis = Prior(c)
      BY DEF Here
    <2>2. c \in Created
      BY <1>1, <1>5
    <2>. DEFINE m == [type |-> "create", of |-> c, analysis |-> Analysis(c)]
    <2>3. m \in events /\ m.type = "create" /\ m.of = c /\ m.analysis = Analysis(c)
      BY <2>2 DEF DockerIInv, ToldInv
    <2>. QED  BY <1>1, <2>1, <2>3 DEF Prior
  <1>8. StartKnowsItsCreate'
    <2>1. ASSUME NEW d \in Starts
          PROVE  /\ d.found \subseteq asks[d.of].ids
                 /\ d.found = {} => asks[d.of].ids \subseteq evicted
                 /\ \A c \in d.found :
                      \E made \in events' :
                         /\ made.type = "create" /\ made.of = c
                         /\ d.analysis = IF made.analysis = NoAnalysis THEN Unknown ELSE made.analysis
      BY <1>1 DEF DockerIInv, StartKnowsItsCreate
    <2>2. e.of = r /\ e.found = Here(r)
      OBVIOUS
    <2>. HIDE DEF e
    <2>. QED  BY <1>1, <1>3, <1>6, <1>7, <2>1, <2>2 DEF StartKnowsItsCreate
  <1>. QED  BY <1>2, <1>4, <1>8, QuietLemma DEF DockerIInv, ToldInv

-----------------------------------------------------------------------------
\* A request that arrives names creates that were answered.
LEMMA ArriveLemma ==
  ASSUME DockerIInv, NEW r \in Requests, Arrive(r)
  PROVE  DockerIInv'
  <1>1. PICK kind \in {"query", "pull", "create", "start", "exec"},
             body \in Bodies \cup {NoBody}, ids \in SUBSET Created :
        /\ at[r] = "idle" /\ at' = [at EXCEPT ![r] = IF kind = "query" THEN "done" ELSE kind]
        /\ asks' = [asks EXCEPT ![r] = [kind |-> kind, body |-> body, ids |-> ids]]
        /\ events' = events \cup {[type |-> "api", of |-> r]}
        /\ UNCHANGED <<scan, containers, changes, evicted>>
    BY DEF Arrive, Goto, Emit, NoTable
  <1>2. DockerTypeInv
    BY DEF DockerIInv
  <1>3. \A q \in Requests \ {r} : at'[q] = at[q] /\ asks'[q] = asks[q]
    BY <1>1, <1>2 DEF DockerTypeInv
  <1>4. /\ at'[r] = IF kind = "query" THEN "done" ELSE kind
        /\ asks'[r].kind = kind /\ asks'[r].ids = ids
    BY <1>1, <1>2 DEF DockerTypeInv
  <1>5. Created' = Created /\ Created \subseteq Requests \ {r}
    BY <1>1, <1>3, <1>4 DEF Created
  <1>6. DockerTypeInv'
    BY <1>1, <1>2 DEF DockerTypeInv, Places, Inserted, Kinds, Created
  <1>7. AsksInv'
    BY <1>3, <1>4, <1>5 DEF DockerIInv, AsksInv, Inserted
  <1>8. TableInv'
    <2>1. \A i \in 1..Len(containers) : containers[i] \in Requests /\ at[containers[i]] \in Inserted
      BY <1>2 DEF DockerIInv, DockerTypeInv, TableInv
    <2>2. \A i \in 1..Len(containers) : at'[containers[i]] \in Inserted
      BY <1>1, <1>3, <2>1 DEF Inserted
    <2>3. ASSUME NEW q \in Requests, asks'[q].kind = "create", at'[q] \in Inserted
          PROVE  q \in Ids(containers) \cup evicted
      BY <1>3, <1>4, <2>3 DEF DockerIInv, TableInv, Inserted
    <2>. QED  BY <1>1, <2>2, <2>3 DEF DockerIInv, TableInv, Ids
  <1>9. BoundInv'
    BY <1>1, <1>3 DEF DockerIInv, BoundInv, Busy, Ids
  <1>10. ScanInv'
    BY <1>1, <1>3, <1>4 DEF DockerIInv, ScanInv, ScanSound
  <1>11. \A c \in Created' : [type |-> "create", of |-> c, analysis |-> Analysis(c)'] \in events'
    <2>1. \A c \in Created : Analysis(c)' = Analysis(c)
      BY <1>3, <1>5 DEF Analysis
    <2>. QED  BY <1>1, <1>5, <2>1 DEF DockerIInv, ToldInv
  <1>12. Starts' = Starts
    BY <1>1 DEF Starts
  <1>. QED  BY <1>1, <1>3, <1>6, <1>7, <1>8, <1>9, <1>10, <1>11, <1>12, SameStartsLemma DEF DockerIInv, ToldInv

-----------------------------------------------------------------------------
\* What the steps that change the table have in common: iterations fail, and
\* what is said stays.
Reshapes(r) ==
  /\ at[r] \in {"create", "move", "evict"} /\ at'[r] \in Inserted \ {"done"}
  /\ at' = [at EXCEPT ![r] = at'[r]]
  /\ UNCHANGED <<asks, scan, events>>
  /\ containers' \in Seq(Requests)
  /\ changes' = changes + 1 \/ UNCHANGED <<containers, changes>>
  /\ evicted \subseteq evicted' /\ evicted' \subseteq Requests

LEMMA ReshapesLemma ==
  ASSUME DockerIInv, NEW r \in Requests, Reshapes(r), TableInv', BoundInv'
  PROVE  DockerIInv'
  <1>. USE DEF Reshapes
  <1>1. \A q \in Requests \ {r} : at'[q] = at[q]
    BY DEF DockerIInv, DockerTypeInv
  <1>2. DockerTypeInv'
    <2>1. at' \in [Requests -> Places]
      BY DEF DockerIInv, DockerTypeInv, Places
    <2>2. changes' \in Nat
      BY DEF DockerIInv, DockerTypeInv
    <2>. QED  BY <2>1, <2>2 DEF DockerIInv, DockerTypeInv
  <1>3. Created' = Created
    BY <1>1 DEF Created, Inserted
  <1>4. AsksInv'
    BY <1>1, <1>3 DEF DockerIInv, AsksInv, Inserted
  <1>5. ScanInv'
    <2>1. ASSUME NEW q \in Requests, at'[q] = "scan"
          PROVE  ScanSound(q)'
      <3>1. ScanSound(q) /\ scan[q].changes \in Nat /\ changes \in Nat
        BY <1>1, <2>1 DEF DockerIInv, ScanInv, DockerTypeInv, Inserted
      <3>. QED  BY <3>1 DEF ScanSound
    <2>. QED  BY <2>1 DEF ScanInv
  <1>6. \A c \in Created' : [type |-> "create", of |-> c, analysis |-> Analysis(c)'] \in events'
    <2>1. \A c \in Created : Analysis(c)' = Analysis(c)
      BY DEF Analysis
    <2>. QED  BY <1>3, <2>1 DEF DockerIInv, ToldInv
  <1>7. Starts' = Starts /\ at[r] # "done"
    BY DEF Starts
  <1>. QED  BY <1>1, <1>2, <1>4, <1>5, <1>6, <1>7, SameStartsLemma DEF DockerIInv, ToldInv

LEMMA InsertLemma ==
  ASSUME DockerIInv, NEW r \in Requests, Insert(r)
  PROVE  DockerIInv'
  <1>. DEFINE n == Len(containers)
  <1>1. /\ at[r] = "create" /\ at' = [at EXCEPT ![r] = "move"]
        /\ containers' = Append(containers, r) /\ changes' = changes + 1
        /\ UNCHANGED <<asks, scan, events, evicted>>
        /\ at \in [Requests -> Places] /\ containers \in Seq(Requests) /\ n \in Nat
    BY DEF Insert, Goto, DockerIInv, DockerTypeInv
  <1>2. at'[r] = "move" /\ \A q \in Requests \ {r} : at'[q] = at[q]
    BY <1>1
  <1>3. /\ Len(containers') = n + 1 /\ containers'[n + 1] = r /\ containers' \in Seq(Requests)
        /\ \A i \in 1..n : containers'[i] = containers[i] /\ containers[i] \in Requests
        /\ DOMAIN containers = 1..n /\ DOMAIN containers' = 1..(n + 1)
    BY <1>1
  <1>4. \A i \in 1..n : containers[i] # r /\ at[containers[i]] \in Inserted
    BY <1>1, <1>3 DEF DockerIInv, TableInv, Inserted
  <1>5. TableInv'
    <2>1. \A i, j \in 1..(n + 1) : containers'[i] = containers'[j] => i = j
      BY <1>1, <1>3, <1>4 DEF DockerIInv, TableInv
    <2>2. \A i \in 1..(n + 1) : at'[containers'[i]] \in Inserted
      BY <1>1, <1>2, <1>3, <1>4 DEF Inserted
    <2>3. Ids(containers) \cup {r} \subseteq Ids(containers')
      BY <1>1, <1>3 DEF Ids
    <2>4. \A q \in Requests : asks[q].kind = "create" /\ at'[q] \in Inserted => q \in Ids(containers') \cup evicted
      BY <1>2, <2>3 DEF DockerIInv, TableInv
    <2>. QED  BY <1>1, <1>3, <2>1, <2>2, <2>4 DEF TableInv, Ids
  <1>6. BoundInv'
    BY <1>1, <1>2, <1>3 DEF BoundInv, Busy, Ids
  <1>7. Reshapes(r)
    BY <1>1, <1>2, <1>3 DEF Reshapes, Inserted, DockerIInv, DockerTypeInv
  <1>. QED  BY <1>5, <1>6, <1>7, ReshapesLemma

LEMMA EvictLemma ==
  ASSUME DockerIInv, NEW r \in Requests, Evict(r)
  PROVE  DockerIInv'
  <1>. DEFINE n == Len(containers)
  <1>1. /\ at[r] = "evict" /\ UNCHANGED <<asks, scan, events>>
        /\ at \in [Requests -> Places] /\ containers \in Seq(Requests) /\ n \in Nat
        /\ evicted \subseteq Requests
    BY DEF Evict, DockerIInv, DockerTypeInv
  <1>2. CASE containers = <<>>
    <2>1. /\ at' = [at EXCEPT ![r] = "record"] /\ UNCHANGED <<containers, changes, evicted>>
      BY <1>2 DEF Evict, NoTable
    <2>2. at'[r] = "record" /\ \A q \in Requests \ {r} : at'[q] = at[q]
      BY <1>1, <2>1
    <2>3. TableInv'
      BY <1>1, <1>2, <2>1, <2>2 DEF DockerIInv, TableInv, Ids, Inserted
    <2>4. BoundInv'
      BY <1>2, <2>1, ContMaxAssumption DEF BoundInv
    <2>5. Reshapes(r)
      BY <1>1, <2>1, <2>2 DEF Reshapes, Inserted
    <2>. QED  BY <2>3, <2>4, <2>5, ReshapesLemma
  <1>3. CASE containers # <<>>
    <2>1. /\ at' = [at EXCEPT ![r] = "room"] /\ evicted' = evicted \cup {Head(containers)}
          /\ containers' = Tail(containers) /\ changes' = changes + 1
      BY <1>3 DEF Evict
    <2>2. at'[r] = "room" /\ \A q \in Requests \ {r} : at'[q] = at[q]
      BY <1>1, <2>1
    <2>3. /\ n >= 1 /\ Len(containers') = n - 1 /\ containers' \in Seq(Requests)
          /\ \A i \in 1..(n - 1) : containers'[i] = containers[i + 1]
          /\ Head(containers) = containers[1] /\ containers[1] \in Requests
          /\ DOMAIN containers = 1..n /\ DOMAIN containers' = 1..(n - 1)
      BY <1>1, <1>3, <2>1
    <2>4. TableInv'
      <3>1. \A i, j \in 1..(n - 1) : containers'[i] = containers'[j] => i = j
        BY <1>1, <2>3 DEF DockerIInv, TableInv
      <3>2. \A i \in 1..(n - 1) : at'[containers'[i]] \in Inserted
        <4>1. \A i \in 1..n : at'[containers[i]] \in Inserted
          BY <1>1, <2>2 DEF DockerIInv, TableInv, Inserted
        <4>. QED  BY <1>1, <2>3, <4>1
      <3>3. ASSUME NEW q \in Ids(containers)
            PROVE  q \in Ids(containers') \cup evicted'
        <4>1. PICK i \in 1..n : containers[i] = q
          BY <2>3 DEF Ids
        <4>2. CASE i = 1
          BY <2>1, <2>3, <4>1, <4>2
        <4>3. CASE i # 1
          <5>1. i - 1 \in 1..(n - 1) /\ (i - 1) + 1 = i
            BY <1>1, <4>1, <4>3
          <5>2. containers'[i - 1] = q
            BY <2>3, <4>1, <5>1
          <5>. QED  BY <2>3, <5>1, <5>2 DEF Ids
        <4>. QED  BY <4>2, <4>3
      <3>4. \A q \in Requests : asks[q].kind = "create" /\ at'[q] \in Inserted => q \in Ids(containers') \cup evicted'
        BY <1>1, <2>1, <2>2, <3>3 DEF DockerIInv, TableInv, Inserted
      <3>. QED  BY <1>1, <2>3, <3>1, <3>2, <3>4 DEF TableInv, Ids
    <2>5. BoundInv'
      BY <2>2 DEF BoundInv, Busy
    <2>6. Reshapes(r)
      BY <1>1, <2>1, <2>2, <2>3 DEF Reshapes, Inserted
    <2>. QED  BY <2>4, <2>5, <2>6, ReshapesLemma
  <1>. QED  BY <1>2, <1>3

\* Where the i-th of n entries was, before the one at place went to the end.
From(n, place, i) == IF i = n THEN place ELSE IF i < place THEN i ELSE i + 1

LEMMA FromLemma ==
  ASSUME NEW n \in Nat, NEW place \in 1..n
  PROVE  /\ \A i \in 1..n : From(n, place, i) \in 1..n
         /\ \A i, j \in 1..n : From(n, place, i) = From(n, place, j) => i = j
         /\ \A k \in 1..n : \E i \in 1..n : From(n, place, i) = k
  <1>1. \A i \in 1..n : From(n, place, i) \in 1..n
    BY DEF From
  <1>2. \A i, j \in 1..n : From(n, place, i) = From(n, place, j) => i = j
    BY DEF From
  <1>3. ASSUME NEW k \in 1..n
        PROVE  \E i \in 1..n : From(n, place, i) = k
    <2>1. CASE k = place
      BY <2>1 DEF From
    <2>2. CASE k < place
      BY <2>2 DEF From
    <2>3. CASE k > place
      <3>1. k - 1 \in 1..n /\ From(n, place, k - 1) = k
        BY <2>3 DEF From
      <3>. QED  BY <3>1
    <2>. QED  BY <2>1, <2>2, <2>3
  <1>. QED  BY <1>1, <1>2, <1>3

\* The others stay in their order, and the entry is the last.
LEMMA AtEndLemma ==
  ASSUME DockerTypeInv, NEW r \in Ids(containers),
         \A i, j \in 1..Len(containers) : containers[i] = containers[j] => i = j
  PROVE  \E place \in 1..Len(containers) :
           /\ containers[place] = r
           /\ Len(AtEnd(r)) = Len(containers) /\ AtEnd(r) \in Seq(Requests)
           /\ \A i \in 1..(Len(containers) - 1) : AtEnd(r)[i] = containers[IF i < place THEN i ELSE i + 1]
           /\ AtEnd(r)[Len(containers)] = r
  <1>. DEFINE n == Len(containers)
              place == CHOOSE i \in DOMAIN containers : containers[i] = r
              rest == [i \in 1..(n - 1) |-> containers[IF i < place THEN i ELSE i + 1]]
  <1>1. n \in Nat /\ DOMAIN containers = 1..n /\ containers \in [1..n -> Requests]
    BY DEF DockerTypeInv
  <1>2. place \in 1..n /\ containers[place] = r
    BY <1>1 DEF Ids
  <1>3. AtEnd(r) = Append(rest, r)
    BY DEF AtEnd
  <1>. HIDE DEF place
  <1>4. n >= 1 /\ r \in Requests
    BY <1>1, <1>2
  <1>5. rest \in [1..(n - 1) -> Requests]
    BY <1>1, <1>2
  <1>6. rest \in Seq(Requests) /\ Len(rest) = n - 1
    BY <1>1, <1>4, <1>5
  <1>7. \A i \in 1..(n - 1) : rest[i] = containers[IF i < place THEN i ELSE i + 1]
    OBVIOUS
  <1>. HIDE DEF rest
  <1>8. /\ Len(Append(rest, r)) = n /\ Append(rest, r) \in Seq(Requests)
        /\ \A i \in 1..(n - 1) : Append(rest, r)[i] = rest[i]
        /\ Append(rest, r)[n] = r
    <2>1. ASSUME NEW q \in Seq(Requests), Len(q) = n - 1
          PROVE  /\ Len(Append(q, r)) = n /\ Append(q, r) \in Seq(Requests)
                 /\ \A i \in 1..(n - 1) : Append(q, r)[i] = q[i]
                 /\ Append(q, r)[n] = r
      <3>1. /\ Append(q, r) \in Seq(Requests) /\ Len(Append(q, r)) = Len(q) + 1
            /\ \A i \in 1..Len(q) : Append(q, r)[i] = q[i]
            /\ Append(q, r)[Len(q) + 1] = r
        BY <1>4
      <3>2. Len(q) + 1 = n
        BY <1>1, <2>1
      <3>. QED  BY <2>1, <3>1, <3>2
    <2>. QED  BY <1>6, <2>1
  <1>. QED  BY <1>2, <1>3, <1>7, <1>8

LEMMA MoveToEndLemma ==
  ASSUME DockerIInv, NEW r \in Requests, MoveToEnd(r)
  PROVE  DockerIInv'
  <1>. DEFINE n == Len(containers)
  <1>1. /\ at[r] = "move" /\ UNCHANGED <<asks, scan, events, evicted>>
        /\ at \in [Requests -> Places] /\ containers \in Seq(Requests) /\ n \in Nat
        /\ evicted \subseteq Requests /\ DOMAIN containers = 1..n
    BY DEF MoveToEnd, DockerIInv, DockerTypeInv
  <1>2. CASE r \notin Ids(containers)
    <2>1. at' = [at EXCEPT ![r] = "record"] /\ UNCHANGED <<containers, changes>>
      BY <1>2 DEF MoveToEnd
    <2>2. at'[r] = "record" /\ \A q \in Requests \ {r} : at'[q] = at[q]
      BY <1>1, <2>1
    <2>3. TableInv'
      BY <1>1, <2>1, <2>2 DEF DockerIInv, TableInv, Ids, Inserted
    <2>4. BoundInv'
      BY <1>1, <1>2, <2>1, <2>2 DEF DockerIInv, BoundInv, Busy, Ids
    <2>5. Reshapes(r)
      BY <1>1, <2>1, <2>2 DEF Reshapes, Inserted
    <2>. QED  BY <2>3, <2>4, <2>5, ReshapesLemma
  <1>3. CASE r \in Ids(containers)
    <2>1. /\ at' = [at EXCEPT ![r] = "room"] /\ containers' = AtEnd(r)
          /\ changes' = IF containers[n] = r THEN changes ELSE changes + 1
      BY <1>3 DEF MoveToEnd
    <2>2. at'[r] = "room" /\ \A q \in Requests \ {r} : at'[q] = at[q]
      BY <1>1, <2>1
    <2>3. \A i, j \in 1..n : containers[i] = containers[j] => i = j
      BY DEF DockerIInv, TableInv
    <2>4. PICK place \in 1..n :
            /\ containers[place] = r
            /\ Len(containers') = n /\ containers' \in Seq(Requests)
            /\ \A i \in 1..(n - 1) : containers'[i] = containers[IF i < place THEN i ELSE i + 1]
            /\ containers'[n] = r
      BY <1>3, <2>1, <2>3, AtEndLemma DEF DockerIInv
    <2>5. DOMAIN containers' = 1..n
      BY <2>4
    <2>6. ASSUME NEW i \in 1..n
          PROVE  From(n, place, i) \in 1..n /\ containers'[i] = containers[From(n, place, i)]
      <3>1. CASE i = n
        BY <2>4, <3>1, FromLemma, <1>1 DEF From
      <3>2. CASE i # n
        <4>1. i \in 1..(n - 1) /\ From(n, place, i) = IF i < place THEN i ELSE i + 1
          <5>1. i \in 1..(n - 1)
            <6>1. n \in Nat
              BY <1>1
            <6>. HIDE DEF n
            <6>. QED  BY <3>2, <6>1
          <5>. QED  BY <3>2, <5>1, Zenon DEF From
        <4>. QED  BY <1>1, <2>4, <4>1, FromLemma
      <3>. QED  BY <3>1, <3>2
    <2>9. Ids(containers') = Ids(containers)
      <3>1. \A i \in 1..n : containers'[i] \in Ids(containers)
        BY <1>1, <2>6 DEF Ids
      <3>2. ASSUME NEW k \in 1..n PROVE containers[k] \in Ids(containers')
        <4>1. PICK i \in 1..n : From(n, place, i) = k
          BY <1>1, FromLemma
        <4>. QED  BY <2>5, <2>6, <4>1 DEF Ids
      <3>. QED  BY <1>1, <2>5, <3>1, <3>2 DEF Ids
    <2>10. TableInv'
      <3>1. \A i, j \in 1..n : containers'[i] = containers'[j] => i = j
        <4>1. \A i, j \in 1..n : From(n, place, i) = From(n, place, j) => i = j
          BY <1>1, FromLemma
        <4>. QED  BY <2>3, <2>6, <4>1
      <3>2. \A i \in 1..n : at'[containers[i]] \in Inserted
        <4>1. \A i \in 1..n : containers[i] \in Requests
          BY <1>1
        <4>. QED  BY <2>2, <4>1 DEF DockerIInv, TableInv, Inserted
      <3>3. \A i \in 1..n : at'[containers'[i]] \in Inserted
        BY <2>6, <3>2
      <3>4. \A q \in Requests : asks[q].kind = "create" /\ at'[q] \in Inserted => q \in Ids(containers') \cup evicted
        BY <1>1, <2>2, <2>9 DEF DockerIInv, TableInv, Inserted
      <3>. QED  BY <1>1, <2>4, <3>1, <3>3, <3>4 DEF TableInv, Ids
    <2>11. BoundInv'
      BY <2>2 DEF BoundInv, Busy
    <2>12. changes' = changes + 1 \/ UNCHANGED <<containers, changes>>
      <3>1. SUFFICES ASSUME containers[n] = r PROVE containers' = containers
        BY <2>1
      <3>2. place = n
        <4>1. n \in 1..n
          BY <1>1, <2>4
        <4>. QED  BY <2>3, <2>4, <3>1, <4>1
      <3>3. \A i \in 1..n : containers'[i] = containers[i]
        BY <1>1, <2>4, <3>2
      <3>. QED  BY <1>1, <2>4, <3>3
    <2>13. Reshapes(r)
      BY <1>1, <2>1, <2>2, <2>4, <2>12 DEF Reshapes, Inserted
    <2>. QED  BY <2>10, <2>11, <2>13, ReshapesLemma
  <1>. QED  BY <1>2, <1>3

-----------------------------------------------------------------------------
LEMMA DockerInvariance == DockerSpec => []DockerIInv
  <1>1. DockerIInv /\ [DockerNext]_dockerVars => DockerIInv'
    <2>. SUFFICES ASSUME DockerIInv, [DockerNext]_dockerVars PROVE DockerIInv'
      OBVIOUS
    <2>1. CASE UNCHANGED dockerVars
      BY <2>1 DEF dockerVars, DockerIInv, DockerTypeInv, AsksInv, TableInv, BoundInv, ScanInv, ScanSound, ToldInv,
         StartKnowsItsCreate, Created, Ids, Busy, Starts, Analysis
    <2>2. CASE DockerNext
      BY <2>2, ArriveLemma, InsertLemma, MoveToEndLemma, EvictLemma, RestLemma, ScanEndsLemma DEF DockerNext
    <2>. QED  BY <2>1, <2>2
  <1>. QED  BY <1>1, DockerInitLemma, PTL DEF DockerSpec

\* However many creates insert, reorder and evict at once and fail half-way,
\* no more than _CONT_MAX containers stay once they are through
\* (_register_container).
THEOREM BoundedTheorem == DockerSpec => []BoundedAtRest
  <1>1. DockerIInv => BoundedAtRest
    BY ContMaxAssumption DEF DockerIInv, DockerTypeInv, BoundInv, Busy, BoundedAtRest
  <1>. QED  BY <1>1, DockerInvariance, PTL

\* A reported start is tied to a container it named, with what was made of its
\* create, and to none only if all that it named have been evicted (_dispatch).
THEOREM StartKnowsTheorem == DockerSpec => []StartKnowsItsCreate
  <1>1. DockerIInv => StartKnowsItsCreate
    BY DEF DockerIInv
  <1>. QED  BY <1>1, DockerInvariance, PTL

-----------------------------------------------------------------------------
(* CanaryBeacon: any number of downloads, beacons and restarts             *)

Entries == [id : Nat, ip : IPs]
DownloadRecords == [ip : IPs, method : {"GET", "HEAD"}, life : Nat]

CanaryTypeInv ==
  /\ registry \in Seq(Entries)
  /\ downloads \in Seq(DownloadRecords)
  /\ serving \subseteq DOMAIN downloads
  /\ known \subseteq DOMAIN downloads
  /\ beacon = [b \in Beacons |-> beacon[b]]
  /\ life \in Nat
  /\ \A i \in DOMAIN downloads : downloads[i].life <= life

\* The table holds the last downloads of this life, all of them or DlMax.
Older == Len(downloads) - Len(registry)

RegistryInv ==
  /\ Len(registry) <= DlMax /\ Len(registry) <= Len(downloads)
  /\ \A i \in 1..Len(registry) :
       /\ registry[i] = [id |-> Older + i, ip |-> downloads[Older + i].ip]
       /\ downloads[Older + i].life = life
  /\ \A id \in 1..Older : downloads[id].life # life \/ Len(downloads) - id >= DlMax

\* A report in flight speaks of a file that was handed out.
ReportsInv ==
  \A b \in Beacons : beacon[b] # Idle =>
    /\ beacon[b].id \in 0..Len(downloads)
    /\ beacon[b].different => beacon[b].downloader # Nobody

CanaryIInv == CanaryTypeInv /\ RegistryInv /\ ReportsInv /\ AttributedOrForgotten

-----------------------------------------------------------------------------
LEMMA CanaryInitLemma == CanaryInit => CanaryIInv
  BY DlMaxAssumption DEF CanaryInit, CanaryIInv, CanaryTypeInv, RegistryInv, ReportsInv, Older,
     AttributedOrForgotten, Handled, Entries, DownloadRecords

\* The lengths are numbers, and the entries are where the invariant puts them.
LEMMA LengthsLemma ==
  ASSUME CanaryTypeInv, RegistryInv
  PROVE  /\ Len(registry) \in Nat /\ Len(downloads) \in Nat /\ Older \in Nat
         /\ Len(downloads) = Older + Len(registry) /\ Len(registry) <= DlMax
         /\ DOMAIN registry = 1..Len(registry) /\ DOMAIN downloads = 1..Len(downloads)
         /\ \A i \in 1..Len(registry) : registry[i].id = Older + i
         /\ \A i \in 1..Len(registry) : registry[i].ip = downloads[Older + i].ip
  <1>1. /\ Len(registry) \in Nat /\ Len(downloads) \in Nat
        /\ DOMAIN registry = 1..Len(registry) /\ DOMAIN downloads = 1..Len(downloads)
    BY DEF CanaryTypeInv
  <1>2. Len(registry) <= Len(downloads) /\ Len(registry) <= DlMax
    BY DEF RegistryInv
  <1>3. Older \in Nat /\ Len(downloads) = Older + Len(registry)
    BY <1>1, <1>2 DEF Older
  <1>4. ASSUME NEW i \in 1..Len(registry)
        PROVE  registry[i].id = Older + i /\ registry[i].ip = downloads[Older + i].ip
    <2>1. registry[i] = [id |-> Older + i, ip |-> downloads[Older + i].ip]
      BY DEF RegistryInv
    <2>. QED  BY <2>1
  <1>. QED  BY <1>1, <1>2, <1>3, <1>4

\* What the table says of an id that is out, or of 0.
LEMMA LookUpLemma ==
  ASSUME CanaryTypeInv, RegistryInv, NEW id \in 0..Len(downloads)
  PROVE  LookUp(id) = IF id <= Older THEN Nobody ELSE downloads[id].ip
  <1>. DEFINE hits == {i \in DOMAIN registry : registry[i].id = id}
  <1>1. CASE id <= Older
    <2>1. hits = {}
      BY <1>1, LengthsLemma
    <2>. QED  BY <1>1, <2>1 DEF LookUp
  <1>2. CASE id > Older
    <2>1. id - Older \in hits
      <3>. DEFINE k == id - Older
      <3>1. k \in 1..Len(registry) /\ Older + k = id
        BY <1>2, LengthsLemma
      <3>2. registry[k].id = Older + k
        BY <3>1, LengthsLemma
      <3>. QED  BY <3>1, <3>2, LengthsLemma
    <2>2. PICK i \in hits : i = CHOOSE j \in hits : TRUE
      BY <2>1
    <2>3. registry[i].ip = downloads[id].ip
      <3>1. i \in 1..Len(registry) /\ registry[i].id = id
        BY <2>2, LengthsLemma
      <3>2. Older + i = id /\ registry[i].ip = downloads[Older + i].ip
        BY <3>1, LengthsLemma
      <3>. QED  BY <3>2
    <2>4. LookUp(id) = registry[i].ip
      BY <2>1, <2>2 DEF LookUp
    <2>. QED  BY <1>2, <2>3, <2>4, LengthsLemma
  <1>. QED  BY <1>1, <1>2, LengthsLemma

\* An entry at the end: with room, or for the oldest one.
LEMMA RegisterLemma ==
  ASSUME NEW r \in Seq(Entries), NEW e \in Entries, Len(r) <= DlMax
  PROVE  /\ Register(r, e) \in Seq(Entries)
         /\ Len(r) < DlMax => /\ Len(Register(r, e)) = Len(r) + 1
                              /\ \A i \in 1..Len(r) : Register(r, e)[i] = r[i]
                              /\ Register(r, e)[Len(r) + 1] = e
         /\ Len(r) = DlMax => /\ Len(Register(r, e)) = DlMax
                              /\ \A i \in 1..(DlMax - 1) : Register(r, e)[i] = r[i + 1]
                              /\ Register(r, e)[DlMax] = e
  <1>1. CASE Len(r) < DlMax
    BY <1>1, DlMaxAssumption DEF Register
  <1>2. CASE Len(r) = DlMax
    <2>1. r # <<>> /\ Register(r, e) = Append(Tail(r), e)
      BY <1>2, DlMaxAssumption DEF Register
    <2>2. /\ Tail(r) \in Seq(Entries) /\ Len(Tail(r)) = DlMax - 1
          /\ \A i \in 1..(DlMax - 1) : Tail(r)[i] = r[i + 1]
      BY <1>2, <2>1, DlMaxAssumption
    <2>. QED  BY <1>2, <2>1, <2>2, DlMaxAssumption
  <1>. QED  BY <1>1, <1>2, DlMaxAssumption

LEMMA DownloadLemma ==
  ASSUME CanaryIInv, NEW ip \in IPs, NEW method \in {"GET", "HEAD"}, Download(ip, method)
  PROVE  CanaryIInv'
  <1>. DEFINE n == Len(downloads)
              m == Len(registry)
              new == [ip |-> ip, method |-> method, life |-> life]
              entry == [id |-> n + 1, ip |-> ip]
  <1>. USE DEF CanaryIInv
  <1>1. /\ n \in Nat /\ m \in Nat /\ m <= DlMax /\ Older \in Nat /\ n = Older + m
        /\ registry \in Seq(Entries) /\ downloads \in Seq(DownloadRecords)
    BY LengthsLemma DEF CanaryTypeInv
  <1>2. new \in DownloadRecords /\ entry \in Entries
    BY <1>1 DEF CanaryTypeInv, DownloadRecords, Entries
  <1>3. /\ downloads' = Append(downloads, new)
        /\ registry' = Register(registry, entry)
        /\ serving' = serving \cup {n + 1}
        /\ UNCHANGED <<known, beacon, life>>
    BY DEF Download
  <1>4. /\ downloads' \in Seq(DownloadRecords) /\ Len(downloads') = n + 1
        /\ \A i \in 1..n : downloads'[i] = downloads[i]
        /\ downloads'[n + 1] = new
        /\ DOMAIN downloads = 1..n /\ DOMAIN downloads' = 1..(n + 1)
    BY <1>1, <1>2, <1>3
  <1>5. registry' \in Seq(Entries)
    BY <1>1, <1>2, <1>3, RegisterLemma
  <1>6. CanaryTypeInv'
    BY <1>1, <1>3, <1>4, <1>5 DEF CanaryTypeInv
  <1>7. RegistryInv'
    <2>. HIDE DEF entry
    <2>1. entry.id = n + 1 /\ entry = [id |-> n + 1, ip |-> downloads'[n + 1].ip] /\ downloads'[n + 1].life = life
      BY <1>4 DEF entry
    <2>2. ASSUME NEW i \in 1..m
          PROVE  /\ registry[i] = [id |-> Older + i, ip |-> downloads'[Older + i].ip]
                 /\ downloads'[Older + i].life = life
      <3>1. /\ registry[i] = [id |-> Older + i, ip |-> downloads[Older + i].ip]
            /\ downloads[Older + i].life = life
        BY DEF RegistryInv
      <3>2. Older + i \in 1..n
        BY <1>1
      <3>. QED  BY <1>4, <3>1, <3>2
    <2>5. ASSUME NEW id \in 1..Older
          PROVE  downloads'[id].life # life \/ n + 1 - id >= DlMax
      <3>1. downloads[id].life # life \/ n - id >= DlMax
        BY DEF RegistryInv
      <3>2. id \in 1..n /\ id \in Nat
        BY <1>1
      <3>. QED  BY <1>1, <1>4, <3>1, <3>2, DlMaxAssumption
    <2>3. CASE m < DlMax
      <3>1. /\ Len(registry') = m + 1 /\ registry'[m + 1] = entry
            /\ \A i \in 1..m : registry'[i] = registry[i]
        BY <1>1, <1>2, <1>3, <2>3, RegisterLemma
      <3>2. Older' = Older
        BY <1>1, <1>4, <3>1 DEF Older
      <3>3. ASSUME NEW i \in 1..(m + 1)
            PROVE  /\ registry'[i] = [id |-> Older + i, ip |-> downloads'[Older + i].ip]
                   /\ downloads'[Older + i].life = life
        <4>1. CASE i \in 1..m
          BY <4>1, <2>2, <3>1
        <4>2. CASE i = m + 1
          <5>1. Older + i = n + 1
            BY <4>2, <1>1
          <5>. QED  BY <4>2, <5>1, <2>1, <3>1
        <4>. QED  BY <4>1, <4>2, <1>1
      <3>4. \A id \in 1..Older : downloads'[id].life # life \/ n + 1 - id >= DlMax
        BY <2>5
      <3>. QED  BY <1>1, <1>3, <1>4, <2>3, <3>1, <3>2, <3>3, <3>4, DlMaxAssumption DEF RegistryInv
    <2>4. CASE m = DlMax
      <3>1. /\ Len(registry') = m /\ registry'[m] = entry
            /\ \A i \in 1..(m - 1) : registry'[i] = registry[i + 1]
        BY <1>1, <1>2, <1>3, <2>4, RegisterLemma
      <3>2. Older' = Older + 1
        BY <1>1, <1>4, <3>1 DEF Older
      <3>3. ASSUME NEW i \in 1..m
            PROVE  /\ registry'[i] = [id |-> Older + 1 + i, ip |-> downloads'[Older + 1 + i].ip]
                   /\ downloads'[Older + 1 + i].life = life
        <4>1. CASE i \in 1..(m - 1)
          <5>. DEFINE j == i + 1
          <5>1. j \in 1..m /\ Older + 1 + i = Older + j
            BY <4>1, <1>1
          <5>2. /\ registry[j] = [id |-> Older + j, ip |-> downloads'[Older + j].ip]
                /\ downloads'[Older + j].life = life
            BY <5>1, <2>2
          <5>. QED  BY <4>1, <5>1, <5>2, <3>1
        <4>2. CASE i = m
          <5>1. Older + 1 + i = n + 1
            BY <4>2, <1>1
          <5>. QED  BY <4>2, <5>1, <2>1, <3>1
        <4>. QED  BY <4>1, <4>2, <1>1
      <3>4. ASSUME NEW id \in 1..(Older + 1)
            PROVE  downloads'[id].life # life \/ n + 1 - id >= DlMax
        <4>1. CASE id \in 1..Older
          BY <4>1, <2>5
        <4>2. CASE id = Older + 1
          BY <4>2, <1>1, <2>4, DlMaxAssumption
        <4>. QED  BY <4>1, <4>2, <1>1
      <3>. QED  BY <1>1, <1>3, <1>4, <2>4, <3>1, <3>2, <3>3, <3>4, DlMaxAssumption DEF RegistryInv
    <2>. QED  BY <1>1, <2>3, <2>4, DlMaxAssumption
  <1>8. ReportsInv'
    BY <1>1, <1>3, <1>4 DEF ReportsInv
  <1>9. AttributedOrForgotten'
    <2>1. Handled' = Handled
      BY <1>3 DEF Handled
    <2>2. ASSUME NEW r \in Handled
          PROVE  /\ r.downloader = IF Forgotten(r)' THEN Nobody ELSE downloads'[r.id].ip
                 /\ r.different => r.opener # downloads'[r.id].ip
      <3>1. /\ r.downloader = IF Forgotten(r) THEN Nobody ELSE downloads[r.id].ip
            /\ r.different => r.opener # downloads[r.id].ip
        BY DEF AttributedOrForgotten
      <3>2. r.id \in 0..n /\ (r.different => r.downloader # Nobody)
        BY DEF Handled, ReportsInv
      <3>3. CASE r.id = 0
        BY <3>1, <3>2, <3>3 DEF Forgotten
      <3>4. CASE r.id # 0
        <4>1. downloads'[r.id] = downloads[r.id]
          BY <1>1, <1>4, <3>2, <3>4
        <4>. QED  BY <3>1, <4>1 DEF Forgotten
      <3>. QED  BY <3>3, <3>4
    <2>. QED  BY <2>1, <2>2 DEF AttributedOrForgotten
  <1>. QED  BY <1>6, <1>7, <1>8, <1>9

LEMMA BeaconLemma ==
  ASSUME CanaryIInv, NEW b \in Beacons, NEW id \in known \cup {0}, NEW opener, NEW event, NEW header,
         BeaconArrives(b, id, opener, event, header)
  PROVE  CanaryIInv'
  <1>. DEFINE r == [id |-> id, opener |-> opener, event |-> event, header |-> header,
                    downloader |-> LookUp(id), different |-> LookUp(id) \notin {Nobody, opener},
                    life |-> life, since |-> Len(downloads) - id]
  <1>. USE DEF CanaryIInv
  <1>1. /\ UNCHANGED <<registry, downloads, serving, known, life>>
        /\ beacon' = [beacon EXCEPT ![b] = r]
    BY DEF BeaconArrives
  <1>2. id \in 0..Len(downloads)
    BY DEF CanaryTypeInv
  <1>3. \A c \in Beacons : beacon'[c] = IF c = b THEN r ELSE beacon[c]
    BY <1>1 DEF CanaryTypeInv
  <1>4. CanaryTypeInv' /\ RegistryInv'
    BY <1>1, <1>3 DEF CanaryTypeInv, RegistryInv, Older
  <1>5. ReportsInv'
    <2>1. r.id \in 0..Len(downloads) /\ (r.different => r.downloader # Nobody)
      BY <1>2
    <2>2. ASSUME NEW c \in Beacons, beacon'[c] # Idle
          PROVE  /\ beacon'[c].id \in 0..Len(downloads')
                 /\ beacon'[c].different => beacon'[c].downloader # Nobody
      <3>1. CASE c = b
        BY <1>1, <1>3, <2>1, <3>1
      <3>2. CASE c # b
        BY <1>1, <1>3, <2>2, <3>2 DEF ReportsInv
      <3>. QED  BY <3>1, <3>2
    <2>. QED  BY <2>2 DEF ReportsInv
  <1>6. LookUp(id) = IF Forgotten(r) THEN Nobody ELSE downloads[id].ip
    <2>1. LookUp(id) = IF id <= Older THEN Nobody ELSE downloads[id].ip
      BY <1>2, LookUpLemma
    <2>2. CASE id <= Older
      BY <1>2, <2>1, <2>2, DlMaxAssumption DEF Forgotten, CanaryTypeInv, RegistryInv, Older
    <2>3. CASE id > Older
      <3>1. id - Older \in 1..Len(registry) /\ Older + (id - Older) = id
        BY <1>2, <2>3 DEF CanaryTypeInv, RegistryInv, Older
      <3>2. downloads[id].life = life
        BY <3>1 DEF RegistryInv
      <3>. QED  BY <1>2, <2>1, <2>3, <3>1, <3>2, DlMaxAssumption DEF Forgotten, CanaryTypeInv, RegistryInv, Older
    <2>. QED  BY <1>2, <2>2, <2>3 DEF CanaryTypeInv, Older
  <1>7. r.different => r.opener # downloads[id].ip
    BY <1>6
  <1>8. \A q \in Handled' : q = r \/ q \in Handled
    BY <1>3 DEF Handled
  <1>9. AttributedOrForgotten'
    BY <1>1, <1>6, <1>7, <1>8 DEF AttributedOrForgotten, Forgotten
  <1>. QED  BY <1>4, <1>5, <1>9

\* Handing out, reporting and restarting.
LEMMA OtherStepsLemma ==
  ASSUME CanaryIInv,
         \/ \E id \in serving : HandOut(id)
         \/ \E b \in Beacons : ReportBeacon(b)
         \/ Restart
         \/ UNCHANGED canaryVars
  PROVE  CanaryIInv'
  <1>. USE DEF CanaryIInv
  <1>1. CASE \E id \in serving : HandOut(id)
    <2>1. PICK id \in serving : HandOut(id)
      BY <1>1
    <2>2. UNCHANGED <<registry, downloads, beacon, life>>
      BY <2>1 DEF HandOut
    <2>3. CanaryTypeInv'
      BY <2>1, <2>2 DEF HandOut, CanaryTypeInv
    <2>4. RegistryInv' /\ ReportsInv' /\ AttributedOrForgotten'
      BY <2>2 DEF RegistryInv, Older, ReportsInv, AttributedOrForgotten, Handled, Forgotten
    <2>. QED  BY <2>3, <2>4
  <1>2. CASE \E b \in Beacons : ReportBeacon(b)
    <2>1. PICK b \in Beacons : ReportBeacon(b)
      BY <1>2
    <2>2. /\ UNCHANGED <<registry, downloads, serving, known, life>>
          /\ beacon' = [beacon EXCEPT ![b] = Idle]
      BY <2>1 DEF ReportBeacon
    <2>3. \A c \in Beacons : beacon'[c] = IF c = b THEN Idle ELSE beacon[c]
      BY <2>2 DEF CanaryTypeInv
    <2>4. CanaryTypeInv'
      BY <2>2 DEF CanaryTypeInv
    <2>5. RegistryInv'
      BY <2>2 DEF RegistryInv, Older
    <2>6. ReportsInv'
      BY <2>2, <2>3 DEF ReportsInv
    <2>7. Handled' \subseteq Handled
      BY <2>3 DEF Handled
    <2>8. AttributedOrForgotten'
      BY <2>2, <2>7 DEF AttributedOrForgotten, Forgotten
    <2>. QED  BY <2>4, <2>5, <2>6, <2>8
  <1>3. CASE Restart
    <2>1. /\ registry' = <<>> /\ serving' = {}
          /\ life' = life + 1 /\ UNCHANGED <<downloads, known>>
          /\ beacon' = [b \in Beacons |-> Idle]
      BY <1>3 DEF Restart
    <2>2. CanaryTypeInv'
      <3>1. registry' \in Seq(Entries) /\ life' \in Nat
        BY <2>1 DEF CanaryTypeInv
      <3>2. \A i \in DOMAIN downloads : downloads[i].life <= life'
        <4>1. \A i \in DOMAIN downloads : downloads[i] \in DownloadRecords /\ downloads[i].life <= life
          BY DEF CanaryTypeInv
        <4>. QED  BY <2>1, <4>1 DEF CanaryTypeInv, DownloadRecords
      <3>3. beacon' = [b \in Beacons |-> beacon'[b]]
        BY <2>1
      <3>. QED  BY <2>1, <3>1, <3>2, <3>3 DEF CanaryTypeInv
    <2>3. RegistryInv'
      <3>1. Len(registry') = 0 /\ Older' = Len(downloads) /\ Len(downloads) \in Nat
        BY <2>1 DEF Older, CanaryTypeInv
      <3>2. \A id \in 1..Len(downloads) : downloads[id].life # life'
        BY <2>1 DEF CanaryTypeInv, DownloadRecords
      <3>. QED  BY <2>1, <3>1, <3>2, DlMaxAssumption DEF RegistryInv
    <2>4. \A b \in Beacons : beacon'[b] = Idle
      BY <2>1
    <2>5. ReportsInv' /\ AttributedOrForgotten'
      BY <2>4 DEF ReportsInv, AttributedOrForgotten, Handled
    <2>. QED  BY <2>2, <2>3, <2>5
  <1>4. CASE UNCHANGED canaryVars
    BY <1>4 DEF canaryVars, CanaryTypeInv, RegistryInv, ReportsInv, Older, AttributedOrForgotten, Handled, Forgotten
  <1>. QED  BY <1>1, <1>2, <1>3, <1>4

\* A beacon is attributed to the address that downloaded this very file, and
\* to nobody just if the id was never issued, was issued before the last
\* restart, or DlMax downloads or more have come since (_register_download,
\* _lookup_download, _beacon_intel).
THEOREM AttributionTheorem == CanarySpec => []AttributedOrForgotten
  <1>1. CanaryIInv /\ [CanaryNext]_canaryVars => CanaryIInv'
    <2>. SUFFICES ASSUME CanaryIInv, [CanaryNext]_canaryVars PROVE CanaryIInv'
      OBVIOUS
    <2>1. CASE \E ip \in IPs, method \in {"GET", "HEAD"} : Download(ip, method)
      BY <2>1, DownloadLemma
    <2>2. CASE \E b \in Beacons, id \in known \cup {0}, opener \in IPs :
                 \/ PixelBeacon(b, id, opener)
                 \/ \E header \in Headers : DavBeacon(b, id, opener, header)
      BY <2>2, BeaconLemma DEF PixelBeacon, DavBeacon
    <2>. QED  BY <2>1, <2>2, OtherStepsLemma DEF CanaryNext
  <1>2. CanaryIInv => AttributedOrForgotten
    BY DEF CanaryIInv
  <1>. QED  BY <1>1, <1>2, CanaryInitLemma, PTL DEF CanarySpec

-----------------------------------------------------------------------------
(* ConnectionTiming: any window and table, calls of any number of addresses *)

\* The calls of a stretch of time of one window's length, and those of it
\* before and after an instant, in a set of calls K with their times.
InWindow(K, times, a) == {k \in K : times[k] >= a /\ times[k] <= a + BurstWindow}
Since(K, times, t) == {k \in K : times[k] >= t}
Shortly(K, times, t) == {k \in K : times[k] < t /\ times[k] + BurstWindow >= t}

\* A burst of b calls began at t and the greatest one had m: the window in
\* front of a burst holds no more than the greatest burst, and so no window
\* more than twice as many.
Bursts(K, times, b, m, t) ==
  /\ b >= 1 /\ b <= m
  /\ Cardinality(Since(K, times, t)) = b
  /\ \A k \in K : times[k] <= t + BurstWindow
  /\ \E k \in K : times[k] = t
  /\ Cardinality(Shortly(K, times, t)) <= m
  /\ \A a \in Nat : Cardinality(InWindow(K, times, a)) <= 2 * m
  /\ \E k \in K : Cardinality(InWindow(K, times, times[k])) >= m

LEMMA BurstsDependOnTimes ==
  ASSUME NEW K, NEW times, NEW others, \A k \in K : times[k] = others[k],
         NEW b, NEW m, NEW t, Bursts(K, times, b, m, t)
  PROVE  Bursts(K, others, b, m, t)
  <1>1. /\ Since(K, times, t) = Since(K, others, t)
        /\ Shortly(K, times, t) = Shortly(K, others, t)
    BY DEF Since, Shortly
  <1>2. \A a : InWindow(K, times, a) = InWindow(K, others, a)
    BY DEF InWindow
  <1>3. \A a \in Nat : Cardinality(InWindow(K, others, a)) <= 2 * m
    BY <1>2 DEF Bursts
  <1>4. \E k \in K : Cardinality(InWindow(K, others, others[k])) >= m
    BY <1>2 DEF Bursts
  <1>5. \A k \in K : others[k] <= t + BurstWindow
    BY DEF Bursts
  <1>6. \E k \in K : others[k] = t
    BY DEF Bursts
  <1>. QED  BY <1>1, <1>3, <1>4, <1>5, <1>6 DEF Bursts

LEMMA Counting ==
  ASSUME NEW S, IsFiniteSet(S)
  PROVE  /\ \A T \in SUBSET S : IsFiniteSet(T) /\ Cardinality(T) \in Nat /\ Cardinality(T) <= Cardinality(S)
         /\ \A T \in SUBSET S : \A U \in SUBSET T : Cardinality(U) <= Cardinality(T)
         /\ \A T, U \in SUBSET S : Cardinality(T \union U) <= Cardinality(T) + Cardinality(U)
         /\ \A T \in SUBSET S : \A x : x \notin T => Cardinality(T \union {x}) = Cardinality(T) + 1
  <1>1. \A T \in SUBSET S : IsFiniteSet(T) /\ Cardinality(T) \in Nat /\ Cardinality(T) <= Cardinality(S)
    BY FS_Subset, FS_CardinalityType
  <1>2. \A T \in SUBSET S : \A U \in SUBSET T : Cardinality(U) <= Cardinality(T)
    BY <1>1, FS_Subset
  <1>3. ASSUME NEW T \in SUBSET S, NEW U \in SUBSET S
        PROVE  Cardinality(T \union U) <= Cardinality(T) + Cardinality(U)
    <2>1. IsFiniteSet(T) /\ IsFiniteSet(U)
      BY <1>1
    <2>2. Cardinality(T \union U) = Cardinality(T) + Cardinality(U) - Cardinality(T \intersect U)
      BY <2>1, FS_Union
    <2>3. T \intersect U \in SUBSET S
      OBVIOUS
    <2>4. Cardinality(T) \in Nat /\ Cardinality(U) \in Nat /\ Cardinality(T \intersect U) \in Nat
      BY <1>1, <2>3
    <2>. QED  BY <2>2, <2>4
  <1>4. ASSUME NEW T \in SUBSET S, NEW x, x \notin T PROVE Cardinality(T \union {x}) = Cardinality(T) + 1
    <2>1. IsFiniteSet(T)
      BY <1>1
    <2>. QED  BY <1>4, <2>1, FS_AddElement
  <1>. QED  BY <1>1, <1>2, <1>3, <1>4

\* The first call of an address.
LEMMA BurstOfOne ==
  ASSUME NEW n, NEW times, times[n] \in Nat
  PROVE  Bursts({n}, times, 1, 1, times[n])
  <1>0. BurstWindow \in Nat
    BY TimingAssumption
  <1> DEFINE K == {n}
             t == times[n]
  <1>1. Since(K, times, t) = {n} /\ InWindow(K, times, t) = {n}
    BY <1>0 DEF Since, InWindow
  <1>2. Shortly(K, times, t) = {}
    BY <1>0 DEF Shortly
  <1>3. Cardinality({n}) = 1 /\ IsFiniteSet({n}) /\ Cardinality({}) = 0
    BY FS_Singleton, FS_EmptySet
  <1>4. \A a \in Nat : Cardinality(InWindow(K, times, a)) <= 2
    <2> TAKE a \in Nat
    <2>1. InWindow(K, times, a) = {} \/ InWindow(K, times, a) = {n}
      BY DEF InWindow
    <2>. QED  BY <1>3, <2>1
  <1>5. 2 * 1 = 2 /\ 1 >= 1 /\ 1 <= 1 /\ 0 <= 1
    OBVIOUS
  <1>6. t <= t + BurstWindow
    BY <1>0
  <1>7. Cardinality(InWindow(K, times, times[n])) >= 1
    BY <1>1, <1>3
  <1>. QED  BY <1>1, <1>2, <1>3, <1>4, <1>5, <1>6, <1>7 DEF Bursts

\* A call in the window of the last burst: the burst has one more.
LEMMA BurstGoesOn ==
  ASSUME NEW K, IsFiniteSet(K), NEW n, n \notin K, NEW times \in [K \union {n} -> Nat],
         NEW b \in Nat, NEW m \in Nat, NEW t \in Nat, Bursts(K, times, b, m, t),
         times[n] >= t, times[n] <= t + BurstWindow,
         NEW m2 \in Nat, m2 >= m, m2 >= b + 1, m2 = m \/ m2 = b + 1
  PROVE  Bursts(K \union {n}, times, b + 1, m2, t)
  <1> DEFINE L == K \union {n}
  <1>0. /\ BurstWindow \in Nat /\ times[n] \in Nat /\ \A k \in K : times[k] \in Nat
    BY TimingAssumption
  <1>1. /\ b >= 1 /\ b <= m
        /\ Cardinality(Since(K, times, t)) = b
        /\ \A k \in K : times[k] <= t + BurstWindow
        /\ \E k \in K : times[k] = t
        /\ Cardinality(Shortly(K, times, t)) <= m
        /\ \A a \in Nat : Cardinality(InWindow(K, times, a)) <= 2 * m
        /\ \E k \in K : Cardinality(InWindow(K, times, times[k])) >= m
    BY DEF Bursts
  <1>2. IsFiniteSet(L)
    BY FS_AddElement
  <1>3. Since(L, times, t) = Since(K, times, t) \union {n} /\ n \notin Since(K, times, t)
    BY DEF Since
  <1>4. Shortly(L, times, t) = Shortly(K, times, t)
    BY <1>0 DEF Shortly
  <1>5. Cardinality(Since(L, times, t)) = b + 1
    <2>1. Since(K, times, t) \in SUBSET K
      BY DEF Since
    <2>. QED  BY <1>1, <1>3, <2>1, Counting
  <1>6. ASSUME NEW a \in Nat PROVE Cardinality(InWindow(L, times, a)) <= 2 * m2
    <2>0. InWindow(L, times, a) \in SUBSET L /\ Shortly(L, times, t) \in SUBSET L /\ Since(L, times, t) \in SUBSET L
      BY DEF InWindow, Shortly, Since
    <2>1. /\ Cardinality(InWindow(L, times, a)) \in Nat /\ Cardinality(Shortly(L, times, t)) \in Nat
      BY <1>2, <2>0, Counting
    <2>2. CASE a + BurstWindow >= t
      <3>1. InWindow(L, times, a) \subseteq Shortly(L, times, t) \union Since(L, times, t)
        <4> SUFFICES ASSUME NEW k \in L, times[k] >= a, times[k] <= a + BurstWindow, ~(times[k] >= t)
                     PROVE  times[k] < t /\ times[k] + BurstWindow >= t
          BY DEF InWindow, Shortly, Since
        <4>1. times[k] \in Nat
          BY <1>0
        <4>. QED  BY <1>0, <2>2, <4>1
      <3>2. Cardinality(InWindow(L, times, a)) <= Cardinality(Shortly(L, times, t) \union Since(L, times, t))
        <4>1. Shortly(L, times, t) \union Since(L, times, t) \in SUBSET L
          BY <2>0
        <4>. QED  BY <1>2, <3>1, <4>1, Counting
      <3>3. Cardinality(Shortly(L, times, t) \union Since(L, times, t))
               <= Cardinality(Shortly(L, times, t)) + Cardinality(Since(L, times, t))
        BY <1>2, <2>0, Counting
      <3>4. Cardinality(Shortly(L, times, t)) <= m
        BY <1>1, <1>4
      <3>5. Cardinality(Shortly(L, times, t) \union Since(L, times, t)) \in Nat
        <4>1. Shortly(L, times, t) \union Since(L, times, t) \in SUBSET L
          BY <2>0
        <4>. QED  BY <1>2, <4>1, Counting
      <3>. QED  BY <1>5, <2>1, <3>2, <3>3, <3>4, <3>5
    <2>3. CASE ~(a + BurstWindow >= t)
      <3>1. InWindow(L, times, a) = InWindow(K, times, a)
        <4>1. ~(times[n] <= a + BurstWindow)
          BY <1>0, <2>3
        <4>. QED  BY <4>1 DEF InWindow
      <3>2. Cardinality(InWindow(K, times, a)) <= 2 * m
        BY <1>1
      <3>. QED  BY <2>1, <3>1, <3>2
    <2>. QED  BY <2>2, <2>3
  <1>7. \E k \in L : Cardinality(InWindow(L, times, times[k])) >= m2
    <2>1. CASE m2 = m
      <3>1. PICK k \in K : Cardinality(InWindow(K, times, times[k])) >= m
        BY <1>1
      <3>2. /\ InWindow(K, times, times[k]) \subseteq InWindow(L, times, times[k])
            /\ InWindow(L, times, times[k]) \in SUBSET L
        BY DEF InWindow
      <3>3. /\ Cardinality(InWindow(K, times, times[k])) <= Cardinality(InWindow(L, times, times[k]))
            /\ Cardinality(InWindow(L, times, times[k])) \in Nat
            /\ Cardinality(InWindow(K, times, times[k])) \in Nat
        BY <1>2, <3>2, Counting
      <3>4. Cardinality(InWindow(L, times, times[k])) >= m2
        BY <2>1, <3>1, <3>3
      <3>. QED  BY <3>4
    <2>2. CASE m2 = b + 1
      <3>1. PICK k \in K : times[k] = t
        BY <1>1
      <3>2. Since(L, times, t) \subseteq InWindow(L, times, t) /\ InWindow(L, times, t) \in SUBSET L
        BY <1>1 DEF Since, InWindow
      <3>3. Cardinality(Since(L, times, t)) <= Cardinality(InWindow(L, times, t))
        BY <1>2, <3>2, Counting
      <3>4. Cardinality(InWindow(L, times, t)) \in Nat
        BY <1>2, <3>2, Counting
      <3>5. Cardinality(InWindow(L, times, t)) >= m2
        BY <1>5, <2>2, <3>3, <3>4
      <3>. QED  BY <3>1, <3>5
    <2>. QED  BY <2>1, <2>2
  <1>8. b + 1 >= 1 /\ b + 1 <= m2
    OBVIOUS
  <1>9. \A k \in L : times[k] <= t + BurstWindow
    BY <1>1
  <1>10. Cardinality(Shortly(L, times, t)) <= m2
    <2>1. Shortly(K, times, t) \in SUBSET K
      BY DEF Shortly
    <2>2. Cardinality(Shortly(K, times, t)) \in Nat
      BY <2>1, Counting
    <2>3. Cardinality(Shortly(K, times, t)) <= m
      BY <1>1
    <2>. QED  BY <1>4, <2>2, <2>3
  <1>11. \E k \in L : times[k] = t
    BY <1>1
  <1>. QED  BY <1>5, <1>6, <1>7, <1>8, <1>9, <1>10, <1>11 DEF Bursts

\* A call behind the window of the last burst begins another one.
LEMMA BurstBegins ==
  ASSUME NEW K, IsFiniteSet(K), NEW n, n \notin K, NEW times \in [K \union {n} -> Nat],
         NEW b \in Nat, NEW m \in Nat, NEW t \in Nat, Bursts(K, times, b, m, t),
         times[n] > t + BurstWindow
  PROVE  Bursts(K \union {n}, times, 1, m, times[n])
  <1> DEFINE L == K \union {n}
             u == times[n]
  <1>0. /\ BurstWindow \in Nat /\ u \in Nat /\ \A k \in K : times[k] \in Nat
        /\ u > t + BurstWindow
    BY TimingAssumption
  <1>1. /\ b >= 1 /\ b <= m
        /\ Cardinality(Since(K, times, t)) = b
        /\ \A k \in K : times[k] <= t + BurstWindow
        /\ \A a \in Nat : Cardinality(InWindow(K, times, a)) <= 2 * m
        /\ \E k \in K : Cardinality(InWindow(K, times, times[k])) >= m
    BY DEF Bursts
  <1>2. IsFiniteSet(L)
    BY FS_AddElement
  <1>3. \A k \in K : times[k] < u
    BY <1>0, <1>1
  <1>4. Since(L, times, u) = {n}
    BY <1>0, <1>3 DEF Since
  <1>5. Cardinality(Since(L, times, u)) = 1
    BY <1>4, FS_Singleton
  <1>6. Since(K, times, t) \in SUBSET L /\ Since(K, times, t) \in SUBSET K /\ n \notin Since(K, times, t)
    BY DEF Since
  <1>7. Cardinality(Shortly(L, times, u)) <= m
    <2>1. Shortly(L, times, u) \subseteq Since(K, times, t)
      <3> SUFFICES ASSUME NEW k \in L, times[k] < u, times[k] + BurstWindow >= u
                   PROVE  k \in K /\ times[k] >= t
        BY DEF Shortly, Since
      <3>1. k \in K /\ times[k] \in Nat
        BY <1>0
      <3>. QED  BY <1>0, <3>1
    <2>2. Cardinality(Shortly(L, times, u)) <= b
      BY <1>1, <1>2, <1>6, <2>1, Counting
    <2>3. Cardinality(Shortly(L, times, u)) \in Nat
      BY <1>2, <1>6, <2>1, Counting
    <2>. QED  BY <1>1, <2>2, <2>3
  <1>8. ASSUME NEW a \in Nat PROVE Cardinality(InWindow(L, times, a)) <= 2 * m
    <2>1. CASE u >= a /\ u <= a + BurstWindow
      <3>1. InWindow(L, times, a) \subseteq Since(K, times, t) \union {n}
        <4> SUFFICES ASSUME NEW k \in K, times[k] >= a PROVE times[k] >= t
          BY DEF InWindow, Since
        <4>1. times[k] \in Nat
          BY <1>0
        <4>. QED  BY <1>0, <2>1, <4>1
      <3>2. Cardinality(Since(K, times, t) \union {n}) = b + 1
        BY <1>1, <1>2, <1>6, Counting
      <3>3. Since(K, times, t) \union {n} \in SUBSET L
        BY <1>6
      <3>4. Cardinality(InWindow(L, times, a)) <= b + 1 /\ Cardinality(InWindow(L, times, a)) \in Nat
        <4>1. InWindow(L, times, a) \in SUBSET L
          BY DEF InWindow
        <4>2. Cardinality(InWindow(L, times, a)) <= Cardinality(Since(K, times, t) \union {n})
          BY <1>2, <3>1, <3>3, Counting
        <4>3. Cardinality(InWindow(L, times, a)) \in Nat
          BY <1>2, <4>1, Counting
        <4>. QED  BY <3>2, <4>2, <4>3
      <3>. QED  BY <1>1, <3>4
    <2>2. CASE ~(u >= a /\ u <= a + BurstWindow)
      <3>1. InWindow(L, times, a) = InWindow(K, times, a)
        BY <2>2 DEF InWindow
      <3>. QED  BY <1>1, <3>1
    <2>. QED  BY <2>1, <2>2
  <1>9. \E k \in L : Cardinality(InWindow(L, times, times[k])) >= m
    <2>1. PICK k \in K : Cardinality(InWindow(K, times, times[k])) >= m
      BY <1>1
    <2>2. /\ InWindow(K, times, times[k]) \subseteq InWindow(L, times, times[k])
          /\ InWindow(L, times, times[k]) \in SUBSET L
      BY DEF InWindow
    <2>3. /\ Cardinality(InWindow(K, times, times[k])) <= Cardinality(InWindow(L, times, times[k]))
          /\ Cardinality(InWindow(L, times, times[k])) \in Nat
          /\ Cardinality(InWindow(K, times, times[k])) \in Nat
      BY <1>2, <2>2, Counting
    <2>4. Cardinality(InWindow(L, times, times[k])) >= m
      BY <2>1, <2>3
    <2>. QED  BY <2>4
  <1>10. 1 >= 1 /\ 1 <= m
    BY <1>1
  <1>11. \A k \in L : times[k] <= u + BurstWindow
    <2> TAKE k \in L
    <2>1. times[k] \in Nat /\ times[k] <= u
      BY <1>0, <1>3
    <2>. QED  BY <1>0, <2>1
  <1>. QED  BY <1>5, <1>7, <1>8, <1>9, <1>10, <1>11 DEF Bursts

-----------------------------------------------------------------------------
(* Which calls a record counts                                             *)

CallRecords == [ip : Sources, at : Nat]
TimingRecords == [ip : Sources, count : Nat, burst : Nat, max : Nat, bursts : Nat, last : Nat]

CallsOf(cs, ip) == {k \in 1..Len(cs) : cs[k].ip = ip}
LastCalls(cs, ip, n) == {k \in CallsOf(cs, ip) : Cardinality({j \in CallsOf(cs, ip) : j >= k}) <= n}
TimesOf(cs) == [k \in 1..Len(cs) |-> cs[k].at]

LEMMA CallsAreFinite ==
  ASSUME NEW cs \in Seq(CallRecords), NEW ip
  PROVE  \A T \in SUBSET CallsOf(cs, ip) : IsFiniteSet(T) /\ Cardinality(T) \in Nat
  <1>1. 1 \in Int /\ Len(cs) \in Int
    OBVIOUS
  <1>2. IsFiniteSet(1..Len(cs))
    BY <1>1, FS_Interval
  <1>. QED  BY <1>2, Counting DEF CallsOf

LEMMA CallsAppended ==
  ASSUME NEW cs \in Seq(CallRecords), NEW c \in CallRecords
  PROVE  /\ Append(cs, c) \in Seq(CallRecords) /\ Len(cs) \in Nat /\ Len(Append(cs, c)) = Len(cs) + 1
         /\ \A k \in 1..Len(cs) : Append(cs, c)[k] = cs[k]
         /\ Append(cs, c)[Len(cs) + 1] = c
         /\ 1..(Len(cs) + 1) = (1..Len(cs)) \union {Len(cs) + 1}
         /\ Len(cs) + 1 \notin 1..Len(cs)
  OBVIOUS

LEMMA CallsOfOther ==
  ASSUME NEW cs \in Seq(CallRecords), NEW c \in CallRecords, NEW ip, c.ip # ip, NEW n
  PROVE  LastCalls(Append(cs, c), ip, n) = LastCalls(cs, ip, n)
  <1>1. CallsOf(Append(cs, c), ip) = CallsOf(cs, ip)
    BY CallsAppended DEF CallsOf
  <1>. QED  BY <1>1 DEF LastCalls

LEMMA CallsOfSame ==
  ASSUME NEW cs \in Seq(CallRecords), NEW c \in CallRecords, NEW n \in Nat
  PROVE  LastCalls(Append(cs, c), c.ip, n + 1) = LastCalls(cs, c.ip, n) \union {Len(cs) + 1}
  <1> DEFINE old == CallsOf(cs, c.ip)
             new == CallsOf(Append(cs, c), c.ip)
             l == Len(cs) + 1
  <1>1. new = old \union {l} /\ l \notin old
    BY CallsAppended DEF CallsOf
  <1>2. /\ \A k \in old : k \in Nat /\ k < l
        /\ l \in Nat
    BY CallsAppended DEF CallsOf
  <1>3. \A k \in old : {j \in old : j >= k} \in SUBSET old
    OBVIOUS
  <1>4. \A k \in old : IsFiniteSet({j \in old : j >= k}) /\ Cardinality({j \in old : j >= k}) \in Nat
    BY <1>3, CallsAreFinite
  <1> HIDE DEF old, new, l
  <1>5. ASSUME NEW k \in old
        PROVE  Cardinality({j \in new : j >= k}) = Cardinality({j \in old : j >= k}) + 1
    <2>1. {j \in new : j >= k} = {j \in old : j >= k} \union {l} /\ l \notin {j \in old : j >= k}
      BY <1>1, <1>2
    <2>. QED  BY <1>4, <2>1, FS_AddElement
  <1>6. Cardinality({j \in new : j >= l}) = 1
    <2>1. {j \in new : j >= l} = {l}
      BY <1>1, <1>2
    <2>. QED  BY <2>1, FS_Singleton
  <1>7. ASSUME NEW k \in old
        PROVE  Cardinality({j \in new : j >= k}) <= n + 1 <=> Cardinality({j \in old : j >= k}) <= n
    <2>1. Cardinality({j \in old : j >= k}) \in Nat
      BY <1>4
    <2>. QED  BY <1>5, <2>1
  <1>8. 1 <= n + 1
    OBVIOUS
  <1>9. {k \in new : Cardinality({j \in new : j >= k}) <= n + 1}
          = {k \in old : Cardinality({j \in old : j >= k}) <= n} \union {l}
    BY <1>1, <1>6, <1>7, <1>8
  <1>. QED  BY <1>9 DEF LastCalls, old, new, l

LEMMA NoCallsOfNone ==
  ASSUME NEW cs \in Seq(CallRecords), NEW ip
  PROVE  LastCalls(cs, ip, 0) = {}
  <1> SUFFICES ASSUME NEW k \in LastCalls(cs, ip, 0) PROVE FALSE
    OBVIOUS
  <1> DEFINE T == {j \in CallsOf(cs, ip) : j >= k}
  <1>1. k \in CallsOf(cs, ip) /\ Cardinality(T) <= 0
    BY DEF LastCalls
  <1>2. k \in Nat
    BY <1>1 DEF CallsOf
  <1>3. k \in T /\ T \in SUBSET CallsOf(cs, ip)
    BY <1>1, <1>2
  <1> HIDE DEF T
  <1>4. IsFiniteSet(T) /\ Cardinality(T) \in Nat
    BY <1>3, CallsAreFinite
  <1>5. Cardinality(T) = 0
    BY <1>1, <1>4
  <1>. QED  BY <1>3, <1>4, <1>5, FS_EmptySet

-----------------------------------------------------------------------------
(* The table                                                               *)

TimingTypeInv ==
  /\ timing \in Seq(TimingRecords)
  /\ clock \in Nat
  /\ calls \in Seq(CallRecords)
  /\ \A k \in 1..Len(calls) : calls[k].at <= clock

RecordInv(r, cs) == Bursts(LastCalls(cs, r.ip, r.count), TimesOf(cs), r.burst, r.max, r.last)

OneEach(t) == \A i, j \in 1..Len(t) : t[i].ip = t[j].ip => i = j

TimingInv ==
  /\ TimingTypeInv
  /\ Len(timing) <= TimingMax
  /\ OneEach(timing)
  /\ \A i \in 1..Len(timing) : RecordInv(timing[i], calls)

\* The record of another address says what it said.
LEMMA RecordOfOther ==
  ASSUME NEW cs \in Seq(CallRecords), NEW c \in CallRecords, NEW r \in TimingRecords, r.ip # c.ip,
         RecordInv(r, cs)
  PROVE  RecordInv(r, Append(cs, c))
  <1>1. LastCalls(Append(cs, c), r.ip, r.count) = LastCalls(cs, r.ip, r.count)
    BY CallsOfOther
  <1>2. LastCalls(cs, r.ip, r.count) \subseteq 1..Len(cs)
    BY DEF LastCalls, CallsOf
  <1>3. \A k \in LastCalls(cs, r.ip, r.count) : TimesOf(cs)[k] = TimesOf(Append(cs, c))[k]
    BY <1>2, CallsAppended DEF TimesOf
  <1>. QED  BY <1>1, <1>3, BurstsDependOnTimes DEF RecordInv

LEMMA RecordOfSame ==
  ASSUME TimingTypeInv, NEW ip \in Sources, NEW r \in TimingRecords, r.ip = ip, RecordInv(r, calls)
  PROVE  /\ Counted(r) \in TimingRecords /\ Counted(r).ip = ip
         /\ RecordInv(Counted(r), Append(calls, [ip |-> ip, at |-> clock]))
  <1> DEFINE c == [ip |-> ip, at |-> clock]
             cs == Append(calls, c)
             n == Len(calls) + 1
             K == LastCalls(calls, ip, r.count)
             times == TimesOf(cs)
  <1>0. /\ clock \in Nat /\ calls \in Seq(CallRecords) /\ c \in CallRecords /\ c.ip = ip
        /\ r.count \in Nat /\ r.burst \in Nat /\ r.max \in Nat /\ r.last \in Nat /\ r.bursts \in Nat
        /\ BurstWindow \in Nat
    BY TimingAssumption DEF TimingTypeInv, CallRecords, TimingRecords
  <1>1. cs \in Seq(CallRecords) /\ Len(cs) = n /\ n \notin 1..Len(calls) /\ cs[n] = c
        /\ 1..n = (1..Len(calls)) \union {n} /\ n \in 1..n
    BY <1>0, CallsAppended
  <1> HIDE DEF cs
  <1>2. K \subseteq 1..Len(calls) /\ K \subseteq CallsOf(calls, ip)
    BY DEF LastCalls, CallsOf
  <1>3. IsFiniteSet(K) /\ n \notin K
    BY <1>0, <1>1, <1>2, CallsAreFinite
  <1>4. \A k \in 1..n : times[k] = cs[k].at /\ cs[k].at \in Nat
    <2> TAKE k \in 1..n
    <2>1. cs[k] \in CallRecords
      BY <1>1
    <2>2. times[k] = cs[k].at
      BY <1>1 DEF TimesOf
    <2>. QED  BY <2>1, <2>2 DEF CallRecords
  <1>5. times[n] = clock
    BY <1>1, <1>4
  <1>6. [k \in K \union {n} |-> times[k]] \in [K \union {n} -> Nat]
    BY <1>1, <1>2, <1>4
  <1> DEFINE tt == [k \in K \union {n} |-> times[k]]
  <1>7. /\ tt[n] = clock /\ \A k \in K \union {n} : tt[k] = times[k]
    BY <1>5
  <1>8. \A k \in K : TimesOf(calls)[k] = tt[k]
    <2> TAKE k \in K
    <2>1. k \in 1..Len(calls) /\ k \in 1..n
      BY <1>1, <1>2
    <2>2. TimesOf(calls)[k] = calls[k].at /\ times[k] = cs[k].at /\ cs[k] = calls[k]
      BY <1>0, <1>4, <2>1, CallsAppended DEF TimesOf, cs
    <2>. QED  BY <1>7, <2>2
  <1> HIDE DEF tt, times, K
  <1>9. Bursts(K, tt, r.burst, r.max, r.last)
    <2>1. Bursts(K, TimesOf(calls), r.burst, r.max, r.last)
      BY DEF RecordInv, K
    <2>. QED  BY <1>8, <2>1, BurstsDependOnTimes
  <1>10. LastCalls(cs, ip, r.count + 1) = K \union {n}
    BY <1>0, CallsOfSame DEF K, cs
  <1>11. clock >= r.last
    <2>1. PICK k \in K : tt[k] = r.last
      BY <1>9 DEF Bursts
    <2>2. k \in 1..Len(calls) /\ TimesOf(calls)[k] = r.last
      BY <1>2, <1>8, <2>1
    <2>3. calls[k].at = r.last /\ calls[k].at <= clock
      BY <2>2 DEF TimesOf, TimingTypeInv
    <2>. QED  BY <1>0, <2>3
  <1>12. CASE clock - r.last <= BurstWindow
    <2> DEFINE m2 == IF r.burst + 1 > r.max THEN r.burst + 1 ELSE r.max
    <2>1. Counted(r) = [r EXCEPT !.count = r.count + 1, !.burst = r.burst + 1, !.max = m2]
      BY <1>12 DEF Counted
    <2>2. Counted(r) = [ip |-> ip, count |-> r.count + 1, burst |-> r.burst + 1, max |-> m2,
                        bursts |-> r.bursts, last |-> r.last]
      BY <2>1 DEF TimingRecords
    <2>3. m2 \in Nat /\ m2 >= r.max /\ m2 >= r.burst + 1 /\ (m2 = r.max \/ m2 = r.burst + 1)
      BY <1>0
    <2>4. clock <= r.last + BurstWindow
      BY <1>0, <1>12
    <2> HIDE DEF m2
    <2>5. Bursts(K \union {n}, tt, r.burst + 1, m2, r.last)
      BY <1>0, <1>3, <1>6, <1>7, <1>9, <1>11, <2>3, <2>4, BurstGoesOn DEF tt
    <2>6. Bursts(K \union {n}, times, r.burst + 1, m2, r.last)
      BY <1>7, <2>5, BurstsDependOnTimes
    <2>7. Counted(r) \in TimingRecords
      <3>1. r.count + 1 \in Nat /\ r.burst + 1 \in Nat
        BY <1>0
      <3>. QED  BY <1>0, <2>2, <2>3, <3>1 DEF TimingRecords
    <2>8. /\ Counted(r).ip = ip /\ Counted(r).count = r.count + 1 /\ Counted(r).burst = r.burst + 1
          /\ Counted(r).max = m2 /\ Counted(r).last = r.last
      BY <2>2
    <2>9. RecordInv(Counted(r), cs)
      BY <1>10, <2>6, <2>8 DEF RecordInv, times
    <2>. QED  BY <2>7, <2>8, <2>9 DEF cs
  <1>13. CASE ~(clock - r.last <= BurstWindow)
    <2> DEFINE b2 == IF r.burst > 1 THEN r.bursts + 1 ELSE r.bursts
    <2>1. Counted(r) = [r EXCEPT !.count = r.count + 1, !.burst = 1, !.last = clock, !.bursts = b2]
      BY <1>13 DEF Counted
    <2>2. Counted(r) = [ip |-> ip, count |-> r.count + 1, burst |-> 1, max |-> r.max,
                        bursts |-> b2, last |-> clock]
      BY <2>1 DEF TimingRecords
    <2>3. b2 \in Nat
      BY <1>0
    <2>4. clock > r.last + BurstWindow
      BY <1>0, <1>13
    <2> HIDE DEF b2
    <2>5. Bursts(K \union {n}, tt, 1, r.max, clock)
      BY <1>0, <1>3, <1>6, <1>7, <1>9, <2>4, BurstBegins DEF tt
    <2>6. Bursts(K \union {n}, times, 1, r.max, clock)
      BY <1>7, <2>5, BurstsDependOnTimes
    <2>7. Counted(r) \in TimingRecords
      <3>1. r.count + 1 \in Nat /\ 1 \in Nat
        BY <1>0
      <3>. QED  BY <1>0, <2>2, <2>3, <3>1 DEF TimingRecords
    <2>8. /\ Counted(r).ip = ip /\ Counted(r).count = r.count + 1 /\ Counted(r).burst = 1
          /\ Counted(r).max = r.max /\ Counted(r).last = clock
      BY <2>2
    <2>9. RecordInv(Counted(r), cs)
      BY <1>10, <2>6, <2>8 DEF RecordInv, times
    <2>. QED  BY <2>7, <2>8, <2>9 DEF cs
  <1>. QED  BY <1>12, <1>13

LEMMA RecordOfNew ==
  ASSUME TimingTypeInv, NEW ip \in Sources
  PROVE  /\ NewRecord(ip) \in TimingRecords /\ NewRecord(ip).ip = ip
         /\ RecordInv(NewRecord(ip), Append(calls, [ip |-> ip, at |-> clock]))
  <1> DEFINE c == [ip |-> ip, at |-> clock]
             cs == Append(calls, c)
             n == Len(calls) + 1
  <1>0. clock \in Nat /\ calls \in Seq(CallRecords) /\ c \in CallRecords /\ c.ip = ip
    BY DEF TimingTypeInv, CallRecords
  <1>1. NewRecord(ip) \in TimingRecords /\ NewRecord(ip).ip = ip
    BY <1>0 DEF NewRecord, TimingRecords
  <1>2. Len(cs) = n /\ cs[n] = c /\ n \in 1..n
    BY <1>0, CallsAppended
  <1>3. TimesOf(cs)[n] = clock
    BY <1>2 DEF TimesOf
  <1>4. LastCalls(cs, ip, 0 + 1) = LastCalls(calls, ip, 0) \union {n}
    BY <1>0, CallsOfSame
  <1>5. LastCalls(cs, ip, 1) = {n}
    BY <1>0, <1>4, NoCallsOfNone
  <1> HIDE DEF cs, n
  <1>6. Bursts({n}, TimesOf(cs), 1, 1, clock)
    BY <1>0, <1>3, BurstOfOne
  <1>7. RecordInv(NewRecord(ip), cs)
    BY <1>5, <1>6 DEF RecordInv, NewRecord
  <1>. QED  BY <1>1, <1>7 DEF cs

LEMMA FirstDropped ==
  ASSUME NEW t \in Seq(TimingRecords), Len(t) # 0
  PROVE  /\ Tail(t) \in Seq(TimingRecords) /\ Len(Tail(t)) = Len(t) - 1 /\ Len(t) \in Nat
         /\ \A i \in 1..Len(Tail(t)) : Tail(t)[i] = t[i + 1] /\ i + 1 \in 1..Len(t) /\ i \in Nat
  OBVIOUS

LEMMA RecordAppended ==
  ASSUME NEW t \in Seq(TimingRecords), NEW r \in TimingRecords
  PROVE  /\ Append(t, r) \in Seq(TimingRecords) /\ Len(Append(t, r)) = Len(t) + 1 /\ Len(t) \in Nat
         /\ \A i \in 1..Len(t) : Append(t, r)[i] = t[i]
         /\ Append(t, r)[Len(t) + 1] = r
         /\ 1..(Len(t) + 1) = (1..Len(t)) \union {Len(t) + 1}
         /\ Len(t) + 1 \notin 1..Len(t)
  OBVIOUS

\* The table with one more address, the first one dropped when it is full.
LEMMA BoundedTable ==
  ASSUME NEW t \in Seq(TimingRecords), NEW r \in TimingRecords, NEW cs, Len(t) <= TimingMax, OneEach(t),
         \A i \in 1..Len(t) : t[i].ip # r.ip /\ RecordInv(t[i], cs), RecordInv(r, cs)
  PROVE  /\ Bounded(Append(t, r)) \in Seq(TimingRecords) /\ Len(Bounded(Append(t, r))) <= TimingMax
         /\ OneEach(Bounded(Append(t, r)))
         /\ \A i \in 1..Len(Bounded(Append(t, r))) : RecordInv(Bounded(Append(t, r))[i], cs)
  <1> DEFINE a == Append(t, r)
  <1>1. /\ a \in Seq(TimingRecords) /\ Len(a) = Len(t) + 1 /\ Len(t) \in Nat
        /\ \A i \in 1..Len(t) : a[i] = t[i]
        /\ a[Len(t) + 1] = r
        /\ 1..Len(a) = (1..Len(t)) \union {Len(t) + 1}
    BY RecordAppended
  <1> HIDE DEF a
  <1>2. \A i \in 1..Len(a) : RecordInv(a[i], cs)
    BY <1>1
  <1>3. OneEach(a)
    <2> SUFFICES ASSUME NEW i \in 1..Len(a), NEW j \in 1..Len(a), a[i].ip = a[j].ip PROVE i = j
      BY DEF OneEach
    <2>1. CASE i \in 1..Len(t) /\ j \in 1..Len(t)
      BY <1>1, <2>1 DEF OneEach
    <2>2. CASE i \notin 1..Len(t) /\ j \notin 1..Len(t)
      BY <1>1, <2>2
    <2>3. CASE i \in 1..Len(t) /\ j \notin 1..Len(t)
      BY <1>1, <2>3
    <2>4. CASE i \notin 1..Len(t) /\ j \in 1..Len(t)
      BY <1>1, <2>4
    <2>. QED  BY <2>1, <2>2, <2>3, <2>4
  <1>4. TimingMax \in Nat
    BY TimingAssumption
  <1>5. CASE ~(Len(a) > TimingMax)
    <2>1. Bounded(a) = a /\ Len(a) <= TimingMax
      BY <1>1, <1>4, <1>5 DEF Bounded
    <2>. QED  BY <1>1, <1>2, <1>3, <2>1 DEF a
  <1>6. CASE Len(a) > TimingMax
    <2>1. Bounded(a) = Tail(a)
      BY <1>6 DEF Bounded
    <2>2. Len(a) # 0
      BY <1>1
    <2>3. /\ Tail(a) \in Seq(TimingRecords) /\ Len(Tail(a)) = Len(a) - 1
          /\ \A i \in 1..Len(Tail(a)) : Tail(a)[i] = a[i + 1] /\ i + 1 \in 1..Len(a) /\ i \in Nat
      BY <1>1, <2>2, FirstDropped
    <2>4. Len(Tail(a)) <= TimingMax
      BY <1>1, <1>4, <2>3
    <2>5. OneEach(Tail(a))
      <3> SUFFICES ASSUME NEW i \in 1..Len(Tail(a)), NEW j \in 1..Len(Tail(a)), Tail(a)[i].ip = Tail(a)[j].ip
                   PROVE  i = j
        BY DEF OneEach
      <3>1. i + 1 = j + 1
        BY <1>3, <2>3 DEF OneEach
      <3>2. i \in Nat /\ j \in Nat
        BY <2>3
      <3>. QED  BY <3>1, <3>2
    <2>6. \A i \in 1..Len(Tail(a)) : RecordInv(Tail(a)[i], cs)
      BY <1>2, <2>3
    <2>. QED  BY <2>1, <2>3, <2>4, <2>5, <2>6 DEF a
  <1>. QED  BY <1>5, <1>6

LEMMA RecordConnectionKeeps ==
  ASSUME TimingInv, NEW ip \in Sources, RecordConnection(ip)
  PROVE  TimingInv'
  <1> DEFINE c == [ip |-> ip, at |-> clock]
  <1>0. /\ timing \in Seq(TimingRecords) /\ clock \in Nat /\ calls \in Seq(CallRecords) /\ c \in CallRecords
        /\ c.ip = ip /\ c.at = clock /\ Len(timing) \in Nat /\ DOMAIN timing = 1..Len(timing)
    BY DEF TimingInv, TimingTypeInv, CallRecords
  <1>1. calls' = Append(calls, c) /\ clock' = clock
    BY DEF RecordConnection
  <1>2. /\ calls' \in Seq(CallRecords)
        /\ \A k \in 1..Len(calls') : calls'[k].at <= clock
    <2>1. /\ calls' \in Seq(CallRecords) /\ Len(calls') = Len(calls) + 1
          /\ \A k \in 1..Len(calls) : calls'[k] = calls[k]
          /\ calls'[Len(calls) + 1] = c
          /\ 1..(Len(calls) + 1) = (1..Len(calls)) \union {Len(calls) + 1}
      BY <1>0, <1>1, CallsAppended
    <2>2. clock <= clock
      BY <1>0
    <2>. QED  BY <1>0, <2>1, <2>2 DEF TimingInv, TimingTypeInv
  <1>3. \A i \in 1..Len(timing) : RecordInv(timing[i], calls) /\ timing[i] \in TimingRecords
    BY <1>0 DEF TimingInv
  <1>4. \A i \in 1..Len(timing) : timing[i].ip # ip => RecordInv(timing[i], calls')
    BY <1>0, <1>1, <1>3, RecordOfOther
  <1>5. TimingTypeInv /\ Len(timing) <= TimingMax /\ OneEach(timing)
    BY DEF TimingInv
  <1> HIDE DEF c
  <1>6. CASE Index(ip) = {}
    <2>1. timing' = Bounded(Append(timing, NewRecord(ip)))
      BY <1>6 DEF RecordConnection
    <2>2. \A i \in 1..Len(timing) : timing[i].ip # ip
      BY <1>0, <1>6 DEF Index
    <2>3. NewRecord(ip) \in TimingRecords /\ NewRecord(ip).ip = ip /\ RecordInv(NewRecord(ip), calls')
      BY <1>1, <1>5, RecordOfNew DEF c
    <2>4. /\ timing' \in Seq(TimingRecords) /\ Len(timing') <= TimingMax /\ OneEach(timing')
          /\ \A i \in 1..Len(timing') : RecordInv(timing'[i], calls')
      BY <1>0, <1>4, <1>5, <2>1, <2>2, <2>3, BoundedTable
    <2>. QED  BY <1>0, <1>1, <1>2, <2>4 DEF TimingInv, TimingTypeInv, RecordInv, OneEach
  <1>7. CASE Index(ip) # {}
    <2>1. timing' = [i \in 1..Len(timing) |-> IF i \in Index(ip) THEN Counted(timing[i]) ELSE timing[i]]
      BY <1>0, <1>7 DEF RecordConnection
    <2>2. ASSUME NEW i \in 1..Len(timing)
          PROVE  timing'[i] \in TimingRecords /\ timing'[i].ip = timing[i].ip /\ RecordInv(timing'[i], calls')
      <3>1. CASE i \in Index(ip)
        <4>1. timing'[i] = Counted(timing[i]) /\ timing[i].ip = ip
          BY <1>0, <2>1, <3>1 DEF Index
        <4>. QED  BY <1>1, <1>3, <1>5, <4>1, RecordOfSame DEF c
      <3>2. CASE i \notin Index(ip)
        <4>1. timing'[i] = timing[i] /\ timing[i].ip # ip
          BY <1>0, <2>1, <3>2 DEF Index
        <4>. QED  BY <1>3, <1>4, <4>1
      <3>. QED  BY <3>1, <3>2
    <2>3. timing' \in Seq(TimingRecords) /\ Len(timing') = Len(timing)
      <3>1. timing' \in [1..Len(timing) -> TimingRecords]
        BY <2>1, <2>2
      <3>. QED  BY <1>0, <3>1
    <2>4. OneEach(timing')
      BY <1>5, <2>2, <2>3 DEF OneEach
    <2>. QED  BY <1>0, <1>1, <1>2, <1>5, <2>2, <2>3, <2>4 DEF TimingInv, TimingTypeInv, RecordInv, OneEach
  <1>. QED  BY <1>6, <1>7

LEMMA PassesKeeps ==
  ASSUME TimingInv, Passes(1)
  PROVE  TimingInv'
  <1>1. clock' = clock + 1 /\ timing' = timing /\ calls' = calls /\ clock \in Nat
    BY DEF Passes, TimingInv, TimingTypeInv
  <1>2. ASSUME NEW k \in 1..Len(calls) PROVE calls[k].at <= clock'
    <2>1. calls[k] \in CallRecords /\ calls[k].at <= clock
      BY DEF TimingInv, TimingTypeInv
    <2>2. calls[k].at \in Nat
      BY <2>1 DEF CallRecords
    <2>. QED  BY <1>1, <2>1, <2>2
  <1>3. clock' \in Nat
    BY <1>1
  <1>. QED  BY <1>1, <1>2, <1>3 DEF TimingInv, TimingTypeInv, RecordInv

LEMMA TimingInductive == TimingInv /\ [TimingNext]_timingVars => TimingInv'
  <1>1. ASSUME TimingInv, UNCHANGED timingVars PROVE TimingInv'
    BY <1>1 DEF timingVars, TimingInv, TimingTypeInv, RecordInv
  <1>. QED  BY <1>1, RecordConnectionKeeps, PassesKeeps DEF TimingNext

LEMMA TimingStart == TimingInit => TimingInv
  <1> SUFFICES ASSUME TimingInit PROVE TimingInv
    OBVIOUS
  <1>1. <<>> \in Seq(TimingRecords) /\ <<>> \in Seq(CallRecords) /\ Len(<<>>) = 0 /\ 0 \in Nat /\ 1..0 = {}
    OBVIOUS
  <1>2. 0 <= TimingMax
    BY TimingAssumption
  <1>. QED  BY <1>1, <1>2 DEF TimingInit, TimingInv, TimingTypeInv, OneEach

\* An address each, so as many addresses as records.
LEMMA AddressesCounted ==
  ASSUME NEW t \in Seq(TimingRecords), OneEach(t)
  PROVE  Cardinality({t[i].ip : i \in DOMAIN t}) = Len(t)
  <1> DEFINE T == {t[i].ip : i \in DOMAIN t}
             f == [i \in 1..Len(t) |-> t[i].ip]
  <1>0. Len(t) \in Nat /\ DOMAIN t = 1..Len(t)
    OBVIOUS
  <1>1. f \in [1..Len(t) -> T] /\ \A x \in T : \E i \in 1..Len(t) : f[i] = x
    BY <1>0
  <1>2. \A i, j \in 1..Len(t) : f[i] = f[j] => i = j
    BY DEF OneEach
  <1> HIDE DEF f, T
  <1>3. f \in Bijection(1..Len(t), T)
    BY <1>1, <1>2 DEF Bijection, Injection, Surjection, IsInjective
  <1>4. ExistsBijection(1..Len(t), T)
    BY <1>3 DEF ExistsBijection
  <1>5. Cardinality(T) = Len(t)
    BY <1>0, <1>4, FS_CountingElements
  <1>. QED  BY <1>5 DEF T

LEMMA TimingImplies == TimingInv => BurstsWithinFactorTwo
  <1> SUFFICES ASSUME TimingInv PROVE BurstsWithinFactorTwo
    OBVIOUS
  <1>0. timing \in Seq(TimingRecords) /\ calls \in Seq(CallRecords) /\ DOMAIN calls = 1..Len(calls)
        /\ DOMAIN timing = 1..Len(timing)
    BY DEF TimingInv, TimingTypeInv
  <1>1. ASSUME NEW i \in DOMAIN timing
        PROVE  /\ \E k \in Remembered(timing[i]) : Within(timing[i], calls[k].at) >= timing[i].max
               /\ \A k \in Remembered(timing[i]) : Within(timing[i], calls[k].at) <= 2 * timing[i].max
    <2> DEFINE r == timing[i]
               K == LastCalls(calls, r.ip, r.count)
               times == TimesOf(calls)
    <2>1. Bursts(K, times, r.burst, r.max, r.last)
      BY <1>0 DEF TimingInv, RecordInv
    <2>2. Remembered(r) = K
      BY <1>0 DEF Remembered, LastCalls, CallsOf
    <2>3. \A k \in K : times[k] = calls[k].at /\ calls[k].at \in Nat
      <3> TAKE k \in K
      <3>1. k \in 1..Len(calls)
        BY DEF LastCalls, CallsOf
      <3>2. calls[k] \in CallRecords
        BY <1>0, <3>1
      <3>. QED  BY <3>1, <3>2 DEF TimesOf, CallRecords
    <2> HIDE DEF K, times
    <2>4. ASSUME NEW k \in K PROVE Within(r, calls[k].at) = Cardinality(InWindow(K, times, times[k]))
      <3>1. {j \in K : calls[j].at \in calls[k].at..(calls[k].at + BurstWindow)} = InWindow(K, times, times[k])
        <4>1. ASSUME NEW j \in K
              PROVE  calls[j].at \in calls[k].at..(calls[k].at + BurstWindow)
                       <=> times[j] >= times[k] /\ times[j] <= times[k] + BurstWindow
          <5>1. times[j] = calls[j].at /\ times[k] = calls[k].at /\ calls[j].at \in Nat /\ calls[k].at \in Nat
            BY <2>3
          <5>. QED  BY <5>1, TimingAssumption
        <4>. QED  BY <4>1 DEF InWindow
      <3>. QED  BY <2>2, <3>1 DEF Within
    <2>5. \E k \in K : Cardinality(InWindow(K, times, times[k])) >= r.max
      BY <2>1 DEF Bursts
    <2>6. \A k \in K : Cardinality(InWindow(K, times, times[k])) <= 2 * r.max
      <3> TAKE k \in K
      <3>1. times[k] \in Nat
        BY <2>3
      <3>. QED  BY <2>1, <3>1 DEF Bursts
    <2>7. \E k \in K : Within(r, calls[k].at) >= r.max
      BY <2>4, <2>5
    <2>8. \A k \in K : Within(r, calls[k].at) <= 2 * r.max
      BY <2>4, <2>6
    <2>. QED  BY <2>2, <2>7, <2>8
  <1>2. Cardinality({timing[i].ip : i \in DOMAIN timing}) = Len(timing)
    BY <1>0, AddressesCounted DEF TimingInv
  <1>3. Len(timing) <= TimingMax
    BY DEF TimingInv
  <1>. QED  BY <1>1, <1>2, <1>3 DEF BurstsWithinFactorTwo

\* For any window, table size and calls of any number of addresses: the
\* greatest burst of a record (enrichment._record_connection) is within a
\* factor of two of the busiest window of the address since it is in the table.
THEOREM BurstsTheorem == TimingSpec => []BurstsWithinFactorTwo
  BY TimingStart, TimingInductive, TimingImplies, PTL DEF TimingSpec
=============================================================================
