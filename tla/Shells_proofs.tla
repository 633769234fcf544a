------------------------------ MODULE Shells_proofs ------------------------------
(***************************************************************************)
(* Whatever is typed, by whatever account: the trees of files keep their   *)
(* stories, and what is logged is what was typed.                          *)
(***************************************************************************)
EXTENDS FakeShell, ShareTree, LineEditor, SequenceTheorems,
        WellFoundedInduction, TLAPS

-----------------------------------------------------------------------------
(* Induction                                                               *)

\* Every non-empty set of numbers has a least one.
LEMMA LeastNumber ==
  ASSUME NEW T, T \subseteq Nat, T # {}
  PROVE  \E x \in T : \A y \in T : x <= y
  <1>. DEFINE R == {ss \in Nat \X Nat : ss[1] < ss[2]}
  <1>1. IsWellFoundedOn(OpToRel(<, Nat), Nat)
    BY NatLessThanWellFounded
  <1>2. OpToRel(<, Nat) = R
    BY DEF OpToRel
  <1>3. IsWellFoundedOn(R, Nat)
    BY <1>1, <1>2
  <1>4. PICK x \in T : \A y \in T : ~ (<<y, x>> \in R)
    <2>. HIDE DEF R
    <2>. QED BY <1>3, WFMin
  <1>5. \A y \in T : ~(y < x)
    BY <1>4
  <1>. QED BY <1>4, <1>5

-----------------------------------------------------------------------------
(* The fake shell: paths                                                   *)

TreeNames == {"etc", "passwd", "root", "notes", ".ssh", "id_rsa", "home", "admin", ".history",
              "var", "backups", "db.gz", "proc", "version", "vault.docx", "meeting.rtf"}

\* The names a path is made of: what is typed, what the tree holds, and the empty
\* one between two slashes (no prover knows that a literal is a string).
Names == (STRING \cup TreeNames \cup {Nameless}) \ {"//"}
PlainNames == Names \ {Nameless, ".", ".."}

\* The recursion of Walk, as far as the first m names.
Walks(t, m, f) == f = [i \in 0..m |-> IF i = 0 THEN <<>> ELSE Onto(f[i - 1], t[i])]

LEMMA WalksExist ==
  ASSUME NEW t, NEW m \in Nat
  PROVE  \E f : Walks(t, m, f)
  <1> DEFINE T == {n \in Nat : ~\E f : Walks(t, n, f)}
  <1> SUFFICES ASSUME T # {} PROVE FALSE
    OBVIOUS
  <1>1. PICK x \in T : \A y \in T : x <= y
    <2>1. T \subseteq Nat
      OBVIOUS
    <2> HIDE DEF T
    <2>. QED  BY <2>1, LeastNumber
  <1>2. x \in Nat /\ ~\E f : Walks(t, x, f)
    OBVIOUS
  <1>3. x # 0
    <2> SUFFICES ASSUME x = 0 PROVE \E f : Walks(t, x, f)
      BY <1>2
    <2> DEFINE f == [i \in 0..0 |-> <<>>]
               g == [i \in 0..0 |-> IF i = 0 THEN <<>> ELSE Onto(f[i - 1], t[i])]
    <2>1. f = g
      <3>1. \A i \in 0..0 : i = 0
        OBVIOUS
      <3>. QED  BY <3>1
    <2>2. Walks(t, 0, f)
      BY <2>1 DEF Walks
    <2>. QED  BY <2>2
  <1>4. x - 1 \in Nat /\ ~(x <= x - 1)
    BY <1>2, <1>3
  <1>5. PICK f : Walks(t, x - 1, f)
    BY <1>1, <1>4
  <1>6. \A i \in 0..(x - 1) : f[i] = IF i = 0 THEN <<>> ELSE Onto(f[i - 1], t[i])
    BY <1>5 DEF Walks
  <1> DEFINE g == [i \in 0..x |-> IF i = x THEN Onto(f[x - 1], t[x]) ELSE f[i]]
             h == [i \in 0..x |-> IF i = 0 THEN <<>> ELSE Onto(g[i - 1], t[i])]
  <1>7. ASSUME NEW i \in 0..x PROVE g[i] = h[i]
    <2>1. CASE i = x
      <3>1. x - 1 \in 0..x /\ x - 1 # x
        BY <1>2, <1>4
      <3>2. g[x - 1] = f[x - 1]
        BY <3>1
      <3>. QED  BY <1>3, <2>1, <3>2
    <2>2. CASE i # x /\ i # 0
      <3>1. i \in 0..(x - 1) /\ i - 1 \in 0..x /\ i - 1 # x
        BY <1>2, <2>2
      <3>2. g[i - 1] = f[i - 1] /\ g[i] = f[i]
        BY <2>2, <3>1
      <3>. QED  BY <1>6, <2>2, <3>1, <3>2
    <2>3. CASE i = 0
      <3>1. i \in 0..(x - 1) /\ i # x
        BY <1>2, <1>3, <2>3
      <3>. QED  BY <1>6, <2>3, <3>1
    <2>. QED  BY <2>1, <2>2, <2>3
  <1>8. g = h
    <2>1. g = [i \in 0..x |-> g[i]] /\ h = [i \in 0..x |-> h[i]]
      OBVIOUS
    <2> HIDE DEF g, h
    <2>. QED  BY <1>7, <2>1
  <1>9. Walks(t, x, g)
    BY <1>8 DEF Walks
  <1>. QED  BY <1>2, <1>9

LEMMA WalkIs ==
  ASSUME NEW t, Len(t) \in Nat
  PROVE  \E f : /\ \A i \in 0..Len(t) : f[i] = IF i = 0 THEN <<>> ELSE Onto(f[i - 1], t[i])
                /\ Walk(t) = f[Len(t)]
  <1> DEFINE f == CHOOSE g : Walks(t, Len(t), g)
  <1>1. Walks(t, Len(t), f)
    BY WalksExist
  <1>2. Walk(t) = f[Len(t)]
    BY DEF Walk, Walks
  <1> HIDE DEF f
  <1>3. \A i \in 0..Len(t) : f[i] = IF i = 0 THEN <<>> ELSE Onto(f[i - 1], t[i])
    BY <1>1 DEF Walks
  <1>. QED  BY <1>2, <1>3

LEMMA OntoPlain ==
  ASSUME NEW done \in Seq(PlainNames), NEW name \in Names
  PROVE  /\ Onto(done, name) \in Seq(PlainNames)
         /\ name = Nameless => Onto(done, name) = done
         /\ name \in PlainNames => Onto(done, name) = Append(done, name)
  <1>1. name \in {Nameless, ".", ".."} \/ name \in PlainNames
    BY DEF Names, PlainNames
  <1>2. name \in PlainNames => name \notin {Nameless, ".", ".."}
    BY DEF PlainNames
  <1>3. CASE name \in {Nameless, "."}
    <2>1. Nameless # ".."
      BY Zenon DEF Nameless
    <2>2. Onto(done, name) = done
      BY <1>3, <2>1 DEF Onto
    <2>. QED  BY <1>2, <1>3, <2>2, Zenon
  <1>4. CASE name = ".." /\ name \notin {Nameless, "."}
    <2>1. CASE done = <<>>
      BY <1>2, <1>4, <2>1 DEF Onto
    <2>2. CASE done # <<>>
      <3>1. Onto(done, name) = SubSeq(done, 1, Len(done) - 1)
        BY <1>4, <2>2 DEF Onto, Front
      <3>2. Len(done) - 1 \in 0..Len(done)
        BY <2>2
      <3>3. SubSeq(done, 1, Len(done) - 1) \in Seq(PlainNames)
        BY <3>2
      <3>. QED  BY <1>2, <1>4, <3>1, <3>3
    <2>. QED  BY <2>1, <2>2
  <1>5. CASE name \in PlainNames
    <2>1. Onto(done, name) = Append(done, name)
      BY <1>2, <1>5 DEF Onto
    <2>. QED  BY <1>2, <1>5, <2>1
  <1>. QED  BY <1>1, <1>3, <1>4, <1>5

LEMMA WalkPlain ==
  ASSUME NEW t \in Seq(Names)
  PROVE  Walk(t) \in Seq(PlainNames)
  <1>1. Len(t) \in Nat
    OBVIOUS
  <1>2. PICK f : /\ \A i \in 0..Len(t) : f[i] = IF i = 0 THEN <<>> ELSE Onto(f[i - 1], t[i])
                 /\ Walk(t) = f[Len(t)]
    BY <1>1, WalkIs
  <1> DEFINE T == {i \in 0..Len(t) : f[i] \notin Seq(PlainNames)}
  <1>3. T = {}
    <2> SUFFICES ASSUME T # {} PROVE FALSE
      OBVIOUS
    <2>1. PICK x \in T : \A y \in T : x <= y
      <3>1. T \subseteq Nat
        OBVIOUS
      <3> HIDE DEF T
      <3>. QED  BY <3>1, LeastNumber
    <2>2. x \in 0..Len(t) /\ f[x] \notin Seq(PlainNames)
      OBVIOUS
    <2>3. x # 0
      <3> SUFFICES ASSUME x = 0 PROVE FALSE
        OBVIOUS
      <3>1. f[x] = <<>>
        BY <1>2, <2>2
      <3>. QED  BY <2>2, <3>1
    <2>4. x - 1 \in 0..Len(t) /\ ~(x <= x - 1) /\ x \in 1..Len(t)
      BY <2>2, <2>3
    <2>5. f[x - 1] \in Seq(PlainNames)
      BY <2>1, <2>4
    <2>6. t[x] \in Names
      BY <2>4
    <2>7. f[x] = Onto(f[x - 1], t[x])
      BY <1>2, <2>2, <2>3
    <2>. QED  BY <2>2, <2>5, <2>6, <2>7, OntoPlain
  <1>4. Len(t) \in 0..Len(t)
    BY <1>1
  <1>. QED  BY <1>2, <1>3, <1>4

LEMMA OneMore ==
  ASSUME NEW S, NEW q \in Seq(S), NEW j \in 1..Len(q)
  PROVE  SubSeq(q, 1, j) = Append(SubSeq(q, 1, j - 1), q[j])
  <1> DEFINE a == SubSeq(q, 1, j)
             b == SubSeq(q, 1, j - 1)
  <1>1. a \in Seq(S) /\ Len(a) = j /\ \A i \in 1..j : a[i] = q[i]
    OBVIOUS
  <1>2. b \in Seq(S) /\ Len(b) = j - 1 /\ \A i \in 1..(j - 1) : b[i] = q[i]
    OBVIOUS
  <1>3. q[j] \in S
    OBVIOUS
  <1> HIDE DEF a, b
  <1>4. Append(b, q[j]) \in Seq(S) /\ Len(Append(b, q[j])) = j
    BY <1>2, <1>3
  <1>5. \A i \in 1..j : Append(b, q[j])[i] = q[i]
    BY <1>2, <1>3
  <1>6. a = Append(b, q[j])
    BY <1>1, <1>4, <1>5, SeqEqual
  <1>. QED  BY <1>6 DEF a, b

\* Slashes in front of plain names change nothing.
LEMMA PlainWalk ==
  ASSUME NEW q \in Seq(PlainNames), NEW k \in Nat, NEW t, Len(t) = k + Len(q),
         \A i \in 1..k : t[i] = Nameless, \A j \in 1..Len(q) : t[k + j] = q[j]
  PROVE  Walk(t) = q
  <1>1. Len(t) \in Nat /\ Len(q) \in Nat
    OBVIOUS
  <1>2. PICK f : /\ \A i \in 0..Len(t) : f[i] = IF i = 0 THEN <<>> ELSE Onto(f[i - 1], t[i])
                 /\ Walk(t) = f[Len(t)]
    BY <1>1, WalkIs
  <1> DEFINE upto(i) == IF i <= k THEN <<>> ELSE SubSeq(q, 1, i - k)
             T == {i \in 0..Len(t) : f[i] # upto(i)}
  <1>3. ASSUME NEW j \in 1..Len(q) PROVE SubSeq(q, 1, j) = Append(SubSeq(q, 1, j - 1), q[j])
    BY OneMore
  <1>e. SubSeq(q, 1, 0) = <<>>
    OBVIOUS
  <1>4. T = {}
    <2> SUFFICES ASSUME T # {} PROVE FALSE
      OBVIOUS
    <2>1. PICK x \in T : \A y \in T : x <= y
      <3>1. T \subseteq Nat
        BY <1>1
      <3> HIDE DEF T
      <3>. QED  BY <3>1, LeastNumber
    <2>2. x \in 0..Len(t) /\ f[x] # upto(x)
      OBVIOUS
    <2>3. x # 0
      <3> SUFFICES ASSUME x = 0 PROVE FALSE
        OBVIOUS
      <3>1. f[x] = <<>> /\ x <= k
        BY <1>2, <2>2
      <3>. QED  BY <2>2, <3>1
    <2>4. x - 1 \in 0..Len(t) /\ ~(x <= x - 1) /\ x \in 1..Len(t)
      BY <1>1, <2>2, <2>3
    <2>5. f[x - 1] = upto(x - 1)
      BY <2>1, <2>4
    <2>6. f[x] = Onto(f[x - 1], t[x])
      BY <1>2, <2>2, <2>3
    <2>7. CASE x <= k
      <3>1. x \in 1..k /\ x - 1 <= k
        BY <2>4, <2>7
      <3>2. t[x] = Nameless /\ f[x - 1] = <<>> /\ upto(x) = <<>>
        BY <2>5, <2>7, <3>1
      <3> HIDE DEF upto
      <3>3. Onto(<<>>, Nameless) = <<>>
        BY DEF Onto
      <3>. QED  BY <2>2, <2>6, <3>2, <3>3
    <2>8. CASE ~(x <= k)
      <3> DEFINE j == x - k
      <3>1. j \in 1..Len(q) /\ x = k + j /\ j - 1 = (x - 1) - k
        BY <1>1, <2>4, <2>8
      <3>2. t[x] = q[j] /\ q[j] \in PlainNames /\ q[j] \in Names
        BY <3>1 DEF PlainNames, Names
      <3>3. upto(x - 1) = SubSeq(q, 1, j - 1)
        <4>1. CASE x - 1 <= k
          <5>1. j - 1 = 0
            BY <2>4, <2>8, <4>1
          <5>. QED  BY <1>e, <4>1, <5>1
        <4>2. CASE ~(x - 1 <= k)
          BY <3>1, <4>2
        <4>. QED  BY <4>1, <4>2
      <3>4. upto(x) = SubSeq(q, 1, j)
        BY <2>8
      <3>5. SubSeq(q, 1, j - 1) \in Seq(PlainNames)
        BY <3>1
      <3> HIDE DEF upto, j
      <3>6. f[x] = Append(SubSeq(q, 1, j - 1), q[j])
        BY <2>5, <2>6, <3>2, <3>3, <3>5, OntoPlain
      <3>. QED  BY <1>3, <2>2, <3>1, <3>4, <3>6
    <2>. QED  BY <2>7, <2>8
  <1>5. Len(t) \in 0..Len(t)
    BY <1>1
  <1>6. upto(Len(t)) = q
    <2>1. SubSeq(q, 1, Len(q)) = q
      <3> DEFINE a == SubSeq(q, 1, Len(q))
      <3>1. a \in Seq(PlainNames) /\ Len(a) = Len(q) /\ \A i \in 1..Len(q) : a[i] = q[i]
        OBVIOUS
      <3> HIDE DEF a
      <3>2. a = q
        BY <3>1, SeqEqual
      <3>. QED  BY <3>2 DEF a
    <2>2. CASE Len(q) = 0
      BY <1>1, <1>e, <2>1, <2>2
    <2>3. CASE Len(q) # 0
      <3>1. ~(Len(t) <= k) /\ Len(t) - k = Len(q)
        BY <1>1, <2>3
      <3>. QED  BY <2>1, <3>1
    <2>. QED  BY <2>2, <2>3
  <1>7. f[Len(t)] = upto(Len(t))
    <2> HIDE DEF upto
    <2>. QED  BY <1>4, <1>5
  <1>. QED  BY <1>2, <1>6, <1>7

LEMMA PrefixedBy ==
  ASSUME NEW S, NEW r \in Seq(S), NEW q \in Seq(S)
  PROVE  /\ r \o q \in Seq(S) /\ Len(r \o q) = Len(r) + Len(q)
         /\ \A i \in 1..Len(r) : (r \o q)[i] = r[i]
         /\ \A j \in 1..Len(q) : (r \o q)[Len(r) + j] = q[j]
  <1> DEFINE p == r \o q
  <1>1. Len(r) \in Nat /\ Len(q) \in Nat
    OBVIOUS
  <1>2. /\ p \in Seq(S) /\ Len(p) = Len(r) + Len(q)
        /\ \A i \in 1..(Len(r) + Len(q)) : p[i] = IF i <= Len(r) THEN r[i] ELSE q[i - Len(r)]
    BY ConcatProperties
  <1> HIDE DEF p
  <1>3. ASSUME NEW i \in 1..Len(r) PROVE p[i] = r[i]
    BY <1>1, <1>2
  <1>4. ASSUME NEW j \in 1..Len(q) PROVE p[Len(r) + j] = q[j]
    <2>1. Len(r) + j \in 1..(Len(r) + Len(q)) /\ ~(Len(r) + j <= Len(r)) /\ (Len(r) + j) - Len(r) = j
      BY <1>1
    <2>. QED  BY <1>2, <2>1
  <1>. QED  BY <1>2, <1>3, <1>4 DEF p

\* What _resolve gives: plain names, or what two leading slashes become.
Resolved(p) == \E q \in Seq(PlainNames) : p = q \/ p = <<"//">> \o q

LEMMA Slashes ==
  /\ <<Nameless>> \in Seq(Names) /\ <<Nameless, Nameless>> \in Seq(Names)
  /\ <<Nameless, Nameless, Nameless, Nameless>> \in Seq(Names)
  /\ PlainNames \subseteq Names /\ Nameless \notin PlainNames
  <1>1. Nameless # "//"
    BY Zenon DEF Nameless
  <1>2. Nameless \in Names
    BY <1>1 DEF Names
  <1>. QED  BY <1>2 DEF PlainNames

LEMMA PlainAreNames ==
  ASSUME NEW q \in Seq(PlainNames)
  PROVE  q \in Seq(Names) /\ Len(q) \in Nat
  BY Slashes, SeqMonotonic

LEMMA OneInFront ==
  ASSUME NEW W, NEW r \in Seq(W), Len(r) = 1, NEW q \in Seq(W)
  PROVE  r \o q # <<>> /\ Head(r \o q) = r[1] /\ Tail(r \o q) = q
  <1>1. Len(q) \in Nat
    OBVIOUS
  <1>0. /\ r \o q \in Seq(W) /\ Len(r \o q) = Len(r) + Len(q)
        /\ \A i \in 1..Len(r) : (r \o q)[i] = r[i]
        /\ \A j \in 1..Len(q) : (r \o q)[Len(r) + j] = q[j]
    BY PrefixedBy
  <1> DEFINE p == r \o q
  <1>2. /\ p \in Seq(W) /\ Len(p) = Len(r) + Len(q)
        /\ \A i \in 1..Len(r) : p[i] = r[i]
        /\ \A j \in 1..Len(q) : p[Len(r) + j] = q[j]
    BY <1>0
  <1> HIDE DEF p
  <1>3. /\ Len(p) = 1 + Len(q) /\ p[1] = r[1]
        /\ \A j \in 1..Len(q) : p[1 + j] = q[j]
    BY <1>1, <1>2
  <1>4. p # <<>> /\ Head(p) = r[1]
    BY <1>1, <1>2, <1>3
  <1>5. Tail(p) \in Seq(W) /\ Len(Tail(p)) = Len(q) /\ \A j \in 1..Len(q) : Tail(p)[j] = p[j + 1]
    BY <1>1, <1>2, <1>3
  <1>6. \A j \in 1..Len(q) : Tail(p)[j] = q[j]
    BY <1>1, <1>3, <1>5
  <1>7. Tail(p) = q
    BY <1>1, <1>5, <1>6, SeqEqual
  <1>. QED  BY <1>4, <1>7 DEF p

LEMMA DoubledPath ==
  ASSUME NEW q \in Seq(PlainNames)
  PROVE  LET p == <<"//">> \o q
         IN  Doubled(p) /\ Tail(p) = q /\ Meant(p) = q /\ p # <<>>
  <1> DEFINE x == "//"
             W == Names \cup {x}
             r == <<x>>
             p == r \o q
  <1>1. x \in W /\ Names \subseteq W
    OBVIOUS
  <1> HIDE DEF W
  <1>2. q \in Seq(W)
    BY <1>1, PlainAreNames, SeqMonotonic
  <1>3. r \in Seq(W) /\ Len(r) = 1 /\ r[1] = x
    BY <1>1
  <1> HIDE DEF r
  <1>5. p # <<>> /\ Head(p) = x /\ Tail(p) = q
    BY <1>2, <1>3, OneInFront
  <1> HIDE DEF p
  <1>4. Doubled(p)
    BY <1>5 DEF Doubled
  <1>. QED  BY <1>4, <1>5 DEF Meant, p, r

LEMMA PlainPath ==
  ASSUME NEW q \in Seq(PlainNames)
  PROVE  ~Doubled(q) /\ Meant(q) = q
  <1>1. q # <<>> => Head(q) \in PlainNames
    OBVIOUS
  <1>2. ~Doubled(q)
    BY <1>1 DEF Doubled, PlainNames, Names
  <1>. QED  BY <1>2 DEF Meant

\* Normalising what has slashes in front, but not two of them, gives its names.
LEMMA SlashedNormal ==
  ASSUME NEW q \in Seq(PlainNames), NEW r \in Seq(Names),
         \A i \in 1..Len(r) : r[i] = Nameless,
         \/ Len(r) = 1 /\ q # <<>>
         \/ Len(r) = 2 /\ q = <<>>
         \/ Len(r) = 4
  PROVE  Norm(r \o q) = q
  <1> DEFINE t == r \o q
  <1>1. q \in Seq(Names) /\ Len(q) \in Nat /\ Len(r) \in Nat
    BY PlainAreNames
  <1>2. /\ Len(t) = Len(r) + Len(q)
        /\ \A i \in 1..Len(r) : t[i] = Nameless
        /\ \A j \in 1..Len(q) : t[Len(r) + j] = q[j]
    BY <1>1, PrefixedBy
  <1> HIDE DEF t
  <1>3. Walk(t) = q
    BY <1>1, <1>2, PlainWalk
  <1>4. ~TwoSlashes(t)
    <2>1. CASE Len(r) = 1 /\ q # <<>>
      <3>1. Len(q) >= 1 /\ 1 \in 1..Len(q) /\ q[1] \in PlainNames
        BY <1>1, <2>1
      <3>2. t[2] = q[1]
        BY <1>2, <2>1, <3>1
      <3>. QED  BY <3>1, <3>2, Slashes DEF TwoSlashes
    <2>2. CASE Len(r) = 2 /\ q = <<>>
      <3>1. Len(t) = 2
        BY <1>1, <1>2, <2>2
      <3>. QED  BY <3>1 DEF TwoSlashes
    <2>3. CASE Len(r) = 4
      <3>1. t[3] = Nameless /\ Len(t) >= 4
        BY <1>1, <1>2, <2>3
      <3>. QED  BY <3>1, <1>1, <1>2 DEF TwoSlashes
    <2>. QED  BY <2>1, <2>2, <2>3
  <1>. QED  BY <1>3, <1>4 DEF Norm, t

LEMMA NothingAdded ==
  ASSUME NEW S, NEW r \in Seq(S)
  PROVE  r \o <<>> = r
  BY ConcatEmptySeq

\* The tree takes a resolved path for what its client means.
LEMMA AskedIsMeant ==
  ASSUME NEW p, Resolved(p)
  PROVE  Asked(p) = Meant(p) /\ Meant(p) \in Seq(PlainNames) /\ Split(p) \in Seq(Names)
  <1>1. PICK q \in Seq(PlainNames) : p = q \/ p = <<"//">> \o q
    BY DEF Resolved
  <1>0. q \in Seq(Names)
    BY PlainAreNames
  <1>2. CASE p = q /\ q = <<>>
    <2> DEFINE r == <<Nameless, Nameless>>
    <2>1. r \in Seq(Names) /\ Len(r) = 2 /\ \A i \in 1..Len(r) : r[i] = Nameless
      BY Slashes
    <2>2. Split(p) = r
      <3>1. ~(p # <<>> /\ Doubled(p))
        BY <1>2
      <3>. QED  BY <1>2, <3>1 DEF Split
    <2> HIDE DEF r
    <2>3. r \o q = r
      BY <1>2, <2>1, NothingAdded
    <2>4. Norm(r \o q) = q
      BY <1>2, <2>1, SlashedNormal
    <2>. QED  BY <1>2, <2>1, <2>2, <2>3, <2>4, PlainPath DEF Asked
  <1>3. CASE p = q /\ q # <<>>
    <2> DEFINE r == <<Nameless>>
    <2>1. r \in Seq(Names) /\ Len(r) = 1 /\ \A i \in 1..Len(r) : r[i] = Nameless
      BY Slashes
    <2>2. Split(p) = r \o q
      BY <1>3, PlainPath DEF Split
    <2> HIDE DEF r
    <2>3. Norm(r \o q) = q
      BY <1>3, <2>1, SlashedNormal
    <2>4. r \o q \in Seq(Names)
      BY <1>0, <2>1, PrefixedBy
    <2>. QED  BY <1>3, <2>2, <2>3, <2>4, PlainPath DEF Asked
  <1>4. CASE p = <<"//">> \o q
    <2> DEFINE r == <<Nameless, Nameless, Nameless, Nameless>>
    <2>1. r \in Seq(Names) /\ Len(r) = 4 /\ \A i \in 1..Len(r) : r[i] = Nameless
      BY Slashes
    <2>0. Doubled(p) /\ p # <<>> /\ Tail(p) = q /\ Meant(p) = q
      BY <1>4, DoubledPath
    <2>2. Split(p) = r \o q
      BY <2>0 DEF Split
    <2> HIDE DEF r
    <2>3. Norm(r \o q) = q
      BY <2>1, SlashedNormal
    <2>4. r \o q \in Seq(Names)
      BY <1>0, <2>1, PrefixedBy
    <2>. QED  BY <2>0, <2>2, <2>3, <2>4 DEF Asked
  <1>. QED  BY <1>1, <1>2, <1>3, <1>4

LEMMA PlainIsResolved ==
  ASSUME NEW q \in Seq(PlainNames)
  PROVE  Resolved(q)
  BY DEF Resolved

LEMMA NormResolved ==
  ASSUME NEW t \in Seq(Names)
  PROVE  Resolved(Norm(t))
  <1>1. Walk(t) \in Seq(PlainNames)
    BY WalkPlain
  <1>. QED  BY <1>1 DEF Resolved, Norm

LEMMA ResolveResolves ==
  ASSUME ShellAssumption, NEW t \in Typed, home \in Seq(PlainNames), Resolved(cwd)
  PROVE  Resolved(Resolve(t))
  <1>1. t \in Seq(Names) /\ t # <<>>
    <2>1. t \in Seq(STRING \ {"//"}) /\ t # <<>>
      BY DEF ShellAssumption
    <2>2. STRING \ {"//"} \subseteq Names
      BY DEF Names
    <2>. QED  BY <2>1, <2>2, SeqMonotonic
  <1>2. CASE t = <<"~">>
    BY <1>2, PlainIsResolved DEF Resolve
  <1>3. CASE t # <<"~">>
    <2> DEFINE tilde == IF t[1] = "~" THEN Split(home) \o Tail(t) ELSE t
               arg == IF Absolute(tilde) THEN tilde ELSE Trimmed(cwd) \o tilde
    <2>1. Split(home) \in Seq(Names) /\ Split(cwd) \in Seq(Names)
      BY AskedIsMeant, PlainIsResolved
    <2>2. tilde \in Seq(Names)
      <3>1. Tail(t) \in Seq(Names)
        BY <1>1
      <3>2. Split(home) \o Tail(t) \in Seq(Names)
        BY <2>1, <3>1, PrefixedBy
      <3>. QED  BY <1>1, <3>2
    <2> HIDE DEF tilde
    <2>3. Trimmed(cwd) \in Seq(Names)
      BY <2>1, Slashes DEF Trimmed
    <2>4. Trimmed(cwd) \o tilde \in Seq(Names)
      BY <2>2, <2>3, PrefixedBy
    <2>5. arg \in Seq(Names)
      BY <2>2, <2>4
    <2>6. Resolve(t) = Norm(arg)
      BY <1>3 DEF Resolve, tilde
    <2> HIDE DEF arg
    <2>. QED  BY <2>5, <2>6, NormResolved
  <1>. QED  BY <1>2, <1>3

-----------------------------------------------------------------------------
(* The fake shell                                                          *)

LEMMA FilesOfTheTree ==
  Files = { <<"etc", "passwd">>, <<"root", "notes">>, <<"root", ".ssh", "id_rsa">>,
            <<"home", "admin", ".history">>, <<"var", "backups", "db.gz">>, <<"proc", "version">>,
            <<"root", "vault.docx">>, <<"root", "meeting.rtf">> }
  BY DEF Files, Entries, Plain, Canaries, Entry

LEMMA FileFacts ==
  ASSUME NEW f \in Files
  PROVE  f \in Seq(TreeNames) /\ Len(f) \in {2, 3} /\ (Len(f) = 2 => f[1] # "home")
  <1>1. ASSUME NEW a \in TreeNames, NEW b \in TreeNames, f = <<a, b>>, a # "home"
        PROVE  f \in Seq(TreeNames) /\ Len(f) \in {2, 3} /\ (Len(f) = 2 => f[1] # "home")
    BY <1>1
  <1>2. ASSUME NEW a \in TreeNames, NEW b \in TreeNames, NEW c \in TreeNames, f = <<a, b, c>>
        PROVE  f \in Seq(TreeNames) /\ Len(f) \in {2, 3} /\ (Len(f) = 2 => f[1] # "home")
    BY <1>2
  <1>3. {"etc", "passwd", "root", "notes", ".ssh", "id_rsa", "home", "admin", ".history",
         "var", "backups", "db.gz", "proc", "version", "vault.docx", "meeting.rtf"} = TreeNames
    BY DEF TreeNames
  <1>4. \/ \E a, b \in TreeNames : f = <<a, b>> /\ a # "home"
        \/ \E a, b, c \in TreeNames : f = <<a, b, c>>
    <2>1. CASE f = <<"etc", "passwd">>  BY <2>1, <1>3
    <2>2. CASE f = <<"root", "notes">>  BY <2>2, <1>3
    <2>3. CASE f = <<"root", ".ssh", "id_rsa">>  BY <2>3, <1>3
    <2>4. CASE f = <<"home", "admin", ".history">>  BY <2>4, <1>3
    <2>5. CASE f = <<"var", "backups", "db.gz">>  BY <2>5, <1>3
    <2>6. CASE f = <<"proc", "version">>  BY <2>6, <1>3
    <2>7. CASE f = <<"root", "vault.docx">>  BY <2>7, <1>3
    <2>8. CASE f = <<"root", "meeting.rtf">>  BY <2>8, <1>3
    <2>. QED  BY <2>1, <2>2, <2>3, <2>4, <2>5, <2>6, <2>7, <2>8, FilesOfTheTree
  <1>. QED  BY <1>1, <1>2, <1>4

\* What exists is the beginning of a file's path.
LEMMA TreeIsPrefix ==
  ASSUME NEW p
  PROVE  p \in Tree <=> \E f \in Files : \E n \in 0..Len(f) : p = SubSeq(f, 1, n)
  <1>1. ASSUME NEW f \in Files PROVE f = SubSeq(f, 1, Len(f)) /\ Len(f) \in 0..Len(f) /\ Len(f) \in Nat
    <2>1. f \in Seq(TreeNames)
      BY FileFacts
    <2> DEFINE g == SubSeq(f, 1, Len(f))
    <2>2. g \in Seq(TreeNames) /\ Len(g) = Len(f) /\ \A i \in 1..Len(f) : g[i] = f[i]
      BY <2>1
    <2> HIDE DEF g
    <2>3. g = f
      BY <2>1, <2>2, SeqEqual
    <2>. QED  BY <2>1, <2>3 DEF g
  <1>2. ASSUME p \in Tree PROVE \E f \in Files : \E n \in 0..Len(f) : p = SubSeq(f, 1, n)
    <2>1. CASE p \in Files
      BY <1>1, <2>1
    <2>2. CASE p \in Dirs
      <3>1. PICK f \in Files : \E n \in 0..Len(f) - 1 : p = SubSeq(f, 1, n)
        BY <2>2 DEF Dirs, Parents
      <3>2. 0..Len(f) - 1 \subseteq 0..Len(f)
        BY <1>1
      <3>. QED  BY <3>1, <3>2
    <2>. QED  BY <1>2, <2>1, <2>2 DEF Tree
  <1>3. ASSUME NEW f \in Files, NEW n \in 0..Len(f), p = SubSeq(f, 1, n) PROVE p \in Tree
    <2>1. CASE n = Len(f)
      BY <1>1, <1>3, <2>1 DEF Tree
    <2>2. CASE n # Len(f)
      <3>1. n \in 0..Len(f) - 1
        BY <1>1, <2>2
      <3>. QED  BY <1>3, <3>1 DEF Tree, Dirs, Parents
    <2>. QED  BY <2>1, <2>2
  <1>. QED  BY <1>2, <1>3

LEMMA TreeNamesPlain == TreeNames \subseteq PlainNames
  <1>1. \A n \in TreeNames : n \notin {Nameless, ".", "..", "//"}
    BY Zenon DEF TreeNames, Nameless
  <1>. QED  BY <1>1 DEF Names, PlainNames

\* A path of the tree is resolved, and the tree takes it for itself.
LEMMA TreePaths ==
  ASSUME NEW p \in Tree
  PROVE  /\ p \in Seq(TreeNames) /\ p \in Seq(PlainNames) /\ Resolved(p)
         /\ ~Doubled(p) /\ Meant(p) = p /\ Asked(p) = p /\ Exists(p)
  <1>1. PICK f \in Files : \E n \in 0..Len(f) : p = SubSeq(f, 1, n)
    BY TreeIsPrefix
  <1>2. PICK n \in 0..Len(f) : p = SubSeq(f, 1, n)
    BY <1>1
  <1>3. p \in Seq(TreeNames)
    BY <1>2, FileFacts
  <1>4. p \in Seq(PlainNames)
    BY <1>3, TreeNamesPlain, SeqMonotonic
  <1>5. Resolved(p) /\ ~Doubled(p) /\ Meant(p) = p
    BY <1>4, PlainIsResolved, PlainPath
  <1>6. Asked(p) = p
    BY <1>5, AskedIsMeant
  <1>. QED  BY <1>3, <1>4, <1>5, <1>6 DEF Exists

\* Every name in a listing can be walked to.
LEMMA ChildrenInTree ==
  ASSUME NEW d \in Tree, NEW c \in Children(d)
  PROVE  c \in Tree
  <1>1. PICK p \in Below(d) : c = Append(d, p[Len(d) + 1])
    BY DEF Children
  <1>2. p \in Tree /\ IsStrictPrefix(d, p)
    BY DEF Below
  <1>3. PICK f \in Files : \E n \in 0..Len(f) : p = SubSeq(f, 1, n)
    BY <1>2, TreeIsPrefix
  <1>4. PICK n \in 0..Len(f) : p = SubSeq(f, 1, n)
    BY <1>3
  <1>5. f \in Seq(TreeNames) /\ Len(f) \in Nat
    BY FileFacts
  <1>6. d \in Seq(TreeNames) /\ Len(d) \in Nat
    BY TreePaths
  <1>7. Len(p) = n /\ p \in Seq(TreeNames) /\ \A i \in 1..n : p[i] = f[i]
    BY <1>4, <1>5
  <1>8. IsPrefix(d, p) /\ d # p
    BY <1>2 DEF IsStrictPrefix
  <1>9. Len(d) <= Len(p) /\ SubSeq(d, 1, Len(d)) = SubSeq(p, 1, Len(d))
    BY <1>8 DEF IsPrefix
  <1>10. Len(d) < n /\ \A i \in 1..Len(d) : d[i] = f[i]
    <2>1. \A i \in 1..Len(d) : i \in 1..n /\ d[i] = p[i]
      <3>1. Len(d) <= n
        BY <1>7, <1>9
      <3>3. Len(d) \in 0..Len(p)
        BY <1>6, <1>7, <1>9
      <3>4. \A i \in 1..Len(d) : SubSeq(d, 1, Len(d))[i] = d[i]
        BY <1>6
      <3>2. SubSeq(p, 1, Len(d)) \in Seq(TreeNames) /\ \A i \in 1..Len(d) : SubSeq(p, 1, Len(d))[i] = p[i]
        BY <1>7, <3>3
      <3>5. \A i \in 1..Len(d) : i \in 1..n
        BY <1>6, <1>7, <3>1
      <3>. QED  BY <1>9, <3>2, <3>4, <3>5
    <2>2. Len(d) # n
      <3> SUFFICES ASSUME Len(d) = n PROVE FALSE
        OBVIOUS
      <3>1. d = p
        BY <1>6, <1>7, <2>1, SeqEqual
      <3>. QED  BY <1>8, <3>1
    <2>3. Len(d) <= n /\ Len(d) \in Nat /\ n \in Nat
      BY <1>5, <1>6, <1>7, <1>9
    <2>4. Len(d) < n
      BY <2>2, <2>3
    <2>. QED  BY <1>7, <2>1, <2>4
  <1> DEFINE k == Len(d) + 1
             g == SubSeq(f, 1, k)
  <1>11. k \in 0..Len(f) /\ k \in 1..n /\ k \in Nat
    BY <1>6, <1>10
  <1>12. g \in Seq(TreeNames) /\ Len(g) = k /\ \A i \in 1..k : g[i] = f[i]
    BY <1>5, <1>11
  <1>13. p[k] = f[k] /\ f[k] \in TreeNames
    BY <1>5, <1>7, <1>11
  <1>14. c \in Seq(TreeNames) /\ Len(c) = k /\ \A i \in 1..k : c[i] = f[i]
    <2>1. c = Append(d, f[k])
      BY <1>1, <1>13
    <2>2. Append(d, f[k]) \in Seq(TreeNames) /\ Len(Append(d, f[k])) = k
      BY <1>6, <1>13
    <2>3. \A i \in 1..k : Append(d, f[k])[i] = IF i = k THEN f[k] ELSE d[i]
      BY <1>6, <1>13
    <2>4. \A i \in 1..k : i # k => i \in 1..Len(d)
      BY <1>6
    <2>. QED  BY <1>10, <2>1, <2>2, <2>3, <2>4
  <1> HIDE DEF g, k
  <1>15. c = g
    BY <1>12, <1>14, SeqEqual
  <1>. QED  BY <1>11, <1>15, TreeIsPrefix DEF g

\* One resolved path stands behind what one command said.
Grounded(c) ==
  \E p : /\ Resolved(p) /\ c.path = Meant(p) /\ c.doubled = Doubled(p)
         /\ c.there => Exists(p) \/ (p \in Live /\ c.by = "cat")
         /\ ~c.there => \/ ~Exists(p)
                        \/ Asked(p) \notin Files /\ c.by \in {"head", "hash"}
                        \/ Doubled(p) /\ c.by = "find"

ClaimsGrounded == \A c \in claims : Grounded(c)
PathsResolved == Resolved(cwd) /\ home \in Seq(PlainNames)
ShellInv == PathsResolved /\ IsDir(cwd) /\ ClaimsGrounded /\ CanaryCopiesNoted

LEMMA SaysGrounded ==
  ASSUME NEW ps, NEW there, NEW by,
         \A p \in ps : /\ Resolved(p)
                       /\ there => Exists(p) \/ (p \in Live /\ by = "cat")
                       /\ ~there => \/ ~Exists(p)
                                    \/ Asked(p) \notin Files /\ by \in {"head", "hash"}
                                    \/ Doubled(p) /\ by = "find"
  PROVE  \A c \in Says(ps, there, by) : Grounded(c)
  <1> SUFFICES ASSUME NEW p \in ps PROVE Grounded(Claim(p, there, by))
    BY DEF Says
  <1> DEFINE c == Claim(p, there, by)
  <1>1. c.path = Meant(p) /\ c.doubled = Doubled(p) /\ c.there = there /\ c.by = by
    BY DEF Claim
  <1> HIDE DEF c
  <1>2. Grounded(c)
    BY <1>1, Zenon DEF Grounded
  <1>. QED  BY <1>2 DEF c

\* find finds what it is asked about, but for a path resolved from two slashes.
LEMMA FindGrounded ==
  ASSUME NEW p, Resolved(p)
  PROVE  \A c \in FindSays(p) : Grounded(c)
  <1>1. Found(p) \subseteq Tree
    BY DEF Found
  <1>2. CASE Exists(p) /\ Found(p) # {}
    <2>1. FindSays(p) = Says(Found(p), TRUE, "find")
      BY <1>2 DEF FindSays
    <2>2. \A q \in Found(p) : Resolved(q) /\ Exists(q)
      BY <1>1, TreePaths
    <2>. QED  BY <2>1, <2>2, SaysGrounded
  <1>3. CASE ~(Exists(p) /\ Found(p) # {})
    <2>1. FindSays(p) = Says({p}, FALSE, "find")
      BY <1>3 DEF FindSays
    <2>2. ASSUME Exists(p), ~Doubled(p) PROVE Found(p) # {}
      <3>1. p \in Tree
        BY <2>2, AskedIsMeant DEF Exists, Meant
      <3>2. IsPrefix(p, p)
        <4>1. p \in Seq(TreeNames)
          BY <3>1, TreePaths
        <4>. QED  BY <4>1 DEF IsPrefix
      <3>. QED  BY <3>1, <3>2 DEF Found
    <2>3. ~Exists(p) \/ Doubled(p)
      BY <1>3, <2>2
    <2>. QED  BY <2>1, <2>3, SaysGrounded
  <1>. QED  BY <1>2, <1>3

\* Whatever a command answers, a path stands behind it.
LEMMA AnswerGrounded ==
  ASSUME NEW command \in Lookers, NEW p, Resolved(p)
  PROVE  \A c \in Answer(command, p) : Grounded(c)
  <1>f. Exists(p) <=> IsDir(p) \/ IsFile(p)
    BY DEF Exists, IsDir, IsFile, Tree
  <1>1. CASE command \in {"ls", "ls -a"}
    <2>1. ASSUME NEW shown PROVE \A c \in LsSays(p, shown) : Grounded(c)
      <3>1. CASE Exists(p)
        <4> DEFINE below == IF IsDir(p) THEN {c \in Children(Asked(p)) : shown \/ ~Hidden(c)} ELSE {}
                   ps == {p} \cup below
        <4>1. \A q \in below : q \in Tree
          <5>1. Asked(p) \in Tree
            BY <3>1 DEF Exists
          <5>. QED  BY <5>1, ChildrenInTree
        <4>2. LsSays(p, shown) = Says(ps, TRUE, "ls")
          BY <3>1 DEF LsSays
        <4> HIDE DEF below
        <4>3. \A q \in ps : Resolved(q) /\ Exists(q)
          BY <3>1, <4>1, TreePaths
        <4> HIDE DEF ps
        <4>. QED  BY <4>2, <4>3, SaysGrounded
      <3>2. CASE ~Exists(p)
        <4>1. LsSays(p, shown) = Says({p}, FALSE, "ls")
          BY <3>2 DEF LsSays
        <4>2. \A q \in {p} : Resolved(q) /\ ~Exists(q)
          BY <3>2
        <4>. QED  BY <4>1, <4>2, SaysGrounded
      <3>. QED  BY <3>1, <3>2
    <2>2. Answer(command, p) = LsSays(p, FALSE) \/ Answer(command, p) = LsSays(p, TRUE)
      BY <1>1 DEF Answer
    <2>. QED  BY <2>1, <2>2
  <1>2. CASE command = "cat"
    <2>1. Answer(command, p) = Says({p}, p \in Live \/ Exists(p), "cat")
      BY <1>2 DEF Answer, CatSays
    <2>2. \A c \in Says({p}, p \in Live \/ Exists(p), "cat") : Grounded(c)
      BY SaysGrounded
    <2>. QED  BY <2>1, <2>2
  <1>3. CASE command = "head"
    <2>1. Answer(command, p) = Says({p}, IsFile(p), "head")
      BY <1>3 DEF Answer, HeadSays
    <2>2. IsFile(p) \/ Asked(p) \notin Files
      BY DEF IsFile
    <2>3. \A c \in Says({p}, IsFile(p), "head") : Grounded(c)
      BY <1>f, <2>2, SaysGrounded
    <2>. QED  BY <2>1, <2>3
  <1>4. CASE command = "hash"
    <2>1. Answer(command, p) = Says({p}, IsFile(p), "hash")
      BY <1>4 DEF Answer, HashSays
    <2>2. IsFile(p) \/ Asked(p) \notin Files
      BY DEF IsFile
    <2>3. \A c \in Says({p}, IsFile(p), "hash") : Grounded(c)
      BY <1>f, <2>2, SaysGrounded
    <2>. QED  BY <2>1, <2>3
  <1>5. CASE command = "find"
    <2>1. Answer(command, p) = FindSays(p)
      BY <1>5 DEF Answer
    <2>. QED  BY <2>1, FindGrounded
  <1>6. CASE command = "grep -r"
    <2>1. Answer(command, p) = Says(Grepped(p), TRUE, "grep")
      BY <1>6 DEF Answer, GrepSays
    <2>2. Grepped(p) \subseteq Tree
      BY DEF Grepped, Found, IsFile, Tree
    <2>3. \A q \in Grepped(p) : Resolved(q) /\ Exists(q)
      BY <2>2, TreePaths
    <2>. QED  BY <2>1, <2>3, SaysGrounded
  <1>7. CASE command \in {"file", "stat", "base64", "cat | base64", "base64 | head"}
    <2>1. PICK by \in {"file", "stat", "base64"} : Answer(command, p) = Says({p}, Exists(p), by)
      BY <1>7 DEF Answer, FileSays, StatSays, Base64Says
    <2>2. \A c \in Says({p}, Exists(p), by) : Grounded(c)
      BY SaysGrounded
    <2>. QED  BY <2>1, <2>2
  <1>. QED  BY <1>1, <1>2, <1>3, <1>4, <1>5, <1>6, <1>7 DEF Lookers

\* The home directory an account starts in is one.
LEMMA StartIsDir ==
  ASSUME ShellAssumption, ShellInit
  PROVE  PathsResolved /\ IsDir(cwd)
  <1>1. <<>> \in Dirs
    <2>1. PICK f \in Files : TRUE
      BY FilesOfTheTree
    <2>2. f \in Seq(TreeNames) /\ Len(f) \in {2, 3}
      BY FileFacts
    <2>3. 0 \in 0..Len(f) - 1 /\ SubSeq(f, 1, 0) = <<>>
      BY <2>2
    <2>4. <<>> \in Parents(f)
      BY <2>3 DEF Parents
    <2>. QED  BY <2>4 DEF Dirs
  <1>2. ASSUME NEW u, <<"home", u>> \in Tree PROVE <<"home", u>> \in Dirs
    <2>1. ASSUME <<"home", u>> \in Files PROVE FALSE
      <3>1. Len(<<"home", u>>) = 2 /\ <<"home", u>>[1] = "home"
        OBVIOUS
      <3>. QED  BY <2>1, <3>1, FileFacts
    <2>. QED  BY <1>2, <2>1 DEF Tree
  <1>3. ASSUME <<"root">> \in Tree PROVE <<"root">> \in Dirs
    <2>1. Len(<<"root">>) = 1
      OBVIOUS
    <2>2. <<"root">> \notin Files
      <3> SUFFICES ASSUME <<"root">> \in Files PROVE FALSE
        OBVIOUS
      <3>1. Len(<<"root">>) \in {2, 3}
        BY FileFacts
      <3>. QED  BY <2>1, <3>1
    <2>. QED  BY <1>3, <2>2 DEF Tree
  <1> DEFINE start == IF user = "root" THEN <<"root">> ELSE <<"home", user>>
  <1>4. start \in Seq(PlainNames)
    <2>1. "root" \in PlainNames /\ "home" \in PlainNames
      <3>1. "root" \in TreeNames /\ "home" \in TreeNames
        BY DEF TreeNames
      <3>. QED  BY <3>1, TreeNamesPlain
    <2>2. user \in PlainNames
      BY DEF ShellInit, ShellAssumption, PlainNames, Names
    <2>. QED  BY <2>1, <2>2
  <1>5. start \in Tree => start \in Dirs
    BY <1>2, <1>3
  <1>6. (cwd = IF Exists(start) THEN start ELSE <<>>) /\ home = cwd
    BY DEF ShellInit
  <1> HIDE DEF start
  <1>7. Asked(start) = start
    BY <1>4, PlainIsResolved, PlainPath, AskedIsMeant
  <1>8. cwd \in Dirs /\ cwd \in Seq(PlainNames)
    BY <1>1, <1>4, <1>5, <1>6, <1>7 DEF Exists
  <1>9. Asked(cwd) = cwd
    BY <1>8, PlainIsResolved, PlainPath, AskedIsMeant
  <1>. QED  BY <1>6, <1>8, <1>9, PlainIsResolved DEF PathsResolved, IsDir

\* A complete copy of a bait document that leaves with this command.
LEMMA SentIsNoted ==
  ASSUME NEW command \in Lookers, NEW p, NEW q \in Sends(command, p), q \in CanaryPaths
  PROVE  \/ q \in {Asked(r) : r \in Notes(command, p)}
         \/ command \in {"head", "grep -r"} /\ EntryOf(q).kind = "text"
  <1>1. CASE command = "cat"
    <2>1. CatShows(q)
      BY <1>1 DEF Sends
    <2>. QED  BY <2>1 DEF CatShows
  <1>2. CASE command \in {"head", "grep -r"}
    <2>1. EntryOf(q).kind = "text"
      BY <1>2 DEF Sends
    <2>. QED  BY <1>2, <2>1
  <1>3. CASE command \in {"base64", "cat | base64"}
    <2>1. q = Asked(p)
      BY <1>3 DEF Sends
    <2>2. Notes(command, p) = {r \in {p} : Asked(r) \in CanaryPaths}
      BY <1>3 DEF Notes
    <2>. QED  BY <2>1, <2>2
  <1>4. CASE command \notin {"cat", "head", "grep -r", "base64", "cat | base64"}
    BY <1>4 DEF Sends
  <1>. QED  BY <1>1, <1>2, <1>3, <1>4

LEMMA ShellStep ==
  ASSUME ShellAssumption, ShellInv, [ShellNext]_shellVars
  PROVE  ShellInv'
  <1>1. CASE UNCHANGED shellVars
    BY <1>1 DEF ShellInv, PathsResolved, IsDir, Asked, ClaimsGrounded, CanaryCopiesNoted, shellVars
  <1>2. ASSUME NEW t \in Typed, Cd(t) PROVE ShellInv'
    <2> DEFINE target == Resolve(t)
    <2>1. /\ cwd' = IF IsDir(target) THEN target ELSE cwd
          /\ claims' = claims \cup Says({target}, Exists(target), "cd")
          /\ copies' = copies /\ noted' = noted /\ home' = home
      BY <1>2 DEF Cd
    <2>0. Resolved(target)
      BY ResolveResolves DEF ShellInv, PathsResolved
    <2> HIDE DEF target
    <2>2. \A c \in Says({target}, Exists(target), "cd") : Grounded(c)
      BY <2>0, SaysGrounded
    <2>3. IsDir(cwd') /\ PathsResolved'
      BY <2>0, <2>1 DEF ShellInv, PathsResolved
    <2>4. ClaimsGrounded'
      BY <2>1, <2>2 DEF ShellInv, ClaimsGrounded
    <2>5. CanaryCopiesNoted'
      BY <2>1 DEF ShellInv, CanaryCopiesNoted
    <2>. QED  BY <2>3, <2>4, <2>5 DEF ShellInv
  <1>3. ASSUME NEW command \in Lookers, NEW t \in Typed, Look(command, t) PROVE ShellInv'
    <2> DEFINE p == Resolve(t)
               new == { [path |-> q, by |-> command] : q \in Sends(command, p) }
    <2>1. /\ claims' = claims \cup Answer(command, p)
          /\ copies' = copies \cup new
          /\ noted' = noted \cup Notes(command, p)
          /\ cwd' = cwd /\ home' = home
      BY <1>3 DEF Look
    <2>0. Resolved(p)
      BY ResolveResolves DEF ShellInv, PathsResolved
    <2> HIDE DEF p
    <2>2. ClaimsGrounded'
      BY <2>0, <2>1, AnswerGrounded DEF ShellInv, ClaimsGrounded
    <2>3. CanaryCopiesNoted'
      <3> SUFFICES ASSUME NEW c \in copies', c.path \in CanaryPaths,
                          c.path \notin {Asked(r) : r \in noted'}
                   PROVE  c.by \in {"head", "grep -r"} /\ EntryOf(c.path).kind = "text"
        BY DEF CanaryCopiesNoted
      <3>1. CASE c \in copies
        BY <2>1, <3>1 DEF ShellInv, CanaryCopiesNoted
      <3>2. CASE c \in new
        <4>1. PICK q \in Sends(command, p) : c = [path |-> q, by |-> command]
          BY <3>2
        <4>2. c.path = q /\ c.by = command
          BY <4>1
        <4>3. q \notin {Asked(r) : r \in Notes(command, p)}
          BY <2>1, <4>2
        <4>. QED  BY <4>2, <4>3, SentIsNoted
      <3>. QED  BY <2>1, <3>1, <3>2
    <2>4. PathsResolved' /\ IsDir(cwd')
      BY <2>1 DEF ShellInv, PathsResolved
    <2>. QED  BY <2>2, <2>3, <2>4 DEF ShellInv
  <1>4. CASE FindHere
    <2>1. /\ claims' = claims \cup FindSays(cwd)
          /\ cwd' = cwd /\ home' = home /\ copies' = copies /\ noted' = noted
      BY <1>4 DEF FindHere
    <2>2. \A c \in FindSays(cwd) : Grounded(c)
      BY FindGrounded DEF ShellInv, PathsResolved
    <2>3. ClaimsGrounded'
      BY <2>1, <2>2 DEF ShellInv, ClaimsGrounded
    <2>. QED  BY <2>1, <2>3 DEF ShellInv, PathsResolved, CanaryCopiesNoted
  <1>5. CASE Silent
    BY <1>5 DEF ShellInv, PathsResolved, IsDir, Asked, ClaimsGrounded, CanaryCopiesNoted, Silent
  <1>6. CASE Exit
    BY <1>6 DEF ShellInv, PathsResolved, IsDir, Asked, ClaimsGrounded, CanaryCopiesNoted, Exit
  <1>. QED  BY <1>1, <1>2, <1>3, <1>4, <1>5, <1>6 DEF ShellNext

\* Two claims about what a client means by a path are about what the tree takes
\* for one and the same path.
LEMMA GroundedAgree ==
  ASSUME NEW yes, NEW no, Grounded(yes), Grounded(no),
         yes.path = no.path, yes.there, ~no.there
  PROVE  \/ yes.path \in Live /\ yes.by = "cat"
         \/ yes.path \in Dirs /\ no.by \in {"head", "hash"}
         \/ no.doubled /\ no.by = "find"
  <1>1. PICK p : /\ Resolved(p) /\ yes.path = Meant(p) /\ yes.doubled = Doubled(p)
                 /\ yes.there => Exists(p) \/ (p \in Live /\ yes.by = "cat")
    BY DEF Grounded
  <1>2. PICK q : /\ Resolved(q) /\ no.path = Meant(q) /\ no.doubled = Doubled(q)
                 /\ ~no.there => \/ ~Exists(q)
                                 \/ Asked(q) \notin Files /\ no.by \in {"head", "hash"}
                                 \/ Doubled(q) /\ no.by = "find"
    BY DEF Grounded
  <1>3. CASE p \in Live /\ yes.by = "cat"
    <2>1. Meant(p) = p
      BY <1>3 DEF Live, Meant, Doubled
    <2>. QED  BY <1>1, <1>3, <2>1
  <1>4. CASE Exists(p)
    <2>1. Asked(p) = yes.path /\ Asked(q) = yes.path
      BY <1>1, <1>2, AskedIsMeant
    <2>2. Exists(q) /\ yes.path \in Files \cup Dirs
      BY <1>4, <2>1 DEF Exists, Tree
    <2>. QED  BY <1>2, <2>1, <2>2
  <1>. QED  BY <1>1, <1>3, <1>4

\* FakeShell: whatever is typed, by whatever account, whatever it resolves to:
\* two commands contradict each other about what a client means by a path in
\* the three known ways only, and a complete copy of a bait document leaves
\* noted, under the name it was asked for by, or as text of head or grep.
THEOREM ShellStoryCorrect == ShellSpec => []ShellKeepsItsStory
  <1>1. ShellInit => ShellInv
    <2> SUFFICES ASSUME ShellInit PROVE ShellInv
      OBVIOUS
    <2>1. claims = {} /\ copies = {}
      BY DEF ShellInit
    <2>. QED  BY <2>1, ShellAssumption, StartIsDir DEF ShellInv, ClaimsGrounded, CanaryCopiesNoted
  <1>2. ShellInv /\ [ShellNext]_shellVars => ShellInv'
    BY ShellAssumption, ShellStep
  <1>3. ShellInv => ShellKeepsItsStory
    <2> SUFFICES ASSUME ShellInv PROVE ShellKeepsItsStory
      OBVIOUS
    <2>1. StoriesAgree
      BY GroundedAgree DEF ShellInv, ClaimsGrounded, StoriesAgree
    <2>. QED  BY <2>1 DEF ShellInv, ShellKeepsItsStory
  <1>. QED  BY <1>1, <1>2, <1>3, PTL DEF ShellSpec

-----------------------------------------------------------------------------
(* The file share                                                          *)

PlainName ==
  {"index.html", "README.txt", "robots.txt", ".env", ".htaccess", ".git", "HEAD", "config",
   "description", "packed-refs", "refs", "heads", "main", "objects", "pack", "pack_idx",
   "backups", "db_backup.sql.gz", "last_dump_preview.sql", "customers_export.csv",
   "financial_summary_2025.csv", "docs", "runbook.md", "architecture.md", "onboarding.md",
   "exports", "users_export.csv", "api_call_log_2025-Q4.csv", "private", "credentials.txt",
   ".htpasswd", "ssh_keys_backup.tar.gz", "aws_keys_rotation.txt", "ssl", "private.key",
   "certificate.crt", "uploads", "invoices", "INV.pdf", "api", "v1", "health.json",
   "openapi.json", "canary_doc.docx", "canary_xls.xlsx", "canary_doc_backup.docx",
   "internal-status-report.html", "financial_report_2025.pdf", "meeting-notes-Q4.rtf"}
ShareAll == ShareFiles \union ShareCanaries

\* Every file has a path of plain names, and none is below /admin.
LEMMA ShareFileFacts ==
  ASSUME NEW f \in ShareAll
  PROVE  f \in Seq(PlainName) /\ Len(f) \in 1..4 /\ f[1] # "admin"
  <1>1. ASSUME NEW a \in PlainName, f = <<a>>, a # "admin"
        PROVE  f \in Seq(PlainName) /\ Len(f) \in 1..4 /\ f[1] # "admin"
    BY <1>1
  <1>2. ASSUME NEW a \in PlainName, NEW b \in PlainName, f = <<a, b>>, a # "admin"
        PROVE  f \in Seq(PlainName) /\ Len(f) \in 1..4 /\ f[1] # "admin"
    BY <1>2
  <1>3. ASSUME NEW a \in PlainName, NEW b \in PlainName, NEW c \in PlainName, f = <<a, b, c>>, a # "admin"
        PROVE  f \in Seq(PlainName) /\ Len(f) \in 1..4 /\ f[1] # "admin"
    BY <1>3
  <1>4. ASSUME NEW a \in PlainName, NEW b \in PlainName, NEW c \in PlainName, NEW d \in PlainName,
               f = <<a, b, c, d>>, a # "admin"
        PROVE  f \in Seq(PlainName) /\ Len(f) \in 1..4 /\ f[1] # "admin"
    BY <1>4
  <1>5. \/ f \in {<<"index.html">>, <<"README.txt">>, <<"robots.txt">>, <<".env">>, <<".htaccess">>}
        \/ f \in {<<".git", n>> : n \in {"HEAD", "config", "description", "packed-refs"}}
        \/ f \in {<<".git", "refs", "heads", "main">>, <<".git", "objects", "pack", "pack_idx">>}
        \/ f \in {<<"backups", n>> : n \in {"db_backup.sql.gz", "last_dump_preview.sql",
                                      "customers_export.csv", "financial_summary_2025.csv",
                                      "README.txt"}}
        \/ f \in {<<"docs", n>> : n \in {"runbook.md", "architecture.md", "onboarding.md"}}
        \/ f \in {<<"exports", n>> : n \in {"users_export.csv", "api_call_log_2025-Q4.csv"}}
        \/ f \in {<<"private", n>> : n \in {"credentials.txt", ".htpasswd", "ssh_keys_backup.tar.gz",
                                      "aws_keys_rotation.txt"}}
        \/ f \in {<<"private", "ssl", "private.key">>, <<"private", "ssl", "certificate.crt">>}
        \/ f \in {<<"uploads", "invoices", "INV.pdf">>}
        \/ f \in {<<"api", "v1", "health.json">>, <<"api", "openapi.json">>}
        \/ f \in ShareCanaries
    BY DEF ShareAll, ShareFiles
  <1>n. PlainName =
    {"index.html", "README.txt", "robots.txt", ".env", ".htaccess", ".git", "HEAD", "config",
     "description", "packed-refs", "refs", "heads", "main", "objects", "pack", "pack_idx",
     "backups", "db_backup.sql.gz", "last_dump_preview.sql", "customers_export.csv",
     "financial_summary_2025.csv", "docs", "runbook.md", "architecture.md", "onboarding.md",
     "exports", "users_export.csv", "api_call_log_2025-Q4.csv", "private", "credentials.txt",
     ".htpasswd", "ssh_keys_backup.tar.gz", "aws_keys_rotation.txt", "ssl", "private.key",
     "certificate.crt", "uploads", "invoices", "INV.pdf", "api", "v1", "health.json",
     "openapi.json", "canary_doc.docx", "canary_xls.xlsx", "canary_doc_backup.docx",
     "internal-status-report.html", "financial_report_2025.pdf", "meeting-notes-Q4.rtf"}
    BY DEF PlainName
  <1>6. \/ \E a \in PlainName : f = <<a>> /\ a # "admin"
        \/ \E a, b \in PlainName : f = <<a, b>> /\ a # "admin"
        \/ \E a, b, c \in PlainName : f = <<a, b, c>> /\ a # "admin"
        \/ \E a, b, c, d \in PlainName : f = <<a, b, c, d>> /\ a # "admin"
    <2>1. CASE f \in {<<"index.html">>, <<"README.txt">>, <<"robots.txt">>, <<".env">>, <<".htaccess">>}
      <3>1. PICK a \in {"index.html", "README.txt", "robots.txt", ".env", ".htaccess"} : f = <<a>>
        BY <2>1
      <3>. QED  BY <3>1, <1>n
    <2>2. ASSUME NEW n \in {"HEAD", "config", "description", "packed-refs"}, f = <<".git", n>>
          PROVE  \E a, b \in PlainName : f = <<a, b>> /\ a # "admin"
      BY <2>2, <1>n
    <2>3. CASE f = <<".git", "refs", "heads", "main">>
      BY <2>3, <1>n
    <2>4. CASE f = <<".git", "objects", "pack", "pack_idx">>
      BY <2>4, <1>n
    <2>5. ASSUME NEW n \in {"db_backup.sql.gz", "last_dump_preview.sql", "customers_export.csv",
                            "financial_summary_2025.csv", "README.txt"}, f = <<"backups", n>>
          PROVE  \E a, b \in PlainName : f = <<a, b>> /\ a # "admin"
      BY <2>5, <1>n
    <2>6. ASSUME NEW n \in {"runbook.md", "architecture.md", "onboarding.md"}, f = <<"docs", n>>
          PROVE  \E a, b \in PlainName : f = <<a, b>> /\ a # "admin"
      BY <2>6, <1>n
    <2>7. ASSUME NEW n \in {"users_export.csv", "api_call_log_2025-Q4.csv"}, f = <<"exports", n>>
          PROVE  \E a, b \in PlainName : f = <<a, b>> /\ a # "admin"
      BY <2>7, <1>n
    <2>8. ASSUME NEW n \in {"credentials.txt", ".htpasswd", "ssh_keys_backup.tar.gz", "aws_keys_rotation.txt"},
                 f = <<"private", n>>
          PROVE  \E a, b \in PlainName : f = <<a, b>> /\ a # "admin"
      BY <2>8, <1>n
    <2>9. CASE f = <<"private", "ssl", "private.key">>
      BY <2>9, <1>n
    <2>10. CASE f = <<"private", "ssl", "certificate.crt">>
      BY <2>10, <1>n
    <2>11. CASE f = <<"uploads", "invoices", "INV.pdf">>
      BY <2>11, <1>n
    <2>12. CASE f = <<"api", "v1", "health.json">>
      BY <2>12, <1>n
    <2>13. CASE f = <<"api", "openapi.json">>
      BY <2>13, <1>n
    <2>14. CASE f \in ShareCanaries
      <3>1. PICK a \in {"docs", "exports", "private", "backups"},
                 b \in {"canary_doc.docx", "canary_xls.xlsx", "canary_doc_backup.docx",
                        "internal-status-report.html", "financial_report_2025.pdf", "meeting-notes-Q4.rtf"} :
              f = <<a, b>>
        BY <2>14 DEF ShareCanaries
      <3>. QED  BY <3>1, <1>n
    <2>. QED  BY <1>5, <2>1, <2>2, <2>3, <2>4, <2>5, <2>6, <2>7, <2>8, <2>9, <2>10, <2>11, <2>12, <2>13, <2>14
  <1>. QED  BY <1>1, <1>2, <1>3, <1>4, <1>6

\* A path without dots is its own normal form.
LEMMA PlainNormal ==
  ASSUME NEW S, NEW path \in Seq(S), \A i \in 1..Len(path) : path[i] # "." /\ path[i] # ".."
  PROVE  ShareNorm(path) = path
  <1> DEFINE Def(f) == [i \in 0..Len(path) |->
               IF i = 0 THEN <<>>
               ELSE CASE path[i] = ".." -> IF f[i - 1] = <<>> THEN <<>>
                                           ELSE SubSeq(f[i - 1], 1, Len(f[i - 1]) - 1)
                      [] path[i] = "." -> f[i - 1]
                      [] OTHER -> Append(f[i - 1], path[i])]
             walk == CHOOSE f : f = Def(f)
             g == [i \in 0..Len(path) |-> SubSeq(path, 1, i)]
  <1>1. ShareNorm(path) = walk[Len(path)]
    BY DEF ShareNorm
  <1>2. \A i \in 1..Len(path) : path[i] # "." /\ path[i] # ".."
    OBVIOUS
  <1>3. ASSUME NEW f, NEW i \in 0..Len(path)
        PROVE  Def(f)[i] = IF i = 0 THEN <<>> ELSE Append(f[i - 1], path[i])
    BY <1>2
  <1>4. ASSUME NEW i \in 1..Len(path) PROVE SubSeq(path, 1, i) = Append(SubSeq(path, 1, i - 1), path[i])
    <2> DEFINE a == SubSeq(path, 1, i)
               b == SubSeq(path, 1, i - 1)
    <2>1. a \in Seq(S) /\ Len(a) = i /\ \A j \in 1..i : a[j] = path[j]
      BY <1>4
    <2>2. b \in Seq(S) /\ Len(b) = i - 1 /\ \A j \in 1..(i - 1) : b[j] = path[j]
      BY <1>4
    <2>3. path[i] \in S
      BY <1>4
    <2> HIDE DEF a, b
    <2>4. Append(b, path[i]) \in Seq(S) /\ Len(Append(b, path[i])) = i
      BY <2>2, <2>3
    <2>5. \A j \in 1..i : Append(b, path[i])[j] = path[j]
      BY <2>2, <2>3
    <2>6. a = Append(b, path[i])
      BY <2>1, <2>4, <2>5, SeqEqual
    <2>. QED  BY <2>6 DEF a, b
  <1>5. g = Def(g)
    <2>1. ASSUME NEW i \in 0..Len(path) PROVE g[i] = Def(g)[i]
      <3>1. CASE i = 0
        <4>1. SubSeq(path, 1, 0) = <<>>
          OBVIOUS
        <4>2. Def(g)[i] = <<>>
          BY <1>3, <3>1
        <4>. QED  BY <3>1, <4>1, <4>2
      <3>2. CASE i # 0
        <4>1. i \in 1..Len(path) /\ i - 1 \in 0..Len(path)
          BY <3>2
        <4>2. Def(g)[i] = Append(g[i - 1], path[i])
          BY <1>3, <3>2
        <4>3. g[i - 1] = SubSeq(path, 1, i - 1) /\ g[i] = SubSeq(path, 1, i)
          BY <4>1
        <4>. QED  BY <1>4, <4>1, <4>2, <4>3
      <3>. QED  BY <3>1, <3>2
    <2> DEFINE dg == Def(g)
    <2>2. g = [i \in 0..Len(path) |-> g[i]]
      OBVIOUS
    <2>3. dg = [i \in 0..Len(path) |-> dg[i]]
      OBVIOUS
    <2>4. \A i \in 0..Len(path) : g[i] = dg[i]
      BY <2>1
    <2> HIDE DEF g, dg
    <2>5. g = dg
      BY <2>2, <2>3, <2>4
    <2>. QED  BY <2>5 DEF dg
  <1>6. walk = Def(walk)
    <2> HIDE DEF g, Def
    <2>. QED  BY <1>5
  <1> DEFINE T == {i \in 0..Len(path) : walk[i] # SubSeq(path, 1, i)}
  <1>7. T = {}
    <2> SUFFICES ASSUME T # {} PROVE FALSE
      OBVIOUS
    <2>1. PICK x \in T : \A y \in T : x <= y
      <3>1. T \subseteq Nat
        OBVIOUS
      <3> HIDE DEF T
      <3>. QED  BY <3>1, LeastNumber
    <2>2. x \in 0..Len(path) /\ walk[x] # SubSeq(path, 1, x)
      OBVIOUS
    <2>3. walk[x] = Def(walk)[x]
      <3> HIDE DEF Def, walk
      <3>. QED  BY <1>6
    <2>4. Def(walk)[x] = IF x = 0 THEN <<>> ELSE Append(walk[x - 1], path[x])
      <3> HIDE DEF Def, walk
      <3>. QED  BY <1>3, <2>2
    <2> HIDE DEF walk, Def, g
    <2>5. x # 0
      <3> SUFFICES ASSUME x = 0 PROVE FALSE
        OBVIOUS
      <3>1. SubSeq(path, 1, 0) = <<>>
        OBVIOUS
      <3>. QED  BY <2>2, <2>3, <2>4, <3>1
    <2>6. x \in 1..Len(path) /\ x - 1 \in 0..Len(path) /\ ~(x <= x - 1)
      BY <2>2, <2>5
    <2>7. walk[x - 1] = SubSeq(path, 1, x - 1)
      BY <2>1, <2>6
    <2>. QED  BY <1>4, <2>2, <2>3, <2>4, <2>5, <2>6, <2>7
  <1>8. Len(path) \in 0..Len(path)
    OBVIOUS
  <1>9. SubSeq(path, 1, Len(path)) = path
    <2> DEFINE a == SubSeq(path, 1, Len(path))
    <2>1. a \in Seq(S) /\ Len(a) = Len(path) /\ \A j \in 1..Len(path) : a[j] = path[j]
      OBVIOUS
    <2> HIDE DEF a
    <2>2. a = path
      BY <2>1, SeqEqual
    <2>. QED  BY <2>2 DEF a
  <1>10. walk[Len(path)] = path
    <2> HIDE DEF walk
    <2>. QED  BY <1>7, <1>8, <1>9
  <1>. QED  BY <1>1, <1>10

LEMMA NamesNormal ==
  ASSUME NEW path \in Seq(PlainName)
  PROVE  ShareNorm(path) = path
  <1>1. \A i \in 1..Len(path) : path[i] # "." /\ path[i] # ".."
    BY DEF PlainName
  <1>. QED  BY <1>1, PlainNormal

\* A directory is the beginning of the path of a file.
LEMMA ShareDirIs ==
  ASSUME NEW d
  PROVE  d \in ShareDirs <=> \E f \in ShareAll : \E n \in 0..(Len(f) - 1) : d = SubSeq(f, 1, n)
  <1>1. ASSUME NEW f \in ShareAll PROVE Len(f) \in Nat /\ Len(f) >= 1 /\ SubSeq(f, 1, 0) = <<>>
    BY ShareFileFacts
  <1>2. \E f \in ShareAll : TRUE
    BY DEF ShareAll, ShareFiles
  <1>3. ASSUME d \in ShareDirs PROVE \E f \in ShareAll : \E n \in 0..(Len(f) - 1) : d = SubSeq(f, 1, n)
    <2>1. CASE d = <<>>
      <3>1. PICK f \in ShareAll : TRUE
        BY <1>2
      <3>2. 0 \in 0..(Len(f) - 1)
        BY <1>1
      <3>. QED  BY <1>1, <2>1, <3>2
    <2>2. CASE d # <<>>
      <3>1. PICK f \in ShareAll : \E n \in 1..(Len(f) - 1) : d = SubSeq(f, 1, n)
        BY <1>3, <2>2 DEF ShareDirs, ShareAll
      <3>2. 1..(Len(f) - 1) \subseteq 0..(Len(f) - 1)
        BY <1>1
      <3>. QED  BY <3>1, <3>2
    <2>. QED  BY <2>1, <2>2
  <1>4. ASSUME NEW f \in ShareAll, NEW n \in 0..(Len(f) - 1), d = SubSeq(f, 1, n) PROVE d \in ShareDirs
    <2>1. CASE n = 0
      BY <1>1, <1>4, <2>1 DEF ShareDirs
    <2>2. CASE n # 0
      <3>1. n \in 1..(Len(f) - 1)
        BY <1>1, <2>2
      <3>. QED  BY <1>4, <3>1 DEF ShareDirs, ShareAll
    <2>. QED  BY <2>1, <2>2
  <1>. QED  BY <1>3, <1>4

\* What a path in the tree is made of.
LEMMA ShareBegins ==
  ASSUME NEW f \in ShareAll, NEW n \in 0..Len(f)
  PROVE  LET d == SubSeq(f, 1, n)
         IN  d \in Seq(PlainName) /\ Len(d) = n /\ \A i \in 1..n : d[i] = f[i]
  BY ShareFileFacts

LEMMA ShareDirFacts ==
  ASSUME NEW d \in ShareDirs
  PROVE  d \in Seq(PlainName) /\ ShareNorm(d) = d /\ d # <<"admin">>
  <1>1. PICK f \in ShareAll : \E n \in 0..(Len(f) - 1) : d = SubSeq(f, 1, n)
    BY ShareDirIs
  <1>2. PICK n \in 0..(Len(f) - 1) : d = SubSeq(f, 1, n)
    BY <1>1
  <1>3. f \in Seq(PlainName) /\ Len(f) \in Nat /\ f[1] # "admin"
    BY ShareFileFacts
  <1>4. n \in 0..Len(f)
    BY <1>3
  <1>5. d \in Seq(PlainName) /\ Len(d) = n /\ \A i \in 1..n : d[i] = f[i]
    BY <1>2, <1>4, ShareBegins
  <1>6. d # <<"admin">>
    <2> SUFFICES ASSUME d = <<"admin">> PROVE FALSE
      OBVIOUS
    <2>1. Len(d) = 1 /\ d[1] = "admin"
      OBVIOUS
    <2>2. d[1] = f[1]
      BY <1>5, <2>1
    <2>. QED  BY <1>3, <2>1, <2>2
  <1>. QED  BY <1>5, <1>6, NamesNormal

\* Every beginning of a directory is one.
LEMMA ShareDirsClosed ==
  ASSUME NEW d \in ShareDirs, NEW n \in 0..Len(d)
  PROVE  SubSeq(d, 1, n) \in ShareDirs
  <1>1. PICK f \in ShareAll : \E k \in 0..(Len(f) - 1) : d = SubSeq(f, 1, k)
    BY ShareDirIs
  <1>2. PICK k \in 0..(Len(f) - 1) : d = SubSeq(f, 1, k)
    BY <1>1
  <1>3. f \in Seq(PlainName) /\ Len(f) \in Nat
    BY ShareFileFacts
  <1>4. k \in 0..Len(f)
    BY <1>3
  <1>5. d \in Seq(PlainName) /\ Len(d) = k /\ \A i \in 1..k : d[i] = f[i]
    BY <1>2, <1>4, ShareBegins
  <1>6. n \in 0..(Len(f) - 1) /\ n \in 0..Len(f) /\ n \in 0..k
    BY <1>3, <1>5
  <1> DEFINE a == SubSeq(d, 1, n)
             b == SubSeq(f, 1, n)
  <1>7. a \in Seq(PlainName) /\ Len(a) = n /\ \A i \in 1..n : a[i] = d[i]
    BY <1>5
  <1>8. b \in Seq(PlainName) /\ Len(b) = n /\ \A i \in 1..n : b[i] = f[i]
    BY <1>6, ShareBegins
  <1>9. \A i \in 1..n : i \in 1..k
    BY <1>6
  <1> HIDE DEF a, b
  <1>10. a = b
    BY <1>5, <1>7, <1>8, <1>9, SeqEqual
  <1>. QED  BY <1>6, <1>10, ShareDirIs DEF a, b

\* The path of an entry of a listing.
LEMMA EntryPath ==
  ASSUME NEW dir \in ShareDirs, NEW p \in ShareAll \union ShareDirs, Beneath(dir, p)
  PROVE  /\ Len(dir) + 1 \in 0..Len(p)
         /\ Append(dir, Name(dir, p)) = SubSeq(p, 1, Len(dir) + 1)
         /\ p \in Seq(PlainName)
  <1>1. p \in Seq(PlainName)
    BY ShareFileFacts, ShareDirFacts
  <1>2. dir \in Seq(PlainName)
    BY ShareDirFacts
  <1>3. Len(p) > Len(dir) /\ SubSeq(p, 1, Len(dir)) = dir
    BY DEF Beneath
  <1>4. Len(dir) \in Nat /\ Len(p) \in Nat /\ Len(dir) + 1 \in 0..Len(p) /\ Len(dir) + 1 \in 1..Len(p)
    BY <1>1, <1>2, <1>3
  <1>5. \A i \in 1..Len(dir) : dir[i] = p[i]
    <2>1. Len(dir) \in 0..Len(p)
      BY <1>4
    <2>2. \A i \in 1..Len(dir) : SubSeq(p, 1, Len(dir))[i] = p[i]
      BY <1>1, <2>1
    <2>. QED  BY <1>3, <2>2
  <1> DEFINE k == Len(dir) + 1
             a == Append(dir, Name(dir, p))
             b == SubSeq(p, 1, k)
  <1>6. Name(dir, p) = p[k] /\ p[k] \in PlainName
    BY <1>1, <1>4 DEF Name
  <1>7. a \in Seq(PlainName) /\ Len(a) = k /\ \A i \in 1..k : a[i] = p[i]
    <2>1. a = Append(dir, p[k])
      BY <1>6
    <2>2. Append(dir, p[k]) \in Seq(PlainName) /\ Len(Append(dir, p[k])) = k
      BY <1>2, <1>6
    <2>3. \A i \in 1..k : Append(dir, p[k])[i] = IF i = k THEN p[k] ELSE dir[i]
      BY <1>2, <1>4, <1>6
    <2>4. \A i \in 1..k : i # k => i \in 1..Len(dir)
      BY <1>4
    <2>. QED  BY <1>5, <2>1, <2>2, <2>3, <2>4
  <1>8. b \in Seq(PlainName) /\ Len(b) = k /\ \A i \in 1..k : b[i] = p[i]
    BY <1>1, <1>4
  <1>9. a = b
    <2> HIDE DEF a, b, k
    <2>. QED  BY <1>7, <1>8, SeqEqual
  <1>. QED  BY <1>1, <1>4, <1>9

ShareInv ==
  /\ ListedIsServed
  /\ served.kind = "listing" => served.path \in ShareDirs
  /\ served.kind = "redirect" => ShareNorm(served.path) \in ShareDirs
  /\ served.kind \in {"login", "denied"} => url.path = <<"admin">>

\* What an answer says of the address it answers, typed or followed.
LEMMA ServedFacts ==
  ASSUME NEW u, NEW m, NEW s, s = ServePath(u, m)
  PROVE  /\ s.kind = "listing" => s.path \in ShareDirs
         /\ s.kind = "redirect" => ShareNorm(s.path) \in ShareDirs
         /\ s.kind \in {"login", "denied"} => u.path = <<"admin">>
  <1>1. CASE HasDir(u.path)
    <2>1. CASE u.slash \/ u.path = <<>>
      <3>1. s = ServeDir(u.path, u.autoindex)
        BY <1>1, <2>1 DEF ServePath
      <3>. QED  BY <1>1, <3>1 DEF ServeDir, Page, HasDir
    <2>2. CASE ~(u.slash \/ u.path = <<>>)
      <3>1. s = Page("redirect", u.path)
        BY <1>1, <2>2 DEF ServePath
      <3>. QED  BY <1>1, <3>1 DEF Page, HasDir
    <2>. QED  BY <2>1, <2>2
  <1>2. CASE ~HasDir(u.path) /\ HasFile(u.path)
    <2>1. s = ServeFile(u.path)
      BY <1>2 DEF ServePath
    <2>. QED  BY <2>1 DEF ServeFile, Page
  <1>3. CASE ~HasDir(u.path) /\ ~HasFile(u.path)
    <2>1. s = ScannerResponse(u.path, m)
      BY <1>3 DEF ServePath
    <2>. QED  BY <2>1 DEF ScannerResponse, Page
  <1>. QED  BY <1>1, <1>2, <1>3

LEMMA DirServed ==
  ASSUME NEW d \in ShareDirs, NEW m
  PROVE  ServePath(Url(d, TRUE), m).kind \in {"listing", "index"}
  <1>1. HasDir(d)
    BY ShareDirFacts DEF HasDir
  <1>2. Url(d, TRUE).path = d /\ Url(d, TRUE).slash
    BY DEF Url
  <1>3. ServePath(Url(d, TRUE), m) = ServeDir(d, Url(d, TRUE).autoindex)
    BY <1>1, <1>2 DEF ServePath
  <1>4. ASSUME NEW i PROVE ServeDir(d, i) = Page("index", Append(ShareNorm(d), "index.html"))
                           \/ ServeDir(d, i) = Page("listing", ShareNorm(d))
    BY DEF ServeDir
  <1>5. ASSUME NEW p PROVE Page("index", p).kind = "index" /\ Page("listing", p).kind = "listing"
    BY DEF Page
  <1>6. PICK i : ServePath(Url(d, TRUE), m) = ServeDir(d, i)
    BY <1>3
  <1>. QED  BY <1>4, <1>5, <1>6

\* The links of the root's page.
LEMMA IndexLinksAreDirs ==
  ASSUME NEW path \in IndexLinks, path # <<"admin">>
  PROVE  path \in ShareDirs
  <1>1. ASSUME NEW f \in ShareAll, NEW a \in PlainName, NEW b \in PlainName, f = <<a, b>>
        PROVE  <<a>> \in ShareDirs
    <2>1. 1 \in 0..(Len(f) - 1) /\ 1 \in 0..Len(f) /\ f[1] = a
      BY <1>1
    <2> DEFINE d == SubSeq(f, 1, 1)
    <2>2. d \in Seq(PlainName) /\ Len(d) = 1 /\ \A i \in 1..1 : d[i] = f[i]
      BY <2>1, ShareBegins
    <2>3. <<a>> \in Seq(PlainName) /\ Len(<<a>>) = 1 /\ <<a>>[1] = a
      OBVIOUS
    <2>4. d \in ShareDirs
      BY <2>1, ShareDirIs
    <2> HIDE DEF d
    <2>5. d = <<a>>
      <3>1. \A i \in 1..1 : d[i] = <<a>>[i]
        BY <2>1, <2>2, <2>3
      <3>. QED  BY <2>2, <2>3, <3>1, SeqEqual
    <2>. QED  BY <2>4, <2>5
  <1>2. ASSUME NEW f \in ShareAll, NEW a \in PlainName, NEW b \in PlainName, NEW c \in PlainName, f = <<a, b, c>>
        PROVE  <<a, b>> \in ShareDirs
    <2>1. 2 \in 0..(Len(f) - 1) /\ 2 \in 0..Len(f) /\ f[1] = a /\ f[2] = b
      BY <1>2
    <2> DEFINE d == SubSeq(f, 1, 2)
    <2>2. d \in Seq(PlainName) /\ Len(d) = 2 /\ \A i \in 1..2 : d[i] = f[i]
      BY <2>1, ShareBegins
    <2>3. <<a, b>> \in Seq(PlainName) /\ Len(<<a, b>>) = 2 /\ <<a, b>>[1] = a /\ <<a, b>>[2] = b
      OBVIOUS
    <2>4. d \in ShareDirs
      BY <2>1, ShareDirIs
    <2> HIDE DEF d
    <2>5. d = <<a, b>>
      <3>1. \A i \in 1..2 : d[i] = <<a, b>>[i]
        BY <2>1, <2>2, <2>3
      <3>. QED  BY <2>2, <2>3, <3>1, SeqEqual
    <2>. QED  BY <2>4, <2>5
  <1>3. <<"backups", "README.txt">> \in ShareAll /\ <<"docs", "runbook.md">> \in ShareAll
        /\ <<"exports", "users_export.csv">> \in ShareAll /\ <<"uploads", "invoices", "INV.pdf">> \in ShareAll
    BY DEF ShareAll, ShareFiles
  <1>4. {"backups", "README.txt", "docs", "runbook.md", "exports", "users_export.csv", "uploads", "invoices", "INV.pdf"}
        \subseteq PlainName
    BY DEF PlainName
  <1>. QED  BY <1>1, <1>2, <1>3, <1>4 DEF IndexLinks

LEMMA AdminServed ==
  ASSUME NEW u, u.path = <<"admin">>, NEW m
  PROVE  ServePath(u, m).kind = IF m = "POST" THEN "denied" ELSE "login"
  <1> DEFINE p == <<"admin">>
  <1>1. \A i \in 1..Len(p) : p[i] # "." /\ p[i] # ".."
    OBVIOUS
  <1>2. ShareNorm(p) = p
    <2>1. p \in Seq({"admin"})
      OBVIOUS
    <2>. QED  BY <1>1, <2>1, PlainNormal
  <1>3. p \notin ShareDirs
    BY ShareDirFacts
  <1>4. p \notin ShareAll
    <2> SUFFICES ASSUME p \in ShareAll PROVE FALSE
      OBVIOUS
    <2>1. p[1] = "admin"
      OBVIOUS
    <2>. QED  BY <2>1, ShareFileFacts
  <1>5. ~HasDir(u.path) /\ ~HasFile(u.path)
    BY <1>2, <1>3, <1>4 DEF HasDir, HasFile, ShareAll
  <1>6. ServePath(u, m) = ScannerResponse(p, m)
    BY <1>5 DEF ServePath
  <1>7. ScannerResponse(p, m) = Page(IF m = "POST" THEN "denied" ELSE "login", p)
    <2>1. p # <<"server-status">> /\ p # <<"server-info">> /\ p # <<"wp-login.php">> /\ p # <<"wp-admin">>
          /\ p # <<"phpmyadmin">> /\ p # <<"pma">>
      OBVIOUS
    <2>. QED  BY <2>1 DEF ScannerResponse
  <1>. QED  BY <1>6, <1>7 DEF Page

\* A request keeps the invariant when its answer is what the link promised.
LEMMA GetKeeps ==
  ASSUME NEW u, NEW shown \in {"none", "dir", "file", "login"}, Get(u, shown),
         shown = "dir" => /\ ServePath(u, "GET").kind \in {"listing", "index"}
                          /\ ShareNorm(u.path) \in ShareDirs,
         shown = "file" => /\ ServePath(u, "GET").kind \in {"file", "canary"}
                           /\ ServePath(u, "GET").path = u.path,
         shown = "login" => ServePath(u, "GET").kind = "login"
  PROVE  ShareInv'
  <1>1. url' = u /\ served' = ServePath(u, "GET") /\ promise' = shown
    BY DEF Get
  <1>2. ListedIsServed'
    BY <1>1 DEF ListedIsServed
  <1>3. /\ served'.kind = "listing" => served'.path \in ShareDirs
        /\ served'.kind = "redirect" => ShareNorm(served'.path) \in ShareDirs
        /\ served'.kind \in {"login", "denied"} => url'.path = <<"admin">>
    BY <1>1, ServedFacts
  <1>. QED  BY <1>2, <1>3 DEF ShareInv

LEMMA DirKeeps ==
  ASSUME NEW d \in ShareDirs, Get(Url(d, TRUE), "dir")
  PROVE  ShareInv'
  <1>1. Url(d, TRUE).path = d /\ ShareNorm(d) = d
    BY ShareDirFacts DEF Url
  <1>. QED  BY <1>1, DirServed, GetKeeps

\* An entry of a listing, file or directory, is where the listing says.
LEMMA EntryKeeps ==
  ASSUME NEW dir \in ShareDirs, NEW entry \in ListDir(dir),
         Get(Url(Append(dir, entry.name), entry.isDir), IF entry.isDir THEN "dir" ELSE "file")
  PROVE  ShareInv'
  <1> DEFINE inside == {p \in ShareFiles \union ShareCanaries \union ShareDirs : Beneath(dir, p)}
             files == {Name(dir, p) : p \in {q \in inside \ ShareDirs : Len(q) = Len(dir) + 1}}
  <1>1. ShareNorm(dir) = dir /\ dir \in Seq(PlainName)
    BY ShareDirFacts
  <1>2. ListDir(dir) = {[name |-> n, isDir |-> FALSE] : n \in files}
                       \union {[name |-> n, isDir |-> TRUE] : n \in {Name(dir, p) : p \in inside} \ files}
    BY <1>1 DEF ListDir
  <1>3. ASSUME NEW p, p \in Seq(PlainName) PROVE SubSeq(p, 1, Len(p)) = p
    <2> DEFINE a == SubSeq(p, 1, Len(p))
    <2>1. a \in Seq(PlainName) /\ Len(a) = Len(p) /\ \A j \in 1..Len(p) : a[j] = p[j]
      BY <1>3
    <2> HIDE DEF a
    <2>2. a = p
      BY <1>3, <2>1, SeqEqual
    <2>. QED  BY <2>2 DEF a
  <1>4. CASE entry \in {[name |-> n, isDir |-> FALSE] : n \in files}
    <2>1. PICK p \in inside \ ShareDirs : Len(p) = Len(dir) + 1 /\ entry = [name |-> Name(dir, p), isDir |-> FALSE]
      BY <1>4
    <2>2. p \in ShareAll /\ p \notin ShareDirs /\ Beneath(dir, p)
      BY DEF ShareAll
    <2>3. Append(dir, entry.name) = p /\ p \in Seq(PlainName)
      <3>1. Append(dir, Name(dir, p)) = SubSeq(p, 1, Len(dir) + 1) /\ p \in Seq(PlainName)
        BY <2>2, EntryPath
      <3>2. SubSeq(p, 1, Len(p)) = p
        BY <1>3, <3>1
      <3>. QED  BY <2>1, <3>1, <3>2
    <2>4. Get(Url(p, FALSE), "file")
      BY <2>1, <2>3
    <2>5. Url(p, FALSE).path = p /\ ShareNorm(p) = p
      BY <2>3, NamesNormal DEF Url
    <2>6. ServePath(Url(p, FALSE), "GET") = ServeFile(p)
      BY <2>2, <2>5 DEF ServePath, HasDir, HasFile, ShareAll
    <2>7. ServeFile(p).kind \in {"file", "canary"} /\ ServeFile(p).path = p
      BY <2>5 DEF ServeFile, Page
    <2>. QED  BY <2>4, <2>5, <2>6, <2>7, GetKeeps
  <1>5. CASE entry \in {[name |-> n, isDir |-> TRUE] : n \in {Name(dir, p) : p \in inside} \ files}
    <2>1. PICK p \in inside : Name(dir, p) \notin files /\ entry = [name |-> Name(dir, p), isDir |-> TRUE]
      BY <1>5
    <2>2. p \in ShareAll \union ShareDirs /\ Beneath(dir, p)
      BY DEF ShareAll
    <2> DEFINE k == Len(dir) + 1
               d == Append(dir, entry.name)
    <2>3. k \in 0..Len(p) /\ d = SubSeq(p, 1, k) /\ p \in Seq(PlainName)
      <3>1. entry.name = Name(dir, p)
        BY <2>1
      <3>. QED  BY <2>2, <3>1, EntryPath
    <2>4. p \notin ShareDirs => Len(p) # k
      BY <2>1
    <2>5. d \in ShareDirs
      <3>1. CASE p \in ShareDirs
        BY <2>3, <3>1, ShareDirsClosed
      <3>2. CASE p \notin ShareDirs
        <4>1. p \in ShareAll /\ Len(p) # k
          BY <2>2, <2>4, <3>2
        <4>2. k \in 0..(Len(p) - 1)
          BY <1>1, <2>3, <4>1
        <4> HIDE DEF k, d
        <4>. QED  BY <2>3, <4>1, <4>2, ShareDirIs
      <3>. QED  BY <3>1, <3>2
    <2>6. Get(Url(d, TRUE), "dir")
      BY <2>1
    <2> HIDE DEF d
    <2>. QED  BY <2>5, <2>6, DirKeeps
  <1>. QED  BY <1>2, <1>4, <1>5

LEMMA ShareStep ==
  ASSUME ShareInv, [ShareNext]_shareVars
  PROVE  ShareInv'
  <1>1. CASE UNCHANGED shareVars
    BY <1>1 DEF ShareInv, ListedIsServed, shareVars
  <1>2. ASSUME NEW u \in TypedUrls, Type(u) PROVE ShareInv'
    BY <1>2, GetKeeps DEF Type
  <1>3. ASSUME NEW entry \in ListDir(served.path), FollowEntry(entry) PROVE ShareInv'
    <2>1. served.path \in ShareDirs
      BY <1>3 DEF FollowEntry, ShareInv
    <2>. QED  BY <1>3, <2>1, EntryKeeps DEF FollowEntry
  <1>4. CASE FollowParent
    <2>1. served.path \in ShareDirs /\ served.path \in Seq(PlainName) /\ served.path # <<>>
      BY <1>4, ShareDirFacts DEF FollowParent, ShareInv
    <2>2. Len(served.path) - 1 \in 0..Len(served.path)
      BY <2>1
    <2> DEFINE d == SubSeq(served.path, 1, Len(served.path) - 1)
    <2>3. d \in ShareDirs
      BY <2>1, <2>2, ShareDirsClosed
    <2>4. Get(Url(d, TRUE), "dir")
      BY <1>4 DEF FollowParent
    <2> HIDE DEF d
    <2>. QED  BY <2>3, <2>4, DirKeeps
  <1>5. ASSUME NEW path \in IndexLinks, FollowIndex(path) PROVE ShareInv'
    <2>1. CASE path = <<"admin">>
      <3>1. Get(Url(path, TRUE), "login")
        BY <1>5, <2>1 DEF FollowIndex
      <3>2. Url(path, TRUE).path = <<"admin">>
        BY <2>1 DEF Url
      <3>3. ServePath(Url(path, TRUE), "GET").kind = "login"
        BY <3>2, AdminServed
      <3>. QED  BY <3>1, <3>3, GetKeeps
    <2>2. CASE path # <<"admin">>
      <3>1. path \in ShareDirs
        BY <2>2, IndexLinksAreDirs
      <3>2. Get(Url(path, TRUE), "dir")
        BY <1>5, <2>2 DEF FollowIndex
      <3>. QED  BY <3>1, <3>2, DirKeeps
    <2>. QED  BY <2>1, <2>2
  <1>6. CASE FollowRedirect
    <2>1. ShareNorm(served.path) \in ShareDirs
      BY <1>6 DEF FollowRedirect, ShareInv
    <2>2. Get(Url(ShareNorm(served.path), TRUE), "dir")
      BY <1>6 DEF FollowRedirect
    <2>. QED  BY <2>1, <2>2, DirKeeps
  <1>7. CASE LogIn
    <2>1. url' = url /\ url.path = <<"admin">> /\ served' = ServePath(url, "POST") /\ promise' = "denied"
          /\ (reported' <=> served'.kind = "denied")
      BY <1>7 DEF LogIn, ShareInv
    <2>2. served'.kind = "denied"
      BY <2>1, AdminServed
    <2>3. reported'
      BY <2>1, <2>2
    <2>4. ListedIsServed'
      BY <2>1, <2>2, <2>3 DEF ListedIsServed
    <2>. QED  BY <2>1, <2>2, <2>4 DEF ShareInv
  <1>. QED  BY <1>1, <1>2, <1>3, <1>4, <1>5, <1>6, <1>7 DEF ShareNext

\* File share: whatever a visitor types, every link, redirect and form of the
\* tree leads to what it promised.
THEOREM ShareCorrect == ShareSpec => []ListedIsServed
  <1>1. ShareInit => ShareInv
    <2> SUFFICES ASSUME ShareInit PROVE ShareInv
      OBVIOUS
    <2>1. served.kind = "none" /\ promise = "none"
      BY DEF ShareInit, NoPage, Page
    <2>. QED  BY <2>1 DEF ShareInv, ListedIsServed
  <1>2. ShareInv /\ [ShareNext]_shareVars => ShareInv'
    BY ShareStep
  <1>3. ShareInv => ListedIsServed
    BY DEF ShareInv
  <1>. QED  BY <1>1, <1>2, <1>3, PTL DEF ShareSpec

-----------------------------------------------------------------------------
(* The line editor                                                         *)

\* The recursion of Edited, as far as the first m keys.
Edits(loop, s, m, f) == f = [n \in 0..m |-> IF n = 0 THEN <<>> ELSE Shown(loop, f[n - 1], s[n])]

LEMMA EditsExist ==
  ASSUME NEW loop, NEW s, NEW m \in Nat
  PROVE  \E f : Edits(loop, s, m, f)
  <1> DEFINE T == {n \in Nat : ~\E f : Edits(loop, s, n, f)}
  <1> SUFFICES ASSUME T # {} PROVE FALSE
    OBVIOUS
  <1>1. PICK x \in T : \A y \in T : x <= y
    <2>1. T \subseteq Nat
      OBVIOUS
    <2> HIDE DEF T
    <2>. QED  BY <2>1, LeastNumber
  <1>2. x \in Nat /\ ~\E f : Edits(loop, s, x, f)
    OBVIOUS
  <1>3. x # 0
    <2> SUFFICES ASSUME x = 0 PROVE \E f : Edits(loop, s, x, f)
      BY <1>2
    <2> DEFINE f == [n \in 0..0 |-> <<>>]
               g == [n \in 0..0 |-> IF n = 0 THEN <<>> ELSE Shown(loop, f[n - 1], s[n])]
    <2>1. f = g
      <3>1. \A n \in 0..0 : n = 0
        OBVIOUS
      <3>. QED  BY <3>1
    <2>2. Edits(loop, s, 0, f)
      BY <2>1 DEF Edits
    <2>. QED  BY <2>2
  <1>4. x - 1 \in Nat /\ ~(x <= x - 1)
    BY <1>2, <1>3
  <1>5. PICK f : Edits(loop, s, x - 1, f)
    BY <1>1, <1>4
  <1>6. \A n \in 0..(x - 1) : f[n] = IF n = 0 THEN <<>> ELSE Shown(loop, f[n - 1], s[n])
    BY <1>5 DEF Edits
  <1> DEFINE g == [n \in 0..x |-> IF n = x THEN Shown(loop, f[x - 1], s[x]) ELSE f[n]]
             h == [n \in 0..x |-> IF n = 0 THEN <<>> ELSE Shown(loop, g[n - 1], s[n])]
  <1>7. ASSUME NEW n \in 0..x PROVE g[n] = h[n]
    <2>1. CASE n = x
      <3>1. x - 1 \in 0..x /\ x - 1 # x
        BY <1>2, <1>4
      <3>2. g[x - 1] = f[x - 1]
        BY <3>1
      <3>. QED  BY <1>3, <2>1, <3>2
    <2>2. CASE n # x /\ n # 0
      <3>1. n \in 0..(x - 1) /\ n - 1 \in 0..x /\ n - 1 # x
        BY <1>2, <2>2
      <3>2. g[n - 1] = f[n - 1] /\ g[n] = f[n]
        BY <2>2, <3>1
      <3>. QED  BY <1>6, <2>2, <3>1, <3>2
    <2>3. CASE n = 0
      <3>1. n \in 0..(x - 1) /\ n # x
        BY <1>2, <1>3, <2>3
      <3>. QED  BY <1>6, <2>3, <3>1
    <2>. QED  BY <2>1, <2>2, <2>3
  <1>8. g = h
    <2>1. g = [n \in 0..x |-> g[n]] /\ h = [n \in 0..x |-> h[n]]
      OBVIOUS
    <2> HIDE DEF g, h
    <2>. QED  BY <1>7, <2>1
  <1>9. Edits(loop, s, x, g)
    BY <1>8 DEF Edits
  <1>. QED  BY <1>2, <1>9

\* Two recursions over the same keys agree as far as both go.
LEMMA EditsAgree ==
  ASSUME NEW loop, NEW s, NEW t, NEW m \in Nat, NEW k \in Nat, m <= k,
         \A n \in 1..m : s[n] = t[n],
         NEW f, Edits(loop, s, m, f), NEW g, Edits(loop, t, k, g)
  PROVE  f[m] = g[m]
  <1> DEFINE T == {n \in 0..m : f[n] # g[n]}
  <1> SUFFICES ASSUME T # {} PROVE FALSE
    OBVIOUS
  <1>1. PICK x \in T : \A y \in T : x <= y
    <2>1. T \subseteq Nat
      OBVIOUS
    <2> HIDE DEF T
    <2>. QED  BY <2>1, LeastNumber
  <1>2. x \in 0..m /\ x \in 0..k /\ f[x] # g[x]
    OBVIOUS
  <1>3. f[x] = IF x = 0 THEN <<>> ELSE Shown(loop, f[x - 1], s[x])
    BY <1>2 DEF Edits
  <1>4. g[x] = IF x = 0 THEN <<>> ELSE Shown(loop, g[x - 1], t[x])
    BY <1>2 DEF Edits
  <1>5. CASE x = 0
    BY <1>2, <1>3, <1>4, <1>5
  <1>6. CASE x # 0
    <2>1. x \in 1..m /\ x - 1 \in 0..m /\ ~(x <= x - 1)
      BY <1>2, <1>6
    <2>2. f[x - 1] = g[x - 1]
      BY <1>1, <2>1
    <2>. QED  BY <1>2, <1>3, <1>4, <1>6, <2>1, <2>2
  <1>. QED  BY <1>5, <1>6

LEMMA EditedIs ==
  ASSUME NEW loop, NEW S, NEW s \in Seq(S), NEW f, Edits(loop, s, Len(s), f)
  PROVE  Edited(loop, s) = f[Len(s)]
  <1> DEFINE edit == CHOOSE g : Edits(loop, s, Len(s), g)
  <1>1. Edited(loop, s) = edit[Len(s)]
    BY DEF Edited, Edits
  <1>2. Edits(loop, s, Len(s), edit)
    OBVIOUS
  <1> HIDE DEF edit
  <1>3. Len(s) \in Nat /\ Len(s) <= Len(s)
    OBVIOUS
  <1>4. edit[Len(s)] = f[Len(s)]
    BY <1>2, <1>3, EditsAgree
  <1>. QED  BY <1>1, <1>4

\* Nothing typed is an empty line, and one more key edits what was shown.
LEMMA EditedEmpty ==
  ASSUME NEW loop
  PROVE  Edited(loop, <<>>) = <<>>
  <1> DEFINE s == <<>>
  <1>1. s \in Seq(STRING) /\ Len(s) = 0
    OBVIOUS
  <1>2. PICK f : Edits(loop, s, 0, f)
    BY EditsExist
  <1>3. Edited(loop, s) = f[0]
    BY <1>1, <1>2, EditedIs
  <1>4. f[0] = <<>>
    <2>1. 0 \in 0..0
      OBVIOUS
    <2>. QED  BY <1>2, <2>1 DEF Edits
  <1>. QED  BY <1>3, <1>4

LEMMA EditedAppend ==
  ASSUME NEW loop, NEW S, NEW s \in Seq(S), NEW k \in S
  PROVE  Edited(loop, Append(s, k)) = Shown(loop, Edited(loop, s), k)
  <1> DEFINE t == Append(s, k)
             m == Len(s)
  <1>1. t \in Seq(S) /\ Len(t) = m + 1 /\ m \in Nat /\ m + 1 \in Nat /\ t[m + 1] = k
        /\ \A n \in 1..m : s[n] = t[n]
    OBVIOUS
  <1> HIDE DEF t
  <1>2. PICK f : Edits(loop, s, m, f)
    BY <1>1, EditsExist
  <1>3. PICK g : Edits(loop, t, m + 1, g)
    BY <1>1, EditsExist
  <1>4. Edited(loop, s) = f[m]
    BY <1>2, EditedIs
  <1>5. Edited(loop, t) = g[m + 1]
    BY <1>1, <1>3, EditedIs
  <1> HIDE DEF m
  <1>6. f[m] = g[m]
    BY <1>1, <1>2, <1>3, EditsAgree
  <1>7. g[m + 1] = Shown(loop, g[m], t[m + 1])
    <2>1. m + 1 \in 0..(m + 1) /\ m + 1 # 0 /\ (m + 1) - 1 = m
      BY <1>1
    <2>2. g[m + 1] = Shown(loop, g[(m + 1) - 1], t[m + 1])
      BY <1>3, <2>1 DEF Edits
    <2>. QED  BY <2>1, <2>2
  <1>. QED  BY <1>1, <1>4, <1>5, <1>6, <1>7 DEF t

\* What one more key adds to the ends.
LEMMA EndsAppend ==
  ASSUME NEW s \in Seq(Keys), NEW k \in Keys
  PROVE  EndsAt(Append(s, k)) =
           EndsAt(s) \cup (IF k = CR \/ (k = LF /\ ~(Len(s) # 0 /\ s[Len(s)] = CR)) THEN {Len(s) + 1} ELSE {})
  <1> DEFINE t == Append(s, k)
             m == Len(s)
  <1>1. m \in Nat /\ DOMAIN s = 1..m /\ DOMAIN t = 1..(m + 1) /\ t[m + 1] = k /\ \A i \in 1..m : t[i] = s[i]
    OBVIOUS
  <1> HIDE DEF t, m
  <1>2. ASSUME NEW i \in 1..m PROVE i \in EndsAt(t) <=> i \in EndsAt(s)
    <2>1. i > 1 => i - 1 \in 1..m
      BY <1>1
    <2>2. i \in 1..(m + 1) /\ t[i] = s[i] /\ (i > 1 => t[i - 1] = s[i - 1])
      BY <1>1, <2>1
    <2>. QED  BY <1>1, <2>2 DEF EndsAt
  <1>3. m + 1 \in EndsAt(t) <=> k = CR \/ (k = LF /\ ~(m # 0 /\ s[m] = CR))
    <2>1. m + 1 \in 1..(m + 1) /\ (m + 1 > 1 <=> m # 0) /\ (m + 1) - 1 = m
      BY <1>1
    <2>2. m # 0 => t[m] = s[m]
      <3>1. m # 0 => m \in 1..m
        BY <1>1
      <3>. QED  BY <1>1, <3>1
    <2>. QED  BY <1>1, <2>1, <2>2 DEF EndsAt
  <1>4. EndsAt(t) \subseteq 1..(m + 1) /\ EndsAt(s) \subseteq 1..m
    BY <1>1 DEF EndsAt
  <1>5. 1..(m + 1) = 1..m \cup {m + 1} /\ m + 1 \notin 1..m
    BY <1>1
  <1>. QED  BY <1>2, <1>3, <1>4, <1>5 DEF t, m

LEMMA PartAppend ==
  ASSUME NEW s \in Seq(Keys), NEW k \in Keys, NEW a \in 1..(Len(s) + 1), NEW b \in 0..Len(s)
  PROVE  /\ SubSeq(Append(s, k), a, b) = SubSeq(s, a, b)
         /\ SubSeq(Append(s, k), a, Len(s) + 1) = Append(SubSeq(s, a, Len(s)), k)
         /\ SubSeq(s, a, b) \in Seq(Keys)
  <1> DEFINE t == Append(s, k)
             m == Len(s)
  <1>1. m \in Nat /\ t \in Seq(Keys) /\ Len(t) = m + 1 /\ t[m + 1] = k /\ \A i \in 1..m : t[i] = s[i]
    OBVIOUS
  <1>2. a \in Nat /\ b \in Nat /\ a >= 1 /\ a <= m + 1 /\ b <= m
    BY <1>1
  <1>3. SubSeq(s, a, b) \in Seq(Keys)
    BY <1>2
  <1>4. SubSeq(t, a, b) = SubSeq(s, a, b)
    <2> DEFINE u == SubSeq(t, a, b)
               v == SubSeq(s, a, b)
               n == IF a <= b THEN b - a + 1 ELSE 0
    <2>1. n \in Nat
      BY <1>2
    <2> HIDE DEF t
    <2>2. u \in Seq(Keys) /\ Len(u) = n /\ \A i \in 1..n : u[i] = t[a + i - 1]
      BY <1>1, <1>2
    <2>3. v \in Seq(Keys) /\ Len(v) = n /\ \A i \in 1..n : v[i] = s[a + i - 1]
      BY <1>2
    <2>4. \A i \in 1..n : a + i - 1 \in 1..m
      BY <1>1, <1>2
    <2> HIDE DEF u, v, n
    <2>5. u = v
      BY <1>1, <2>2, <2>3, <2>4, SeqEqual
    <2>. QED  BY <2>5 DEF u, v
  <1>5. SubSeq(t, a, m + 1) = Append(SubSeq(s, a, m), k)
    <2> DEFINE u == SubSeq(t, a, m + 1)
               v == SubSeq(s, a, m)
               n == m + 1 - a
    <2>1. n \in Nat
      BY <1>2
    <2> HIDE DEF t
    <2>2. u \in Seq(Keys) /\ Len(u) = n + 1 /\ \A i \in 1..(n + 1) : u[i] = t[a + i - 1]
      BY <1>1, <1>2
    <2>3. v \in Seq(Keys) /\ Len(v) = n /\ \A i \in 1..n : v[i] = s[a + i - 1]
      BY <1>2
    <2>4. \A i \in 1..n : a + i - 1 \in 1..m
      BY <1>1, <1>2
    <2>5. a + (n + 1) - 1 = m + 1
      BY <1>1, <1>2
    <2> DEFINE w == Append(v, k)
    <2> HIDE DEF u, v, n
    <2>6. w \in Seq(Keys) /\ Len(w) = n + 1 /\ w[n + 1] = k /\ \A i \in 1..n : w[i] = v[i]
      BY <2>1, <2>3
    <2>7. \A i \in 1..(n + 1) : u[i] = w[i]
      <3> SUFFICES ASSUME NEW i \in 1..(n + 1) PROVE u[i] = w[i]
        OBVIOUS
      <3>1. CASE i = n + 1
        BY <1>1, <2>2, <2>5, <2>6, <3>1
      <3>2. CASE i # n + 1
        <4>1. i \in 1..n
          BY <2>1, <3>2
        <4>. QED  BY <1>1, <2>2, <2>3, <2>4, <2>6, <4>1
      <3>. QED  BY <3>1, <3>2
    <2> HIDE DEF w
    <2>8. u = w
      BY <2>2, <2>6, <2>7, SeqEqual
    <2>. QED  BY <2>8 DEF u, v, w
  <1>. QED  BY <1>3, <1>4, <1>5 DEF t, m

LastEnd(e, n) == IF n = 0 THEN 0 ELSE e[n]

\* These are the ends of the logged lines.
LinesAt(loop, s, lg, e) ==
  /\ e \in [1..Len(lg) -> EndsAt(s)]
  /\ \A m, n \in 1..Len(lg) : m < n => e[m] < e[n]
  /\ \A n \in 1..Len(lg) : lg[n] = Edited(loop, KeysOfLine(s, e, n))

\* Every line is logged, and the rest of the keys is in the buffer.
Complete(loop, s, lg, b, e) ==
  /\ LinesAt(loop, s, lg, e)
  /\ \A i \in EndsAt(s) : \E n \in 1..Len(lg) : e[n] = i
  /\ b = Edited(loop, SubSeq(s, LastEnd(e, Len(lg)) + 1, Len(s)))

\* The first lines are logged.
Begun(loop, s, lg, e) ==
  /\ LinesAt(loop, s, lg, e)
  /\ \A i \in EndsAt(s) : (\E n \in 1..Len(lg) : e[n] = i) \/ (\A n \in 1..Len(lg) : e[n] < i)

Finishes(s, k) == k = CR \/ (k = LF /\ ~(Len(s) # 0 /\ s[Len(s)] = CR))

LEMMA EndsInside ==
  ASSUME NEW s \in Seq(Keys)
  PROVE  EndsAt(s) \subseteq 1..Len(s)
  BY DEF EndsAt

\* One more key changes nothing about the lines there are.
LEMMA LinesStay ==
  ASSUME NEW loop, NEW s \in Seq(Keys), NEW k \in Keys, NEW S, NEW lg \in Seq(S), NEW e, LinesAt(loop, s, lg, e)
  PROVE  LinesAt(loop, Append(s, k), lg, e)
  <1> DEFINE t == Append(s, k)
  <1>1. EndsAt(s) \subseteq EndsAt(t)
    BY EndsAppend
  <1>2. e \in [1..Len(lg) -> EndsAt(s)] /\ \A m, n \in 1..Len(lg) : m < n => e[m] < e[n]
    BY DEF LinesAt
  <1>3. e \in [1..Len(lg) -> EndsAt(t)]
    BY <1>1, <1>2
  <1>4. ASSUME NEW n \in 1..Len(lg) PROVE KeysOfLine(t, e, n) = KeysOfLine(s, e, n)
    <2> DEFINE a == (IF n = 1 THEN 0 ELSE e[n - 1]) + 1
               b == e[n] - 1
    <2>1. Len(s) \in Nat /\ e[n] \in 1..Len(s)
      BY <1>2, EndsInside
    <2>2. n # 1 => e[n - 1] \in 1..Len(s)
      <3>1. n # 1 => n - 1 \in 1..Len(lg)
        OBVIOUS
      <3>. QED  BY <1>2, <3>1, EndsInside
    <2>3. a \in 1..(Len(s) + 1) /\ b \in 0..Len(s)
      BY <2>1, <2>2
    <2> HIDE DEF a, b
    <2>4. SubSeq(t, a, b) = SubSeq(s, a, b)
      BY <2>3, PartAppend
    <2>. QED  BY <2>4 DEF KeysOfLine, a, b
  <1> HIDE DEF t
  <1>. QED  BY <1>2, <1>3, <1>4 DEF LinesAt, t

LEMMA LastEndInside ==
  ASSUME NEW s \in Seq(Keys), NEW S, NEW lg \in Seq(S), NEW e \in [1..Len(lg) -> EndsAt(s)]
  PROVE  LastEnd(e, Len(lg)) \in 0..Len(s) /\ \A n \in 1..Len(lg) : e[n] \in 1..Len(s)
  <1>1. Len(lg) \in Nat /\ Len(s) \in Nat
    OBVIOUS
  <1>2. \A n \in 1..Len(lg) : e[n] \in 1..Len(s)
    BY EndsInside
  <1>3. Len(lg) # 0 => Len(lg) \in 1..Len(lg)
    BY <1>1
  <1>. QED  BY <1>1, <1>2, <1>3 DEF LastEnd

LEMMA KeyOn ==
  ASSUME NEW loop, NEW s \in Seq(Keys), NEW k \in Keys, ~Finishes(s, k), NEW S, NEW lg \in Seq(S), NEW b, NEW e,
         Complete(loop, s, lg, b, e)
  PROVE  Complete(loop, Append(s, k), lg, Shown(loop, b, k), e)
  <1> DEFINE t == Append(s, k)
             a == LastEnd(e, Len(lg)) + 1
  <1>1. LinesAt(loop, s, lg, e) /\ e \in [1..Len(lg) -> EndsAt(s)]
    BY DEF Complete, LinesAt
  <1>2. LinesAt(loop, t, lg, e)
    BY <1>1, LinesStay
  <1>3. EndsAt(t) = EndsAt(s)
    BY EndsAppend DEF Finishes
  <1>4. a \in 1..(Len(s) + 1)
    <2>1. LastEnd(e, Len(lg)) \in 0..Len(s) /\ Len(s) \in Nat
      BY <1>1, LastEndInside
    <2>. QED  BY <2>1
  <1> HIDE DEF a
  <1>5. SubSeq(t, a, Len(s) + 1) = Append(SubSeq(s, a, Len(s)), k) /\ SubSeq(s, a, Len(s)) \in Seq(Keys)
    <2>1. Len(s) \in 0..Len(s)
      OBVIOUS
    <2>. QED  BY <1>4, <2>1, PartAppend
  <1>6. Edited(loop, SubSeq(t, a, Len(s) + 1)) = Shown(loop, Edited(loop, SubSeq(s, a, Len(s))), k)
    <2> DEFINE r == SubSeq(s, a, Len(s))
    <2>1. r \in Seq(Keys) /\ SubSeq(t, a, Len(s) + 1) = Append(r, k)
      BY <1>5
    <2> HIDE DEF r
    <2>2. Edited(loop, Append(r, k)) = Shown(loop, Edited(loop, r), k)
      BY <2>1, EditedAppend
    <2>. QED  BY <2>1, <2>2 DEF r
  <1>7. Len(t) = Len(s) + 1
    OBVIOUS
  <1>8. b = Edited(loop, SubSeq(s, a, Len(s)))
    BY DEF Complete, a
  <1>9. Shown(loop, b, k) = Edited(loop, SubSeq(t, LastEnd(e, Len(lg)) + 1, Len(t)))
    BY <1>6, <1>7, <1>8 DEF a
  <1>10. \A i \in EndsAt(t) : \E n \in 1..Len(lg) : e[n] = i
    BY <1>3 DEF Complete
  <1>. QED  BY <1>2, <1>9, <1>10 DEF Complete

LEMMA Lost ==
  ASSUME NEW loop, NEW s \in Seq(Keys), NEW k \in Keys, NEW S, NEW lg \in Seq(S), NEW b, NEW e,
         Complete(loop, s, lg, b, e)
  PROVE  Begun(loop, Append(s, k), lg, e)
  <1>1. LinesAt(loop, s, lg, e) /\ e \in [1..Len(lg) -> EndsAt(s)]
    BY DEF Complete, LinesAt
  <1>2. LinesAt(loop, Append(s, k), lg, e)
    BY <1>1, LinesStay
  <1>3. \A n \in 1..Len(lg) : e[n] < Len(s) + 1
    <2>1. \A n \in 1..Len(lg) : e[n] \in 1..Len(s)
      BY <1>1, LastEndInside
    <2>2. Len(s) \in Nat
      OBVIOUS
    <2>. QED  BY <2>1, <2>2
  <1>4. EndsAt(Append(s, k)) \subseteq EndsAt(s) \cup {Len(s) + 1}
    BY EndsAppend
  <1>5. \A i \in EndsAt(s) : \E n \in 1..Len(lg) : e[n] = i
    BY DEF Complete
  <1>. QED  BY <1>2, <1>3, <1>4, <1>5 DEF Begun

LEMMA LineOn ==
  ASSUME NEW loop, NEW s \in Seq(Keys), NEW k \in Keys, Finishes(s, k), NEW S, NEW lg \in Seq(S), NEW b \in S, NEW e,
         Complete(loop, s, lg, b, e)
  PROVE  \E d : Complete(loop, Append(s, k), Append(lg, b), <<>>, d)
  <1> DEFINE t == Append(s, k)
             m == Len(lg)
             l == Append(lg, b)
             d == [n \in 1..(m + 1) |-> IF n = m + 1 THEN Len(s) + 1 ELSE e[n]]
  <1>1. LinesAt(loop, s, lg, e) /\ e \in [1..m -> EndsAt(s)]
    BY DEF Complete, LinesAt
  <1>2. m \in Nat /\ Len(s) \in Nat /\ Len(t) = Len(s) + 1 /\ Len(l) = m + 1 /\ l[m + 1] = b
        /\ \A n \in 1..m : l[n] = lg[n]
    OBVIOUS
  <1>3. EndsAt(t) = EndsAt(s) \cup {Len(s) + 1}
    BY EndsAppend DEF Finishes
  <1>4. LinesAt(loop, t, lg, e)
    BY <1>1, LinesStay
  <1>5. \A n \in 1..m : e[n] \in 1..Len(s)
    BY <1>1, LastEndInside
  <1> HIDE DEF t, l, m
  <1>6. d[m + 1] = Len(s) + 1 /\ \A n \in 1..m : d[n] = e[n] /\ n \in 1..(m + 1)
    BY <1>2
  <1>7. \A n \in 1..(m + 1) : n = m + 1 \/ n \in 1..m
    BY <1>2
  <1>8. d \in [1..(m + 1) -> EndsAt(t)]
    <2>1. \A n \in 1..m : e[n] \in EndsAt(s)
      BY <1>1
    <2>. QED  BY <1>3, <1>6, <1>7, <2>1
  <1> HIDE DEF d
  <1>9. ASSUME NEW i \in 1..(m + 1), NEW n \in 1..(m + 1), i < n PROVE d[i] < d[n]
    <2>1. i \in 1..m
      BY <1>2, <1>9
    <2>2. CASE n = m + 1
      <3>1. d[i] \in 1..Len(s)
        BY <1>5, <1>6, <2>1
      <3>2. d[n] = Len(s) + 1
        BY <1>6, <2>2
      <3>. QED  BY <1>2, <3>1, <3>2
    <2>3. CASE n \in 1..m
      BY <1>1, <1>6, <1>9, <2>1, <2>3 DEF LinesAt, m
    <2>. QED  BY <1>7, <2>2, <2>3
  <1>10. ASSUME NEW n \in 1..(m + 1) PROVE l[n] = Edited(loop, KeysOfLine(t, d, n))
    <2>1. CASE n \in 1..m
      <3>1. n # 1 => n - 1 \in 1..m
        BY <1>2, <2>1
      <3>2. KeysOfLine(t, d, n) = KeysOfLine(t, e, n)
        BY <1>6, <2>1, <3>1 DEF KeysOfLine
      <3>3. lg[n] = Edited(loop, KeysOfLine(t, e, n))
        BY <1>4, <2>1 DEF LinesAt, m
      <3>. QED  BY <1>2, <2>1, <3>2, <3>3
    <2>2. CASE n = m + 1
      <3> DEFINE a == LastEnd(e, m) + 1
      <3>1. (IF n = 1 THEN 0 ELSE d[n - 1]) = LastEnd(e, m)
        <4>1. CASE m = 0
          BY <2>2, <4>1 DEF LastEnd
        <4>2. CASE m # 0
          <5>1. n # 1 /\ n - 1 = m /\ m \in 1..m
            BY <1>2, <2>2, <4>2
          <5>. QED  BY <1>6, <4>2, <5>1 DEF LastEnd
        <4>. QED  BY <4>1, <4>2
      <3>2. d[n] - 1 = Len(s)
        BY <1>2, <1>6, <2>2
      <3>3. KeysOfLine(t, d, n) = SubSeq(t, a, Len(s))
        BY <3>1, <3>2 DEF KeysOfLine
      <3>4. a \in 1..(Len(s) + 1) /\ Len(s) \in 0..Len(s)
        <4>1. LastEnd(e, m) \in 0..Len(s)
          BY <1>1, LastEndInside DEF m
        <4>. QED  BY <1>2, <4>1
      <3>5. b = Edited(loop, SubSeq(s, a, Len(s)))
        BY DEF Complete, m
      <3> HIDE DEF a
      <3>6. SubSeq(t, a, Len(s)) = SubSeq(s, a, Len(s))
        BY <3>4, PartAppend DEF t
      <3>. QED  BY <1>2, <2>2, <3>3, <3>5, <3>6
    <2>. QED  BY <1>7, <2>1, <2>2
  <1>11. LinesAt(loop, t, l, d)
    BY <1>2, <1>8, <1>9, <1>10 DEF LinesAt
  <1>12. \A i \in EndsAt(t) : \E n \in 1..(m + 1) : d[n] = i
    <2> SUFFICES ASSUME NEW i \in EndsAt(t) PROVE \E n \in 1..(m + 1) : d[n] = i
      OBVIOUS
    <2>1. CASE i \in EndsAt(s)
      <3>1. PICK n \in 1..m : e[n] = i
        BY <2>1 DEF Complete, m
      <3>. QED  BY <1>6, <3>1
    <2>2. CASE i = Len(s) + 1
      <3>1. m + 1 \in 1..(m + 1)
        BY <1>2
      <3>. QED  BY <1>6, <2>2, <3>1
    <2>. QED  BY <1>3, <2>1, <2>2
  <1>13. Edited(loop, SubSeq(t, LastEnd(d, m + 1) + 1, Len(t))) = <<>>
    <2>1. LastEnd(d, m + 1) = Len(s) + 1
      BY <1>2, <1>6 DEF LastEnd
    <2>2. SubSeq(t, Len(s) + 2, Len(s) + 1) = <<>>
      <3>1. t \in Seq(Keys)
        BY DEF t
      <3>. QED  BY <1>2, <3>1
    <2>3. LastEnd(d, m + 1) + 1 = Len(s) + 2
      BY <1>2, <2>1
    <2>. QED  BY <1>2, <2>2, <2>3, EditedEmpty
  <1>14. Complete(loop, t, l, <<>>, d)
    BY <1>2, <1>11, <1>12, <1>13 DEF Complete
  <1>. QED  BY <1>14 DEF t, l

KeysInv == /\ taken \in Seq(Keys) /\ data \in Seq(Keys) /\ typed \in Seq(Keys)
           /\ buf \in Seq(Keys) /\ logged \in Seq(Seq(Keys))
           /\ last_was_cr \in BOOLEAN
           /\ last_was_cr <=> Len(taken) # 0 /\ taken[Len(taken)] = CR

\* Only a loop that lost its client loses lines.
TollInv == IF status = "failed" THEN ~present /\ \E e : Begun(twin, taken, logged, e)
           ELSE \E e : Complete(twin, taken, logged, buf, e)

EditorInv == KeysInv /\ TollInv

LEMMA TookKey ==
  ASSUME EditorInv, NEW k, Takes(k)
  PROVE  /\ k \in Keys /\ data' \in Seq(Keys) /\ typed' \in Seq(Keys)
         /\ taken' = Append(taken, k) /\ taken' \in Seq(Keys)
         /\ Len(taken') # 0 /\ taken'[Len(taken')] = k
         /\ twin' = twin /\ present' = present
         /\ \E e : Complete(twin, taken, logged, buf, e)
  <1>1. status = "on" /\ data # <<>> /\ Head(data) = k /\ data' = Tail(data) /\ taken' = Append(taken, k)
        /\ typed' = typed /\ twin' = twin /\ present' = present
    BY DEF Takes
  <1>2. data \in Seq(Keys) /\ taken \in Seq(Keys) /\ typed \in Seq(Keys)
    BY DEF EditorInv, KeysInv
  <1>3. k \in Keys /\ data' \in Seq(Keys)
    BY <1>1, <1>2
  <1>4. taken' \in Seq(Keys) /\ Len(taken') # 0 /\ taken'[Len(taken')] = k
    BY <1>1, <1>2, <1>3
  <1>. QED  BY <1>1, <1>2, <1>3, <1>4 DEF EditorInv, TollInv

\* A key that ends no line, and edits the one in the buffer.
LEMMA KeyStep ==
  ASSUME EditorInv, NEW k \in Keys, k # CR, k = LF => last_was_cr,
         \E e : Complete(twin, taken, logged, buf, e),
         taken' = Append(taken, k), data' \in Seq(Keys), typed' \in Seq(Keys),
         twin' = twin, present' = present, logged' = logged,
         buf' = Shown(twin, buf, k), buf' \in Seq(Keys),
         last_was_cr' = FALSE, status' = "failed" => ~present
  PROVE  EditorInv'
  <1>1. taken \in Seq(Keys) /\ logged \in Seq(Seq(Keys))
    BY DEF EditorInv, KeysInv
  <1>2. ~Finishes(taken, k)
    BY DEF EditorInv, KeysInv, Finishes
  <1>3. PICK e : Complete(twin, taken, logged, buf, e)
    OBVIOUS
  <1>4. Complete(twin', taken', logged', buf', e)
    BY <1>1, <1>2, <1>3, KeyOn
  <1>5. Begun(twin', taken', logged', e)
    BY <1>1, <1>3, Lost
  <1>6. KeysInv'
    <2>1. taken' \in Seq(Keys) /\ taken'[Len(taken')] = k
      BY <1>1
    <2>. QED  BY <1>1, <2>1 DEF KeysInv
  <1>7. TollInv'
    BY <1>4, <1>5 DEF TollInv
  <1>. QED  BY <1>6, <1>7 DEF EditorInv

\* The answer to a key cannot be sent any more.
LEMMA FailStep ==
  ASSUME EditorInv, NEW k, KeyFails(k), last_was_cr' = (k = CR)
  PROVE  EditorInv'
  <1>1. ~present /\ Takes(k) /\ status' = "failed" /\ buf' = buf /\ logged' = logged
    BY DEF KeyFails
  <1>2. taken \in Seq(Keys) /\ logged \in Seq(Seq(Keys)) /\ buf \in Seq(Keys)
    BY DEF EditorInv, KeysInv
  <1>3. /\ k \in Keys /\ data' \in Seq(Keys) /\ typed' \in Seq(Keys)
        /\ taken' = Append(taken, k) /\ taken' \in Seq(Keys)
        /\ Len(taken') # 0 /\ taken'[Len(taken')] = k
        /\ twin' = twin /\ present' = present
    BY <1>1, TookKey
  <1>4. PICK e : Complete(twin, taken, logged, buf, e)
    BY <1>1, TookKey
  <1>5. Begun(twin', taken', logged', e)
    BY <1>1, <1>2, <1>3, <1>4, Lost
  <1>6. KeysInv'
    BY <1>1, <1>2, <1>3 DEF KeysInv
  <1>7. TollInv'
    BY <1>1, <1>3, <1>5 DEF TollInv
  <1>. QED  BY <1>6, <1>7 DEF EditorInv

LEMMA LineStep ==
  ASSUME EditorInv, NEW k, LineEnd(k)
  PROVE  EditorInv'
  <1>1. (k = CR \/ (k = LF /\ ~last_was_cr)) /\ last_was_cr' = (k = CR)
    BY DEF LineEnd
  <1>2. CASE KeyFails(k)
    BY <1>1, <1>2, FailStep
  <1>3. CASE ~KeyFails(k)
    <2>1. Takes(k) /\ logged' = Append(logged, buf) /\ buf' = <<>> /\ status' # "failed"
      BY <1>3 DEF LineEnd
    <2>2. taken \in Seq(Keys) /\ logged \in Seq(Seq(Keys)) /\ buf \in Seq(Keys)
      BY DEF EditorInv, KeysInv
    <2>3. /\ k \in Keys /\ data' \in Seq(Keys) /\ typed' \in Seq(Keys)
          /\ taken' = Append(taken, k) /\ taken' \in Seq(Keys)
          /\ Len(taken') # 0 /\ taken'[Len(taken')] = k
          /\ twin' = twin /\ present' = present
      BY <2>1, TookKey
    <2>4. PICK e : Complete(twin, taken, logged, buf, e)
      BY <2>1, TookKey
    <2>5. Finishes(taken, k)
      BY <1>1 DEF EditorInv, KeysInv, Finishes
    <2>6. \E d : Complete(twin', taken', logged', buf', d)
      BY <2>1, <2>2, <2>3, <2>4, <2>5, LineOn
    <2>7. KeysInv'
      <3>1. logged' \in Seq(Seq(Keys)) /\ buf' \in Seq(Keys)
        BY <2>1, <2>2
      <3>. QED  BY <1>1, <2>3, <3>1 DEF KeysInv
    <2>8. TollInv'
      BY <2>1, <2>6 DEF TollInv
    <2>. QED  BY <2>7, <2>8 DEF EditorInv
  <1>. QED  BY <1>2, <1>3

\* A key taken out of the packet that edits the buffer.
LEMMA TakeStep ==
  ASSUME EditorInv, NEW k, Takes(k), k # CR, k = LF => last_was_cr,
         logged' = logged, buf' = Shown(twin, buf, k), buf' \in Seq(Keys),
         last_was_cr' = FALSE, status' # "failed"
  PROVE  EditorInv'
  <1>1. /\ k \in Keys /\ data' \in Seq(Keys) /\ typed' \in Seq(Keys)
        /\ taken' = Append(taken, k)
        /\ twin' = twin /\ present' = present
        /\ \E e : Complete(twin, taken, logged, buf, e)
    BY TookKey
  <1>. QED  BY <1>1, KeyStep

LEMMA KeyNames ==
  /\ CR # LF /\ CR # Erase /\ CR # CtrlC /\ CR # CtrlD /\ LF # Erase /\ LF # CtrlC /\ LF # CtrlD
  /\ Erase # CtrlC /\ Erase # CtrlD /\ CtrlC # CtrlD
  /\ \A k \in Letters : k \notin {CR, LF, Erase, CtrlC, CtrlD}
  BY LettersAssumption DEF CR, LF, Erase, CtrlC, CtrlD

LEMMA ShownKeys ==
  ASSUME NEW loop, NEW b \in Seq(Keys)
  PROVE  /\ Shown(loop, b, CtrlC) = <<>>
         /\ Shown(loop, b, Erase) = (IF b = <<>> THEN b ELSE Front(b))
         /\ Shown(loop, b, LF) = b
         /\ loop = "ssh" => Shown(loop, b, CtrlD) = b
         /\ (IF b = <<>> THEN b ELSE Front(b)) \in Seq(Keys)
  <1>1. /\ Shown(loop, b, CtrlC) = <<>>
        /\ Shown(loop, b, Erase) = (IF b = <<>> THEN b ELSE Front(b))
        /\ Shown(loop, b, LF) = b
        /\ loop = "ssh" => Shown(loop, b, CtrlD) = b
    BY KeyNames DEF Shown
  <1>3. b # <<>> => Front(b) \in Seq(Keys)
    BY DEF Front
  <1>. QED  BY <1>1, <1>3

LEMMA ShownLetter ==
  ASSUME NEW loop, NEW b, NEW k, k \in Letters \/ (k = CtrlD /\ loop # "ssh")
  PROVE  Shown(loop, b, k) = Append(b, k)
  BY KeyNames DEF Shown

LEMMA EditorStep ==
  ASSUME EditorInv, [EditorNext]_editorVars
  PROVE  EditorInv'
  <1>b. buf \in Seq(Keys) /\ taken \in Seq(Keys) /\ typed \in Seq(Keys) /\ data \in Seq(Keys)
    BY DEF EditorInv, KeysInv
  <1>1. CASE UNCHANGED editorVars
    BY <1>1 DEF EditorInv, KeysInv, TollInv, editorVars
  <1>2. ASSUME NEW k \in Keys, Press(k) PROVE EditorInv'
    <2>1. typed' \in Seq(Keys)
      BY <1>2, <1>b DEF Press
    <2>. QED  BY <1>2, <2>1 DEF Press, EditorInv, KeysInv, TollInv
  <1>3. CASE CloseChannel
    BY <1>3 DEF CloseChannel, EditorInv, KeysInv, TollInv
  <1>4. CASE Receive
    <2>1. typed' \in Seq(Keys) /\ data' \in Seq(Keys)
      BY <1>4, <1>b DEF Receive
    <2>. QED  BY <1>4, <2>1 DEF Receive, EditorInv, KeysInv, TollInv
  <1>5. CASE ReceiveEnd
    BY <1>5 DEF ReceiveEnd, EditorInv, KeysInv, TollInv
  <1>6. CASE SwallowLf
    <2>1. last_was_cr /\ Takes(LF) /\ last_was_cr' = FALSE /\ buf' = buf /\ logged' = logged /\ status' = status
      BY <1>6 DEF SwallowLf
    <2>2. status' # "failed"
      BY <2>1 DEF Takes
    <2>3. buf' = Shown(twin, buf, LF) /\ LF # CR
      BY <1>b, <2>1, ShownKeys, KeyNames
    <2>. QED  BY <1>b, <2>1, <2>2, <2>3, TakeStep
  <1>7. ASSUME NEW k \in {CR, LF}, LineEnd(k) PROVE EditorInv'
    BY <1>7, LineStep
  <1>8. CASE Erases
    <2>1. last_was_cr' = FALSE /\ Erase # CR /\ Erase # LF
      BY <1>8, KeyNames DEF Erases
    <2>2. CASE KeyFails(Erase)
      BY <2>1, <2>2, FailStep
    <2>3. CASE ~KeyFails(Erase)
      <3>1. Takes(Erase) /\ buf' = (IF buf = <<>> THEN buf ELSE Front(buf)) /\ logged' = logged /\ status' = status
        BY <1>8, <2>3 DEF Erases
      <3>2. status' # "failed"
        BY <3>1 DEF Takes
      <3>3. buf' = Shown(twin, buf, Erase) /\ buf' \in Seq(Keys)
        BY <1>b, <3>1, ShownKeys
      <3>. QED  BY <2>1, <3>1, <3>2, <3>3, TakeStep
    <2>. QED  BY <2>2, <2>3
  <1>9. CASE Interrupts
    <2>1. last_was_cr' = FALSE /\ CtrlC # CR /\ CtrlC # LF
      BY <1>9, KeyNames DEF Interrupts
    <2>2. CASE KeyFails(CtrlC)
      BY <2>1, <2>2, FailStep
    <2>3. CASE ~KeyFails(CtrlC)
      <3>1. Takes(CtrlC) /\ buf' = <<>> /\ logged' = logged /\ status' = status
        BY <1>9, <2>3 DEF Interrupts
      <3>2. status' # "failed"
        BY <3>1 DEF Takes
      <3>3. buf' = Shown(twin, buf, CtrlC) /\ buf' \in Seq(Keys)
        BY <1>b, <3>1, ShownKeys
      <3>. QED  BY <2>1, <3>1, <3>2, <3>3, TakeStep
    <2>. QED  BY <2>2, <2>3
  <1>10. CASE LogsOut
    <2>1. last_was_cr' = FALSE /\ CtrlD # CR /\ CtrlD # LF /\ twin = "ssh"
      BY <1>10, KeyNames DEF LogsOut
    <2>2. CASE KeyFails(CtrlD)
      BY <2>1, <2>2, FailStep
    <2>3. CASE ~KeyFails(CtrlD)
      <3>1. Takes(CtrlD) /\ buf' = buf /\ logged' = logged /\ status' # "failed"
        BY <1>10, <2>3 DEF LogsOut
      <3>2. buf' = Shown(twin, buf, CtrlD) /\ buf' \in Seq(Keys)
        BY <1>b, <2>1, <3>1, ShownKeys
      <3>. QED  BY <2>1, <3>1, <3>2, TakeStep
    <2>. QED  BY <2>2, <2>3
  <1>11. ASSUME NEW k \in Keys, Presses(k) PROVE EditorInv'
    <2>1. /\ k \in Letters \/ (k = CtrlD /\ twin = "base")
          /\ Takes(k) /\ buf' = Append(buf, k) /\ last_was_cr' = FALSE /\ logged' = logged /\ status' = status
      BY <1>11 DEF Presses
    <2>2. status' # "failed"
      BY <2>1 DEF Takes
    <2>3. k # CR /\ k # LF
      BY <2>1, KeyNames
    <2>4. buf' = Shown(twin, buf, k) /\ buf' \in Seq(Keys)
      <3>1. k \in Letters \/ (k = CtrlD /\ twin # "ssh")
        BY <2>1
      <3>2. Shown(twin, buf, k) = Append(buf, k)
        BY <3>1, ShownLetter
      <3>3. Append(buf, k) \in Seq(Keys)
        BY <1>b
      <3>. QED  BY <2>1, <3>2, <3>3
    <2>. QED  BY <2>1, <2>2, <2>3, <2>4, TakeStep
  <1>12. ASSUME NEW k \in Keys, EchoFails(k) PROVE EditorInv'
    <2>1. /\ k \in Letters \/ (k = CtrlD /\ twin = "base")
          /\ status = "on" /\ ~present /\ data' = <<>> /\ buf' = Append(buf, k) /\ last_was_cr' = FALSE
          /\ taken' = Append(taken, k) /\ twin' = twin /\ present' = present /\ typed' = typed /\ logged' = logged
      BY <1>12 DEF EchoFails
    <2>2. k # CR /\ k # LF
      BY <2>1, KeyNames
    <2>3. buf' = Shown(twin, buf, k) /\ buf' \in Seq(Keys)
      <3>1. k \in Letters \/ (k = CtrlD /\ twin # "ssh")
        BY <2>1
      <3>2. Shown(twin, buf, k) = Append(buf, k)
        BY <3>1, ShownLetter
      <3>3. Append(buf, k) \in Seq(Keys)
        BY <1>b
      <3>. QED  BY <2>1, <3>2, <3>3
    <2>4. \E e : Complete(twin, taken, logged, buf, e)
      BY <2>1 DEF EditorInv, TollInv
    <2>5. data' \in Seq(Keys) /\ typed' \in Seq(Keys)
      BY <1>b, <2>1
    <2>. QED  BY <2>1, <2>2, <2>3, <2>4, <2>5, KeyStep
  <1>. QED  BY <1>1, <1>2, <1>3, <1>4, <1>5, <1>6, <1>7, <1>8, <1>9, <1>10, <1>11, <1>12 DEF EditorNext

LEMMA EditorStart == EditorInit => EditorInv
  <1> SUFFICES ASSUME EditorInit PROVE EditorInv
    OBVIOUS
  <1>1. taken = <<>> /\ data = <<>> /\ typed = <<>> /\ buf = <<>> /\ logged = <<>> /\ last_was_cr = FALSE /\ status = "on"
    BY DEF EditorInit
  <1>2. KeysInv
    <2>1. <<>> \in Seq(Keys) /\ <<>> \in Seq(Seq(Keys)) /\ Len(taken) = 0
      BY <1>1
    <2>2. last_was_cr <=> Len(taken) # 0 /\ taken[Len(taken)] = CR
      BY <1>1, <2>1
    <2>3. last_was_cr \in BOOLEAN
      BY <1>1
    <2>. QED  BY <1>1, <2>1, <2>2, <2>3 DEF KeysInv
  <1>3. EndsAt(taken) = {}
    BY <1>1 DEF EndsAt
  <1> DEFINE e == [n \in 1..0 |-> 0]
  <1>4. LinesAt(twin, taken, logged, e)
    <2>1. Len(logged) = 0 /\ 1..0 = {}
      BY <1>1
    <2>. QED  BY <2>1 DEF LinesAt
  <1>5. Edited(twin, SubSeq(taken, LastEnd(e, Len(logged)) + 1, Len(taken))) = <<>>
    <2>1. SubSeq(taken, 1, 0) = <<>> /\ Len(taken) = 0 /\ Len(logged) = 0
      BY <1>1
    <2>2. LastEnd(e, Len(logged)) + 1 = 1
      BY <2>1 DEF LastEnd
    <2>. QED  BY <2>1, <2>2, EditedEmpty
  <1>6. Complete(twin, taken, logged, buf, e)
    BY <1>1, <1>3, <1>4, <1>5 DEF Complete
  <1>. QED  BY <1>1, <1>2, <1>6 DEF EditorInv, TollInv

\* Line editor: whatever keys are pressed, however they are cut into packets and
\* whenever the client goes, what is logged is what its terminal showed: all of it
\* while the client is there, the first lines of it once the client has gone.
THEOREM EditorCorrect == EditorSpec => []LoggedAsTyped
  <1>1. EditorInit => EditorInv
    BY EditorStart
  <1>2. EditorInv /\ [EditorNext]_editorVars => EditorInv'
    BY EditorStep
  <1>3. EditorInv => LoggedAsTyped
    <2> SUFFICES ASSUME EditorInv PROVE LoggedAsTyped
      OBVIOUS
    <2>1. DOMAIN logged = 1..Len(logged)
      BY DEF EditorInv, KeysInv
    <2>2. CASE status = "failed"
      <3>1. PICK e : Begun(twin, taken, logged, e)
        BY <2>2 DEF EditorInv, TollInv
      <3>2. ~present
        BY <2>2 DEF EditorInv, TollInv
      <3>. QED  BY <2>1, <3>1, <3>2 DEF Begun, LinesAt, LoggedAsTyped
    <2>3. CASE status # "failed"
      <3>1. PICK e : Complete(twin, taken, logged, buf, e)
        BY <2>3 DEF EditorInv, TollInv
      <3>. QED  BY <2>1, <3>1 DEF Complete, LinesAt, LoggedAsTyped
    <2>. QED  BY <2>2, <2>3
  <1>. QED  BY <1>1, <1>2, <1>3, PTL DEF EditorSpec

=================================================================================
