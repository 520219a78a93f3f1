----------------------- MODULE TransactionGraphProofs -----------------------
(***************************************************************************)
(* The graph of segments in Transaction, for graphs of any size: what is   *)
(* up to a location and what appending a segment keeps of it, that ids     *)
(* determine commands, the parts of the invariants, and what the flushing, *)
(* opening and extending of a perspective do to them.                      *)
(***************************************************************************)
EXTENDS Transaction, WellFoundedInduction, TLAPS

\* A set of natural numbers has a least element (the first segment that fits).
LEMMA LeastNat ==
    ASSUME NEW T, T \subseteq Nat, T # {}
    PROVE  \E x \in T : \A y \in T : x <= y
<1> DEFINE R == OpToRel(<, Nat)
<1>1. IsWellFoundedOn(R, Nat)
  BY NatLessThanWellFounded, Zenon
<1>2. \A x, y \in Nat : <<x, y>> \in R <=> x < y
  BY DEF OpToRel
<1> HIDE DEF R
<1>3. PICK x \in T : \A y \in T : ~(<<y, x>> \in R)
  BY <1>1, WFMin, Zenon
<1>4. ASSUME NEW y \in T PROVE x <= y
  <2>1. x \in Nat /\ y \in Nat /\ ~(<<y, x>> \in R)
    BY <1>3
  <2>2. ~(y < x)
    BY <1>2, <2>1
  <2> QED
    BY <2>1, <2>2
<1> QED
  BY <1>4, Zenon

\* Induction, for a set.
LEMMA NatSubset ==
    ASSUME NEW S, 0 \in S, \A n \in Nat : n \in S => n + 1 \in S
    PROVE  Nat \subseteq S
<1> DEFINE T == {n \in Nat : n \notin S}
<1> SUFFICES ASSUME T # {} PROVE FALSE
  OBVIOUS
<1>1. PICK x \in T : \A y \in T : x <= y
  <2>1. T \subseteq Nat
    OBVIOUS
  <2> HIDE DEF T
  <2> QED
    BY <2>1, LeastNat, Zenon
<1>2. x # 0 /\ x \in Nat
  OBVIOUS
<1>3. x - 1 \in Nat /\ ~(x <= x - 1) /\ (x - 1) + 1 = x
  BY <1>2
<1>4. x - 1 \notin T
  BY <1>1, <1>3
<1> QED
  BY <1>2, <1>3, <1>4

\* A sequence with one more element.
LEMMA AppendFacts ==
    ASSUME NEW S, NEW q \in Seq(S), NEW x \in S
    PROVE  /\ Append(q, x) \in Seq(S) /\ Append(q, x) # <<>>
           /\ Len(Append(q, x)) = Len(q) + 1 /\ DOMAIN Append(q, x) = 1..(Len(q) + 1)
           /\ Append(q, x)[Len(q) + 1] = x /\ \A i \in 1..Len(q) : Append(q, x)[i] = q[i]
  OBVIOUS

-----------------------------------------------------------------------------
(* The graph.                                                              *)

Segments == [prior : Seq(Nat \X Nat), cmds : Seq(Nat \ {0}) \ {<<>>}]

Priors(sg, s) == {sg[s].prior[i] : i \in DOMAIN sg[s].prior}

\* Segments come after what is prior to them.
GraphOK(sg) ==
    /\ sg \in Seq(Segments)
    /\ \A s \in 1..Len(sg) : \A q \in Priors(sg, s) : q \in Locs(sg) /\ q[1] < s

\* The commands right before one.
Parents(sg, x) == IF x[2] > 1 THEN {<<x[1], x[2] - 1>>} ELSE Priors(sg, x[1])

\* One round of the function Earlier.
Round(sg, f, s) ==
    IF s = 0 THEN {} ELSE UNION {f[q[1]] \cup ({q[1]} \X (1..q[2])) : q \in Priors(sg, s)}

\* The locations are those of the commands of the segments.
LEMMA LocsFacts ==
    ASSUME NEW sg \in Seq(Segments)
    PROVE  /\ Len(sg) \in Nat
           /\ \A s \in 1..Len(sg) : Len(sg[s].cmds) \in Nat \ {0} /\ DOMAIN sg[s].cmds = 1..Len(sg[s].cmds)
           /\ \A s, n : <<s, n>> \in Locs(sg) <=> s \in 1..Len(sg) /\ n \in 1..Len(sg[s].cmds)
           /\ \A x \in Locs(sg) : x = <<x[1], x[2]>> /\ x[1] \in 1..Len(sg) /\ x[2] \in 1..Len(sg[x[1]].cmds)
<1>1. Len(sg) \in Nat /\ DOMAIN sg = 1..Len(sg)
  OBVIOUS
<1>2. ASSUME NEW s \in 1..Len(sg)
      PROVE  Len(sg[s].cmds) \in Nat \ {0} /\ DOMAIN sg[s].cmds = 1..Len(sg[s].cmds)
  <2>1. sg[s] \in Segments
    OBVIOUS
  <2>2. sg[s].cmds \in Seq(Nat \ {0}) /\ sg[s].cmds # <<>>
    BY <2>1 DEF Segments
  <2> QED
    BY <2>2
<1>3. ASSUME NEW s, NEW n
      PROVE  <<s, n>> \in Locs(sg) <=> s \in 1..Len(sg) /\ n \in 1..Len(sg[s].cmds)
  BY <1>1, <1>2 DEF Locs
<1>4. ASSUME NEW x \in Locs(sg)
      PROVE  x = <<x[1], x[2]>> /\ x[1] \in 1..Len(sg) /\ x[2] \in 1..Len(sg[x[1]].cmds)
  BY <1>1, <1>2 DEF Locs
<1> QED
  BY <1>1, <1>2, <1>3, <1>4

\* The recursion of Earlier ends, because priors are in earlier segments.
LEMMA EarlierUnfolds ==
    ASSUME NEW sg, GraphOK(sg)
    PROVE  \A s \in 0..Len(sg) : Earlier(sg)[s] = Round(sg, Earlier(sg), s)
<1> DEFINE N == Len(sg)
           Good(n, f) == f = [s \in 0..n |-> Round(sg, f, s)]
           S == {n \in Nat : n <= N => \E f : Good(n, f)}
<1>1. N \in Nat
  BY DEF GraphOK
<1>2. ASSUME NEW s \in 1..N, NEW q \in Priors(sg, s)
      PROVE  q[1] \in 1..N /\ q[1] < s
  BY <1>2, LocsFacts DEF GraphOK
<1>3. 0 \in S
  <2> DEFINE f == [s \in 0..0 |-> {}]
  <2>1. Good(0, f)
    BY DEF Round
  <2> QED
    BY <2>1
<1>4. ASSUME NEW n \in Nat, n \in S PROVE n + 1 \in S
  <2> SUFFICES ASSUME n + 1 <= N PROVE \E f : Good(n + 1, f)
    OBVIOUS
  <2>1. n <= N
    BY <1>1
  <2>2. PICK f : Good(n, f)
    BY <1>4, <2>1
  <2> DEFINE g == [s \in 0..(n + 1) |-> IF s = n + 1 THEN Round(sg, f, n + 1) ELSE f[s]]
  <2>3. ASSUME NEW s \in 0..(n + 1) PROVE g[s] = Round(sg, g, s)
    <3>1. ASSUME s # 0, NEW q \in Priors(sg, s) PROVE f[q[1]] = g[q[1]]
      BY <1>1, <1>2, <3>1
    <3>2. Round(sg, f, s) = Round(sg, g, s)
      BY <3>1, Zenon DEF Round
    <3>3. CASE s = n + 1
      BY <3>2, <3>3
    <3>4. CASE s # n + 1
      <4>1. s \in 0..n
        BY <3>4
      <4>2. f[s] = Round(sg, f, s)
        BY <2>2, <4>1
      <4>3. g[s] = f[s]
        BY <3>4
      <4> QED
        BY <3>2, <4>2, <4>3
    <3> QED
      BY <3>3, <3>4
  <2>4. Good(n + 1, g)
    <3> DEFINE h == [s \in 0..(n + 1) |-> Round(sg, g, s)]
    <3>1. \A s \in 0..(n + 1) : g[s] = h[s]
      BY <2>3
    <3>2. g = [s \in 0..(n + 1) |-> g[s]] /\ h = [s \in 0..(n + 1) |-> h[s]]
      OBVIOUS
    <3> HIDE DEF g, h
    <3>3. g = h
      BY <3>1, <3>2
    <3> QED
      BY <3>3 DEF h
  <2> HIDE DEF Good, g
  <2> QED
    BY <2>4
<1>5. \E f : Good(N, f)
  <2>1. Nat \subseteq S
    <3> HIDE DEF S
    <3> QED
      BY <1>3, <1>4, NatSubset
  <2> QED
    BY <1>1, <2>1
<1>6. Earlier(sg) = CHOOSE f : Good(N, f)
  BY DEF Earlier, Round, Priors
<1>7. Good(N, Earlier(sg))
  <2> HIDE DEF Good
  <2> QED
    BY <1>5, <1>6
<1> QED
  BY <1>1, <1>7

\* What is up to a command is itself and what is up to its parents.
LEMMA UpToStep ==
    ASSUME NEW sg, GraphOK(sg), NEW x \in Locs(sg)
    PROVE  /\ Parents(sg, x) \subseteq Locs(sg)
           /\ UpTo(sg, x) = {x} \cup UNION {UpTo(sg, p) : p \in Parents(sg, x)}
<1>1. sg \in Seq(Segments)
  BY DEF GraphOK
<1>2. PICK s \in 1..Len(sg), n \in Nat : n \in 1..Len(sg[s].cmds) /\ x = <<s, n>>
  <2>1. x = <<x[1], x[2]>> /\ x[1] \in 1..Len(sg) /\ x[2] \in 1..Len(sg[x[1]].cmds)
    BY <1>1, LocsFacts
  <2>2. x[2] \in Nat
    BY <2>1
  <2> QED
    BY <2>1, <2>2
<1>3. Len(sg) \in Nat /\ Len(sg[s].cmds) \in Nat /\ x[1] = s /\ x[2] = n
  BY <1>1, <1>2, LocsFacts
<1>4. CASE n > 1
  <2> DEFINE p == <<s, n - 1>>
  <2>1. Parents(sg, x) = {p}
    BY <1>2, <1>3, <1>4 DEF Parents
  <2>2. n - 1 \in 1..Len(sg[s].cmds) /\ 1..n = {n} \cup 1..(n - 1)
    BY <1>2, <1>3, <1>4
  <2>3. p \in Locs(sg)
    BY <1>1, <2>2, LocsFacts
  <2>4. {s} \X (1..n) = {<<s, n>>} \cup ({s} \X (1..(n - 1)))
    BY <2>2
  <2>5. UpTo(sg, x) = {x} \cup UpTo(sg, p)
    BY <1>2, <2>4 DEF UpTo
  <2> HIDE DEF p
  <2> QED
    BY <2>1, <2>3, <2>5
<1>5. CASE n = 1
  <2>1. Parents(sg, x) = Priors(sg, s)
    BY <1>3, <1>5 DEF Parents
  <2>2. Priors(sg, s) \subseteq Locs(sg)
    BY DEF GraphOK
  <2>3. {s} \X (1..1) = {<<s, 1>>}
    OBVIOUS
  <2>4. s \in 0..Len(sg) /\ s # 0
    BY <1>3
  <2>5. Earlier(sg)[s] = UNION {UpTo(sg, q) : q \in Priors(sg, s)}
    BY <2>4, EarlierUnfolds, Zenon DEF Round, UpTo
  <2>6. UpTo(sg, x) = {x} \cup Earlier(sg)[s]
    BY <1>2, <1>3, <1>5, <2>3 DEF UpTo
  <2> QED
    BY <2>1, <2>2, <2>5, <2>6
<1> QED
  BY <1>2, <1>3, <1>4, <1>5

\* Before the graph there is nothing.
LEMMA UpToNoLoc ==
    ASSUME NEW sg, GraphOK(sg)
    PROVE  UpTo(sg, NoLoc) = {}
<1>1. Len(sg) \in Nat
  BY LocsFacts DEF GraphOK
<1>2. 0 \in 0..Len(sg)
  BY <1>1
<1>3. Earlier(sg)[0] = {}
  BY <1>2, EarlierUnfolds, Zenon DEF Round
<1>4. {0} \X (1..0) = {}
  OBVIOUS
<1> QED
  BY <1>3, <1>4 DEF UpTo, NoLoc

\* Induction over the graph, from parents to children.
LEMMA GraphInduction ==
    ASSUME NEW sg, GraphOK(sg), NEW S,
           \A x \in Locs(sg) : Parents(sg, x) \subseteq S => x \in S
    PROVE  Locs(sg) \subseteq S
<1> DEFINE Bad == {x \in Locs(sg) : x \notin S}
<1> SUFFICES ASSUME Bad # {} PROVE FALSE
  OBVIOUS
<1>0. sg \in Seq(Segments)
  BY DEF GraphOK
<1>1. \A x \in Locs(sg) : x = <<x[1], x[2]>> /\ x[1] \in Nat /\ x[2] \in Nat
  <2>1. ASSUME NEW x \in Locs(sg) PROVE x = <<x[1], x[2]>> /\ x[1] \in Nat /\ x[2] \in Nat
    <3>1. x = <<x[1], x[2]>> /\ x[1] \in 1..Len(sg) /\ x[2] \in 1..Len(sg[x[1]].cmds)
      BY <1>0, LocsFacts
    <3> QED
      BY <3>1
  <2> QED
    BY <2>1
<1>2. PICK s \in {x[1] : x \in Bad} : \A t \in {x[1] : x \in Bad} : s <= t
  <2> DEFINE T == {x[1] : x \in Bad}
  <2>1. T \subseteq Nat /\ T # {}
    BY <1>1
  <2> HIDE DEF T
  <2>2. \E s \in T : \A t \in T : s <= t
    BY <2>1, LeastNat, Zenon
  <2> QED
    BY <2>2 DEF T
<1>3. PICK n \in {x[2] : x \in {y \in Bad : y[1] = s}} :
          \A m \in {x[2] : x \in {y \in Bad : y[1] = s}} : n <= m
  <2> DEFINE T == {x[2] : x \in {y \in Bad : y[1] = s}}
  <2>1. T \subseteq Nat /\ T # {}
    BY <1>1, <1>2
  <2> HIDE DEF T
  <2>2. \E k \in T : \A m \in T : k <= m
    BY <2>1, LeastNat, Zenon
  <2> QED
    BY <2>2 DEF T
<1> DEFINE x == <<s, n>>
<1>4. x \in Bad /\ s \in Nat /\ n \in Nat
  BY <1>1, <1>3
<1>5. ASSUME NEW p \in Parents(sg, x) PROVE p \in S
  <2>1. p \in Locs(sg)
    BY <1>4, UpToStep
  <2>2. s \in 1..Len(sg)
    BY <1>0, <1>4, LocsFacts
  <2>3. p[1] < s \/ (p[1] = s /\ p[2] < n)
    <3>1. CASE n > 1
      <4>1. p = <<s, n - 1>>
        BY <3>1 DEF Parents
      <4> QED
        BY <1>4, <4>1
    <3>2. CASE ~(n > 1)
      <4>1. p \in Priors(sg, s)
        BY <3>2 DEF Parents
      <4> QED
        BY <2>2, <4>1 DEF GraphOK
    <3> QED
      BY <3>1, <3>2
  <2>4. SUFFICES ASSUME p \in Bad PROVE FALSE
    BY <2>1
  <2>5. p[1] \in Nat /\ p[2] \in Nat
    BY <1>1, <2>1
  <2>6. s <= p[1]
    BY <1>2, <2>4
  <2>7. p[1] = s => n <= p[2]
    BY <1>3, <2>4
  <2> QED
    BY <1>4, <2>3, <2>5, <2>6, <2>7
<1> QED
  BY <1>4, <1>5

\* What is up to a location is in the graph, and not later.
LEMMA UpToLocs ==
    ASSUME NEW sg, GraphOK(sg)
    PROVE  \A x \in Locs(sg) : x \in UpTo(sg, x) /\ UpTo(sg, x) \subseteq Locs(sg)
<1> DEFINE S == {x \in Locs(sg) : x \in UpTo(sg, x) /\ UpTo(sg, x) \subseteq Locs(sg)}
<1>1. ASSUME NEW x \in Locs(sg), Parents(sg, x) \subseteq S PROVE x \in S
  <2>1. UpTo(sg, x) = {x} \cup UNION {UpTo(sg, p) : p \in Parents(sg, x)}
    BY UpToStep
  <2> QED
    BY <1>1, <2>1
<1>2. Locs(sg) \subseteq S
  <2> HIDE DEF S
  <2> QED
    BY <1>1, GraphInduction
<1> QED
  BY <1>2

\* An ancestor's ancestors are ancestors.
LEMMA UpToTransitive ==
    ASSUME NEW sg, GraphOK(sg), NEW x \in Locs(sg), NEW y \in UpTo(sg, x)
    PROVE  UpTo(sg, y) \subseteq UpTo(sg, x)
<1> DEFINE S == {z \in Locs(sg) : \A w \in UpTo(sg, z) : UpTo(sg, w) \subseteq UpTo(sg, z)}
<1>1. ASSUME NEW z \in Locs(sg), Parents(sg, z) \subseteq S PROVE z \in S
  <2>1. UpTo(sg, z) = {z} \cup UNION {UpTo(sg, p) : p \in Parents(sg, z)}
    BY UpToStep
  <2>2. ASSUME NEW w \in UpTo(sg, z) PROVE UpTo(sg, w) \subseteq UpTo(sg, z)
    <3>1. CASE w = z
      BY <3>1
    <3>2. CASE w # z
      <4>1. PICK p \in Parents(sg, z) : w \in UpTo(sg, p)
        BY <2>1, <3>2
      <4>2. UpTo(sg, w) \subseteq UpTo(sg, p)
        BY <1>1, <4>1
      <4> QED
        BY <2>1, <4>1, <4>2
    <3> QED
      BY <3>1, <3>2
  <2> QED
    BY <2>2
<1>2. Locs(sg) \subseteq S
  <2> HIDE DEF S
  <2> QED
    BY <1>1, GraphInduction
<1> QED
  BY <1>2

\* A command is up to every later one of its segment.
LEMMA UpToSegment ==
    ASSUME NEW sg, NEW s, NEW i \in Nat \ {0}, NEW j \in Nat, i <= j
    PROVE  <<s, i>> \in UpTo(sg, <<s, j>>) /\ UpTo(sg, <<s, i>>) \subseteq UpTo(sg, <<s, j>>)
<1>1. i \in 1..j /\ 1..i \subseteq 1..j
  OBVIOUS
<1> QED
  BY <1>1 DEF UpTo

\* Another segment after the others (LinearStorage::write).
LEMMA GraphGrows ==
    ASSUME NEW sg, GraphOK(sg), NEW seg \in Segments,
           \A i \in DOMAIN seg.prior : seg.prior[i] \in Locs(sg)
    PROVE  LET sg2 == Append(sg, seg)
           IN  /\ GraphOK(sg2) /\ Len(sg2) = Len(sg) + 1
               /\ sg2[Len(sg) + 1] = seg
               /\ \A s \in 1..Len(sg) : sg2[s] = sg[s]
               /\ Locs(sg) \subseteq Locs(sg2)
               /\ \A n \in 1..Len(seg.cmds) : <<Len(sg) + 1, n>> \in Locs(sg2)
               /\ \A x \in Locs(sg2) : x \in Locs(sg) \/ (x[1] = Len(sg) + 1 /\ x[2] \in 1..Len(seg.cmds))
<1> DEFINE sg2 == Append(sg, seg)
<1>1. sg \in Seq(Segments) /\ Len(sg) \in Nat
  BY DEF GraphOK
<1>2. /\ sg2 \in Seq(Segments) /\ Len(sg2) = Len(sg) + 1
      /\ sg2[Len(sg) + 1] = seg
      /\ \A s \in 1..Len(sg) : sg2[s] = sg[s]
  BY <1>1
<1> HIDE DEF sg2
<1>3. Locs(sg) \subseteq Locs(sg2)
  <2>1. ASSUME NEW x \in Locs(sg) PROVE x \in Locs(sg2)
    <3>1. x = <<x[1], x[2]>> /\ x[1] \in 1..Len(sg) /\ x[2] \in 1..Len(sg[x[1]].cmds)
      BY <1>1, LocsFacts
    <3>2. x[1] \in 1..Len(sg2) /\ sg2[x[1]] = sg[x[1]]
      BY <1>1, <1>2, <3>1
    <3> QED
      BY <1>2, <3>1, <3>2, LocsFacts
  <2> QED
    BY <2>1
<1>4. ASSUME NEW n \in 1..Len(seg.cmds) PROVE <<Len(sg) + 1, n>> \in Locs(sg2)
  <2>1. Len(sg) + 1 \in 1..Len(sg2)
    BY <1>1, <1>2
  <2> QED
    BY <1>2, <2>1, LocsFacts
<1>5. ASSUME NEW x \in Locs(sg2), x \notin Locs(sg)
      PROVE  x[1] = Len(sg) + 1 /\ x[2] \in 1..Len(seg.cmds)
  <2>1. x = <<x[1], x[2]>> /\ x[1] \in 1..Len(sg2) /\ x[2] \in 1..Len(sg2[x[1]].cmds)
    BY <1>2, LocsFacts
  <2>2. ~(x[1] \in 1..Len(sg))
    <3> SUFFICES ASSUME x[1] \in 1..Len(sg) PROVE FALSE
      OBVIOUS
    <3>1. x[2] \in 1..Len(sg[x[1]].cmds)
      BY <1>2, <2>1
    <3>2. <<x[1], x[2]>> \in Locs(sg)
      BY <1>1, <3>1, LocsFacts
    <3> QED
      BY <1>5, <2>1, <3>2, Zenon
  <2>3. x[1] = Len(sg) + 1
    BY <1>1, <1>2, <2>1, <2>2
  <2> QED
    BY <1>2, <2>1, <2>3, Zenon
<1>6. ASSUME NEW s \in 1..Len(sg2), NEW q \in Priors(sg2, s)
      PROVE  q \in Locs(sg2) /\ q[1] < s
  <2>1. CASE s = Len(sg) + 1
    <3>1. q \in Locs(sg)
      BY <1>2, <2>1 DEF Priors
    <3>2. q[1] \in 1..Len(sg)
      BY <1>1, <3>1, LocsFacts
    <3> QED
      BY <1>1, <1>3, <2>1, <3>1, <3>2
  <2>2. CASE s # Len(sg) + 1
    <3>1. s \in 1..Len(sg)
      BY <1>1, <1>2, <2>2
    <3>2. q \in Priors(sg, s)
      BY <1>2, <3>1 DEF Priors
    <3> QED
      BY <1>3, <3>1, <3>2 DEF GraphOK
  <2> QED
    BY <2>1, <2>2
<1>7. GraphOK(sg2)
  BY <1>2, <1>6 DEF GraphOK
<1> QED
  BY <1>2, <1>3, <1>4, <1>5, <1>7 DEF sg2

\* sg2 has the segments of sg, in the same places.
Extends(sg2, sg) ==
    /\ GraphOK(sg2) /\ Len(sg) <= Len(sg2)
    /\ \A s \in 1..Len(sg) : sg2[s] = sg[s]

\* A command stays where it is, after what it was after, when the graph grows.
LEMMA UpToKept ==
    ASSUME NEW sg, NEW sg2, GraphOK(sg), Extends(sg2, sg)
    PROVE  /\ Locs(sg) \subseteq Locs(sg2)
           /\ \A x \in Locs(sg) : /\ UpTo(sg2, x) = UpTo(sg, x)
                                 /\ Id(sg2, x) = Id(sg, x)
                                 /\ IdsUpTo(sg2, x) = IdsUpTo(sg, x)
                                 /\ Parents(sg2, x) = Parents(sg, x)
<1>1. sg \in Seq(Segments) /\ sg2 \in Seq(Segments) /\ Len(sg) \in Nat /\ Len(sg2) \in Nat
  BY DEF GraphOK, Extends
<1>2. ASSUME NEW x \in Locs(sg)
      PROVE  x \in Locs(sg2) /\ Id(sg2, x) = Id(sg, x) /\ Parents(sg2, x) = Parents(sg, x)
  <2>1. x = <<x[1], x[2]>> /\ x[1] \in 1..Len(sg) /\ x[2] \in 1..Len(sg[x[1]].cmds)
    BY <1>1, LocsFacts
  <2>2. sg2[x[1]] = sg[x[1]] /\ x[1] \in 1..Len(sg2)
    BY <1>1, <2>1 DEF Extends
  <2>3. x \in Locs(sg2)
    BY <1>1, <2>1, <2>2, LocsFacts
  <2> QED
    BY <2>2, <2>3 DEF Id, Parents, Priors
<1> DEFINE S == {x \in Locs(sg) : UpTo(sg2, x) = UpTo(sg, x)}
<1>3. ASSUME NEW x \in Locs(sg), Parents(sg, x) \subseteq S PROVE x \in S
  <2>1. UpTo(sg, x) = {x} \cup UNION {UpTo(sg, p) : p \in Parents(sg, x)}
    BY UpToStep
  <2>2. UpTo(sg2, x) = {x} \cup UNION {UpTo(sg2, p) : p \in Parents(sg, x)}
    BY <1>2, UpToStep DEF Extends
  <2>3. \A p \in Parents(sg, x) : UpTo(sg2, p) = UpTo(sg, p)
    BY <1>3
  <2> QED
    BY <2>1, <2>2, <2>3
<1>4. Locs(sg) \subseteq S
  <2> HIDE DEF S
  <2> QED
    BY <1>3, GraphInduction
<1>5. ASSUME NEW x \in Locs(sg) PROVE IdsUpTo(sg2, x) = IdsUpTo(sg, x)
  <2>1. UpTo(sg2, x) = UpTo(sg, x)
    BY <1>4
  <2>2. \A y \in UpTo(sg, x) : Id(sg2, y) = Id(sg, y)
    BY <1>2, UpToLocs
  <2> QED
    BY <2>1, <2>2 DEF IdsUpTo
<1> QED
  BY <1>2, <1>4, <1>5

ParentIds(sg, x) == {Id(sg, p) : p \in Parents(sg, x)}

\* The ids up to a command are its own and those up to its parents.
LEMMA IdsUpToStep ==
    ASSUME NEW sg, GraphOK(sg), NEW x \in Locs(sg)
    PROVE  IdsUpTo(sg, x) = {Id(sg, x)} \cup UNION {IdsUpTo(sg, p) : p \in Parents(sg, x)}
  BY UpToStep DEF IdsUpTo

\* Commands with the same id have the same ids before them, wherever they are, when
\* the id determines the parents.
LEMMA SameIds ==
    ASSUME NEW sg, GraphOK(sg),
           \A x, y \in Locs(sg) : Id(sg, x) = Id(sg, y) => ParentIds(sg, x) = ParentIds(sg, y),
           NEW x \in Locs(sg), NEW y \in Locs(sg), Id(sg, x) = Id(sg, y)
    PROVE  IdsUpTo(sg, x) \subseteq IdsUpTo(sg, y)
<1> DEFINE S == {z \in Locs(sg) : \A w \in Locs(sg) :
                    Id(sg, z) = Id(sg, w) => IdsUpTo(sg, z) \subseteq IdsUpTo(sg, w)}
<1>1. ASSUME NEW z \in Locs(sg), Parents(sg, z) \subseteq S PROVE z \in S
  <2> SUFFICES ASSUME NEW w \in Locs(sg), Id(sg, z) = Id(sg, w)
               PROVE  IdsUpTo(sg, z) \subseteq IdsUpTo(sg, w)
    OBVIOUS
  <2>1. /\ IdsUpTo(sg, z) = {Id(sg, z)} \cup UNION {IdsUpTo(sg, p) : p \in Parents(sg, z)}
        /\ IdsUpTo(sg, w) = {Id(sg, w)} \cup UNION {IdsUpTo(sg, p) : p \in Parents(sg, w)}
    BY IdsUpToStep
  <2>2. ParentIds(sg, z) = ParentIds(sg, w)
    OBVIOUS
  <2>3. ASSUME NEW p \in Parents(sg, z)
        PROVE  \E r \in Parents(sg, w) : IdsUpTo(sg, p) \subseteq IdsUpTo(sg, r)
    <3>1. PICK r \in Parents(sg, w) : Id(sg, p) = Id(sg, r)
      BY <2>2 DEF ParentIds
    <3>2. r \in Locs(sg)
      BY UpToStep
    <3> QED
      BY <1>1, <3>1, <3>2, Zenon
  <2> QED
    BY <2>1, <2>3
<1>2. Locs(sg) \subseteq S
  <2> HIDE DEF S
  <2> QED
    BY <1>1, GraphInduction
<1> QED
  BY <1>2

-----------------------------------------------------------------------------
(* Ids.                                                                    *)

Triangle(h) == (h * (h - 1)) \div 2

\* The numbers of the pairs with the larger number h are between those of the
\* smaller and those of the larger ones.
LEMMA TriangleGrows ==
    ASSUME NEW h \in Nat \ {0}, NEW k \in Nat \ {0}, h < k
    PROVE  Triangle(h) \in Nat /\ Triangle(k) \in Nat /\ Triangle(h) + h <= Triangle(k)
<1>1. ASSUME NEW n \in Nat \ {0} PROVE n * (n - 1) \in Nat
  <2>1. n - 1 \in Nat
    OBVIOUS
  <2> QED
    BY <2>1
<1>2. (h + 1) * h = h * (h - 1) + 2 * h
  OBVIOUS
<1>3. (h + 1) * h <= k * (k - 1)
  <2>1. h + 1 <= k /\ h <= k - 1
    OBVIOUS
  <2>2. (h + 1) * h <= k * h /\ k * h <= k * (k - 1)
    BY <2>1
  <2> QED
    BY <2>2
<1> DEFINE a == h * (h - 1)
           b == k * (k - 1)
<1>4. a \in Nat /\ b \in Nat /\ a + 2 * h <= b
  BY <1>1, <1>2, <1>3
<1> HIDE DEF a, b
<1>5. a \div 2 \in Nat /\ b \div 2 \in Nat /\ (a \div 2) + h <= b \div 2
  BY <1>4
<1> QED
  BY <1>5 DEF Triangle, a, b

\* The id of a merge command tells the two commands that it merges.
LEMMA MergeIdInjective ==
    ASSUME NEW a \in Nat \ {0}, NEW b \in Nat \ {0}, NEW c \in Nat \ {0}, NEW d \in Nat \ {0}
    PROVE  /\ MergeId(a, b) \in Nat /\ MergeId(a, b) > MergeIdBase
           /\ MergeId(a, b) = MergeId(c, d) => (a = c /\ b = d) \/ (a = d /\ b = c)
<1> DEFINE Hi(x, y) == IF x > y THEN x ELSE y
           Lo(x, y) == IF x > y THEN y ELSE x
<1>1. ASSUME NEW x \in Nat \ {0}, NEW y \in Nat \ {0}
      PROVE  /\ Hi(x, y) \in Nat \ {0} /\ Lo(x, y) \in Nat \ {0} /\ Lo(x, y) <= Hi(x, y)
             /\ {x, y} = {Hi(x, y), Lo(x, y)}
             /\ MergeId(x, y) = MergeIdBase + Triangle(Hi(x, y)) + Lo(x, y)
             /\ Triangle(Hi(x, y)) \in Nat
  <2>1. /\ Hi(x, y) \in Nat \ {0} /\ Lo(x, y) \in Nat \ {0} /\ Lo(x, y) <= Hi(x, y)
        /\ {x, y} = {Hi(x, y), Lo(x, y)}
    OBVIOUS
  <2>2. MergeId(x, y) = MergeIdBase + Triangle(Hi(x, y)) + Lo(x, y)
    BY DEF MergeId, Triangle
  <2>3. Triangle(Hi(x, y)) \in Nat
    <3> HIDE DEF Hi
    <3>1. Hi(x, y) + 1 \in Nat \ {0} /\ Hi(x, y) < Hi(x, y) + 1
      BY <2>1
    <3> QED
      BY <2>1, <3>1, TriangleGrows, Zenon
  <2> QED
    BY <2>1, <2>2, <2>3
<1> HIDE DEF Hi, Lo
<1>2. MergeIdBase \in Nat
  BY IdsAssumption
<1>3. MergeId(a, b) \in Nat /\ MergeId(a, b) > MergeIdBase
  BY <1>1, <1>2
<1>4. ASSUME MergeId(a, b) = MergeId(c, d) PROVE (a = c /\ b = d) \/ (a = d /\ b = c)
  <2> DEFINE h == Hi(a, b)
             i == Hi(c, d)
             l == Lo(a, b)
             m == Lo(c, d)
             u == Triangle(Hi(a, b))
             v == Triangle(Hi(c, d))
             M == MergeId(a, b)
             N == MergeId(c, d)
  <2>1. /\ h \in Nat \ {0} /\ l \in Nat \ {0} /\ l <= h /\ u \in Nat
        /\ {a, b} = {h, l} /\ M = MergeIdBase + u + l
    BY <1>1, Zenon
  <2>2. /\ i \in Nat \ {0} /\ m \in Nat \ {0} /\ m <= i /\ v \in Nat
        /\ {c, d} = {i, m} /\ N = MergeIdBase + v + m
    BY <1>1, Zenon
  <2>3. (h < i => u + h <= v) /\ (i < h => v + i <= u) /\ (h = i => u = v)
    BY <2>1, <2>2, TriangleGrows, Zenon
  <2>4. M = N
    BY <1>4
  <2> HIDE DEF h, i, l, m, u, v, M, N
  <2>5. h = i /\ l = m
    BY <1>2, <2>1, <2>2, <2>3, <2>4
  <2>6. {a, b} = {c, d}
    BY <2>1, <2>2, <2>5, Zenon
  <2> QED
    BY <2>6
<1> QED
  BY <1>3, <1>4

\* The same, for two merges that are equal.
LEMMA SameMerge ==
    ASSUME NEW a \in Nat \ {0}, NEW b \in Nat \ {0}, NEW c \in Nat \ {0}, NEW d \in Nat \ {0},
           MergeId(a, b) = MergeId(c, d)
    PROVE  {a, b} = {c, d}
  BY MergeIdInjective

ParentSet(c) == {ParentsOf[c][i] : i \in DOMAIN ParentsOf[c]}

\* A command with id c may have the parents S.
Lawful(c, S) ==
    /\ c \in Nat \ {0}
    /\ c \in PeerIds => S = ParentSet(c)
    /\ c \notin PeerIds \cup LocalIds =>
         \E a, b \in Nat \ {0} : c = MergeId(a, b) /\ S = {a, b}

\* All commands of the graph have the parents that their ids stand for.
IdsOK(sg) ==
    /\ \A x \in Locs(sg) : Lawful(Id(sg, x), ParentIds(sg, x))
    /\ \A x, y \in Locs(sg) : Id(sg, x) \in LocalIds /\ Id(sg, x) = Id(sg, y) => x = y

\* So equal ids have equal parents.
LEMMA IdsDetermine ==
    ASSUME NEW sg, IdsOK(sg), NEW x \in Locs(sg), NEW y \in Locs(sg), Id(sg, x) = Id(sg, y)
    PROVE  ParentIds(sg, x) = ParentIds(sg, y)
<1> DEFINE c == Id(sg, x)
<1>1. Lawful(c, ParentIds(sg, x)) /\ Lawful(c, ParentIds(sg, y))
  BY DEF IdsOK
<1>2. CASE c \in LocalIds
  BY <1>2, Zenon DEF IdsOK
<1>3. CASE c \in PeerIds
  BY <1>1, <1>3 DEF Lawful
<1>4. CASE c \notin PeerIds \cup LocalIds
  <2>1. PICK a, b \in Nat \ {0} : c = MergeId(a, b) /\ ParentIds(sg, x) = {a, b}
    BY <1>1, <1>4, Zenon DEF Lawful
  <2>2. PICK d, e \in Nat \ {0} : c = MergeId(d, e) /\ ParentIds(sg, y) = {d, e}
    BY <1>1, <1>4 DEF Lawful
  <2>3. {a, b} = {d, e}
    <3>1. MergeId(a, b) = MergeId(d, e)
      BY <2>1, <2>2, Zenon
    <3> QED
      BY <3>1, SameMerge
  <2> QED
    BY <2>1, <2>2, <2>3, Zenon
<1> QED
  BY <1>2, <1>3, <1>4, Zenon

\* Where a command is makes no difference to what is up to it.
LEMMA SameIdsUpTo ==
    ASSUME NEW sg, GraphOK(sg), IdsOK(sg),
           NEW x \in Locs(sg), NEW y \in Locs(sg), Id(sg, x) = Id(sg, y)
    PROVE  IdsUpTo(sg, x) \subseteq IdsUpTo(sg, y)
<1>1. \A z, w \in Locs(sg) : Id(sg, z) = Id(sg, w) => ParentIds(sg, z) = ParentIds(sg, w)
  BY IdsDetermine
<1> QED
  BY <1>1, SameIds

\* The merge of a and b is lawful, whether made here or by a peer.
LEMMA MergeLawful ==
    ASSUME NEW a \in Nat \ {0}, NEW b \in Nat \ {0}
    PROVE  Lawful(MergeId(a, b), {a, b}) /\ MergeId(a, b) \notin LocalIds
<1> DEFINE c == MergeId(a, b)
<1>1. c \in Nat /\ c > MergeIdBase /\ MergeIdBase \in Nat
  BY MergeIdInjective, IdsAssumption, Zenon
<1>2. c \notin LocalIds
  BY <1>1, IdsAssumption
<1>3. ASSUME c \in PeerIds PROVE {a, b} = ParentSet(c)
  <2>1. Len(ParentsOf[c]) = 2 /\ c = MergeId(ParentsOf[c][1], ParentsOf[c][2])
    BY <1>1, <1>3, IdsAssumption
  <2>2. ParentsOf[c] \in Seq(Nat \ {NoId})
    BY <1>3, IdsAssumption, Zenon
  <2>3. DOMAIN ParentsOf[c] = 1..2 /\ ParentsOf[c][1] \in Nat \ {0} /\ ParentsOf[c][2] \in Nat \ {0}
    BY <2>1, <2>2 DEF NoId
  <2>4. ParentSet(c) = {ParentsOf[c][1], ParentsOf[c][2]}
    BY <2>3 DEF ParentSet
  <2>5. {a, b} = {ParentsOf[c][1], ParentsOf[c][2]}
    <3> DEFINE d == ParentsOf[c][1]
               e == ParentsOf[c][2]
    <3>1. d \in Nat \ {0} /\ e \in Nat \ {0} /\ MergeId(a, b) = MergeId(d, e)
      BY <2>1, <2>3
    <3> HIDE DEF d, e
    <3>2. {a, b} = {d, e}
      BY <3>1, SameMerge
    <3> QED
      BY <3>2, Zenon DEF d, e
  <2> QED
    BY <2>4, <2>5, Zenon
<1> QED
  BY <1>1, <1>2, <1>3 DEF Lawful

\* The ids of the parents of command i of a segment after sg.
ParentsIn(sg, seg, i) ==
    IF i > 1 THEN {seg.cmds[i - 1]} ELSE {Id(sg, seg.prior[j]) : j \in DOMAIN seg.prior}

\* A segment of lawful commands may be written.
LEMMA IdsGrow ==
    ASSUME NEW sg, GraphOK(sg), IdsOK(sg), NEW seg \in Segments,
           \A j \in DOMAIN seg.prior : seg.prior[j] \in Locs(sg),
           \A i \in 1..Len(seg.cmds) : Lawful(seg.cmds[i], ParentsIn(sg, seg, i)),
           \A i \in 1..Len(seg.cmds) : seg.cmds[i] \in LocalIds =>
               /\ \A x \in Locs(sg) : Id(sg, x) # seg.cmds[i]
               /\ \A j \in 1..Len(seg.cmds) : seg.cmds[j] = seg.cmds[i] => j = i
    PROVE  IdsOK(Append(sg, seg))
<1> DEFINE sg2 == Append(sg, seg)
           n == Len(sg) + 1
<1>1. /\ GraphOK(sg2) /\ Len(sg2) = n /\ sg2[n] = seg
      /\ \A s \in 1..Len(sg) : sg2[s] = sg[s]
      /\ Locs(sg) \subseteq Locs(sg2)
      /\ \A x \in Locs(sg2) : x \in Locs(sg) \/ (x[1] = n /\ x[2] \in 1..Len(seg.cmds))
  BY GraphGrows, Zenon
<1>2. sg2 \in Seq(Segments) /\ Len(sg) \in Nat
  BY <1>1, LocsFacts, Zenon DEF GraphOK
<1> HIDE DEF sg2
<1>3. Extends(sg2, sg)
  BY <1>1, <1>2 DEF Extends
<1>4. ASSUME NEW x \in Locs(sg)
      PROVE  Id(sg2, x) = Id(sg, x) /\ ParentIds(sg2, x) = ParentIds(sg, x)
  <2>1. Id(sg2, x) = Id(sg, x) /\ Parents(sg2, x) = Parents(sg, x)
    BY <1>3, UpToKept
  <2>2. \A p \in Parents(sg, x) : Id(sg2, p) = Id(sg, p)
    BY <1>3, UpToStep, UpToKept
  <2> QED
    BY <2>1, <2>2, Zenon DEF ParentIds
<1>5. ASSUME NEW x \in Locs(sg2), x \notin Locs(sg)
      PROVE  /\ x = <<n, x[2]>> /\ x[2] \in 1..Len(seg.cmds) /\ Id(sg2, x) = seg.cmds[x[2]]
             /\ ParentIds(sg2, x) = ParentsIn(sg, seg, x[2])
  <2>1. x = <<x[1], x[2]>> /\ x[1] = n /\ x[2] \in 1..Len(seg.cmds)
    BY <1>1, <1>2, <1>5, LocsFacts, Zenon
  <2>2. Id(sg2, x) = seg.cmds[x[2]]
    BY <1>1, <2>1 DEF Id
  <2>3. CASE x[2] > 1
    <3>1. Parents(sg2, x) = {<<n, x[2] - 1>>}
      BY <2>1, <2>3, Zenon DEF Parents
    <3>2. Id(sg2, <<n, x[2] - 1>>) = seg.cmds[x[2] - 1]
      BY <1>1, Zenon DEF Id
    <3> QED
      BY <2>1, <2>2, <2>3, <3>1, <3>2, ZenonT(60) DEF ParentIds, ParentsIn
  <2>4. CASE ~(x[2] > 1)
    <3>1. Parents(sg2, x) = {seg.prior[j] : j \in DOMAIN seg.prior}
      BY <1>1, <2>1, <2>4 DEF Parents, Priors
    <3>2. \A j \in DOMAIN seg.prior : Id(sg2, seg.prior[j]) = Id(sg, seg.prior[j])
      BY <1>4, Zenon
    <3> QED
      BY <2>1, <2>2, <2>4, <3>1, <3>2 DEF ParentIds, ParentsIn
  <2> QED
    BY <2>3, <2>4
<1>6. ASSUME NEW x \in Locs(sg2) PROVE Lawful(Id(sg2, x), ParentIds(sg2, x))
  <2>1. CASE x \in Locs(sg)
    BY <1>4, <2>1, Zenon DEF IdsOK
  <2>2. CASE x \notin Locs(sg)
    BY <1>5, <2>2, Zenon
  <2> QED
    BY <2>1, <2>2, Zenon
<1>7. ASSUME NEW x \in Locs(sg2), NEW y \in Locs(sg2),
             Id(sg2, x) \in LocalIds, Id(sg2, x) = Id(sg2, y)
      PROVE  x = y
  <2>1. CASE x \in Locs(sg) /\ y \in Locs(sg)
    BY <1>4, <1>7, <2>1, Zenon DEF IdsOK
  <2>2. CASE x \in Locs(sg) /\ y \notin Locs(sg)
    BY <1>4, <1>5, <1>7, <2>2
  <2>3. CASE x \notin Locs(sg) /\ y \in Locs(sg)
    BY <1>4, <1>5, <1>7, <2>3
  <2>4. CASE x \notin Locs(sg) /\ y \notin Locs(sg)
    BY <1>5, <1>7, <2>4, Zenon
  <2> QED
    BY <2>1, <2>2, <2>3, <2>4, Zenon
<1> QED
  BY <1>6, <1>7, Zenon DEF IdsOK, sg2

-----------------------------------------------------------------------------
(* The invariant.                                                          *)

\* A head as transactions know it.
HeadsIn(sg) == {[id |-> Id(sg, x), loc |-> x] : x \in Locs(sg)}

TrxOK(sg, tr) ==
    /\ tr = [persp |-> tr.persp, phead |-> tr.phead, heads |-> tr.heads, added |-> tr.added]
    /\ tr.persp \in [prior : Seq(Locs(sg)), cmds : Seq(Nat \ {0}), open : BOOLEAN]
    /\ ~tr.persp.open => tr.persp = NoPersp
    /\ tr.heads \subseteq HeadsIn(sg)

\* The perspective of a careful transaction is a lawful segment whose last command is
\* phead, and none of its commands is a head.
TrxCare(sg, tr) ==
    /\ IF tr.persp.open
       THEN tr.persp.cmds # <<>> /\ tr.phead = tr.persp.cmds[Len(tr.persp.cmds)]
       ELSE tr.phead = NoId
    /\ \A i \in 1..Len(tr.persp.cmds) :
         /\ tr.persp.cmds[i] \in PeerIds
         /\ ParentSet(tr.persp.cmds[i]) = ParentsIn(sg, tr.persp, i)
         /\ \A h \in tr.heads : h.id # tr.persp.cmds[i]

GraphInv ==
    /\ GraphOK(segs) /\ use \in Uses
    /\ head \in Locs(segs) \/ (head = NoLoc /\ segs = <<>>)

TrxInv == trx = [t \in Trxs |-> trx[t]] /\ \A t \in Trxs : TrxOK(segs, trx[t])

\* A commit that merges with the head has it in the queue or behind what is left.
CommitInv ==
    /\ queue \in Seq(HeadsIn(segs)) /\ busy \in Trxs \cup {NoTrx}
    /\ busy = NoTrx => queue = <<>> /\ ~merging
    /\ busy # NoTrx => Exists /\ trx[busy].heads = {} /\ trx[busy].persp = NoPersp
    /\ merging => \/ Len(queue) = 2 /\ queue[2].loc = head
                  \/ Len(queue) = 1 /\ Descends(queue[1].loc)

CareInv == Careful => /\ IdsOK(segs)
                      /\ \A t \in Trxs : TrxCare(segs, trx[t])

\* What a transaction holds on to outside of commit.
HeldBy(sg, tr) ==
    {tr.persp.cmds[i] : i \in DOMAIN tr.persp.cmds}
    \cup (UNION {IdsUpTo(sg, h.loc) : h \in tr.heads})
    \cup (UNION {IdsUpTo(sg, tr.persp.prior[i]) : i \in DOMAIN tr.persp.prior})

\* The parts of it.
LEMMA HeldParts ==
    ASSUME NEW sg, NEW tr
    PROVE  /\ {tr.persp.cmds[i] : i \in DOMAIN tr.persp.cmds} \subseteq HeldBy(sg, tr)
           /\ UNION {IdsUpTo(sg, h.loc) : h \in tr.heads} \subseteq HeldBy(sg, tr)
           /\ \A i \in DOMAIN tr.persp.prior : IdsUpTo(sg, tr.persp.prior[i]) \subseteq HeldBy(sg, tr)
<1>1. UNION {IdsUpTo(sg, tr.persp.prior[i]) : i \in DOMAIN tr.persp.prior} \subseteq HeldBy(sg, tr)
  BY DEF HeldBy
<1>2. \A i \in DOMAIN tr.persp.prior : IdsUpTo(sg, tr.persp.prior[i]) \subseteq HeldBy(sg, tr)
  BY <1>1
<1> QED
  BY <1>2 DEF HeldBy

\* What the commit has still to merge.
InQueue == UNION {IdsUpTo(segs, queue[i].loc) : i \in DOMAIN queue}

\* What is said of transactions stays true when the graph grows.
LEMMA TrxKept ==
    ASSUME NEW sg, NEW sg2, GraphOK(sg), Extends(sg2, sg)
    PROVE  /\ HeadsIn(sg) \subseteq HeadsIn(sg2)
           /\ \A tr : TrxOK(sg, tr) =>
                /\ TrxOK(sg2, tr)
                /\ TrxCare(sg, tr) => TrxCare(sg2, tr)
                /\ HeldBy(sg2, tr) = HeldBy(sg, tr)
<1>1. Locs(sg) \subseteq Locs(sg2)
  BY UpToKept
<1>2. ASSUME NEW x \in Locs(sg)
      PROVE  Id(sg2, x) = Id(sg, x) /\ IdsUpTo(sg2, x) = IdsUpTo(sg, x)
  BY UpToKept, ZenonT(60)
<1>3. HeadsIn(sg) \subseteq HeadsIn(sg2)
  BY <1>1, <1>2, Zenon DEF HeadsIn
<1>4. ASSUME NEW tr, TrxOK(sg, tr) PROVE TrxOK(sg2, tr)
  <2>1. Seq(Locs(sg)) \subseteq Seq(Locs(sg2))
    BY <1>1
  <2>2. tr.persp \in [prior : Seq(Locs(sg2)), cmds : Seq(Nat \ {0}), open : BOOLEAN]
    BY <1>4, <2>1, Zenon DEF TrxOK
  <2> QED
    BY <1>3, <1>4, <2>2, Zenon DEF TrxOK
<1>5. ASSUME NEW tr, TrxOK(sg, tr)
      PROVE  /\ \A j \in DOMAIN tr.persp.prior : tr.persp.prior[j] \in Locs(sg)
             /\ \A h \in tr.heads : h.loc \in Locs(sg)
  <2>1. tr.persp.prior \in Seq(Locs(sg))
    BY <1>5, Zenon DEF TrxOK
  <2> QED
    BY <1>5, <2>1 DEF TrxOK, HeadsIn
<1>6. ASSUME NEW tr, TrxOK(sg, tr), TrxCare(sg, tr) PROVE TrxCare(sg2, tr)
  <2>1. \A i : ParentsIn(sg2, tr.persp, i) = ParentsIn(sg, tr.persp, i)
    BY <1>2, <1>5, <1>6, Zenon DEF ParentsIn
  <2> QED
    BY <1>6, <2>1 DEF TrxCare
<1>7. ASSUME NEW tr, TrxOK(sg, tr) PROVE HeldBy(sg2, tr) = HeldBy(sg, tr)
  BY <1>2, <1>5, <1>7, Zenon DEF HeldBy
<1> QED
  BY <1>3, <1>4, <1>6, <1>7, Zenon

\* The perspective of a transaction as a segment.
SegmentOf(tr) == [prior |-> tr.persp.prior, cmds |-> tr.persp.cmds]

\* It can be written when it is not empty.
LEMMA SegmentFacts ==
    ASSUME NEW sg, GraphOK(sg), NEW tr, TrxOK(sg, tr), tr.persp.cmds # <<>>
    PROVE  /\ SegmentOf(tr) \in Segments
           /\ \A j \in DOMAIN SegmentOf(tr).prior : SegmentOf(tr).prior[j] \in Locs(sg)
           /\ IdsOK(sg) /\ TrxCare(sg, tr) => IdsOK(Append(sg, SegmentOf(tr)))
<1> DEFINE seg == SegmentOf(tr)
<1>1. tr.persp.prior \in Seq(Locs(sg)) /\ tr.persp.cmds \in Seq(Nat \ {0})
  BY DEF TrxOK
<1>2. Locs(sg) \subseteq Nat \X Nat
  <2>1. ASSUME NEW x \in Locs(sg) PROVE x \in Nat \X Nat
    <3>1. x = <<x[1], x[2]>> /\ x[1] \in 1..Len(sg) /\ x[2] \in 1..Len(sg[x[1]].cmds)
      BY LocsFacts DEF GraphOK
    <3>2. x[1] \in Nat /\ x[2] \in Nat
      BY <3>1
    <3> QED
      BY <3>1, <3>2, Zenon
  <2> QED
    BY <2>1
<1>3. tr.persp.prior \in Seq(Nat \X Nat)
  BY <1>1, <1>2
<1>4. seg \in Segments
  BY <1>1, <1>3, Zenon DEF Segments, SegmentOf
<1>5. \A j \in DOMAIN seg.prior : seg.prior[j] \in Locs(sg)
  BY <1>1 DEF SegmentOf
<1>6. ASSUME IdsOK(sg), TrxCare(sg, tr) PROVE IdsOK(Append(sg, seg))
  <2>1. ASSUME NEW i \in 1..Len(seg.cmds)
        PROVE  Lawful(seg.cmds[i], ParentsIn(sg, seg, i)) /\ seg.cmds[i] \notin LocalIds
    <3>1. /\ seg.cmds[i] \in PeerIds
          /\ ParentSet(seg.cmds[i]) = ParentsIn(sg, seg, i)
      BY <1>6, Zenon DEF TrxCare, SegmentOf, ParentsIn
    <3> QED
      BY <3>1, IdsAssumption, Zenon DEF Lawful, NoId
  <2> HIDE DEF seg
  <2> QED
    BY <1>4, <1>5, <1>6, <2>1, IdsGrow, Zenon
<1> QED
  BY <1>4, <1>5, <1>6, Zenon

\* Writing out the perspective (get_perspective, add_merge, commit).
FlushSound(tr, f) ==
    /\ Extends(f.segs, segs) /\ TrxOK(f.segs, f.trx)
    /\ f.trx.persp = NoPersp /\ f.trx.added = tr.added
    /\ ~f.ok => f.segs = segs

FlushCare(tr, keep, f) ==
    /\ IdsOK(f.segs)
    /\ HeldBy(segs, tr) \subseteq HeldBy(f.segs, f.trx)
    /\ \A h \in f.trx.heads : h \in tr.heads \/ \E i \in DOMAIN tr.persp.cmds : h.id = tr.persp.cmds[i]
    /\ ~keep => f.trx.phead = NoId

\* A graph that does not change.
LEMMA ExtendsItself ==
    ASSUME NEW sg, GraphOK(sg) PROVE Extends(sg, sg)
<1>1. Len(sg) \in Nat
  BY LocsFacts DEF GraphOK
<1> QED
  BY <1>1 DEF Extends

\* A segment holds its own commands and what is up to its priors.
LEMMA SegmentHolds ==
    ASSUME NEW sg, GraphOK(sg), NEW seg \in Segments,
           \A j \in DOMAIN seg.prior : seg.prior[j] \in Locs(sg)
    PROVE  LET sg2 == Append(sg, seg)
               last == HeadOf(sg2, Len(sg2))
           IN  /\ Extends(sg2, sg) /\ Len(sg2) = Len(sg) + 1 /\ sg2[Len(sg2)] = seg
               /\ last = <<Len(sg) + 1, Len(seg.cmds)>> /\ last \in Locs(sg2)
               /\ Id(sg2, last) = seg.cmds[Len(seg.cmds)]
               /\ \A i \in 1..Len(seg.cmds) : seg.cmds[i] \in IdsUpTo(sg2, last)
               /\ \A j \in DOMAIN seg.prior : /\ UpTo(sg, seg.prior[j]) \subseteq UpTo(sg2, <<Len(sg) + 1, 1>>)
                                             /\ seg.prior[j] \in Before(sg2, <<Len(sg) + 1, 1>>)
                                             /\ IdsUpTo(sg, seg.prior[j]) \subseteq IdsUpTo(sg2, last)
<1> DEFINE sg2 == Append(sg, seg)
           n == Len(sg) + 1
           m == Len(seg.cmds)
           last == HeadOf(sg2, Len(sg2))
<1>1. /\ GraphOK(sg2) /\ Len(sg2) = n /\ sg2[n] = seg
      /\ \A s \in 1..Len(sg) : sg2[s] = sg[s]
      /\ \A i \in 1..m : <<n, i>> \in Locs(sg2)
  BY GraphGrows, Zenon
<1>2. Len(sg) \in Nat /\ m \in Nat \ {0}
  <2>1. Len(sg) \in Nat
    BY LocsFacts DEF GraphOK
  <2>2. seg.cmds \in Seq(Nat \ {0}) /\ seg.cmds # <<>>
    BY DEF Segments
  <2> QED
    BY <2>1, <2>2
<1> HIDE DEF sg2, n, m
<1>3. n \in Nat /\ Len(sg) < n
  BY <1>2 DEF n
<1>4. Extends(sg2, sg)
  BY <1>1, <1>2, <1>3 DEF Extends
<1>5. last = <<n, m>> /\ last \in Locs(sg2) /\ Id(sg2, last) = seg.cmds[m]
  <2>1. last = <<n, m>>
    BY <1>1, Zenon DEF HeadOf, m
  <2> QED
    BY <1>1, <1>2, <2>1 DEF Id
<1> HIDE DEF last
<1>6. ASSUME NEW i \in 1..m
      PROVE  seg.cmds[i] \in IdsUpTo(sg2, last) /\ UpTo(sg2, <<n, i>>) \subseteq UpTo(sg2, last)
  <2>1. <<n, i>> \in UpTo(sg2, <<n, m>>) /\ UpTo(sg2, <<n, i>>) \subseteq UpTo(sg2, <<n, m>>)
    <3>1. i \in Nat \ {0} /\ m \in Nat /\ i <= m
      BY <1>2
    <3> QED
      BY <3>1, UpToSegment, Zenon
  <2>2. Id(sg2, <<n, i>>) = seg.cmds[i]
    BY <1>1, ZenonT(60) DEF Id
  <2> QED
    BY <1>5, <2>1, <2>2, Zenon DEF IdsUpTo
<1>7. ASSUME NEW j \in DOMAIN seg.prior
      PROVE  /\ UpTo(sg, seg.prior[j]) \subseteq UpTo(sg2, <<n, 1>>)
             /\ seg.prior[j] \in Before(sg2, <<n, 1>>)
             /\ IdsUpTo(sg, seg.prior[j]) \subseteq IdsUpTo(sg2, last)
  <2> DEFINE q == seg.prior[j]
  <2>1. q \in Locs(sg)
    BY ZenonT(60)
  <2>2. q \in Parents(sg2, <<n, 1>>)
    BY <1>1 DEF Parents, Priors
  <2>3. 1 \in 1..m
    BY <1>2
  <2>4. UpTo(sg2, q) \subseteq UpTo(sg2, <<n, 1>>)
    BY <1>1, <2>2, <2>3, UpToStep
  <2>5. UpTo(sg2, q) = UpTo(sg, q) /\ IdsUpTo(sg2, q) = IdsUpTo(sg, q) /\ q \in UpTo(sg, q)
    BY <1>4, <2>1, UpToKept, UpToLocs
  <2>6. q # <<n, 1>>
    <3>1. q[1] \in 1..Len(sg)
      BY <2>1, LocsFacts, Zenon DEF GraphOK
    <3>2. q[1] # n
      BY <1>2, <1>3, <3>1
    <3> QED
      BY <3>2
  <2>7. UpTo(sg2, <<n, 1>>) \subseteq UpTo(sg2, last)
    BY <1>6, <2>3, Zenon
  <2> HIDE DEF q
  <2>8. IdsUpTo(sg2, q) \subseteq IdsUpTo(sg2, last)
    BY <2>4, <2>7 DEF IdsUpTo
  <2> QED
    BY <2>4, <2>5, <2>6, <2>8, Zenon DEF Before, q
<1> QED
  BY <1>1, <1>4, <1>5, <1>6, <1>7, Zenon DEF sg2, n, m, last

\* The transaction after a write.
Closed(tr, keep, heads) ==
    [persp |-> NoPersp, phead |-> IF keep THEN tr.phead ELSE NoId, heads |-> heads, added |-> tr.added]

\* The cases of Flush.
LEMMA FlushCases ==
    ASSUME NEW tr, TrxOK(segs, tr), NEW keep \in BOOLEAN
    PROVE  LET f == Flush(tr, keep)
               sg == Append(segs, SegmentOf(tr))
           IN  /\ ~tr.persp.open => f = [ok |-> TRUE, segs |-> segs, trx |-> tr]
               /\ tr.persp.open /\ tr.persp.cmds = <<>> =>
                    f = [ok |-> FALSE, segs |-> segs, trx |-> Closed(tr, keep, tr.heads)]
               /\ tr.persp.open /\ tr.persp.cmds # <<>> =>
                    f = [ok |-> TRUE, segs |-> sg, trx |-> Closed(tr, keep, Written(tr, sg))]
<1> DEFINE closed == [tr EXCEPT !.persp = NoPersp, !.phead = IF keep THEN @ ELSE NoId]
           sg == Append(segs, SegmentOf(tr))
<1>1. closed = Closed(tr, keep, tr.heads)
  <2>1. PICK p, ph, hs, ad : tr = [persp |-> p, phead |-> ph, heads |-> hs, added |-> ad]
    BY DEF TrxOK
  <2> DEFINE k == IF keep THEN tr.phead ELSE NoId
  <2>2. Closed(tr, keep, tr.heads) = [persp |-> NoPersp, phead |-> k, heads |-> tr.heads, added |-> tr.added]
    BY DEF Closed
  <2>3. closed = [[tr EXCEPT !.persp = NoPersp] EXCEPT !.phead = k]
    BY <2>1, Zenon
  <2> HIDE DEF k, closed
  <2>4. tr.heads = hs /\ tr.added = ad
    BY <2>1
  <2>5. [tr EXCEPT !.persp = NoPersp] = [persp |-> NoPersp, phead |-> ph, heads |-> hs, added |-> ad]
    BY <2>1
  <2>6. closed = [persp |-> NoPersp, phead |-> k, heads |-> hs, added |-> ad]
    BY <2>3, <2>5, Zenon
  <2> QED
    BY <2>2, <2>4, <2>6, Zenon
<1>2. [closed EXCEPT !.heads = Written(tr, sg)] = Closed(tr, keep, Written(tr, sg))
  <2> DEFINE k == IF keep THEN tr.phead ELSE NoId
             w == Written(tr, sg)
  <2>1. /\ Closed(tr, keep, tr.heads) = [persp |-> NoPersp, phead |-> k, heads |-> tr.heads, added |-> tr.added]
        /\ Closed(tr, keep, w) = [persp |-> NoPersp, phead |-> k, heads |-> w, added |-> tr.added]
    BY DEF Closed
  <2> HIDE DEF k, closed, w
  <2>2. [closed EXCEPT !.heads = w] = Closed(tr, keep, w)
    BY <1>1, <2>1
  <2> QED
    BY <2>2, Zenon DEF w
<1>3. sg = Append(segs, [prior |-> tr.persp.prior, cmds |-> tr.persp.cmds])
  BY DEF SegmentOf
<1>4. Flush(tr, keep) =
        CASE ~tr.persp.open -> [ok |-> TRUE, segs |-> segs, trx |-> tr]
          [] tr.persp.open /\ tr.persp.cmds = <<>> -> [ok |-> FALSE, segs |-> segs, trx |-> closed]
          [] OTHER -> [ok |-> TRUE, segs |-> sg, trx |-> [closed EXCEPT !.heads = Written(tr, sg)]]
  BY <1>3 DEF Flush
<1> HIDE DEF closed, sg
<1> QED
  BY <1>1, <1>2, <1>4, Zenon DEF sg

\* The heads after a write.
LEMMA WrittenHeads ==
    ASSUME GraphOK(segs), NEW tr, TrxOK(segs, tr), tr.persp.cmds # <<>>
    PROVE  LET sg == Append(segs, SegmentOf(tr))
               last == HeadOf(sg, Len(sg))
               id == tr.persp.cmds[Len(tr.persp.cmds)]
           IN  /\ Extends(sg, segs)
               /\ Written(tr, sg) \subseteq HeadsIn(sg)
               /\ [id |-> id, loc |-> last] \in Written(tr, sg)
               /\ \A h \in Written(tr, sg) : h \in tr.heads \/ h.id = id
               /\ \A h \in tr.heads : h.id # id => h \in Written(tr, sg)
<1> DEFINE sg == Append(segs, SegmentOf(tr))
           last == HeadOf(sg, Len(sg))
           id == tr.persp.cmds[Len(tr.persp.cmds)]
           new == [id |-> id, loc |-> last]
<1>1. /\ SegmentOf(tr) \in Segments
      /\ \A j \in DOMAIN SegmentOf(tr).prior : SegmentOf(tr).prior[j] \in Locs(segs)
  BY SegmentFacts
<1>2. SegmentOf(tr).cmds = tr.persp.cmds
  BY ZenonT(60) DEF SegmentOf
<1>3. Extends(sg, segs) /\ last \in Locs(sg) /\ Id(sg, last) = id
  <2>1. /\ Extends(sg, segs) /\ last \in Locs(sg)
        /\ Id(sg, last) = SegmentOf(tr).cmds[Len(SegmentOf(tr).cmds)]
    BY <1>1, SegmentHolds, Zenon
  <2> QED
    BY <1>2, <2>1, Zenon
<1>4. Written(tr, sg) = Without(tr.heads, {id}) \cup {new}
  BY Zenon DEF Written
<1> HIDE DEF sg, last, id
<1>5. new \in HeadsIn(sg)
  BY <1>3, Zenon DEF HeadsIn
<1>6. tr.heads \subseteq HeadsIn(sg)
  BY <1>3, TrxKept, Zenon DEF TrxOK
<1>7. Without(tr.heads, {id}) \subseteq tr.heads /\ \A h \in tr.heads : h.id # id => h \in Without(tr.heads, {id})
  BY Zenon DEF Without
<1>8. new.id = id
  OBVIOUS
<1> HIDE DEF new
<1>9. /\ Written(tr, sg) \subseteq HeadsIn(sg) /\ new \in Written(tr, sg)
      /\ \A h \in Written(tr, sg) : h \in tr.heads \/ h.id = id
      /\ \A h \in tr.heads : h.id # id => h \in Written(tr, sg)
  BY <1>4, <1>5, <1>6, <1>7, <1>8, Zenon
<1> QED
  BY <1>3, <1>9, ZenonT(60) DEF sg, last, id, new

\* A transaction without a perspective.
LEMMA ClosedSound ==
    ASSUME NEW sg, NEW tr, NEW keep \in BOOLEAN, NEW heads,
           heads \subseteq HeadsIn(sg)
    PROVE  LET new == Closed(tr, keep, heads)
           IN  /\ TrxOK(sg, new) /\ new.persp = NoPersp /\ new.added = tr.added
               /\ new.heads = heads /\ (~keep => new.phead = NoId)
<1>1. NoPersp \in [prior : Seq(Locs(sg)), cmds : Seq(Nat \ {0}), open : BOOLEAN]
  BY DEF NoPersp
<1> QED
  BY <1>1, Zenon DEF TrxOK, Closed, NoPersp

\* Writing the perspective keeps all that the transaction holds.
LEMMA FlushFacts ==
    ASSUME GraphOK(segs), NEW tr, TrxOK(segs, tr), NEW keep \in BOOLEAN
    PROVE  LET f == Flush(tr, keep)
           IN  /\ FlushSound(tr, f)
               /\ f.ok /\ IdsOK(segs) /\ TrxCare(segs, tr) => FlushCare(tr, keep, f)
<1> DEFINE f == Flush(tr, keep)
           sg == Append(segs, SegmentOf(tr))
<1>1. CASE ~tr.persp.open
  <2>1. f = [ok |-> TRUE, segs |-> segs, trx |-> tr] /\ tr.persp = NoPersp
    BY <1>1, FlushCases, Zenon DEF TrxOK
  <2>2. f.segs = segs /\ f.trx = tr
    BY <2>1
  <2> HIDE DEF f
  <2>3. FlushSound(tr, f)
    BY <2>1, <2>2, ExtendsItself, Zenon DEF FlushSound
  <2>4. ASSUME IdsOK(segs), TrxCare(segs, tr) PROVE FlushCare(tr, keep, f)
    BY <1>1, <2>2, <2>4, Zenon DEF FlushCare, TrxCare
  <2> QED
    BY <2>3, <2>4, Zenon DEF f
<1>2. CASE tr.persp.open /\ tr.persp.cmds = <<>>
  <2>1. f = [ok |-> FALSE, segs |-> segs, trx |-> Closed(tr, keep, tr.heads)]
    BY <1>2, FlushCases, Zenon
  <2>2. f.segs = segs /\ f.trx = Closed(tr, keep, tr.heads) /\ ~f.ok
    BY <2>1
  <2>3. /\ TrxOK(segs, Closed(tr, keep, tr.heads))
        /\ Closed(tr, keep, tr.heads).persp = NoPersp
        /\ Closed(tr, keep, tr.heads).added = tr.added
    <3>1. tr.heads \subseteq HeadsIn(segs)
      BY DEF TrxOK
    <3> QED
      BY <3>1, ClosedSound
  <2> HIDE DEF f
  <2>4. FlushSound(tr, f)
    BY <2>2, <2>3, ExtendsItself, Zenon DEF FlushSound
  <2> QED
    BY <2>2, <2>4, Zenon DEF f
<1>3. CASE tr.persp.open /\ tr.persp.cmds # <<>>
  <2> DEFINE new == Closed(tr, keep, Written(tr, sg))
             id == tr.persp.cmds[Len(tr.persp.cmds)]
             last == HeadOf(sg, Len(sg))
  <2>1. f = [ok |-> TRUE, segs |-> sg, trx |-> new]
    BY <1>3, FlushCases, Zenon
  <2>2. f.segs = sg /\ f.trx = new /\ f.ok
    BY <2>1
  <2>3. /\ Extends(sg, segs)
        /\ Written(tr, sg) \subseteq HeadsIn(sg)
        /\ [id |-> id, loc |-> last] \in Written(tr, sg)
        /\ \A h \in Written(tr, sg) : h \in tr.heads \/ h.id = id
        /\ \A h \in tr.heads : h.id # id => h \in Written(tr, sg)
    <3>1. tr.persp.cmds # <<>>
      BY <1>3, Zenon
    <3> QED
      BY <3>1, WrittenHeads, Zenon
  <2>4. /\ TrxOK(sg, new) /\ new.persp = NoPersp /\ new.added = tr.added
        /\ new.heads = Written(tr, sg) /\ (~keep => new.phead = NoId)
    <3>1. Written(tr, sg) \subseteq HeadsIn(sg)
      BY <2>3, Zenon
    <3> HIDE DEF sg
    <3> QED
      BY <3>1, ClosedSound
  <2>5. /\ SegmentOf(tr) \in Segments
        /\ \A j \in DOMAIN SegmentOf(tr).prior : SegmentOf(tr).prior[j] \in Locs(segs)
        /\ IdsOK(segs) /\ TrxCare(segs, tr) => IdsOK(sg)
    BY <1>3, SegmentFacts, Zenon
  <2>6. /\ SegmentOf(tr).cmds = tr.persp.cmds /\ SegmentOf(tr).prior = tr.persp.prior
        /\ tr.persp.cmds \in Seq(Nat \ {0})
    BY Zenon DEF SegmentOf, TrxOK
  <2>7. /\ \A i \in 1..Len(tr.persp.cmds) : tr.persp.cmds[i] \in IdsUpTo(sg, last)
        /\ \A j \in DOMAIN tr.persp.prior : IdsUpTo(segs, tr.persp.prior[j]) \subseteq IdsUpTo(sg, last)
    BY <2>5, <2>6, SegmentHolds, Zenon
  <2>8. Len(tr.persp.cmds) \in 1..Len(tr.persp.cmds) /\ DOMAIN tr.persp.cmds = 1..Len(tr.persp.cmds)
    BY <1>3, <2>6
  <2> HIDE DEF f, sg, new, id, last
  <2>9. FlushSound(tr, f)
    BY <2>2, <2>3, <2>4, Zenon DEF FlushSound
  <2>10. ASSUME IdsOK(segs), TrxCare(segs, tr) PROVE FlushCare(tr, keep, f)
    <3>1. \A h \in tr.heads : h \in Written(tr, sg)
      BY <2>3, <2>8, <2>10, Zenon DEF TrxCare, id
    <3>2. \A h \in tr.heads : h.loc \in Locs(segs) /\ IdsUpTo(sg, h.loc) = IdsUpTo(segs, h.loc)
      <4>1. \A h \in tr.heads : h.loc \in Locs(segs)
        BY DEF TrxOK, HeadsIn
      <4> QED
        BY <2>3, <4>1, UpToKept, Zenon
    <3>3. UNION {IdsUpTo(segs, h.loc) : h \in tr.heads} \subseteq UNION {IdsUpTo(sg, h.loc) : h \in Written(tr, sg)}
      BY <3>1, <3>2, Zenon
    <3>4. IdsUpTo(sg, last) \subseteq UNION {IdsUpTo(sg, h.loc) : h \in Written(tr, sg)}
      BY <2>3
    <3>5. HeldBy(segs, tr) \subseteq UNION {IdsUpTo(sg, h.loc) : h \in Written(tr, sg)}
      <4>1. {tr.persp.cmds[i] : i \in DOMAIN tr.persp.cmds} \subseteq IdsUpTo(sg, last)
        BY <2>7, <2>8, Zenon
      <4>2. UNION {IdsUpTo(segs, tr.persp.prior[i]) : i \in DOMAIN tr.persp.prior} \subseteq IdsUpTo(sg, last)
        BY <2>7, Zenon
      <4> QED
        BY <3>3, <3>4, <4>1, <4>2, Zenon DEF HeldBy
    <3>6. HeldBy(segs, tr) \subseteq HeldBy(f.segs, f.trx)
      <4>1. UNION {IdsUpTo(sg, h.loc) : h \in new.heads} \subseteq HeldBy(sg, new)
        BY HeldParts, Zenon
      <4> QED
        BY <2>2, <2>4, <3>5, <4>1, Zenon
    <3>7. \A h \in f.trx.heads : h \in tr.heads \/ \E i \in DOMAIN tr.persp.cmds : h.id = tr.persp.cmds[i]
      BY <2>2, <2>3, <2>4, <2>8, Zenon DEF id
    <3> QED
      BY <2>2, <2>4, <2>5, <2>10, <3>6, <3>7, Zenon DEF FlushCare
  <2> QED
    BY <2>9, <2>10, Zenon DEF f
<1>4. tr.persp.open \in BOOLEAN
  BY DEF TrxOK
<1> QED
  BY <1>1, <1>2, <1>3, <1>4, Zenon

-----------------------------------------------------------------------------
(* A perspective is opened.                                                *)

Opened(tr, ps, ph, ids) ==
    [persp |-> [prior |-> ps, cmds |-> <<>>, open |-> TRUE], phead |-> ph,
     heads |-> Without(tr.heads, ids), added |-> tr.added]

\* As get_perspective and add_merge do it.
OpenedAt(tr, ps, ph, ids) ==
    [tr EXCEPT !.persp = [prior |-> ps, cmds |-> <<>>, open |-> TRUE], !.phead = ph, !.heads = Without(@, ids)]
OpenedMerge(tr, ps, ids) ==
    [tr EXCEPT !.persp = [prior |-> ps, cmds |-> <<>>, open |-> TRUE], !.heads = Without(@, ids)]

\* A perspective that was just opened has no commands.
LEMMA NewPersp ==
    ASSUME NEW ps, NEW p, p = [prior |-> ps, cmds |-> <<>>, open |-> TRUE]
    PROVE  p.prior = ps /\ p.cmds = <<>> /\ p.open
OBVIOUS

\* They give the transaction the perspective of Opened and leave the rest of it.
LEMMA OpenedIs ==
    ASSUME NEW sg, NEW tr, TrxOK(sg, tr), NEW ps, NEW ph, NEW ids
    PROVE  /\ OpenedAt(tr, ps, ph, ids) = Opened(tr, ps, ph, ids)
           /\ OpenedMerge(tr, ps, ids) = Opened(tr, ps, tr.phead, ids)
<1> DEFINE persp == [prior |-> ps, cmds |-> <<>>, open |-> TRUE]
           w == Without(tr.heads, ids)
<1>1. PICK p, q, hs, ad : tr = [persp |-> p, phead |-> q, heads |-> hs, added |-> ad]
  BY Zenon DEF TrxOK
<1>2. tr.added = ad /\ tr.phead = q
  BY <1>1, Zenon
<1>3. \A k : Opened(tr, ps, k, ids) = [persp |-> persp, phead |-> k, heads |-> w, added |-> tr.added]
  BY DEF Opened
<1> HIDE DEF persp, w
<1>4. /\ [tr EXCEPT !.persp = persp, !.phead = ph, !.heads = w]
            = [persp |-> persp, phead |-> ph, heads |-> w, added |-> ad]
      /\ [tr EXCEPT !.persp = persp, !.heads = w] = [persp |-> persp, phead |-> q, heads |-> w, added |-> ad]
  <2> DEFINE t1 == [tr EXCEPT !.persp = persp]
             t2 == [t1 EXCEPT !.phead = ph]
  <2>1. t1 = [persp |-> persp, phead |-> q, heads |-> hs, added |-> ad]
    BY <1>1
  <2>2. /\ [tr EXCEPT !.persp = persp, !.heads = w] = [t1 EXCEPT !.heads = w]
        /\ [tr EXCEPT !.persp = persp, !.phead = ph, !.heads = w] = [t2 EXCEPT !.heads = w]
    OBVIOUS
  <2> HIDE DEF t1
  <2>3. t2 = [persp |-> persp, phead |-> ph, heads |-> hs, added |-> ad]
    BY <2>1
  <2> HIDE DEF t2
  <2>4. /\ [t1 EXCEPT !.heads = w] = [persp |-> persp, phead |-> q, heads |-> w, added |-> ad]
        /\ [t2 EXCEPT !.heads = w] = [persp |-> persp, phead |-> ph, heads |-> w, added |-> ad]
    BY <2>1, <2>3
  <2> QED
    BY <2>2, <2>4, Zenon
<1>5. /\ [tr EXCEPT !.persp = persp, !.phead = ph, !.heads = w] = Opened(tr, ps, ph, ids)
      /\ [tr EXCEPT !.persp = persp, !.heads = w] = Opened(tr, ps, tr.phead, ids)
  BY <1>2, <1>3, <1>4, Zenon
<1> QED
  BY <1>5, Zenon DEF persp, w, OpenedAt, OpenedMerge

\* A command in the perspective.
LEMMA AddedIs ==
    ASSUME NEW sg, NEW tr, TrxOK(sg, tr), NEW c \in Nat \ {0}
    PROVE  LET new == Added(tr, c)
           IN  /\ new = [persp |-> [prior |-> tr.persp.prior, cmds |-> Append(tr.persp.cmds, c),
                                   open |-> tr.persp.open],
                         phead |-> c, heads |-> tr.heads, added |-> tr.added \cup {c}]
               /\ tr.persp.open => TrxOK(sg, new)
<1> DEFINE p == tr.persp
           new == Added(tr, c)
<1>1. /\ tr = [persp |-> p, phead |-> tr.phead, heads |-> tr.heads, added |-> tr.added]
      /\ p \in [prior : Seq(Locs(sg)), cmds : Seq(Nat \ {0}), open : BOOLEAN]
  BY DEF TrxOK
<1>2. [p EXCEPT !.cmds = Append(p.cmds, c)] = [prior |-> p.prior, cmds |-> Append(p.cmds, c), open |-> p.open]
  <2>1. PICK a, b, o : p = [prior |-> a, cmds |-> b, open |-> o]
    BY <1>1, Zenon
  <2> HIDE DEF p
  <2> QED
    BY <2>1, SMTT(60)
<1>3. new = [[[tr EXCEPT !.persp = [p EXCEPT !.cmds = Append(p.cmds, c)]] EXCEPT !.phead = c]
                 EXCEPT !.added = tr.added \cup {c}]
  BY <1>1 DEF Added
<1>4. new = [persp |-> [prior |-> p.prior, cmds |-> Append(p.cmds, c), open |-> p.open],
             phead |-> c, heads |-> tr.heads, added |-> tr.added \cup {c}]
  BY <1>1, <1>2, <1>3, Zenon
<1>5. Append(p.cmds, c) \in Seq(Nat \ {0})
  BY <1>1
<1>6. ASSUME tr.persp.open PROVE TrxOK(sg, new)
  <2>1. new.persp \in [prior : Seq(Locs(sg)), cmds : Seq(Nat \ {0}), open : BOOLEAN] /\ new.persp.open
    BY <1>1, <1>4, <1>5, <1>6
  <2> HIDE DEF p
  <2>2. /\ new.heads = tr.heads
        /\ new = [persp |-> new.persp, phead |-> new.phead, heads |-> new.heads, added |-> new.added]
    BY <1>4
  <2> QED
    BY <2>1, <2>2, Zenon DEF TrxOK
<1> QED
  BY <1>4, <1>6, ZenonT(60)

\* A command at the end of the perspective, after phead.
LEMMA AppendCare ==
    ASSUME NEW sg, NEW tr, TrxOK(sg, tr), TrxCare(sg, tr), tr.persp.open,
           NEW c \in PeerIds, ParentSet(c) = {tr.phead}, \A h \in tr.heads : h.id # c
    PROVE  LET new == Added(tr, c)
           IN  /\ TrxOK(sg, new) /\ TrxCare(sg, new)
               /\ new.added = tr.added \cup {c}
               /\ HeldBy(sg, tr) \cup {c} \subseteq HeldBy(sg, new)
<1> DEFINE new == Added(tr, c)
           cmds == tr.persp.cmds
           n == Len(cmds)
<1>0. c \in Nat \ {0}
  BY IdsAssumption, Zenon DEF NoId
<1>1. /\ new = [persp |-> [prior |-> tr.persp.prior, cmds |-> Append(cmds, c), open |-> tr.persp.open],
                 phead |-> c, heads |-> tr.heads, added |-> tr.added \cup {c}]
      /\ TrxOK(sg, new)
  BY <1>0, AddedIs, Zenon
<1>2. cmds \in Seq(Nat \ {0}) /\ cmds # <<>> /\ tr.phead = cmds[n]
  BY Zenon DEF TrxOK, TrxCare
<1>3. /\ new.persp.prior = tr.persp.prior /\ new.persp.open /\ new.phead = c
      /\ new.heads = tr.heads /\ new.added = tr.added \cup {c} /\ new.persp.cmds = Append(cmds, c)
  BY <1>1
<1>4. n \in Nat \ {0} /\ DOMAIN cmds = 1..n
  BY <1>2
<1>5. /\ Len(new.persp.cmds) = n + 1 /\ new.persp.cmds[n + 1] = c /\ new.persp.cmds # <<>>
      /\ DOMAIN new.persp.cmds = 1..(n + 1)
      /\ \A i \in 1..n : new.persp.cmds[i] = cmds[i]
  BY <1>0, <1>2, <1>3, AppendFacts
<1> HIDE DEF new, n
<1>6. ASSUME NEW i \in 1..(n + 1)
      PROVE  /\ new.persp.cmds[i] \in PeerIds
             /\ ParentSet(new.persp.cmds[i]) = ParentsIn(sg, new.persp, i)
             /\ \A h \in new.heads : h.id # new.persp.cmds[i]
  <2>1. CASE i = n + 1
    <3>1. i > 1 /\ i - 1 = n /\ n \in 1..n
      BY <1>4, <2>1
    <3>2. ParentsIn(sg, new.persp, i) = {cmds[n]}
      BY <1>5, <3>1, Zenon DEF ParentsIn
    <3> QED
      BY <1>2, <1>3, <1>5, <2>1, <3>2, ZenonT(30)
  <2>2. CASE i # n + 1
    <3>1. i \in 1..n
      BY <1>4, <2>2
    <3>2. i > 1 => i - 1 \in 1..n
      BY <1>4, <3>1
    <3>3. ParentsIn(sg, new.persp, i) = ParentsIn(sg, tr.persp, i)
      BY <1>3, <1>5, <3>1, <3>2, ZenonT(30) DEF ParentsIn
    <3>4. /\ cmds[i] \in PeerIds /\ ParentSet(cmds[i]) = ParentsIn(sg, tr.persp, i)
          /\ \A h \in tr.heads : h.id # cmds[i]
      BY <3>1, Zenon DEF TrxCare, n
    <3> QED
      BY <1>3, <1>5, <3>1, <3>3, <3>4, Zenon
  <2> QED
    BY <2>1, <2>2, Zenon
<1>7. TrxCare(sg, new)
  BY <1>3, <1>5, <1>6 DEF TrxCare
<1>8. HeldBy(sg, tr) \cup {c} \subseteq HeldBy(sg, new)
  <2>1. /\ c \in {new.persp.cmds[i] : i \in DOMAIN new.persp.cmds}
        /\ {cmds[i] : i \in DOMAIN cmds} \subseteq {new.persp.cmds[i] : i \in DOMAIN new.persp.cmds}
    <3>1. n + 1 \in 1..(n + 1) /\ 1..n \subseteq 1..(n + 1)
      BY <1>4
    <3> QED
      BY <1>4, <1>5, <3>1, ZenonT(60)
  <2> DEFINE old == {cmds[i] : i \in DOMAIN cmds}
             now == {new.persp.cmds[i] : i \in DOMAIN new.persp.cmds}
             rest == (UNION {IdsUpTo(sg, h.loc) : h \in tr.heads})
                     \cup (UNION {IdsUpTo(sg, tr.persp.prior[i]) : i \in DOMAIN tr.persp.prior})
  <2>2. HeldBy(sg, tr) \subseteq old \cup rest
    BY Zenon DEF HeldBy
  <2>3. now \cup rest \subseteq HeldBy(sg, new)
    <3>1. new.heads = tr.heads /\ new.persp.prior = tr.persp.prior
      BY <1>3, Zenon
    <3>2. rest = (UNION {IdsUpTo(sg, h.loc) : h \in new.heads})
                 \cup (UNION {IdsUpTo(sg, new.persp.prior[i]) : i \in DOMAIN new.persp.prior})
      BY <3>1, Zenon
    <3> HIDE DEF rest
    <3> QED
      BY <3>2, Zenon DEF HeldBy
  <2>4. c \in now /\ old \subseteq now
    BY <2>1, Zenon
  <2> HIDE DEF old, now, rest
  <2> QED
    BY <2>2, <2>3, <2>4, Zenon
<1> QED
  BY <1>1, <1>3, <1>7, <1>8, Zenon DEF new

\* A perspective opened at other commands.
LEMMA OpenedSound ==
    ASSUME NEW sg, NEW tr, TrxOK(sg, tr), NEW ps \in Seq(Locs(sg)), NEW ph, NEW ids, NEW c \in PeerIds
    PROVE  LET new == Opened(tr, ps, ph, ids)
           IN  TrxOK(sg, new) /\ TrxOK(sg, Added(new, c)) /\ new.added = tr.added
<1> DEFINE new == Opened(tr, ps, ph, ids)
<1>1. /\ new = [persp |-> new.persp, phead |-> new.phead, heads |-> new.heads, added |-> new.added]
      /\ new.persp = [prior |-> ps, cmds |-> <<>>, open |-> TRUE]
      /\ new.heads = Without(tr.heads, ids) /\ new.added = tr.added
  BY Zenon DEF Opened
<1>2. new.persp \in [prior : Seq(Locs(sg)), cmds : Seq(Nat \ {0}), open : BOOLEAN] /\ new.persp.open
  BY <1>1
<1>3. new.heads \subseteq HeadsIn(sg)
  BY <1>1, Zenon DEF TrxOK, Without
<1> HIDE DEF new
<1>4. TrxOK(sg, new)
  BY <1>1, <1>2, <1>3, Zenon DEF TrxOK
<1>5. c \in Nat \ {0}
  BY IdsAssumption, Zenon DEF NoId
<1> QED
  BY <1>1, <1>2, <1>4, <1>5, AddedIs, Zenon DEF new

\* The ids of the commands at ps.
IdsAt(sg, ps) == {Id(sg, ps[j]) : j \in DOMAIN ps}

\* The heads that are no longer heads are those it was opened at, so they are held.
LEMMA OpenedCare ==
    ASSUME NEW sg, GraphOK(sg), IdsOK(sg), NEW tr, TrxOK(sg, tr), tr.persp = NoPersp,
           NEW ps \in Seq(Locs(sg)), NEW ph, NEW c \in PeerIds,
           ParentSet(c) = IdsAt(sg, ps), \A h \in tr.heads : h.id # c
    PROVE  LET new == Added(Opened(tr, ps, ph, ParentSet(c)), c)
           IN  /\ TrxCare(sg, new)
               /\ new.added = tr.added \cup {c}
               /\ HeldBy(sg, tr) \cup {c} \subseteq HeldBy(sg, new)
<1> DEFINE opened == Opened(tr, ps, ph, ParentSet(c))
           new == Added(opened, c)
<1>0. c \in Nat \ {0}
  BY IdsAssumption, Zenon DEF NoId
<1>1. TrxOK(sg, opened)
  BY OpenedSound, Zenon
<1>2. /\ opened.persp = [prior |-> ps, cmds |-> <<>>, open |-> TRUE]
      /\ opened.heads = Without(tr.heads, ParentSet(c)) /\ opened.added = tr.added
  BY Zenon DEF Opened
<1> HIDE DEF opened
<1>3. new = [persp |-> [prior |-> opened.persp.prior, cmds |-> Append(opened.persp.cmds, c),
                        open |-> opened.persp.open],
             phead |-> c, heads |-> opened.heads, added |-> opened.added \cup {c}]
  BY <1>0, <1>1, AddedIs, Zenon
<1>4. Append(<<>>, c) = <<c>>
  OBVIOUS
<1>5. /\ new.persp.prior = ps /\ new.persp.cmds = <<c>> /\ new.persp.open /\ new.phead = c
      /\ new.heads = Without(tr.heads, ParentSet(c)) /\ new.added = tr.added \cup {c}
  <2>1. opened.persp.prior = ps /\ opened.persp.cmds = <<>> /\ opened.persp.open
    BY <1>2, NewPersp, Zenon
  <2> DEFINE p == [prior |-> opened.persp.prior, cmds |-> Append(opened.persp.cmds, c),
                   open |-> opened.persp.open]
  <2>2. p.prior = ps /\ p.cmds = <<c>> /\ p.open
    BY <1>4, <2>1, Zenon
  <2>3. new = [persp |-> p, phead |-> c, heads |-> opened.heads, added |-> opened.added \cup {c}]
    BY <1>3, ZenonT(60)
  <2> HIDE DEF p, new
  <2> QED
    BY <1>2, <2>2, <2>3, Zenon
<1>6. Len(<<c>>) = 1 /\ <<c>>[1] = c /\ <<c>> # <<>> /\ DOMAIN <<c>> = {1} /\ 1..1 = {1}
  OBVIOUS
<1> HIDE DEF new
<1>7. TrxCare(sg, new)
  <2>1. ParentsIn(sg, new.persp, 1) = ParentSet(c)
    <3>1. ~(1 > 1)
      OBVIOUS
    <3>2. ParentsIn(sg, new.persp, 1) = {Id(sg, new.persp.prior[j]) : j \in DOMAIN new.persp.prior}
      BY <3>1, Zenon DEF ParentsIn
    <3> QED
      BY <1>5, <3>2, Zenon DEF IdsAt
  <2>2. \A h \in new.heads : h.id # c
    BY <1>5, Zenon DEF Without
  <2>3. \A i \in 1..Len(new.persp.cmds) : i = 1
    BY <1>5, <1>6, Zenon
  <2>4. new.persp.cmds[1] = c /\ Len(new.persp.cmds) = 1
    BY <1>5, <1>6, Zenon
  <2> QED
    BY <1>5, <1>6, <2>1, <2>2, <2>3, <2>4, ZenonT(60) DEF TrxCare
<1>8. c \in HeldBy(sg, new)
  <2>1. c \in {new.persp.cmds[i] : i \in DOMAIN new.persp.cmds}
    BY <1>5, <1>6, Zenon
  <2> QED
    BY <2>1, Zenon DEF HeldBy
<1>9. ASSUME NEW h \in tr.heads PROVE IdsUpTo(sg, h.loc) \subseteq HeldBy(sg, new)
  <2>1. CASE h.id \notin ParentSet(c)
    <3>1. h \in new.heads
      BY <1>5, <2>1, Zenon DEF Without
    <3> QED
      BY <3>1, Zenon DEF HeldBy
  <2>2. CASE h.id \in ParentSet(c)
    <3>1. PICK j \in DOMAIN ps : h.id = Id(sg, ps[j])
      BY <2>2, Zenon DEF IdsAt
    <3>2. h.loc \in Locs(sg) /\ h.id = Id(sg, h.loc)
      BY DEF TrxOK, HeadsIn
    <3>3. ps[j] \in Locs(sg)
      OBVIOUS
    <3>4. IdsUpTo(sg, h.loc) \subseteq IdsUpTo(sg, ps[j])
      BY <3>1, <3>2, <3>3, SameIdsUpTo, Zenon
    <3>5. IdsUpTo(sg, ps[j]) \subseteq HeldBy(sg, new)
      BY <1>5, HeldParts, Zenon
    <3> QED
      BY <3>4, <3>5, Zenon
  <2> QED
    BY <2>1, <2>2, Zenon
<1>10. HeldBy(sg, tr) = UNION {IdsUpTo(sg, h.loc) : h \in tr.heads}
  <2>1. DOMAIN NoPersp.cmds = {} /\ DOMAIN NoPersp.prior = {}
    BY DEF NoPersp
  <2> QED
    BY <2>1, Zenon DEF HeldBy
<1>11. HeldBy(sg, tr) \subseteq HeldBy(sg, new)
  BY <1>9, <1>10, Zenon
<1> QED
  BY <1>5, <1>7, <1>8, <1>11, Zenon DEF new, opened

\* A command that is new is neither a head nor in the perspective.
LEMMA NewFacts ==
    ASSUME GraphOK(segs), NEW t, TrxOK(segs, trx[t]), NEW c, IsNew(t, c)
    PROVE  /\ \A h \in trx[t].heads : h.id # c
           /\ \A i \in DOMAIN trx[t].persp.cmds : trx[t].persp.cmds[i] # c
<1>1. ASSUME NEW h \in trx[t].heads, h.id = c PROVE FALSE
  <2>1. h.loc \in Locs(segs) /\ Id(segs, h.loc) = c
    BY <1>1 DEF TrxOK, HeadsIn
  <2>2. h.loc \in UpTo(segs, h.loc)
    BY <2>1, UpToLocs, Zenon
  <2>3. h.loc \in Seen(segs, h.loc, c)
    BY <2>1, <2>2, ZenonT(60) DEF Seen
  <2>4. Located(segs, trx[t], c) # {}
    BY <2>3, Zenon DEF Located
  <2> QED
    BY <2>4, Zenon DEF IsNew, Unlocated
<1> QED
  BY <1>1, Zenon DEF IsNew

\* The heads in some order.
LEMMA OrdersFacts ==
    ASSUME NEW S, NEW q \in Orders(S)
    PROVE  q \in Seq(S) /\ \A h \in S : \E i \in DOMAIN q : q[i] = h
  BY Zenon DEF Orders

\* locate answers with a command that has the id.
LEMMA LocatedFacts ==
    ASSUME NEW sg, NEW tr, NEW c, NEW x \in Located(sg, tr, c)
    PROVE  x \in Locs(sg) /\ Id(sg, x) = c
  BY DEF Located, Seen

\* A pair has two components.
LEMMA PairIs ==
    ASSUME NEW A, NEW B, NEW z \in A \X B
    PROVE  z = <<z[1], z[2]>>
  OBVIOUS

-----------------------------------------------------------------------------
(* What is in reach of some locations.                                     *)

Live(sg, R) == UNION {UpTo(sg, r) : r \in R}

\* A segment is in reach as a whole or not at all.
Whole(sg, R) == \A x \in Live(sg, R), y \in Locs(sg) : y[1] = x[1] => y \in Live(sg, R)

Once(sg, R) == \A x, y \in Live(sg, R) : Id(sg, x) = Id(sg, y) => x = y

\* The locations in T have nothing after them.
Tips(sg, T, O) ==
    \A h \in T : /\ \A r \in T : h \in UpTo(sg, r) => r = h
                 /\ \A o \in O : h \notin UpTo(sg, o)

AtEnd(sg, T) == \A h \in T : h = HeadOf(sg, h[1])

Shape(sg, T, O) ==
    /\ T \subseteq Locs(sg) /\ O \subseteq Locs(sg)
    /\ Whole(sg, T \cup O) /\ Once(sg, T \cup O) /\ Tips(sg, T, O) /\ AtEnd(sg, T)

\* y is in an earlier segment than x, or not after it in the same.
NotAfter(y, x) == y[1] < x[1] \/ (y[1] = x[1] /\ y[2] <= x[2])

\* A parent is before its child.
LEMMA ParentBefore ==
    ASSUME NEW sg, GraphOK(sg), NEW x \in Locs(sg), NEW p \in Parents(sg, x)
    PROVE  p \in Locs(sg) /\ NotAfter(p, x) /\ p # x /\ p \in UpTo(sg, x)
<1>1. /\ sg \in Seq(Segments) /\ p \in Locs(sg)
      /\ UpTo(sg, x) = {x} \cup UNION {UpTo(sg, q) : q \in Parents(sg, x)}
  BY UpToStep, Zenon DEF GraphOK
<1>2. p \in UpTo(sg, p)
  BY <1>1, UpToLocs, Zenon
<1>3. x[1] \in 1..Len(sg) /\ x[2] \in Nat /\ Len(sg) \in Nat
  <2>1. x[1] \in 1..Len(sg) /\ x[2] \in 1..Len(sg[x[1]].cmds) /\ Len(sg) \in Nat
    BY <1>1, LocsFacts, Zenon
  <2> QED
    BY <2>1
<1>4. NotAfter(p, x) /\ p # x
  <2>1. CASE x[2] > 1
    <3>1. p = <<x[1], x[2] - 1>>
      BY <2>1, Zenon DEF Parents
    <3> QED
      BY <1>3, <3>1 DEF NotAfter
  <2>2. CASE ~(x[2] > 1)
    <3>1. p \in Priors(sg, x[1])
      BY <2>2, Zenon DEF Parents
    <3>2. p[1] < x[1]
      BY <1>3, <3>1, Zenon DEF GraphOK
    <3>3. p # x
      BY <1>3, <3>2
    <3> QED
      BY <3>2, <3>3, Zenon DEF NotAfter
  <2> QED
    BY <2>1, <2>2, Zenon
<1> QED
  BY <1>1, <1>2, <1>4, Zenon

\* What is up to a location is not after it.
LEMMA UpToNotAfter ==
    ASSUME NEW sg, GraphOK(sg)
    PROVE  \A x \in Locs(sg) : \A y \in UpTo(sg, x) : NotAfter(y, x)
<1> DEFINE S == {x \in Locs(sg) : \A y \in UpTo(sg, x) : NotAfter(y, x)}
<1>0. \A x \in Locs(sg) : x[1] \in Nat /\ x[2] \in Nat
  <2> TAKE x \in Locs(sg)
  <2>1. x[1] \in 1..Len(sg) /\ x[2] \in 1..Len(sg[x[1]].cmds)
    BY LocsFacts, Zenon DEF GraphOK
  <2> QED
    BY <2>1
<1>1. ASSUME NEW x \in Locs(sg), Parents(sg, x) \subseteq S PROVE x \in S
  <2> SUFFICES ASSUME NEW y \in UpTo(sg, x) PROVE NotAfter(y, x)
    BY Zenon
  <2>1. UpTo(sg, x) = {x} \cup UNION {UpTo(sg, p) : p \in Parents(sg, x)} /\ y \in Locs(sg)
    BY UpToStep, UpToLocs, Zenon
  <2>2. CASE y = x
    BY <1>0, <2>2 DEF NotAfter
  <2>3. CASE \E p \in Parents(sg, x) : y \in UpTo(sg, p)
    <3>1. PICK p \in Parents(sg, x) : y \in UpTo(sg, p)
      BY <2>3
    <3>2. NotAfter(y, p) /\ NotAfter(p, x) /\ p \in Locs(sg)
      BY <1>1, <3>1, ParentBefore, Zenon
    <3>3. /\ x[1] \in Nat /\ x[2] \in Nat /\ y[1] \in Nat /\ y[2] \in Nat
          /\ p[1] \in Nat /\ p[2] \in Nat
      BY <1>0, <2>1, <3>2, Zenon
    <3> QED
      BY <3>2, <3>3 DEF NotAfter
  <2> QED
    BY <2>1, <2>2, <2>3, Zenon
<1>2. Locs(sg) \subseteq S
  <2> HIDE DEF S
  <2> QED
    BY <1>1, GraphInduction, Zenon
<1> QED
  BY <1>2, Zenon

\* No two locations are before each other.
LEMMA Antisymmetric ==
    ASSUME NEW sg, GraphOK(sg), NEW x \in Locs(sg), NEW y \in Locs(sg),
           x \in UpTo(sg, y), y \in UpTo(sg, x)
    PROVE  x = y
<1>1. NotAfter(x, y) /\ NotAfter(y, x)
  BY UpToNotAfter, Zenon
<1>2. /\ x = <<x[1], x[2]>> /\ x[1] \in 1..Len(sg) /\ x[2] \in 1..Len(sg[x[1]].cmds)
      /\ y = <<y[1], y[2]>> /\ y[1] \in 1..Len(sg) /\ y[2] \in 1..Len(sg[y[1]].cmds)
  BY LocsFacts, Zenon DEF GraphOK
<1>3. x[1] = y[1] /\ x[2] = y[2]
  BY <1>1, <1>2 DEF NotAfter
<1> QED
  BY <1>2, <1>3, Zenon

\* What it is to be in reach.
LEMMA LiveIs == \A sg, R, x : x \in Live(sg, R) <=> \E r \in R : x \in UpTo(sg, r)
BY Zenon DEF Live

\* Reach goes back to the beginning.
LEMMA LiveFacts ==
    ASSUME NEW sg, GraphOK(sg), NEW R, R \subseteq Locs(sg)
    PROVE  /\ R \subseteq Live(sg, R) /\ Live(sg, R) \subseteq Locs(sg)
           /\ \A x \in Live(sg, R) : UpTo(sg, x) \subseteq Live(sg, R)
<1>1. R \subseteq Live(sg, R) /\ Live(sg, R) \subseteq Locs(sg)
  BY UpToLocs, Zenon DEF Live
<1>2. ASSUME NEW x \in Live(sg, R) PROVE UpTo(sg, x) \subseteq Live(sg, R)
  <2>1. PICK r \in R : x \in UpTo(sg, r)
    BY Zenon DEF Live
  <2>2. UpTo(sg, x) \subseteq UpTo(sg, r)
    BY <2>1, UpToTransitive, Zenon
  <2> QED
    BY <2>2, Zenon DEF Live
<1> QED
  BY <1>1, <1>2, Zenon

\* It is the same when the graph grows.
LEMMA LiveKept ==
    ASSUME NEW sg, NEW sg2, GraphOK(sg), Extends(sg2, sg), NEW R, R \subseteq Locs(sg)
    PROVE  Live(sg2, R) = Live(sg, R)
<1>1. \A r \in R : UpTo(sg2, r) = UpTo(sg, r)
  BY UpToKept
<1> QED
  BY <1>1 DEF Live

\* A location of a larger graph that is in an old segment is an old location.
LEMMA OldLocs ==
    ASSUME NEW sg, NEW sg2, GraphOK(sg), Extends(sg2, sg), NEW y \in Locs(sg2), NEW x \in Locs(sg),
           y[1] = x[1]
    PROVE  y \in Locs(sg) /\ HeadOf(sg2, x[1]) = HeadOf(sg, x[1])
<1>1. sg \in Seq(Segments) /\ sg2 \in Seq(Segments)
  BY DEF GraphOK, Extends
<1>2. /\ y = <<y[1], y[2]>> /\ y[2] \in 1..Len(sg2[y[1]].cmds) /\ x[1] \in 1..Len(sg)
  BY <1>1, LocsFacts, Zenon
<1>3. sg2[x[1]] = sg[x[1]]
  BY <1>2, Zenon DEF Extends
<1>4. y[2] \in 1..Len(sg[x[1]].cmds)
  BY <1>2, <1>3, Zenon
<1>5. <<x[1], y[2]>> \in Locs(sg)
  BY <1>1, <1>2, <1>4, LocsFacts, Zenon
<1> QED
  BY <1>2, <1>3, <1>5, Zenon DEF HeadOf

\* What was said of the reach of some locations stays true when the graph grows.
LEMMA ShapeKept ==
    ASSUME NEW sg, NEW sg2, GraphOK(sg), Extends(sg2, sg), NEW T, NEW O, Shape(sg, T, O)
    PROVE  Shape(sg2, T, O)
<1>1. /\ T \subseteq Locs(sg) /\ O \subseteq Locs(sg)
      /\ Whole(sg, T \cup O) /\ Once(sg, T \cup O) /\ Tips(sg, T, O) /\ AtEnd(sg, T)
  BY Zenon DEF Shape
<1> DEFINE L == Live(sg, T \cup O)
<1>2. Live(sg2, T \cup O) = L /\ L \subseteq Locs(sg)
  <2> DEFINE R == T \cup O
  <2>1. R \subseteq Locs(sg)
    BY <1>1, Zenon
  <2> HIDE DEF R
  <2>2. Live(sg2, R) = Live(sg, R) /\ Live(sg, R) \subseteq Locs(sg)
    BY <2>1, LiveKept, LiveFacts, ZenonT(60)
  <2> QED
    BY <2>2, Zenon DEF R
<1>3. /\ Locs(sg) \subseteq Locs(sg2)
      /\ \A x \in Locs(sg) : UpTo(sg2, x) = UpTo(sg, x) /\ Id(sg2, x) = Id(sg, x)
  BY UpToKept
<1> HIDE DEF L
<1>4. Whole(sg2, T \cup O)
  <2> SUFFICES ASSUME NEW x \in L, NEW y \in Locs(sg2), y[1] = x[1] PROVE y \in L
    BY <1>2, Zenon DEF Whole
  <2>1. y \in Locs(sg)
    BY <1>2, OldLocs, Zenon
  <2> QED
    BY <1>1, <2>1, Zenon DEF Whole, L
<1>5. Once(sg2, T \cup O)
  <2> SUFFICES ASSUME NEW x \in L, NEW y \in L, Id(sg2, x) = Id(sg2, y) PROVE x = y
    BY <1>2, Zenon DEF Once
  <2>1. Id(sg, x) = Id(sg, y)
    BY <1>2, <1>3, Zenon
  <2> QED
    BY <1>1, <2>1, Zenon DEF Once, L
<1>6. Tips(sg2, T, O)
  BY <1>1, <1>3, Zenon DEF Tips
<1>7. AtEnd(sg2, T)
  <2> SUFFICES ASSUME NEW h \in T PROVE h = HeadOf(sg2, h[1])
    BY Zenon DEF AtEnd
  <2>1. h \in Locs(sg) /\ h \in Locs(sg2) /\ h = HeadOf(sg, h[1])
    BY <1>1, <1>3, Zenon DEF AtEnd
  <2>2. HeadOf(sg2, h[1]) = HeadOf(sg, h[1])
    BY <2>1, OldLocs
  <2> QED
    BY <2>1, <2>2, Zenon
<1> QED
  BY <1>1, <1>3, <1>4, <1>5, <1>6, <1>7, Zenon DEF Shape

\* What is up to the end of a new segment.
LEMMA SegmentUpTo ==
    ASSUME NEW sg, GraphOK(sg), NEW seg \in Segments,
           \A j \in DOMAIN seg.prior : seg.prior[j] \in Locs(sg)
    PROVE  LET sg2 == Append(sg, seg)
               new == {Len(sg) + 1} \X (1..Len(seg.cmds))
           IN  /\ new \subseteq Locs(sg2)
               /\ UpTo(sg2, <<Len(sg) + 1, Len(seg.cmds)>>) =
                    new \cup UNION {UpTo(sg, seg.prior[j]) : j \in DOMAIN seg.prior}
               /\ \A y \in Locs(sg2) : y \in Locs(sg) \/ y \in new
               /\ \A y \in Locs(sg) : y \notin new /\ y[1] # Len(sg) + 1
               /\ \A y \in new : y[1] = Len(sg) + 1 /\ y[2] \in DOMAIN seg.cmds /\ Id(sg2, y) = seg.cmds[y[2]]
<1> DEFINE sg2 == Append(sg, seg)
           n == Len(sg) + 1
           k == Len(seg.cmds)
           new == {n} \X (1..k)
<1>1. /\ Extends(sg2, sg) /\ GraphOK(sg2) /\ Len(sg2) = n /\ sg2[n] = seg
  BY SegmentHolds, ZenonT(60) DEF Extends
<1>2. /\ \A i \in 1..k : <<n, i>> \in Locs(sg2)
      /\ \A y \in Locs(sg2) : y \in Locs(sg) \/ (y[1] = n /\ y[2] \in 1..k)
  BY GraphGrows, Zenon
<1>3. /\ n \in Nat \ {0} /\ Len(sg) \in Nat /\ k \in Nat \ {0} /\ DOMAIN seg.cmds = 1..k
  <2>1. sg \in Seq(Segments) /\ seg.cmds \in Seq(Nat \ {0}) /\ seg.cmds # <<>>
    BY DEF GraphOK, Segments
  <2> QED
    BY <2>1
<1>4. new \subseteq Locs(sg2)
  BY <1>2
<1>5. \A y \in Locs(sg2) : y = <<y[1], y[2]>>
  BY <1>1, LocsFacts, Zenon DEF GraphOK
<1>6. \A y \in Locs(sg2) : y \in Locs(sg) \/ y \in new
  BY <1>2, <1>5
<1>7. \A y \in Locs(sg) : y \notin new /\ y[1] # n
  <2> TAKE y \in Locs(sg)
  <2>1. y[1] \in 1..Len(sg)
    BY LocsFacts, Zenon DEF GraphOK
  <2>2. y[1] # n
    BY <1>3, <2>1
  <2>3. y \in new => y[1] = n
    OBVIOUS
  <2> QED
    BY <2>2, <2>3, Zenon
<1>8. \A y \in new : y[1] = n /\ y[2] \in DOMAIN seg.cmds /\ Id(sg2, y) = seg.cmds[y[2]]
  <2> TAKE y \in new
  <2>1. y[1] = n /\ y[2] \in 1..k
    OBVIOUS
  <2> QED
    BY <1>1, <1>3, <2>1, Zenon DEF Id
<1>9. UpTo(sg2, <<n, k>>) = new \cup UNION {UpTo(sg, seg.prior[j]) : j \in DOMAIN seg.prior}
  <2>1. Earlier(sg2)[n] = Round(sg2, Earlier(sg2), n)
    <3>1. n \in 0..Len(sg2)
      BY <1>1, <1>3
    <3> HIDE DEF sg2, n
    <3> QED
      BY <1>1, <3>1, EarlierUnfolds, Zenon
  <2>2. Round(sg2, Earlier(sg2), n) = UNION {UpTo(sg2, q) : q \in Priors(sg2, n)}
    BY <1>3 DEF Round, UpTo
  <2>3. Priors(sg2, n) = {seg.prior[j] : j \in DOMAIN seg.prior}
    BY <1>1, Zenon DEF Priors
  <2>4. \A j \in DOMAIN seg.prior : UpTo(sg2, seg.prior[j]) = UpTo(sg, seg.prior[j])
    BY <1>1, UpToKept
  <2>5. UpTo(sg2, <<n, k>>) = Earlier(sg2)[n] \cup new
    BY DEF UpTo
  <2> HIDE DEF sg2, new
  <2>6. UNION {UpTo(sg2, q) : q \in Priors(sg2, n)} = UNION {UpTo(sg, seg.prior[j]) : j \in DOMAIN seg.prior}
    BY <2>3, <2>4
  <2> QED
    BY <2>1, <2>2, <2>5, <2>6
<1> QED
  BY <1>4, <1>6, <1>7, <1>8, <1>9, Zenon

\* Its commands.
LEMMA NewIds ==
    ASSUME NEW sg, GraphOK(sg), NEW seg \in Segments, NEW x \in {Len(sg) + 1} \X (1..Len(seg.cmds))
    PROVE  x[2] \in DOMAIN seg.cmds /\ Id(Append(sg, seg), x) = seg.cmds[x[2]]
<1>1. sg \in Seq(Segments) /\ x[1] = Len(sg) + 1 /\ x[2] \in 1..Len(seg.cmds) /\ seg.cmds \in Seq(Nat \ {0})
  BY DEF GraphOK, Segments
<1>2. Append(sg, seg)[Len(sg) + 1] = seg /\ x[2] \in DOMAIN seg.cmds
  BY <1>1
<1> QED
  BY <1>1, <1>2, Zenon DEF Id

\* seg is written after locations that are in reach, has commands that are not, and is
\* in reach instead.
Grows(sg, T, O, seg, last, T2, O2) ==
    /\ seg \in Segments /\ Shape(sg, T, O)
    /\ \A j \in DOMAIN seg.prior : seg.prior[j] \in T \cup O
    /\ \A i \in DOMAIN seg.cmds : \A x \in Live(sg, T \cup O) : Id(sg, x) # seg.cmds[i]
    /\ \A i, j \in DOMAIN seg.cmds : seg.cmds[i] = seg.cmds[j] => i = j
    /\ last = <<Len(sg) + 1, Len(seg.cmds)>>
    /\ last \in T2 \cup O2 /\ last \notin T2 \cap O2
    /\ \A h \in T2 : h = last \/ (h \in T /\ \A j \in DOMAIN seg.prior : seg.prior[j] # h)
    /\ O2 \subseteq O \cup {last}
    /\ \A r \in T \cup O : r \in T2 \cup O2 \/ \E j \in DOMAIN seg.prior : seg.prior[j] = r

\* The segment is in reach as a whole, once, and has nothing after it.
LEMMA ShapeGrows ==
    ASSUME NEW sg, GraphOK(sg), NEW T, NEW O, NEW seg, NEW last, NEW T2, NEW O2,
           Grows(sg, T, O, seg, last, T2, O2)
    PROVE  /\ Shape(Append(sg, seg), T2, O2)
           /\ \A x \in Live(Append(sg, seg), T2 \cup O2) :
                x \in Live(sg, T \cup O) \/ x \in {Len(sg) + 1} \X (1..Len(seg.cmds))
<1> USE DEF Grows
<1> DEFINE sg2 == Append(sg, seg)
           new == {Len(sg) + 1} \X (1..Len(seg.cmds))
           R == T \cup O
           R2 == T2 \cup O2
           L == Live(sg, R)
           L2 == Live(sg2, R2)
<1>1. /\ T \subseteq Locs(sg) /\ O \subseteq Locs(sg) /\ R \subseteq Locs(sg)
      /\ Whole(sg, R) /\ Once(sg, R) /\ Tips(sg, T, O) /\ AtEnd(sg, T)
  BY Zenon DEF Shape
<1>2. \A j \in DOMAIN seg.prior : seg.prior[j] \in R /\ seg.prior[j] \in Locs(sg)
  BY <1>1, Zenon
<1>3. Extends(sg2, sg) /\ last \in Locs(sg2) /\ last = HeadOf(sg2, Len(sg) + 1)
  <2>1. /\ Extends(sg2, sg) /\ Len(sg2) = Len(sg) + 1
        /\ HeadOf(sg2, Len(sg2)) = <<Len(sg) + 1, Len(seg.cmds)>> /\ HeadOf(sg2, Len(sg2)) \in Locs(sg2)
    BY <1>2, SegmentHolds, ZenonT(30)
  <2> HIDE DEF sg2
  <2> QED
    BY <2>1, Zenon
<1>4. /\ new \subseteq Locs(sg2)
      /\ UpTo(sg2, last) = new \cup UNION {UpTo(sg, seg.prior[j]) : j \in DOMAIN seg.prior}
      /\ \A y \in Locs(sg2) : y \in Locs(sg) \/ y \in new
      /\ \A y \in Locs(sg) : y \notin new /\ y[1] # Len(sg) + 1
      /\ \A y \in new : y[1] = Len(sg) + 1 /\ y[2] \in DOMAIN seg.cmds /\ Id(sg2, y) = seg.cmds[y[2]]
  BY <1>2, SegmentUpTo, ZenonT(30)
<1>5. /\ Locs(sg) \subseteq Locs(sg2)
      /\ \A x \in Locs(sg) : UpTo(sg2, x) = UpTo(sg, x) /\ Id(sg2, x) = Id(sg, x)
  <2> HIDE DEF sg2
  <2> QED
    BY <1>3, UpToKept
<1>6. L \subseteq Locs(sg) /\ R \subseteq L
  <2> HIDE DEF R
  <2> QED
    BY <1>1, LiveFacts, Zenon
<1>7. last \in new /\ last[1] = Len(sg) + 1
  <2>1. Len(seg.cmds) \in Nat \ {0}
    BY DEF Segments
  <2> QED
    BY <2>1
<1> HIDE DEF sg2, new
<1>8. /\ \A r \in R2 : r = last \/ r \in R
      /\ last \in R2
      /\ \A r \in R : r \in R2 \/ \E j \in DOMAIN seg.prior : seg.prior[j] = r
  BY Zenon
<1> HIDE DEF R, R2
<1>9. L2 = L \cup new
  <2>1. ASSUME NEW x \in L2 PROVE x \in L \cup new
    <3>1. PICK r \in R2 : x \in UpTo(sg2, r)
      BY <2>1, LiveIs, Zenon
    <3>2. CASE r = last
      <4>1. CASE x \in new
        BY <4>1, Zenon
      <4>2. CASE \E j \in DOMAIN seg.prior : x \in UpTo(sg, seg.prior[j])
        BY <1>2, <4>2, LiveIs, Zenon
      <4> QED
        BY <1>4, <3>1, <3>2, <4>1, <4>2
    <3>3. CASE r \in R
      <4>1. x \in UpTo(sg, r)
        BY <1>1, <1>5, <3>1, <3>3, Zenon
      <4> QED
        BY <3>3, <4>1, LiveIs, Zenon
    <3> QED
      BY <1>8, <3>2, <3>3, Zenon
  <2>2. UpTo(sg2, last) \subseteq L2
    BY <1>8, LiveIs, Zenon
  <2>3. ASSUME NEW x \in L PROVE x \in L2
    <3>1. PICK r \in R : x \in UpTo(sg, r)
      BY <2>3, LiveIs, Zenon
    <3>2. CASE r \in R2
      <4>1. x \in UpTo(sg2, r)
        BY <1>1, <1>5, <3>1, Zenon
      <4> QED
        BY <3>2, <4>1, LiveIs, Zenon
    <3>3. CASE \E j \in DOMAIN seg.prior : seg.prior[j] = r
      <4>1. x \in UpTo(sg2, last)
        BY <1>4, <3>1, <3>3
      <4> QED
        BY <2>2, <4>1, Zenon
    <3> QED
      BY <1>8, <3>2, <3>3, Zenon
  <2>4. new \subseteq L2
    BY <1>4, <2>2, Zenon
  <2> HIDE DEF L, L2
  <2> QED
    BY <2>1, <2>3, <2>4, Zenon
<1>10. Whole(sg2, R2)
  <2> SUFFICES ASSUME NEW x \in L2, NEW y \in Locs(sg2), y[1] = x[1] PROVE y \in L2
    BY Zenon DEF Whole
  <2>1. CASE x \in new
    <3>1. y \in new
      BY <1>4, <2>1, Zenon
    <3> QED
      BY <1>9, <3>1, Zenon
  <2>2. CASE x \in L
    <3>1. y \in Locs(sg)
      BY <1>4, <1>6, <2>2, Zenon
    <3>2. y \in L
      BY <1>1, <2>2, <3>1, Zenon DEF Whole
    <3> QED
      BY <1>9, <3>2, Zenon
  <2> QED
    BY <1>9, <2>1, <2>2, Zenon
<1>11. Once(sg2, R2)
  <2> SUFFICES ASSUME NEW x \in L2, NEW y \in L2, Id(sg2, x) = Id(sg2, y) PROVE x = y
    BY Zenon DEF Once
  <2>1. ASSUME NEW z \in L, NEW w \in new PROVE Id(sg2, z) # Id(sg2, w)
    <3>1. Id(sg2, z) = Id(sg, z) /\ Id(sg2, w) = seg.cmds[w[2]] /\ w[2] \in DOMAIN seg.cmds
      BY <1>4, <1>5, <1>6, <2>1
    <3> QED
      BY <2>1, <3>1 DEF R
  <2>2. CASE x \in L /\ y \in L
    <3>1. Id(sg, x) = Id(sg, y)
      BY <1>5, <1>6, <2>2, Zenon
    <3> QED
      BY <1>1, <2>2, <3>1, Zenon DEF Once
  <2>3. CASE x \in new /\ y \in new
    <3>1. seg.cmds[x[2]] = seg.cmds[y[2]] /\ x[2] \in DOMAIN seg.cmds /\ y[2] \in DOMAIN seg.cmds /\ x[1] = y[1]
      BY <1>4, <2>3, Zenon
    <3>2. x = <<x[1], x[2]>> /\ y = <<y[1], y[2]>>
      BY <2>3, PairIs, Zenon DEF new
    <3>3. x[2] = y[2]
      BY <3>1, Zenon
    <3> QED
      BY <3>1, <3>2, <3>3, Zenon
  <2> QED
    BY <1>9, <2>1, <2>2, <2>3, Zenon
<1>12. Tips(sg2, T2, O2)
  <2>1. ASSUME NEW h \in T2, NEW r \in R2, h \in UpTo(sg2, r) PROVE r = h /\ r \in T2
    <3>1. CASE h = last
      <4>1. CASE r = last
        BY <2>1, <3>1, <4>1, Zenon
      <4>2. CASE r \in R
        <5>1. last \in Locs(sg)
          BY <1>1, <1>5, <2>1, <3>1, <4>2, UpToLocs, Zenon
        <5> QED
          BY <1>4, <1>7, <5>1, Zenon
      <4> QED
        BY <1>8, <4>1, <4>2, Zenon
    <3>2. CASE h # last
      <4>1. h \in T /\ h \in Locs(sg) /\ \A j \in DOMAIN seg.prior : seg.prior[j] # h
        BY <1>1, <2>1, <3>2, Zenon
      <4>2. ASSUME NEW q \in R, h \in UpTo(sg, q) PROVE q = h /\ q \notin O
        BY <1>1, <4>1, <4>2, Zenon DEF Tips, R
      <4>3. CASE r = last
        <5>1. PICK j \in DOMAIN seg.prior : h \in UpTo(sg, seg.prior[j])
          BY <1>4, <2>1, <4>1, <4>3
        <5> QED
          BY <1>2, <4>1, <4>2, <5>1, Zenon
      <4>4. CASE r # last
        <5>1. r \in R /\ h \in UpTo(sg, r)
          BY <1>1, <1>5, <1>8, <2>1, <4>4, Zenon
        <5> QED
          BY <2>1, <4>2, <5>1, Zenon
      <4> QED
        BY <4>3, <4>4, Zenon
    <3> QED
      BY <3>1, <3>2, Zenon
  <2>2. ASSUME NEW h \in T2, NEW o \in O2, h \in UpTo(sg2, o) PROVE FALSE
    <3>1. o = h /\ o \in T2
      BY <2>1, <2>2, Zenon DEF R2
    <3>2. CASE o = last
      BY <2>2, <3>1, <3>2, Zenon
    <3>3. CASE o # last
      <4>1. h \in T /\ o \in O /\ o \in UpTo(sg, o)
        BY <1>1, <2>2, <3>1, <3>3, UpToLocs, Zenon
      <4> QED
        BY <1>1, <3>1, <4>1, Zenon DEF Tips
    <3> QED
      BY <3>2, <3>3, Zenon
  <2> QED
    BY <2>1, <2>2, Zenon DEF Tips, R2
<1>13. AtEnd(sg2, T2)
  <2> SUFFICES ASSUME NEW h \in T2 PROVE h = HeadOf(sg2, h[1])
    BY Zenon DEF AtEnd
  <2>1. CASE h = last
    BY <1>3, <1>7, <2>1, Zenon
  <2>2. CASE h # last
    <3>1. h \in Locs(sg) /\ h \in Locs(sg2) /\ h = HeadOf(sg, h[1])
      BY <1>1, <1>5, <2>2, Zenon DEF AtEnd
    <3>2. HeadOf(sg2, h[1]) = HeadOf(sg, h[1])
      BY <1>3, <3>1, OldLocs
    <3> QED
      BY <3>1, <3>2, Zenon
  <2> QED
    BY <2>1, <2>2, Zenon
<1>14. T2 \subseteq Locs(sg2) /\ O2 \subseteq Locs(sg2)
  BY <1>1, <1>3, <1>5, Zenon
<1> HIDE DEF L, L2
<1>15. Shape(sg2, T2, O2)
  BY <1>10, <1>11, <1>12, <1>13, <1>14, Zenon DEF Shape, R2
<1> QED
  BY <1>9, <1>15, Zenon DEF sg2, new, L, L2, R, R2

\* Locations in reach may be listed as well, and are then no longer without anything
\* after them.
LEMMA ShapeOpened ==
    ASSUME NEW sg, GraphOK(sg), NEW T, NEW O, Shape(sg, T, O),
           NEW Q, Q \subseteq Live(sg, T \cup O)
    PROVE  /\ Shape(sg, T \ Q, O \cup Q)
           /\ \A x \in Live(sg, (T \ Q) \cup (O \cup Q)) : x \in Live(sg, T \cup O)
<1> DEFINE R == T \cup O
           R2 == (T \ Q) \cup (O \cup Q)
           L == Live(sg, R)
           L2 == Live(sg, R2)
<1>1. /\ T \subseteq Locs(sg) /\ O \subseteq Locs(sg) /\ R \subseteq Locs(sg) /\ Q \subseteq L
      /\ Whole(sg, R) /\ Once(sg, R) /\ Tips(sg, T, O) /\ AtEnd(sg, T)
  BY Zenon DEF Shape
<1>2. R \subseteq R2 /\ \A r \in R2 : r \in R \/ r \in Q
  BY Zenon
<1>3. /\ R \subseteq L /\ L \subseteq Locs(sg)
      /\ \A x \in L : UpTo(sg, x) \subseteq L
  <2> HIDE DEF R
  <2> QED
    BY <1>1, LiveFacts, Zenon
<1> HIDE DEF R, R2
<1>4. L2 = L
  <2>1. ASSUME NEW x \in L2 PROVE x \in L
    <3>1. PICK r \in R2 : x \in UpTo(sg, r)
      BY <2>1, LiveIs, Zenon
    <3>2. r \in L
      BY <1>1, <1>2, <1>3, <3>1, Zenon
    <3> QED
      BY <1>3, <3>1, <3>2, Zenon
  <2>2. ASSUME NEW x \in L PROVE x \in L2
    BY <1>2, <2>2, LiveIs, Zenon
  <2> HIDE DEF L, L2
  <2> QED
    BY <2>1, <2>2, Zenon
<1>5. Whole(sg, R2) /\ Once(sg, R2)
  <2> HIDE DEF L, L2
  <2>1. /\ \A x \in L, y \in Locs(sg) : y[1] = x[1] => y \in L
        /\ \A x, y \in L : Id(sg, x) = Id(sg, y) => x = y
    BY <1>1, Zenon DEF Whole, Once, L
  <2> QED
    BY <1>4, <2>1, Zenon DEF Whole, Once, L2
<1>6. Tips(sg, T \ Q, O \cup Q)
  <2> SUFFICES ASSUME NEW h \in T, h \notin Q
               PROVE  /\ \A r \in T \ Q : h \in UpTo(sg, r) => r = h
                      /\ \A o \in O \cup Q : h \notin UpTo(sg, o)
    BY Zenon DEF Tips
  <2>1. ASSUME NEW r \in T, h \in UpTo(sg, r) PROVE r = h
    BY <1>1, <2>1, Zenon DEF Tips
  <2>2. ASSUME NEW o \in O, h \in UpTo(sg, o) PROVE FALSE
    BY <1>1, <2>2, Zenon DEF Tips
  <2>3. ASSUME NEW q \in Q, h \in UpTo(sg, q) PROVE FALSE
    <3>1. PICK r \in R : q \in UpTo(sg, r)
      BY <1>1, <2>3, LiveIs, Zenon
    <3>2. h \in UpTo(sg, r)
      BY <1>1, <2>3, <3>1, UpToTransitive
    <3>3. r = h
      BY <2>1, <2>2, <3>1, <3>2, Zenon DEF R
    <3>4. q \in Locs(sg) /\ h \in Locs(sg) /\ q \in UpTo(sg, h)
      BY <1>1, <1>3, <2>3, <3>1, <3>3, Zenon
    <3>5. q = h
      BY <2>3, <3>4, Antisymmetric, Zenon
    <3> QED
      BY <2>3, <3>5, Zenon
  <2> QED
    BY <2>1, <2>2, <2>3, Zenon
<1>7. AtEnd(sg, T \ Q)
  BY <1>1, Zenon DEF AtEnd
<1>8. T \ Q \subseteq Locs(sg) /\ O \cup Q \subseteq Locs(sg)
  BY <1>1, <1>3, Zenon
<1>9. Shape(sg, T \ Q, O \cup Q)
  BY <1>5, <1>6, <1>7, <1>8, Zenon DEF Shape, R2
<1> QED
  BY <1>4, <1>9, Zenon DEF L, L2, R, R2

\* The same reach from other locations.
LEMMA ShapeFrom ==
    ASSUME NEW sg, NEW T, NEW O, Shape(sg, T, O), NEW R, R \subseteq Locs(sg),
           Live(sg, R) = Live(sg, T \cup O)
    PROVE  Shape(sg, {}, R)
<1>1. {} \cup R = R
  BY Zenon
<1>2. Whole(sg, T \cup O) /\ Once(sg, T \cup O)
  BY Zenon DEF Shape
<1>3. Whole(sg, R) /\ Once(sg, R)
  BY <1>2, Zenon DEF Whole, Once
<1>4. Tips(sg, {}, R) /\ AtEnd(sg, {})
  BY Zenon DEF Tips, AtEnd
<1> QED
  BY <1>1, <1>3, <1>4, Zenon DEF Shape

\* The merge of two commands, of which one has nothing after it, is not there yet.
LEMMA MergeFresh ==
    ASSUME NEW sg, GraphOK(sg), IdsOK(sg), NEW T, NEW O, Shape(sg, T, O),
           NEW h \in T, NEW l \in T \cup O, NEW r \in T \cup O, h = l \/ h = r,
           NEW x \in Live(sg, T \cup O)
    PROVE  Id(sg, x) # MergeId(Id(sg, l), Id(sg, r))
<1> DEFINE R == T \cup O
           L == Live(sg, R)
           a == Id(sg, l)
           b == Id(sg, r)
<1> SUFFICES ASSUME Id(sg, x) = MergeId(a, b) PROVE FALSE
  BY Zenon
<1>1. /\ T \subseteq Locs(sg) /\ R \subseteq Locs(sg) /\ Once(sg, R) /\ Tips(sg, T, O)
  BY Zenon DEF Shape
<1>2. R \subseteq L /\ L \subseteq Locs(sg) /\ \A y \in L : UpTo(sg, y) \subseteq L
  <2> HIDE DEF R
  <2> QED
    BY <1>1, LiveFacts, Zenon
<1>3. x \in L /\ x \in Locs(sg) /\ l \in R /\ r \in R /\ h \in R
  BY <1>2, Zenon
<1> HIDE DEF R, L
<1>4. a \in Nat \ {0} /\ b \in Nat \ {0} /\ Lawful(Id(sg, x), ParentIds(sg, x))
  BY <1>1, <1>3, Zenon DEF IdsOK, Lawful
<1> HIDE DEF a, b
<1>5. ParentIds(sg, x) = {a, b}
  <2> DEFINE m == MergeId(a, b)
             P == ParentIds(sg, x)
  <2>1. Lawful(m, {a, b}) /\ m \notin LocalIds /\ Lawful(m, P)
    <3>1. Id(sg, x) = m
      BY Zenon DEF a, b
    <3>2. Lawful(m, {a, b}) /\ m \notin LocalIds
      BY <1>4, MergeLawful, Zenon
    <3> QED
      BY <1>4, <3>1, <3>2, Zenon
  <2> HIDE DEF P
  <2>2. CASE m \in PeerIds
    BY <2>1, <2>2, Zenon DEF Lawful, P
  <2>3. CASE m \notin PeerIds
    <3>1. PICK d, e \in Nat \ {0} : m = MergeId(d, e) /\ P = {d, e}
      BY <2>1, <2>3, Zenon DEF Lawful
    <3>2. {a, b} = {d, e}
      BY <1>4, <3>1, SameMerge
    <3> QED
      BY <3>1, <3>2, Zenon DEF P
  <2> QED
    BY <2>2, <2>3, Zenon DEF P
<1>6. Id(sg, h) \in ParentIds(sg, x)
  BY <1>5, Zenon DEF a, b
<1>7. PICK p \in Parents(sg, x) : Id(sg, p) = Id(sg, h)
  BY <1>6, Zenon DEF ParentIds
<1>8. p \in UpTo(sg, x) /\ p # x
  BY <1>3, ParentBefore, Zenon
<1>9. p = h
  BY <1>1, <1>2, <1>3, <1>7, <1>8, Zenon DEF Once, L
<1>10. PICK q \in R : x \in UpTo(sg, q)
  BY <1>3, LiveIs, Zenon DEF L
<1>11. h \in UpTo(sg, q)
  BY <1>1, <1>8, <1>9, <1>10, UpToTransitive
<1>12. q = h
  BY <1>1, <1>11, Zenon DEF Tips, R
<1>13. x = h
  BY <1>1, <1>3, <1>8, <1>9, <1>10, <1>12, Antisymmetric, Zenon
<1> QED
  BY <1>8, <1>9, <1>13, Zenon

-----------------------------------------------------------------------------
(* What is in reach of a transaction.                                      *)

HeadLocs(tr) == {h.loc : h \in tr.heads}
OpenLocs(hd, tr) == {hd} \cup {tr.persp.prior[i] : i \in DOMAIN tr.persp.prior}
Reach(sg, hd, tr) == Live(sg, HeadLocs(tr) \cup OpenLocs(hd, tr))

\* What is in reach of the transaction and of the head of the graph is there once, and
\* what is not in the graph was added; the perspective has nothing of it yet.
OpenOK(sg, hd, tr) ==
    /\ Shape(sg, HeadLocs(tr), OpenLocs(hd, tr))
    /\ \A x \in Reach(sg, hd, tr) : Id(sg, x) \in IdsUpTo(sg, hd) \cup tr.added
    /\ \A x \in Reach(sg, hd, tr) : \A i \in DOMAIN tr.persp.cmds : Id(sg, x) # tr.persp.cmds[i]
    /\ \A i, j \in DOMAIN tr.persp.cmds : tr.persp.cmds[i] = tr.persp.cmds[j] => i = j
    /\ \A i \in DOMAIN tr.persp.cmds : tr.persp.cmds[i] \in tr.added

\* The graph alone.
HeadOK(sg, hd) == Shape(sg, {}, {hd}) /\ hd = HeadOf(sg, hd[1])

\* The reach of one location.
LEMMA LiveOne == \A sg, x : Live(sg, {x}) = UpTo(sg, x)
BY DEF Live

\* A location is not at once a tip and another one.
LEMMA ShapeApart ==
    ASSUME NEW sg, GraphOK(sg), NEW T, NEW O, Shape(sg, T, O), NEW h \in T, NEW o \in O
    PROVE  h # o
<1>1. h \in Locs(sg) /\ h \notin UpTo(sg, o)
  BY Zenon DEF Shape, Tips
<1>2. h \in UpTo(sg, h)
  BY <1>1, UpToLocs, Zenon
<1> QED
  BY <1>1, <1>2, Zenon

\* A transaction without a perspective.
LEMMA NoPerspLocs ==
    ASSUME NEW tr, tr.persp = NoPersp, NEW hd
    PROVE  OpenLocs(hd, tr) = {hd} /\ DOMAIN tr.persp.cmds = {}
<1>1. tr.persp.prior = <<>> /\ tr.persp.cmds = <<>> /\ DOMAIN <<>> = {}
  BY DEF NoPersp
<1> QED
  BY <1>1 DEF OpenLocs

\* The graph stays as it is when segments are written that nobody refers to.
LEMMA HeadKept ==
    ASSUME NEW sg, NEW sg2, GraphOK(sg), Extends(sg2, sg), NEW hd, HeadOK(sg, hd)
    PROVE  HeadOK(sg2, hd) /\ hd \in Locs(sg2)
<1>1. Shape(sg, {}, {hd}) /\ hd = HeadOf(sg, hd[1]) /\ hd \in Locs(sg)
  BY Zenon DEF HeadOK, Shape
<1>2. Shape(sg2, {}, {hd})
  BY <1>1, ShapeKept
<1>3. hd \in Locs(sg2)
  BY <1>2, Zenon DEF Shape
<1>4. HeadOf(sg2, hd[1]) = HeadOf(sg, hd[1])
  BY <1>1, <1>3, OldLocs
<1> QED
  BY <1>1, <1>2, <1>3, <1>4, Zenon DEF HeadOK

\* A new transaction.
LEMMA NewTrxOnce ==
    ASSUME NEW sg, NEW hd, HeadOK(sg, hd)
    PROVE  OpenOK(sg, hd, NewTrx)
<1>1. NewTrx.persp = NoPersp /\ NewTrx.heads = {}
  BY DEF NewTrx
<1>2. HeadLocs(NewTrx) = {} /\ OpenLocs(hd, NewTrx) = {hd} /\ DOMAIN NewTrx.persp.cmds = {}
  <2>1. HeadLocs(NewTrx) = {}
    BY <1>1, Zenon DEF HeadLocs
  <2> QED
    BY <1>1, <2>1, NoPerspLocs, Zenon
<1>3. Reach(sg, hd, NewTrx) = UpTo(sg, hd)
  <2>1. {} \cup {hd} = {hd}
    BY Zenon
  <2> QED
    BY <1>2, <2>1, LiveOne, Zenon DEF Reach
<1>4. \A x \in UpTo(sg, hd) : Id(sg, x) \in IdsUpTo(sg, hd)
  BY Zenon DEF IdsUpTo
<1> QED
  BY <1>2, <1>3, <1>4, Zenon DEF OpenOK, HeadOK

\* The heads after the perspective was written.
LEMMA WrittenLocs ==
    ASSUME NEW sg, NEW tr, TrxCare(sg, tr), tr.persp.cmds # <<>>, tr.persp.cmds \in Seq(Nat),
           NEW sg2
    PROVE  {h.loc : h \in Written(tr, sg2)} = HeadLocs(tr) \cup {HeadOf(sg2, Len(sg2))}
<1> DEFINE id == tr.persp.cmds[Len(tr.persp.cmds)]
           w == [id |-> id, loc |-> HeadOf(sg2, Len(sg2))]
<1>1. Len(tr.persp.cmds) \in 1..Len(tr.persp.cmds)
  OBVIOUS
<1>2. \A h \in tr.heads : h.id # id
  BY <1>1, Zenon DEF TrxCare
<1>3. Written(tr, sg2) = tr.heads \cup {w}
  <2>1. Without(tr.heads, {id}) = tr.heads
    BY <1>2 DEF Without
  <2> QED
    BY <2>1, Zenon DEF Written
<1>4. w.loc = HeadOf(sg2, Len(sg2))
  BY Zenon
<1> HIDE DEF w
<1> QED
  BY <1>3, <1>4 DEF HeadLocs

\* Writing the perspective.
LEMMA FlushOnce ==
    ASSUME GraphOK(segs), NEW tr, TrxOK(segs, tr), TrxCare(segs, tr), head \in Locs(segs),
           OpenOK(segs, head, tr), NEW keep \in BOOLEAN, Flush(tr, keep).ok
    PROVE  LET f == Flush(tr, keep) IN OpenOK(f.segs, head, f.trx)
<1> DEFINE f == Flush(tr, keep)
           seg == SegmentOf(tr)
           sg == Append(segs, seg)
<1>1. CASE ~tr.persp.open
  <2>1. f = [ok |-> TRUE, segs |-> segs, trx |-> tr]
    BY <1>1, FlushCases, Zenon
  <2> HIDE DEF f
  <2>2. f.segs = segs /\ f.trx = tr
    BY <2>1, Zenon
  <2> QED
    BY <2>2, Zenon DEF f
<1>2. CASE tr.persp.open /\ tr.persp.cmds # <<>>
  <2> DEFINE new == Closed(tr, keep, Written(tr, sg))
             last == <<Len(segs) + 1, Len(seg.cmds)>>
             T == HeadLocs(tr)
             O == OpenLocs(head, tr)
             T2 == T \cup {last}
             O2 == {head}
  <2>1. f.segs = sg /\ f.trx = new
    <3>1. f = [ok |-> TRUE, segs |-> sg, trx |-> new]
      BY <1>2, FlushCases, Zenon
    <3> HIDE DEF f
    <3> QED
      BY <3>1, Zenon
  <2>2. /\ seg \in Segments /\ \A j \in DOMAIN seg.prior : seg.prior[j] \in Locs(segs)
        /\ seg.prior = tr.persp.prior /\ seg.cmds = tr.persp.cmds
    <3>1. /\ seg \in Segments /\ \A j \in DOMAIN seg.prior : seg.prior[j] \in Locs(segs)
      BY <1>2, SegmentFacts, Zenon
    <3> QED
      BY <3>1, Zenon DEF SegmentOf
  <2>3. /\ Extends(sg, segs) /\ HeadOf(sg, Len(sg)) = last
    <3> HIDE DEF seg
    <3> QED
      BY <2>2, SegmentHolds, ZenonT(30)
  <2> HIDE DEF seg
  <2>4. \A y \in Locs(segs) : y # last
    <3> TAKE y \in Locs(segs)
    <3>1. y[1] \in 1..Len(segs) /\ Len(segs) \in Nat
      BY LocsFacts, Zenon DEF GraphOK
    <3> QED
      BY <3>1
  <2> HIDE DEF sg, last
  <2>5. /\ HeadLocs(new) = T2 /\ OpenLocs(head, new) = O2 /\ new.added = tr.added
        /\ DOMAIN new.persp.cmds = {}
    <3>1. new.persp = NoPersp /\ new.heads = Written(tr, sg) /\ new.added = tr.added
      BY Zenon DEF Closed
    <3> HIDE DEF new
    <3>2. OpenLocs(head, new) = {head} /\ DOMAIN new.persp.cmds = {}
      BY <3>1, NoPerspLocs, Zenon
    <3>3. tr.persp.cmds \in Seq(Nat)
      <4>1. tr.persp.cmds \in Seq(Nat \ {0})
        BY Zenon DEF TrxOK
      <4> QED
        BY <4>1
    <3>4. {h.loc : h \in Written(tr, sg)} = HeadLocs(tr) \cup {HeadOf(sg, Len(sg))}
      BY <1>2, <3>3, WrittenLocs, Zenon
    <3>5. HeadLocs(new) = T2
      BY <2>3, <3>1, <3>4, Zenon DEF HeadLocs
    <3> QED
      BY <3>1, <3>2, <3>5, Zenon
  <2>6. /\ Shape(segs, T, O)
        /\ \A x \in Live(segs, T \cup O) : Id(segs, x) \in IdsUpTo(segs, head) \cup tr.added
        /\ \A i \in DOMAIN seg.cmds : \A x \in Live(segs, T \cup O) : Id(segs, x) # seg.cmds[i]
        /\ \A i, j \in DOMAIN seg.cmds : seg.cmds[i] = seg.cmds[j] => i = j
        /\ \A i \in DOMAIN seg.cmds : seg.cmds[i] \in tr.added
    BY <2>2, Zenon DEF OpenOK, Reach
  <2>7. /\ \A j \in DOMAIN seg.prior : seg.prior[j] \in O
        /\ O2 \subseteq O
        /\ \A r \in O : r \in O2 \/ \E j \in DOMAIN seg.prior : seg.prior[j] = r
    BY <2>2, Zenon DEF OpenLocs
  <2> HIDE DEF T, O
  <2>8. /\ \A j \in DOMAIN seg.prior : seg.prior[j] \in T \cup O
        /\ last \in T2 \cup O2 /\ last \notin T2 \cap O2
        /\ \A h \in T2 : h = last \/ (h \in T /\ \A j \in DOMAIN seg.prior : seg.prior[j] # h)
        /\ O2 \subseteq O \cup {last}
        /\ \A r \in T \cup O : r \in T2 \cup O2 \/ \E j \in DOMAIN seg.prior : seg.prior[j] = r
    <3>1. \A h \in T, j \in DOMAIN seg.prior : seg.prior[j] # h
      BY <2>6, <2>7, ShapeApart
    <3>2. last # head
      BY <2>4, Zenon
    <3> QED
      BY <2>7, <3>1, <3>2, Zenon
  <2> HIDE DEF T2, O2
  <2>9. /\ Shape(sg, T2, O2)
        /\ \A x \in Live(sg, T2 \cup O2) :
             x \in Live(segs, T \cup O) \/ x \in {Len(segs) + 1} \X (1..Len(seg.cmds))
    <3>1. last = <<Len(segs) + 1, Len(seg.cmds)>>
      BY DEF last
    <3>2. Grows(segs, T, O, seg, last, T2, O2)
      BY <2>2, <2>6, <2>8, <3>1, Zenon DEF Grows
    <3> QED
      BY <3>2, ShapeGrows, Zenon DEF sg
  <2>10. ASSUME NEW x \in Live(sg, T2 \cup O2)
         PROVE  Id(sg, x) \in IdsUpTo(sg, head) \cup tr.added
    <3>1. IdsUpTo(sg, head) = IdsUpTo(segs, head)
      BY <2>3, UpToKept
    <3>2. CASE x \in Live(segs, T \cup O)
      <4>1. x \in Locs(segs)
        <5> DEFINE R == T \cup O
        <5>1. R \subseteq Locs(segs)
          BY <2>6, Zenon DEF Shape
        <5> HIDE DEF R
        <5>2. Live(segs, R) \subseteq Locs(segs)
          BY <5>1, LiveFacts, Zenon
        <5> QED
          BY <3>2, <5>2, Zenon DEF R
      <4>2. Id(sg, x) = Id(segs, x)
        BY <2>3, <4>1, UpToKept
      <4> QED
        BY <2>6, <3>1, <3>2, <4>2, Zenon
    <3>3. CASE x \in {Len(segs) + 1} \X (1..Len(seg.cmds))
      <4>1. x[2] \in DOMAIN seg.cmds /\ Id(sg, x) = seg.cmds[x[2]]
        BY <2>2, <3>3, NewIds, Zenon DEF sg
      <4> QED
        BY <2>6, <4>1, Zenon
    <3> QED
      BY <2>9, <2>10, <3>2, <3>3, Zenon
  <2> HIDE DEF new
  <2>11. OpenOK(sg, head, new)
    BY <2>5, <2>9, <2>10, Zenon DEF OpenOK, Reach
  <2> HIDE DEF f
  <2> QED
    BY <2>1, <2>11, Zenon DEF f
<1>3. CASE tr.persp.open /\ tr.persp.cmds = <<>>
  <2>1. f = [ok |-> FALSE, segs |-> segs, trx |-> Closed(tr, keep, tr.heads)]
    BY <1>3, FlushCases, Zenon
  <2> HIDE DEF f
  <2>2. ~f.ok
    BY <2>1, Zenon
  <2> QED
    BY <2>2, Zenon DEF f
<1> QED
  BY <1>1, <1>2, <1>3, Zenon

\* Opening a perspective at commands that are in reach.
LEMMA OpenedOnce ==
    ASSUME NEW sg, GraphOK(sg), NEW hd, NEW tr, TrxOK(sg, tr), tr.persp = NoPersp,
           OpenOK(sg, hd, tr), NEW ps, \A j \in DOMAIN ps : ps[j] \in Reach(sg, hd, tr),
           NEW ph
    PROVE  OpenOK(sg, hd, Opened(tr, ps, ph, IdsAt(sg, ps)))
<1> DEFINE ids == IdsAt(sg, ps)
           new == Opened(tr, ps, ph, ids)
           Q == {ps[j] : j \in DOMAIN ps}
           T == HeadLocs(tr)
           O == OpenLocs(hd, tr)
           L == Live(sg, T \cup O)
<1>1. /\ Shape(sg, T, O) /\ O = {hd} /\ Q \subseteq L
      /\ \A x \in L : Id(sg, x) \in IdsUpTo(sg, hd) \cup tr.added
  <2>1. /\ Shape(sg, T, O) /\ \A x \in L : Id(sg, x) \in IdsUpTo(sg, hd) \cup tr.added
    BY Zenon DEF OpenOK, Reach
  <2>2. O = {hd}
    BY NoPerspLocs, Zenon
  <2>3. Q \subseteq L
    BY Zenon DEF Reach
  <2> QED
    BY <2>1, <2>2, <2>3, Zenon
<1>2. /\ new.persp = [prior |-> ps, cmds |-> <<>>, open |-> TRUE]
      /\ new.heads = Without(tr.heads, ids) /\ new.added = tr.added
  BY Zenon DEF Opened
<1>3. new.persp.prior = ps /\ DOMAIN new.persp.cmds = {}
  <2>1. new.persp.prior = ps /\ new.persp.cmds = <<>> /\ DOMAIN <<>> = {}
    BY <1>2, NewPersp
  <2> QED
    BY <2>1, Zenon
<1> HIDE DEF new
<1>4. OpenLocs(hd, new) = O \cup Q
  BY <1>1, <1>3, Zenon DEF OpenLocs
<1>5. HeadLocs(new) = T \ Q
  <2>1. ASSUME NEW h \in tr.heads PROVE h.id \in ids <=> h.loc \in Q
    <3>1. h.loc \in T /\ h.id = Id(sg, h.loc)
      <4>1. PICK x \in Locs(sg) : h = [id |-> Id(sg, x), loc |-> x]
        BY <2>1, Zenon DEF TrxOK, HeadsIn
      <4> QED
        BY <4>1, <2>1, Zenon DEF HeadLocs
    <3>2. ASSUME h.loc \in Q PROVE h.id \in ids
      BY <3>1, <3>2, Zenon DEF IdsAt
    <3>3. ASSUME h.id \in ids PROVE h.loc \in Q
      <4>1. PICK j \in DOMAIN ps : Id(sg, ps[j]) = Id(sg, h.loc)
        BY <3>1, <3>3, Zenon DEF IdsAt
      <4>2. ps[j] \in L /\ h.loc \in L
        <5> DEFINE R == T \cup O
        <5>1. R \subseteq Locs(sg)
          BY <1>1, Zenon DEF Shape
        <5> HIDE DEF R
        <5>2. R \subseteq Live(sg, R)
          BY <5>1, LiveFacts, Zenon
        <5> QED
          BY <1>1, <3>1, <5>2, Zenon DEF R
      <4>3. ps[j] = h.loc
        BY <1>1, <4>1, <4>2, Zenon DEF Shape, Once
      <4> QED
        BY <4>3, Zenon
    <3> QED
      BY <3>2, <3>3, Zenon
  <2>2. new.heads = {h \in tr.heads : h.id \notin ids}
    BY <1>2, Zenon DEF Without
  <2> HIDE DEF ids, Q
  <2>3. \A x \in HeadLocs(new) : x \in T \ Q
    BY <2>1, <2>2, Zenon DEF HeadLocs
  <2>4. \A x \in T \ Q : x \in HeadLocs(new)
    BY <2>1, <2>2, Zenon DEF HeadLocs
  <2> HIDE DEF T
  <2> QED
    BY <2>3, <2>4, Zenon
<1> HIDE DEF Q, T, O
<1>6. Shape(sg, T \ Q, O \cup Q) /\ \A x \in Live(sg, (T \ Q) \cup (O \cup Q)) : x \in L
  BY <1>1, ShapeOpened, Zenon
<1>7. (\A x \in Reach(sg, hd, new) : x \in L) /\ Shape(sg, HeadLocs(new), OpenLocs(hd, new))
  BY <1>4, <1>5, <1>6, Zenon DEF Reach
<1> HIDE DEF L
<1>8. OpenOK(sg, hd, new)
  BY <1>1, <1>2, <1>3, <1>7, Zenon DEF OpenOK
<1> QED
  BY <1>8, Zenon DEF new

\* A command that is neither in the graph nor was added is put into the perspective.
LEMMA AddedOnce ==
    ASSUME NEW sg, NEW hd, NEW tr, TrxOK(sg, tr), OpenOK(sg, hd, tr), NEW c \in Nat \ {0},
           c \notin tr.added, c \notin IdsUpTo(sg, hd)
    PROVE  OpenOK(sg, hd, Added(tr, c))
<1> DEFINE new == Added(tr, c)
           cmds == tr.persp.cmds
           n == Len(cmds) + 1
<1>1. new = [persp |-> [prior |-> tr.persp.prior, cmds |-> Append(cmds, c), open |-> tr.persp.open],
             phead |-> c, heads |-> tr.heads, added |-> tr.added \cup {c}]
  BY AddedIs, Zenon
<1> HIDE DEF new
<1>2. /\ new.persp.prior = tr.persp.prior /\ new.persp.cmds = Append(cmds, c)
      /\ new.heads = tr.heads /\ new.added = tr.added \cup {c}
  BY <1>1, Zenon
<1>3. cmds \in Seq(Nat \ {0})
  BY Zenon DEF TrxOK
<1> HIDE DEF cmds
<1>4. \A i \in DOMAIN new.persp.cmds :
        \/ i \in DOMAIN cmds /\ new.persp.cmds[i] = cmds[i]
        \/ i = n /\ new.persp.cmds[i] = c
  <2>1. /\ DOMAIN Append(cmds, c) = 1..n /\ Append(cmds, c)[n] = c /\ DOMAIN cmds = 1..Len(cmds)
        /\ Len(cmds) \in Nat /\ \A i \in 1..Len(cmds) : Append(cmds, c)[i] = cmds[i]
    BY <1>3
  <2>2. \A i \in 1..n : i \in 1..Len(cmds) \/ i = n
    BY <2>1
  <2> QED
    BY <1>2, <2>1, <2>2, Zenon
<1>5. Reach(sg, hd, new) = Reach(sg, hd, tr) /\ HeadLocs(new) = HeadLocs(tr) /\ OpenLocs(hd, new) = OpenLocs(hd, tr)
  BY <1>2, Zenon DEF Reach, HeadLocs, OpenLocs
<1>6. /\ Shape(sg, HeadLocs(tr), OpenLocs(hd, tr))
      /\ \A x \in Reach(sg, hd, tr) : Id(sg, x) \in IdsUpTo(sg, hd) \cup tr.added
      /\ \A x \in Reach(sg, hd, tr) : \A i \in DOMAIN cmds : Id(sg, x) # cmds[i]
      /\ \A i, j \in DOMAIN cmds : cmds[i] = cmds[j] => i = j
      /\ \A i \in DOMAIN cmds : cmds[i] \in tr.added
  BY Zenon DEF OpenOK, cmds
<1>7. \A x \in Reach(sg, hd, tr) : Id(sg, x) # c
  BY <1>6, Zenon
<1>8. \A i \in DOMAIN cmds : cmds[i] # c
  BY <1>6, Zenon
<1>9. /\ \A x \in Reach(sg, hd, new) : Id(sg, x) \in IdsUpTo(sg, hd) \cup new.added
      /\ \A x \in Reach(sg, hd, new) : \A i \in DOMAIN new.persp.cmds : Id(sg, x) # new.persp.cmds[i]
  <2>1. \A x \in Reach(sg, hd, new) : Id(sg, x) \in IdsUpTo(sg, hd) \cup new.added
    BY <1>2, <1>5, <1>6, Zenon
  <2>2. \A x \in Reach(sg, hd, tr) : \A i \in DOMAIN new.persp.cmds : Id(sg, x) # new.persp.cmds[i]
    BY <1>4, <1>6, <1>7, Zenon
  <2> QED
    BY <1>5, <2>1, <2>2, Zenon
<1>10. \A i, j \in DOMAIN new.persp.cmds : new.persp.cmds[i] = new.persp.cmds[j] => i = j
  <2> SUFFICES ASSUME NEW i \in DOMAIN new.persp.cmds, NEW j \in DOMAIN new.persp.cmds,
                      new.persp.cmds[i] = new.persp.cmds[j]
               PROVE  i = j
    BY Zenon
  <2>1. CASE i \in DOMAIN cmds /\ new.persp.cmds[i] = cmds[i]
    BY <1>4, <1>6, <1>8, <2>1, Zenon
  <2>2. CASE i = n /\ new.persp.cmds[i] = c
    BY <1>4, <1>8, <2>2, Zenon
  <2> QED
    BY <1>4, <2>1, <2>2, Zenon
<1>11. \A i \in DOMAIN new.persp.cmds : new.persp.cmds[i] \in new.added
  BY <1>2, <1>4, <1>6, Zenon
<1>12. OpenOK(sg, hd, new)
  BY <1>5, <1>6, <1>9, <1>10, <1>11, Zenon DEF OpenOK
<1> QED
  BY <1>12, Zenon DEF new

\* locate finds what is in reach, because segments are in reach as a whole.
LEMMA LocatedOnce ==
    ASSUME NEW sg, NEW tr, tr.persp = NoPersp, OpenOK(sg, head, tr), NEW c, NEW x \in Located(sg, tr, c)
    PROVE  x \in Reach(sg, head, tr)
<1> DEFINE R == HeadLocs(tr) \cup OpenLocs(head, tr)
<1>1. OpenLocs(head, tr) = {head} /\ Whole(sg, R)
  BY NoPerspLocs, Zenon DEF OpenOK, Shape
<1>2. PICK r \in R : x \in Seen(sg, r, c)
  <2>1. head \in R /\ \A h \in tr.heads : h.loc \in R
    BY <1>1, Zenon DEF HeadLocs
  <2> HIDE DEF R
  <2>2. CASE x \in Seen(sg, head, c)
    BY <2>1, <2>2, Zenon
  <2>3. CASE \E h \in tr.heads : x \in Seen(sg, h.loc, c)
    BY <2>1, <2>3, Zenon
  <2> QED
    BY <2>2, <2>3 DEF Located
<1> HIDE DEF R
<1>3. x \in Locs(sg) /\ \E y \in UpTo(sg, r) : y[1] = x[1]
  BY <1>2, Zenon DEF Seen
<1>4. x \in Live(sg, R)
  BY <1>1, <1>3, LiveIs, Zenon DEF Whole
<1> QED
  BY <1>4, Zenon DEF R, Reach

\* A command that add_commands takes for new.
LEMMA NewOnce ==
    ASSUME Careful, NEW t, NEW c, IsNew(t, c), GraphOK(segs), head \in Locs(segs)
    PROVE  c \notin trx[t].added /\ c \notin Committed
<1>1. c \notin trx[t].added /\ Located(segs, trx[t], c) = {}
  BY Zenon DEF Careful, IsNew, Unlocated
<1>2. Seen(segs, head, c) = {}
  BY <1>1, Zenon DEF Located
<1>3. ASSUME NEW x \in UpTo(segs, head), Id(segs, x) = c PROVE FALSE
  <2>1. x \in Locs(segs)
    BY <1>3, UpToLocs, Zenon
  <2>2. x \in Seen(segs, head, c)
    BY <1>3, <2>1, Zenon DEF Seen
  <2> QED
    BY <1>2, <2>2, Zenon
<1> QED
  BY <1>1, <1>3, Zenon DEF Committed, IdsUpTo

-----------------------------------------------------------------------------
(* Merges of commands neither of which is an ancestor of the other.        *)

Apart(sg, l, r) == Id(sg, l) \notin IdsUpTo(sg, r) /\ Id(sg, r) \notin IdsUpTo(sg, l)

PriorsApart(sg, ps) == Len(ps) = 2 => Apart(sg, ps[1], ps[2])

MergesApart(sg) == \A s \in DOMAIN sg : PriorsApart(sg, sg[s].prior)

\* They stay so when the graph grows.
LEMMA PriorsKept ==
    ASSUME NEW sg, NEW sg2, GraphOK(sg), Extends(sg2, sg), NEW ps \in Seq(Locs(sg)), PriorsApart(sg, ps)
    PROVE  PriorsApart(sg2, ps)
<1> SUFFICES ASSUME Len(ps) = 2 PROVE Apart(sg2, ps[1], ps[2])
  BY Zenon DEF PriorsApart
<1>1. ps[1] \in Locs(sg) /\ ps[2] \in Locs(sg)
  <2>1. 1 \in DOMAIN ps /\ 2 \in DOMAIN ps
    OBVIOUS
  <2>2. \A i \in DOMAIN ps : ps[i] \in Locs(sg)
    OBVIOUS
  <2> QED
    BY <2>1, <2>2, Zenon
<1>2. \A x \in Locs(sg) : Id(sg2, x) = Id(sg, x) /\ IdsUpTo(sg2, x) = IdsUpTo(sg, x)
  BY UpToKept
<1>3. Apart(sg, ps[1], ps[2])
  BY Zenon DEF PriorsApart
<1>4. /\ Id(sg2, ps[1]) = Id(sg, ps[1]) /\ IdsUpTo(sg2, ps[1]) = IdsUpTo(sg, ps[1])
      /\ Id(sg2, ps[2]) = Id(sg, ps[2]) /\ IdsUpTo(sg2, ps[2]) = IdsUpTo(sg, ps[2])
  BY <1>1, <1>2, Zenon
<1> HIDE DEF Id, IdsUpTo
<1> QED
  BY <1>3, <1>4, Zenon DEF Apart

\* The priors of a segment that are locations.
LEMMA PriorsAreLocs ==
    ASSUME NEW sg, NEW seg \in Segments, \A j \in DOMAIN seg.prior : seg.prior[j] \in Locs(sg)
    PROVE  seg.prior \in Seq(Locs(sg))
<1> DEFINE S == Locs(sg)
           q == seg.prior
<1>1. q \in Seq(Nat \X Nat) /\ \A j \in DOMAIN q : q[j] \in S
  BY DEF Segments
<1> HIDE DEF S, q
<1>2. q \in Seq(S)
  BY <1>1
<1> QED
  BY <1>2, Zenon DEF S, q

\* A segment is appended.
LEMMA MergesGrow ==
    ASSUME NEW sg, GraphOK(sg), NEW seg \in Segments,
           \A j \in DOMAIN seg.prior : seg.prior[j] \in Locs(sg),
           MergesApart(sg), PriorsApart(sg, seg.prior)
    PROVE  MergesApart(Append(sg, seg))
<1> DEFINE sg2 == Append(sg, seg)
           n == Len(sg) + 1
<1>1. /\ Extends(sg2, sg) /\ sg2[n] = seg /\ DOMAIN sg2 = 1..n /\ DOMAIN sg = 1..Len(sg)
      /\ \A s \in DOMAIN sg2 : s = n \/ s \in DOMAIN sg
  <2>1. Extends(sg2, sg)
    BY SegmentHolds, Zenon
  <2>2. sg \in Seq(Segments)
    BY Zenon DEF GraphOK
  <2>3. sg2[n] = seg /\ DOMAIN sg2 = 1..n
    BY <2>2, AppendFacts, Zenon
  <2>4. Len(sg) \in Nat /\ DOMAIN sg = 1..Len(sg)
    BY <2>2
  <2>5. \A s \in 1..n : s = n \/ s \in 1..Len(sg)
    BY <2>4
  <2> HIDE DEF n, sg2
  <2> QED
    BY <2>1, <2>3, <2>4, <2>5, Zenon
<1>2. ASSUME NEW s \in DOMAIN sg PROVE sg2[s] = sg[s] /\ sg[s].prior \in Seq(Locs(sg))
  <2>1. sg2[s] = sg[s] /\ sg[s] \in Segments
    <3>1. s \in 1..Len(sg)
      BY <1>1, Zenon
    <3>2. sg2[s] = sg[s]
      BY <1>1, <3>1, Zenon DEF Extends
    <3> HIDE DEF sg2
    <3> QED
      BY <3>2 DEF GraphOK
  <2>2. \A j \in DOMAIN sg[s].prior : sg[s].prior[j] \in Locs(sg)
    BY <1>1, Zenon DEF GraphOK, Priors
  <2> HIDE DEF sg2
  <2> QED
    BY <2>1, <2>2, PriorsAreLocs, Zenon
<1>3. seg.prior \in Seq(Locs(sg))
  BY PriorsAreLocs, Zenon
<1> HIDE DEF sg2, n
<1>4. PriorsApart(sg2, seg.prior)
  BY <1>1, <1>3, PriorsKept, Zenon
<1>5. ASSUME NEW s \in DOMAIN sg PROVE PriorsApart(sg2, sg2[s].prior)
  <2>1. PriorsApart(sg, sg[s].prior)
    BY Zenon DEF MergesApart
  <2>2. PriorsApart(sg2, sg[s].prior)
    BY <1>1, <1>2, <2>1, PriorsKept, Zenon
  <2> QED
    BY <1>2, <2>2, Zenon
<1>6. MergesApart(sg2)
  BY <1>1, <1>4, <1>5, Zenon DEF MergesApart
<1> QED
  BY <1>6, Zenon DEF sg2

\* The perspective is written.
LEMMA FlushMerges ==
    ASSUME GraphOK(segs), NEW tr, TrxOK(segs, tr), NEW keep \in BOOLEAN,
           MergesApart(segs), PriorsApart(segs, tr.persp.prior)
    PROVE  MergesApart(Flush(tr, keep).segs)
<1> DEFINE f == Flush(tr, keep)
<1>1. tr.persp.open \in BOOLEAN
  BY DEF TrxOK
<1>2. CASE ~(tr.persp.open /\ tr.persp.cmds # <<>>)
  <2>1. f.segs = segs
    <3> HIDE DEF f
    <3>1. \/ f = [ok |-> TRUE, segs |-> segs, trx |-> tr]
          \/ f = [ok |-> FALSE, segs |-> segs, trx |-> Closed(tr, keep, tr.heads)]
      BY <1>1, <1>2, FlushCases, Zenon DEF f
    <3> QED
      BY <3>1
  <2> QED
    BY <2>1, Zenon
<1>3. CASE tr.persp.open /\ tr.persp.cmds # <<>>
  <2> DEFINE seg == SegmentOf(tr)
  <2>1. f.segs = Append(segs, seg)
    <3> HIDE DEF f
    <3>1. f = [ok |-> TRUE, segs |-> Append(segs, seg), trx |-> Closed(tr, keep, Written(tr, Append(segs, seg)))]
      BY <1>3, FlushCases, Zenon DEF f
    <3> QED
      BY <3>1
  <2>2. /\ seg \in Segments /\ \A j \in DOMAIN seg.prior : seg.prior[j] \in Locs(segs)
    BY <1>3, SegmentFacts, Zenon
  <2>3. seg.prior = tr.persp.prior
    BY DEF SegmentOf
  <2> HIDE DEF seg
  <2>4. MergesApart(Append(segs, seg))
    BY <2>2, <2>3, MergesGrow, Zenon
  <2> QED
    BY <2>1, <2>4, Zenon
<1> QED
  BY <1>2, <1>3, Zenon
=============================================================================
