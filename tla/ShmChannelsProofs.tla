------------------------- MODULE ShmChannelsProofs -------------------------
(***************************************************************************)
(* SidesAgree for any IDs, readers, capacity, number of operations and     *)
(* width of the generation, in three parts.                                *)
(*                                                                         *)
(* 1. Induction over the natural numbers, stated with sets so that the     *)
(*    provers can use it, and what the operations on sequences return.     *)
(* 2. Lists: what an operation of the writer makes of one copy depends on  *)
(*    the channels and not on the side, so it does the same to two copies  *)
(*    that agree; and what a search finds.                                 *)
(* 3. The invariant of the two copies.                                     *)
(***************************************************************************)
EXTENDS ShmChannels, Integers, TLAPS

LOCAL INSTANCE WellFoundedInduction

\* A set of natural numbers has a least element (the first channel that fits).
LEMMA LeastNat ==
    ASSUME NEW T, T \subseteq Nat, T # {}
    PROVE  \E x \in T : \A y \in T : x <= y
<1> DEFINE R == OpToRel(<, Nat)
<1>1. IsWellFoundedOn(R, Nat)
  BY NatLessThanWellFounded, Zenon
<1>2. \A x, y \in Nat : <<x, y>> \in R <=> x < y
  BY DEF OpToRel
<1> HIDE DEF R
<1>3. PICK x \in T : \A y \in T : ~(<<y, x>> \in R)
  BY <1>1, WFMin, Zenon
<1>4. ASSUME NEW y \in T PROVE x <= y
  <2>1. x \in Nat /\ y \in Nat /\ ~(<<y, x>> \in R)
    BY <1>3
  <2>2. ~(y < x)
    BY <1>2, <2>1
  <2> QED
    BY <2>1, <2>2
<1> QED
  BY <1>4

\* Induction, for a set (of the numbers of rounds of a loop).
LEMMA NatSubset ==
    ASSUME NEW S, 0 \in S, \A n \in Nat : n \in S => n + 1 \in S
    PROVE  Nat \subseteq S
<1> DEFINE T == {n \in Nat : n \notin S}
<1> SUFFICES ASSUME T # {} PROVE FALSE
  OBVIOUS
<1>1. PICK x \in T : \A y \in T : x <= y
  <2>1. T \subseteq Nat
    OBVIOUS
  <2> HIDE DEF T
  <2> QED
    BY <2>1, LeastNat, Zenon
<1>2. x # 0 /\ x \in Nat
  OBVIOUS
<1>3. x - 1 \in Nat /\ ~(x <= x - 1) /\ (x - 1) + 1 = x
  BY <1>2
<1>4. x - 1 \notin T
  BY <1>1, <1>3
<1> QED
  BY <1>2, <1>3, <1>4

\* f is the iteration of F from a, N times.
Iterates(f, A, a, F, N) ==
    f \in [0..N -> A] /\ f[0] = a /\ \A k \in 1..N : f[k] = F[f[k - 1]]

\* There is such a function, whatever F, one round of a loop, is.
LEMMA Iterate ==
    ASSUME NEW A, NEW a \in A, NEW F \in [A -> A], NEW N \in Nat
    PROVE  \E f : Iterates(f, A, a, F, N)
<1> DEFINE Good(n, f) == f[0] = a /\ \A k \in 1..n : f[k] = F[f[k - 1]]
           S == {n \in Nat : \E f \in [0..n -> A] : Good(n, f)}
<1>1. 0 \in S
  <2>1. [k \in 0..0 |-> a] \in [0..0 -> A] /\ Good(0, [k \in 0..0 |-> a])
    OBVIOUS
  <2> QED
    BY <2>1, Zenon
<1>2. ASSUME NEW n \in Nat, n \in S PROVE n + 1 \in S
  <2>1. PICK f \in [0..n -> A] : Good(n, f)
    BY <1>2
  <2> DEFINE g == [k \in 0..(n + 1) |-> IF k = n + 1 THEN F[f[n]] ELSE f[k]]
  <2>2. g \in [0..(n + 1) -> A]
    OBVIOUS
  <2>3. g[0] = a
    BY <2>1
  <2>4. ASSUME NEW k \in 1..(n + 1) PROVE g[k] = F[g[k - 1]]
    BY <2>1
  <2> QED
    BY <2>2, <2>3, <2>4, SMTT(60)
<1>3. N \in S
  <2> HIDE DEF S
  <2> QED
    BY <1>1, <1>2, NatSubset
<1> QED
  BY <1>3 DEF Iterates

-----------------------------------------------------------------------------
(* Sequences of any elements.                                              *)

\* A sequence is a function.
LEMMA SeqFunction ==
    ASSUME NEW S, NEW s \in Seq(S)
    PROVE  Len(s) \in Nat /\ DOMAIN s = 1..Len(s) /\ s \in [1..Len(s) -> S]
  OBVIOUS

\* The empty one.
LEMMA SeqEmpty ==
    ASSUME NEW S
    PROVE  <<>> \in Seq(S) /\ Len(<<>>) = 0
  OBVIOUS

\* Another element in place of one.
LEMMA SeqReplace ==
    ASSUME NEW S, NEW s \in Seq(S), NEW i \in 1..Len(s), NEW x \in S
    PROVE  LET t == [s EXCEPT ![i] = x]
           IN /\ t \in Seq(S) /\ Len(t) = Len(s)
              /\ \A j \in 1..Len(s) : t[j] = IF j = i THEN x ELSE s[j]
  OBVIOUS

\* One more element at the end.
LEMMA SeqAppend ==
    ASSUME NEW S, NEW s \in Seq(S), NEW x \in S
    PROVE  LET t == Append(s, x)
           IN /\ t \in Seq(S) /\ t # <<>> /\ Len(t) = Len(s) + 1
              /\ t[Len(s) + 1] = x
              /\ \A i \in 1..Len(s) : t[i] = s[i]
  OBVIOUS

\* The first elements.
LEMMA SeqPrefix ==
    ASSUME NEW S, NEW s \in Seq(S), NEW n \in 0..Len(s)
    PROVE  LET t == SubSeq(s, 1, n)
           IN /\ t \in Seq(S) /\ Len(t) = n
              /\ \A i \in 1..n : t[i] = s[i]
  OBVIOUS

-----------------------------------------------------------------------------

Chan == [id : Ids, dir : Directions, key : Nat,
         keyId : Nat \X {"both", "A", "B"}, seq : Nat]

List == Seq(Chan)

\* ChanListData
ListData == [gen : Nat, chans : List]

\* Two copies hold the same channels in the same order.
Same(l, m) == Len(l) = Len(m) /\ \A i \in 1..Len(l) : Public(l[i]) = Public(m[i])

Agree(d, e) == d.gen = e.gen /\ Same(d.chans, e.chans)

UniqueIds(l) == \A i, j \in 1..Len(l) : l[i].id = l[j].id => i = j

\* An operation that was decided on a copy with the channels l.
GoodOp(o, l) ==
    /\ o.kind \in {"add", "remove", "remove_all", "remove_if"}
    /\ o.kind = "add" =>
           /\ o.id \in Ids /\ o.dir \in Directions /\ o.key \in Nat
           /\ o.grow \in BOOLEAN
           /\ o.grow => \A i \in 1..Len(l) : l[i].id # o.id
           /\ ~o.grow => o.idx \in 1..Len(l) /\ l[o.idx].id = o.id
    /\ o.kind = "remove" => o.idx \in 1..Len(l)

After(o, d, s) == [gen |-> ApplyGen(o, d), chans |-> Apply(o, d.chans, s)]
-----------------------------------------------------------------------------
(* Lists and the loop of remove_if.                                        *)

\* A list has channels at the indices 1..Len.
LEMMA ListFacts ==
    ASSUME NEW l \in List
    PROVE  /\ Len(l) \in Nat /\ DOMAIN l = 1..Len(l)
           /\ \A i \in 1..Len(l) : l[i] \in Chan
BY SeqFunction DEF List

\* swap_remove shortens the list by one and moves the last channel to index i.
LEMMA SwapRemoveFacts ==
    ASSUME NEW l \in List, NEW i \in 1..Len(l)
    PROVE  /\ SwapRemove(l, i) \in List
           /\ Len(SwapRemove(l, i)) = Len(l) - 1
           /\ \A j \in 1..(Len(l) - 1) : SwapRemove(l, i)[j] = IF j = i THEN l[Len(l)] ELSE l[j]
<1> DEFINE n == Len(l)
           m == [l EXCEPT ![i] = l[n]]
<1>1. n \in Nat \ {0} /\ l[n] \in Chan
  BY ListFacts
<1>2. /\ m \in Seq(Chan) /\ Len(m) = n
      /\ \A j \in 1..n : m[j] = IF j = i THEN l[n] ELSE l[j]
  BY <1>1, SeqReplace DEF List
<1> HIDE DEF m
<1>3. n - 1 \in 0..Len(m)
  BY <1>1, <1>2
<1>4. /\ SubSeq(m, 1, n - 1) \in Seq(Chan)
      /\ Len(SubSeq(m, 1, n - 1)) = n - 1
      /\ \A j \in 1..(n - 1) : SubSeq(m, 1, n - 1)[j] = m[j]
  BY <1>2, <1>3, SeqPrefix
<1> QED
  BY <1>1, <1>2, <1>4 DEF SwapRemove, List, m

\* One round of the loop of remove_if.
Rounds == List \X (Nat \ {0})

OneRound(drop, r) ==
    IF r[2] > Len(r[1]) THEN r
    ELSE IF r[1][r[2]].id \in drop THEN <<SwapRemove(r[1], r[2]), r[2]>>
    ELSE <<r[1], r[2] + 1>>

\* A round of remove_if's loop leaves a list and an index.
LEMMA OneRoundType ==
    ASSUME NEW drop, NEW r \in Rounds
    PROVE  OneRound(drop, r) \in Rounds
<1>1. r[1] \in List /\ r[2] \in Nat \ {0} /\ Len(r[1]) \in Nat
  BY ListFacts DEF Rounds
<1>2. ~(r[2] > Len(r[1])) => r[2] \in 1..Len(r[1])
  BY <1>1
<1> QED
  BY <1>1, <1>2, SwapRemoveFacts DEF Rounds, OneRound

IsRounds(f, l, drop) ==
    /\ f \in [0..Len(l) -> Rounds]
    /\ f[0] = <<l, 1>>
    /\ \A k \in 1..Len(l) : f[k] = OneRound(drop, f[k - 1])

\* remove_if returns what is left of the list after as many rounds as it has
\* channels: the recursive function of its definition exists.
LEMMA RoundsExist ==
    ASSUME NEW l \in List, NEW drop
    PROVE  \E f : IsRounds(f, l, drop) /\ RemoveIf(l, drop) = f[Len(l)][1]
<1> DEFINE F == [r \in Rounds |-> OneRound(drop, r)]
           n == Len(l)
           a == <<l, 1>>
           Body(f) == [k \in 0..n |-> IF k = 0 THEN a ELSE OneRound(drop, f[k - 1])]
           h == CHOOSE g : g = Body(g)
<1>1. n \in Nat /\ a \in Rounds
  BY ListFacts DEF Rounds
<1>2. F \in [Rounds -> Rounds] /\ \A r \in Rounds : F[r] = OneRound(drop, r)
  BY OneRoundType
<1>3. RemoveIf(l, drop) = h[n][1]
  BY DEF RemoveIf, OneRound
<1> HIDE DEF F, n, a
<1>4. PICK f \in [0..n -> Rounds] : f[0] = a /\ \A k \in 1..n : f[k] = F[f[k - 1]]
  <2>1. \E f : Iterates(f, Rounds, a, F, n)
    BY <1>1, <1>2, Iterate
  <2> QED
    BY <2>1, Zenon DEF Iterates
<1>5. \A k \in 1..n : f[k] = OneRound(drop, f[k - 1])
  <2> SUFFICES ASSUME NEW k \in 1..n PROVE f[k] = OneRound(drop, f[k - 1])
    OBVIOUS
  <2>1. k - 1 \in 0..n
    BY <1>1
  <2>2. f[k - 1] \in Rounds
    BY <2>1
  <2> QED
    BY <1>2, <1>4, <2>2
<1>6. f = Body(f)
  BY <1>1, <1>4, <1>5
<1>7. h = Body(h)
  <2> HIDE DEF Body
  <2> QED
    BY <1>6
<1>8. DOMAIN h = 0..n /\ h[0] = a /\ \A k \in 1..n : h[k] = OneRound(drop, h[k - 1])
  <2> HIDE DEF h
  <2> QED
    BY <1>1, <1>7
<1> HIDE DEF h
<1>9. \A k \in 0..n : h[k] \in Rounds
  <2> DEFINE S == {k \in Nat : k \in 0..n => h[k] \in Rounds}
  <2>1. 0 \in S
    BY <1>1, <1>8
  <2>2. ASSUME NEW k \in Nat, k \in S PROVE k + 1 \in S
    <3> SUFFICES ASSUME k + 1 \in 0..n PROVE h[k + 1] \in Rounds
      OBVIOUS
    <3>1. k \in 0..n /\ k + 1 \in 1..n /\ (k + 1) - 1 = k
      BY <1>1
    <3>2. h[k + 1] = OneRound(drop, h[k]) /\ h[k] \in Rounds
      BY <1>8, <2>2, <3>1
    <3> QED
      BY <3>2, OneRoundType
  <2>3. Nat \subseteq S
    <3> HIDE DEF S
    <3> QED
      BY <2>1, <2>2, NatSubset
  <2> QED
    BY <1>1, <2>3
<1>10. h \in [0..n -> Rounds]
  <2>1. h = [k \in 0..n |-> h[k]]
    BY <1>7, <1>8
  <2> QED
    BY <1>9, <2>1
<1>11. IsRounds(h, l, drop)
  BY <1>8, <1>10 DEF IsRounds, n, a
<1> QED
  BY <1>3, <1>11 DEF n

\* What holds of the first list and every round keeps holds of the last.
LEMMA RoundsKeep ==
    ASSUME NEW l \in List, NEW drop, NEW f, IsRounds(f, l, drop), NEW Q,
           <<l, 1>> \in Q, \A r \in Rounds : r \in Q => OneRound(drop, r) \in Q
    PROVE  \A k \in 0..Len(l) : f[k] \in Rounds /\ f[k] \in Q
<1> DEFINE n == Len(l)
           S == {k \in Nat : k \in 0..n => f[k] \in Q}
<1>0. n \in Nat
  BY ListFacts
<1>1. /\ f \in [0..n -> Rounds] /\ f[0] \in Q
      /\ \A k \in 1..n : f[k] = OneRound(drop, f[k - 1])
  BY DEF IsRounds
<1> HIDE DEF n
<1>2. 0 \in S
  BY <1>1
<1>3. ASSUME NEW k \in Nat, k \in S PROVE k + 1 \in S
  <2> SUFFICES ASSUME k + 1 \in 0..n PROVE f[k + 1] \in Q
    OBVIOUS
  <2>1. k \in 0..n /\ k + 1 \in 1..n /\ (k + 1) - 1 = k
    BY <1>0
  <2>2. f[k + 1] = OneRound(drop, f[k]) /\ f[k] \in Rounds /\ f[k] \in Q
    BY <1>1, <1>3, <2>1
  <2> QED
    BY <2>2
<1>4. Nat \subseteq S
  <2> HIDE DEF S
  <2> QED
    BY <1>2, <1>3, NatSubset
<1> QED
  BY <1>0, <1>1, <1>4 DEF n

\* remove_if keeps a list, and keeps the IDs of its channels distinct.
LEMMA RemoveIfFacts ==
    ASSUME NEW l \in List, NEW drop
    PROVE  /\ RemoveIf(l, drop) \in List
           /\ UniqueIds(l) => UniqueIds(RemoveIf(l, drop))
           /\ (\A i \in 1..Len(l) : l[i].id \notin drop) => RemoveIf(l, drop) = l
<1>0. PICK f : IsRounds(f, l, drop) /\ RemoveIf(l, drop) = f[Len(l)][1]
  BY RoundsExist
<1>1. Len(l) \in Nat /\ Len(l) \in 0..Len(l) /\ <<l, 1>> \in Rounds
  BY ListFacts DEF Rounds
<1>2. RemoveIf(l, drop) \in List
  BY <1>0, <1>1 DEF IsRounds, Rounds
<1>3. ASSUME UniqueIds(l) PROVE UniqueIds(RemoveIf(l, drop))
  <2> DEFINE Q == {r \in Rounds : UniqueIds(r[1])}
  <2>1. <<l, 1>> \in Q
    BY <1>1, <1>3
  <2>2. ASSUME NEW r \in Rounds, r \in Q PROVE OneRound(drop, r) \in Q
    <3>1. OneRound(drop, r) \in Rounds
      BY OneRoundType
    <3>2. r[1] \in List /\ r[2] \in Nat \ {0} /\ Len(r[1]) \in Nat
      BY ListFacts DEF Rounds
    <3>3. ASSUME ~(r[2] > Len(r[1])) PROVE UniqueIds(SwapRemove(r[1], r[2]))
      <4> DEFINE m == r[1]
                 w == SwapRemove(m, r[2])
      <4>1. r[2] \in 1..Len(m)
        BY <3>2, <3>3
      <4>2. /\ Len(w) = Len(m) - 1
            /\ \A j \in 1..(Len(m) - 1) : w[j] = IF j = r[2] THEN m[Len(m)] ELSE m[j]
        BY <3>2, <4>1, SwapRemoveFacts, SMTT(60)
      <4>3. UniqueIds(m)
        BY <2>2
      <4> HIDE DEF m, w
      <4>4. Len(m) \in Nat
        BY <3>2 DEF m
      <4>5. UniqueIds(w)
        BY <4>1, <4>2, <4>3, <4>4 DEF UniqueIds
      <4> QED
        BY <4>5 DEF m, w
    <3> QED
      BY <2>2, <3>1, <3>3 DEF OneRound
  <2>3. f[Len(l)] \in Q
    <3> HIDE DEF Q
    <3> QED
      BY <1>0, <1>1, <2>1, <2>2, RoundsKeep
  <2> QED
    BY <1>0, <2>3
<1>4. ASSUME \A i \in 1..Len(l) : l[i].id \notin drop PROVE RemoveIf(l, drop) = l
  <2> DEFINE Q == {r \in Rounds : r[1] = l}
  <2>1. <<l, 1>> \in Q
    BY <1>1
  <2>2. ASSUME NEW r \in Rounds, r \in Q PROVE OneRound(drop, r) \in Q
    <3>1. OneRound(drop, r) \in Rounds
      BY OneRoundType
    <3>2. r[1] = l /\ r[2] \in Nat \ {0}
      BY <2>2 DEF Rounds
    <3>3. ~(r[2] > Len(l)) => r[2] \in 1..Len(l)
      BY <1>1, <3>2
    <3> QED
      BY <1>4, <3>1, <3>2, <3>3 DEF OneRound
  <2>3. f[Len(l)] \in Q
    <3> HIDE DEF Q
    <3> QED
      BY <1>0, <1>1, <2>1, <2>2, RoundsKeep
  <2> QED
    BY <1>0, <2>3
<1> QED
  BY <1>2, <1>3, <1>4

\* remove_if does the same to two copies that agree.
LEMMA RemoveIfSame ==
    ASSUME NEW l \in List, NEW m \in List, Same(l, m), NEW drop
    PROVE  Same(RemoveIf(l, drop), RemoveIf(m, drop))
<1> DEFINE Alike(r, q) == r \in Rounds /\ q \in Rounds /\ Same(r[1], q[1]) /\ r[2] = q[2]
<1>0. PICK f : IsRounds(f, l, drop) /\ RemoveIf(l, drop) = f[Len(l)][1]
  BY RoundsExist
<1>1. PICK g : IsRounds(g, m, drop) /\ RemoveIf(m, drop) = g[Len(m)][1]
  BY RoundsExist
<1>2. ASSUME NEW r, NEW q, Alike(r, q) PROVE Alike(OneRound(drop, r), OneRound(drop, q))
  <2>1. OneRound(drop, r) \in Rounds /\ OneRound(drop, q) \in Rounds
    BY <1>2, OneRoundType
  <2> DEFINE a == r[1]
             b == q[1]
             i == r[2]
             v == SwapRemove(a, i)
             w == SwapRemove(b, i)
  <2>2. /\ a \in List /\ b \in List /\ i \in Nat \ {0} /\ q[2] = i
        /\ Same(a, b) /\ Len(a) \in Nat
    BY <1>2, ListFacts DEF Rounds
  <2>3. CASE i > Len(a)
    BY <1>2, <2>1, <2>2, <2>3 DEF OneRound, Same
  <2>4. CASE ~(i > Len(a))
    <3>1. i \in 1..Len(a) /\ i \in 1..Len(b) /\ ~(i > Len(b))
      BY <2>2, <2>4 DEF Same
    <3>2. a[i].id = b[i].id
      BY <2>2, <3>1, Zenon DEF Same, Public
    <3>3. Same(v, w)
      <4>1. /\ Len(v) = Len(a) - 1 /\ Len(w) = Len(b) - 1
            /\ \A j \in 1..(Len(a) - 1) : v[j] = IF j = i THEN a[Len(a)] ELSE a[j]
            /\ \A j \in 1..(Len(b) - 1) : w[j] = IF j = i THEN b[Len(b)] ELSE b[j]
        BY <2>2, <3>1, SwapRemoveFacts, ZenonT(60)
      <4>2. Len(a) = Len(b) /\ \A j \in 1..Len(a) : Public(a[j]) = Public(b[j])
        BY <2>2 DEF Same
      <4>3. Len(a) \in Nat \ {0}
        BY <2>2, <3>1
      <4> HIDE DEF a, b, i, v, w
      <4>4. ASSUME NEW j \in 1..Len(v) PROVE Public(v[j]) = Public(w[j])
        <5>1. j \in 1..(Len(a) - 1) /\ j \in 1..Len(a) /\ Len(a) \in 1..Len(a)
          BY <4>1, <4>3
        <5> QED
          BY <4>1, <4>2, <5>1
      <4> QED
        BY <4>1, <4>2, <4>4 DEF Same
    <3>4. OneRound(drop, r) = IF a[i].id \in drop THEN <<v, i>> ELSE <<a, i + 1>>
      BY <2>4 DEF OneRound
    <3>5. OneRound(drop, q) = IF a[i].id \in drop THEN <<w, i>> ELSE <<b, i + 1>>
      BY <2>2, <3>1, <3>2 DEF OneRound
    <3> HIDE DEF a, b, i, v, w
    <3> QED
      BY <2>1, <2>2, <3>3, <3>4, <3>5
  <2> QED
    BY <2>3, <2>4
<1> DEFINE n == Len(l)
           S == {k \in Nat : k \in 0..n => Alike(f[k], g[k])}
<1>3. n \in Nat /\ Len(m) = n /\ <<l, 1>> \in Rounds /\ <<m, 1>> \in Rounds
  BY ListFacts DEF Same, Rounds
<1>4. /\ f[0] = <<l, 1>> /\ \A k \in 1..n : f[k] = OneRound(drop, f[k - 1])
      /\ g[0] = <<m, 1>> /\ \A k \in 1..n : g[k] = OneRound(drop, g[k - 1])
  BY <1>0, <1>1, <1>3 DEF IsRounds
<1>5. Alike(f[0], g[0])
  BY <1>3, <1>4
<1> HIDE DEF Alike, n
<1>6. 0 \in S
  BY <1>5
<1>7. ASSUME NEW k \in Nat, k \in S PROVE k + 1 \in S
  <2> SUFFICES ASSUME k + 1 \in 0..n PROVE Alike(f[k + 1], g[k + 1])
    OBVIOUS
  <2>1. k \in 0..n /\ k + 1 \in 1..n /\ (k + 1) - 1 = k
    BY <1>3
  <2>2. f[k + 1] = OneRound(drop, f[k]) /\ g[k + 1] = OneRound(drop, g[k]) /\ Alike(f[k], g[k])
    BY <1>4, <1>7, <2>1
  <2> QED
    BY <1>2, <2>2
<1>8. Nat \subseteq S
  <2> HIDE DEF S
  <2> QED
    BY <1>6, <1>7, NatSubset
<1>9. Alike(f[n], g[n])
  BY <1>3, <1>8
<1> QED
  BY <1>0, <1>1, <1>3, <1>9 DEF Alike, n

-----------------------------------------------------------------------------
(* The operations of the writer.                                           *)

\* ShmChan::init makes a channel that has the ID and the direction it is given.
LEMMA NewChanType ==
    ASSUME NEW id \in Ids, NEW dir \in Directions, NEW key \in Nat, NEW s \in Sides
    PROVE  /\ NewChan(id, dir, key, s) \in Chan
           /\ NewChan(id, dir, key, s).id = id
           /\ Public(NewChan(id, dir, key, s)) = [id |-> id, dir |-> dir, key |-> key]
<1>1. KeyId(dir, key, s) \in Nat \X {"both", "A", "B"}
  BY DEF KeyId, Sides
<1> QED
  BY <1>1 DEF NewChan, Chan, Public

\* What an operation makes of a list of channels with distinct IDs.
LEMMA ApplyFacts ==
    ASSUME NEW o, NEW l \in List, GoodOp(o, l), NEW s \in Sides
    PROVE  /\ Apply(o, l, s) \in List
           /\ UniqueIds(l) => UniqueIds(Apply(o, l, s))
<1> DEFINE w == Apply(o, l, s)
           c == NewChan(o.id, o.dir, o.key, s)
<1>0. Len(l) \in Nat /\ l \in Seq(Chan)
  BY ListFacts DEF List
<1>1. CASE o.kind = "add"
  <2>0. c \in Chan /\ c.id = o.id /\ o.grow \in BOOLEAN
    BY <1>1, NewChanType DEF GoodOp
  <2>1. CASE o.grow
    <3>1. w = Append(l, c) /\ \A i \in 1..Len(l) : l[i].id # o.id
      BY <1>1, <2>1 DEF Apply, GoodOp
    <3> HIDE DEF w, c
    <3>2. /\ w \in Seq(Chan) /\ Len(w) = Len(l) + 1
          /\ \A i \in 1..Len(l) : w[i] = l[i]
          /\ w[Len(l) + 1] = c
      BY <1>0, <2>0, <3>1, SeqAppend
    <3>3. ASSUME UniqueIds(l), NEW i \in 1..Len(w), NEW j \in 1..Len(w), w[i].id = w[j].id
          PROVE  i = j
      <4>1. (i \in 1..Len(l) \/ i = Len(l) + 1) /\ (j \in 1..Len(l) \/ j = Len(l) + 1)
        BY <1>0, <3>2
      <4> QED
        BY <2>0, <3>1, <3>2, <3>3, <4>1 DEF UniqueIds
    <3> QED
      BY <3>2, <3>3 DEF UniqueIds, List, w
  <2>2. CASE ~o.grow
    <3>1. w = [l EXCEPT ![o.idx] = c] /\ o.idx \in 1..Len(l) /\ l[o.idx].id = o.id
      BY <1>1, <2>2 DEF Apply, GoodOp
    <3> HIDE DEF w, c
    <3>2. /\ w \in Seq(Chan) /\ Len(w) = Len(l)
          /\ \A j \in 1..Len(l) : w[j] = IF j = o.idx THEN c ELSE l[j]
      BY <1>0, <2>0, <3>1, SeqReplace
    <3>3. \A j \in 1..Len(l) : w[j].id = l[j].id
      BY <2>0, <3>1, <3>2
    <3> QED
      BY <3>2, <3>3 DEF UniqueIds, List, w
  <2> QED
    BY <2>0, <2>1, <2>2
<1>2. CASE o.kind = "remove"
  <2>1. w = SwapRemove(l, o.idx) /\ o.idx \in 1..Len(l)
    BY <1>2 DEF Apply, GoodOp
  <2> HIDE DEF w
  <2>2. /\ w \in List /\ Len(w) = Len(l) - 1
        /\ \A j \in 1..(Len(l) - 1) : w[j] = IF j = o.idx THEN l[Len(l)] ELSE l[j]
    BY <2>1, SwapRemoveFacts, ZenonT(60)
  <2>3. UniqueIds(l) => UniqueIds(w)
    BY <1>0, <2>1, <2>2 DEF UniqueIds
  <2> QED
    BY <2>2, <2>3 DEF w
<1>3. CASE o.kind = "remove_all"
  <2>1. w = <<>>
    BY <1>3 DEF Apply
  <2>2. <<>> \in Seq(Chan) /\ Len(<<>>) = 0
    BY SeqEmpty
  <2> QED
    BY <2>1, <2>2 DEF UniqueIds, List
<1>4. CASE o.kind = "remove_if"
  <2>1. w = RemoveIf(l, o.drop)
    BY <1>4 DEF Apply
  <2> QED
    BY <2>1, RemoveIfFacts
<1> QED
  BY <1>1, <1>2, <1>3, <1>4 DEF GoodOp

\* An operation does the same to two copies that agree, whatever their sides.
LEMMA ApplySame ==
    ASSUME NEW o, NEW l \in List, NEW m \in List, Same(l, m), GoodOp(o, l),
           NEW s \in Sides, NEW t \in Sides
    PROVE  Same(Apply(o, l, s), Apply(o, m, t)) /\ GoodOp(o, m)
<1> DEFINE v == Apply(o, l, s)
           w == Apply(o, m, t)
           c == NewChan(o.id, o.dir, o.key, s)
           d == NewChan(o.id, o.dir, o.key, t)
<1>0. /\ Len(l) \in Nat /\ Len(m) = Len(l) /\ l \in Seq(Chan) /\ m \in Seq(Chan)
      /\ \A i \in 1..Len(l) : Public(l[i]) = Public(m[i])
  BY ListFacts DEF List, Same
<1>1. \A i \in 1..Len(l) : l[i].id = m[i].id
  BY <1>0, Zenon DEF Public
<1>2. GoodOp(o, m)
  BY <1>0, <1>1 DEF GoodOp
<1>3. CASE o.kind = "add"
  <2>0. c \in Chan /\ d \in Chan /\ Public(c) = Public(d) /\ o.grow \in BOOLEAN
    BY <1>3, NewChanType DEF GoodOp
  <2>1. CASE o.grow
    <3>1. v = Append(l, c) /\ w = Append(m, d)
      BY <1>3, <2>1 DEF Apply
    <3> HIDE DEF v, w, c, d
    <3>2. /\ Len(v) = Len(l) + 1 /\ \A i \in 1..Len(l) : v[i] = l[i]
          /\ v[Len(l) + 1] = c
      BY <1>0, <2>0, <3>1, SeqAppend
    <3>3. /\ Len(w) = Len(m) + 1 /\ \A i \in 1..Len(m) : w[i] = m[i]
          /\ w[Len(m) + 1] = d
      BY <1>0, <2>0, <3>1, SeqAppend
    <3>4. ASSUME NEW i \in 1..Len(v) PROVE Public(v[i]) = Public(w[i])
      <4>1. i \in 1..Len(l) \/ i = Len(l) + 1
        BY <1>0, <3>2
      <4> QED
        BY <1>0, <2>0, <3>2, <3>3, <4>1
    <3>5. Same(v, w)
      BY <1>0, <3>2, <3>3, <3>4 DEF Same
    <3> QED
      BY <1>2, <3>5 DEF v, w
  <2>2. CASE ~o.grow
    <3>1. v = [l EXCEPT ![o.idx] = c] /\ w = [m EXCEPT ![o.idx] = d] /\ o.idx \in 1..Len(l)
      BY <1>3, <2>2 DEF Apply, GoodOp
    <3> HIDE DEF v, w, c, d
    <3>2. /\ Len(v) = Len(l)
          /\ \A j \in 1..Len(l) : v[j] = IF j = o.idx THEN c ELSE l[j]
      BY <1>0, <2>0, <3>1, SeqReplace
    <3>3. /\ Len(w) = Len(m)
          /\ \A j \in 1..Len(m) : w[j] = IF j = o.idx THEN d ELSE m[j]
      BY <1>0, <2>0, <3>1, SeqReplace
    <3>4. Same(v, w)
      BY <1>0, <2>0, <3>2, <3>3 DEF Same
    <3> QED
      BY <1>2, <3>4 DEF v, w
  <2> QED
    BY <2>0, <2>1, <2>2
<1>4. CASE o.kind = "remove"
  <2>1. v = SwapRemove(l, o.idx) /\ w = SwapRemove(m, o.idx) /\ o.idx \in 1..Len(l)
    BY <1>4 DEF Apply, GoodOp
  <2> HIDE DEF v, w
  <2>2. /\ Len(v) = Len(l) - 1
        /\ \A j \in 1..(Len(l) - 1) : v[j] = IF j = o.idx THEN l[Len(l)] ELSE l[j]
    BY <2>1, SwapRemoveFacts, Zenon
  <2>3. /\ Len(w) = Len(m) - 1
        /\ \A j \in 1..(Len(m) - 1) : w[j] = IF j = o.idx THEN m[Len(m)] ELSE m[j]
    <3>1. m \in List /\ o.idx \in 1..Len(m)
      BY <1>0, <2>1
    <3> QED
      BY <2>1, <3>1, SwapRemoveFacts, Zenon
  <2>4. ASSUME NEW j \in 1..Len(v) PROVE Public(v[j]) = Public(w[j])
    <3>1. j \in 1..(Len(l) - 1) /\ j \in 1..Len(l) /\ Len(l) \in 1..Len(l)
      BY <1>0, <2>1, <2>2
    <3> QED
      BY <1>0, <2>2, <2>3, <3>1
  <2>5. Same(v, w)
    BY <1>0, <2>2, <2>3, <2>4 DEF Same
  <2> QED
    BY <1>2, <2>5 DEF v, w
<1>5. CASE o.kind = "remove_all"
  <2>1. v = <<>> /\ w = <<>>
    BY <1>5 DEF Apply
  <2>2. Same(v, w)
    BY <2>1, SeqEmpty DEF Same
  <2> QED
    BY <1>2, <2>2
<1>6. CASE o.kind = "remove_if"
  <2>1. v = RemoveIf(l, o.drop) /\ w = RemoveIf(m, o.drop)
    BY <1>6 DEF Apply
  <2> QED
    BY <1>2, <2>1, RemoveIfSame
<1> QED
  BY <1>3, <1>4, <1>5, <1>6 DEF GoodOp

\* Nor does the new generation depend on the side.
LEMMA AfterFacts ==
    ASSUME NEW o, NEW d \in ListData, GoodOp(o, d.chans), NEW s \in Sides
    PROVE  /\ After(o, d, s) \in ListData
           /\ UniqueIds(d.chans) => UniqueIds(After(o, d, s).chans)
           /\ \/ After(o, d, s).gen = Bump(d.gen)
              \/ After(o, d, s).gen = d.gen /\ After(o, d, s).chans = d.chans
<1>0. d.gen \in Nat /\ d.chans \in List /\ DOMAIN d.chans = 1..Len(d.chans)
  BY ListFacts DEF ListData
<1>1. Bump(d.gen) \in Nat
  BY <1>0, ConstantsAssumption DEF Bump
<1>2. Apply(o, d.chans, s) \in List /\ (UniqueIds(d.chans) => UniqueIds(Apply(o, d.chans, s)))
  BY <1>0, ApplyFacts
<1>3. ApplyGen(o, d) \in Nat
  BY <1>0, <1>1 DEF ApplyGen
<1>4. \/ ApplyGen(o, d) = Bump(d.gen)
      \/ ApplyGen(o, d) = d.gen /\ Apply(o, d.chans, s) = d.chans
  <2>1. CASE o.kind = "remove_if" /\ \A i \in DOMAIN d.chans : d.chans[i].id \notin o.drop
    <3>1. Apply(o, d.chans, s) = RemoveIf(d.chans, o.drop)
      BY <2>1, SMTT(60) DEF Apply
    <3> QED
      BY <1>0, <2>1, <3>1, RemoveIfFacts DEF ApplyGen
  <2> QED
    BY <2>1 DEF ApplyGen
<1> QED
  BY <1>2, <1>3, <1>4 DEF After, ListData

\* Both halves of an operation do the same: copies that agreed agree after it.
LEMMA AfterAgree ==
    ASSUME NEW o, NEW d \in ListData, NEW e \in ListData, Agree(d, e), GoodOp(o, d.chans),
           NEW s \in Sides, NEW t \in Sides
    PROVE  Agree(After(o, d, s), After(o, e, t)) /\ GoodOp(o, e.chans)
<1>0. /\ d.chans \in List /\ e.chans \in List /\ Same(d.chans, e.chans) /\ d.gen = e.gen
      /\ DOMAIN d.chans = 1..Len(d.chans) /\ DOMAIN e.chans = 1..Len(e.chans)
  BY ListFacts DEF ListData, Agree
<1>1. Same(Apply(o, d.chans, s), Apply(o, e.chans, t)) /\ GoodOp(o, e.chans)
  BY <1>0, ApplySame
<1>2. ApplyGen(o, d) = ApplyGen(o, e)
  BY <1>0, Zenon DEF ApplyGen, Same, Public
<1> QED
  BY <1>1, <1>2 DEF After, Agree

\* To agree is an equivalence.
LEMMA AgreeFacts ==
    /\ \A d, e : Agree(d, e) => Agree(e, d)
    /\ \A d, e, f : Agree(d, e) /\ Agree(e, f) => Agree(d, f)
    /\ \A d : Agree(d, d)
BY DEF Agree, Same

-----------------------------------------------------------------------------
(* The searches of the readers.                                            *)

\* find returns 0, or the index of a channel that fits.
LEMMA FindFacts ==
    ASSUME NEW l \in List, NEW id, NEW hint, NEW op
    PROVE  /\ Find(l, id, hint, op) = 0 => \A i \in 1..Len(l) : ~Fits(l, i, id, op)
           /\ Find(l, id, hint, op) # 0 => Fits(l, Find(l, id, hint, op), id, op)
<1> DEFINE T == {i \in 1..Len(l) : Fits(l, i, id, op)}
<1>0. Len(l) \in Nat /\ DOMAIN l = 1..Len(l)
  BY ListFacts
<1>1. CASE Fits(l, hint, id, op)
  <2>1. hint \in 1..Len(l) /\ hint # 0
    BY <1>0, <1>1 DEF Fits
  <2> QED
    BY <1>1, <2>1 DEF Find
<1>2. CASE ~Fits(l, hint, id, op) /\ T # {}
  <2>1. PICK i \in T : \A j \in T : i <= j
    <3>1. T \subseteq Nat
      BY <1>0
    <3> HIDE DEF T
    <3> QED
      BY <1>2, <3>1, LeastNat, Zenon
  <2> DEFINE P(x) == Fits(l, x, id, op) /\ \A j \in DOMAIN l : Fits(l, j, id, op) => x <= j
             x0 == CHOOSE x \in DOMAIN l : P(x)
  <2>2. \E x \in DOMAIN l : P(x)
    BY <1>0, <2>1
  <2>3. x0 \in DOMAIN l /\ P(x0)
    <3> HIDE DEF P
    <3> QED
      BY <2>2
  <2>4. Find(l, id, hint, op) = x0
    BY <1>0, <1>2 DEF Find
  <2> HIDE DEF x0
  <2> QED
    BY <1>0, <2>3, <2>4
<1>3. CASE ~Fits(l, hint, id, op) /\ T = {}
  BY <1>0, <1>3 DEF Find
<1> QED
  BY <1>1, <1>2, <1>3

\* In a list with distinct IDs a channel that fits is the one that is found.
LEMMA LookupFits ==
    ASSUME NEW l \in List, UniqueIds(l), NEW i, NEW id, NEW op, Fits(l, i, id, op)
    PROVE  Lookup(l, id, op) = [found |-> TRUE, key |-> l[i].key]
<1>0. DOMAIN l = 1..Len(l) /\ i \in 1..Len(l) /\ l[i].id = id
  BY ListFacts DEF Fits
<1> DEFINE j == Find(l, id, 0, op)
<1>1. j # 0 /\ Fits(l, j, id, op)
  BY <1>0, FindFacts
<1>2. j = i
  BY <1>0, <1>1 DEF UniqueIds, Fits
<1> QED
  BY <1>1, <1>2, Zenon DEF Lookup

\* A search that found nothing, whatever its hint, was for a channel that is
\* not in the list.
LEMMA LookupNone ==
    ASSUME NEW l \in List, NEW id, NEW hint, NEW op, Find(l, id, hint, op) = 0
    PROVE  Lookup(l, id, op) = None
<1> DEFINE j == Find(l, id, 0, op)
<1>0. DOMAIN l = 1..Len(l)
  BY ListFacts
<1>1. j = 0
  BY <1>0, FindFacts DEF Fits
<1> QED
  BY <1>1 DEF Lookup

\* A channel that fits has the same key at the same index of a copy that agrees.
LEMMA FitsSame ==
    ASSUME NEW l \in List, NEW m \in List, Same(l, m), NEW i, NEW id, NEW op, Fits(l, i, id, op)
    PROVE  Fits(m, i, id, op) /\ m[i].key = l[i].key
<1>0. DOMAIN l = 1..Len(l) /\ DOMAIN m = 1..Len(m) /\ Len(l) = Len(m) /\ i \in 1..Len(l)
  BY ListFacts DEF Same, Fits
<1>1. l[i].id = m[i].id /\ l[i].dir = m[i].dir /\ l[i].key = m[i].key
  BY <1>0, Zenon DEF Same, Public
<1> QED
  BY <1>0, <1>1 DEF Fits

\* Copies that agree give the same answers.
LEMMA LookupSame ==
    ASSUME NEW l \in List, NEW m \in List, Same(l, m), UniqueIds(l), UniqueIds(m), NEW id, NEW op
    PROVE  /\ \A i : Fits(l, i, id, op) => Fits(m, i, id, op) /\ m[i].key = l[i].key
           /\ Lookup(l, id, op) = Lookup(m, id, op)
<1>0. DOMAIN l = 1..Len(l) /\ DOMAIN m = 1..Len(m) /\ Len(l) = Len(m)
  BY ListFacts DEF Same
<1>1. \A i \in 1..Len(l) : l[i].id = m[i].id /\ l[i].dir = m[i].dir /\ l[i].key = m[i].key
  BY Zenon DEF Same, Public
<1>2. \A i : Fits(l, i, id, op) <=> Fits(m, i, id, op)
  BY <1>0, <1>1 DEF Fits
<1>3. CASE \E i : Fits(l, i, id, op)
  <2>1. PICK i : Fits(l, i, id, op)
    BY <1>3
  <2>2. Lookup(l, id, op) = [found |-> TRUE, key |-> l[i].key]
    BY <2>1, LookupFits
  <2>3. Lookup(m, id, op) = [found |-> TRUE, key |-> m[i].key]
    BY <1>2, <2>1, LookupFits
  <2>4. i \in 1..Len(l)
    BY <1>0, <2>1 DEF Fits
  <2> QED
    BY <1>0, <1>1, <1>2, <2>2, <2>3, <2>4, Zenon DEF Fits
<1>4. CASE ~\E i : Fits(l, i, id, op)
  <2>1. Find(l, id, 0, op) = 0 /\ Find(m, id, 0, op) = 0
    BY <1>2, <1>4, FindFacts
  <2> QED
    BY <1>4, <2>1, LookupNone
<1> QED
  BY <1>3, <1>4

-----------------------------------------------------------------------------

UsedEntries == [found : {TRUE}, id : Ids, key : Nat, keyId : Nat \X {"both", "A", "B"},
                gen : Nat, idx : Nat, seq : Nat]

Entries == UsedEntries \cup {None}

Calls == [kind : {"seal", "open", "any"}, id : Ids, side : Sides]

\* The IDs in a list are distinct: add looks for the ID first.
TypeOK ==
    /\ list \in [Sides -> ListData]
    /\ \A s \in Sides : UniqueIds(list[s].chans)
    /\ readOff \in Sides /\ writeOff \in Sides /\ otherOff \in Sides
    /\ wpc \in {"idle", "swap", "second", "store"}
    /\ ops \in Nat
    /\ rpc \in [Readers -> {"idle", "loaded", "lookup"}]
    /\ DOMAIN rop = Readers
    /\ \A r \in Readers : rpc[r] # "idle" => rop[r] \in Calls
    /\ \A r \in Readers : rpc[r] = "loaded" => rop[r].kind # "any"
    /\ sealCache \in [Readers -> Entries]
    /\ openCache \in [Readers -> Entries]

\* Between the halves of an operation one copy is what the operation makes of
\* the other.
WriterInv ==
    /\ wpc = "idle" => readOff # writeOff /\ Agree(list["A"], list["B"])
    /\ wpc = "swap" =>
           /\ readOff # writeOff
           /\ GoodOp(wop, list[readOff].chans)
           /\ Agree(list[writeOff], After(wop, list[readOff], readOff))
    /\ wpc = "second" =>
           /\ readOff = writeOff /\ otherOff # writeOff
           /\ GoodOp(wop, list[otherOff].chans)
           /\ Agree(list[writeOff], After(wop, list[otherOff], otherOff))
    /\ wpc = "store" =>
           /\ readOff = writeOff /\ otherOff # writeOff
           /\ Agree(list["A"], list["B"])

IInv == TypeOK /\ WriterInv

-----------------------------------------------------------------------------
\* A cache entry that is there has all its fields.
LEMMA EntryFields ==
    ASSUME NEW c \in Entries, c.found
    PROVE  /\ c \in UsedEntries /\ c.gen \in Nat /\ c.seq \in Nat /\ c.idx \in Nat
           /\ c.id \in Ids /\ c.key \in Nat
<1>1. c # None
  BY DEF None
<1>2. c \in UsedEntries
  BY <1>1 DEF Entries
<1> QED
  BY <1>2, Zenon DEF UsedEntries

\* seal changes the sequence number of an entry and nothing else of it.
LEMMA EntryCount ==
    ASSUME NEW c \in UsedEntries, NEW n \in Nat
    PROVE  LET e == [c EXCEPT !.seq = n]
           IN  /\ e \in UsedEntries /\ e.found = c.found
               /\ e.id = c.id /\ e.key = c.key /\ e.gen = c.gen /\ e.idx = c.idx
<1> DEFINE e == [c EXCEPT !.seq = n]
<1>1. /\ e.found = c.found /\ e.id = c.id /\ e.key = c.key /\ e.gen = c.gen /\ e.idx = c.idx
      /\ e.keyId = c.keyId
  BY DEF UsedEntries
<1>2. e \in UsedEntries
  BY Zenon DEF UsedEntries
<1> QED
  BY <1>1, <1>2

(* The writer.                                                             *)

\* Shared memory starts with two empty lists.
LEMMA InitInv == Init => IInv
<1> SUFFICES ASSUME Init PROVE IInv
  OBVIOUS
<1>1. <<>> \in List /\ Len(<<>>) = 0
  BY SeqEmpty DEF List
<1>2. list \in [Sides -> ListData] /\ \A s \in Sides : list[s] = [gen |-> 0, chans |-> <<>>]
  BY <1>1 DEF Init, ListData
<1>3. \A s \in Sides : UniqueIds(list[s].chans)
  BY <1>1, <1>2 DEF UniqueIds
<1>4. Agree(list["A"], list["B"])
  BY <1>2, AgreeFacts DEF Sides
<1>5. TypeOK
  BY <1>2, <1>3 DEF Init, TypeOK, Sides, Entries, Idle
<1>6. WriterInv
  BY <1>4 DEF Init, WriterInv
<1> QED
  BY <1>5, <1>6 DEF IInv

\* Every call of the writer begins with an operation that fits the copy at
\* write_off.
LEMMA OperationsFit ==
    ASSUME IInv,
           \/ \E id \in Ids : (\E dir \in Directions : Add(id, dir)) \/ Remove(id)
           \/ RemoveAll
           \/ \E drop \in SUBSET Ids : RemoveWhere(drop)
    PROVE  WriterReady /\ \E o : GoodOp(o, WriteList) /\ First(o)
<1>0. WriteList \in List /\ DOMAIN WriteList = 1..Len(WriteList) /\ ops \in Nat
  BY ListFacts, SMTT(60) DEF IInv, TypeOK, ListData, WriteList
<1>1. ASSUME NEW id \in Ids
      PROVE  /\ Existing(id) = 0 => \A i \in 1..Len(WriteList) : WriteList[i].id # id
             /\ Existing(id) # 0 => /\ Existing(id) \in 1..Len(WriteList)
                                    /\ WriteList[Existing(id)].id = id
  BY <1>0, FindFacts, SMTT(60) DEF Existing, Fits, Matches
<1>2. ASSUME NEW id \in Ids, NEW dir \in Directions, Add(id, dir)
      PROVE  WriterReady /\ \E o : GoodOp(o, WriteList) /\ First(o)
  <2> DEFINE i == Existing(id)
             o == [kind |-> "add", id |-> id, dir |-> dir, key |-> ops + 1,
                   grow |-> i = 0, idx |-> IF i = 0 THEN Len(WriteList) + 1 ELSE i]
  <2>1. WriterReady /\ First(o)
    BY <1>2 DEF Add
  <2>2. /\ o.kind = "add" /\ o.id = id /\ o.dir = dir /\ o.key = ops + 1
        /\ i = 0 => o.grow = TRUE
        /\ i # 0 => o.grow = FALSE /\ o.idx = i
    BY Zenon
  <2>3. /\ i = 0 => \A k \in 1..Len(WriteList) : WriteList[k].id # id
        /\ i # 0 => i \in 1..Len(WriteList) /\ WriteList[i].id = id
    BY <1>1
  <2>4. GoodOp(o, WriteList)
    <3> HIDE DEF o, i
    <3>1. o.id \in Ids /\ o.dir \in Directions /\ o.key \in Nat
      BY <1>0, <2>2
    <3>2. CASE i = 0
      BY <2>2, <2>3, <3>1, <3>2, Zenon DEF GoodOp
    <3>3. CASE i # 0
      BY <2>2, <2>3, <3>1, <3>3, Zenon DEF GoodOp
    <3> QED
      BY <3>2, <3>3
  <2> QED
    BY <2>1, <2>4, SMTT(60)
<1>3. ASSUME NEW id \in Ids, Remove(id)
      PROVE  WriterReady /\ \E o : GoodOp(o, WriteList) /\ First(o)
  <2>1. WriterReady /\ Existing(id) # 0 /\ First([kind |-> "remove", idx |-> Existing(id)])
    BY <1>3 DEF Remove
  <2>2. GoodOp([kind |-> "remove", idx |-> Existing(id)], WriteList)
    BY <1>1, <2>1 DEF GoodOp
  <2> QED
    BY <2>1, <2>2
<1>4. ASSUME RemoveAll
      PROVE  WriterReady /\ \E o : GoodOp(o, WriteList) /\ First(o)
  <2>1. WriterReady /\ First([kind |-> "remove_all"])
    BY <1>4 DEF RemoveAll
  <2>2. GoodOp([kind |-> "remove_all"], WriteList)
    BY DEF GoodOp
  <2> QED
    BY <2>1, <2>2
<1>5. ASSUME NEW drop \in SUBSET Ids, RemoveWhere(drop)
      PROVE  WriterReady /\ \E o : GoodOp(o, WriteList) /\ First(o)
  <2>1. WriterReady /\ First([kind |-> "remove_if", drop |-> drop])
    BY <1>5 DEF RemoveWhere
  <2>2. GoodOp([kind |-> "remove_if", drop |-> drop], WriteList)
    BY DEF GoodOp
  <2> QED
    BY <2>1, <2>2
<1> QED
  BY <1>2, <1>3, <1>4, <1>5

\* A half of an operation replaces one copy.
LEMMA ChangedFacts ==
    ASSUME IInv, NEW o, NEW s \in Sides, GoodOp(o, list[s].chans), list' = Changed(o, s)
    PROVE  /\ list' \in [Sides -> ListData]
           /\ list'[s] = After(o, list[s], s)
           /\ \A t \in Sides : t # s => list'[t] = list[t]
           /\ \A t \in Sides : UniqueIds(list'[t].chans)
<1>0. list \in [Sides -> ListData] /\ \A t \in Sides : UniqueIds(list[t].chans)
  BY DEF IInv, TypeOK
<1>1. list' = [list EXCEPT ![s] = After(o, list[s], s)]
  BY <1>0 DEF Changed, After
<1>2. After(o, list[s], s) \in ListData /\ UniqueIds(After(o, list[s], s).chans)
  BY <1>0, AfterFacts
<1> QED
  BY <1>0, <1>1, <1>2

\* The first half makes the copy at write_off the newer one.
LEMMA FirstInv ==
    ASSUME IInv, WriterReady, NEW o, GoodOp(o, WriteList), First(o)
    PROVE  IInv'
<1>0. /\ wpc = "idle" /\ readOff \in Sides /\ writeOff \in Sides /\ readOff # writeOff
      /\ Agree(list["A"], list["B"]) /\ list \in [Sides -> ListData]
  BY DEF WriterReady, IInv, TypeOK, WriterInv
<1>1. /\ list' \in [Sides -> ListData]
      /\ list'[writeOff] = After(o, list[writeOff], writeOff)
      /\ list'[readOff] = list[readOff]
      /\ \A t \in Sides : UniqueIds(list'[t].chans)
  BY <1>0, ChangedFacts DEF First, WriteList
<1>2. /\ wop' = o /\ wpc' = "swap" /\ ops' = ops + 1
      /\ UNCHANGED <<readOff, writeOff, otherOff, rpc, rop, sealCache, openCache>>
  BY DEF First, reader
<1>3. Agree(list[writeOff], list[readOff])
  BY <1>0, AgreeFacts DEF Sides
<1>4. /\ Agree(After(o, list[writeOff], writeOff), After(o, list[readOff], readOff))
      /\ GoodOp(o, list[readOff].chans)
  BY <1>0, <1>3, AfterAgree, SMTT(60) DEF WriteList
<1>5. TypeOK'
  BY <1>1, <1>2 DEF IInv, TypeOK
<1>6. WriterInv'
  BY <1>0, <1>1, <1>2, <1>4 DEF WriterInv
<1> QED
  BY <1>5, <1>6, SMTT(60) DEF IInv

\* swap_offsets sends readers to the newer copy.
LEMMA SwapOffsetsInv == ASSUME IInv, SwapOffsets PROVE IInv'
<1>1. /\ wpc = "swap" /\ wpc' = "second" /\ readOff' = writeOff /\ otherOff' = readOff
      /\ UNCHANGED <<list, writeOff, wop, ops, rpc, rop, sealCache, openCache>>
  BY DEF SwapOffsets, OffsetBeforeSwap, reader
<1>2. TypeOK'
  BY <1>1 DEF IInv, TypeOK
<1>3. WriterInv'
  BY <1>1, ZenonT(60) DEF IInv, WriterInv
<1> QED
  BY <1>2, <1>3 DEF IInv

\* The second half does the same to the older copy.
LEMMA SecondInv == ASSUME IInv, Second PROVE IInv'
<1>0. /\ wpc = "second" /\ wpc' = "store" /\ otherOff \in Sides /\ writeOff \in Sides
      /\ readOff = writeOff /\ otherOff # writeOff
      /\ GoodOp(wop, list[otherOff].chans)
      /\ Agree(list[writeOff], After(wop, list[otherOff], otherOff))
      /\ UNCHANGED <<readOff, writeOff, otherOff, wop, ops, rpc, rop, sealCache, openCache>>
  BY DEF Second, IInv, TypeOK, WriterInv, reader
<1>1. /\ list' \in [Sides -> ListData]
      /\ list'[otherOff] = After(wop, list[otherOff], otherOff)
      /\ list'[writeOff] = list[writeOff]
      /\ \A t \in Sides : UniqueIds(list'[t].chans)
  BY <1>0, ChangedFacts DEF Second
<1>2. Agree(list'["A"], list'["B"])
  BY <1>0, <1>1, AgreeFacts, SMTT(60) DEF Sides
<1>3. TypeOK'
  BY <1>0, <1>1, ZenonT(60) DEF IInv, TypeOK
<1>4. WriterInv'
  BY <1>0, <1>2 DEF WriterInv
<1> QED
  BY <1>3, <1>4 DEF IInv

\* The next operation begins with the copy that readers have left.
LEMMA StoreWriteOffInv == ASSUME IInv, StoreWriteOff PROVE IInv'
<1>1. /\ wpc = "store" /\ wpc' = "idle" /\ writeOff' = otherOff
      /\ UNCHANGED <<list, readOff, otherOff, ops, rpc, rop, sealCache, openCache>>
  BY DEF StoreWriteOff, NextWriteOff, reader
<1>2. TypeOK'
  BY <1>1 DEF IInv, TypeOK
<1>3. WriterInv'
  BY <1>1, SMTT(60) DEF IInv, WriterInv
<1> QED
  BY <1>2, <1>3 DEF IInv

-----------------------------------------------------------------------------
(* The readers.  They change no more of a list than sequence numbers.      *)

Quiet ==
    /\ UNCHANGED <<readOff, writeOff, writer>>
    /\ list' \in [Sides -> ListData]
    /\ \A s \in Sides : Agree(list[s], list'[s]) /\ UniqueIds(list'[s].chans)

\* Such a step keeps the relation between the copies.
LEMMA QuietWriter == ASSUME IInv, Quiet PROVE WriterInv'
<1>0. /\ list \in [Sides -> ListData] /\ list' \in [Sides -> ListData]
      /\ \A s \in Sides : Agree(list[s], list'[s]) /\ Agree(list'[s], list[s])
      /\ UNCHANGED <<readOff, writeOff, wpc, wop, otherOff, ops>>
      /\ readOff \in Sides /\ writeOff \in Sides /\ otherOff \in Sides
  BY AgreeFacts DEF IInv, TypeOK, Quiet, writer
<1>1. Agree(list["A"], list["B"]) => Agree(list'["A"], list'["B"])
  BY <1>0, AgreeFacts, ZenonT(60) DEF Sides
<1>2. ASSUME NEW s \in Sides, GoodOp(wop, list[s].chans),
             Agree(list[writeOff], After(wop, list[s], s))
      PROVE  GoodOp(wop, list'[s].chans) /\ Agree(list'[writeOff], After(wop, list'[s], s))
  <2>1. Agree(After(wop, list[s], s), After(wop, list'[s], s)) /\ GoodOp(wop, list'[s].chans)
    BY <1>0, <1>2, AfterAgree
  <2>2. Agree(list'[writeOff], After(wop, list'[s], s))
    BY <1>0, <1>2, <2>1, AgreeFacts
  <2> QED
    BY <2>1, <2>2
<1> QED
  BY <1>0, <1>1, <1>2, ZenonT(60) DEF IInv, WriterInv

\* A step that leaves the lists alone is quiet.
LEMMA UnchangedQuiet == ASSUME IInv, UNCHANGED <<shm, writer>> PROVE Quiet
BY AgreeFacts DEF shm, IInv, TypeOK, Quiet

\* Finish ends the call of r.
LEMMA FinishTypes ==
    ASSUME IInv, NEW r \in Readers, NEW a, Finish(r, a)
    PROVE  /\ rpc' \in [Readers -> {"idle", "loaded", "lookup"}]
           /\ rpc'[r] = "idle" /\ DOMAIN rop' = Readers
           /\ \A q \in Readers : q # r => rpc'[q] = rpc[q] /\ rop'[q] = rop[q]
BY DEF IInv, TypeOK, Finish

\* A call begins.
LEMMA StartInv ==
    ASSUME IInv, NEW r \in Readers, NEW kind \in {"seal", "open", "any"}, NEW id \in Ids,
           Start(r, kind, id)
    PROVE  IInv'
<1>1. WriterInv'
  BY UnchangedQuiet, QuietWriter, ZenonT(60) DEF Start
<1>2. TypeOK'
  <2>1. rop'[r] \in Calls /\ (rpc'[r] = "loaded" => rop'[r].kind # "any")
    BY Zenon DEF Start, IInv, TypeOK, Calls
  <2> QED
    BY <2>1, ZenonT(60) DEF Start, IInv, TypeOK, shm, writer
<1> QED
  BY <1>1, <1>2 DEF IInv

\* The key in the cache is used.
LEMMA CacheHitInv == ASSUME IInv, NEW r \in Readers, CacheHit(r) PROVE IInv'
<1>1. WriterInv'
  BY UnchangedQuiet, QuietWriter DEF CacheHit
<1>2. sealCache' \in [Readers -> Entries]
  <2>1. CASE rop[r].kind = "seal" /\ sealCache' = [sealCache EXCEPT ![r].seq = @ + 1]
    <3>1. sealCache[r] \in Entries /\ sealCache[r].found
      BY <2>1 DEF CacheHit, CachedId, Cache, IInv, TypeOK
    <3>2. [sealCache[r] EXCEPT !.seq = @ + 1] \in Entries
      <4> DEFINE c == sealCache[r]
      <4>1. c \in UsedEntries /\ c.seq \in Nat
        BY <3>1, EntryFields
      <4> HIDE DEF c
      <4>2. [c EXCEPT !.seq = c.seq + 1] \in UsedEntries
        BY <4>1, EntryCount
      <4> QED
        BY <4>2 DEF Entries, c
    <3> QED
      BY <2>1, <3>2 DEF IInv, TypeOK
  <2>2. CASE UNCHANGED sealCache
    BY <2>2 DEF IInv, TypeOK
  <2> QED
    BY <2>1, <2>2 DEF CacheHit
<1>3. TypeOK'
  BY <1>2, FinishTypes DEF CacheHit, IInv, TypeOK, shm, writer
<1> QED
  BY <1>1, <1>3 DEF IInv

\* The cache is of no use, so the list is locked.
LEMMA CacheMissInv == ASSUME IInv, NEW r \in Readers, CacheMiss(r) PROVE IInv'
<1>1. WriterInv'
  BY UnchangedQuiet, QuietWriter, ZenonT(60) DEF CacheMiss
<1>2. TypeOK'
  BY DEF CacheMiss, IInv, TypeOK, shm, writer
<1> QED
  BY <1>1, <1>2 DEF IInv

\* A search that ends without an entry for the cache.
LEMMA LookupOnlyInv ==
    ASSUME IInv, NEW r \in Readers, NotFound(r) \/ FoundOnly(r)
    PROVE  IInv'
<1>1. UNCHANGED <<shm, writer, sealCache, openCache>> /\ \E a : Finish(r, a)
  BY DEF NotFound, FoundOnly
<1>2. WriterInv'
  BY <1>1, UnchangedQuiet, QuietWriter, ZenonT(60)
<1>3. /\ rpc' \in [Readers -> {"idle", "loaded", "lookup"}]
      /\ rpc'[r] = "idle" /\ DOMAIN rop' = Readers
      /\ \A q \in Readers : q # r => rpc'[q] = rpc[q] /\ rop'[q] = rop[q]
  BY <1>1, FinishTypes, Zenon
<1>4. TypeOK'
  BY <1>1, <1>3, ZenonT(60) DEF IInv, TypeOK, shm, writer
<1> QED
  BY <1>2, <1>4 DEF IInv

\* What the search of r finds is a channel that fits its call.
LEMMA LocatedFacts ==
    ASSUME IInv, NEW r \in Readers, rpc[r] = "lookup", Located(r) # 0
    PROVE  /\ Fits(list[rop[r].side].chans, Located(r), rop[r].id, rop[r].kind)
           /\ Located(r) \in 1..Len(list[rop[r].side].chans)
           /\ list[rop[r].side].chans[Located(r)] \in Chan
           /\ \A used \in Nat : Entry(r, Located(r), used) \in Entries
<1>0. rop[r] \in Calls /\ list[rop[r].side] \in ListData /\ rop[r].id \in Ids
  BY ZenonT(60) DEF IInv, TypeOK, Calls
<1> DEFINE l == list[rop[r].side].chans
           i == Located(r)
<1>1. l \in List /\ DOMAIN l = 1..Len(l) /\ Len(l) \in Nat /\ list[rop[r].side].gen \in Nat
  BY <1>0, ListFacts, ZenonT(60) DEF ListData
<1>2. Fits(l, i, rop[r].id, rop[r].kind)
  BY <1>1, FindFacts, ZenonT(60) DEF Located
<1>3. i \in 1..Len(l) /\ l[i] \in Chan /\ i \in Nat
  <2> HIDE DEF l, i
  <2>1. i \in 1..Len(l)
    BY <1>1, <1>2, SMTT(60) DEF Fits
  <2> QED
    BY <1>1, <2>1, ListFacts
<1>4. ASSUME NEW used \in Nat PROVE Entry(r, i, used) \in Entries
  <2> DEFINE c == l[i]
             g == list[rop[r].side].gen
             id == rop[r].id
  <2>1. c.key \in Nat /\ c.keyId \in Nat \X {"both", "A", "B"} /\ c.seq \in Nat
    BY <1>3, ZenonT(60) DEF Chan
  <2>2. Entry(r, i, used) = [found |-> TRUE, id |-> id, key |-> c.key, keyId |-> c.keyId,
                             gen |-> g, idx |-> i, seq |-> c.seq + used]
    BY ZenonT(60) DEF Entry
  <2>3. id \in Ids /\ g \in Nat /\ i \in Nat
    BY <1>0, <1>1, <1>3
  <2> HIDE DEF i, c, g, id
  <2>4. c.seq + used \in Nat
    BY <2>1, SMTT(60)
  <2>5. Entry(r, i, used) \in UsedEntries
    BY <2>1, <2>2, <2>3, <2>4, SMTT(60) DEF UsedEntries
  <2> QED
    BY <2>5, ZenonT(60) DEF Entries
<1> QED
  BY <1>2, <1>3, <1>4, ZenonT(60)

\* open found the key.
LEMMA FoundOpenInv == ASSUME IInv, NEW r \in Readers, FoundOpen(r) PROVE IInv'
<1>1. WriterInv'
  BY UnchangedQuiet, QuietWriter, ZenonT(60) DEF FoundOpen
<1>2. openCache' \in [Readers -> Entries]
  BY LocatedFacts, ZenonT(60) DEF FoundOpen, IInv, TypeOK
<1>3. TypeOK'
  BY <1>2, FinishTypes, ZenonT(60) DEF FoundOpen, IInv, TypeOK, shm, writer
<1> QED
  BY <1>1, <1>3 DEF IInv

\* set_seq changes the sequence number of one channel.
LEMMA FoundSealQuiet == ASSUME IInv, NEW r \in Readers, FoundSeal(r) PROVE Quiet
<1>0. /\ rop[r] \in Calls /\ rop[r].side \in Sides /\ sealCache[r] \in Entries
      /\ list \in [Sides -> ListData] /\ \A s \in Sides : UniqueIds(list[s].chans)
  BY ZenonT(60) DEF FoundSeal, IInv, TypeOK, Calls
<1>1. CASE UNCHANGED list
  BY <1>0, <1>1, AgreeFacts, ZenonT(60) DEF FoundSeal, Quiet
<1>2. CASE /\ WriteBack(r) # 0
           /\ list' = [list EXCEPT ![rop[r].side].chans[WriteBack(r)].seq = sealCache[r].seq]
  <2> DEFINE s == rop[r].side
             d == list[s]
             l == d.chans
             j == WriteBack(r)
             c == [l[j] EXCEPT !.seq = sealCache[r].seq]
             m == [l EXCEPT ![j] = c]
  <2>1. d \in ListData /\ l \in List /\ l \in Seq(Chan) /\ DOMAIN l = 1..Len(l)
    <3>1. d \in ListData /\ l \in List
      BY <1>0 DEF ListData
    <3> HIDE DEF l, d
    <3> QED
      BY <3>1, ListFacts DEF List
  <2>2. sealCache[r].found /\ j = Find(l, sealCache[r].id, sealCache[r].idx, "seal") /\ j # 0
    BY <1>2, Zenon DEF WriteBack
  <2>3. j \in 1..Len(l)
    <3> HIDE DEF l, j
    <3>1. Fits(l, j, sealCache[r].id, "seal")
      BY <2>1, <2>2, FindFacts, SMTT(60)
    <3> QED
      BY <2>1, <3>1 DEF Fits
  <2>4. l[j] \in Chan /\ sealCache[r].seq \in Nat
    <3> HIDE DEF l, j
    <3> QED
      BY <1>0, <2>1, <2>2, <2>3, ListFacts, EntryFields
  <2>5. c \in Chan /\ Public(c) = Public(l[j]) /\ c.id = l[j].id
    <3> HIDE DEF j, l
    <3> QED
      BY <2>4, SMTT(60) DEF Chan, Public
  <2>6. list' = [list EXCEPT ![s] = [d EXCEPT !.chans = m]]
    BY <1>2, SMTT(60)
  <2> HIDE DEF j, l, c
  <2>7. /\ m \in Seq(Chan) /\ Len(m) = Len(l)
        /\ \A k \in 1..Len(l) : m[k] = IF k = j THEN c ELSE l[k]
    BY <2>1, <2>3, <2>5, SeqReplace
  <2>8. Same(l, m)
    BY <2>5, <2>7 DEF Same
  <2>9. UniqueIds(m)
    <3>1. UniqueIds(l)
      BY <1>0 DEF l
    <3>2. \A k \in 1..Len(l) : m[k].id = l[k].id
      BY <2>5, <2>7
    <3> HIDE DEF m
    <3> QED
      BY <2>7, <3>1, <3>2, SMTT(60) DEF UniqueIds
  <2> DEFINE e == [d EXCEPT !.chans = m]
  <2> HIDE DEF m
  <2>10. e \in ListData /\ e.gen = d.gen /\ e.chans = m
    BY <2>1, <2>7 DEF ListData, List
  <2>11. Agree(d, e) /\ UniqueIds(e.chans)
    BY <2>8, <2>9, <2>10 DEF Agree, l
  <2> HIDE DEF e, d
  <2>12. /\ list' \in [Sides -> ListData] /\ list'[s] = e
         /\ \A t \in Sides : t # s => list'[t] = list[t]
    BY <1>0, <2>6, <2>10, SMTT(60) DEF e
  <2>13. \A t \in Sides : Agree(list[t], list'[t]) /\ UniqueIds(list'[t].chans)
    BY <1>0, <2>11, <2>12, AgreeFacts DEF d
  <2> QED
    BY <2>12, <2>13 DEF FoundSeal, Quiet
<1> QED
  BY <1>1, <1>2, ZenonT(60) DEF FoundSeal

\* seal found the key, and wrote the sequence number of the old entry back.
LEMMA FoundSealInv == ASSUME IInv, NEW r \in Readers, FoundSeal(r) PROVE IInv'
<1>0. Quiet
  BY FoundSealQuiet
<1>1. WriterInv'
  BY <1>0, QuietWriter, ZenonT(60)
<1>2. sealCache' \in [Readers -> Entries]
  BY LocatedFacts, ZenonT(60) DEF FoundSeal, IInv, TypeOK
<1>3. TypeOK'
  BY <1>0, <1>2, FinishTypes DEF FoundSeal, Quiet, IInv, TypeOK, writer
<1> QED
  BY <1>1, <1>3 DEF IInv

\* Every step keeps the invariant.
LEMMA NextInv == IInv /\ [Next]_vars => IInv'
<1> SUFFICES ASSUME IInv, [Next]_vars PROVE IInv'
  BY ZenonT(60)
<1>1. CASE UNCHANGED vars
  BY <1>1 DEF vars, shm, writer, reader, IInv, TypeOK, WriterInv
<1>2. CASE \/ \E id \in Ids : (\E dir \in Directions : Add(id, dir)) \/ Remove(id)
           \/ RemoveAll
           \/ \E drop \in SUBSET Ids : RemoveWhere(drop)
  BY <1>2, OperationsFit, FirstInv
<1>3. CASE SwapOffsets \/ Second \/ StoreWriteOff
  BY <1>3, SwapOffsetsInv, SecondInv, StoreWriteOffInv
<1>4. ASSUME NEW r \in Readers,
             \/ \E kind \in {"seal", "open", "any"}, id \in Ids : Start(r, kind, id)
             \/ CacheHit(r) \/ CacheMiss(r) \/ NotFound(r)
             \/ FoundOnly(r) \/ FoundOpen(r) \/ FoundSeal(r)
      PROVE  IInv'
  BY <1>4, StartInv, CacheHitInv, CacheMissInv, LookupOnlyInv, FoundOpenInv, FoundSealInv
<1> QED
  BY <1>1, <1>2, <1>3, <1>4 DEF Next, Terminating

-----------------------------------------------------------------------------
\* The invariant holds in every reachable state.
THEOREM Invariance == Spec => []IInv
BY InitInv, NextInv, PTL DEF Spec

\* Between two operations of the writer the copies hold the same channels in
\* the same order, with the same generation, even when generations wrap.
THEOREM SidesAgreeHolds == Spec => []SidesAgree
<1>1. ASSUME IInv PROVE SidesAgree
  <2>1. list["A"].chans \in List /\ list["B"].chans \in List
    BY <1>1 DEF IInv, TypeOK, ListData, Sides
  <2> QED
    BY <1>1, <2>1, ListFacts, ZenonT(60) DEF IInv, WriterInv, SidesAgree, Agree, Same, PublicList
<1> QED
  BY <1>1, Invariance, PTL
=============================================================================
