---------------------------- MODULE ConfigProofs ----------------------------
(***************************************************************************)
(* Proofs about Trie, Router and Config, for any rules, names and flows.   *)
(* What a recursive function has at every index is shown by the least      *)
(* index where it would not (Least, Stepwise).                             *)
(***************************************************************************)
EXTENDS Config, Integers, WellFoundedInduction, TLAPS

Less == {p \in Nat \X Nat : p[1] < p[2]}

(* A set of numbers has a least one; whatever all numbers up to n have, if *)
(* they have it one after the other.                                       *)
LEMMA Least == ASSUME NEW T \in SUBSET Nat, T # {} PROVE \E x \in T : \A y \in T : x <= y
<1>1. IsWellFoundedOn(Less, Nat)
  BY NatLessThanWellFounded DEF OpToRel, Less
<1>2. PICK x \in T : \A y \in T : ~ (<<y, x>> \in Less)
  BY <1>1, WFMin
<1>3. \A y \in Nat : y < x => <<y, x>> \in Less
  BY DEF Less
<1>4. ASSUME NEW y \in T PROVE x <= y
  <2>1. y \in Nat /\ x \in Nat
    OBVIOUS
  <2>2. ~ (y < x)
    BY <1>2, <1>3, <2>1, Zenon
  <2> QED BY <2>1, <2>2
<1> QED BY <1>4

(* What 0 has, and each number up to n if the one before it has it, all of *)
(* them have: recursive functions are followed with this.                  *)
LEMMA Stepwise ==
  ASSUME NEW n \in Nat, NEW S, 0 \in S, \A i \in 1 .. n : i - 1 \in S => i \in S
  PROVE  \A i \in 0 .. n : i \in S
<1> DEFINE T == {i \in 0 .. n : i \notin S}
<1> SUFFICES ASSUME T # {} PROVE FALSE
  OBVIOUS
<1>0. T \in SUBSET Nat
  OBVIOUS
<1>1. PICK x \in T : \A y \in T : x <= y
  <2> HIDE DEF T
  <2> QED BY <1>0, Least
<1>2. x \in 1 .. n /\ x - 1 \notin T /\ x - 1 \in 0 .. n
  BY <1>1
<1> QED BY <1>1, <1>2

-----------------------------------------------------------------------------
(* The search, label by label.                                             *)
LEMMA ReachedSteps ==
  ASSUME NEW t, NEW s, Len(s) \in Nat
  PROVE  /\ Reached(t, s)[0] = Root
         /\ \A i \in 1 .. Len(s) :
              Reached(t, s)[i] = Descend(t, Reached(t, s)[i - 1], Reverse(s)[i])
<1> DEFINE n == Len(s)
           Up(f, k) == f = [i \in 0 .. k |-> IF i = 0 THEN Root
                                             ELSE Descend(t, f[i - 1], Reverse(s)[i])]
           S == {k \in 0 .. n : \E f : Up(f, k)}
<1>1. 0 \in S
  <2>1. Up([i \in 0 .. 0 |-> Root], 0)
    OBVIOUS
  <2>2. 0 \in 0 .. n
    OBVIOUS
  <2> HIDE DEF Up
  <2> QED BY <2>1, <2>2
<1>2. ASSUME NEW k \in 1 .. n, k - 1 \in S PROVE k \in S
  <2>1. PICK f : Up(f, k - 1)
    BY <1>2
  <2> DEFINE g == [i \in 0 .. k |-> IF i = k THEN Descend(t, f[k - 1], Reverse(s)[k])
                                    ELSE f[i]]
  <2>2. \A i \in 0 .. k - 1 : g[i] = f[i]
    OBVIOUS
  <2>3. ASSUME NEW i \in 0 .. k
        PROVE  g[i] = IF i = 0 THEN Root ELSE Descend(t, g[i - 1], Reverse(s)[i])
    <3>1. CASE i = k
      BY <2>2, <3>1
    <3>2. CASE i # k /\ i # 0
      <4>1. i \in 0 .. k - 1 /\ i - 1 \in 0 .. k - 1
        BY <3>2
      <4>2. f[i] = Descend(t, f[i - 1], Reverse(s)[i])
        BY <2>1, <3>2, <4>1
      <4> QED BY <2>2, <3>2, <4>1, <4>2
    <3>3. CASE i = 0
      BY <2>1, <2>2, <3>3
    <3> QED BY <3>1, <3>2, <3>3
  <2> HIDE DEF g
  <2>4. g = [i \in 0 .. k |-> g[i]]
    BY DEF g
  <2>5. Up(g, k)
    BY <2>3, <2>4
  <2> HIDE DEF Up
  <2> QED BY <2>5
<1>3. n \in S
  <2>1. n \in Nat /\ n \in 0 .. n
    OBVIOUS
  <2> HIDE DEF S, n
  <2>2. \A i \in 0 .. n : i \in S
    BY <1>1, <1>2, <2>1, Stepwise
  <2> QED BY <2>1, <2>2
<1>4. Up(Reached(t, s), n)
  <2>1. \E f : Up(f, n)
    BY <1>3
  <2>2. Reached(t, s) = CHOOSE f : Up(f, n)
    BY DEF Reached
  <2> HIDE DEF Up
  <2> QED BY <2>1, <2>2
<1> QED BY <1>4

(* The cases of a label: down by it, down by the wildcard, passed over.    *)
LEMMA StaysInside ==
  ASSUME NEW t, NEW c, NEW l, NEW d, d = Descend(t, c, l), c.node \in DOMAIN t
  PROVE  d.node \in DOMAIN t
BY DEF Descend, Has

LEMMA GoesDown ==
  ASSUME NEW t, NEW c, NEW l, NEW d, d = Descend(t, c, l), Append(c.node, l) \in DOMAIN t
  PROVE  d = [node |-> Append(c.node, l), wild |-> FALSE]
BY DEF Descend, Has

LEMMA GoesWild ==
  ASSUME NEW t, NEW c, NEW l, NEW d, d = Descend(t, c, l), Append(c.node, l) \notin DOMAIN t,
         Append(c.node, Wild) \in DOMAIN t
  PROVE  d = [node |-> Append(c.node, Wild), wild |-> TRUE]
BY DEF Descend, Has

LEMMA StaysThere ==
  ASSUME NEW t, NEW c, NEW l, NEW d, d = Descend(t, c, l), Append(c.node, l) \notin DOMAIN t,
         Append(c.node, Wild) \notin DOMAIN t
  PROVE  d = c
BY DEF Descend, Has

(* All nodes the search comes to are the trie's.                           *)
LEMMA ReachedNodes ==
  ASSUME NEW t, NEW s, Len(s) \in Nat, << >> \in DOMAIN t
  PROVE  \A i \in 0 .. Len(s) : Reached(t, s)[i].node \in DOMAIN t
<1> DEFINE f == Reached(t, s)
           n == Len(s)
           S == {i \in 0 .. n : f[i].node \in DOMAIN t}
<1>1. f[0] = Root /\ \A i \in 1 .. n : f[i] = Descend(t, f[i - 1], Reverse(s)[i])
  BY ReachedSteps
<1>2. n \in Nat
  OBVIOUS
<1> HIDE DEF f, n
<1>3. 0 \in S
  BY <1>1, <1>2 DEF Root
<1>4. ASSUME NEW i \in 1 .. n, i - 1 \in S PROVE i \in S
  <2>1. i \in 0 .. n /\ f[i - 1].node \in DOMAIN t /\ f[i] = Descend(t, f[i - 1], Reverse(s)[i])
    BY <1>1, <1>2, <1>4
  <2>3. f[i].node \in DOMAIN t
    BY <2>1, StaysInside
  <2> QED BY <2>1, <2>3
<1>5. \A i \in 0 .. n : i \in S
  <2> HIDE DEF S
  <2> QED BY <1>2, <1>3, <1>4, Stepwise
<1> QED BY <1>5 DEF f, n

(* What the search finds is the data of a node, or nothing.                *)
LEMMA SearchFinds ==
  ASSUME NEW t, NEW s, Len(s) \in Nat \ {0}, << >> \in DOMAIN t
  PROVE  Search(t, s) = Nil \/ \E x \in DOMAIN t : Search(t, s) = t[x]
<1>1. Reached(t, s)[Len(s)].node \in DOMAIN t
  BY ReachedNodes
<1> QED BY <1>1 DEF Search, Has

-----------------------------------------------------------------------------
(* What a trie of the patterns P is.                                       *)
Holds(t, P) ==
  /\ << >> \in DOMAIN t
  /\ \A x \in DOMAIN t : x = << >> \/ \E p \in P : x \in Prefixes(Reverse(p))
  /\ \A p \in P : Prefixes(Reverse(p)) \subseteq DOMAIN t /\ t[Reverse(p)] # Nil
  /\ \A x \in DOMAIN t : t[x] # Nil => \E p \in P : x = Reverse(p)

(* A wildcard is the first label, or none.                                 *)
Wilds(P) == \A p \in P : \A i \in 2 .. Len(p) : p[i] # Wild

(* Sequences turned round, and their parts.                                *)
LEMMA ReverseSeq ==
  ASSUME NEW L, NEW s \in Seq(L)
  PROVE  /\ Reverse(s) \in Seq(L) /\ Len(Reverse(s)) = Len(s)
         /\ \A i \in 1 .. Len(s) : Reverse(s)[i] = s[Len(s) - i + 1]
BY DEF Reverse

LEMMA Upto ==
  ASSUME NEW L, NEW r \in Seq(L)
  PROVE  /\ SubSeq(r, 1, 0) = << >> /\ SubSeq(r, 1, Len(r)) = r
         /\ \A i \in 1 .. Len(r) : Append(SubSeq(r, 1, i - 1), r[i]) = SubSeq(r, 1, i)
         /\ \A i \in 0 .. Len(r) : SubSeq(r, 1, i) \in Seq(L) /\ Len(SubSeq(r, 1, i)) = i
OBVIOUS

(* While the labels lead down to the nodes of s the search follows them.   *)
LEMMA Follows ==
  ASSUME NEW L, NEW s \in Seq(L), NEW t, NEW k \in 0 .. Len(s),
         \A i \in 1 .. k : SubSeq(Reverse(s), 1, i) \in DOMAIN t
  PROVE  \A i \in 0 .. k :
           Reached(t, s)[i] = [node |-> SubSeq(Reverse(s), 1, i), wild |-> FALSE]
<1> DEFINE f == Reached(t, s)
           r == Reverse(s)
           S == {i \in 0 .. k : f[i] = [node |-> SubSeq(r, 1, i), wild |-> FALSE]}
<1>1. f[0] = Root /\ \A i \in 1 .. Len(s) : f[i] = Descend(t, f[i - 1], r[i])
  BY ReachedSteps
<1>2. r \in Seq(L) /\ Len(r) = Len(s)
  BY ReverseSeq
<1>3. \A i \in 1 .. k : SubSeq(r, 1, i) \in DOMAIN t
  OBVIOUS
<1>4. k \in Nat /\ k <= Len(s) /\ Len(s) \in Nat
  OBVIOUS
<1> HIDE DEF f, r
<1>5. 0 \in S
  <2>1. f[0] = [node |-> SubSeq(r, 1, 0), wild |-> FALSE]
    BY <1>1, <1>2, Upto DEF Root
  <2> QED BY <1>4, <2>1
<1>6. ASSUME NEW i \in 1 .. k, i - 1 \in S PROVE i \in S
  <2>1. Append(SubSeq(r, 1, i - 1), r[i]) = SubSeq(r, 1, i)
    BY <1>2, <1>4, Upto
  <2>2. f[i] = Descend(t, f[i - 1], r[i]) /\ f[i - 1].node = SubSeq(r, 1, i - 1)
    BY <1>1, <1>4, <1>6
  <2>3. f[i] = [node |-> SubSeq(r, 1, i), wild |-> FALSE]
    <3>1. Append(f[i - 1].node, r[i]) \in DOMAIN t
      BY <1>3, <2>1, <2>2
    <3>2. f[i] = [node |-> Append(f[i - 1].node, r[i]), wild |-> FALSE]
      BY <2>2, <3>1, GoesDown
    <3> QED BY <2>1, <2>2, <3>2
  <2> QED BY <1>4, <2>3
<1>7. \A i \in 0 .. k : i \in S
  <2> HIDE DEF S
  <2> QED BY <1>4, <1>5, <1>6, Stepwise
<1> QED BY <1>7 DEF f, r

(* The search finds the data of a pattern for the pattern itself.          *)
LEMMA FindsItself ==
  ASSUME NEW L, NEW s \in Seq(L), s # << >>, NEW P \in SUBSET Seq(L), s \in P,
         NEW t, Holds(t, P)
  PROVE  Search(t, s) = t[Reverse(s)]
<1> DEFINE n == Len(s)
           r == Reverse(s)
<1>1. n \in Nat \ {0}
  OBVIOUS
<1>2. r \in Seq(L) /\ Len(r) = n
  BY ReverseSeq
<1>3. \A i \in 0 .. n : SubSeq(r, 1, i) \in DOMAIN t
  BY <1>2 DEF Holds, Prefixes
<1> HIDE DEF n
<1>4. \A i \in 0 .. n : Reached(t, s)[i] = [node |-> SubSeq(r, 1, i), wild |-> FALSE]
  <2>1. n \in 0 .. Len(s) /\ \A i \in 1 .. n : SubSeq(Reverse(s), 1, i) \in DOMAIN t
    BY <1>1, <1>3 DEF n
  <2> QED BY <2>1, Follows
<1>5. t[r] # Nil
  BY DEF Holds
<1> HIDE DEF r, n
<1>6. Reached(t, s)[n] = [node |-> r, wild |-> FALSE]
  BY <1>1, <1>2, <1>4, Upto
<1>7. Reached(t, s)[n - 1] # Reached(t, s)[n]
  <2>1. n - 1 \in 0 .. n
    BY <1>1
  <2>2. Reached(t, s)[n - 1] = [node |-> SubSeq(r, 1, n - 1), wild |-> FALSE]
    BY <1>4, <2>1
  <2>3. Len(SubSeq(r, 1, n - 1)) = n - 1
    BY <1>2, <2>1, Upto
  <2> QED BY <1>1, <1>2, <1>6, <2>2, <2>3
<1> QED BY <1>5, <1>6, <1>7 DEF Search, n, r

LEMMA ReverseOnce ==
  ASSUME NEW L, NEW p \in Seq(L), NEW q \in Seq(L), Reverse(p) = Reverse(q)
  PROVE  p = q
<1>1. Len(p) = Len(q)
  BY ReverseSeq
<1>2. ASSUME NEW i \in 1 .. Len(p) PROVE p[i] = q[i]
  <2> DEFINE j == Len(p) - i + 1
  <2>1. j \in 1 .. Len(p) /\ Len(p) - j + 1 = i
    OBVIOUS
  <2> HIDE DEF j
  <2>2. Reverse(p)[j] = p[i] /\ Reverse(q)[j] = q[i]
    BY <1>1, <2>1, ReverseSeq
  <2> QED BY <2>2
<1> QED BY <1>1, <1>2

(* A wildcard that covers s is below the node of the labels they share.    *)
LEMMA WildForm ==
  ASSUME NEW L, NEW s \in Seq(L), NEW p \in Seq(L), p # << >>, p # s, Covers(p, s)
  PROVE  /\ Len(p) - 1 \in 0 .. Len(s)
         /\ Reverse(p) = Append(SubSeq(Reverse(s), 1, Len(p) - 1), Wild)
<1> DEFINE k == Len(p) - 1
           u == Tail(p)
           r == Reverse(s)
<1>1. p[1] = Wild /\ IsPrefix(Reverse(u), r)
  BY DEF Covers, IsSuffix
<1>2. k \in Nat /\ u \in Seq(L) /\ Len(u) = k /\ \A i \in 1 .. k : u[i] = p[i + 1]
  OBVIOUS
<1> HIDE DEF u, k
<1>3. /\ Reverse(u) \in Seq(L) /\ Len(Reverse(u)) = k
      /\ \A i \in 1 .. k : Reverse(u)[i] = u[k - i + 1]
  BY <1>2, ReverseSeq
<1>4. /\ Reverse(p) \in Seq(L) /\ Len(Reverse(p)) = Len(p) /\ Len(p) = k + 1
      /\ \A i \in 1 .. Len(p) : Reverse(p)[i] = p[Len(p) - i + 1]
  BY ReverseSeq DEF k
<1>5. r \in Seq(L) /\ Len(r) = Len(s)
  BY ReverseSeq
<1> HIDE DEF r
<1>6. k \in 0 .. Len(s) /\ SubSeq(Reverse(u), 1, k) = SubSeq(r, 1, k)
  BY <1>1, <1>2, <1>3, <1>5 DEF IsPrefix, r
<1>7. ASSUME NEW i \in 1 .. k PROVE Reverse(p)[i] = r[i]
  <2>1. Reverse(p)[i] = p[k - i + 2] /\ Reverse(u)[i] = u[k - i + 1]
    BY <1>2, <1>3, <1>4
  <2>2. k - i + 1 \in 1 .. k /\ k - i + 1 + 1 = k - i + 2
    BY <1>2
  <2>3. Reverse(p)[i] = Reverse(u)[i]
    BY <1>2, <2>1, <2>2
  <2>4. SubSeq(Reverse(u), 1, k)[i] = Reverse(u)[i] /\ SubSeq(r, 1, k)[i] = r[i]
    BY <1>2, <1>3, <1>5, <1>6
  <2> QED BY <1>6, <2>3, <2>4
<1>8. Reverse(p)[k + 1] = Wild
  BY <1>1, <1>2, <1>4 DEF k
<1>9. /\ SubSeq(r, 1, k) \in Seq(L) /\ Len(SubSeq(r, 1, k)) = k
      /\ \A i \in 1 .. k : SubSeq(r, 1, k)[i] = r[i]
  BY <1>2, <1>5, <1>6
<1>10. Reverse(p) = Append(SubSeq(r, 1, k), Wild)
  BY <1>2, <1>4, <1>7, <1>8, <1>9
<1> QED BY <1>6, <1>10 DEF r, k

LEMMA NodesAreSeqs ==
  ASSUME NEW L, NEW P \in SUBSET Seq(L), NEW t, Holds(t, P), NEW x \in DOMAIN t
  PROVE  x \in Seq(L)
<1>1. CASE x = << >>
  BY <1>1
<1>2. CASE x # << >>
  <2>1. PICK p \in P : x \in Prefixes(Reverse(p))
    BY <1>2 DEF Holds
  <2>2. Reverse(p) \in Seq(L)
    BY ReverseSeq
  <2> QED BY <2>1, <2>2 DEF Prefixes
<1> QED BY <1>1, <1>2

(* There is nothing below a wildcard.                                      *)
LEMMA NothingBelow ==
  ASSUME NEW L, NEW P \in SUBSET Seq(L), NEW t, Holds(t, P), Wilds(P),
         Wild \in L, NEW y \in Seq(L), NEW l \in L
  PROVE  Append(Append(y, Wild), l) \notin DOMAIN t
<1> SUFFICES ASSUME Append(Append(y, Wild), l) \in DOMAIN t PROVE FALSE
  OBVIOUS
<1> DEFINE x == Append(Append(y, Wild), l)
           n == Len(y)
<1>1. x \in Seq(L) /\ x # << >>
  BY NodesAreSeqs
<1>2. PICK p \in P : x \in Prefixes(Reverse(p))
  BY <1>1 DEF Holds
<1>3. n \in Nat /\ Len(x) = n + 2 /\ x[n + 1] = Wild
  OBVIOUS
<1>4. /\ Reverse(p) \in Seq(L) /\ Len(Reverse(p)) = Len(p) /\ Len(p) \in Nat
      /\ \A i \in 1 .. Len(p) : Reverse(p)[i] = p[Len(p) - i + 1]
  BY ReverseSeq
<1> HIDE DEF x, n
<1>5. n + 2 <= Len(p) /\ Reverse(p)[n + 1] = Wild
  BY <1>2, <1>3, <1>4 DEF Prefixes
<1>6. Len(p) - n \in 2 .. Len(p) /\ p[Len(p) - n] = Wild
  BY <1>3, <1>4, <1>5
<1> QED BY <1>6 DEF Wilds

LEMMA Onward ==
  ASSUME NEW n \in Nat, NEW k \in 1 .. n, NEW f, NEW w, f[k] = w,
         \A i \in k + 1 .. n : f[i - 1] = w => f[i] = w
  PROVE  \A i \in k .. n : f[i] = w
<1> DEFINE S == {i \in 0 .. n : i >= k => f[i] = w}
<1>1. 0 \in S
  OBVIOUS
<1>2. ASSUME NEW i \in 1 .. n, i - 1 \in S PROVE i \in S
  <2>1. CASE i < k
    BY <2>1
  <2>2. CASE i = k
    BY <2>2
  <2>3. CASE i > k
    <3>1. i \in k + 1 .. n /\ i - 1 >= k
      BY <2>3
    <3>2. f[i - 1] = w
      BY <1>2, <3>1
    <3> QED BY <3>1, <3>2
  <2> QED BY <2>1, <2>2, <2>3
<1>3. \A i \in 0 .. n : i \in S
  <2> HIDE DEF S
  <2> QED BY <1>1, <1>2, Stepwise
<1> QED BY <1>3

LEMMA PrefixOfAppend ==
  ASSUME NEW L, NEW r \in Seq(L), NEW k \in 0 .. Len(r), NEW l \in L, NEW i \in 0 .. k
  PROVE  SubSeq(r, 1, i) \in Prefixes(Append(SubSeq(r, 1, k), l))
<1> DEFINE y == SubSeq(r, 1, k)
           z == Append(y, l)
<1>1. y \in Seq(L) /\ Len(y) = k /\ \A j \in 1 .. k : y[j] = r[j]
  OBVIOUS
<1>2. z \in Seq(L) /\ Len(z) = k + 1 /\ \A j \in 1 .. k : z[j] = r[j]
  <2> HIDE DEF y
  <2> QED BY <1>1
<1> HIDE DEF y, z
<1>3. SubSeq(r, 1, i) = SubSeq(z, 1, i)
  <2>1. /\ SubSeq(r, 1, i) \in Seq(L) /\ Len(SubSeq(r, 1, i)) = i
        /\ \A j \in 1 .. i : SubSeq(r, 1, i)[j] = r[j]
    OBVIOUS
  <2>2. /\ SubSeq(z, 1, i) \in Seq(L) /\ Len(SubSeq(z, 1, i)) = i
        /\ \A j \in 1 .. i : SubSeq(z, 1, i)[j] = z[j]
    BY <1>2
  <2> QED BY <1>2, <2>1, <2>2
<1>4. i \in 0 .. Len(z)
  BY <1>2
<1>5. SubSeq(r, 1, i) \in Prefixes(z)
  BY <1>3, <1>4 DEF Prefixes
<1> QED BY <1>5 DEF z, y

(* How a search ends.                                                      *)
LEMMA EndsBelow ==
  ASSUME NEW t, NEW s, NEW x, Reached(t, s)[Len(s)] = [node |-> x, wild |-> FALSE],
         Reached(t, s)[Len(s) - 1] # Reached(t, s)[Len(s)],
         t[x] = Nil, Append(x, Wild) \in DOMAIN t
  PROVE  Search(t, s) = t[Append(x, Wild)]
BY DEF Search, Has

LEMMA EndsWild ==
  ASSUME NEW t, NEW s, NEW x, Reached(t, s)[Len(s)] = [node |-> x, wild |-> TRUE]
  PROVE  Search(t, s) = t[x]
BY DEF Search

(* After k labels the search for s leaves its nodes for the wildcard of p. *)
Leaves(t, s, p, k) ==
  /\ Reverse(p) = Append(SubSeq(Reverse(s), 1, k), Wild)
  /\ k < Len(s) => SubSeq(Reverse(s), 1, k + 1) \notin DOMAIN t

(* The search that leaves the nodes of s for the wildcard ends there.      *)
LEMMA FindsWild ==
  ASSUME NEW L, Wild \in L, NEW P \in SUBSET Seq(L), NEW t, Holds(t, P), Wilds(P),
         NEW s \in Seq(L), s # << >>, s \notin P,
         NEW p \in P, NEW k \in 0 .. Len(s), Leaves(t, s, p, k)
  PROVE  Search(t, s) = t[Reverse(p)]
<1> /\ Reverse(p) = Append(SubSeq(Reverse(s), 1, k), Wild)
    /\ k < Len(s) => SubSeq(Reverse(s), 1, k + 1) \notin DOMAIN t
  BY DEF Leaves
<1> DEFINE n == Len(s)
           r == Reverse(s)
           f == Reached(t, s)
           w == [node |-> Reverse(p), wild |-> TRUE]
<1>1. n \in Nat \ {0} /\ k \in Nat /\ k <= n
  OBVIOUS
<1>2. r \in Seq(L) /\ Len(r) = n
  BY ReverseSeq
<1>3. \A i \in 0 .. k : SubSeq(r, 1, i) \in DOMAIN t
  <2>1. \A i \in 0 .. k : SubSeq(r, 1, i) \in Prefixes(Reverse(p))
    BY <1>2, PrefixOfAppend
  <2> QED BY <2>1 DEF Holds
<1>4. Reverse(p) \in DOMAIN t
  <2>1. Reverse(p) \in Seq(L)
    BY ReverseSeq
  <2>2. Reverse(p) = SubSeq(Reverse(p), 1, Len(Reverse(p))) /\ Len(Reverse(p)) \in Nat
    BY <2>1
  <2>3. Reverse(p) \in Prefixes(Reverse(p))
    BY <2>2 DEF Prefixes
  <2> QED BY <2>3 DEF Holds
<1>5. \A i \in 0 .. k : f[i] = [node |-> SubSeq(r, 1, i), wild |-> FALSE]
  <2>1. \A i \in 1 .. k : SubSeq(Reverse(s), 1, i) \in DOMAIN t
    BY <1>1, <1>3
  <2> QED BY <2>1, Follows
<1>6. CASE k = n
  <2>1. SubSeq(r, 1, n) = r
    BY <1>2, Upto
  <2>2. n \in 0 .. k
    BY <1>1, <1>6
  <2>3. f[n] = [node |-> r, wild |-> FALSE] /\ r \in DOMAIN t
    BY <1>3, <1>5, <2>1, <2>2, Zenon
  <2>4. f[n - 1] # f[n]
    <3>1. n - 1 \in 0 .. k /\ n - 1 \in 0 .. n /\ n # n - 1
      BY <1>1, <1>6
    <3>2. f[n - 1] = [node |-> SubSeq(r, 1, n - 1), wild |-> FALSE]
      BY <1>5, <3>1, Zenon
    <3>3. Len(SubSeq(r, 1, n - 1)) = n - 1
      BY <1>2, <3>1, Upto
    <3>4. SubSeq(r, 1, n - 1) # r
      BY <1>2, <3>1, <3>3
    <3> HIDE DEF f, n, r
    <3> QED BY <2>3, <3>2, <3>4
  <2>5. Reverse(p) = Append(r, Wild)
    BY <1>6, <2>1
  <2>6. t[r] = Nil
    <3>1. ASSUME t[r] # Nil PROVE FALSE
      <4>1. PICK q \in P : r = Reverse(q)
        BY <2>3, <3>1 DEF Holds
      <4>2. s = q
        BY <4>1, ReverseOnce
      <4> QED BY <4>2
    <3> QED BY <3>1
  <2> QED BY <1>4, <2>3, <2>4, <2>5, <2>6, EndsBelow
<1>7. CASE k < n
  <2>1. f[k + 1] = w
    <3>1. k + 1 \in 1 .. n /\ k + 1 - 1 = k /\ k \in 0 .. k
      BY <1>1, <1>7
    <3>2. f[k + 1] = Descend(t, f[k], r[k + 1])
      BY <1>1, <3>1, ReachedSteps
    <3>3. f[k].node = SubSeq(r, 1, k)
      <4>1. f[k] = [node |-> SubSeq(r, 1, k), wild |-> FALSE]
        BY <1>5, <3>1, Zenon
      <4> HIDE DEF f, r
      <4> QED BY <4>1
    <3>4. Append(SubSeq(r, 1, k), r[k + 1]) = SubSeq(r, 1, k + 1)
      BY <1>2, <3>1, Upto
    <3> HIDE DEF f, r, n
    <3>5. f[k + 1] = [node |-> Append(f[k].node, Wild), wild |-> TRUE]
      <4>1. Append(f[k].node, r[k + 1]) \notin DOMAIN t /\ Append(f[k].node, Wild) \in DOMAIN t
        BY <1>4, <1>7, <3>3, <3>4 DEF r, n
      <4> QED BY <3>2, <4>1, GoesWild
    <3> QED BY <3>3, <3>5 DEF r
  <2> DEFINE j == k + 1
  <2>2. ASSUME NEW i \in j + 1 .. n, f[i - 1] = w PROVE f[i] = w
    <3>1. i \in 1 .. n
      BY <1>1
    <3>2. f[i] = Descend(t, f[i - 1], r[i])
      BY <1>1, <3>1, ReachedSteps
    <3>3. r[i] \in L /\ SubSeq(r, 1, k) \in Seq(L)
      BY <1>1, <1>2, <3>1, Upto
    <3>4. \A l \in L : Append(Reverse(p), l) \notin DOMAIN t
      BY <3>3, NothingBelow
    <3> HIDE DEF f, r, n
    <3>5. f[i] = f[i - 1]
      <4>1. Append(f[i - 1].node, r[i]) \notin DOMAIN t /\ Append(f[i - 1].node, Wild) \notin DOMAIN t
        BY <2>2, <3>3, <3>4
      <4> QED BY <3>2, <4>1, StaysThere
    <3> QED BY <2>2, <3>5
  <2>3. \A i \in j .. n : f[i] = w
    <3>1. n \in Nat /\ j \in 1 .. n /\ f[j] = w
      BY <1>1, <1>7, <2>1
    <3> HIDE DEF f, n, w, j
    <3> QED BY <2>2, <3>1, Onward
  <2>4. f[n] = w
    <3>1. n \in j .. n
      BY <1>1, <1>7
    <3> QED BY <2>3, <3>1, Zenon
  <2>5. Reached(t, s)[Len(s)] = [node |-> Reverse(p), wild |-> TRUE]
    BY <2>4
  <2> DEFINE x == Reverse(p)
  <2>6. Reached(t, s)[Len(s)] = [node |-> x, wild |-> TRUE]
    BY <2>5
  <2> HIDE DEF x
  <2>7. Search(t, s) = t[x]
    BY <2>6, EndsWild
  <2> QED BY <2>7 DEF x
<1> QED BY <1>1, <1>6, <1>7

-----------------------------------------------------------------------------
(* x is what is left of the first i labels of r without some of them.      *)
Among(x, r, i) ==
  \E g \in [1 .. Len(x) -> 1 .. i] :
    \A a \in 1 .. Len(x) : x[a] = r[g[a]] /\ \A b \in 1 .. a - 1 : g[b] < g[a]

LEMMA AmongMore ==
  ASSUME NEW L, NEW x \in Seq(L), NEW r, NEW i \in Nat \ {0}, Among(x, r, i - 1)
  PROVE  Among(x, r, i)
<1>1. PICK g \in [1 .. Len(x) -> 1 .. i - 1] :
        \A a \in 1 .. Len(x) : x[a] = r[g[a]] /\ \A b \in 1 .. a - 1 : g[b] < g[a]
  BY DEF Among
<1>2. g \in [1 .. Len(x) -> 1 .. i]
  BY <1>1
<1> QED BY <1>1, <1>2 DEF Among

LEMMA AmongNext ==
  ASSUME NEW L, NEW x \in Seq(L), NEW r, NEW i \in Nat \ {0}, r[i] \in L,
         Among(x, r, i - 1)
  PROVE  Among(Append(x, r[i]), r, i)
<1>1. PICK g \in [1 .. Len(x) -> 1 .. i - 1] :
        \A a \in 1 .. Len(x) : x[a] = r[g[a]] /\ \A b \in 1 .. a - 1 : g[b] < g[a]
  BY DEF Among
<1> DEFINE y == Append(x, r[i])
           n == Len(x)
           h == [a \in 1 .. n + 1 |-> IF a = n + 1 THEN i ELSE g[a]]
<1>2. n \in Nat /\ y \in Seq(L) /\ Len(y) = n + 1 /\ y[n + 1] = r[i]
      /\ \A a \in 1 .. n : y[a] = x[a]
  OBVIOUS
<1>3. g \in [1 .. n -> 1 .. i - 1]
      /\ \A a \in 1 .. n : x[a] = r[g[a]] /\ \A b \in 1 .. a - 1 : g[b] < g[a]
  BY <1>1
<1> HIDE DEF n, y
<1>4. h \in [1 .. n + 1 -> 1 .. i]
  BY <1>2, <1>3
<1>5. h[n + 1] = i /\ \A a \in 1 .. n : h[a] = g[a] /\ g[a] \in 1 .. i - 1
  BY <1>2, <1>3
<1> HIDE DEF h
<1>6. ASSUME NEW a \in 1 .. n + 1
      PROVE  y[a] = r[h[a]] /\ \A b \in 1 .. a - 1 : h[b] < h[a]
  <2>1. CASE a = n + 1
    <3>1. y[a] = r[h[a]] /\ h[a] = i
      BY <1>2, <1>5, <2>1
    <3>2. ASSUME NEW b \in 1 .. a - 1 PROVE h[b] < i
      <4>1. b \in 1 .. n
        BY <1>2, <2>1
      <4>2. h[b] = g[b] /\ g[b] \in 1 .. i - 1
        BY <1>5, <4>1
      <4> QED BY <4>2
    <3> QED BY <3>1, <3>2
  <2>2. CASE a # n + 1
    BY <1>2, <1>3, <1>5, <2>2
  <2> QED BY <2>1, <2>2
<1>7. Among(y, r, i)
  BY <1>2, <1>4, <1>6 DEF Among
<1> QED BY <1>7 DEF y

(* What is left without some labels, turned round.                         *)
LEMMA AmongIsWithin ==
  ASSUME NEW L, NEW s \in Seq(L), NEW p \in Seq(L), Among(Reverse(p), Reverse(s), Len(s))
  PROVE  Within(p, s)
<1> DEFINE n == Len(s)
           m == Len(p)
           x == Reverse(p)
           r == Reverse(s)
<1>1. /\ n \in Nat /\ m \in Nat /\ Len(x) = m
      /\ \A a \in 1 .. m : x[a] = p[m - a + 1]
      /\ \A a \in 1 .. n : r[a] = s[n - a + 1]
      /\ DOMAIN p = 1 .. m /\ DOMAIN s = 1 .. n
  BY ReverseSeq
<1>2. Among(x, r, n)
  OBVIOUS
<1> HIDE DEF n, m, x, r
<1>3. PICK g \in [1 .. m -> 1 .. n] :
        \A a \in 1 .. m : x[a] = r[g[a]] /\ \A b \in 1 .. a - 1 : g[b] < g[a]
  BY <1>1, <1>2 DEF Among
<1> DEFINE h == [a \in 1 .. m |-> n + 1 - g[m + 1 - a]]
<1>4. ASSUME NEW a \in 1 .. m
      PROVE  h[a] \in 1 .. n /\ p[a] = s[h[a]]
  <2> DEFINE c == m + 1 - a
             d == g[c]
  <2>1. c \in 1 .. m /\ m - c + 1 = a
    BY <1>1
  <2>2. d \in 1 .. n /\ h[a] = n + 1 - d /\ n - d + 1 = n + 1 - d
    BY <1>1, <1>3, <2>1
  <2>3. x[c] = p[a]
    BY <1>1, <2>1
  <2>4. x[c] = r[d]
    BY <1>3, <2>1
  <2> HIDE DEF c, d, h
  <2>5. r[d] = s[n + 1 - d]
    BY <1>1, <2>2
  <2> QED BY <1>1, <2>2, <2>3, <2>4, <2>5
<1>5. ASSUME NEW a \in 1 .. m, NEW b \in 1 .. a - 1 PROVE h[b] < h[a]
  <2>1. /\ m + 1 - b \in 1 .. m /\ m + 1 - a \in 1 .. (m + 1 - b) - 1
        /\ m + 1 - a \in 1 .. m /\ b \in 1 .. m
    BY <1>1
  <2>2. g[m + 1 - a] < g[m + 1 - b]
    BY <1>3, <2>1
  <2>3. g[m + 1 - a] \in 1 .. n /\ g[m + 1 - b] \in 1 .. n
    BY <1>3, <2>1
  <2>4. h[a] = n + 1 - g[m + 1 - a] /\ h[b] = n + 1 - g[m + 1 - b]
    BY <2>1
  <2> QED BY <1>1, <2>2, <2>3, <2>4
<1>6. h \in [1 .. m -> 1 .. n]
  BY <1>4
<1> HIDE DEF h
<1> QED BY <1>1, <1>4, <1>5, <1>6 DEF Within

LEMMA TailWithin ==
  ASSUME NEW L, NEW s \in Seq(L), NEW p \in Seq(L), p # << >>, NEW x \in Seq(L),
         Reverse(p) = Append(x, Wild), Among(x, Reverse(s), Len(s))
  PROVE  p[1] = Wild /\ Within(Tail(p), s)
<1> DEFINE m == Len(p)
           u == Tail(p)
           y == Reverse(p)
<1>1. /\ m \in Nat \ {0} /\ y \in Seq(L) /\ Len(y) = m
      /\ \A i \in 1 .. m : y[i] = p[m - i + 1]
  <2>1. m \in Nat \ {0}
    OBVIOUS
  <2> QED BY <2>1, ReverseSeq
<1>2. u \in Seq(L) /\ Len(u) = m - 1 /\ \A i \in 1 .. m - 1 : u[i] = p[i + 1]
  OBVIOUS
<1>3. y = Append(x, Wild)
  OBVIOUS
<1> HIDE DEF u, m, y
<1>4. Len(x) = m - 1 /\ y[m] = Wild /\ \A i \in 1 .. m - 1 : y[i] = x[i]
  BY <1>1, <1>3
<1>5. p[1] = Wild
  <2>1. m \in 1 .. m /\ m - m + 1 = 1
    BY <1>1
  <2> QED BY <1>1, <1>4, <2>1
<1>6. /\ Reverse(u) \in Seq(L) /\ Len(Reverse(u)) = m - 1
      /\ \A i \in 1 .. m - 1 : Reverse(u)[i] = u[m - 1 - i + 1]
  BY <1>2, ReverseSeq
<1>7. ASSUME NEW i \in 1 .. m - 1 PROVE Reverse(u)[i] = x[i]
  <2>1. Reverse(u)[i] = u[m - i]
    BY <1>1, <1>6
  <2>2. m - i \in 1 .. m - 1 /\ i \in 1 .. m
    BY <1>1
  <2>3. u[m - i] = p[m - i + 1]
    BY <1>2, <2>2
  <2>4. y[i] = p[m - i + 1] /\ y[i] = x[i]
    BY <1>1, <1>4, <2>2
  <2> QED BY <2>1, <2>3, <2>4
<1>8. Reverse(u) = x
  BY <1>4, <1>6, <1>7
<1>9. Within(u, s)
  BY <1>2, <1>8, AmongIsWithin
<1> QED BY <1>5, <1>9 DEF u

LEMMA WithinTail ==
  ASSUME NEW L, NEW s \in Seq(L), NEW p \in Seq(L), p # << >>, Within(p, s)
  PROVE  Within(Tail(p), s)
<1> DEFINE m == Len(p)
           u == Tail(p)
<1>1. m \in Nat \ {0} /\ DOMAIN p = 1 .. m /\ DOMAIN u = 1 .. m - 1
      /\ \A i \in 1 .. m - 1 : u[i] = p[i + 1]
  OBVIOUS
<1> HIDE DEF m, u
<1>2. PICK f \in [1 .. m -> DOMAIN s] :
        \A i \in 1 .. m : p[i] = s[f[i]] /\ \A j \in 1 .. i - 1 : f[j] < f[i]
  BY <1>1 DEF Within
<1> DEFINE g == [i \in 1 .. m - 1 |-> f[i + 1]]
<1>3. \A i \in 1 .. m - 1 : i + 1 \in 1 .. m /\ g[i] = f[i + 1]
  BY <1>1
<1>4. g \in [1 .. m - 1 -> DOMAIN s]
  BY <1>1, <1>2
<1> HIDE DEF g
<1>5. ASSUME NEW i \in 1 .. m - 1 PROVE u[i] = s[g[i]]
  BY <1>1, <1>2, <1>3
<1>6. ASSUME NEW i \in 1 .. m - 1, NEW j \in 1 .. i - 1 PROVE g[j] < g[i]
  <2>1. j \in 1 .. m - 1 /\ j + 1 \in 1 .. (i + 1) - 1 /\ i + 1 \in 1 .. m
    BY <1>1
  <2>2. f[j + 1] < f[i + 1]
    BY <1>2, <2>1
  <2> QED BY <1>3, <2>1, <2>2
<1>7. Within(u, s)
  BY <1>1, <1>4, <1>5, <1>6 DEF Within
<1> QED BY <1>7 DEF u

(* Every node on the way is that of some of the labels so far, in their    *)
(* order, perhaps with a wildcard last.                                    *)
OnWay(L, t, s, i) ==
  \E x \in Seq(L) :
    /\ Among(x, Reverse(s), i)
    /\ \/ Reached(t, s)[i] = [node |-> x, wild |-> FALSE]
       \/ Reached(t, s)[i] = [node |-> Append(x, Wild), wild |-> TRUE]

(* Every node the search comes to spells some of the labels it was given,  *)
(* and ends in a wildcard at most.                                         *)
LEMMA WayOfSome ==
  ASSUME NEW L, Wild \in L, NEW P \in SUBSET Seq(L), NEW t, Holds(t, P), Wilds(P),
         NEW s \in Seq(L)
  PROVE  \A i \in 0 .. Len(s) : OnWay(L, t, s, i)
<1> DEFINE n == Len(s)
           r == Reverse(s)
           f == Reached(t, s)
           Way(x, i) == /\ Among(x, r, i)
                        /\ \/ f[i] = [node |-> x, wild |-> FALSE]
                           \/ f[i] = [node |-> Append(x, Wild), wild |-> TRUE]
           S == {i \in 0 .. n : \E x \in Seq(L) : Way(x, i)}
<1>1. n \in Nat /\ r \in Seq(L) /\ Len(r) = n
  BY ReverseSeq
<1>2. f[0] = Root /\ \A i \in 1 .. n : f[i] = Descend(t, f[i - 1], r[i])
  BY <1>1, ReachedSteps
<1> HIDE DEF n, r, f
<1>3. 0 \in S
  <2>1. Among(<< >>, r, 0)
    <3>1. << >> \in [1 .. Len(<< >>) -> 1 .. 0] /\ \A a \in 1 .. Len(<< >>) : FALSE
      OBVIOUS
    <3> QED BY <3>1 DEF Among
  <2>2. << >> \in Seq(L) /\ f[0] = [node |-> << >>, wild |-> FALSE]
    BY <1>2 DEF Root
  <2>3. 0 \in 0 .. n
    BY <1>1
  <2> QED BY <2>1, <2>2, <2>3
<1>4. ASSUME NEW i \in 1 .. n, i - 1 \in S PROVE i \in S
  <2>1. PICK x \in Seq(L) : Way(x, i - 1)
    BY <1>4
  <2>2. i \in Nat \ {0} /\ i \in 0 .. n /\ r[i] \in L
    BY <1>1
  <2>3. f[i] = Descend(t, f[i - 1], r[i])
    BY <1>2
  <2>4. Among(x, r, i - 1)
    BY <2>1
  <2>5. Among(x, r, i)
    BY <2>2, <2>4, AmongMore
  <2>6. CASE f[i - 1] = [node |-> Append(x, Wild), wild |-> TRUE]
    <3>1. \A l \in L : Append(f[i - 1].node, l) \notin DOMAIN t
      BY <2>6, NothingBelow
    <3>2. Append(f[i - 1].node, r[i]) \notin DOMAIN t /\ Append(f[i - 1].node, Wild) \notin DOMAIN t
      BY <2>2, <3>1
    <3>3. f[i] = f[i - 1]
      BY <2>3, <3>2, StaysThere
    <3>4. Way(x, i)
      BY <2>5, <2>6, <3>3
    <3> HIDE DEF Way
    <3> QED BY <2>2, <3>4
  <2>7. CASE f[i - 1] = [node |-> x, wild |-> FALSE]
    <3>0. f[i - 1].node = x
      BY <2>7
    <3>1. CASE Append(x, r[i]) \in DOMAIN t
      <4> DEFINE z == Append(x, r[i])
      <4>1. Among(z, r, i) /\ z \in Seq(L)
        BY <2>2, <2>4, AmongNext
      <4>2. f[i] = [node |-> Append(f[i - 1].node, r[i]), wild |-> FALSE]
        BY <2>3, <3>0, <3>1, GoesDown
      <4>3. f[i] = [node |-> z, wild |-> FALSE]
        BY <3>0, <4>2
      <4> HIDE DEF z
      <4>4. Way(z, i)
        BY <4>1, <4>3
      <4> HIDE DEF Way
      <4> QED BY <2>2, <4>1, <4>4
    <3>2. CASE Append(x, r[i]) \notin DOMAIN t /\ Append(x, Wild) \in DOMAIN t
      <4>1. f[i] = [node |-> Append(f[i - 1].node, Wild), wild |-> TRUE]
        BY <2>3, <3>0, <3>2, GoesWild
      <4>2. Way(x, i)
        BY <2>5, <3>0, <4>1
      <4> HIDE DEF Way
      <4> QED BY <2>2, <4>2
    <3>3. CASE Append(x, r[i]) \notin DOMAIN t /\ Append(x, Wild) \notin DOMAIN t
      <4>1. f[i] = f[i - 1]
        BY <2>3, <3>0, <3>3, StaysThere
      <4>2. Way(x, i)
        BY <2>5, <2>7, <4>1
      <4> HIDE DEF Way
      <4> QED BY <2>2, <4>2
    <3> QED BY <3>1, <3>2, <3>3
  <2> QED BY <2>1, <2>6, <2>7
<1>5. \A i \in 0 .. n : i \in S
  <2> HIDE DEF S
  <2> QED BY <1>1, <1>3, <1>4, Stepwise
<1> QED BY <1>5 DEF f, r, n, OnWay

(* A domain that no pattern covers, and that becomes none when labels are  *)
(* left out, is not found.                                                 *)
LEMMA FindsNothing ==
  ASSUME NEW L, Wild \in L, NEW P \in SUBSET (Seq(L) \ {<< >>}), NEW t, Holds(t, P), Wilds(P),
         NEW s \in Seq(L), s # << >>, ~Stumbles(P, s)
  PROVE  Search(t, s) = Nil
<1> DEFINE n == Len(s)
           r == Reverse(s)
           f == Reached(t, s)
<1>1. n \in Nat \ {0} /\ r \in Seq(L) /\ Len(r) = n /\ n \in 0 .. n /\ n - n + 1 = 1
  BY ReverseSeq
<1>2. P \in SUBSET Seq(L)
  OBVIOUS
<1>3. PICK x \in Seq(L) :
        /\ Among(x, r, n)
        /\ \/ f[n] = [node |-> x, wild |-> FALSE]
           \/ f[n] = [node |-> Append(x, Wild), wild |-> TRUE]
  <2>1. \A i \in 0 .. Len(s) : OnWay(L, t, s, i)
    BY <1>2, WayOfSome
  <2>2. OnWay(L, t, s, Len(s))
    BY <1>1, <2>1
  <2> QED BY <2>2 DEF OnWay
<1>4. f[n].node \in DOMAIN t
  BY <1>1, ReachedNodes DEF Holds
<1>5. f[n] = Descend(t, f[n - 1], r[n])
  <2>1. n \in 1 .. Len(s) /\ Len(s) \in Nat
    BY <1>1
  <2>2. \A i \in 1 .. Len(s) : f[i] = Descend(t, f[i - 1], r[i])
    BY <2>1, ReachedSteps
  <2> QED BY <2>1, <2>2, Zenon
(* No data where a wildcard ends the labels left.                          *)
<1>6. ASSUME Append(x, Wild) \in DOMAIN t, t[Append(x, Wild)] # Nil PROVE FALSE
  <2>1. PICK p \in P : Append(x, Wild) = Reverse(p)
    BY <1>6 DEF Holds
  <2>2. p \in Seq(L) /\ p # << >>
    OBVIOUS
  <2>3. p[1] = Wild /\ Within(Tail(p), s)
    BY <1>3, <2>1, <2>2, TailWithin
  <2> QED BY <2>3 DEF Stumbles
<1>7. CASE f[n] = [node |-> Append(x, Wild), wild |-> TRUE]
  <2>1. Search(t, s) = Nil \/ Search(t, s) = t[Append(x, Wild)]
    <3> DEFINE y == Append(x, Wild)
    <3>1. Reached(t, s)[Len(s)] = [node |-> y, wild |-> TRUE]
      BY <1>7
    <3> HIDE DEF y
    <3>2. Search(t, s) = t[y]
      BY <3>1, EndsWild
    <3> QED BY <3>2 DEF y
  <2>2. Append(x, Wild) \in DOMAIN t
    BY <1>4, <1>7
  <2> QED BY <1>6, <2>1, <2>2
<1>8. CASE f[n] = [node |-> x, wild |-> FALSE]
  <2>1. CASE f[n] = f[n - 1]
    BY <1>8, <2>1 DEF Search
  <2>2. CASE f[n] # f[n - 1]
    <3>1. x = Append(f[n - 1].node, r[n])
      <4>1. ~f[n].wild /\ f[n].node = x
        BY <1>8
      <4> HIDE DEF f, r, n
      <4> QED BY <1>5, <2>2, <4>1 DEF Descend
    <3>2. ASSUME t[x] # Nil PROVE FALSE
      <4>1. x \in DOMAIN t
        BY <1>4, <1>8
      <4>2. PICK p \in P : x = Reverse(p)
        BY <3>2, <4>1 DEF Holds
      <4>3. p \in Seq(L) /\ p # << >> /\ Len(p) \in Nat \ {0}
        OBVIOUS
      <4>4. Within(p, s)
        BY <1>3, <4>2, <4>3, AmongIsWithin
      <4>5. p[1] = s[1]
        <5>1. Len(x) = Len(p) /\ x[Len(p)] = p[Len(p) - Len(p) + 1] /\ Len(p) - Len(p) + 1 = 1
          BY <4>2, <4>3, ReverseSeq
        <5>2. r[n] = s[n - n + 1]
          BY <1>1, ReverseSeq
        <5>3. f[n - 1].node \in Seq(L)
          <6>1. n - 1 \in 0 .. Len(s)
            BY <1>1
          <6>2. f[n - 1].node \in DOMAIN t
            BY <6>1, ReachedNodes DEF Holds
          <6> QED BY <1>2, <6>2, NodesAreSeqs
        <5>4. r[n] \in L
          BY <1>1
        <5>5. x[Len(x)] = r[n]
          <6> DEFINE y == f[n - 1].node
                     l == r[n]
          <6>1. x = Append(y, l) /\ y \in Seq(L) /\ l \in L
            BY <3>1, <5>3, <5>4
          <6> HIDE DEF y, l
          <6>2. x[Len(x)] = l
            BY <6>1
          <6> QED BY <6>2 DEF l
        <5> QED BY <1>1, <5>1, <5>2, <5>5
      <4>6. CASE p[1] # Wild
        BY <4>4, <4>5, <4>6 DEF Stumbles
      <4>7. CASE p[1] = Wild
        <5>1. Within(Tail(p), s)
          BY <4>3, <4>4, WithinTail
        <5> QED BY <4>7, <5>1 DEF Stumbles
      <4> QED BY <4>6, <4>7
    <3>3. Search(t, s) \in {t[x], Nil} \/ (Append(x, Wild) \in DOMAIN t /\ Search(t, s) = t[Append(x, Wild)])
      <4> HIDE DEF f, n
      <4>1. f[n].node = x
        BY <1>8
      <4> QED BY <4>1 DEF Search, Has, f, n
    <3> QED BY <1>6, <3>2, <3>3
  <2> QED BY <2>1, <2>2
<1> QED BY <1>3, <1>7, <1>8

(* Of the patterns that cover a domain there is a longest.                 *)
LEMMA MostSpecificCovers ==
  ASSUME NEW L, NEW P \in SUBSET (Seq(L) \ {<< >>}), NEW s \in Seq(L),
         \E p \in P : Covers(p, s)
  PROVE  MostSpecific(P, s) \in P /\ Covers(MostSpecific(P, s), s)
<1> DEFINE n == Len(s)
           C == {p \in P : Covers(p, s)}
           T == {n + 1 - Len(p) : p \in C}
           Best(p) == Covers(p, s) /\ \A q \in P : Covers(q, s) => Len(q) <= Len(p)
<1>1. CASE s \in P
  BY <1>1 DEF MostSpecific, Covers
<1>2. CASE s \notin P
  <2>1. ASSUME NEW p \in C PROVE Len(p) \in Nat /\ n + 1 - Len(p) \in Nat
    <3>1. p \in Seq(L) /\ p # << >> /\ p # s /\ Covers(p, s) /\ n \in Nat /\ Len(p) \in Nat
      BY <1>2
    <3>2. Len(p) - 1 \in 0 .. n
      BY <3>1, WildForm
    <3> QED BY <3>1, <3>2
  <2>2. T \in SUBSET Nat /\ T # {}
    BY <2>1
  <2>3. PICK x \in T : \A y \in T : x <= y
    <3> HIDE DEF T
    <3> QED BY <2>2, Least
  <2>4. PICK p \in C : x = n + 1 - Len(p)
    BY <2>3
  <2>5. ASSUME NEW q \in P, Covers(q, s) PROVE Len(q) <= Len(p)
    <3>1. q \in C /\ n + 1 - Len(q) \in T
      BY <2>5
    <3>2. n + 1 - Len(p) <= n + 1 - Len(q)
      BY <2>3, <2>4, <3>1
    <3>3. n \in Nat /\ Len(p) \in Nat /\ Len(q) \in Nat
      BY <2>1, <3>1
    <3> QED BY <3>2, <3>3
  <2>6. p \in P /\ Best(p)
    BY <2>5
  <2>7. MostSpecific(P, s) = CHOOSE q \in P : Best(q)
    BY <1>2 DEF MostSpecific
  <2>8. MostSpecific(P, s) \in P /\ Best(MostSpecific(P, s))
    <3> HIDE DEF Best
    <3> QED BY <2>6, <2>7
  <2> QED BY <2>8
<1> QED BY <1>1, <1>2

LEMMA SuffixForm ==
  ASSUME NEW L, NEW s \in Seq(L), NEW k \in 0 .. Len(s) - 1
  PROVE  \E w \in Suffixes(s) :
           Len(w) = k + 1 /\ Reverse(w) = SubSeq(Reverse(s), 1, k + 1)
<1> DEFINE n == Len(s)
           w == SubSeq(s, n - k, n)
           r == Reverse(s)
<1>1. n \in Nat /\ k \in Nat /\ n - k \in 1 .. n
  OBVIOUS
<1>2. /\ w \in Seq(L) /\ Len(w) = k + 1
      /\ \A i \in 1 .. k + 1 : w[i] = s[n - k + i - 1]
  <2>1. Len(w) = k + 1
    BY <1>1
  <2>2. w \in Seq(L)
    BY <1>1
  <2>3. \A i \in 1 .. k + 1 : w[i] = s[n - k + i - 1]
    BY <1>1
  <2> QED BY <2>1, <2>2, <2>3
<1>3. w \in Suffixes(s)
  BY <1>1 DEF Suffixes
<1>4. r \in Seq(L) /\ Len(r) = n /\ \A i \in 1 .. n : r[i] = s[n - i + 1]
  BY ReverseSeq
<1> HIDE DEF w, n, r
<1>5. /\ Reverse(w) \in Seq(L) /\ Len(Reverse(w)) = k + 1
      /\ \A i \in 1 .. k + 1 : Reverse(w)[i] = w[k + 1 - i + 1]
  <2>1. w \in Seq(L) /\ Len(w) = k + 1
    BY <1>2
  <2>2. /\ Reverse(w) \in Seq(L) /\ Len(Reverse(w)) = Len(w)
        /\ \A i \in 1 .. Len(w) : Reverse(w)[i] = w[Len(w) - i + 1]
    BY <2>1, ReverseSeq
  <2> QED BY <2>1, <2>2
<1>6. /\ SubSeq(r, 1, k + 1) \in Seq(L) /\ Len(SubSeq(r, 1, k + 1)) = k + 1
      /\ \A i \in 1 .. k + 1 : SubSeq(r, 1, k + 1)[i] = r[i]
  <2>1. k + 1 \in 0 .. Len(r)
    BY <1>1, <1>4
  <2>2. SubSeq(r, 1, k + 1) \in Seq(L) /\ Len(SubSeq(r, 1, k + 1)) = k + 1
    BY <1>4, <2>1, Upto
  <2>3. \A i \in 1 .. k + 1 : SubSeq(r, 1, k + 1)[i] = r[i]
    BY <1>4, <2>1
  <2> QED BY <2>2, <2>3
<1>7. ASSUME NEW i \in 1 .. k + 1 PROVE Reverse(w)[i] = SubSeq(r, 1, k + 1)[i]
  <2>1. k + 1 - i + 1 \in 1 .. k + 1 /\ n - k + (k + 1 - i + 1) - 1 = n - i + 1 /\ i \in 1 .. n
    BY <1>1
  <2>2. w[k + 1 - i + 1] = s[n - k + (k + 1 - i + 1) - 1]
    BY <1>2, <2>1
  <2>3. r[i] = s[n - i + 1]
    BY <1>4, <2>1
  <2> QED BY <1>5, <1>6, <2>1, <2>2, <2>3
<1>8. Reverse(w) = SubSeq(r, 1, k + 1)
  BY <1>5, <1>6, <1>7
<1> QED BY <1>2, <1>3, <1>8 DEF r

(* Where no other pattern's nodes hide the most specific one, the search   *)
(* leaves them by its wildcard.                                            *)
LEMMA LeavesThere ==
  ASSUME NEW L, NEW P \in SUBSET (Seq(L) \ {<< >>}), NEW t, Holds(t, P), NEW s \in Seq(L),
         NEW m \in P, m = MostSpecific(P, s), ~Hidden(P, s), Len(m) - 1 < Len(s)
  PROVE  SubSeq(Reverse(s), 1, Len(m) - 1 + 1) \notin DOMAIN t
<1> SUFFICES ASSUME SubSeq(Reverse(s), 1, Len(m) - 1 + 1) \in DOMAIN t PROVE FALSE
  OBVIOUS
<1> DEFINE k == Len(m) - 1
           x == SubSeq(Reverse(s), 1, k + 1)
<1>1. m \in Seq(L) /\ m # << >> /\ Len(m) \in Nat \ {0} /\ Len(s) \in Nat
  OBVIOUS
<1>2. k \in 0 .. Len(s) - 1 /\ k + 1 = Len(m) /\ k + 1 \in Nat \ {0}
  BY <1>1
<1>3. x \in DOMAIN t
  OBVIOUS
<1> HIDE DEF k
<1>4. PICK w \in Suffixes(s) : Len(w) = k + 1 /\ Reverse(w) = x
  BY <1>2, SuffixForm
<1>5. Len(x) = k + 1
  <2>1. Reverse(s) \in Seq(L) /\ Len(Reverse(s)) = Len(s)
    BY ReverseSeq
  <2>2. k + 1 \in 0 .. Len(Reverse(s))
    BY <1>1, <1>2, <2>1
  <2> QED BY <2>1, <2>2, Upto
<1> HIDE DEF x
<1>6. x # << >>
  BY <1>2, <1>5
<1>7. PICK q \in P : x \in Prefixes(Reverse(q))
  BY <1>3, <1>6 DEF Holds
<1>8. Reverse(q) \in Seq(L)
  <2>1. q \in Seq(L)
    OBVIOUS
  <2> QED BY <2>1, ReverseSeq
<1>9. PICK i \in 0 .. Len(Reverse(q)) : x = SubSeq(Reverse(q), 1, i)
  BY <1>7 DEF Prefixes
<1>10. i = k + 1 /\ k + 1 <= Len(Reverse(q))
  BY <1>5, <1>8, <1>9, Upto
<1>11. SubSeq(x, 1, k + 1) = x
  <2>1. x \in Seq(L)
    BY <1>8, <1>9, Upto
  <2> QED BY <1>5, <2>1, Upto
<1>12. IsSuffix(w, q)
  BY <1>4, <1>5, <1>9, <1>10, <1>11 DEF IsSuffix, IsPrefix
<1>13. Len(w) >= Len(MostSpecific(P, s))
  BY <1>2, <1>4
<1> QED BY <1>12, <1>13 DEF Hidden

(* The search finds what is meant wherever Clear says so.                  *)
LEMMA SearchRight ==
  ASSUME NEW L, Wild \in L, NEW P \in SUBSET (Seq(L) \ {<< >>}), NEW t, Holds(t, P),
         NEW s \in Seq(L), s # << >>, Clear(P, s)
  PROVE  Search(t, s) = IF \E p \in P : Covers(p, s) THEN t[Reverse(MostSpecific(P, s))]
                        ELSE Nil
<1>0. Wilds(P) /\ P \in SUBSET Seq(L)
  BY DEF Clear, Wilds
<1>1. CASE ~ \E p \in P : Covers(p, s)
  <2>1. ~Stumbles(P, s)
    BY <1>1 DEF Clear
  <2> QED BY <1>0, <1>1, <2>1, FindsNothing
<1>2. CASE \E p \in P : Covers(p, s)
  <2>1. CASE s \in P
    <3>1. MostSpecific(P, s) = s
      BY <2>1 DEF MostSpecific
    <3>2. Search(t, s) = t[Reverse(s)]
      BY <1>0, <2>1, FindsItself
    <3> QED BY <1>2, <3>1, <3>2
  <2>2. CASE s \notin P
    <3> DEFINE m == MostSpecific(P, s)
               k == Len(m) - 1
    <3>1. m \in P /\ Covers(m, s)
      BY <1>2, MostSpecificCovers
    <3>2. ~Hidden(P, s)
      BY <1>2, <2>2 DEF Clear
    <3>3. m \in Seq(L) /\ m # << >> /\ m # s
      BY <2>2, <3>1
    <3>4. k \in 0 .. Len(s) /\ Reverse(m) = Append(SubSeq(Reverse(s), 1, k), Wild)
      BY <3>1, <3>3, WildForm
    <3>5. k < Len(s) => SubSeq(Reverse(s), 1, k + 1) \notin DOMAIN t
      BY <3>1, <3>2, LeavesThere
    <3> HIDE DEF m, k
    <3>6. Leaves(t, s, m, k)
      BY <3>4, <3>5 DEF Leaves
    <3>7. Search(t, s) = t[Reverse(m)]
      <4>1. m \in P /\ k \in 0 .. Len(s)
        BY <3>1, <3>4
      <4> QED BY <1>0, <2>2, <3>6, <4>1, FindsWild
    <3> QED BY <1>2, <3>7 DEF m
  <2> QED BY <2>1, <2>2
<1> QED BY <1>1, <1>2

-----------------------------------------------------------------------------
(* What the lines are made of.                                             *)
Label ==
  {Wild} \cup {l[2][i] : l \in Line, i \in Nat} \cup {m.domain[i] : m \in Flow, i \in Nat}

Field == {l[i] : l \in Line, i \in Nat} \cup {"none"} \cup {UsualOrder[i] : i \in 1 .. 5}

LEMMA LinesAreSeqs == ASSUME NEW l \in Line PROVE l \in Seq(Field)
<1>1. Len(l) \in Nat /\ l = [i \in 1 .. Len(l) |-> l[i]]
  BY ConfigAssumption DEF IsSequence
<1>2. \A i \in 1 .. Len(l) : l[i] \in Field
  BY <1>1 DEF Field
<1> QED BY <1>1, <1>2

LEMMA PatternsAreSeqs ==
  ASSUME NEW l \in Line, l[1] = "DOMAIN", Len(l) > 1
  PROVE  l[2] \in Seq(Label) \ {<< >>}
<1> DEFINE p == l[2]
<1>1. Len(p) \in Nat /\ p = [i \in 1 .. Len(p) |-> p[i]] /\ Len(p) > 0
  BY ConfigAssumption DEF IsSequence
<1>2. \A i \in 1 .. Len(p) : p[i] \in Label
  BY <1>1 DEF Label
<1> HIDE DEF p
<1>3. p \in Seq(Label) \ {<< >>}
  BY <1>1, <1>2
<1> QED BY <1>3 DEF p

LEMMA DomainsAreSeqs ==
  ASSUME NEW m \in Flow, m.domain # Nil PROVE m.domain \in Seq(Label) \ {<< >>}
<1> DEFINE p == m.domain
<1>1. Len(p) \in Nat /\ p = [i \in 1 .. Len(p) |-> p[i]] /\ Len(p) > 0
  BY ConfigAssumption DEF IsSequence
<1>2. \A i \in 1 .. Len(p) : p[i] \in Label
  BY <1>1 DEF Label
<1> HIDE DEF p
<1>3. p \in Seq(Label) \ {<< >>}
  BY <1>1, <1>2
<1> QED BY <1>3 DEF p

(* The fields of a line that does not make the parser panic.               *)
LEMMA FieldsOf ==
  ASSUME NEW l \in Line, ~Panics(l)
  PROVE  /\ Full(l) \in Seq(Field) /\ Len(Full(l)) > 0 /\ Tail(Full(l)) \in Seq(Field)
         /\ Ends(l) => l[1] = "DEFAULT"
         /\ ~Ends(l) /\ ~IsPrior(l) => Len(l) > 2 /\ ValidType(l[1])
         /\ ~IsPrior(l) => EgressOf(l) # Nil
<1>1. l \in Seq(Field) /\ Len(l) > 1
  BY LinesAreSeqs DEF Panics
<1>2. Full(l) \in Seq(Field) /\ Len(Full(l)) > 0
  BY <1>1 DEF Full, Field
<1>3. ~Ends(l) /\ ~IsPrior(l) => Len(l) > 2 /\ ValidType(l[1])
  BY <1>1 DEF Panics, Full
<1>4. ~IsPrior(l) => EgressOf(l) # Nil
  <2>1. \A i \in 1 .. Len(l) : l[i] # Nil
    BY <1>1, ConfigAssumption
  <2> QED BY <1>1, <1>3, <2>1 DEF EgressOf
<1>5. Tail(Full(l)) \in Seq(Field)
  BY <1>2
<1> QED BY <1>2, <1>3, <1>4, <1>5 DEF Ends

-----------------------------------------------------------------------------
(* Greatest and least of a set of numbers, as Config takes them.           *)
LEMMA MaxIs ==
  ASSUME NEW T \in SUBSET Nat, NEW x \in T, \A y \in T : y <= x PROVE Max(T) = x
<1>1. \A y \in T : x >= y
  OBVIOUS
<1>2. Max(T) \in T /\ \A y \in T : Max(T) >= y
  BY <1>1 DEF Max
<1>3. Max(T) >= x /\ Max(T) <= x /\ Max(T) \in Nat /\ x \in Nat
  BY <1>2
<1> HIDE DEF Max
<1> QED BY <1>3

LEMMA Greatest ==
  ASSUME NEW n \in Nat, NEW T \in SUBSET (1 .. n), T # {}
  PROVE  Max(T) \in T /\ \A y \in T : y <= Max(T)
<1> DEFINE U == {n - x : x \in T}
<1>1. U \in SUBSET Nat /\ U # {}
  <2>1. \A x \in T : n - x \in Nat
    OBVIOUS
  <2> QED BY <2>1
<1>2. PICK u \in U : \A y \in U : u <= y
  <2> HIDE DEF U
  <2> QED BY <1>1, Least
<1>3. PICK x \in T : u = n - x
  BY <1>2
<1>4. ASSUME NEW y \in T PROVE x >= y
  <2>1. n - y \in U
    OBVIOUS
  <2>2. n - x <= n - y
    BY <1>2, <1>3, <2>1
  <2> QED BY <2>2
<1>5. Max(T) \in T /\ \A y \in T : Max(T) >= y
  BY <1>4 DEF Max
<1> QED BY <1>5

LEMMA MinIs ==
  ASSUME NEW T \in SUBSET Nat, T # {} PROVE Min(T) \in T
<1>1. PICK x \in T : \A y \in T : x <= y
  BY Least
<1> QED BY <1>1 DEF Min

-----------------------------------------------------------------------------
(* The lines of a type, with a pattern where it has one.                   *)
Having(k, p) ==
  {i \in Counting : lines[i][1] = Written(k) /\ (k = "DEFAULT" \/ lines[i][2] = p)}

Latest(k, p) == EgressOf(lines[Max(Having(k, p))])

(* The lines read so far: DEFAULT alone ends the reading, and no line that *)
(* counts made the parser panic.                                           *)
Reads ==
  /\ lines \in Seq(Line)
  /\ reading => \A i \in DOMAIN lines : ~Ends(lines[i])
  /\ ~reading => \E i \in DOMAIN lines : Ends(lines[i])
  /\ \A i \in Counting : ~Panics(lines[i])

(* What the router keeps is the last line's of each pattern.               *)
MapsKept ==
  /\ DOMAIN rules = MapType
  /\ \A k \in MapType :
       /\ \A p : p \in DOMAIN rules[k] <=> Having(k, p) # {}
       /\ \A p \in DOMAIN rules[k] : rules[k][p] = Latest(k, p)

(* The trie holds the patterns of DOMAIN and no others.                    *)
TrieKept ==
  /\ Holds(domains, Patterns)
  /\ \A p \in Patterns : domains[Reverse(p)] = Latest("DOMAIN", p)

DefaultKept ==
  default = IF Having("DEFAULT", Nil) = {} THEN Nil ELSE Latest("DEFAULT", Nil)

(* The order of the types is the one stated up to now.                     *)
OrderKept ==
  /\ prior \in Seq(Field)
  /\ stage \in {"egress", "group", "rules"} => prior = Order
  /\ stage \in {"ingress", "ingressGroup", "up"} => prior = StatedOrder

(* The egresses are the configuration's and the two always there.         *)
EgressesKept ==
  stage \in {"group", "rules", "ingress", "ingressGroup", "up"} =>
    egresses = Elems(names.egress) \cup {"DIRECT", "REJECT"}

(* The lines that count when one more is read, and when it is passed over. *)
LEMMA ReadsOn ==
  ASSUME Reads, reading, NEW l \in Line, lines' = Append(lines, l), ~Panics(l),
         reading' = (reading /\ ~Ends(l))
  PROVE  /\ Reads' /\ Len(lines) \in Nat /\ Len(lines') = Len(lines) + 1
         /\ Counting = 1 .. Len(lines) /\ Counting' = Counting \cup {Len(lines) + 1}
         /\ lines'[Len(lines) + 1] = l
         /\ \A i \in Counting : lines'[i] = lines[i]
<1> DEFINE n == Len(lines)
<1>1. lines \in Seq(Line) /\ n \in Nat /\ DOMAIN lines = 1 .. n /\ \A i \in 1 .. n : ~Ends(lines[i])
  BY DEF Reads
<1>2. /\ lines' \in Seq(Line) /\ Len(lines') = n + 1 /\ DOMAIN lines' = 1 .. n + 1
      /\ lines'[n + 1] = l /\ \A i \in 1 .. n : lines'[i] = lines[i]
  BY <1>1
<1> HIDE DEF n
<1>3. Counting = 1 .. n
  BY <1>1 DEF Counting
<1>4. Counting' = 1 .. n + 1
  BY <1>1, <1>2 DEF Counting
<1>5. \A i \in 1 .. n + 1 : i = n + 1 \/ i \in 1 .. n
  BY <1>1
<1>6. 1 .. n + 1 = (1 .. n) \cup {n + 1} /\ n + 1 \in 1 .. n + 1
  BY <1>1
<1>7. \A i \in Counting' : ~Panics(lines'[i])
  BY <1>2, <1>3, <1>4, <1>5 DEF Reads
<1>8. reading' => \A i \in DOMAIN lines' : ~Ends(lines'[i])
  BY <1>1, <1>2, <1>5
<1>9. ~reading' => \E i \in DOMAIN lines' : Ends(lines'[i])
  BY <1>2, <1>6
<1> QED BY <1>1, <1>2, <1>3, <1>4, <1>6, <1>7, <1>8, <1>9 DEF Reads, n

LEMMA PassesOver ==
  ASSUME Reads, ~reading, NEW l \in Line, lines' = Append(lines, l), ~reading'
  PROVE  /\ Reads' /\ Counting' = Counting /\ Len(lines') = Len(lines) + 1
         /\ Len(lines) + 1 \notin Counting'
         /\ \A i \in DOMAIN lines : lines'[i] = lines[i]
<1> DEFINE n == Len(lines)
<1>1. lines \in Seq(Line) /\ n \in Nat /\ DOMAIN lines = 1 .. n
  BY DEF Reads
<1>2. /\ lines' \in Seq(Line) /\ Len(lines') = n + 1 /\ DOMAIN lines' = 1 .. n + 1
      /\ \A i \in 1 .. n : lines'[i] = lines[i]
  BY <1>1
<1>3. PICK e \in 1 .. n : Ends(lines[e])
  BY <1>1 DEF Reads
<1> HIDE DEF n
<1>4. n + 1 \notin Counting'
  <2>1. e \in 1 .. (n + 1) - 1 /\ Ends(lines'[e])
    BY <1>1, <1>2, <1>3
  <2> QED BY <2>1 DEF Counting
<1>5. ASSUME NEW i \in 1 .. n PROVE i \in Counting' <=> i \in Counting
  <2>1. \A j \in 1 .. i - 1 : j \in 1 .. n /\ lines'[j] = lines[j]
    BY <1>1, <1>2
  <2>2. i \in 1 .. n + 1
    BY <1>1
  <2> QED BY <1>1, <1>2, <2>1, <2>2 DEF Counting
<1>6. Counting' = Counting
  <2>1. Counting \subseteq 1 .. n /\ Counting' \subseteq 1 .. n + 1
    BY <1>1, <1>2 DEF Counting
  <2>2. \A i \in 1 .. n + 1 : i \in 1 .. n \/ i = n + 1
    BY <1>1
  <2>3. \A i \in 1 .. n : i \in 1 .. n + 1
    BY <1>1
  <2> QED BY <1>4, <1>5, <2>1, <2>2, <2>3
<1>7. \A i \in Counting' : ~Panics(lines'[i])
  BY <1>1, <1>2, <1>6 DEF Reads, Counting
<1>8. \E i \in DOMAIN lines' : Ends(lines'[i])
  <2>1. e \in 1 .. n + 1
    BY <1>1
  <2> QED BY <1>2, <1>3, <2>1
<1> QED BY <1>1, <1>2, <1>4, <1>6, <1>7, <1>8 DEF Reads, n

(* One more line is the latest of its type and pattern, and of no other.   *)
Of(l, k, p) == l[1] = Written(k) /\ (k = "DEFAULT" \/ l[2] = p)

LEMMA HavingGrows ==
  ASSUME Len(lines) \in Nat, Counting = 1 .. Len(lines), NEW l,
         Counting' = Counting \cup {Len(lines) + 1}, lines'[Len(lines) + 1] = l,
         \A i \in Counting : lines'[i] = lines[i], NEW k, NEW p
  PROVE  /\ Of(l, k, p) => Having(k, p)' # {} /\ Latest(k, p)' = EgressOf(l)
         /\ ~Of(l, k, p) =>
              /\ Having(k, p)' = Having(k, p)
              /\ Having(k, p) # {} => Latest(k, p)' = Latest(k, p)
<1> DEFINE n == Len(lines)
           H == Having(k, p)
           G == Having(k, p)'
<1>1. n \in Nat /\ H \subseteq 1 .. n
  BY DEF Having
<1>2. /\ \A i \in 1 .. n : i \in G <=> i \in H
      /\ n + 1 \in G <=> Of(l, k, p)
      /\ G \subseteq (1 .. n) \cup {n + 1}
  BY <1>1 DEF Having, Of
<1>3. \A i \in 1 .. n : lines'[i] = lines[i]
  OBVIOUS
<1>4. Latest(k, p)' = EgressOf(lines'[Max(G)]) /\ Latest(k, p) = EgressOf(lines[Max(H)])
      /\ lines'[n + 1] = l
  BY DEF Latest, EgressOf, Ends, Full
<1> HIDE DEF n, G, H
<1>5. CASE Of(l, k, p)
  <2>1. n + 1 \in G /\ G \in SUBSET Nat /\ \A y \in G : y <= n + 1
    BY <1>1, <1>2, <1>5
  <2>2. Max(G) = n + 1
    BY <2>1, MaxIs
  <2>3. G # {}
    BY <2>1
  <2> QED BY <1>4, <1>5, <2>2, <2>3 DEF G
<1>6. CASE ~Of(l, k, p)
  <2>1. G = H
    BY <1>1, <1>2, <1>6
  <2>2. H # {} => lines'[Max(H)] = lines[Max(H)]
    BY <1>1, <1>3, Greatest
  <2> QED BY <1>4, <1>6, <2>1, <2>2 DEF G, H
<1> QED BY <1>5, <1>6

LEMMA HavingStays ==
  ASSUME Len(lines) \in Nat, Counting \subseteq 1 .. Len(lines), Counting' = Counting,
         \A i \in Counting : lines'[i] = lines[i], NEW k, NEW p
  PROVE  /\ Having(k, p)' = Having(k, p)
         /\ Having(k, p) # {} => Latest(k, p)' = Latest(k, p)
<1> DEFINE H == Having(k, p)
<1>1. H \in SUBSET (1 .. Len(lines)) /\ H \subseteq Counting
  BY DEF Having
<1>2. Having(k, p)' = H
  BY DEF Having
<1>3. Latest(k, p)' = EgressOf(lines'[Max(Having(k, p)')]) /\ Latest(k, p) = EgressOf(lines[Max(H)])
  BY DEF Latest, EgressOf, Ends, Full
<1> HIDE DEF H
<1>4. H # {} => Max(H) \in Counting
  BY <1>1, Greatest
<1> QED BY <1>2, <1>3, <1>4 DEF H

LEMMA KeptIs ==
  /\ \A k \in MapType, c \in DOMAIN Kept : Written(k) = c <=> k = Kept[c]
  /\ \A c \in DOMAIN Kept : Kept[c] \in MapType /\ c \notin {"DEFAULT", "DOMAIN"} /\ ~ (c \in {"PRIOR", "Prior", "prior"})
  /\ \A k \in MapType : Written(k) \in DOMAIN Kept
  /\ Written("DOMAIN") = "DOMAIN" /\ Written("DEFAULT") = "DEFAULT"
BY DEF MapType, Kept, Written

-----------------------------------------------------------------------------
(* The order, line by line.                                                *)
(* The order after each line.                                              *)
Steps(f) ==
  f = [i \in 0 .. Len(lines) |->
         IF i = 0 THEN << >>
         ELSE IF i \in Counting /\ IsPrior(lines[i])
              THEN f[i - 1] \o Tail(Full(lines[i])) ELSE f[i - 1]]

InSteps == Len(lines) \in Nat => \E f : Steps(f) /\ Order = f[Len(lines)]

LEMMA OrderForm == InSteps
<1> SUFFICES ASSUME Len(lines) \in Nat PROVE \E f : Steps(f) /\ Order = f[Len(lines)]
  BY DEF InSteps
<1> DEFINE n == Len(lines)
           Next1(f, i) == IF i \in Counting /\ IsPrior(lines[i])
                          THEN f[i - 1] \o Tail(Full(lines[i])) ELSE f[i - 1]
           Up(f, k) == f = [i \in 0 .. k |-> IF i = 0 THEN << >> ELSE Next1(f, i)]
           S == {k \in 0 .. n : \E f : Up(f, k)}
<1>1. 0 \in S
  <2>1. Up([i \in 0 .. 0 |-> << >>], 0)
    OBVIOUS
  <2>2. 0 \in 0 .. n
    OBVIOUS
  <2> HIDE DEF Up
  <2> QED BY <2>1, <2>2
<1>2. ASSUME NEW k \in 1 .. n, k - 1 \in S PROVE k \in S
  <2>1. PICK f : Up(f, k - 1)
    BY <1>2
  <2> DEFINE g == [i \in 0 .. k |-> IF i = k THEN Next1(f, k) ELSE f[i]]
  <2>2. \A i \in 0 .. k - 1 : g[i] = f[i]
    OBVIOUS
  <2>3. ASSUME NEW i \in 0 .. k
        PROVE  g[i] = IF i = 0 THEN << >> ELSE Next1(g, i)
    <3>1. CASE i = k
      BY <2>2, <3>1
    <3>2. CASE i # k /\ i # 0
      <4>1. i \in 0 .. k - 1 /\ i - 1 \in 0 .. k - 1
        BY <3>2
      <4>2. f[i] = Next1(f, i)
        BY <2>1, <3>2, <4>1
      <4> QED BY <2>2, <3>2, <4>1, <4>2
    <3>3. CASE i = 0
      BY <2>1, <2>2, <3>3
    <3> QED BY <3>1, <3>2, <3>3
  <2> HIDE DEF g
  <2>4. g = [i \in 0 .. k |-> g[i]]
    BY DEF g
  <2>5. Up(g, k)
    BY <2>3, <2>4
  <2> HIDE DEF Up
  <2> QED BY <2>5
<1>3. n \in S
  <2>1. n \in Nat /\ n \in 0 .. n
    OBVIOUS
  <2> HIDE DEF S, n
  <2>2. \A i \in 0 .. n : i \in S
    BY <1>1, <1>2, <2>1, Stepwise
  <2> QED BY <2>1, <2>2
<1>4. \E f : Up(f, n)
  BY <1>3
<1>5. Order = (CHOOSE f : Up(f, n))[n]
  BY DEF Order
<1>6. \A f : Up(f, n) <=> Steps(f)
  BY DEF Steps
<1> HIDE DEF Up, n
<1> QED BY <1>4, <1>5, <1>6 DEF n

LEMMA OrderNext ==
  ASSUME Len(lines) \in Nat, Len(lines') = Len(lines) + 1,
         \A i \in 1 .. Len(lines) : lines'[i] = lines[i] /\ (i \in Counting' <=> i \in Counting)
  PROVE  Order' = IF Len(lines) + 1 \in Counting' /\ IsPrior(lines'[Len(lines) + 1])
                  THEN Order \o Tail(Full(lines'[Len(lines) + 1])) ELSE Order
<1> DEFINE n == Len(lines)
<1>1. PICK f : Steps(f) /\ Order = f[n]
  BY OrderForm DEF InSteps
<1>2. InSteps'
  BY OrderForm, PTL
<1>3. PICK g : Steps(g)' /\ Order' = g[n + 1]
  BY <1>2 DEF InSteps
<1>4. ASSUME NEW i \in 0 .. n
      PROVE  f[i] = IF i = 0 THEN << >>
                    ELSE IF i \in Counting /\ IsPrior(lines[i])
                         THEN f[i - 1] \o Tail(Full(lines[i])) ELSE f[i - 1]
  BY <1>1 DEF Steps
<1>5. ASSUME NEW i \in 0 .. n + 1
      PROVE  g[i] = IF i = 0 THEN << >>
                    ELSE IF i \in Counting' /\ IsPrior(lines'[i])
                         THEN g[i - 1] \o Tail(Full(lines'[i])) ELSE g[i - 1]
  BY <1>3 DEF Steps, IsPrior, Full
<1> DEFINE S == {i \in 0 .. n : g[i] = f[i]}
<1>6. n \in Nat /\ n + 1 \in 0 .. n + 1 /\ n + 1 # 0 /\ n + 1 - 1 = n /\ 0 \in 0 .. n /\ 0 \in 0 .. n + 1
  OBVIOUS
<1>7. \A i \in 1 .. n : lines'[i] = lines[i] /\ (i \in Counting' <=> i \in Counting)
  OBVIOUS
<1> HIDE DEF n
<1>8. 0 \in S
  BY <1>4, <1>5, <1>6
<1>9. ASSUME NEW i \in 1 .. n, i - 1 \in S PROVE i \in S
  <2>1. i \in 0 .. n /\ i \in 0 .. n + 1 /\ i # 0 /\ g[i - 1] = f[i - 1]
    BY <1>6, <1>9
  <2>2. f[i] = IF i \in Counting /\ IsPrior(lines[i])
               THEN f[i - 1] \o Tail(Full(lines[i])) ELSE f[i - 1]
    BY <1>4, <2>1
  <2>3. g[i] = IF i \in Counting' /\ IsPrior(lines'[i])
               THEN g[i - 1] \o Tail(Full(lines'[i])) ELSE g[i - 1]
    BY <1>5, <2>1
  <2>4. lines'[i] = lines[i] /\ (i \in Counting' <=> i \in Counting)
    BY <1>7
  <2>5. g[i] = f[i]
    BY <2>1, <2>2, <2>3, <2>4
  <2> QED BY <2>1, <2>5
<1>10. n \in S
  <2> HIDE DEF S
  <2>1. \A i \in 0 .. n : i \in S
    BY <1>6, <1>8, <1>9, Stepwise
  <2> QED BY <1>6, <2>1
<1>11. g[n + 1] = IF n + 1 \in Counting' /\ IsPrior(lines'[n + 1])
                  THEN g[n] \o Tail(Full(lines'[n + 1])) ELSE g[n]
  BY <1>5, <1>6
<1> QED BY <1>1, <1>3, <1>10, <1>11 DEF n

-----------------------------------------------------------------------------
(* A pattern more is its nodes more, with its data at the last.            *)
LEMMA HoldsEmpty == Holds(Empty, {})
BY DEF Holds, Empty

LEMMA ItsOwnPrefix == ASSUME NEW L, NEW x \in Seq(L) PROVE x \in Prefixes(x)
<1> DEFINE n == Len(x)
<1>1. n \in 0 .. Len(x) /\ x = SubSeq(x, 1, n)
  OBVIOUS
<1> HIDE DEF n
<1>2. SubSeq(x, 1, n) \in Prefixes(x)
  BY <1>1 DEF Prefixes
<1>3. x = SubSeq(x, 1, n)
  BY <1>1
<1> QED BY <1>2, <1>3, Zenon

Adds(t, P, p, e) ==
  /\ Holds(Insert(t, p, e), P \cup {p})
  /\ Insert(t, p, e)[Reverse(p)] = e
  /\ \A q \in P : q # p => Insert(t, p, e)[Reverse(q)] = t[Reverse(q)]

LEMMA HoldsInsert ==
  ASSUME NEW L, NEW P \in SUBSET Seq(L), NEW t, Holds(t, P), NEW p \in Seq(L), NEW e, e # Nil
  PROVE  Adds(t, P, p, e)
<1> DEFINE u == Insert(t, p, e)
           r == Reverse(p)
           D == DOMAIN t \cup Prefixes(r)
<1>1. DOMAIN u = D /\ \A n \in D : u[n] = IF n = r THEN e ELSE IF n \in DOMAIN t THEN t[n] ELSE Nil
  BY DEF Insert
<1>2. \A q \in Seq(L) : Reverse(q) \in Prefixes(Reverse(q))
  BY ReverseSeq, ItsOwnPrefix
<1>3. r \in D /\ u[r] = e
  BY <1>1, <1>2
<1>4. \A q \in P : Reverse(q) \in DOMAIN t
  BY <1>2 DEF Holds
<1>5. ASSUME NEW q \in P, q # p PROVE u[Reverse(q)] = t[Reverse(q)]
  <2>1. Reverse(q) # r
    BY <1>5, ReverseOnce
  <2> QED BY <1>1, <1>4, <2>1
<1> HIDE DEF u
<1>6. << >> \in DOMAIN u
  BY <1>1 DEF Holds
<1>7. ASSUME NEW x \in DOMAIN u, x # << >> PROVE \E q \in P \cup {p} : x \in Prefixes(Reverse(q))
  BY <1>1, <1>7 DEF Holds
<1>8. ASSUME NEW q \in P \cup {p} PROVE Prefixes(Reverse(q)) \subseteq DOMAIN u /\ u[Reverse(q)] # Nil
  BY <1>1, <1>3, <1>5 DEF Holds
<1>9. ASSUME NEW x \in DOMAIN u, u[x] # Nil PROVE \E q \in P \cup {p} : x = Reverse(q)
  BY <1>1, <1>9 DEF Holds
<1> QED BY <1>3, <1>5, <1>6, <1>7, <1>8, <1>9 DEF Adds, Holds, u

-----------------------------------------------------------------------------
(* Reading a line keeps what the router has the latest.                    *)
Grows(l) ==
  /\ Len(lines) \in Nat /\ Counting = 1 .. Len(lines)
  /\ Counting' = Counting \cup {Len(lines) + 1} /\ lines'[Len(lines) + 1] = l
  /\ \A i \in Counting : lines'[i] = lines[i]

(* No line was of this type: what the map for it has stays the latest.     *)
LEMMA MapStays ==
  ASSUME Reads, MapsKept, NEW l, Grows(l), NEW k \in MapType, l[1] # Written(k),
         rules'[k] = rules[k]
  PROVE  /\ \A p : p \in DOMAIN rules'[k] <=> Having(k, p)' # {}
         /\ \A p \in DOMAIN rules'[k] : rules'[k][p] = Latest(k, p)'
<1>1. \A p : /\ Having(k, p)' = Having(k, p)
             /\ Having(k, p) # {} => Latest(k, p)' = Latest(k, p)
  <2> TAKE p
  <2>1. ~Of(l, k, p)
    BY DEF Of
  <2> QED BY <2>1, HavingGrows DEF Grows
<1> QED BY <1>1 DEF MapsKept

LEMMA MapGrows ==
  ASSUME Reads, MapsKept, NEW l, Grows(l), NEW k \in MapType, l[1] = Written(k),
         rules'[k] = SetEntry(rules[k], l[2], EgressOf(l))
  PROVE  /\ \A p : p \in DOMAIN rules'[k] <=> Having(k, p)' # {}
         /\ \A p \in DOMAIN rules'[k] : rules'[k][p] = Latest(k, p)'
<1>1. k # "DEFAULT"
  BY DEF MapType
<1>2. /\ DOMAIN rules'[k] = DOMAIN rules[k] \cup {l[2]}
      /\ rules'[k][l[2]] = EgressOf(l)
      /\ \A p \in DOMAIN rules[k] : p # l[2] => rules'[k][p] = rules[k][p]
  BY DEF SetEntry
<1>3. ASSUME NEW p
      PROVE  /\ p = l[2] => Having(k, p)' # {} /\ Latest(k, p)' = EgressOf(l)
             /\ p # l[2] => /\ Having(k, p)' = Having(k, p)
                            /\ Having(k, p) # {} => Latest(k, p)' = Latest(k, p)
  <2>1. Of(l, k, p) <=> p = l[2]
    BY <1>1 DEF Of
  <2> QED BY <2>1, HavingGrows DEF Grows
<1>4. \A p : p \in DOMAIN rules[k] <=> Having(k, p) # {}
  BY DEF MapsKept
<1>5. \A p \in DOMAIN rules[k] : rules[k][p] = Latest(k, p)
  BY DEF MapsKept
<1>6. ASSUME NEW p PROVE p \in DOMAIN rules'[k] <=> Having(k, p)' # {}
  BY <1>2, <1>3, <1>4
<1>7. ASSUME NEW p \in DOMAIN rules'[k] PROVE rules'[k][p] = Latest(k, p)'
  BY <1>2, <1>3, <1>4, <1>5
<1> QED BY <1>6, <1>7

LEMMA DefaultStays ==
  ASSUME Reads, DefaultKept, NEW l, Grows(l), l[1] # "DEFAULT", default' = default
  PROVE  DefaultKept'
<1>1. ~Of(l, "DEFAULT", Nil)
  BY DEF Of, Written
<1> QED BY <1>1, HavingGrows DEF Grows, DefaultKept

LEMMA DefaultSet ==
  ASSUME Reads, NEW l, Grows(l), l[1] = "DEFAULT", default' = EgressOf(l)
  PROVE  DefaultKept'
<1>1. Of(l, "DEFAULT", Nil)
  BY DEF Of, Written
<1> QED BY <1>1, HavingGrows DEF Grows, DefaultKept

LEMMA PatternsSaid ==
  /\ \A p : p \in Patterns <=> Having("DOMAIN", p) # {}
  /\ Reads => Patterns \in SUBSET (Seq(Label) \ {<< >>})
<1>1. \A p : p \in Patterns <=> Having("DOMAIN", p) # {}
  BY DEF Patterns, Having, Written
<1>2. ASSUME Reads, NEW p \in Patterns PROVE p \in Seq(Label) \ {<< >>}
  <2>1. PICK i \in Counting : lines[i][1] = "DOMAIN" /\ p = lines[i][2]
    BY DEF Patterns
  <2>2. lines[i] \in Line /\ ~Panics(lines[i])
    BY <1>2, <2>1 DEF Reads, Counting
  <2>3. Len(lines[i]) > 1
    <3>1. lines[i] \in Seq(Field)
      BY <2>2, LinesAreSeqs
    <3> QED BY <2>2, <3>1 DEF Panics
  <2> QED BY <2>1, <2>2, <2>3, PatternsAreSeqs
<1> QED BY <1>1, <1>2

LEMMA PatternsSaidNext == \A p : p \in Patterns' <=> Having("DOMAIN", p)' # {}
BY DEF Patterns, Having, Written

LEMMA TrieStays ==
  ASSUME Reads, TrieKept, NEW l, Grows(l), l[1] # "DOMAIN", domains' = domains
  PROVE  TrieKept'
<1>1. \A p : /\ Having("DOMAIN", p)' = Having("DOMAIN", p)
             /\ Having("DOMAIN", p) # {} => Latest("DOMAIN", p)' = Latest("DOMAIN", p)
  <2> TAKE p
  <2>1. ~Of(l, "DOMAIN", p)
    BY DEF Of, Written
  <2> QED BY <2>1, HavingGrows DEF Grows
<1>2. Patterns' = Patterns
  <2>1. \A p : p \in Patterns' <=> p \in Patterns
    BY <1>1, PatternsSaid, PatternsSaidNext
  <2>2. \A p \in Patterns : p \in Patterns'
    BY <2>1
  <2>3. \A p \in Patterns' : p \in Patterns
    BY <2>1
  <2> QED BY <2>2, <2>3
<1>3. \A p \in Patterns : Latest("DOMAIN", p)' = Latest("DOMAIN", p)
  BY <1>1, PatternsSaid
<1>4. Holds(domains', Patterns')
  BY <1>2 DEF TrieKept
<1>5. \A p \in Patterns' : domains'[Reverse(p)] = Latest("DOMAIN", p)'
  BY <1>2, <1>3 DEF TrieKept
<1> QED BY <1>4, <1>5 DEF TrieKept, Holds

LEMMA TrieGrows ==
  ASSUME Reads, TrieKept, NEW l, Grows(l), l[1] = "DOMAIN", EgressOf(l) # Nil,
         l[2] \in Seq(Label), domains' = Insert(domains, l[2], EgressOf(l))
  PROVE  TrieKept'
<1> DEFINE q == l[2]
<1>1. ASSUME NEW p
      PROVE  /\ p = q => Having("DOMAIN", p)' # {} /\ Latest("DOMAIN", p)' = EgressOf(l)
             /\ p # q => /\ Having("DOMAIN", p)' = Having("DOMAIN", p)
                         /\ Having("DOMAIN", p) # {} => Latest("DOMAIN", p)' = Latest("DOMAIN", p)
  <2>1. Of(l, "DOMAIN", p) <=> p = q
    BY DEF Of, Written
  <2> QED BY <2>1, HavingGrows DEF Grows
<1>2. Patterns' = Patterns \cup {q}
  <2>1. \A p : p \in Patterns' <=> p \in Patterns \/ p = q
    BY <1>1, PatternsSaid, PatternsSaidNext
  <2>2. \A p \in Patterns \cup {q} : p \in Patterns'
    BY <2>1
  <2>3. \A p \in Patterns' : p \in Patterns \cup {q}
    BY <2>1
  <2> QED BY <2>2, <2>3
<1>3. Patterns \in SUBSET Seq(Label) /\ Holds(domains, Patterns)
  BY PatternsSaid DEF TrieKept
<1> DEFINE e == EgressOf(l)
<1>4. e # Nil /\ q \in Seq(Label) /\ domains' = Insert(domains, q, e)
  OBVIOUS
<1> HIDE DEF e, q
<1>5. /\ Holds(Insert(domains, q, e), Patterns \cup {q})
      /\ Insert(domains, q, e)[Reverse(q)] = e
      /\ \A p \in Patterns : p # q => Insert(domains, q, e)[Reverse(p)] = domains[Reverse(p)]
  <2>1. Adds(domains, Patterns, q, e)
    BY <1>3, <1>4, HoldsInsert
  <2> QED BY <2>1 DEF Adds
<1>6. Holds(domains', Patterns')
  BY <1>2, <1>4, <1>5
<1>7. ASSUME NEW p \in Patterns' PROVE domains'[Reverse(p)] = Latest("DOMAIN", p)'
  <2>1. CASE p = q
    BY <1>1, <1>4, <1>5, <2>1 DEF e
  <2>2. CASE p # q
    <3>1. p \in Patterns
      BY <1>2, <2>2
    <3>2. domains'[Reverse(p)] = domains[Reverse(p)]
      BY <1>4, <1>5, <2>2, <3>1
    <3>3. domains[Reverse(p)] = Latest("DOMAIN", p) /\ Having("DOMAIN", p) # {}
      BY <3>1, PatternsSaid DEF TrieKept
    <3> QED BY <1>1, <2>2, <3>2, <3>3
  <2> QED BY <2>1, <2>2
<1> QED BY <1>6, <1>7 DEF TrieKept, Holds

-----------------------------------------------------------------------------
Keeps == Reads /\ MapsKept /\ TrieKept /\ DefaultKept

(* Steps that read no line.                                                *)
LEMMA SameLines ==
  ASSUME lines' = lines PROVE Order' = Order /\ Counting' = Counting /\ StatedOrder' = StatedOrder
BY DEF Order, Counting, Ends, Full, IsPrior, StatedOrder

LEMMA KeepsSame ==
  ASSUME Keeps, UNCHANGED <<lines, reading, rules, domains, default>> PROVE Keeps'
<1>1. Counting' = Counting
  BY SameLines
<1>2. /\ \A k, p : Having(k, p)' = Having(k, p) /\ Latest(k, p)' = Latest(k, p)
      /\ Patterns' = Patterns
  BY <1>1 DEF Having, Latest, EgressOf, Ends, Full, Patterns
<1>3. Reads'
  BY <1>1 DEF Keeps, Reads
<1>4. MapsKept'
  BY <1>2 DEF Keeps, MapsKept
<1>5. TrieKept'
  BY <1>2 DEF Keeps, TrieKept, Holds
<1>6. DefaultKept'
  BY <1>2 DEF Keeps, DefaultKept
<1> QED BY <1>3, <1>4, <1>5, <1>6 DEF Keeps

LEMMA KeepsPassing ==
  ASSUME Keeps, NEW l \in Line, PassOver(l)
  PROVE  Keeps' /\ Order' = Order
<1>1. /\ Reads /\ ~reading /\ lines' = Append(lines, l) /\ ~reading'
      /\ UNCHANGED <<rules, domains, default>>
  BY DEF PassOver, Keeps, routerVars
<1>2. /\ Reads' /\ Counting' = Counting /\ Len(lines') = Len(lines) + 1
      /\ Len(lines) + 1 \notin Counting'
      /\ \A i \in DOMAIN lines : lines'[i] = lines[i]
  BY <1>1, PassesOver
<1>3. Len(lines) \in Nat /\ DOMAIN lines = 1 .. Len(lines) /\ Counting \subseteq 1 .. Len(lines)
  BY <1>1 DEF Reads, Counting
<1>4. Order' = Order
  <2>1. \A i \in 1 .. Len(lines) : lines'[i] = lines[i] /\ (i \in Counting' <=> i \in Counting)
    BY <1>2, <1>3
  <2> QED BY <1>2, <1>3, <2>1, OrderNext
<1>5. \A i \in Counting : lines'[i] = lines[i]
  BY <1>2, <1>3
<1>6. ASSUME NEW k, NEW p
      PROVE  /\ Having(k, p)' = Having(k, p)
             /\ Having(k, p) # {} => Latest(k, p)' = Latest(k, p)
  BY <1>2, <1>3, <1>5, HavingStays
<1>7. Patterns' = Patterns
  BY <1>2, <1>5 DEF Patterns
<1>8. MapsKept'
  BY <1>1, <1>6 DEF Keeps, MapsKept
<1>9. TrieKept'
  <2>1. \A p \in Patterns : Latest("DOMAIN", p)' = Latest("DOMAIN", p)
    BY <1>6, PatternsSaid
  <2> QED BY <1>1, <1>7, <2>1 DEF Keeps, TrieKept, Holds
<1>10. DefaultKept'
  BY <1>1, <1>6 DEF Keeps, DefaultKept
<1> QED BY <1>2, <1>4, <1>8, <1>9, <1>10 DEF Keeps

(* A rule that is read and not passed over.                                *)
LEMMA KeepsReading ==
  ASSUME Keeps, NEW l \in Line, ReadRule(l)
  PROVE  /\ Keeps' /\ ~Panics(l)
         /\ Order' = IF IsPrior(l) THEN Order \o Tail(Full(l)) ELSE Order
<1>1. Reads /\ reading /\ lines' = Append(lines, l) /\ ~Panics(l)
  BY DEF ReadRule, Keeps
<1>2. reading' = (reading /\ ~Ends(l))
  BY <1>1 DEF ReadRule, IsPrior, Ends
<1>3. /\ Reads' /\ Len(lines) \in Nat /\ Len(lines') = Len(lines) + 1
      /\ Counting = 1 .. Len(lines) /\ Counting' = Counting \cup {Len(lines) + 1}
      /\ lines'[Len(lines) + 1] = l
      /\ \A i \in Counting : lines'[i] = lines[i]
  BY <1>1, <1>2, ReadsOn
<1>4. Grows(l)
  BY <1>3 DEF Grows
<1>5. Order' = IF IsPrior(l) THEN Order \o Tail(Full(l)) ELSE Order
  <2>1. \A i \in 1 .. Len(lines) : lines'[i] = lines[i] /\ (i \in Counting' <=> i \in Counting)
    BY <1>3
  <2>2. Len(lines) + 1 \in Counting'
    BY <1>3
  <2> QED BY <1>3, <2>1, <2>2, OrderNext
<1>6. /\ Ends(l) => l[1] = "DEFAULT"
      /\ ~Ends(l) /\ ~IsPrior(l) => Len(l) > 2 /\ ValidType(l[1])
      /\ ~IsPrior(l) => EgressOf(l) # Nil
  BY <1>1, FieldsOf
<1>7. DOMAIN rules = MapType
  BY DEF Keeps, MapsKept
<1>8. CASE /\ default' = EgressOf(l) /\ l[1] = "DEFAULT"
           /\ UNCHANGED <<rules, domains>>
  <2>1. MapsKept'
    <3>1. ASSUME NEW k \in MapType
          PROVE  /\ \A p : p \in DOMAIN rules'[k] <=> Having(k, p)' # {}
                 /\ \A p \in DOMAIN rules'[k] : rules'[k][p] = Latest(k, p)'
      <4>1. l[1] # Written(k)
        BY <1>8, KeptIs
      <4> QED BY <1>4, <1>8, <4>1, MapStays DEF Keeps
    <3> QED BY <1>7, <1>8, <3>1 DEF MapsKept
  <2>2. TrieKept'
    BY <1>4, <1>8, TrieStays DEF Keeps
  <2>3. DefaultKept'
    BY <1>4, <1>8, DefaultSet DEF Keeps
  <2> QED BY <1>1, <1>3, <1>5, <2>1, <2>2, <2>3 DEF Keeps
<1>9. CASE IsPrior(l) /\ UNCHANGED <<rules, domains, default>>
  <2>0. l[1] \in {"PRIOR", "Prior", "prior"}
    BY <1>9 DEF IsPrior
  <2>1. MapsKept'
    <3>1. ASSUME NEW k \in MapType
          PROVE  /\ \A p : p \in DOMAIN rules'[k] <=> Having(k, p)' # {}
                 /\ \A p \in DOMAIN rules'[k] : rules'[k][p] = Latest(k, p)'
      <4>1. l[1] # Written(k)
        BY <2>0, KeptIs
      <4> QED BY <1>4, <1>9, <4>1, MapStays DEF Keeps
    <3> QED BY <1>7, <1>9, <3>1 DEF MapsKept
  <2>2. TrieKept'
    BY <1>4, <1>9, <2>0, TrieStays DEF Keeps
  <2>3. DefaultKept'
    BY <1>4, <1>9, <2>0, DefaultStays DEF Keeps
  <2> QED BY <1>1, <1>3, <1>5, <2>1, <2>2, <2>3 DEF Keeps
<1>10. CASE ~Ends(l) /\ ~IsPrior(l) /\ InsertRule(l[1], l[2], l[3])
  <2>0. EgressOf(l) = l[3] /\ EgressOf(l) # Nil /\ Len(l) > 2
    BY <1>6, <1>10 DEF EgressOf
  <2>1. CASE l[1] = "DEFAULT"
    <3>1. default' = EgressOf(l) /\ UNCHANGED <<rules, domains>>
      BY <1>10, <2>0, <2>1, KeptIs DEF InsertRule
    <3> QED BY <1>8, <2>1, <3>1
  <2>2. CASE l[1] = "DOMAIN"
    <3>1. domains' = Insert(domains, l[2], EgressOf(l)) /\ UNCHANGED <<rules, default>>
      BY <1>10, <2>0, <2>2, KeptIs DEF InsertRule
    <3>2. l[2] \in Seq(Label)
      <4>1. l[2] \in Seq(Label) \ {<< >>}
        <5>1. Len(l) > 1
          <6>1. Len(l) \in Nat
            BY LinesAreSeqs
          <6> QED BY <2>0, <6>1
        <5> QED BY <2>2, <5>1, PatternsAreSeqs
      <4> QED BY <4>1
    <3>3. MapsKept'
      <4>1. ASSUME NEW k \in MapType
            PROVE  /\ \A p : p \in DOMAIN rules'[k] <=> Having(k, p)' # {}
                   /\ \A p \in DOMAIN rules'[k] : rules'[k][p] = Latest(k, p)'
        <5>1. l[1] # Written(k)
          BY <2>2, KeptIs
        <5> QED BY <1>4, <3>1, <5>1, MapStays DEF Keeps
      <4> QED BY <1>7, <3>1, <4>1 DEF MapsKept
    <3>4. TrieKept'
      BY <1>4, <2>0, <2>2, <3>1, <3>2, TrieGrows DEF Keeps
    <3>5. DefaultKept'
      BY <1>4, <2>2, <3>1, DefaultStays DEF Keeps
    <3> QED BY <1>1, <1>3, <1>5, <3>3, <3>4, <3>5 DEF Keeps
  <2>3. CASE l[1] \in DOMAIN Kept
    <3> DEFINE c == Kept[l[1]]
    <3>0. l[1] \notin {"DEFAULT", "DOMAIN"} /\ c \in MapType /\ Written(c) = l[1]
      BY <2>3, KeptIs
    <3>1. /\ rules' = [rules EXCEPT ![c] = SetEntry(@, l[2], EgressOf(l))]
          /\ UNCHANGED <<domains, default>>
      BY <1>10, <2>0, <2>3, <3>0 DEF InsertRule
    <3> HIDE DEF c
    <3>2. /\ DOMAIN rules' = MapType /\ rules'[c] = SetEntry(rules[c], l[2], EgressOf(l))
          /\ \A k \in MapType : k # c => rules'[k] = rules[k]
      BY <1>7, <3>0, <3>1
    <3>3. MapsKept'
      <4>1. ASSUME NEW k \in MapType
            PROVE  /\ \A p : p \in DOMAIN rules'[k] <=> Having(k, p)' # {}
                   /\ \A p \in DOMAIN rules'[k] : rules'[k][p] = Latest(k, p)'
        <5>1. CASE k = c
          <6>1. l[1] = Written(k) /\ rules'[k] = SetEntry(rules[k], l[2], EgressOf(l))
            BY <3>0, <3>2, <5>1
          <6> QED BY <1>4, <6>1, MapGrows DEF Keeps
        <5>2. CASE k # c
          <6>1. l[1] # Written(k) /\ rules'[k] = rules[k]
            BY <2>3, <3>2, <5>2, KeptIs DEF c
          <6> QED BY <1>4, <6>1, MapStays DEF Keeps
        <5> QED BY <5>1, <5>2
      <4> QED BY <3>2, <4>1 DEF MapsKept
    <3>4. TrieKept'
      BY <1>4, <3>0, <3>1, TrieStays DEF Keeps
    <3>5. DefaultKept'
      BY <1>4, <3>0, <3>1, DefaultStays DEF Keeps
    <3> QED BY <1>1, <1>3, <1>5, <3>3, <3>4, <3>5 DEF Keeps
  <2> QED BY <1>6, <1>10, <2>1, <2>2, <2>3 DEF ValidType
<1>11. CASE Ends(l) /\ InsertRule("DEFAULT", Nil, l[2])
  <2>1. default' = EgressOf(l) /\ UNCHANGED <<rules, domains>>
    BY <1>11, KeptIs DEF InsertRule, EgressOf
  <2> QED BY <1>6, <1>8, <1>11, <2>1
<1> QED BY <1>9, <1>10, <1>11 DEF ReadRule

(* The inductive invariant: unless the parser panicked, what the router    *)
(* keeps is what the lines read so far say.                                *)
Rules == stage # "panic" => Keeps /\ OrderKept /\ EgressesKept

LEMMA RulesInit == ConfigInit => Rules
<1> SUFFICES ASSUME ConfigInit PROVE Rules
  OBVIOUS
<1>1. lines = << >> /\ reading /\ Len(lines) = 0 /\ DOMAIN lines = {} /\ Counting = {}
  BY DEF ConfigInit, Counting
<1>2. Reads
  BY <1>1 DEF Reads
<1>3. \A k, p : Having(k, p) = {}
  BY <1>1 DEF Having
<1>4. Patterns = {}
  BY <1>1 DEF Patterns
<1>5. MapsKept
  BY <1>3 DEF ConfigInit, RouterInit, MapsKept, NoRules
<1>6. TrieKept
  BY <1>4, HoldsEmpty DEF ConfigInit, RouterInit, TrieKept
<1>7. DefaultKept
  BY <1>3 DEF ConfigInit, RouterInit, DefaultKept
<1>8. OrderKept
  <2>1. PICK f : Steps(f) /\ Order = f[Len(lines)]
    BY <1>1, OrderForm DEF InSteps
  <2>2. Order = << >>
    BY <1>1, <2>1 DEF Steps
  <2> QED BY <2>2 DEF ConfigInit, RouterInit, OrderKept
<1>9. EgressesKept
  BY DEF ConfigInit, EgressesKept
<1> QED BY <1>2, <1>5, <1>6, <1>7, <1>8, <1>9 DEF Rules, Keeps

LEMMA RulesInductive == Rules /\ [Next]_vars => Rules'
<1> SUFFICES ASSUME Rules, [Next]_vars, stage' # "panic" PROVE Keeps' /\ OrderKept' /\ EgressesKept'
  BY DEF Rules
<1>1. stage # "panic"
  BY DEF Next, vars, Egress, Group, RulesOver, Ingress, IngressGroup, ReadRule, PassOver, RulePanics
<1>2. Keeps /\ OrderKept /\ EgressesKept
  BY <1>1 DEF Rules
<1>3. CASE \E l \in Line : ReadRule(l)
  <2>1. PICK l \in Line : ReadRule(l)
    BY <1>3
  <2>2. /\ Keeps' /\ ~Panics(l)
        /\ Order' = IF IsPrior(l) THEN Order \o Tail(Full(l)) ELSE Order
    BY <1>2, <2>1, KeepsReading
  <2>3. stage = "rules" /\ stage' = "rules" /\ UNCHANGED <<names, egresses>>
    BY <2>1 DEF ReadRule, parts
  <2>4. prior' = IF IsPrior(l) THEN prior \o Tail(Full(l)) ELSE prior
    <3>1. CASE IsPrior(l)
      <4>1. ~Ends(l)
        BY <3>1 DEF IsPrior, Ends
      <4> QED BY <2>1, <3>1, <4>1 DEF ReadRule
    <3>2. CASE ~IsPrior(l)
      BY <2>1, <3>2 DEF ReadRule, InsertRule
    <3> QED BY <3>1, <3>2
  <2>5. prior \in Seq(Field) /\ Tail(Full(l)) \in Seq(Field)
    BY <1>2, <2>2, FieldsOf DEF OrderKept
  <2>6. prior' \in Seq(Field)
    BY <2>4, <2>5
  <2>7. OrderKept'
    BY <1>2, <2>2, <2>3, <2>4, <2>6 DEF OrderKept
  <2>8. EgressesKept'
    BY <1>2, <2>3 DEF EgressesKept, Elems
  <2> QED BY <2>2, <2>7, <2>8
<1>4. CASE \E l \in Line : PassOver(l)
  <2>1. PICK l \in Line : PassOver(l)
    BY <1>4
  <2>2. Keeps' /\ Order' = Order
    BY <1>2, <2>1, KeepsPassing
  <2>3. stage = "rules" /\ stage' = "rules" /\ prior' = prior /\ UNCHANGED <<names, egresses>>
    BY <2>1 DEF PassOver, parts, routerVars
  <2> QED BY <1>2, <2>2, <2>3 DEF OrderKept, EgressesKept, Elems
<1>5. CASE RulesOver
  <2>1. Keeps'
    BY <1>2, <1>5, KeepsSame DEF RulesOver
  <2>2. stage = "rules" /\ stage' = "ingress" /\ UNCHANGED <<names, egresses>>
    BY <1>5 DEF RulesOver, parts
  <2>3. Order' = Order /\ StatedOrder' = StatedOrder
    BY <1>5, SameLines DEF RulesOver
  <2>4. prior' = StatedOrder
    BY <1>2, <1>5, <2>2 DEF OrderKept, RulesOver, StatedOrder
  <2>5. UsualOrder \in Seq(Field)
    <3>1. \A i \in 1 .. 5 : UsualOrder[i] \in Field
      BY DEF Field
    <3> QED BY <3>1 DEF UsualOrder
  <2>6. prior' \in Seq(Field)
    BY <1>2, <1>5, <2>5 DEF OrderKept, RulesOver
  <2> QED BY <1>2, <2>1, <2>2, <2>3, <2>4, <2>6 DEF OrderKept, EgressesKept, Elems
<1>6. CASE ~RulesOver /\ UNCHANGED <<lines, reading, routerVars>>
  <2>1. Keeps' /\ Order' = Order /\ StatedOrder' = StatedOrder /\ prior' = prior
    BY <1>2, <1>6, KeepsSame, SameLines DEF routerVars
  <2>2. OrderKept'
    <3>1. /\ stage' \in {"egress", "group", "rules"} => stage \in {"egress", "group", "rules"}
          /\ stage' \in {"ingress", "ingressGroup", "up"} => stage \in {"ingress", "ingressGroup", "up"}
      BY <1>6 DEF Next, vars, Egress, Group, Ingress, IngressGroup, ReadRule, PassOver, RulePanics
    <3> QED BY <1>2, <2>1, <3>1 DEF OrderKept
  <2>3. EgressesKept'
    BY <1>2 DEF EgressesKept, Elems, Next, vars, parts, Egress, Group, RulesOver, Ingress, IngressGroup,
                ReadRule, PassOver, RulePanics
  <2> QED BY <2>1, <2>2, <2>3
<1> QED BY <1>3, <1>4, <1>5, <1>6 DEF Next, vars, Egress, Group, Ingress, IngressGroup, RulePanics, routerVars

-----------------------------------------------------------------------------
LEMMA FirstEnds ==
  ASSUME Reads, NEW e \in DOMAIN lines, Ends(lines[e])
  PROVE  Having("DEFAULT", Nil) # {}
<1> DEFINE T == {i \in DOMAIN lines : Ends(lines[i])}
<1>1. DOMAIN lines = 1 .. Len(lines) /\ Len(lines) \in Nat
  BY DEF Reads
<1>2. T \in SUBSET Nat /\ T # {}
  BY <1>1
<1>3. PICK x \in T : \A y \in T : x <= y
  <2> HIDE DEF T
  <2> QED BY <1>2, Least
<1>4. x \in Counting
  <2>1. ASSUME NEW j \in 1 .. x - 1 PROVE ~Ends(lines[j])
    <3>1. j \in DOMAIN lines /\ ~ (x <= j)
      BY <1>1, <1>3
    <3> QED BY <1>3, <3>1
  <2> QED BY <1>3, <2>1 DEF Counting
<1> QED BY <1>3, <1>4 DEF Having, Ends, Written

(* Every datum the router keeps is the egress of a line that counts.       *)
SaidEgress(e) == \E i \in Counting : ~IsPrior(lines[i]) /\ e = EgressOf(lines[i])

LEMMA LatestCounts ==
  ASSUME Reads, NEW k \in MapType \cup {"DOMAIN", "DEFAULT"}, NEW p, Having(k, p) # {}
  PROVE  Latest(k, p) # Nil /\ SaidEgress(Latest(k, p))
<1> DEFINE i == Max(Having(k, p))
<1>1. Having(k, p) \in SUBSET (1 .. Len(lines)) /\ Len(lines) \in Nat
  BY DEF Reads, Having, Counting
<1>2. i \in Having(k, p)
  BY <1>1, Greatest
<1> HIDE DEF i
<1>3. i \in Counting /\ lines[i][1] = Written(k)
  BY <1>2 DEF Having
<1>4. ~IsPrior(lines[i])
  BY <1>3, KeptIs DEF IsPrior
<1>5. lines[i] \in Line /\ ~Panics(lines[i])
  BY <1>3 DEF Reads, Counting
<1>6. EgressOf(lines[i]) # Nil
  BY <1>4, <1>5, FieldsOf
<1> QED BY <1>3, <1>4, <1>6 DEF Latest, SaidEgress, i

LEMMA MatchCounts ==
  ASSUME Keeps, NEW m \in Flow, NEW k, Match(k, m) # Nil
  PROVE  SaidEgress(Match(k, m))
<1>1. CASE k = "DOMAIN"
  <2>1. m.domain # Nil /\ Match(k, m) = Search(domains, m.domain)
    BY <1>1 DEF Match, MapType
  <2>2. m.domain \in Seq(Label) \ {<< >>}
    BY <2>1, DomainsAreSeqs
  <2>3. Len(m.domain) \in Nat \ {0} /\ << >> \in DOMAIN domains
    BY <2>2 DEF Keeps, TrieKept, Holds
  <2>4. PICK x \in DOMAIN domains : Match(k, m) = domains[x]
    BY <2>1, <2>3, SearchFinds
  <2>5. PICK p \in Patterns : x = Reverse(p)
    BY <2>4 DEF Keeps, TrieKept, Holds
  <2>6. domains[x] = Latest("DOMAIN", p) /\ Having("DOMAIN", p) # {}
    BY <2>5, PatternsSaid DEF Keeps, TrieKept
  <2> QED BY <2>4, <2>6, LatestCounts DEF Keeps
<1>2. CASE k = "DEFAULT"
  <2>1. Match(k, m) = default
    BY <1>2 DEF Match, MapType
  <2>2. Having("DEFAULT", Nil) # {} /\ default = Latest("DEFAULT", Nil)
    BY <2>1 DEF Keeps, DefaultKept
  <2> QED BY <2>1, <2>2, LatestCounts DEF Keeps
<1>3. CASE k \in MapType
  <2>1. k \notin {"DOMAIN", "DEFAULT"}
    BY <1>3 DEF MapType
  <2>2. Pattern(k, m) \in DOMAIN rules[k] /\ Match(k, m) = rules[k][Pattern(k, m)]
    BY <1>3, <2>1 DEF Match
  <2>3. /\ Having(k, Pattern(k, m)) # {}
        /\ rules[k][Pattern(k, m)] = Latest(k, Pattern(k, m))
    BY <1>3, <2>2 DEF Keeps, MapsKept
  <2> QED BY <1>3, <2>2, <2>3, LatestCounts DEF Keeps
<1> QED BY <1>1, <1>2, <1>3 DEF Match

(* Dispatch is the match of the first type in the order that has one.      *)
LEMMA DispatchIs ==
  ASSUME Keeps, prior \in Seq(Field), NEW m
  PROVE  \/ Dispatch(m) = default
         \/ \E k : Dispatch(m) = Match(k, m) /\ Match(k, m) # Nil
<1> DEFINE hits == {i \in DOMAIN prior : Match(prior[i], m) # Nil}
<1>1. hits \in SUBSET Nat
  OBVIOUS
<1>2. CASE hits = {}
  BY <1>2 DEF Dispatch
<1>3. CASE hits # {}
  <2> DEFINE i == Min(hits)
  <2>1. Dispatch(m) = Match(prior[i], m)
    BY <1>3 DEF Dispatch
  <2>2. i \in hits
    <3> HIDE DEF hits
    <3> QED BY <1>1, <1>3, MinIs
  <2> QED BY <2>1, <2>2
<1> QED BY <1>2, <1>3

LEMMA EveryFlow == Rules => FlowsHaveEgress
<1> SUFFICES ASSUME Rules, stage = "up", \E i \in DOMAIN lines : Ends(lines[i]),
                    \A i \in Counting : ~IsPrior(lines[i]) =>
                      EgressOf(lines[i]) \in Elems(names.egress) \cup {"DIRECT", "REJECT"},
                    NEW m \in Flow
             PROVE  Dispatch(m) \in egresses
  BY DEF FlowsHaveEgress
<1>1. Keeps /\ prior \in Seq(Field) /\ egresses = Elems(names.egress) \cup {"DIRECT", "REJECT"}
  BY DEF Rules, OrderKept, EgressesKept
<1>2. \A e : SaidEgress(e) => e \in egresses
  BY <1>1 DEF SaidEgress
<1>3. default \in egresses
  <2>1. Having("DEFAULT", Nil) # {}
    BY <1>1, FirstEnds DEF Keeps
  <2>2. default = Latest("DEFAULT", Nil)
    BY <1>1, <2>1 DEF Keeps, DefaultKept
  <2> QED BY <1>1, <1>2, <2>1, <2>2, LatestCounts DEF Keeps
<1> QED BY <1>1, <1>2, <1>3, DispatchIs, MatchCounts

(* Once the program is up, every flow is dispatched to the egress or group *)
(* of a rule of the list, DEFAULT's if no other fits: whatever the list    *)
(* was, Router.Match finds what the program has.                           *)
THEOREM FlowsServed == Spec => []FlowsHaveEgress
BY RulesInit, RulesInductive, EveryFlow, PTL DEF Spec

-----------------------------------------------------------------------------
(* What a type finds for a flow is what its lines say.                     *)
LEMMA MatchRight ==
  ASSUME Keeps, NEW m \in Flow, m.domain = Nil \/ Clear(Patterns, m.domain), NEW k
  PROVE  Match(k, m) = Said(k, m) /\ (Lines(k, m) # {} <=> Said(k, m) # Nil)
<1>0. ASSUME NEW p, k \in MapType \cup {"DOMAIN", "DEFAULT"}, Lines(k, m) = Having(k, p)
      PROVE  /\ Said(k, m) = IF Having(k, p) = {} THEN Nil ELSE Latest(k, p)
             /\ Lines(k, m) # {} <=> Said(k, m) # Nil
  <2>1. Said(k, m) = IF Having(k, p) = {} THEN Nil ELSE Latest(k, p)
    BY <1>0 DEF Said, Latest
  <2> QED BY <1>0, <2>1, LatestCounts DEF Keeps
<1>1. CASE k = "DOMAIN"
  <2>1. CASE m.domain = Nil
    <3>1. Lines(k, m) = {}
      BY <1>1, <2>1 DEF Lines, Fits, MapType
    <3> QED BY <1>1, <2>1, <3>1 DEF Match, Said, MapType
  <2>2. CASE m.domain # Nil
    <3> DEFINE s == m.domain
               P == Patterns
               b == MostSpecific(P, s)
    <3>1. s \in Seq(Label) /\ s # << >>
      BY <2>2, DomainsAreSeqs
    <3>2. P \in SUBSET (Seq(Label) \ {<< >>}) /\ Holds(domains, P) /\ Clear(P, s) /\ Wild \in Label
      BY <2>2, PatternsSaid DEF Keeps, TrieKept, Label
    <3>3. Match(k, m) = Search(domains, s)
      BY <1>1, <2>2 DEF Match, MapType
    <3>4. Lines(k, m) = {i \in Counting : lines[i][1] = "DOMAIN" /\ lines[i][2] \in Meant(P, s)}
      BY <1>1, <2>2 DEF Lines, Fits, MapType, Written
    <3> HIDE DEF s, P
    <3>5. Search(domains, s) = IF \E p \in P : Covers(p, s) THEN domains[Reverse(b)] ELSE Nil
      BY <3>1, <3>2, SearchRight
    <3>6. CASE \E p \in P : Covers(p, s)
      <4>1. b \in P
        BY <3>1, <3>2, <3>6, MostSpecificCovers
      <4>2. Meant(P, s) = {b}
        BY <3>6 DEF Meant
      <4> HIDE DEF b
      <4>3. Lines(k, m) = Having(k, b)
        BY <1>1, <3>4, <4>2 DEF Having, Written
      <4>4. domains[Reverse(b)] = Latest(k, b) /\ Having(k, b) # {}
        BY <1>1, <4>1, PatternsSaid DEF Keeps, TrieKept, P
      <4>5. /\ Said(k, m) = IF Having(k, b) = {} THEN Nil ELSE Latest(k, b)
            /\ Lines(k, m) # {} <=> Said(k, m) # Nil
        BY <1>0, <1>1, <4>3
      <4> QED BY <3>3, <3>5, <3>6, <4>4, <4>5 DEF b
    <3>7. CASE ~ \E p \in P : Covers(p, s)
      <4>1. Meant(P, s) = {}
        BY <3>7 DEF Meant
      <4>2. Lines(k, m) = {}
        BY <3>4, <4>1
      <4> QED BY <3>3, <3>5, <3>7, <4>2 DEF Said
    <3> QED BY <3>6, <3>7
  <2> QED BY <2>1, <2>2
<1>2. CASE k = "DEFAULT"
  <2>1. Lines(k, m) = Having(k, Nil)
    BY <1>2 DEF Lines, Fits, Having
  <2>2. Match(k, m) = default
    BY <1>2 DEF Match, MapType
  <2> QED BY <1>0, <1>2, <2>1, <2>2 DEF Keeps, DefaultKept
<1>3. CASE k \in MapType
  <2>1. k \notin {"DOMAIN", "DEFAULT"}
    BY <1>3 DEF MapType
  <2> DEFINE p == Pattern(k, m)
  <2>2. Lines(k, m) = Having(k, p)
    BY <1>3, <2>1 DEF Lines, Fits, Having
  <2>3. Match(k, m) = IF p \in DOMAIN rules[k] THEN rules[k][p] ELSE Nil
    BY <1>3, <2>1 DEF Match
  <2> HIDE DEF p
  <2>4. /\ p \in DOMAIN rules[k] <=> Having(k, p) # {}
        /\ p \in DOMAIN rules[k] => rules[k][p] = Latest(k, p)
    BY <1>3 DEF Keeps, MapsKept
  <2> QED BY <1>0, <1>3, <2>2, <2>3, <2>4
<1>4. CASE k \notin MapType \cup {"DOMAIN", "DEFAULT"}
  <2>1. Lines(k, m) = {}
    BY <1>4 DEF Lines, Fits
  <2>2. Match(k, m) = Nil
    BY <1>4 DEF Match
  <2> QED BY <2>1, <2>2 DEF Said
<1> QED BY <1>1, <1>2, <1>3, <1>4

LEMMA AsStated == Rules => DispatchRight
<1> SUFFICES ASSUME Rules, stage = "up", NEW m \in Flow,
                    m.domain = Nil \/ Clear(Patterns, m.domain)
             PROVE  Dispatch(m) = Stated(m)
  BY DEF DispatchRight
<1>1. Keeps /\ prior = StatedOrder
  BY DEF Rules, OrderKept
<1>2. \A k : Match(k, m) = Said(k, m) /\ (Lines(k, m) # {} <=> Said(k, m) # Nil)
  BY <1>1, MatchRight
<1>3. Match("DEFAULT", m) = default
  BY DEF Match, MapType
<1>4. {i \in DOMAIN prior : Match(prior[i], m) # Nil}
        = {i \in DOMAIN StatedOrder : Lines(StatedOrder[i], m) # {}}
  BY <1>1, <1>2
<1> DEFINE hits == {i \in DOMAIN StatedOrder : Lines(StatedOrder[i], m) # {}}
<1>5. Dispatch(m) = IF hits = {} THEN default ELSE Match(StatedOrder[Min(hits)], m)
  BY <1>1, <1>4 DEF Dispatch
<1>6. Stated(m) = Said(IF hits = {} THEN "DEFAULT" ELSE StatedOrder[Min(hits)], m)
  BY DEF Stated
<1> HIDE DEF hits
<1> QED BY <1>2, <1>3, <1>5, <1>6

(* Every flow goes where the list of rules says, for any list: the types   *)
(* in their order, the last rule of a type and pattern, and the most       *)
(* specific pattern that covers the domain, which Trie.Search is shown to  *)
(* find label by label.                                                    *)
THEOREM DispatchesAsStated == Spec => []DispatchRight
BY RulesInit, RulesInductive, AsStated, PTL DEF Spec

-----------------------------------------------------------------------------
EgressesApart  == NoDup(names.egress)
GroupsApart    == NoDup(names.group) /\ Elems(names.group) \cap egresses = {}
IngressesApart == NoDup(names.ingress)

(* What each stage knows of the names: what was checked to come there, and *)
(* under error the check that failed.                                      *)
NamesInv ==
  /\ stage \in {"group", "rules", "ingress", "ingressGroup", "up"} => EgressesApart
  /\ stage \in {"rules", "ingress", "ingressGroup", "up"} => GroupsApart
  /\ stage \in {"ingressGroup", "up"} =>
       IngressesApart /\ ingresses = Elems(names.ingress)
  /\ stage = "up" => Elems(names.group) \cap ingresses = {}
  /\ stage = "error" =>
       \/ ~EgressesApart \/ ~GroupsApart \/ ~IngressesApart
       \/ Elems(names.group) \cap Elems(names.ingress) # {}

LEMMA NamesInductive == NamesInv /\ [Next]_vars => NamesInv'
<1> SUFFICES ASSUME NamesInv, [Next]_vars PROVE NamesInv'
  OBVIOUS
<1> USE DEF NamesInv, EgressesApart, GroupsApart, IngressesApart
<1>1. CASE UNCHANGED <<names, stage, egresses, ingresses>>
  BY <1>1 DEF NoDup, Elems
<1>2. CASE Egress
  BY <1>2 DEF Egress, NoDup, Elems, parts
<1>3. CASE Group
  BY <1>3 DEF Group, NoDup, Elems
<1>4. CASE RulesOver
  BY <1>4 DEF RulesOver, NoDup, Elems, parts
<1>5. CASE Ingress
  BY <1>5 DEF Ingress, NoDup, Elems
<1>6. CASE IngressGroup
  BY <1>6 DEF IngressGroup, NoDup, Elems, parts
<1>7. ASSUME NEW l \in Line, RulePanics(l) PROVE NamesInv'
  BY <1>7 DEF RulePanics, NoDup, Elems, parts
<1>8. ASSUME NEW l \in Line, ReadRule(l) \/ PassOver(l) PROVE NamesInv'
  BY <1>1, <1>8 DEF ReadRule, PassOver, parts
<1> QED
  BY <1>1, <1>2, <1>3, <1>4, <1>5, <1>6, <1>7, <1>8 DEF Next, vars

(* However many egresses, groups and ingresses a configuration names, the  *)
(* program comes up only if no two of a kind share a name and no group has *)
(* that of an egress or an ingress, and gives up only if it is not so.     *)
THEOREM StartsOnlyIfApart == Spec => []NamesApart
<1>1. ConfigInit => NamesInv
  BY DEF ConfigInit, NamesInv
<1>2. NamesInv => NamesApart
  BY DEF NamesInv, NamesApart, EgressesApart, GroupsApart, IngressesApart
<1> QED
  BY <1>1, <1>2, NamesInductive, PTL DEF Spec
=============================================================================
