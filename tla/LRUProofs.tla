----------------------------- MODULE LRUProofs -----------------------------
(***************************************************************************)
(* Facts about the LRU that hold whoever calls it: every method keeps the  *)
(* list and the key index in step.  The modules that use the table cite    *)
(* these lemmas, one for each method.                                      *)
(***************************************************************************)
EXTENDS LRU, SequenceTheorems, TLAPS

LRUInv == LRUTypeOK /\ Coherent /\ Distinct /\ Valued

(* What Coherent and Distinct say of the list and the index, said of any   *)
(* list l and index ix.                                                    *)
Indexed(l, ix) ==
  /\ \A i \in DOMAIN l : ix[l[i].key] = l[i]
  /\ \A k \in Key : ix[k] # Nil =>
       ix[k].key = k /\ \E i \in DOMAIN l : l[i] = ix[k]
  /\ \A i, j \in DOMAIN l : l[i].key = l[j].key => i = j

(* The list t holds at i what s holds at p[i], and p is one to one.        *)
Permutes(p, s, t) ==
  /\ p \in [DOMAIN s -> DOMAIN s]
  /\ \A i \in DOMAIN s : t[i] = s[p[i]]
  /\ \A i, j \in DOMAIN s : p[i] = p[j] => i = j
  /\ \A i \in DOMAIN s : \E j \in DOMAIN s : p[j] = i

(* MoveToFront only permutes a list.                                       *)
LEMMA MoveToFrontPermutes ==
  ASSUME NEW S, NEW s \in Seq(S), NEW e
  PROVE  /\ MoveToFront(s, e) \in Seq(S)
         /\ Len(MoveToFront(s, e)) = Len(s)
         /\ DOMAIN MoveToFront(s, e) = DOMAIN s
         /\ \E p : Permutes(p, s, MoveToFront(s, e))
<1>1. CASE \E i \in DOMAIN s : s[i] = e
  <2> DEFINE q == CHOOSE i \in DOMAIN s : s[i] = e
             m == [i \in DOMAIN s |-> IF i = 1 THEN e
                     ELSE IF i <= q THEN s[i - 1] ELSE s[i]]
             p == [i \in DOMAIN s |-> IF i = 1 THEN q
                     ELSE IF i <= q THEN i - 1 ELSE i]
  <2>1. q \in DOMAIN s /\ s[q] = e
    BY <1>1
  <2>2. MoveToFront(s, e) = m
    BY <1>1 DEF MoveToFront
  <2>3. DOMAIN s = 1 .. Len(s) /\ Len(s) \in Nat
    OBVIOUS
  <2> HIDE DEF q
  <2>4. \A i \in DOMAIN s : p[i] \in DOMAIN s /\ m[i] = s[p[i]]
    BY <2>1, <2>3
  <2>5. m \in [1 .. Len(s) -> S]
    BY <2>1, <2>3, <2>4, ElementOfSeq
  <2>6. m \in Seq(S) /\ Len(m) = Len(s) /\ DOMAIN m = DOMAIN s
    BY <2>3, <2>5, SeqDef
  <2>7. \A i, j \in DOMAIN s : p[i] = p[j] => i = j
    BY <2>1, <2>3
  <2>8. \A i \in DOMAIN s : \E j \in DOMAIN s : p[j] = i
    <3> TAKE i \in DOMAIN s
    <3>1. CASE i = q
      <4>1. 1 \in DOMAIN s /\ p[1] = i
        BY <2>1, <2>3, <3>1
      <4> QED BY <4>1
    <3>2. CASE i < q
      <4>1. i + 1 \in DOMAIN s /\ p[i + 1] = i
        BY <2>1, <2>3, <3>2
      <4> QED BY <4>1
    <3>3. CASE i > q
      <4>1. p[i] = i
        BY <2>1, <2>3, <3>3
      <4> QED BY <4>1
    <3> QED BY <2>1, <2>3, <3>1, <3>2, <3>3
  <2>9. p \in [DOMAIN s -> DOMAIN s]
    BY <2>4
  <2>10. Permutes(p, s, m)
    BY <2>4, <2>7, <2>8, <2>9 DEF Permutes
  <2> HIDE DEF m, p
  <2> QED BY <2>2, <2>3, <2>6, <2>10
<1>2. CASE ~ \E i \in DOMAIN s : s[i] = e
  <2> DEFINE p == [i \in DOMAIN s |-> i]
  <2>1. MoveToFront(s, e) = s
    BY <1>2 DEF MoveToFront
  <2>2. Permutes(p, s, s)
    BY DEF Permutes
  <2> HIDE DEF p
  <2> QED BY <2>1, <2>2
<1> QED BY <1>1, <1>2

(* A list stays indexed when it is permuted,                               *)
LEMMA MoveKeepsIndexed ==
  ASSUME NEW l \in Seq(Elem), NEW ix, NEW e, Indexed(l, ix)
  PROVE  Indexed(MoveToFront(l, e), ix)
<1> DEFINE m == MoveToFront(l, e)
<1>1. PICK p : Permutes(p, l, m)
  BY MoveToFrontPermutes
<1>2. DOMAIN m = DOMAIN l
  BY MoveToFrontPermutes
<1> HIDE DEF m
<1>3. \A i \in DOMAIN m : ix[m[i].key] = m[i]
  BY <1>1, <1>2 DEF Indexed, Permutes
<1>4. \A k \in Key : ix[k] # Nil =>
        ix[k].key = k /\ \E i \in DOMAIN m : m[i] = ix[k]
  <2> SUFFICES ASSUME NEW k \in Key, ix[k] # Nil
               PROVE  ix[k].key = k /\ \E i \in DOMAIN m : m[i] = ix[k]
    OBVIOUS
  <2>1. PICK i \in DOMAIN l : ix[k].key = k /\ l[i] = ix[k]
    BY DEF Indexed
  <2>2. PICK j \in DOMAIN l : p[j] = i
    BY <1>1 DEF Permutes
  <2> QED BY <1>1, <1>2, <2>1, <2>2 DEF Permutes
<1>5. \A i, j \in DOMAIN m : m[i].key = m[j].key => i = j
  <2> SUFFICES ASSUME NEW i \in DOMAIN l, NEW j \in DOMAIN l,
                      m[i].key = m[j].key
               PROVE  i = j
    BY <1>2
  <2>1. p[i] \in DOMAIN l /\ p[j] \in DOMAIN l
    BY <1>1 DEF Permutes
  <2>2. m[i] = l[p[i]] /\ m[j] = l[p[j]]
    BY <1>1 DEF Permutes
  <2>3. p[i] = p[j]
    BY <2>1, <2>2 DEF Indexed
  <2> QED BY <2>3, <1>1 DEF Permutes
<1> QED BY <1>3, <1>4, <1>5 DEF Indexed, m

(* when an element with a new key is pushed on it,                         *)
LEMMA PushKeepsIndexed ==
  ASSUME NEW l \in Seq(Elem), NEW ix \in [Key -> Elem \cup {Nil}],
         NEW e \in Elem, Indexed(l, ix), ix[e.key] = Nil
  PROVE  /\ <<e>> \o l \in Seq(Elem)
         /\ Len(<<e>> \o l) = Len(l) + 1
         /\ (<<e>> \o l)[Len(l) + 1] \in Elem
         /\ Indexed(<<e>> \o l, [ix EXCEPT ![e.key] = e])
<1> DEFINE p == <<e>> \o l
           jx == [ix EXCEPT ![e.key] = e]
<1>1. /\ p \in Seq(Elem) /\ Len(p) = Len(l) + 1
      /\ Len(l) \in Nat
      /\ DOMAIN l = 1 .. Len(l) /\ DOMAIN p = 1 .. Len(l) + 1
      /\ p[1] = e /\ \A i \in DOMAIN l : p[i + 1] = l[i]
  OBVIOUS
<1>2. e.key \in Key /\ e # Nil
  BY LRUAssumption DEF Elem
<1>3. /\ \A i \in DOMAIN l : l[i] \in Elem
      /\ \A i \in DOMAIN p : p[i] \in Elem
  BY <1>1, ElementOfSeq
<1> HIDE DEF p
<1>4. \A i \in DOMAIN l : l[i].key # e.key
  BY <1>3, LRUAssumption DEF Indexed
<1>5. \A i \in DOMAIN p : i = 1 \/ (i - 1 \in DOMAIN l /\ p[i] = l[i - 1])
  BY <1>1
<1>6. \A i \in DOMAIN p : jx[p[i].key] = p[i]
  BY <1>1, <1>2, <1>3, <1>4, <1>5 DEF Indexed, Elem
<1>7. ASSUME NEW k \in Key, jx[k] # Nil
      PROVE  jx[k].key = k /\ \E i \in DOMAIN p : p[i] = jx[k]
  <2>1. CASE k = e.key
    BY <2>1, <1>1, <1>2
  <2>2. CASE k # e.key
    <3>1. PICK i \in DOMAIN l : l[i] = ix[k]
      BY <1>7, <2>2 DEF Indexed
    <3>2. i + 1 \in DOMAIN p /\ p[i + 1] = jx[k]
      BY <3>1, <2>2, <1>1
    <3> QED BY <3>2, <2>2, <1>7 DEF Indexed
  <2> QED BY <2>1, <2>2
<1>8. \A i, j \in DOMAIN p : p[i].key = p[j].key => i = j
  BY <1>1, <1>4, <1>5 DEF Indexed
<1>9. p[Len(l) + 1] \in Elem
  BY <1>1, <1>3
<1> QED BY <1>1, <1>6, <1>7, <1>8, <1>9 DEF Indexed, p

(* and when its last element is removed from both.                         *)
LEMMA DropKeepsIndexed ==
  ASSUME NEW l \in Seq(Elem), NEW ix \in [Key -> Elem \cup {Nil}],
         NEW n \in Nat, Len(l) = n + 1, Indexed(l, ix)
  PROVE  /\ SubSeq(l, 1, n) \in Seq(Elem)
         /\ Len(SubSeq(l, 1, n)) = n
         /\ Indexed(SubSeq(l, 1, n), [ix EXCEPT ![l[n + 1].key] = Nil])
<1> DEFINE s == SubSeq(l, 1, n)
           jx == [ix EXCEPT ![l[n + 1].key] = Nil]
<1>1. /\ s \in Seq(Elem) /\ Len(s) = n
      /\ DOMAIN l = 1 .. n + 1 /\ DOMAIN s = 1 .. n
      /\ \A i \in DOMAIN s : i \in DOMAIN l /\ s[i] = l[i]
  OBVIOUS
<1>2. \A i \in DOMAIN l : l[i] \in Elem /\ l[i].key \in Key
  <2>1. \A i \in DOMAIN l : l[i] \in Elem
    BY <1>1, ElementOfSeq
  <2> QED BY <2>1 DEF Elem
<1>3. n + 1 \in DOMAIN l
  BY <1>1
<1> HIDE DEF s
<1>4. \A i \in DOMAIN s : l[i].key # l[n + 1].key
  BY <1>1, <1>3 DEF Indexed
<1>5. \A i \in DOMAIN s : jx[s[i].key] = s[i]
  BY <1>1, <1>2, <1>4 DEF Indexed
<1>6. ASSUME NEW k \in Key, jx[k] # Nil
      PROVE  jx[k].key = k /\ \E i \in DOMAIN s : s[i] = jx[k]
  <2>1. k # l[n + 1].key /\ jx[k] = ix[k]
    BY <1>6, <1>2, <1>3
  <2>2. PICK i \in DOMAIN l : l[i] = ix[k] /\ ix[k].key = k
    BY <1>6, <2>1 DEF Indexed
  <2>3. i # n + 1 /\ i \in DOMAIN s
    BY <2>1, <2>2, <1>1
  <2> QED BY <2>1, <2>2, <2>3, <1>1
<1>7. \A i, j \in DOMAIN s : s[i].key = s[j].key => i = j
  BY <1>1 DEF Indexed
<1> QED BY <1>1, <1>5, <1>6, <1>7 DEF Indexed, s

-----------------------------------------------------------------------------
(* The invariant in terms of Indexed.                                      *)
LEMMA InvIndexed ==
  LRUInv <=> LRUTypeOK /\ Indexed(order, k2e) /\ Valued
BY DEF LRUInv, Indexed, Coherent, Distinct, InList

LEMMA InitLRU == LRUInit => LRUInv
<1> SUFFICES ASSUME LRUInit PROVE LRUInv
  OBVIOUS
<1>1. order \in Seq(Elem) /\ DOMAIN order = {}
  BY DEF LRUInit
<1>2. LRUTypeOK
  BY <1>1 DEF LRUInit, LRUTypeOK
<1>3. Coherent /\ Distinct /\ Valued
  BY <1>1 DEF LRUInit, Coherent, Distinct, Valued
<1> QED BY <1>2, <1>3 DEF LRUInv

(* Get and GetKeyFromValue, and the move of PutReplace.                    *)
LEMMA MoveKeeps ==
  ASSUME LRUInv, NEW e, order' = MoveToFront(order, e),
         UNCHANGED <<k2e, v2e, val>>
  PROVE  LRUInv' /\ Len(order') = Len(order)
<1>1. order' \in Seq(Elem) /\ Len(order') = Len(order)
  BY MoveToFrontPermutes DEF LRUInv, LRUTypeOK
<1>2. Indexed(order', k2e')
  BY MoveKeepsIndexed, InvIndexed DEF LRUTypeOK
<1>3. LRUTypeOK' /\ Valued'
  BY <1>1 DEF LRUInv, LRUTypeOK, Valued
<1> QED BY <1>1, <1>2, <1>3
        DEF LRUInv, Indexed, Coherent, Distinct, InList

LEMMA ReplaceKeeps ==
  ASSUME LRUInv, NEW k \in Key, NEW v \in Value, PutReplace(k, v)
  PROVE  LRUInv' /\ Len(order') = Len(order) /\ v2e' = v2e
<1>1. order' \in Seq(Elem) /\ Len(order') = Len(order)
  BY MoveToFrontPermutes DEF LRUInv, LRUTypeOK, PutReplace
<1>2. Indexed(order', k2e')
  BY MoveKeepsIndexed, InvIndexed DEF LRUTypeOK, PutReplace
<1>3. LRUTypeOK'
  BY <1>1 DEF LRUInv, LRUTypeOK, PutReplace
<1>4. Valued'
  BY LRUAssumption DEF LRUInv, LRUTypeOK, Valued, PutReplace
<1> QED BY <1>1, <1>2, <1>3, <1>4
        DEF LRUInv, Indexed, Coherent, Distinct, InList, PutReplace

LEMMA InsertKeeps ==
  ASSUME LRUInv, NEW k \in Key, NEW v \in Value, PutInsert(k, v)
  PROVE  LRUInv' /\ Len(order') = Len(order) + 1
<1> DEFINE e == [key |-> k, made |-> v]
<1>1. e \in Elem /\ e.key = k
  BY DEF Elem
<1>2. /\ order' = <<e>> \o order
      /\ k2e' = [k2e EXCEPT ![k] = e]
      /\ v2e' = [v2e EXCEPT ![v] = e]
      /\ val' = [val EXCEPT ![k] = v]
      /\ k2e[k] = Nil
  BY DEF PutInsert, Store
<1> HIDE DEF e
<1>3. /\ order' \in Seq(Elem) /\ Len(order') = Len(order) + 1
      /\ Indexed(order', k2e')
  BY <1>1, <1>2, PushKeepsIndexed, InvIndexed DEF LRUInv, LRUTypeOK
<1>4. LRUTypeOK'
  BY <1>1, <1>2, <1>3 DEF LRUInv, LRUTypeOK
<1>5. Valued'
  BY <1>1, <1>2, LRUAssumption DEF LRUInv, LRUTypeOK, Valued
<1> QED BY <1>3, <1>4, <1>5 DEF LRUInv, Indexed, Coherent, Distinct, InList

LEMMA EvictKeeps ==
  ASSUME LRUInv, NEW k \in Key, NEW v \in Value, PutEvict(k, v)
  PROVE  LRUInv' /\ Len(order') = Len(order)
<1> DEFINE e == [key |-> k, made |-> v]
           pushed == <<e>> \o order
           n == Len(order)
           b == pushed[n + 1].key
           ix == [k2e EXCEPT ![k] = e]
           stored == [val EXCEPT ![k] = v]
<1>1. e \in Elem /\ e.key = k /\ e # Nil
  BY LRUAssumption DEF Elem
<1>2. /\ pushed \in Seq(Elem) /\ Len(pushed) = n + 1 /\ n \in Nat
      /\ pushed[n + 1] \in Elem
      /\ Indexed(pushed, ix)
  <2>1. order \in Seq(Elem) /\ k2e \in [Key -> Elem \cup {Nil}] /\ n \in Nat
    BY DEF LRUInv, LRUTypeOK
  <2>2. k2e[e.key] = Nil /\ Indexed(order, k2e)
    BY <1>1, InvIndexed DEF PutEvict
  <2> HIDE DEF e
  <2> QED BY <1>1, <2>1, <2>2, PushKeepsIndexed
<1>3. b \in Key
  BY <1>2 DEF Elem
<1>4. /\ order' = SubSeq(pushed, 1, n)
      /\ k2e' = [ix EXCEPT ![b] = Nil]
      /\ v2e' = [Store(v2e, v, e) EXCEPT ![stored[b]] = Nil]
      /\ val' = [stored EXCEPT ![b] = Nil]
  <2>1. pushed[Len(pushed)].key = b
    BY <1>2
  <2> QED BY <2>1 DEF PutEvict, Store, Delete
<1> HIDE DEF e, pushed
<1>5. ix \in [Key -> Elem \cup {Nil}] /\ stored \in [Key -> Value \cup {Nil}]
  BY <1>1 DEF LRUInv, LRUTypeOK
<1>6. /\ order' \in Seq(Elem) /\ Len(order') = n
      /\ Indexed(order', k2e')
  BY <1>2, <1>4, <1>5, DropKeepsIndexed
<1>7. LRUTypeOK'
  <2>1. k2e' \in [Key -> Elem \cup {Nil}]
    BY <1>3, <1>4, <1>5
  <2>2. val' \in [Key -> Value \cup {Nil}]
    BY <1>3, <1>4, <1>5
  <2>3. v2e' \in [Value -> Elem \cup {Nil}]
    BY <1>1, <1>4 DEF LRUInv, LRUTypeOK, Store
  <2> QED BY <1>6, <2>1, <2>2, <2>3 DEF LRUTypeOK
<1>8. Valued'
  <2> SUFFICES ASSUME NEW j \in Key PROVE (val'[j] = Nil) <=> (k2e'[j] = Nil)
    BY DEF Valued
  <2>1. CASE j = b
    BY <2>1, <1>3, <1>4, <1>5
  <2>2. CASE j # b
    BY <2>2, <1>1, <1>3, <1>4, <1>5, LRUAssumption
    DEF LRUInv, LRUTypeOK, Valued
  <2> QED BY <2>1, <2>2
<1> QED BY <1>6, <1>7, <1>8 DEF LRUInv, Indexed, Coherent, Distinct, InList

-----------------------------------------------------------------------------
(* The value of the last element of a list that is not empty.              *)
LEMMA LastValue ==
  ASSUME LRUInv, IsFull, Capacity >= 1
  PROVE  /\ Len(order) \in Nat /\ Len(order) >= 1
         /\ order[Len(order)] \in Elem /\ order[Len(order)].key \in Key
         /\ k2e[order[Len(order)].key] = order[Len(order)]
         /\ GetLastValue = val[order[Len(order)].key]
         /\ GetLastValue \in Value
<1> DEFINE n == Len(order)
<1>1. n \in Nat /\ n >= 1 /\ order # << >> /\ DOMAIN order = 1 .. n
  BY LRUAssumption DEF LRUInv, LRUTypeOK, IsFull
<1>2. order[n] \in Elem /\ k2e[order[n].key] = order[n]
  BY <1>1, ElementOfSeq DEF LRUInv, LRUTypeOK, Coherent
<1>3. order[n].key \in Key /\ order[n] # Nil
  BY <1>2, LRUAssumption DEF Elem
<1>4. val[order[n].key] \in Value
  BY <1>2, <1>3 DEF LRUInv, LRUTypeOK, Valued
<1> QED BY <1>1, <1>2, <1>3, <1>4 DEF GetLastValue

(* What Put of a new key leaves of the list, when there is room            *)
LEMMA InsertShifts ==
  ASSUME LRUInv, NEW k \in Key, NEW v \in Value, PutInsert(k, v)
  PROVE  /\ Len(order) \in Nat /\ DOMAIN order = 1 .. Len(order)
         /\ DOMAIN order' = 1 .. Len(order) + 1
         /\ order'[1].key = k
         /\ \A i \in DOMAIN order : order'[i + 1] = order[i]
<1>1. order \in Seq(Elem)
  BY DEF LRUInv, LRUTypeOK
<1>2. order' = <<[key |-> k, made |-> v]>> \o order
  BY DEF PutInsert
<1> QED BY <1>1, <1>2

(* and when the last element has to go, which is then not the new one.     *)
LEMMA EvictShifts ==
  ASSUME LRUInv, NEW k \in Key, NEW v \in Value, PutEvict(k, v), Len(order) >= 1
  PROVE  LET n == Len(order)
             b == order[n].key
         IN  /\ n \in Nat /\ DOMAIN order = 1 .. n /\ DOMAIN order' = 1 .. n
             /\ order'[1].key = k
             /\ \A i \in 2 .. n : order'[i] = order[i - 1]
             /\ b \in Key /\ b # k
             /\ val' = [val EXCEPT ![k] = v, ![b] = Nil]
             /\ v2e' = [v2e EXCEPT ![v] = [key |-> k, made |-> v], ![val[b]] = Nil]
<1> DEFINE e == [key |-> k, made |-> v]
           n == Len(order)
           b == order[n].key
           pushed == <<e>> \o order
<1>1. order \in Seq(Elem) /\ n \in Nat /\ n >= 1 /\ DOMAIN order = 1 .. n
  BY DEF LRUInv, LRUTypeOK
<1>2. order[n] \in Elem /\ k2e[b] = order[n]
  BY <1>1, ElementOfSeq DEF LRUInv, Coherent
<1>3. b \in Key /\ b # k
  BY <1>2, LRUAssumption DEF Elem, PutEvict
<1>4. /\ pushed[1] = e /\ Len(pushed) = n + 1
      /\ pushed[n + 1] = order[n]
      /\ \A i \in 2 .. n : pushed[i] = order[i - 1]
      /\ pushed \in Seq(Elem)
  <2>1. e \in Elem
    BY DEF Elem
  <2> HIDE DEF e
  <2> QED BY <1>1, <2>1
<1>5. order' = SubSeq(pushed, 1, n)
  BY DEF PutEvict
<1>6. /\ DOMAIN order' = 1 .. n
      /\ \A i \in 1 .. n : order'[i] = pushed[i]
  <2> HIDE DEF pushed
  <2> QED BY <1>1, <1>4, <1>5
<1>7. /\ val' = [[val EXCEPT ![k] = v] EXCEPT ![b] = Nil]
      /\ v2e' = [[v2e EXCEPT ![v] = e] EXCEPT ![val[b]] = Nil]
  <2>1. pushed[Len(pushed)].key = b
    BY <1>4
  <2>2. [val EXCEPT ![k] = v][b] = val[b]
    BY <1>3 DEF LRUInv, LRUTypeOK
  <2> QED BY <2>1, <2>2 DEF PutEvict, Store, Delete
<1> QED BY <1>1, <1>3, <1>4, <1>6, <1>7

=============================================================================
