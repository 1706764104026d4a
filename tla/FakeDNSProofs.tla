--------------------------- MODULE FakeDNSProofs ---------------------------
(***************************************************************************)
(* What the fake address pool keeps for every number of handlers, every    *)
(* pool of four addresses or more and every set of domains, when handlers  *)
(* and lookups interleave.  IInv is inductive: beside the properties it    *)
(* has what a caller inside Put knows (Callers), that an address picked    *)
(* while the table has room is free until it is stored (PickedFree), and   *)
(* that so long as nothing was ever evicted the value index has no more    *)
(* entries than the list (FewTaken).                                       *)
(***************************************************************************)
EXTENDS FakeDNSRefinement, LRUProofs, FiniteSetTheorems

Callers ==
  \A c \in Caller : /\ pc[c] # "idle" => asked[c] \in Key
                    /\ pc[c] = "store" => ip[c] \in Value

PickedFree ==
  \A c \in Caller : pc[c] = "store" /\ ~IsFull => v2e[ip[c]] = Nil

FewTaken == ~IsFull => IsFiniteSet(Taken) /\ Cardinality(Taken) <= Len(order)

IInv == /\ TypeOK /\ Coherent /\ Distinct /\ Valued
        /\ Exclusive /\ Callers /\ PickedFree /\ FewTaken /\ BoundedPool

(* A step that moves elements at most disturbs nothing about addresses.    *)
LEMMA NoPut ==
  ASSUME IInv, Len(order') = Len(order), v2e' = v2e
  PROVE  FewTaken' /\ BoundedPool' /\ (IsFull' <=> IsFull)
BY DEF IInv, FewTaken, Taken, BoundedPool, IsFull

(* A step of one caller that neither puts nor moves.                       *)
LEMMA LRUUnchanged ==
  ASSUME IInv, UNCHANGED lruVars
  PROVE  LRUInv' /\ Len(order') = Len(order) /\ v2e' = v2e
BY DEF IInv, LRUInv, TypeOK, LRUTypeOK, Coherent, Distinct, Valued, InList,
       lruVars

LEMMA LRUMoved ==
  ASSUME IInv, NEW e, order' = MoveToFront(order, e),
         UNCHANGED <<k2e, v2e, val>>
  PROVE  LRUInv' /\ Len(order') = Len(order) /\ v2e' = v2e
BY MoveKeeps DEF IInv, LRUInv, TypeOK

(* A step that leaves the table, moves at most, and keeps the callers'     *)
(* part of the invariant keeps all of it.                                  *)
LEMMA CallersSuffice ==
  ASSUME IInv, LRUInv', Len(order') = Len(order), v2e' = v2e,
         TypeOK', Exclusive', Callers', PickedFree'
  PROVE  IInv'
BY NoPut DEF IInv, LRUInv

-----------------------------------------------------------------------------
LEMMA InitIInv == Init => IInv
<1> SUFFICES ASSUME Init PROVE IInv
  OBVIOUS
<1>1. LRUInv /\ Len(order) = 0
  BY InitLRU DEF Init, PoolInit, LRUInit
<1>2. TypeOK
  BY <1>1, FakeIPAssumption DEF Init, PoolInit, TypeOK, LRUInv, Network
<1>3. Exclusive /\ Callers /\ PickedFree
  BY FakeIPAssumption
  DEF Init, PoolInit, Exclusive, InPut, Callers, PickedFree
<1>4. Taken = {}
  BY DEF Init, PoolInit, LRUInit, Taken
<1>5. FewTaken
  BY <1>1, <1>4, FS_EmptySet DEF FewTaken
<1>6. BoundedPool
  BY <1>1, FakeIPAssumption DEF BoundedPool
<1> QED BY <1>1, <1>2, <1>3, <1>5, <1>6 DEF IInv, LRUInv

LEMMA QueryKeeps ==
  ASSUME IInv, NEW c \in Caller, NEW d \in Key, Query(c, d)
  PROVE  IInv'
<1>1. LRUInv' /\ Len(order') = Len(order) /\ v2e' = v2e
  BY LRUMoved DEF Query, Get
<1>2. (IsFull' <=> IsFull)
  BY <1>1, NoPut
<1>3. TypeOK'
  BY <1>1 DEF IInv, TypeOK, LRUInv, LRUTypeOK, Query, Goto, Pick, ValueOf
<1>4. Exclusive'
  BY FakeIPAssumption DEF IInv, TypeOK, Exclusive, InPut, Query, Goto
<1>5. Callers'
  BY DEF IInv, TypeOK, Callers, Query, Goto, Pick
<1>6. PickedFree'
  BY <1>1, <1>2 DEF IInv, TypeOK, PickedFree, Query, Goto, Pick
<1> QED BY <1>1, <1>3, <1>4, <1>5, <1>6, CallersSuffice

LEMMA AnswerKeeps ==
  ASSUME IInv, NEW c \in Caller, Answer(c)
  PROVE  IInv'
<1>1. LRUInv' /\ Len(order') = Len(order) /\ v2e' = v2e
  BY LRUMoved, LRUUnchanged DEF Answer, GetKeyFromValue
<1>2. (IsFull' <=> IsFull)
  BY <1>1, NoPut
<1>3. TypeOK'
  BY <1>1 DEF IInv, TypeOK, LRUInv, Answer, Goto, Pick
<1>4. Exclusive'
  BY DEF IInv, TypeOK, Exclusive, InPut, Answer, Goto
<1>5. Callers'
  BY DEF IInv, TypeOK, Callers, Answer, Goto, Pick
<1>6. PickedFree'
  BY <1>1, <1>2 DEF IInv, TypeOK, PickedFree, Answer, Goto, Pick
<1> QED BY <1>1, <1>3, <1>4, <1>5, <1>6, CallersSuffice

LEMMA LookupKeeps ==
  ASSUME IInv, NEW v \in LookupAddr, Lookup(v)
  PROVE  IInv'
<1>1. LRUInv' /\ Len(order') = Len(order) /\ v2e' = v2e
  BY LRUMoved DEF Lookup, GetKeyFromValue
<1>2. (IsFull' <=> IsFull)
  BY <1>1, NoPut
<1>3. TypeOK' /\ Exclusive' /\ Callers' /\ PickedFree'
  BY <1>1, <1>2
  DEF IInv, TypeOK, LRUInv, Exclusive, InPut, Callers, PickedFree, Lookup
<1> QED BY <1>1, <1>3, CallersSuffice

LEMMA PutLockKeeps ==
  ASSUME IInv, NEW c \in Caller, PutLock(c)
  PROVE  IInv'
<1>1. LRUInv' /\ Len(order') = Len(order) /\ v2e' = v2e
  BY LRUUnchanged DEF PutLock
<1>2. (IsFull' <=> IsFull)
  BY <1>1, NoPut
<1>3. TypeOK'
  BY <1>1 DEF IInv, TypeOK, LRUInv, PutLock, Goto
<1>4. Exclusive'
  BY FakeIPAssumption DEF IInv, TypeOK, Exclusive, InPut, PutLock, Goto
<1>5. Callers'
  BY DEF IInv, TypeOK, Callers, PutLock, Goto
<1>6. PickedFree'
  BY <1>1, <1>2 DEF IInv, TypeOK, PickedFree, PutLock, Goto
<1> QED BY <1>1, <1>3, <1>4, <1>5, <1>6, CallersSuffice

(* The steps of Put that only look: whether the pool is full, and which    *)
(* address is free.                                                        *)
LEMMA SearchKeeps ==
  ASSUME IInv, NEW c \in Caller,
         \/ PutRecycle(c) \/ PutSearch(c)
         \/ ProbeWrap(c) \/ ProbeSkip(c) \/ ProbeTaken(c) \/ ProbeFree(c)
  PROVE  IInv'
<1>1. LRUInv' /\ Len(order') = Len(order) /\ v2e' = v2e
  BY LRUUnchanged, LRUMoved
  DEF PutRecycle, PutSearch, ProbeWrap, ProbeSkip, ProbeTaken, ProbeFree,
      GetKeyFromValue
<1>2. (IsFull' <=> IsFull)
  BY <1>1, NoPut
<1>3. LRUInv
  BY DEF IInv, LRUInv, TypeOK
<1>4. CASE PutRecycle(c)
  <2>1. GetLastValue \in Value
    BY <1>3, <1>4, LastValue, FakeIPAssumption DEF PutRecycle
  <2>2. TypeOK'
    BY <1>1, <1>4, <2>1 DEF IInv, TypeOK, LRUInv, PutRecycle, Goto, Pick
  <2>3. Exclusive'
    BY <1>4 DEF IInv, TypeOK, Exclusive, InPut, PutRecycle, Goto
  <2>4. Callers'
    BY <1>4, <2>1 DEF IInv, TypeOK, Callers, PutRecycle, Goto, Pick
  <2>5. PickedFree'
    BY <1>1, <1>2, <1>4
    DEF IInv, TypeOK, PickedFree, PutRecycle, Goto, Pick
  <2> QED BY <1>1, <2>2, <2>3, <2>4, <2>5, CallersSuffice
<1>5. CASE PutSearch(c)
  <2>1. TypeOK' /\ Exclusive' /\ Callers' /\ PickedFree'
    BY <1>1, <1>2, <1>5
    DEF IInv, TypeOK, LRUInv, Exclusive, InPut, Callers, PickedFree,
        PutSearch, Goto
  <2> QED BY <1>1, <2>1, CallersSuffice
<1>6. CASE ProbeWrap(c) \/ ProbeSkip(c) \/ ProbeTaken(c)
  <2>1. /\ nextIP' \in Value
        /\ UNCHANGED <<holder, pc, asked, ip>>
    BY <1>6, FakeIPAssumption
    DEF IInv, TypeOK, ProbeWrap, ProbeSkip, ProbeTaken, Network, Broadcast,
        Usable
  <2>2. TypeOK' /\ Exclusive' /\ Callers' /\ PickedFree'
    BY <1>1, <1>2, <2>1
    DEF IInv, TypeOK, LRUInv, Exclusive, InPut, Callers, PickedFree
  <2> QED BY <1>1, <2>2, CallersSuffice
<1>7. CASE ProbeFree(c)
  <2>1. nextIP + 1 \in Value /\ v2e[nextIP + 1] = Nil
    <3>1. nextIP + 1 \in Value
      BY <1>7, FakeIPAssumption DEF ProbeFree, Usable
    <3>2. v2e[nextIP + 1] # Nil => v2e[nextIP + 1].key \in Key
      BY <3>1 DEF IInv, TypeOK, LRUTypeOK, Elem
    <3> QED BY <1>7, <3>1, <3>2, FakeDNSAssumption
            DEF ProbeFree, Occupied, KeyOf
  <2>2. TypeOK'
    BY <1>1, <1>7, <2>1 DEF IInv, TypeOK, LRUInv, ProbeFree, Goto, Pick
  <2>3. Exclusive'
    BY <1>7 DEF IInv, TypeOK, Exclusive, InPut, ProbeFree, Goto
  <2>4. Callers'
    BY <1>7, <2>1 DEF IInv, TypeOK, Callers, ProbeFree, Goto, Pick
  <2>5. PickedFree'
    BY <1>1, <1>2, <1>7, <2>1
    DEF IInv, TypeOK, PickedFree, ProbeFree, Goto, Pick
  <2> QED BY <1>1, <2>2, <2>3, <2>4, <2>5, CallersSuffice
<1> QED BY <1>4, <1>5, <1>6, <1>7

(* The step that stores: only the caller inside Put takes it, so no other  *)
(* picked address is pending.                                              *)
LEMMA PutStoreKeeps ==
  ASSUME IInv, NEW c \in Caller, PutStore(c)
  PROVE  IInv'
<1> DEFINE k == asked[c]
           v == ip[c]
<1>1. k \in Key /\ v \in Value /\ holder = c
  BY DEF IInv, Callers, Exclusive, InPut, PutStore
<1>2. LRUInv
  BY DEF IInv, LRUInv, TypeOK
<1>3. PutReplace(k, v) \/ PutInsert(k, v) \/ PutEvict(k, v)
  BY DEF PutStore, Put
<1>4. LRUInv'
  BY <1>1, <1>2, <1>3, ReplaceKeeps, InsertKeeps, EvictKeeps
<1>5. TypeOK'
  BY <1>4 DEF IInv, TypeOK, LRUInv, PutStore, Goto
<1>6. Exclusive'
  BY FakeIPAssumption DEF IInv, TypeOK, Exclusive, InPut, PutStore, Goto
<1>7. Callers'
  BY DEF IInv, TypeOK, Callers, PutStore, Goto
<1>8. PickedFree'
  <2>1. \A d \in Caller : pc'[d] # "store"
    BY DEF IInv, TypeOK, Exclusive, InPut, PutStore, Goto
  <2> QED BY <2>1 DEF PickedFree
<1>9. FewTaken' /\ BoundedPool'
  <2>1. CASE PutReplace(k, v)
    <3>1. Len(order') = Len(order) /\ v2e' = v2e
      BY <1>1, <1>2, <2>1, ReplaceKeeps
    <3> QED BY <3>1, NoPut
  <2>2. CASE PutInsert(k, v)
    <3>1. /\ Len(order') = Len(order) + 1 /\ Len(order) \in Nat
          /\ Len(order) + 1 <= Capacity
      BY <1>1, <1>2, <2>2, InsertKeeps, FakeIPAssumption
      DEF PutInsert, Overflows, LRUInv, LRUTypeOK
    <3>2. IsFiniteSet(Taken) /\ Cardinality(Taken) <= Len(order)
      BY <3>1, FakeIPAssumption DEF IInv, FewTaken, IsFull
    <3>3. Taken' \subseteq Taken \cup {v}
      BY <2>2 DEF PutInsert, Store, Taken, IInv, TypeOK, LRUTypeOK
    <3>4. /\ IsFiniteSet(Taken \cup {v})
          /\ Cardinality(Taken \cup {v}) <= Cardinality(Taken) + 1
          /\ Cardinality(Taken) \in Nat
      <4>1. Cardinality(Taken) \in Nat
        BY <3>2, FS_CardinalityType
      <4>2. /\ IsFiniteSet(Taken \cup {v})
            /\ Cardinality(Taken \cup {v}) =
                 IF v \in Taken THEN Cardinality(Taken)
                 ELSE Cardinality(Taken) + 1
        BY <3>2, FS_AddElement
      <4> QED BY <4>1, <4>2
    <3>5. /\ IsFiniteSet(Taken')
          /\ Cardinality(Taken') <= Cardinality(Taken \cup {v})
          /\ Cardinality(Taken') \in Nat
      BY <3>3, <3>4, FS_Subset, FS_CardinalityType
    <3>6. Cardinality(Taken \cup {v}) \in Nat
      BY <3>4, FS_CardinalityType
    <3>7. Cardinality(Taken') <= Len(order')
      BY <3>1, <3>2, <3>4, <3>5, <3>6
    <3> QED BY <3>1, <3>5, <3>7 DEF FewTaken, BoundedPool
  <2>3. CASE PutEvict(k, v)
    <3>1. Len(order') = Len(order) /\ Len(order) \in Nat
      BY <1>1, <1>2, <2>3, EvictKeeps DEF LRUInv, LRUTypeOK
    <3>2. Len(order) + 1 > Capacity
      BY <2>3 DEF PutEvict, Overflows
    <3> QED BY <3>1, <3>2, FakeIPAssumption
            DEF IInv, FewTaken, BoundedPool, IsFull
  <2> QED BY <1>3, <2>1, <2>2, <2>3
<1> QED BY <1>4, <1>5, <1>6, <1>7, <1>8, <1>9 DEF IInv, LRUInv

LEMMA NextKeeps == IInv /\ [Next]_poolVars => IInv'
<1> SUFFICES ASSUME IInv, [Next]_poolVars PROVE IInv'
  OBVIOUS
<1>1. CASE Next
  <2>1. CASE \E c \in Caller : \E d \in Key : Query(c, d)
    BY <2>1, QueryKeeps
  <2>2. CASE \E c \in Caller : PutLock(c)
    BY <2>2, PutLockKeeps
  <2>3. CASE \E c \in Caller : PutStep(c)
    <3>1. PICK c \in Caller : PutStep(c)
      BY <2>3
    <3>2. CASE PutStore(c)
      BY <3>2, PutStoreKeeps
    <3>3. CASE \/ PutRecycle(c) \/ PutSearch(c)
               \/ ProbeWrap(c) \/ ProbeSkip(c) \/ ProbeTaken(c) \/ ProbeFree(c)
      BY <3>3, SearchKeeps
    <3> QED BY <3>1, <3>2, <3>3 DEF PutStep
  <2>4. CASE \E c \in Caller : Answer(c)
    BY <2>4, AnswerKeeps
  <2>5. CASE \E v \in LookupAddr : Lookup(v)
    BY <2>5, LookupKeeps
  <2> QED BY <1>1, <2>1, <2>2, <2>3, <2>4, <2>5 DEF Next
<1>2. CASE UNCHANGED poolVars
  <2>1. UNCHANGED lruVars /\ UNCHANGED <<nextIP, holder, pc, asked, ip>>
    BY <1>2 DEF poolVars
  <2>2. LRUInv' /\ Len(order') = Len(order) /\ v2e' = v2e
    BY <2>1, LRUUnchanged
  <2>3. TypeOK' /\ Exclusive' /\ Callers' /\ PickedFree'
    BY <2>1, <2>2, NoPut
    DEF IInv, TypeOK, LRUInv, Exclusive, InPut, Callers, PickedFree
  <2> QED BY <2>2, <2>3, CallersSuffice
<1> QED BY <1>1, <1>2

(* The invariant, of which the properties below are consequences.          *)
THEOREM Invariance == Spec => []IInv
BY InitIInv, NextKeeps, PTL DEF Spec

-----------------------------------------------------------------------------
(* Every variable of the pool and of its callers keeps its type: no caller *)
(* stores the address of an empty pool or works for no domain.             *)
THEOREM TypeCorrect == Spec => []TypeOK
<1>1. IInv => TypeOK
  BY DEF IInv
<1> QED BY <1>1, Invariance, PTL

(* The LRU's list and its key index agree and the list stays within the    *)
(* pool, whatever handlers and lookups do between the calls Put makes.     *)
THEOREM PoolConsistent == Spec => [](Coherent /\ BoundedPool)
<1>1. IInv => Coherent /\ BoundedPool
  BY DEF IInv
<1> QED BY <1>1, Invariance, PTL

(* There are at least as many usable addresses as the LRU has room for.    *)
LEMMA UsableCount ==
  IsFiniteSet(Usable) /\ Cardinality(Usable) >= Capacity
<1>1. /\ IsFiniteSet(1 .. Size - 2)
      /\ Cardinality(1 .. Size - 2) = Size - 2
  BY FakeIPAssumption, FS_Interval
<1>2. /\ IsFiniteSet(Usable)
      /\ Cardinality(Usable) =
           IF Iface \in 1 .. Size - 2 THEN Cardinality(1 .. Size - 2) - 1
           ELSE Cardinality(1 .. Size - 2)
  BY <1>1, FS_RemoveElement DEF Usable
<1> QED BY <1>1, <1>2, FakeIPAssumption

(* Counting: while the table has room fewer addresses are taken than can   *)
(* be given, so one of these is free.                                      *)
LEMMA InvFree == IInv => FreeAddressExists
<1> SUFFICES ASSUME IInv, ~IsFull, \A v \in Usable : v2e[v] # Nil
             PROVE  FALSE
  BY DEF FreeAddressExists
<1>1. IsFiniteSet(Taken) /\ Cardinality(Taken) <= Len(order)
  BY DEF IInv, FewTaken
<1>2. Usable \subseteq Taken
  BY FakeIPAssumption DEF Usable, Taken
<1>3. Cardinality(Usable) <= Cardinality(Taken)
  BY <1>1, <1>2, FS_Subset
<1>4. Cardinality(Usable) \in Nat /\ Cardinality(Taken) \in Nat
  BY <1>1, UsableCount, FS_CardinalityType
<1>5. Len(order) \in Nat /\ Len(order) < Capacity
  BY FakeIPAssumption DEF IInv, TypeOK, LRUTypeOK, IsFull
<1> QED BY <1>1, <1>3, <1>4, <1>5, UsableCount, FakeIPAssumption

(* The search for a free address, which runs with the pool locked, always  *)
(* has one to find.                                                        *)
THEOREM SearchHasAFreeAddress == Spec => []FreeAddressExists
BY Invariance, InvFree, PTL

(* The table as it is until the first eviction: what is in the key index   *)
(* is in the value index under the address it was made with.               *)
MadeIndexed ==
  ~IsFull => \A k \in Key : k2e[k] # Nil => v2e[k2e[k].made] = k2e[k]

(* What a step that stores does while there is room.                       *)
LEMMA RoomyStore ==
  ASSUME IInv, ~IsFull, NEW c \in Caller, PutStore(c)
  PROVE  /\ asked[c] \in Key /\ ip[c] \in Value /\ v2e[ip[c]] = Nil
         /\ PutReplace(asked[c], ip[c]) \/ PutInsert(asked[c], ip[c])
         /\ val' = [val EXCEPT ![asked[c]] = ip[c]]
<1>1. asked[c] \in Key /\ ip[c] \in Value /\ v2e[ip[c]] = Nil
  BY DEF IInv, PickedFree, Callers, PutStore
<1>2. ~PutEvict(asked[c], ip[c])
  BY FakeIPAssumption
  DEF PutEvict, Overflows, IsFull, IInv, TypeOK, LRUTypeOK
<1>3. PutReplace(asked[c], ip[c]) \/ PutInsert(asked[c], ip[c])
  BY <1>2 DEF PutStore, Put
<1> QED BY <1>1, <1>3 DEF PutReplace, PutInsert

(* A step of Next either stores or leaves every index and value alone.     *)
LEMMA OnlyStoresStore ==
  ASSUME [Next]_poolVars, ~ \E c \in Caller : PutStore(c)
  PROVE  UNCHANGED <<k2e, v2e, val>>
BY DEF Next, PutStep, Query, Answer, Lookup, PutLock, PutRecycle, PutSearch,
       ProbeWrap, ProbeSkip, ProbeTaken, ProbeFree, Get, GetKeyFromValue,
       lruVars, poolVars

LEMMA MadeStaysIndexed ==
  ASSUME IInv, MadeIndexed, [Next]_poolVars
  PROVE  MadeIndexed'
<1> SUFFICES ASSUME ~IsFull', NEW k \in Key, k2e'[k] # Nil
             PROVE  v2e'[k2e'[k].made] = k2e'[k]
  BY DEF MadeIndexed
<1>1. CASE \E c \in Caller : PutStore(c)
  <2>1. PICK c \in Caller : PutStore(c)
    BY <1>1
  <2>2. ~IsFull
    <3>1. CASE PutReplace(asked[c], ip[c])
      BY <2>1, <3>1, ReplaceKeeps
      DEF IInv, TypeOK, LRUInv, Callers, PutStore, IsFull
    <3>2. CASE PutInsert(asked[c], ip[c])
      BY <3>2, FakeIPAssumption
      DEF PutInsert, Overflows, IsFull, IInv, TypeOK, LRUTypeOK
    <3>3. CASE PutEvict(asked[c], ip[c])
      <4>1. Len(order') = Len(order) /\ Len(order) \in Nat
        BY <2>1, <3>3, EvictKeeps
        DEF IInv, TypeOK, LRUInv, LRUTypeOK, Callers, PutStore
      <4> QED BY <3>3, <4>1, FakeIPAssumption
              DEF PutEvict, Overflows, IsFull, IInv, BoundedPool
    <3> QED BY <2>1, <3>1, <3>2, <3>3 DEF PutStore, Put
  <2>3. /\ asked[c] \in Key /\ ip[c] \in Value /\ v2e[ip[c]] = Nil
        /\ PutReplace(asked[c], ip[c]) \/ PutInsert(asked[c], ip[c])
    BY <2>1, <2>2, RoomyStore
  <2>4. \A q \in Key : k2e[q] # Nil =>
           /\ v2e[k2e[q].made] = k2e[q]
           /\ k2e[q].made \in Value /\ k2e[q].made # ip[c]
    BY <2>2, <2>3 DEF MadeIndexed, IInv, TypeOK, LRUTypeOK, Elem
  <2>5. CASE PutReplace(asked[c], ip[c])
    BY <2>4, <2>5 DEF PutReplace
  <2>6. CASE PutInsert(asked[c], ip[c])
    <3> DEFINE e == [key |-> asked[c], made |-> ip[c]]
    <3>1. /\ k2e' = [k2e EXCEPT ![asked[c]] = e]
          /\ v2e' = [v2e EXCEPT ![ip[c]] = e]
          /\ e.made = ip[c]
      BY <2>6 DEF PutInsert, Store
    <3>2. k2e \in [Key -> Elem \cup {Nil}] /\ v2e \in [Value -> Elem \cup {Nil}]
      BY DEF IInv, TypeOK, LRUTypeOK
    <3> HIDE DEF e
    <3>3. CASE k = asked[c]
      BY <2>3, <3>1, <3>2, <3>3
    <3>4. CASE k # asked[c]
      BY <2>3, <2>4, <3>1, <3>2, <3>4
    <3> QED BY <3>3, <3>4
  <2> QED BY <2>3, <2>5, <2>6
<1>2. CASE ~ \E c \in Caller : PutStore(c)
  <2>1. UNCHANGED <<k2e, v2e, val>>
    BY <1>2, OnlyStoresStore
  <2>2. Len(order') = Len(order)
    <3>1. CASE UNCHANGED order
      BY <3>1
    <3>2. CASE \E e : order' = MoveToFront(order, e)
      BY <2>1, <3>2, LRUMoved
    <3> QED BY <1>2, <3>1, <3>2
            DEF Next, PutStep, Query, Answer, Lookup, PutLock, PutRecycle,
                PutSearch, ProbeWrap, ProbeSkip, ProbeTaken, ProbeFree, Get,
                GetKeyFromValue, lruVars, poolVars
  <2> QED BY <2>1, <2>2 DEF MadeIndexed, IsFull
<1> QED BY <1>1, <1>2

(* The address that is stored while there is room has no entry, so it is   *)
(* no domain's but one that was put twice.                                 *)
LEMMA StepKeepsAddresses ==
  ASSUME IInv, MadeIndexed, [Next]_poolVars, Len(order) < Capacity,
         NEW k \in Key, val[k] # Nil
  PROVE  /\ \A j \in Key \ {k} :
              val'[j] = val[k] /\ val[j] # val[k] => PutTwice(k)
         /\ val'[k] # val[k] =>
              \E c \in Caller : pc[c] = "store" /\ asked[c] = k
<1>1. CASE \E c \in Caller : PutStore(c)
  <2>1. PICK c \in Caller : PutStore(c)
    BY <1>1
  <2>2. ~IsFull
    BY FakeIPAssumption DEF IsFull, IInv, TypeOK, LRUTypeOK
  <2>3. /\ asked[c] \in Key /\ ip[c] \in Value /\ v2e[ip[c]] = Nil
        /\ val' = [val EXCEPT ![asked[c]] = ip[c]]
    BY <2>1, <2>2, RoomyStore
  <2>4. val \in [Key -> Value \cup {Nil}]
    BY DEF IInv, TypeOK, LRUTypeOK
  <2>5. ASSUME NEW j \in Key \ {k}, val'[j] = val[k], val[j] # val[k]
        PROVE  PutTwice(k)
    <3>1. j = asked[c] /\ val[k] = ip[c]
      BY <2>3, <2>4, <2>5
    <3>2. k2e[k] # Nil
      BY DEF IInv, Valued
    <3>3. v2e[k2e[k].made] = k2e[k]
      BY <2>2, <3>2 DEF MadeIndexed
    <3>4. k2e[k].made # ip[c]
      BY <2>3, <3>2, <3>3
    <3> QED BY <3>1, <3>2, <3>4 DEF PutTwice
  <2>6. val'[k] # val[k] => asked[c] = k /\ pc[c] = "store"
    BY <2>1, <2>3, <2>4 DEF PutStore
  <2> QED BY <2>5, <2>6
<1>2. CASE ~ \E c \in Caller : PutStore(c)
  <2>1. val' = val
    BY <1>2, OnlyStoresStore
  <2> QED BY <2>1
<1> QED BY <1>1, <1>2

(* As long as there is room, whatever is asked concurrently, an address    *)
(* that was answered for a domain is given to no other, unless two         *)
(* overlapping queries have put the domain twice.                          *)
THEOREM AddressesStay == Spec => NoStealWhileRoom
<1>1. Init => MadeIndexed
  BY DEF Init, PoolInit, LRUInit, MadeIndexed
<1>2. IInv /\ MadeIndexed /\ [Next]_poolVars => MadeIndexed'
  BY MadeStaysIndexed
<1>3. IInv /\ MadeIndexed /\ [Next]_poolVars =>
        [Len(order) < Capacity =>
           \A k \in Key : val[k] # Nil =>
             /\ \A j \in Key \ {k} :
                  val'[j] = val[k] /\ val[j] # val[k] => PutTwice(k)
             /\ val'[k] # val[k] =>
                  \E c \in Caller : pc[c] = "store" /\ asked[c] = k]_poolVars
  BY StepKeepsAddresses
<1> QED BY <1>1, <1>2, <1>3, Invariance, PTL DEF Spec, NoStealWhileRoom

-----------------------------------------------------------------------------
(***************************************************************************)
(* Queries one at a time.  Then what a caller inside Put has seen is still *)
(* so: its domain has no address (Unknown), and the address it picked is   *)
(* the one that is given away next (NextPicked).  The three properties of  *)
(* the table need each other: an address that is free in the value index   *)
(* has no domain only because reverse lookups are complete while there is  *)
(* room.                                                                   *)
(***************************************************************************)
Alone == \A c, o \in Caller : pc[c] # "idle" /\ pc[o] # "idle" => c = o

Unknown == \A c \in Caller : pc[c] = "lock" \/ InPut(c) => val[asked[c]] = Nil

NextPicked ==
  \A c \in Caller :
    /\ pc[c] = "probe" => ~IsFull
    /\ pc[c] = "store" =>
         IF IsFull THEN ip[c] = GetLastValue ELSE ip[c] \in Usable

TableRight == OneDomainPerAddress /\ ReverseSound /\ ReverseWhileRoom

SerialIInv == IInv /\ (serial => Alone /\ Unknown /\ NextPicked /\ TableRight)

(* The steps of a query in a serial behaviour.                             *)
QueryStep(c) ==
  \/ OthersIdle(c) /\ \E d \in Key : Query(c, d)
  \/ PutLock(c) \/ PutStep(c) \/ Answer(c)

LEMMA SerialSteps ==
  ASSUME SerialNext, serial
  PROVE  serial' /\ \E c \in Caller : QueryStep(c)
BY DEF SerialNext, QueryStep

LEMMA SerialIsNext == [SerialNext]_serialVars => [Next]_poolVars
BY DEF SerialNext, Next, serialVars

LEMMA InitSerial == SerialInit => SerialIInv
<1> SUFFICES ASSUME SerialInit PROVE SerialIInv
  OBVIOUS
<1>1. IInv
  BY InitIInv DEF SerialInit
<1>2. /\ \A c \in Caller : pc[c] = "idle"
      /\ \A k \in Key : val[k] = Nil
      /\ \A v \in Value : v2e[v] = Nil
  BY DEF SerialInit, Init, PoolInit, LRUInit
<1>3. Alone /\ Unknown /\ NextPicked
  BY <1>2 DEF Alone, Unknown, NextPicked, InPut
<1>4. TableRight
  BY <1>2 DEF TableRight, OneDomainPerAddress, ReverseSound, ReverseWhileRoom, KeyOf
<1> QED BY <1>1, <1>3, <1>4 DEF SerialIInv

(* What is said of the table depends on the addresses in it alone.         *)
LEMMA TableStays ==
  ASSUME IInv, TableRight, Len(order') = Len(order), v2e' = v2e, val' = val
  PROVE  TableRight'
BY DEF TableRight, OneDomainPerAddress, ReverseSound, ReverseWhileRoom, KeyOf, IsFull

(* All steps but the one that stores.                                      *)
LEMMA SearchSerial ==
  ASSUME IInv, Alone, Unknown, NextPicked, TableRight,
         NEW c \in Caller, QueryStep(c), ~PutStore(c)
  PROVE  (Alone /\ Unknown /\ NextPicked /\ TableRight)'
<1>1. /\ UNCHANGED <<k2e, v2e, val>>
      /\ \/ UNCHANGED order
         \/ \E e : order' = MoveToFront(order, e)
  BY DEF QueryStep, Query, Get, PutLock, PutStep, PutRecycle, PutSearch, ProbeWrap,
         ProbeSkip, ProbeTaken, ProbeFree, Answer, GetKeyFromValue, lruVars
<1>2. Len(order') = Len(order)
  <2>1. LRUInv
    BY DEF IInv, LRUInv, TypeOK
  <2> QED BY <1>1, <2>1, MoveToFrontPermutes DEF LRUInv, LRUTypeOK
<1>3. TableRight'
  BY <1>1, <1>2, TableStays
<1>4. /\ pc[c] # "idle" \/ OthersIdle(c)
      /\ \A o \in Caller \ {c} : pc[o] = "idle"
  BY DEF QueryStep, PutLock, PutStep, PutRecycle, PutSearch, ProbeWrap,
         ProbeSkip, ProbeTaken, ProbeFree, PutStore, Answer, OthersIdle, Alone
<1>5. \A o \in Caller \ {c} : pc'[o] = "idle"
  BY <1>4 DEF QueryStep, Query, PutLock, PutStep, PutRecycle, PutSearch, ProbeWrap,
         ProbeSkip, ProbeTaken, ProbeFree, Answer, Goto, IInv, TypeOK
<1>6. Alone'
  BY <1>5 DEF Alone
<1>7. Unknown'
  <2> SUFFICES ASSUME pc'[c] = "lock" \/ InPut(c)' PROVE val'[asked'[c]] = Nil
    BY <1>5 DEF Unknown, InPut
  <2>1. CASE \E d \in Key : Query(c, d)
    BY <1>1, <2>1 DEF Query, Goto, ValueOf, InPut, IInv, TypeOK
  <2>2. CASE PutLock(c) \/ PutStep(c)
    BY <1>1, <2>2
    DEF Unknown, PutLock, PutStep, PutRecycle, PutSearch, ProbeWrap, ProbeSkip,
        ProbeTaken, ProbeFree, Goto, InPut, IInv, TypeOK
  <2>3. CASE Answer(c)
    BY <2>3 DEF Answer, Goto, InPut, IInv, TypeOK
  <2> QED BY <2>1, <2>2, <2>3 DEF QueryStep
<1>8. NextPicked'
  <2>1. IsFull' <=> IsFull
    BY <1>2 DEF IsFull
  <2>2. pc'[c] = "probe" => ~IsFull
    BY DEF NextPicked, QueryStep, Query, PutLock, PutStep, PutRecycle, PutSearch,
           ProbeWrap, ProbeSkip, ProbeTaken, ProbeFree, Answer, Goto, IInv, TypeOK
  <2>3. ASSUME pc'[c] = "store"
        PROVE  IF IsFull THEN ip'[c] = GetLastValue' ELSE ip'[c] \in Usable
    <3>1. CASE PutRecycle(c)
      BY <3>1 DEF PutRecycle, Pick, IInv, TypeOK, GetLastValue, lruVars
    <3>2. CASE ProbeFree(c)
      BY <3>2 DEF ProbeFree, Pick, IInv, TypeOK, NextPicked
    <3>3. CASE ~PutRecycle(c) /\ ~ProbeFree(c)
      BY <2>3, <3>3
      DEF QueryStep, Query, PutLock, PutStep, PutSearch, ProbeWrap, ProbeSkip,
          ProbeTaken, Answer, Goto, IInv, TypeOK
    <3> QED BY <3>1, <3>2, <3>3
  <2> QED BY <1>5, <2>1, <2>2, <2>3 DEF NextPicked
<1> QED BY <1>3, <1>6, <1>7, <1>8

(* The step that stores.  Put never finds its domain in the table; when    *)
(* there is room no domain has the address that is stored, and when there  *)
(* is none it is that of the domain that leaves.                           *)
LEMMA StoreSerial ==
  ASSUME IInv, Alone, Unknown, NextPicked, TableRight,
         NEW c \in Caller, PutStore(c)
  PROVE  (Alone /\ Unknown /\ NextPicked /\ TableRight)'
<1> DEFINE k == asked[c]
           v == ip[c]
           e == [key |-> k, made |-> v]
<1>1. k \in Key /\ v \in Value /\ val[k] = Nil /\ k2e[k] = Nil
  BY DEF IInv, Callers, Unknown, InPut, PutStore, Valued
<1>2. LRUInv /\ Nil \notin Key /\ Nil \notin Value
  BY FakeDNSAssumption, LRUAssumption DEF IInv, LRUInv, TypeOK
<1>3. PutInsert(k, v) \/ PutEvict(k, v)
  BY <1>1 DEF PutStore, Put, PutReplace
<1>4. \A o \in Caller : pc'[o] \in {"idle", "answer"}
  BY DEF PutStore, Goto, Alone, IInv, TypeOK
<1>5. Alone' /\ Unknown' /\ NextPicked'
  BY <1>4 DEF PutStore, Goto, Alone, Unknown, NextPicked, InPut, IInv, TypeOK
<1>6. /\ val \in [Key -> Value \cup {Nil}]
      /\ \A w \in Value : v2e[w] # Nil => v2e[w].key \in Key
  BY DEF IInv, TypeOK, LRUTypeOK, Elem
<1>7. e # Nil /\ e.key = k
  BY LRUAssumption, <1>1 DEF Elem
<1>8. v2e \in [Value -> Elem \cup {Nil}]
  BY DEF IInv, TypeOK, LRUTypeOK
<1>9. CASE PutInsert(k, v)
  <2>1. /\ val' = [val EXCEPT ![k] = v]
        /\ v2e' = [v2e EXCEPT ![v] = e]
    BY <1>9 DEF PutInsert, Store
  <2>2. ~IsFull
    BY <1>9, LRUAssumption DEF PutInsert, Overflows, IsFull, IInv, TypeOK, LRUTypeOK
  <2>3. v2e[v] = Nil
    BY <2>2 DEF IInv, PickedFree, PutStore
  <2>4. \A j \in Key : val[j] # v
    BY <1>1, <1>2, <2>2, <2>3 DEF TableRight, ReverseWhileRoom, KeyOf
  <2> HIDE DEF e, k, v
  <2>5. OneDomainPerAddress'
    BY <1>1, <1>6, <2>1, <2>4 DEF TableRight, OneDomainPerAddress
  <2>6. ReverseSound'
    BY <1>1, <1>2, <1>6, <1>7, <1>8, <2>1 DEF TableRight, ReverseSound, KeyOf
  <2>7. ReverseWhileRoom'
    BY <1>1, <1>2, <1>6, <1>7, <1>8, <2>1, <2>2, <2>4
    DEF TableRight, ReverseWhileRoom, KeyOf
  <2> QED BY <1>5, <2>5, <2>6, <2>7 DEF TableRight
<1>10. CASE PutEvict(k, v)
  <2> DEFINE b == order[Len(order)].key
  <2>1. IsFull /\ IsFull' /\ Len(order) >= 1
    <3>1. Len(order') = Len(order) /\ Len(order) \in Nat
      BY <1>1, <1>2, <1>10, EvictKeeps DEF LRUInv, LRUTypeOK
    <3> QED BY <3>1, <1>10, FakeIPAssumption DEF PutEvict, Overflows, IsFull
  <2>2. v = val[b]
    BY <1>2, <2>1, LastValue, FakeIPAssumption DEF NextPicked, PutStore
  <2>3. /\ b \in Key /\ b # k
        /\ val' = [val EXCEPT ![k] = v, ![b] = Nil]
        /\ v2e' = [v2e EXCEPT ![v] = e, ![val[b]] = Nil]
    BY <1>1, <1>2, <1>10, <2>1, EvictShifts
  <2> HIDE DEF b, e, k, v
  <2>4. OneDomainPerAddress'
    BY <1>1, <1>2, <1>6, <2>2, <2>3 DEF TableRight, OneDomainPerAddress
  <2>5. ReverseSound'
    <3> SUFFICES ASSUME NEW w \in Value, KeyOf(w)' # Nil
                 PROVE  val'[KeyOf(w)'] = w
      BY DEF ReverseSound
    <3>1. w # v /\ v2e'[w] = v2e[w]
      BY <1>1, <1>8, <2>2, <2>3 DEF KeyOf
    <3>2. KeyOf(w)' = KeyOf(w) /\ KeyOf(w) \in Key /\ val[KeyOf(w)] = w
      BY <1>6, <3>1 DEF KeyOf, TableRight, ReverseSound
    <3> QED BY <1>1, <1>2, <1>6, <2>2, <2>3, <3>1, <3>2
  <2>6. ReverseWhileRoom'
    BY <2>1 DEF ReverseWhileRoom
  <2> QED BY <1>5, <2>4, <2>5, <2>6 DEF TableRight
<1> QED BY <1>3, <1>9, <1>10

LEMMA SerialKeeps == SerialIInv /\ [SerialNext]_serialVars => SerialIInv'
<1> SUFFICES ASSUME SerialIInv, [SerialNext]_serialVars PROVE SerialIInv'
  OBVIOUS
<1>1. IInv'
  BY NextKeeps, SerialIsNext DEF SerialIInv
<1>2. CASE UNCHANGED serialVars
  BY <1>1, <1>2
  DEF serialVars, poolVars, lruVars, SerialIInv, Alone, Unknown, NextPicked, InPut,
      TableRight, OneDomainPerAddress, ReverseSound, ReverseWhileRoom, KeyOf, IsFull,
      GetLastValue
<1>3. CASE SerialNext /\ ~serial
  BY <1>1, <1>3 DEF SerialNext, SerialIInv
<1>4. CASE SerialNext /\ serial
  <2>1. PICK c \in Caller : QueryStep(c)
    BY <1>4, SerialSteps
  <2> QED BY <1>1, <1>4, <2>1, SearchSerial, StoreSerial DEF SerialIInv
<1> QED BY <1>2, <1>3, <1>4

LEMMA SerialInvariance == SerialSpec => []SerialIInv
BY InitSerial, SerialKeeps, PTL DEF SerialSpec

(* However many names and addresses there are, while queries come one at a *)
(* time no two domains of the table have one address.                      *)
THEOREM OneDomain == SerialSpec => []SerialOneDomain
<1>1. SerialIInv => SerialOneDomain
  BY DEF SerialIInv, TableRight, SerialOneDomain
<1> QED BY <1>1, SerialInvariance, PTL

(* What the reverse lookup of an address gives, with one query at a time,  *)
(* is a domain that has this address, also on a pool that is full.         *)
THEOREM ReverseIsSound == SerialSpec => []SerialReverseSound
<1>1. SerialIInv => SerialReverseSound
  BY DEF SerialIInv, TableRight, SerialReverseSound
<1> QED BY <1>1, SerialInvariance, PTL

(* And until the pool is full every address that was given leads back to   *)
(* the domain it was given to.                                             *)
THEOREM ReverseIsComplete == SerialSpec => []SerialReverse
<1>1. SerialIInv => SerialReverse
  BY DEF SerialIInv, TableRight, SerialReverse
<1> QED BY <1>1, SerialInvariance, PTL

-----------------------------------------------------------------------------
(***************************************************************************)
(* The refinement.  The table is the list with the addresses of its        *)
(* domains, so a move in the list is a use, an insertion an allotment and  *)
(* an eviction a recycling.                                                *)
(***************************************************************************)
EntryOf(k, a) == [domain |-> k, ip |-> a]
Entry == [domain : Key, ip : Value \cup {Nil}]

(* The table read as a list of entries.                                    *)
ListView ==
  /\ Len(order) \in Nat /\ DOMAIN order = 1 .. Len(order)
  /\ \A i \in DOMAIN order : order[i].key \in Key
  /\ val \in [Key -> Value \cup {Nil}]
  /\ Table \in Seq(Entry) /\ Len(Table) = Len(order) /\ DOMAIN Table = DOMAIN order
  /\ \A i \in DOMAIN order : Table[i] = EntryOf(order[i].key, val[order[i].key])

(* Three facts about sequences: a function is one, and how one that has a  *)
(* new first element is written, with and without the last of the old.     *)
LEMMA FunctionIsSeq ==
  ASSUME NEW S, NEW n \in Nat, NEW f \in [1 .. n -> S]
  PROVE  f \in Seq(S) /\ Len(f) = n
OBVIOUS

LEMMA Pushed ==
  ASSUME NEW S, NEW s \in Seq(S), NEW e \in S, NEW u \in Seq(S),
         Len(u) = Len(s) + 1, u[1] = e, \A i \in 1 .. Len(s) : u[i + 1] = s[i]
  PROVE  u = <<e>> \o s
<1> DEFINE t == <<e>> \o s
<1>1. /\ Len(s) \in Nat /\ t \in Seq(S) /\ Len(t) = Len(s) + 1 /\ t[1] = e
      /\ \A i \in 1 .. Len(s) : t[i + 1] = s[i]
  OBVIOUS
<1> HIDE DEF t
<1>2. ASSUME NEW i \in 1 .. Len(u) PROVE u[i] = t[i]
  <2>1. CASE i = 1
    BY <1>1, <2>1
  <2>2. CASE i # 1
    <3>1. i - 1 \in 1 .. Len(s) /\ (i - 1) + 1 = i
      BY <1>1, <2>2
    <3> QED BY <1>1, <3>1
  <2> QED BY <2>1, <2>2
<1>3. u = t
  BY <1>1, <1>2, SeqEqual
<1> QED BY <1>3 DEF t

LEMMA PushedOut ==
  ASSUME NEW S, NEW s \in Seq(S), NEW e \in S, NEW u \in Seq(S),
         Len(s) >= 1, Len(u) = Len(s), u[1] = e,
         \A i \in 2 .. Len(s) : u[i] = s[i - 1]
  PROVE  u = <<e>> \o SubSeq(s, 1, Len(s) - 1)
<1> DEFINE r == SubSeq(s, 1, Len(s) - 1)
<1>1. /\ Len(s) \in Nat /\ r \in Seq(S) /\ Len(r) = Len(s) - 1
      /\ \A i \in 1 .. Len(r) : r[i] = s[i]
  OBVIOUS
<1> HIDE DEF r
<1>2. ASSUME NEW i \in 1 .. Len(r) PROVE u[i + 1] = r[i]
  <2>1. i + 1 \in 2 .. Len(s) /\ (i + 1) - 1 = i
    BY <1>1
  <2> QED BY <1>1, <2>1
<1>3. u = <<e>> \o r
  BY <1>1, <1>2, Pushed
<1> QED BY <1>3 DEF r

LEMMA TableIsList == IInv => ListView
<1> SUFFICES ASSUME IInv PROVE ListView
  OBVIOUS
<1>1. order \in Seq(Elem) /\ Len(order) \in Nat /\ DOMAIN order = 1 .. Len(order)
  BY DEF IInv, TypeOK, LRUTypeOK
<1>2. \A i \in DOMAIN order : order[i].key \in Key
  <2>1. \A i \in DOMAIN order : order[i] \in Elem
    BY <1>1, ElementOfSeq
  <2> QED BY <2>1 DEF Elem
<1>3. val \in [Key -> Value \cup {Nil}]
  BY DEF IInv, TypeOK, LRUTypeOK
<1>4. Table \in [1 .. Len(order) -> Entry]
  BY <1>1, <1>2, <1>3 DEF Table, Entry
<1>5. Table \in Seq(Entry) /\ Len(Table) = Len(order)
  BY <1>1, <1>4, FunctionIsSeq
<1>6. /\ DOMAIN Table = DOMAIN order
      /\ \A i \in DOMAIN order : Table[i] = EntryOf(order[i].key, val[order[i].key])
  BY DEF Table, EntryOf
<1> QED BY <1>1, <1>2, <1>3, <1>5, <1>6 DEF ListView

LEMMA TableStaysList == IInv' => ListView'
BY TableIsList, PTL

LEMMA MoveIsUse ==
  ASSUME IInv, IInv', serial, serial', NEW e, order' = MoveToFront(order, e), val' = val
  PROVE  Table' = Table \/ Pool!Use
<1>1. CASE \E i \in DOMAIN order : order[i] = e
  <2> DEFINE p == CHOOSE i \in DOMAIN order : order[i] = e
  <2>1. p \in DOMAIN order /\ order[p] = e
    BY <1>1
  <2>2. order' = [i \in DOMAIN order |-> IF i = 1 THEN e
                    ELSE IF i <= p THEN order[i - 1] ELSE order[i]]
    BY <1>1 DEF MoveToFront
  <2> HIDE DEF p
  <2>3. \A i \in DOMAIN order : i \in Nat /\ (i # 1 => i - 1 \in DOMAIN order)
    BY TableIsList DEF ListView
  <2>4. /\ Table' = [i \in DOMAIN order |-> EntryOf(order'[i].key, val[order'[i].key])]
        /\ Table = [i \in DOMAIN order |-> EntryOf(order[i].key, val[order[i].key])]
    BY <2>2 DEF Table, EntryOf
  <2>5. Table' = Pool!Front(Table, p)
    BY <2>1, <2>2, <2>3, <2>4 DEF Pool!Front
  <2> QED BY <2>1, <2>4, <2>5 DEF Pool!Use
<1>2. CASE ~ \E i \in DOMAIN order : order[i] = e
  <2>1. order' = order
    BY <1>2 DEF MoveToFront
  <2> QED BY <2>1 DEF Table
<1> QED BY <1>1, <1>2

(* What Put of a new key finds and leaves in the list, as entries.         *)
LEMMA NotKnown ==
  ASSUME IInv, serial, NEW k \in Key, k2e[k] = Nil
  PROVE  (\A i \in DOMAIN order : order[i].key # k) /\ ~Pool!Known(k)
<1>1. \A i \in DOMAIN order : order[i] # Nil
  <2>1. \A i \in DOMAIN order : order[i] \in Elem
    BY ElementOfSeq DEF IInv, TypeOK, LRUTypeOK
  <2> QED BY <2>1, LRUAssumption
<1>2. \A i \in DOMAIN order : order[i].key # k
  BY <1>1 DEF IInv, Coherent
<1>3. ASSUME NEW i \in DOMAIN Table PROVE Table[i].domain # k
  <2>1. i \in DOMAIN order /\ Table[i] = EntryOf(order[i].key, val[order[i].key])
    BY TableIsList DEF ListView
  <2> QED BY <1>2, <2>1 DEF EntryOf
<1> QED BY <1>2, <1>3 DEF Pool!Known

LEMMA InsertIsAllot ==
  ASSUME IInv, IInv', serial, serial',
         NEW k \in Key, NEW v \in Usable, PutInsert(k, v), \A j \in Key : val[j] # v
  PROVE  Pool!Allot(k, v)
<1>1. LRUInv /\ v \in Value
  BY FakeIPAssumption DEF IInv, LRUInv, TypeOK, Usable
<1>2. ListView /\ ListView'
  BY TableIsList, TableStaysList
<1>3. /\ k2e[k] = Nil /\ val' = [val EXCEPT ![k] = v] /\ Len(order) < Capacity
  BY <1>2, LRUAssumption DEF PutInsert, Overflows, ListView
<1>4. /\ DOMAIN order' = 1 .. Len(order) + 1 /\ order'[1].key = k
      /\ \A i \in DOMAIN order : order'[i + 1] = order[i]
  BY <1>1, InsertShifts
<1>5. ~Pool!Known(k) /\ \A i \in DOMAIN order : order[i].key # k
  BY <1>3, NotKnown
<1>6. ~Pool!Given(v)
  <2>1. \A i \in DOMAIN Table : Table[i].ip # v
    BY <1>2 DEF ListView, EntryOf
  <2> QED BY <2>1 DEF Pool!Given
<1>7. Len(Table') = Len(Table) + 1
  <2>1. Len(order') = Len(order) + 1
    BY <1>1, InsertKeeps
  <2>2. Len(Table') = Len(order') /\ Len(Table) = Len(order)
    BY <1>2 DEF ListView
  <2> QED BY <2>1, <2>2
<1>8. Table'[1] = EntryOf(k, v)
  <2>1. 1 \in DOMAIN order' /\ val'[k] = v
    BY <1>2, <1>3, <1>4 DEF ListView
  <2> QED BY <1>2, <1>4, <2>1 DEF ListView
<1>9. ASSUME NEW i \in 1 .. Len(Table) PROVE Table'[i + 1] = Table[i]
  <2>1. /\ i \in DOMAIN order /\ i + 1 \in DOMAIN order'
        /\ order'[i + 1].key = order[i].key
    BY <1>2, <1>4 DEF ListView
  <2>2. val'[order[i].key] = val[order[i].key]
    BY <1>2, <1>3, <1>5, <2>1 DEF ListView
  <2>3. /\ Table'[i + 1] = EntryOf(order'[i + 1].key, val'[order'[i + 1].key])
        /\ Table[i] = EntryOf(order[i].key, val[order[i].key])
    BY <1>2, <2>1 DEF ListView
  <2> QED BY <2>1, <2>2, <2>3
<1>10. Table' = <<EntryOf(k, v)>> \o Table
  <2>1. EntryOf(k, v) \in Entry /\ Table \in Seq(Entry) /\ Table' \in Seq(Entry)
    BY <1>1, <1>2 DEF EntryOf, Entry, ListView
  <2> QED BY <1>7, <1>8, <1>9, <2>1, Pushed
<1>11. Len(Table) < Capacity
  BY <1>2, <1>3 DEF ListView
<1> QED BY <1>5, <1>6, <1>10, <1>11 DEF Pool!Allot, EntryOf

LEMMA EvictIsRecycle ==
  ASSUME IInv, IInv', serial, serial', NEW k \in Key, NEW v \in Value,
         PutEvict(k, v), IsFull, v = GetLastValue
  PROVE  Pool!Recycle(k)
<1> DEFINE n == Len(order)
           b == order[n].key
<1>1. LRUInv
  BY DEF IInv, LRUInv, TypeOK
<1>2. ListView /\ ListView'
  BY TableIsList, TableStaysList
<1>3. n = Capacity /\ n >= 1 /\ n \in Nat
  <2>1. Len(order) \in Nat /\ Len(order) <= Capacity /\ Len(order) >= Capacity
    BY <1>2 DEF ListView, IInv, BoundedPool, IsFull
  <2> QED BY <2>1, FakeIPAssumption
<1>4. v = val[b]
  BY <1>1, <1>3, LastValue
<1>5. /\ DOMAIN order' = 1 .. n /\ order'[1].key = k
      /\ \A i \in 2 .. n : order'[i] = order[i - 1]
      /\ b \in Key /\ b # k
      /\ val' = [val EXCEPT ![k] = v, ![b] = Nil]
  BY <1>1, <1>3, EvictShifts
<1>6. ~Pool!Known(k) /\ \A i \in DOMAIN order : order[i].key # k
  BY NotKnown DEF PutEvict
<1>7. \A i \in 1 .. n - 1 : order[i].key # b
  BY <1>2, <1>3 DEF ListView, IInv, Distinct
<1> HIDE DEF b, n
<1>8. DOMAIN order = 1 .. n /\ Len(Table) = n /\ Len(Table') = n
  <2>1. Len(order') = n
    BY <1>1, <1>3, EvictKeeps DEF n
  <2> QED BY <1>2, <2>1 DEF ListView, n
<1>9. Table'[1] = EntryOf(k, v) /\ Table[n].ip = v
  <2>1. 1 \in DOMAIN order' /\ n \in DOMAIN order /\ val'[k] = v
    BY <1>2, <1>3, <1>5, <1>8 DEF ListView
  <2>2. /\ Table'[1] = EntryOf(order'[1].key, val'[order'[1].key])
        /\ Table[n] = EntryOf(b, val[b])
    BY <1>2, <2>1 DEF ListView, b, n
  <2> QED BY <1>4, <1>5, <2>1, <2>2 DEF EntryOf
<1>10. ASSUME NEW i \in 2 .. n PROVE Table'[i] = Table[i - 1]
  <2>1. /\ i \in DOMAIN order' /\ i - 1 \in DOMAIN order /\ i - 1 \in 1 .. n - 1
        /\ order'[i].key = order[i - 1].key
    BY <1>3, <1>5, <1>8
  <2>2. val'[order[i - 1].key] = val[order[i - 1].key]
    BY <1>2, <1>5, <1>6, <1>7, <2>1 DEF ListView
  <2>3. /\ Table'[i] = EntryOf(order'[i].key, val'[order'[i].key])
        /\ Table[i - 1] = EntryOf(order[i - 1].key, val[order[i - 1].key])
    BY <1>2, <2>1 DEF ListView
  <2> QED BY <2>1, <2>2, <2>3
<1>11. Table' = <<EntryOf(k, v)>> \o SubSeq(Table, 1, n - 1)
  <2>1. EntryOf(k, v) \in Entry /\ Table \in Seq(Entry) /\ Table' \in Seq(Entry)
    BY <1>2 DEF EntryOf, Entry, ListView
  <2> QED BY <1>3, <1>8, <1>9, <1>10, <2>1, PushedOut
<1> QED BY <1>3, <1>6, <1>8, <1>9, <1>11 DEF Pool!Recycle, EntryOf

(* The steps of a serial query are steps of the abstract pool.             *)
LEMMA QueryRefines ==
  ASSUME SerialIInv, IInv', serial, serial', NEW c \in Caller, QueryStep(c)
  PROVE  Table' = Table \/ Pool!Next
<1>1. IInv /\ Alone /\ Unknown /\ NextPicked /\ TableRight
  BY DEF SerialIInv
<1>2. CASE PutStore(c)
  <2> DEFINE k == asked[c]
             v == ip[c]
  <2>1. k \in Key /\ v \in Value /\ val[k] = Nil /\ k2e[k] = Nil
    BY <1>1, <1>2 DEF IInv, Callers, Unknown, InPut, PutStore, Valued
  <2>2. CASE PutInsert(k, v)
    <3>1. ~IsFull
      BY <1>1, <2>2, LRUAssumption
      DEF PutInsert, Overflows, IsFull, IInv, TypeOK, LRUTypeOK
    <3>2. v \in Usable /\ v2e[v] = Nil
      BY <1>1, <1>2, <3>1 DEF IInv, NextPicked, PickedFree, PutStore
    <3>3. \A j \in Key : val[j] # v
      BY <1>1, <2>1, <3>1, <3>2, FakeDNSAssumption, LRUAssumption
      DEF TableRight, ReverseWhileRoom, KeyOf
    <3>4. Pool!Allot(k, v)
      BY <1>1, <2>1, <2>2, <3>2, <3>3, InsertIsAllot
    <3> QED BY <2>1, <3>2, <3>4 DEF Pool!Next
  <2>3. CASE PutEvict(k, v)
    <3>1. IsFull
      BY <1>1, <2>3, FakeIPAssumption
      DEF PutEvict, Overflows, IsFull, IInv, TypeOK, LRUTypeOK
    <3>2. v = GetLastValue
      BY <1>1, <1>2, <3>1 DEF NextPicked, PutStore
    <3>3. Pool!Recycle(k)
      BY <1>1, <2>1, <2>3, <3>1, <3>2, EvictIsRecycle
    <3> QED BY <2>1, <3>3 DEF Pool!Next
  <2> QED BY <1>2, <2>1, <2>2, <2>3 DEF PutStore, Put, PutReplace
<1>3. CASE ~PutStore(c)
  <2>1. /\ val' = val
        /\ \/ UNCHANGED order
           \/ \E e : order' = MoveToFront(order, e)
    BY <1>3 DEF QueryStep, Query, Get, PutLock, PutStep, PutRecycle, PutSearch,
           ProbeWrap, ProbeSkip, ProbeTaken, ProbeFree, Answer, GetKeyFromValue, lruVars
  <2>2. CASE UNCHANGED order
    BY <2>1, <2>2 DEF Table
  <2>3. CASE \E e : order' = MoveToFront(order, e)
    BY <1>1, <2>1, <2>3, MoveIsUse DEF Pool!Next
  <2> QED BY <2>1, <2>2, <2>3
<1> QED BY <1>2, <1>3

LEMMA StepRefines ==
  SerialIInv /\ SerialIInv' /\ [SerialNext]_serialVars
    => [Pool!Next]_(IF serial THEN Table ELSE << >>)
<1> SUFFICES ASSUME SerialIInv, SerialIInv', [SerialNext]_serialVars
             PROVE  [Pool!Next]_(IF serial THEN Table ELSE << >>)
  OBVIOUS
<1>1. CASE UNCHANGED serialVars
  BY <1>1 DEF serialVars, poolVars, lruVars, Table
<1>2. CASE SerialNext /\ ~serial
  BY <1>2 DEF SerialNext
<1>3. CASE SerialNext /\ serial
  <2>1. PICK c \in Caller : serial' /\ QueryStep(c)
    BY <1>3, SerialSteps
  <2>2. Table' = Table \/ Pool!Next
    BY <1>3, <2>1, QueryRefines DEF SerialIInv
  <2> QED BY <1>3, <2>1, <2>2
<1> QED BY <1>1, <1>2, <1>3

(* The pool implements its abstract specification: to a client that waits  *)
(* for each answer it is a table of bounded size, in which no address is   *)
(* given twice and the least recently used domain is the one that loses    *)
(* its address when all are given.                                         *)
THEOREM ImplementsPool == SerialSpec => RefinesPool
<1>1. SerialInit => Pool!Init
  BY DEF SerialInit, Init, PoolInit, LRUInit, Table, Pool!Init
<1> QED BY <1>1, StepRefines, SerialInvariance, PTL
        DEF SerialSpec, RefinesPool, Pool!Spec

=============================================================================
