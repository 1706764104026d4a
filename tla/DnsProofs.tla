------------------------------ MODULE DnsProofs ------------------------------
(***************************************************************************)
(* Proofs about what the DNS server does with a query: the call that asks  *)
(* the upstreams, for any number of them (DnsQuery), and the end of the    *)
(* program, which waits for the queries it has taken on (Shutdown) and     *)
(* with them for the lock of package iface, for any queries, upstreams,    *)
(* dialers and interfaces.                                                 *)
(***************************************************************************)
EXTENDS DnsQuery, Shutdown, SequenceTheorems, FiniteSetTheorems, TLAPS

USE DnsQueryAssumption DEF DnsQueryAssumption, Upstream, Outcome, Rounds, Capacity

(* While the call goes on, all it took out of the channel was errors, and  *)
(* the channel has nothing but outcomes.                                   *)
IInv ==
  /\ call \in {"start", "collect", "returned"} /\ next \in Nat
  /\ res \in Seq(Outcome) /\ taken \in Seq(Outcome)
  /\ call = "start" => taken = << >> /\ ret = "none"
  /\ call = "collect" =>
       /\ next > N /\ ret = "none" /\ Len(taken) <= N
       /\ \A k \in 1 .. Len(taken) : taken[k] = "error"
  /\ FailsOnlyIfAllFail

LEMMA Invariance == CallSpec => []IInv
<1>1. CallInit => IInv
  BY DEF CallInit, IInv, FailsOnlyIfAllFail
<1>2. IInv /\ [CallNext]_callVars => IInv'
  <2> SUFFICES ASSUME IInv, [CallNext]_callVars PROVE IInv'
    OBVIOUS
  <2> USE DEF IInv, FailsOnlyIfAllFail
  <2>1. CASE UNCHANGED <<call, next, res, taken, ret>>
    BY <2>1
  <2>2. CASE NoAddress
    BY <2>2 DEF NoAddress, Return
  <2>3. CASE StartOne
    BY <2>3 DEF StartOne
  <2>4. CASE AllStarted
    BY <2>4 DEF AllStarted
  <2>5. ASSUME NEW i \in Upstream, Sends(i) PROVE IInv'
    BY <2>5, AppendProperties DEF Sends
  <2>6. CASE Collect
    <3>1. Head(res) \in Outcome /\ res' \in Seq(Outcome)
      BY <2>6, HeadTailProperties DEF Collect
    <3>2. /\ taken' \in Seq(Outcome) /\ Len(taken') = Len(taken) + 1
          /\ \A k \in 1 .. Len(taken) : taken'[k] = taken[k]
          /\ taken'[Len(taken) + 1] = Head(res)
      BY <2>6, <3>1, AppendProperties DEF Collect
    <3>3. CASE Head(res) = "answer"
      BY <2>6, <3>1, <3>2, <3>3 DEF Collect, Good, Return
    <3>4. CASE Head(res) = "error"
      <4>1. UNCHANGED <<call, ret, next>>
        BY <2>6, <3>4 DEF Collect, Good
      <4>2. \A k \in 1 .. Len(taken') : taken'[k] = "error"
        BY <2>6, <3>2, <3>4 DEF Collect
      <4> QED
        BY <2>6, <3>1, <3>2, <4>1, <4>2 DEF Collect
    <3> QED
      BY <3>1, <3>3, <3>4
  <2>7. CASE GiveUp
    <3>1. Len(taken) = N /\ \A k \in 1 .. N : taken[k] = "error"
      BY <2>7 DEF GiveUp
    <3>2. taken = [i \in 1 .. N |-> "error"]
      BY <3>1
    <3> QED
      BY <2>7, <3>2 DEF GiveUp, Return
  <2> QED
    BY <2>1, <2>2, <2>3, <2>4, <2>5, <2>6, <2>7 DEF CallNext, CallStep, callVars, LockIsKept, Heard, Used
<1> QED
  BY <1>1, <1>2, PTL DEF CallSpec

(* However many upstreams there are, the call reports an error, once it    *)
(* has asked them, only when each of them has failed.                      *)
THEOREM OneAnswerIsEnough == CallSpec => []FailsOnlyIfAllFail
<1>1. IInv => FailsOnlyIfAllFail
  BY DEF IInv
<1> QED
  BY <1>1, Invariance, PTL

-----------------------------------------------------------------------------
Sent == {i \in Upstream : asking[i] = "done"}

(* What is counted: a goroutine that has not been started has sent nothing.*)
Unstarted == \A i \in Upstream : i >= next => asking[i] = "none"

LEMMA TypesInductive == TypeOK /\ Unstarted /\ [CallNext]_callVars => TypeOK' /\ Unstarted'
<1> SUFFICES ASSUME TypeOK, Unstarted, [CallNext]_callVars PROVE TypeOK' /\ Unstarted'
  OBVIOUS
<1> USE DEF TypeOK, Unstarted, Returned
<1>1. IsFiniteSet(Sent)
  <2>1. IsFiniteSet(1 .. N)
    BY FS_Interval
  <2>2. Sent \subseteq 1 .. N
    BY DEF Sent
  <2> QED
    BY <2>1, <2>2, FS_Subset
<1>2. CASE UNCHANGED callVars
  BY <1>2 DEF callVars
<1>3. CASE NoAddress
  BY <1>3 DEF NoAddress, Return
<1>4. CASE StartOne
  <2>1. next \in Upstream /\ asking[next] = "none" /\ next' = next + 1
    BY <1>4 DEF StartOne
  <2>2. Sent' = Sent
    BY <1>4, <2>1 DEF StartOne, Sent
  <2>3. asking' \in [Upstream -> {"none", "ask", "done"} \cup Outcome]
    BY <1>4, <2>1 DEF StartOne
  <2>4. Unstarted'
    BY <1>4, <2>1 DEF StartOne
  <2>5. next' \in 1 .. N + 1
    BY <2>1
  <2>6. UNCHANGED <<caller, call, res, taken, ret, use, kept>>
    BY <1>4 DEF StartOne
  <2>7. Cardinality({i \in Upstream : asking'[i] = "done"})
          = Cardinality({i \in Upstream : asking[i] = "done"})
    BY <2>2 DEF Sent
  <2> QED
    BY <2>3, <2>4, <2>5, <2>6, <2>7
<1>5. CASE AllStarted
  BY <1>5 DEF AllStarted
<1>6. ASSUME NEW i \in Upstream, Heard(i) PROVE TypeOK' /\ Unstarted'
  <2>1. Sent' = Sent
    BY <1>6 DEF Heard, Sent
  <2> QED
    BY <1>6, <2>1 DEF Heard, Sent
<1>7. ASSUME NEW i \in Upstream, Sends(i) PROVE TypeOK' /\ Unstarted'
  <2>1. Sent' = Sent \cup {i} /\ i \notin Sent
    BY <1>7 DEF Sends, Sent
  <2>2. Cardinality(Sent') = Cardinality(Sent) + 1
    BY <1>1, <2>1, FS_AddElement
  <2>3. res' \in Seq(Outcome) /\ Len(res') = Len(res) + 1
    BY <1>7, AppendProperties DEF Sends
  <2>4. Cardinality(Sent) \in Nat
    BY <1>1, FS_CardinalityType
  <2> QED
    BY <1>7, <2>2, <2>3, <2>4 DEF Sends, Sent
<1>8. CASE Collect
  <2>1. /\ Head(res) \in Outcome
        /\ res' \in Seq(Outcome) /\ Len(res') = Len(res) - 1
    BY <1>8, HeadTailProperties DEF Collect
  <2>2. taken' \in Seq(Outcome) /\ Len(taken') = Len(taken) + 1
    BY <1>8, <2>1, AppendProperties DEF Collect
  <2>3. Len(res') + Len(taken') = Len(res) + Len(taken)
    BY <2>1, <2>2, LenProperties
  <2>4. UNCHANGED <<caller, next, asking, use, kept>>
    BY <1>8 DEF Collect
  <2>5. call' \in {"start", "collect", "returned"} /\ ret' \in Returned \cup {"none"}
    BY <1>8, <2>1 DEF Collect, Return
  <2> QED
    BY <2>1, <2>2, <2>3, <2>4, <2>5
<1>9. CASE GiveUp
  BY <1>9 DEF GiveUp, Return
<1>10. CASE Used
  BY <1>10 DEF Used
<1>11. CASE LockIsKept
  BY <1>11 DEF LockIsKept
<1> QED
  BY <1>2, <1>3, <1>4, <1>5, <1>6, <1>7, <1>8, <1>9, <1>10, <1>11 DEF CallNext, CallStep

(* Every variable keeps its type, and no upstream's result is lost or      *)
(* counted twice on its way to the call, however many upstreams there are. *)
THEOREM TypeCorrect == CallSpec => []TypeOK
<1>1. CallInit => TypeOK /\ Unstarted
  <2> SUFFICES ASSUME CallInit PROVE TypeOK /\ Unstarted
    OBVIOUS
  <2>1. {i \in Upstream : asking[i] = "done"} = {}
    BY DEF CallInit
  <2>2. Cardinality({i \in Upstream : asking[i] = "done"}) = 0
    BY <2>1, FS_EmptySet
  <2> QED
    BY <2>2 DEF CallInit, TypeOK, Unstarted, Returned
<1> QED
  BY <1>1, TypesInductive, PTL DEF CallSpec

-----------------------------------------------------------------------------
(* The handlers of the queries; what package iface does is nothing to them.*)
Handlers == query \in [Query -> {"none", "address", "upstream", "done"}]

(* Main goes on from the DNS server only when no handler is at work: what  *)
(* makes a handler that waits for ever keep the process alive.             *)
Drained ==
  main \notin {"serve", "dns"} =>
    \A q \in Query : query[q] \in {"none", "done"}

LEMMA DrainInductive ==
  Handlers /\ Drained /\ [Next]_vars => Handlers' /\ Drained'
<1> SUFFICES ASSUME Handlers, Drained, [Next]_vars
             PROVE  Handlers' /\ Drained'
  OBVIOUS
<1> USE DEF Handlers, Drained
<1>1. CASE UNCHANGED <<query, main>>
  BY <1>1
<1>2. ASSUME NEW q \in Query, QueryComes(q) PROVE Handlers' /\ Drained'
  BY <1>2 DEF QueryComes, Looks
<1>3. ASSUME NEW q \in Query, QueryStep(q) PROVE Handlers' /\ Drained'
  BY <1>3 DEF QueryStep, QueryAsksNext, HasAddress, Looks, QueryAsks, QueryEnds, QueryPanics
<1>4. CASE Signal
  BY <1>4 DEF Signal
<1>5. CASE DnsDown
  BY <1>5 DEF DnsDown
<1>6. CASE IngressConns \/ IngressMark \/ EgressClose
  BY <1>6 DEF IngressConns, IngressMark, EgressClose
<1> QED
  BY <1>1, <1>2, <1>3, <1>4, <1>5, <1>6
     DEF Next, vars, exit, IfaceStep, LoopStep, LoopChecks, LoopReads, LoopReadFails,
         FiveSeconds, MainStep

-----------------------------------------------------------------------------
(* The lock of package iface, for any readers: those of the queries and of *)
(* the dialers, and the update, the only writer.                           *)
Readers == Query \cup Dialer

LockInv ==
  /\ net \in Nets
  /\ pc \in [Readers -> {"idle", "wait", "read"}]
  /\ upd = "scan" => held
  /\ held => \A r \in Readers : pc[r] # "read"

(* A step of the program is a step of package iface, an Ask among them, or *)
(* leaves its state alone.                                                 *)
LEMMA IfaceSteps ==
  [Next]_vars => I!Next \/ UNCHANGED iface
BY DEF Next, vars, iface, exit, IfaceStep, QueryComes, QueryStep, QueryAsksNext, Looks, QueryAsks, QueryEnds, QueryPanics,
       LoopStep, LoopChecks, LoopReads, LoopReadFails, Signal, FiveSeconds,
       MainStep, DnsDown, IngressConns, IngressMark, EgressClose, I!Next, I!Family

LEMMA LockInductive == LockInv /\ [Next]_vars => LockInv'
<1> SUFFICES ASSUME LockInv, [Next]_vars PROVE LockInv'
  OBVIOUS
<1> USE DEF LockInv, Readers
<1>1. CASE UNCHANGED iface
  BY <1>1 DEF iface
<1>2. CASE I!NetworkChanges
  BY <1>2 DEF I!NetworkChanges
<1>3. CASE I!Tick
  BY <1>3 DEF I!Tick
<1>4. CASE I!WriteLock
  BY <1>4 DEF I!WriteLock
<1>5. CASE I!Update
  BY <1>5 DEF I!Update
<1>6. CASE I!UpdateFails
  BY <1>6 DEF I!UpdateFails
<1>7. ASSUME NEW r \in Readers, I!ReadLock(r) PROVE LockInv'
  BY <1>7 DEF I!ReadLock
<1>8. ASSUME NEW r \in Readers, I!Answer(r) PROVE LockInv'
  BY <1>8 DEF I!Answer
<1>9. ASSUME NEW r \in Readers, NEW f \in I!Family, I!Ask(r, f) PROVE LockInv'
  BY <1>9 DEF I!Ask
<1> QED
  BY <1>1, <1>2, <1>3, <1>4, <1>5, <1>6, <1>7, <1>8, <1>9, IfaceSteps DEF I!Next, I!Step

LEMMA LockInitially == Init => LockInv /\ ~held
BY DEF Init, I!Init, LockInv, Readers

(* No reader is inside while the addresses are replaced, nor when a failed *)
(* update has left the lock held: nothing is written while it is read.     *)
NoReaderInside == held => \A r \in Readers : pc[r] # "read"

THEOREM LockExcludes == Spec => []NoReaderInside
<1>1. LockInv => NoReaderInside
  BY DEF LockInv, NoReaderInside
<1> QED
  BY <1>1, LockInitially, LockInductive, PTL DEF Spec

(* As long as every update would find a usable interface, the lock is held *)
(* by an update that is going on and by nothing else: what ReadersServed   *)
(* needs of every moment, for any readers and interfaces.                  *)
HeldByUpdate == held <=> upd = "scan"

THEOREM LockIsReleased == Spec => ([]I!NetUp => []HeldByUpdate)
<1>1. Init => HeldByUpdate
  BY DEF Init, I!Init, HeldByUpdate
<1>2. LockInv /\ I!NetUp /\ HeldByUpdate /\ [Next]_vars => HeldByUpdate'
  <2> SUFFICES ASSUME LockInv, I!NetUp, HeldByUpdate, [Next]_vars PROVE HeldByUpdate'
    OBVIOUS
  <2> USE DEF HeldByUpdate
  <2>1. I!Scanned(net) # Nil
    BY DEF I!NetUp, I!Scanned, I!Usable
  <2>2. CASE UNCHANGED iface
    BY <2>2 DEF iface
  <2>3. ~I!UpdateFails
    BY <2>1 DEF I!UpdateFails
  <2> QED
    BY <2>2, <2>3, IfaceSteps
       DEF I!Next, I!Step, I!NetworkChanges, I!Tick, I!WriteLock, I!Update, I!ReadLock, I!Answer, I!Ask
<1> QED
  BY <1>1, <1>2, LockInitially, LockInductive, PTL DEF Spec

(* The handler of q waits for an address, and a failed update has left the *)
(* lock held (iface.go:176).                                               *)
Stranded(q) == held /\ upd # "scan" /\ query[q] = "address" /\ pc[q] = "wait"

LEMMA StrandedStays ==
  ASSUME NEW q \in Query
  PROVE  LockInv /\ Handlers /\ Stranded(q) /\ [Next]_vars => Stranded(q)'
<1> SUFFICES ASSUME LockInv, Handlers, Stranded(q), [Next]_vars PROVE Stranded(q)'
  OBVIOUS
<1>1. held' /\ upd' # "scan" /\ pc'[q] = "wait"
  <2>1. CASE UNCHANGED iface
    BY <2>1 DEF Stranded, iface
  <2>2. CASE I!Next
    BY <2>2 DEF I!Next, I!Step, I!NetworkChanges, I!Tick, I!WriteLock, I!Update, I!UpdateFails,
                I!ReadLock, I!Answer, I!Ask, Stranded, LockInv, Readers
  <2> QED
    BY <2>1, <2>2, IfaceSteps
<1>2. query'[q] = "address"
  <2>1. ASSUME NEW p \in Query, QueryComes(p) \/ QueryEnds(p) PROVE query'[q] = "address"
    BY <2>1 DEF QueryComes, Looks, QueryEnds, Stranded, Handlers
  <2>2. ASSUME NEW p \in Query, QueryAsksNext(p) \/ QueryAsks(p) PROVE query'[q] = "address"
    BY <2>2 DEF QueryAsksNext, Looks, QueryAsks, HasAddress, Stranded, Handlers
  <2> QED
    BY <2>1, <2>2
       DEF Next, vars, exit, IfaceStep, QueryStep, QueryPanics, LoopStep, LoopChecks, LoopReads, LoopReadFails,
           Signal, FiveSeconds, MainStep, DnsDown, IngressConns, IngressMark, EgressClose, Stranded
<1> QED
  BY <1>1, <1>2 DEF Stranded

(* Once an update has failed, a handler that waits for an address waits    *)
(* for ever, and main, five seconds after the signal or not, never comes   *)
(* to its end: why Ends and ReadersServed except a machine without         *)
(* interfaces, and why the timer does not end the program in time.  Only a *)
(* panic of another goroutine would.                                       *)
THEOREM StrandedForGood ==
  ASSUME NEW q \in Query
  PROVE  Spec => [](Stranded(q) => [](Stranded(q) /\ main # "exit"))
<1>1. Init => Handlers /\ Drained
  BY DEF Init, Handlers, Drained
<1>2. Stranded(q) /\ Drained => main # "exit"
  BY DEF Stranded, Drained
<1> QED
  BY <1>1, <1>2, LockInitially, LockInductive, DrainInductive, StrandedStays, PTL DEF Spec

=============================================================================
