------------------------------ MODULE DnsQuery ------------------------------
(***************************************************************************)
(* asyncQuery of package dns, as its two callers use it: the handler of    *)
(* the forwarding DNS server and ResolveIP.  One goroutine per upstream    *)
(* asks it and puts what comes of that in a channel; the call takes the    *)
(* first good answer.  Before each goroutine the call reads an address of  *)
(* this machine from package iface, under a lock that a failed update      *)
(* there leaves held (Iface).                                              *)
(***************************************************************************)
EXTENDS Naturals, Sequences, FiniteSets

CONSTANTS
  N,       \* how many upstreams are configured
  Callers  \* which callers there are: "handler", "resolver"

ASSUME DnsQueryAssumption ==
  /\ N \in Nat
  /\ Callers \subseteq {"handler", "resolver"}

Upstream == 1 .. N
Outcome  == {"answer", "error"}
Returned == {"answer", "error", "nothing"}  \* "nothing": no message, no error

VARIABLES
  caller,   \* who called
  call,     \* where the call is
  next,     \* the next upstream to start a goroutine for
  asking,   \* what each goroutine is doing
  res,      \* the channel
  taken,    \* what the call took out of it, in order
  ret,      \* what the call returned
  use,      \* what the caller made of it
  kept      \* an update has left the lock of package iface held

callVars == <<caller, call, next, asking, res, taken, ret, use, kept>>

CallInit ==
  /\ caller \in Callers /\ call = "start" /\ next = 1
  /\ asking = [i \in Upstream |-> "none"]
  /\ res = << >> /\ taken = << >>
  /\ ret = "none" /\ use = "none" /\ kept \in BOOLEAN

-----------------------------------------------------------------------------
Return(r) == call' = "returned" /\ ret' = r

(* From then on whoever needs an address waits.                            *)
LockIsKept ==
  /\ ~kept /\ kept' = TRUE
  /\ UNCHANGED <<caller, call, next, asking, res, taken, ret, use>>

(* No local address to ask from; once one was known there always is one.   *)
NoAddress ==
  /\ call = "start" /\ next = 1 /\ N > 0 /\ ~kept
  /\ Return("error")
  /\ UNCHANGED <<caller, next, asking, res, taken, use, kept>>

StartOne ==
  /\ call = "start" /\ next <= N /\ ~kept
  /\ asking' = [asking EXCEPT ![next] = "ask"]
  /\ next' = next + 1
  /\ UNCHANGED <<caller, call, res, taken, ret, use, kept>>

AllStarted ==
  /\ call = "start" /\ next > N
  /\ call' = "collect"
  /\ UNCHANGED <<caller, next, asking, res, taken, ret, use, kept>>

(* An upstream answers within a second, or there is an error.              *)
Heard(i) ==
  /\ asking[i] = "ask"
  /\ \E o \in Outcome : asking' = [asking EXCEPT ![i] = o]
  /\ UNCHANGED <<caller, call, next, res, taken, ret, use, kept>>

Capacity_one == 1
Capacity == N

Sends(i) ==
  /\ asking[i] \in Outcome /\ Len(res) < Capacity
  /\ res' = Append(res, asking[i])
  /\ asking' = [asking EXCEPT ![i] = "done"]
  /\ UNCHANGED <<caller, call, next, taken, ret, use, kept>>

Good_any(o) == TRUE
Good(o) == o = "answer"

Rounds_oneMore == N + 1
Rounds == N

(* As many results as there are upstreams; the last one is returned when   *)
(* none is good.                                                           *)
Collect ==
  /\ call = "collect" /\ Len(taken) < Rounds /\ res # << >>
  /\ res' = Tail(res)
  /\ taken' = Append(taken, Head(res))
  /\ IF Good(Head(res)) THEN Return(Head(res)) ELSE UNCHANGED <<call, ret>>
  /\ UNCHANGED <<caller, next, asking, use, kept>>

GiveUp ==
  /\ call = "collect" /\ Len(taken) = Rounds
  /\ Return(IF taken = << >> THEN "nothing" ELSE taken[Rounds])
  /\ UNCHANGED <<caller, next, asking, res, taken, use, kept>>

(* The handler writes the message whatever the error was; ResolveIPv4      *)
(* reads its answers unless there was an error.                            *)
Needed == IF caller = "handler" THEN ret # "answer" ELSE ret = "nothing"

Used ==
  /\ call = "returned" /\ use = "none"
  /\ use' = IF Needed THEN "panic"
            ELSE IF ret = "answer" THEN "message" ELSE "failed"
  /\ UNCHANGED <<caller, call, next, asking, res, taken, ret, kept>>

-----------------------------------------------------------------------------
CallStep == NoAddress \/ StartOne \/ AllStarted \/ Collect \/ GiveUp \/ Used

CallNext ==
  /\ use # "panic"
  /\ LockIsKept \/ CallStep \/ \E i \in Upstream : Heard(i) \/ Sends(i)

(* Reads have a deadline of a second, so every goroutine hears something.  *)
CallFairness ==
  /\ WF_callVars(CallStep)
  /\ \A i \in Upstream : WF_callVars(Heard(i)) /\ WF_callVars(Sends(i))

CallSpec == CallInit /\ [][CallNext]_callVars /\ CallFairness

-----------------------------------------------------------------------------
(* Every variable has its type, and no result is counted twice or lost.    *)
TypeOK ==
  /\ caller \in Callers /\ call \in {"start", "collect", "returned"}
  /\ next \in 1 .. N + 1
  /\ asking \in [Upstream -> {"none", "ask", "done"} \cup Outcome]
  /\ res \in Seq(Outcome) /\ taken \in Seq(Outcome)
  /\ ret \in Returned \cup {"none"}
  /\ use \in {"none", "message", "failed", "panic"} /\ kept \in BOOLEAN
  /\ Len(res) + Len(taken) = Cardinality({i \in Upstream : asking[i] = "done"})

(* The call fails only when every upstream was heard and none answered:    *)
(* one upstream that is down does not hide the answer of another.          *)
FailsOnlyIfAllFail ==
  ret = "error" /\ next > N => taken = [i \in Upstream |-> "error"]

(* The call comes back and its caller goes on, whatever the upstreams do,  *)
(* with two exceptions, both the code's: the call waits for ever when the  *)
(* lock of package iface was left held before the last upstream was asked; *)
(* and the handler, which writes the message also when there is none,      *)
(* panics when there is no address or every upstream has failed.           *)
CallReturns ==
  N > 0 =>
    <>\/ use \in {"message", "failed"}
      \/ call = "start" /\ kept
      \/ caller = "handler" /\ ret = "error"

(* Goroutines whose result nobody takes any more end all the same.         *)
LeftoversEnd == \A i \in Upstream : asking[i] = "ask" ~> asking[i] = "done"

=============================================================================
