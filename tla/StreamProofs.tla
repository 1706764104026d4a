---------------------------- MODULE StreamProofs ----------------------------
(***************************************************************************)
(* Proofs about the streams.  First the relay of the program (StreamRelay) *)
(* for any number of connections, however the peers, the handlers, the two *)
(* copies of each stream and the calls of Close interleave: IInv says of   *)
(* each connection how its sockets and its copies depend on where its      *)
(* handler is, and why a copy that is over has ended.  Then a stream       *)
(* through a proxy (ProxyStream), for any destination, sizes and torn      *)
(* pieces: TunnelInv says what is on its way in each direction, the rest   *)
(* of a handshake and behind it what was sent and not got.                 *)
(***************************************************************************)
EXTENDS StreamRelay, ProxyStream, SequenceTheorems, TLAPS

Stage == {"none", "shake", "failed", "dispatch", "dial", "proxy",
          "copy", "unwind", "leave", "gone"}
Early == {"none", "shake", "failed", "dispatch", "dial", "proxy"}

(* Somebody or something other than the peers' own ends stops the stream.  *)
Stopped(i, s) ==
  \/ dead[i][s] = "past" \/ closes # {}
  \/ \E t \in Side : peer[i][t] = "rst"

Sound(i) ==
  /\ h[i] \in Early => \A s \in Side : copy[i][s] = "none"
  /\ \A s \in Side : copy[i][s] = "run" => h[i] = "copy"
  /\ sock[i]["remote"] = "open" => h[i] \in {"proxy", "copy", "unwind"}
  /\ h[i] = "gone" => sock[i]["client"] # "open"
  /\ \A s \in Side : sock[i][s] = "closed" => h[i] \in {"leave", "gone"} \/ closes # {}
  /\ \A s \in Side : data[i][s] = "dropped" => copy[i][s] = "done"
  /\ \A s \in Side : dead[i][s] # "none" => copy[i][Other(s)] = "done"
  /\ \A s \in Side : copy[i][s] = "done" =>
       Stopped(i, s) \/ (peer[i][s] = "fin" /\ data[i][s] = "none")

IInv == Types /\ \A i \in Conn : Sound(i)

(* A connection a step does not touch stays sound, Close called or not.    *)
LEMMA OthersSound ==
  ASSUME NEW j \in Conn, Sound(j), closes \subseteq closes',
         h'[j] = h[j], sock'[j] = sock[j], peer'[j] = peer[j], data'[j] = data[j],
         copy'[j] = copy[j], dead'[j] = dead[j]
  PROVE  Sound(j)'
BY DEF Sound, Stopped

LEMMA InitIInv == Init => IInv
BY StreamRelayAssumption DEF Init, IInv, Types, Sound, EachSide, Side, Early

(* A step of one connection has to be looked at there alone.               *)
LEMMA OneSuffices ==
  ASSUME IInv, NEW i \in Conn, Types', Sound(i)', closes' = closes,
         \A j \in Conn : j # i =>
           /\ h'[j] = h[j] /\ sock'[j] = sock[j] /\ peer'[j] = peer[j]
           /\ data'[j] = data[j] /\ copy'[j] = copy[j] /\ dead'[j] = dead[j]
  PROVE  IInv'
<1> SUFFICES ASSUME NEW j \in Conn, j # i PROVE Sound(j)'
  BY DEF IInv
<1> QED BY OthersSound DEF IInv

(* A table of both ends of the connections of which one entry is set.      *)
LEMMA SetKeeps ==
  ASSUME NEW S, NEW f \in [Conn -> [Side -> S]], NEW i \in Conn, NEW s \in Side,
         NEW v \in S, NEW g, g = f \/ g = [f EXCEPT ![i][s] = v]
  PROVE  g \in [Conn -> [Side -> S]]
<1>1. [f[i] EXCEPT ![s] = v] \in [Side -> S]
  OBVIOUS
<1> QED BY <1>1

LEMMA OtherSide == ASSUME NEW s \in Side PROVE Other(s) \in Side
BY DEF Side, Other

(* What a peer does.                                                       *)
LEMMA Peers ==
  ASSUME IInv, NEW i \in Conn, NEW s \in Side, Sends(i, s) \/ Finishes(i, s) \/ Resets(i, s)
  PROVE  IInv'
<1>1. Types /\ Sound(i)
  BY DEF IInv
<1>2. Types'
  <2>1. peer' \in [Conn -> [Side -> {"open", "fin", "rst"}]]
    <3>1. peer \in [Conn -> [Side -> {"open", "fin", "rst"}]]
      BY <1>1 DEF Types
    <3>2. \/ peer' = peer
          \/ peer' = [peer EXCEPT ![i][s] = "fin"]
          \/ peer' = [peer EXCEPT ![i][s] = "rst"]
      BY DEF Sends, Finishes, Resets
    <3> QED BY <3>1, <3>2, SetKeeps
  <2>2. data' \in [Conn -> [Side -> {"none", "sent", "dropped"}]]
    <3>1. data \in [Conn -> [Side -> {"none", "sent", "dropped"}]]
      BY <1>1 DEF Types
    <3>2. data' = data \/ data' = [data EXCEPT ![i][s] = "sent"]
      BY DEF Sends, Finishes, Resets
    <3> QED BY <3>1, <3>2, SetKeeps
  <2> QED BY <1>1, <2>1, <2>2 DEF Sends, Finishes, Resets, Types, Stage
<1>3. Sound(i)'
  BY <1>1 DEF Sends, Finishes, Resets, Types, Sound, Stopped, Side, Other, Early
<1>4. /\ closes' = closes
      /\ \A j \in Conn : j # i =>
           /\ h'[j] = h[j] /\ sock'[j] = sock[j] /\ peer'[j] = peer[j]
           /\ data'[j] = data[j] /\ copy'[j] = copy[j] /\ dead'[j] = dead[j]
  BY <1>1 DEF Sends, Finishes, Resets, Types
<1> QED BY <1>2, <1>3, <1>4, OneSuffices

(* The handler of the ingress, before and after the egress.                *)
LEMMA Accepts ==
  ASSUME IInv, NEW i \in Conn, Accept(i) \/ Shaken(i) \/ ShakeFails(i) \/ Leave(i)
  PROVE  IInv'
<1>1. Types /\ Sound(i)
  BY DEF IInv
<1>2. Types'
  <2>1. sock' \in [Conn -> [Side -> {"none", "open", "closed"}]]
    <3>1. sock \in [Conn -> [Side -> {"none", "open", "closed"}]]
      BY <1>1 DEF Types
    <3>2. \/ sock' = sock
          \/ sock' = [sock EXCEPT ![i]["client"] = "open"]
          \/ sock' = [sock EXCEPT ![i]["client"] = "closed"]
      BY DEF Accept, Shaken, ShakeFails, Leave, Goto, Shut
    <3>3. "client" \in Side
      BY DEF Side
    <3> QED BY <3>1, <3>2, <3>3, SetKeeps
  <2>2. h' \in [Conn -> Stage]
    BY <1>1, ZenonT(40) DEF Accept, Shaken, ShakeFails, Leave, Goto, Shut, Types, Stage
  <2>3. listen' \in BOOLEAN /\ entry' \in Conn \cup {Nil}
    BY <1>1 DEF Accept, Shaken, ShakeFails, Leave, Goto, Shut, Types
  <2> QED BY <1>1, <2>1, <2>2, <2>3 DEF Accept, Shaken, ShakeFails, Leave, Goto, Shut, Types, Stage
<1>3. Sound(i)'
  BY <1>1 DEF Accept, Shaken, ShakeFails, Leave, Goto, Shut, Types, Sound, Stopped, Side, Other, Early
<1>4. /\ closes' = closes
      /\ \A j \in Conn : j # i =>
           /\ h'[j] = h[j] /\ sock'[j] = sock[j] /\ peer'[j] = peer[j]
           /\ data'[j] = data[j] /\ copy'[j] = copy[j] /\ dead'[j] = dead[j]
  BY <1>1 DEF Accept, Shaken, ShakeFails, Leave, Goto, Shut, Types
<1> QED BY <1>2, <1>3, <1>4, OneSuffices

(* The egress, up to the copies.                                           *)
LEMMA Dials ==
  ASSUME IInv, NEW i \in Conn, (\E k \in Route[i] : Dispatch(i, k)) \/ DialFails(i) \/ ProxyFails(i)
  PROVE  IInv'
<1>1. Types /\ Sound(i)
  BY DEF IInv
<1>2. Types'
  <2>1. h' \in [Conn -> Stage]
    BY <1>1, ZenonT(40) DEF Dispatch, DialFails, ProxyFails, Goto, Types, Stage
  <2>2. via' \in [Conn -> Egress \cup {Nil}]
    <3>1. via \in [Conn -> Egress \cup {Nil}] /\ Route[i] \subseteq Egress
      BY <1>1, StreamRelayAssumption DEF Types
    <3>2. via' = via \/ \E k \in Route[i] : via' = [via EXCEPT ![i] = k]
      BY DEF Dispatch, DialFails, ProxyFails
    <3> QED BY <3>1, <3>2
  <2>3. status' \in [ingress : {"Running", "Closed"},
                    general : {"Ready", "Running", "Closed"}]
    BY <1>1 DEF Dispatch, DialFails, ProxyFails, Goto, Types
  <2> QED BY <1>1, <2>1, <2>2, <2>3 DEF Dispatch, DialFails, ProxyFails, Goto, Types, Stage
<1>3. Sound(i)'
  BY <1>1 DEF Dispatch, DialFails, ProxyFails, Goto, Types, Sound, Stopped, Side, Other, Early
<1>4. /\ closes' = closes
      /\ \A j \in Conn : j # i =>
           /\ h'[j] = h[j] /\ sock'[j] = sock[j] /\ peer'[j] = peer[j]
           /\ data'[j] = data[j] /\ copy'[j] = copy[j] /\ dead'[j] = dead[j]
  BY <1>1 DEF Dispatch, DialFails, ProxyFails, Goto, Types
<1> QED BY <1>2, <1>3, <1>4, OneSuffices

LEMMA Starts ==
  ASSUME IInv, NEW i \in Conn, Dialed(i) \/ Proxied(i)
  PROVE  IInv'
<1>1. Types /\ Sound(i)
  BY DEF IInv
<1>2. Types'
  <2>1. sock' \in [Conn -> [Side -> {"none", "open", "closed"}]]
    <3>1. sock \in [Conn -> [Side -> {"none", "open", "closed"}]]
      BY <1>1 DEF Types
    <3>2. sock' = sock \/ sock' = [sock EXCEPT ![i]["remote"] = "open"]
      BY DEF Dialed, Proxied, StartCopies, Goto
    <3>3. "remote" \in Side
      BY DEF Side
    <3> QED BY <3>1, <3>2, <3>3, SetKeeps
  <2>2. h' \in [Conn -> Stage]
    BY <1>1 DEF Dialed, Proxied, StartCopies, Goto, Types, Stage
  <2>3. copy' \in [Conn -> [Side -> {"none", "run", "done"}]]
    <3>1. copy \in [Conn -> [Side -> {"none", "run", "done"}]]
      BY <1>1 DEF Types
    <3> DEFINE both == [s \in Side |-> "run"]
    <3>2. copy' = copy \/ copy' = [copy EXCEPT ![i] = both]
      BY DEF Dialed, Proxied, StartCopies, Goto
    <3>3. both \in [Side -> {"none", "run", "done"}]
      OBVIOUS
    <3> HIDE DEF both
    <3> QED BY <3>1, <3>2, <3>3
  <2> QED BY <1>1, <2>1, <2>2, <2>3 DEF Dialed, Proxied, StartCopies, Goto, Types, Stage
<1>3. Sound(i)'
  BY <1>1 DEF Dialed, Proxied, StartCopies, Goto, Types, Sound, Stopped, Side, Other, Early
<1>4. /\ closes' = closes
      /\ \A j \in Conn : j # i =>
           /\ h'[j] = h[j] /\ sock'[j] = sock[j] /\ peer'[j] = peer[j]
           /\ data'[j] = data[j] /\ copy'[j] = copy[j] /\ dead'[j] = dead[j]
  BY <1>1 DEF Dialed, Proxied, StartCopies, Goto, Types
<1> QED BY <1>2, <1>3, <1>4, OneSuffices

(* A copy, and the time that is left to it.                                *)
LEMMA Passes ==
  ASSUME IInv, NEW i \in Conn, NEW s \in Side, Copies(i, s) \/ TimePasses(i, s)
  PROVE  IInv'
<1>1. Types /\ Sound(i)
  BY DEF IInv
<1>2. Types'
  <2>1. data' \in [Conn -> [Side -> {"none", "sent", "dropped"}]]
    <3>1. data \in [Conn -> [Side -> {"none", "sent", "dropped"}]]
      BY <1>1 DEF Types
    <3>2. data' = data \/ data' = [data EXCEPT ![i][s] = "none"]
      BY DEF Copies, CanRead, TimePasses
    <3> QED BY <3>1, <3>2, SetKeeps
  <2>2. dead' \in [Conn -> [Side -> {"none", "set", "past"}]]
    <3>1. dead \in [Conn -> [Side -> {"none", "set", "past"}]]
      BY <1>1 DEF Types
    <3>2. dead' = dead \/ dead' = [dead EXCEPT ![i][s] = "past"]
      BY DEF Copies, CanRead, TimePasses
    <3> QED BY <3>1, <3>2, SetKeeps
  <2> QED BY <1>1, <2>1, <2>2 DEF Copies, CanRead, TimePasses, Types, Stage
<1>3. Sound(i)'
  BY <1>1 DEF Copies, CanRead, TimePasses, Types, Sound, Stopped, Side, Other, Early
<1>4. /\ closes' = closes
      /\ \A j \in Conn : j # i =>
           /\ h'[j] = h[j] /\ sock'[j] = sock[j] /\ peer'[j] = peer[j]
           /\ data'[j] = data[j] /\ copy'[j] = copy[j] /\ dead'[j] = dead[j]
  BY <1>1 DEF Copies, CanRead, TimePasses, Types
<1> QED BY <1>2, <1>3, <1>4, OneSuffices

LEMMA Ends ==
  ASSUME IInv, NEW i \in Conn, NEW s \in Side, CopyEnds(i, s)
  PROVE  IInv'
<1>1. Types /\ Sound(i)
  BY DEF IInv
<1>2. Types'
  <2>1. data' \in [Conn -> [Side -> {"none", "sent", "dropped"}]]
    <3>1. data \in [Conn -> [Side -> {"none", "sent", "dropped"}]]
      BY <1>1 DEF Types
    <3>2. data' = data \/ data' = [data EXCEPT ![i][s] = "dropped"]
      BY DEF CopyEnds, ReadEnds, CanRead, Broken, GivesTime
    <3> QED BY <3>1, <3>2, SetKeeps
  <2>2. copy' \in [Conn -> [Side -> {"none", "run", "done"}]]
    <3>1. copy \in [Conn -> [Side -> {"none", "run", "done"}]]
      BY <1>1 DEF Types
    <3>2. copy' = copy \/ copy' = [copy EXCEPT ![i][s] = "done"]
      BY DEF CopyEnds, ReadEnds, CanRead, Broken, GivesTime
    <3> QED BY <3>1, <3>2, SetKeeps
  <2>3. dead' \in [Conn -> [Side -> {"none", "set", "past"}]]
    <3>1. dead \in [Conn -> [Side -> {"none", "set", "past"}]]
      BY <1>1 DEF Types
    <3> DEFINE v == IF dead[i][Other(s)] = "none" THEN "set" ELSE dead[i][Other(s)]
    <3>2. dead' = dead \/ dead' = [dead EXCEPT ![i][Other(s)] = v]
      BY DEF CopyEnds, GivesTime
    <3>3. Other(s) \in Side
      BY OtherSide
    <3>4. v \in {"none", "set", "past"}
      BY <3>1, <3>3
    <3> HIDE DEF v
    <3> QED BY <3>1, <3>2, <3>3, <3>4, SetKeeps
  <2> QED BY <1>1, <2>1, <2>2, <2>3 DEF CopyEnds, ReadEnds, CanRead, Broken, GivesTime, Types, Stage
<1>3. Sound(i)'
  BY <1>1 DEF CopyEnds, ReadEnds, CanRead, Broken, GivesTime, Types, Sound, Stopped, Side, Other, Early
<1>4. /\ closes' = closes
      /\ \A j \in Conn : j # i =>
           /\ h'[j] = h[j] /\ sock'[j] = sock[j] /\ peer'[j] = peer[j]
           /\ data'[j] = data[j] /\ copy'[j] = copy[j] /\ dead'[j] = dead[j]
  BY <1>1 DEF CopyEnds, ReadEnds, CanRead, Broken, GivesTime, Types
<1> QED BY <1>2, <1>3, <1>4, OneSuffices

(* The end of the egress.                                                  *)
LEMMA Unwinds ==
  ASSUME IInv, NEW i \in Conn, CopiesOver(i) \/ Unwind(i)
  PROVE  IInv'
<1>1. Types /\ Sound(i)
  BY DEF IInv
<1>2. Types'
  <2>1. sock' \in [Conn -> [Side -> {"none", "open", "closed"}]]
    <3>1. sock \in [Conn -> [Side -> {"none", "open", "closed"}]]
      BY <1>1 DEF Types
    <3>2. sock' = sock \/ sock' = [sock EXCEPT ![i]["remote"] = "closed"]
      BY DEF CopiesOver, Unwind, Goto, Shut
    <3>3. "remote" \in Side
      BY DEF Side
    <3> QED BY <3>1, <3>2, <3>3, SetKeeps
  <2>2. h' \in [Conn -> Stage]
    BY <1>1 DEF CopiesOver, Unwind, Goto, Shut, Types, Stage
  <2> QED BY <1>1, <2>1, <2>2 DEF CopiesOver, Unwind, Goto, Shut, Types, Stage
<1>3. Sound(i)'
  BY <1>1 DEF CopiesOver, Unwind, Goto, Shut, Types, Sound, Stopped, Side, Other, Early
<1>4. /\ closes' = closes
      /\ \A j \in Conn : j # i =>
           /\ h'[j] = h[j] /\ sock'[j] = sock[j] /\ peer'[j] = peer[j]
           /\ data'[j] = data[j] /\ copy'[j] = copy[j] /\ dead'[j] = dead[j]
  BY <1>1 DEF CopiesOver, Unwind, Goto, Shut, Types
<1> QED BY <1>2, <1>3, <1>4, OneSuffices

(* Close of the ingress and of the egresses: whatever sockets they shut.   *)
ShutsEnds(S, s) ==
  sock' = [i \in Conn |-> IF i \in S THEN [sock[i] EXCEPT ![s] = "closed"]
                          ELSE sock[i]]

LEMMA ShutKeeps ==
  ASSUME IInv, NEW S \in SUBSET Conn, NEW s \in Side, ShutsEnds(S, s),
         closes' # {}, closes \subseteq closes',
         UNCHANGED <<h, peer, data, copy, dead>>
  PROVE  /\ sock' \in [Conn -> [Side -> {"none", "open", "closed"}]]
         /\ \A i \in Conn : Sound(i)'
<1>1. sock \in [Conn -> [Side -> {"none", "open", "closed"}]]
  BY DEF IInv, Types
<1>2. ASSUME NEW i \in Conn
      PROVE  /\ sock'[i] \in [Side -> {"none", "open", "closed"}]
             /\ \A t \in Side : sock'[i][t] = sock[i][t] \/ sock'[i][t] = "closed"
  BY <1>1 DEF ShutsEnds
<1>3. sock' \in [Conn -> [Side -> {"none", "open", "closed"}]]
  BY <1>1, <1>2 DEF ShutsEnds
<1>4. ASSUME NEW i \in Conn PROVE Sound(i)'
  <2>1. Sound(i) /\ closes' # {} /\ "client" \in Side /\ "remote" \in Side
    BY DEF IInv, Side
  <2>2. \A t \in Side : sock'[i][t] = "open" => sock[i][t] = "open"
    BY <1>2
  <2>3. \A t \in Side : Stopped(i, t)'
    BY <2>1 DEF Stopped
  <2> QED BY <2>1, <2>2, <2>3 DEF Sound
<1> QED BY <1>3, <1>4

LEMMA Closes ==
  ASSUME IInv, CloseIngress \/ CloseGeneral \/ CloseDirect
  PROVE  IInv'
<1>1. Types /\ "client" \in Side /\ "remote" \in Side
  BY DEF IInv, Side
<1>2. /\ sock \in [Conn -> [Side -> {"none", "open", "closed"}]]
      /\ table \subseteq Conn /\ reached \subseteq Conn
  BY <1>1 DEF Types
<1>3. /\ closes' # {} /\ closes \subseteq closes'
      /\ UNCHANGED <<listen, entry, h, peer, data, copy, dead, via, table>>
  BY DEF CloseIngress, CloseGeneral, CloseDirect
<1>4. \E S \in SUBSET Conn, s \in Side : ShutsEnds(S, s)
  <2>0. "client" \in Side /\ "remote" \in Side /\ {} \in SUBSET Conn
    BY DEF Side
  <2>1. sock' = sock => ShutsEnds({}, "client")
    BY <1>2 DEF ShutsEnds
  <2>2. \A k : Of(k) \in SUBSET Conn
    BY <1>2 DEF Of
  <2>3. \A S : ShutAll(S) => ShutsEnds(S, "remote")
    BY DEF ShutAll, ShutsEnds
  <2>4. CASE CloseIngress
    <3>1. CASE entry # Nil
      <4>1. entry \in Conn /\ sock' = [sock EXCEPT ![entry]["client"] = "closed"]
        BY <1>1, <2>4, <3>1 DEF CloseIngress, Shut, Types
      <4>2. ShutsEnds({entry}, "client")
        BY <1>2, <4>1 DEF ShutsEnds
      <4> QED BY <2>0, <4>1, <4>2
    <3>2. CASE entry = Nil
      <4>1. sock' = sock
        BY <2>4, <3>2 DEF CloseIngress
      <4> QED BY <2>0, <2>1, <4>1
    <3> QED BY <3>1, <3>2
  <2>5. CASE CloseGeneral
    <3>1. sock' = sock \/ ShutAll(Of("general"))
      BY <2>5 DEF CloseGeneral
    <3> QED BY <2>0, <2>1, <2>2, <2>3, <3>1
  <2>6. CASE CloseDirect
    <3>1. ShutAll(Of("direct"))
      BY <2>6 DEF CloseDirect
    <3> QED BY <2>0, <2>2, <2>3, <3>1
  <2> QED BY <1>1, <2>4, <2>5, <2>6
<1>5. /\ sock' \in [Conn -> [Side -> {"none", "open", "closed"}]]
      /\ \A i \in Conn : Sound(i)'
  BY <1>3, <1>4, ShutKeeps
<1>6. /\ status' \in [ingress : {"Running", "Closed"},
                     general : {"Ready", "Running", "Closed"}]
      /\ closes' \subseteq {"ingress", "general", "direct"}
      /\ reached' \subseteq Conn
  BY <1>1, <1>2 DEF CloseIngress, CloseGeneral, CloseDirect, Of, Types
<1>7. Types'
  BY <1>1, <1>3, <1>5, <1>6 DEF Types
<1> QED BY <1>5, <1>7 DEF IInv

LEMMA NextKeeps == IInv /\ [Next]_vars => IInv'
<1> SUFFICES ASSUME IInv, [Next]_vars PROVE IInv'
  OBVIOUS
<1>1. CASE UNCHANGED vars
  <2>1. /\ listen' = listen /\ entry' = entry /\ status' = status /\ via' = via
        /\ table' = table /\ closes' = closes /\ reached' = reached
        /\ h' = h /\ sock' = sock /\ peer' = peer /\ data' = data
        /\ copy' = copy /\ dead' = dead
    BY <1>1 DEF vars, streams
  <2>2. Types'
    BY <2>1 DEF IInv, Types
  <2>3. \A j \in Conn : Sound(j)'
    BY <2>1 DEF IInv, Sound, Stopped
  <2> QED BY <2>2, <2>3 DEF IInv
<1>2. ASSUME NEW i \in Conn, HandlerStep(i) PROVE IInv'
  BY <1>2, Accepts, Dials, Starts, Unwinds DEF HandlerStep
<1>3. CASE Next
  BY <1>2, <1>3, Accepts, Dials, Starts, Peers, Passes, Ends, Closes DEF Next
<1> QED BY <1>1, <1>3

LEMMA Invariance == Spec => []IInv
BY InitIInv, NextKeeps, PTL DEF Spec

(* Each variable keeps its type, and a copy is given a deadline only when  *)
(* the other copy of its stream is over, for any number of streams.        *)
THEOREM TypeCorrect == Spec => []TypeOK
<1>1. IInv => TypeOK
  BY DEF IInv, TypeOK, Sound
<1> QED BY <1>1, Invariance, PTL

(* What a peer sends before it ends its side is cut off only by a reset,   *)
(* by Close, or by the deadline the end of the other way left.             *)
THEOREM NothingIsCut == Spec => []NothingCut
<1>1. IInv => NothingCut
  BY DEF IInv, NothingCut, Sound, Stopped
<1> QED BY <1>1, Invariance, PTL

(* No handler that is over has left an end of its stream open, but for the *)
(* client's connection when the handshake on it fails.                     *)
THEOREM NothingIsLeft == Spec => []NothingLeaks
<1>1. IInv => NothingLeaks
  BY DEF IInv, NothingLeaks, Sound, Side
<1> QED BY <1>1, Invariance, PTL

-----------------------------------------------------------------------------
(* The two halves of x \o y.                                               *)
LEMMA Halves ==
  ASSUME NEW x \in Seq(Nat), NEW y \in Seq(Nat)
  PROVE  /\ x \o y \in Seq(Nat) /\ Len(x \o y) = Len(x) + Len(y)
         /\ SubSeq(x \o y, 1, Len(x)) = x
         /\ SubSeq(x \o y, Len(x) + 1, Len(x \o y)) = y
OBVIOUS

(* Of three sequences in a row it does not matter which two are joined     *)
(* first.                                                                  *)
LEMMA Three ==
  ASSUME NEW x \in Seq(Nat), NEW y \in Seq(Nat), NEW z \in Seq(Nat)
  PROVE  (x \o y) \o z = x \o (y \o z)
OBVIOUS

(* The empty sequence adds nothing, and a sequence is a part of itself.    *)
LEMMA Nothing ==
  ASSUME NEW x \in Seq(Nat)
  PROVE  << >> \o x = x /\ x \o << >> = x /\ << >> \in Seq(Nat) /\ Len(x) \in Nat
         /\ SubSeq(x, 1, Len(x)) = x
OBVIOUS

(* The lesser of two numbers, which is what a Read gives at most.          *)
LEMMA MinTwo == ASSUME NEW a \in Nat, NEW b \in Nat PROVE Min({a, b}) = IF a <= b THEN a ELSE b
<1> DEFINE m == IF a <= b THEN a ELSE b
<1>1. m \in {a, b} /\ \A y \in {a, b} : m <= y
  OBVIOUS
<1>2. \A x \in {a, b} : (\A y \in {a, b} : x <= y) => x = m
  OBVIOUS
<1> HIDE DEF m
<1>3. Min({a, b}) = m
  BY <1>1, <1>2, Zenon DEF Min
<1> QED BY <1>3 DEF m

-----------------------------------------------------------------------------
(* What is on its way from an end: the rest a of what its handshake sends, *)
(* then of all that was written, s, what the other end has not got, g.     *)
Link(w, a, s, g) ==
  \E f \in Seq(Nat) : w = a \o f /\ s = g \o f

(* A handshake has said a and the stream has not begun.                    *)
LEMMA LinkSaid ==
  ASSUME NEW a \in Seq(Nat)
  PROVE  Link(a, a, << >>, << >>)
<1>1. << >> \in Seq(Nat) /\ a = a \o << >> /\ << >> = << >> \o << >>
  OBVIOUS
<1> QED BY <1>1, Zenon DEF Link

(* Reading x, the first of what a handshake still has on its way, leaves   *)
(* the rest of it, y.                                                      *)
LEMMA LinkTake ==
  ASSUME NEW x \in Seq(Nat), NEW y \in Seq(Nat), NEW s, NEW g, NEW w, Link(w, x \o y, s, g)
  PROVE  /\ w \in Seq(Nat) /\ SubSeq(w, 1, Len(x)) = x
         /\ Link(SubSeq(w, Len(x) + 1, Len(w)), y, s, g)
<1>1. PICK f \in Seq(Nat) : w = (x \o y) \o f /\ s = g \o f
  BY DEF Link
<1> DEFINE z == y \o f
<1>2. w = x \o z /\ z \in Seq(Nat)
  <2>1. (x \o y) \o f = x \o z
    BY Three
  <2>2. z \in Seq(Nat)
    OBVIOUS
  <2> QED BY <1>1, <2>1, <2>2
<1> HIDE DEF z
<1>3. w \in Seq(Nat) /\ SubSeq(w, 1, Len(x)) = x /\ SubSeq(w, Len(x) + 1, Len(w)) = z
  <2>1. /\ x \o z \in Seq(Nat) /\ SubSeq(x \o z, 1, Len(x)) = x
        /\ SubSeq(x \o z, Len(x) + 1, Len(x \o z)) = z
    BY <1>2
  <2> QED BY <1>2, <2>1, Zenon
<1> QED BY <1>1, <1>3, Zenon DEF Link, z

(* What an end writes of the stream comes behind all that is on its way.   *)
LEMMA LinkWrite ==
  ASSUME NEW w, NEW a \in Seq(Nat), NEW s, NEW g \in Seq(Nat), Link(w, a, s, g), NEW d \in Seq(Nat)
  PROVE  Link(w \o d, a, s \o d, g)
<1>1. PICK f \in Seq(Nat) : w = a \o f /\ s = g \o f
  BY DEF Link
<1>2. w \o d = a \o (f \o d)
  <2>1. (a \o f) \o d = a \o (f \o d)
    BY Three, ZenonT(40)
  <2> QED BY <1>1, <2>1
<1>3. s \o d = g \o (f \o d)
  <2>1. (g \o f) \o d = g \o (f \o d)
    BY Three, ZenonT(40)
  <2> QED BY <1>1, <2>1
<1>4. f \o d \in Seq(Nat)
  OBVIOUS
<1> QED BY <1>2, <1>3, <1>4, Zenon DEF Link

(* Once nothing of the handshake is left a read of any length takes what   *)
(* was written next.                                                       *)
LEMMA LinkRead ==
  ASSUME NEW w, NEW s, NEW g \in Seq(Nat), Link(w, << >>, s, g), NEW n \in 1 .. Len(w)
  PROVE  /\ w \in Seq(Nat) /\ SubSeq(w, 1, n) \in Seq(Nat)
         /\ Link(SubSeq(w, n + 1, Len(w)), << >>, s, g \o SubSeq(w, 1, n))
<1>1. PICK f \in Seq(Nat) : w = << >> \o f /\ s = g \o f
  BY DEF Link
<1>2. w = f
  BY <1>1, Nothing
<1> DEFINE x == SubSeq(f, 1, n)
           y == SubSeq(f, n + 1, Len(f))
<1>3. x \in Seq(Nat) /\ y \in Seq(Nat) /\ f = x \o y
  BY <1>2
<1> HIDE DEF x, y
<1>4. s = (g \o x) \o y /\ y = << >> \o y
  <2>1. (g \o x) \o y = g \o (x \o y)
    BY <1>3, Three, ZenonT(40)
  <2>2. y = << >> \o y
    BY <1>3, Nothing, Zenon
  <2> QED BY <1>1, <1>3, <2>1, <2>2, Zenon
<1>5. Link(y, << >>, s, g \o x)
  BY <1>3, <1>4, Zenon DEF Link
<1> QED BY <1>2, <1>3, <1>5 DEF x, y

(* What was got of a link is the beginning of what was sent.               *)
LEMMA LinkPrefix ==
  ASSUME NEW w, NEW a, NEW s, NEW g \in Seq(Nat), Link(w, a, s, g)
  PROVE  IsPrefix(g, s) /\ s \in Seq(Nat)
<1>1. PICK f \in Seq(Nat) : s = g \o f
  BY DEF Link
<1>2. s \in Seq(Nat) /\ Len(g) <= Len(s) /\ SubSeq(s, 1, Len(g)) = g
  BY <1>1, Halves
<1> QED BY <1>2, SMT DEF IsPrefix

Sealed == [salt : End, nonce : Nat \cup {Absent}, data : Seq(Nat)]

(* The parts of f, of which part j ends at p[j], in chunks two of which    *)
(* are for a part; the data of the first one is its length.                *)
Parts(f, m, p, v) ==
  /\ Len(v) = 2 * m /\ p[0] = 0 /\ p[m] = Len(f)
  /\ \A i, j \in 0 .. m : i <= j => p[i] <= p[j]
  /\ \A j \in 1 .. m : v[2 * j].data = SubSeq(f, p[j - 1] + 1, p[j])

Numbered(e, n, v) == \A i \in 1 .. Len(v) : v[i].salt = e /\ v[i].nonce = n + i - 1

Chunked(e, n, v, f) ==
  /\ Numbered(e, n, v)
  /\ \E m \in Nat : \E p \in [0 .. m -> 0 .. Len(f)] : Parts(f, m, p, v)

(* No chunks hold no bytes.                                                *)
LEMMA NoChunks == ASSUME NEW e, NEW n PROVE Chunked(e, n, << >>, << >>)
<1> DEFINE p == [i \in 0 .. 0 |-> 0]
<1>1. p \in [0 .. 0 -> 0 .. Len(<< >>)] /\ Parts(<< >>, 0, p, << >>)
  BY DEF Parts
<1>2. Numbered(e, n, << >>)
  BY DEF Numbered
<1>3. 0 \in Nat
  OBVIOUS
<1> HIDE DEF p
<1> QED BY <1>1, <1>2, <1>3, Zenon DEF Chunked

(* Chunks that go on with the next nonce keep the count.                   *)
LEMMA NumberedJoin ==
  ASSUME NEW e, NEW n \in Nat, NEW v \in Seq(Sealed), NEW u \in Seq(Sealed),
         Numbered(e, n, v), Numbered(e, n + Len(v), u)
  PROVE  Numbered(e, n, v \o u)
<1> SUFFICES ASSUME NEW i \in 1 .. Len(v \o u)
             PROVE (v \o u)[i].salt = e /\ (v \o u)[i].nonce = n + i - 1
  BY DEF Numbered
<1>1. Len(v) \in Nat /\ Len(u) \in Nat /\ Len(v \o u) = Len(v) + Len(u)
  OBVIOUS
<1>2. CASE i <= Len(v)
  <2>1. (v \o u)[i] = v[i] /\ i \in 1 .. Len(v)
    BY <1>1, <1>2
  <2> QED BY <2>1 DEF Numbered
<1>3. CASE i > Len(v)
  <2>1. (v \o u)[i] = u[i - Len(v)] /\ i - Len(v) \in 1 .. Len(u)
    BY <1>1, <1>3
  <2>2. u[i - Len(v)].nonce = (n + Len(v)) + (i - Len(v)) - 1 /\ u[i - Len(v)].salt = e
    BY <2>1 DEF Numbered
  <2>3. (n + Len(v)) + (i - Len(v)) - 1 = n + i - 1
    BY <1>1
  <2> QED BY <2>1, <2>2, <2>3
<1> QED BY <1>1, <1>2, <1>3

(* A part of a sequence is a part of what it begins.                       *)
LEMMA PartOfFirst ==
  ASSUME NEW f \in Seq(Nat), NEW d \in Seq(Nat), NEW a \in 0 .. Len(f), NEW b \in 0 .. Len(f), a <= b
  PROVE  SubSeq(f \o d, a + 1, b) = SubSeq(f, a + 1, b)
OBVIOUS

(* A part of a sequence is a part of what it ends.                         *)
LEMMA PartOfSecond ==
  ASSUME NEW f \in Seq(Nat), NEW d \in Seq(Nat), NEW a \in 0 .. Len(d), NEW b \in 0 .. Len(d), a <= b
  PROVE  SubSeq(f \o d, Len(f) + a + 1, Len(f) + b) = SubSeq(d, a + 1, b)
OBVIOUS

(* An element of the second of two sequences in a row.                     *)
LEMMA AtSecond ==
  ASSUME NEW L, NEW x \in Seq(L), NEW y \in Seq(L), NEW i \in 1 .. Len(y)
  PROVE  (x \o y)[Len(x) + i] = y[i]
OBVIOUS

(* An element of the first of two sequences in a row.                      *)
LEMMA AtFirst ==
  ASSUME NEW L, NEW x \in Seq(L), NEW y \in Seq(L), NEW i \in 1 .. Len(x)
  PROVE  (x \o y)[i] = x[i]
OBVIOUS

(* A part of a sequence, counted from behind its first c elements.         *)
LEMMA PartBehind ==
  ASSUME NEW f \in Seq(Nat), NEW c \in 0 .. Len(f), NEW a \in 0 .. Len(f), NEW b \in 0 .. Len(f),
         c <= a, a <= b
  PROVE  SubSeq(f, a + 1, b) = SubSeq(SubSeq(f, c + 1, Len(f)), (a - c) + 1, b - c)
OBVIOUS

(* A sequence cut in two.                                                  *)
LEMMA Cut ==
  ASSUME NEW f \in Seq(Nat), NEW a \in 0 .. Len(f)
  PROVE  /\ SubSeq(f, 1, a) \in Seq(Nat) /\ SubSeq(f, a + 1, Len(f)) \in Seq(Nat)
         /\ f = SubSeq(f, 1, a) \o SubSeq(f, a + 1, Len(f))
         /\ Len(SubSeq(f, a + 1, Len(f))) = Len(f) - a /\ Len(f) \in Nat
<1>1. SubSeq(f, 1, a) \in Seq(Nat) /\ SubSeq(f, a + 1, Len(f)) \in Seq(Nat)
  OBVIOUS
<1>2. f = SubSeq(f, 1, a) \o SubSeq(f, a + 1, Len(f))
  <2>1. 1 \in 1 .. Len(f) + 1 /\ a \in 1 - 1 .. Len(f) /\ Len(f) \in a .. Len(f)
    OBVIOUS
  <2> QED BY <2>1, ConcatAdjacentSubSeq, SubSeqFull
<1>3. Len(SubSeq(f, a + 1, Len(f))) = Len(f) - a /\ Len(f) \in Nat
  OBVIOUS
<1> QED BY <1>1, <1>2, <1>3

(* Two rows of chunks in a row, numbered through, hold what both hold.     *)
LEMMA ChunkedJoin ==
  ASSUME NEW e, NEW n \in Nat, NEW v \in Seq(Sealed), NEW u \in Seq(Sealed),
         NEW f \in Seq(Nat), NEW d \in Seq(Nat),
         Chunked(e, n, v, f), Chunked(e, n + Len(v), u, d)
  PROVE  Chunked(e, n, v \o u, f \o d)
<1>1. Numbered(e, n, v \o u)
  BY NumberedJoin DEF Chunked
<1>2. PICK m \in Nat : \E p \in [0 .. m -> 0 .. Len(f)] : Parts(f, m, p, v)
  BY DEF Chunked
<1>3. PICK p \in [0 .. m -> 0 .. Len(f)] : Parts(f, m, p, v)
  BY <1>2
<1>4. PICK k \in Nat : \E q \in [0 .. k -> 0 .. Len(d)] : Parts(d, k, q, u)
  BY DEF Chunked
<1>5. PICK q \in [0 .. k -> 0 .. Len(d)] : Parts(d, k, q, u)
  BY <1>4
<1> DEFINE r == [i \in 0 .. m + k |-> IF i <= m THEN p[i] ELSE Len(f) + q[i - m]]
           c == f \o d
           w == v \o u
<1>6. /\ Len(f) \in Nat /\ Len(d) \in Nat /\ Len(c) = Len(f) + Len(d)
      /\ Len(w) = 2 * m + 2 * k /\ Len(v) = 2 * m /\ Len(u) = 2 * k
  <2>1. Len(v) = 2 * m /\ Len(u) = 2 * k
    BY <1>3, <1>5 DEF Parts
  <2>2. Len(c) = Len(f) + Len(d) /\ Len(w) = Len(v) + Len(u)
    OBVIOUS
  <2>3. Len(f) \in Nat /\ Len(d) \in Nat
    OBVIOUS
  <2> HIDE DEF r, c, w
  <2> QED BY <2>1, <2>2, <2>3
<1> HIDE DEF c, w
<1>7. r \in [0 .. m + k -> 0 .. Len(c)]
  <2> SUFFICES ASSUME NEW i \in 0 .. m + k PROVE r[i] \in 0 .. Len(c)
    OBVIOUS
  <2>1. CASE i <= m
    <3>1. r[i] = p[i] /\ p[i] \in 0 .. Len(f)
      BY <2>1
    <3> HIDE DEF r
    <3> DEFINE x == p[i]
    <3>2. r[i] = x /\ x \in 0 .. Len(f)
      BY <3>1
    <3> HIDE DEF x
    <3> QED BY <1>6, <3>2
  <2>2. CASE i > m
    <3>1. r[i] = Len(f) + q[i - m] /\ q[i - m] \in 0 .. Len(d)
      <4>1. i - m \in 0 .. k
        BY <2>2
      <4> QED BY <2>2, <4>1
    <3> HIDE DEF r
    <3> DEFINE x == q[i - m]
    <3>2. r[i] = Len(f) + x /\ x \in 0 .. Len(d)
      BY <3>1
    <3> HIDE DEF x
    <3> QED BY <1>6, <3>2
  <2> QED BY <2>1, <2>2
<1>8. r[0] = 0 /\ r[m + k] = Len(c)
  <2>1. r[0] = p[0] /\ p[0] = 0 /\ p[m] = Len(f) /\ q[k] = Len(d)
    BY <1>3, <1>5 DEF Parts
  <2>2. CASE k = 0
    <3>1. q[k] = 0 /\ r[m + k] = p[m]
      BY <1>5, <2>2 DEF Parts
    <3> QED BY <1>6, <2>1, <3>1
  <2>3. CASE k > 0
    <3>1. r[m + k] = Len(f) + q[k]
      BY <2>3
    <3> QED BY <1>6, <2>1, <3>1
  <2> QED BY <2>2, <2>3
<1>13. ASSUME NEW i \in 0 .. m + k, NEW j \in 0 .. m + k, i <= j PROVE r[i] <= r[j]
  <2>1. CASE j <= m
    BY <1>3, <1>13, <2>1 DEF Parts
  <2>2. CASE i > m
    <3>1. r[i] = Len(f) + q[i - m] /\ r[j] = Len(f) + q[j - m]
      BY <1>13, <2>2
    <3>2. i - m \in 0 .. k /\ j - m \in 0 .. k /\ i - m <= j - m
      BY <1>13, <2>2
    <3>3. q[i - m] <= q[j - m] /\ q[i - m] \in 0 .. Len(d) /\ q[j - m] \in 0 .. Len(d)
      BY <1>5, <3>2 DEF Parts
    <3> HIDE DEF r
    <3> DEFINE x == q[i - m]
               y == q[j - m]
               l == Len(f)
    <3>4. r[i] = l + x /\ r[j] = l + y
      BY <3>1
    <3>5. x <= y /\ x \in 0 .. Len(d) /\ y \in 0 .. Len(d)
      BY <3>3
    <3>6. l \in Nat
      BY <1>6
    <3> HIDE DEF x, y, l
    <3> QED BY <3>4, <3>5, <3>6
  <2>3. CASE i <= m /\ j > m
    <3>1. r[i] = p[i] /\ p[i] \in 0 .. Len(f) /\ r[j] = Len(f) + q[j - m] /\ q[j - m] \in 0 .. Len(d)
      BY <1>13, <2>3
    <3> HIDE DEF r
    <3> DEFINE x == p[i]
               y == q[j - m]
               l == Len(f)
    <3>2. l \in Nat
      BY <1>6
    <3>4. r[i] = x /\ r[j] = l + y
      BY <3>1
    <3>5. x \in 0 .. l /\ y \in 0 .. Len(d)
      BY <3>1
    <3> HIDE DEF x, y, l
    <3> QED BY <3>2, <3>4, <3>5
  <2> HIDE DEF r, c, w
  <2> QED BY <1>13, <2>1, <2>2, <2>3
<1>9. ASSUME NEW j \in 1 .. m + k
      PROVE  w[2 * j].data = SubSeq(c, r[j - 1] + 1, r[j])
  <2>1. CASE j <= m
    <3>1. r[j] = p[j] /\ r[j - 1] = p[j - 1] /\ p[j] \in 0 .. Len(f) /\ p[j - 1] \in 0 .. Len(f)
      BY <2>1
    <3>2. p[j - 1] <= p[j] /\ v[2 * j].data = SubSeq(f, p[j - 1] + 1, p[j])
      <4> HIDE DEF r, c, w
      <4>1. j \in 0 .. m /\ j - 1 \in 0 .. m /\ j - 1 <= j /\ j \in 1 .. m
        BY <2>1
      <4> QED BY <1>3, <4>1 DEF Parts
    <3>3. w[2 * j] = v[2 * j]
      <4>1. 2 * j \in 1 .. Len(v)
        BY <1>6, <2>1
      <4> QED BY <4>1, AtFirst DEF w
    <3>4. SubSeq(c, p[j - 1] + 1, p[j]) = SubSeq(f, p[j - 1] + 1, p[j])
      BY <3>1, <3>2, PartOfFirst DEF c
    <3> HIDE DEF r, c, w
    <3> QED BY <3>1, <3>2, <3>3, <3>4
  <2>2. CASE j > m
    <3> DEFINE i == j - m
    <3>1. i \in 1 .. k /\ j = m + i
      BY <2>2
    <3>2. q[i - 1] <= q[i] /\ u[2 * i].data = SubSeq(d, q[i - 1] + 1, q[i])
          /\ q[i] \in 0 .. Len(d) /\ q[i - 1] \in 0 .. Len(d)
      <4> HIDE DEF i, r, c, w
      <4>1. i \in 0 .. k /\ i - 1 \in 0 .. k /\ i - 1 <= i
        BY <3>1
      <4> QED BY <1>5, <3>1, <4>1 DEF Parts
    <3>3. r[j] = Len(f) + q[i] /\ r[j - 1] = Len(f) + q[i - 1]
      <4>1. r[j] = Len(f) + q[i]
        BY <2>2
      <4>2. CASE i > 1
        BY <2>2, <4>1, <4>2
      <4>3. CASE i = 1
        <5>1. r[j - 1] = p[m] /\ p[m] = Len(f) /\ q[i - 1] = 0
          BY <1>3, <1>5, <4>3 DEF Parts
        <5> QED BY <1>6, <4>1, <5>1
      <4> QED BY <3>1, <4>2, <4>3
    <3>4. w[2 * j] = u[2 * i]
      <4>1. 2 * j = Len(v) + 2 * i /\ 2 * i \in 1 .. Len(u)
        BY <1>6, <3>1
      <4> HIDE DEF i
      <4>2. w[Len(v) + 2 * i] = u[2 * i]
        BY <4>1, AtSecond DEF w
      <4> QED BY <4>1, <4>2
    <3> HIDE DEF i
    <3>5. SubSeq(c, Len(f) + q[i - 1] + 1, Len(f) + q[i]) = SubSeq(d, q[i - 1] + 1, q[i])
      BY <3>2, PartOfSecond DEF c
    <3> HIDE DEF r, c, w
    <3> QED BY <1>6, <3>2, <3>3, <3>4, <3>5
  <2> HIDE DEF r, c, w
  <2> QED BY <2>1, <2>2
<1>10. m + k \in Nat /\ Len(w) = 2 * (m + k)
  BY <1>6
<1> HIDE DEF r, c, w
<1>11. Parts(c, m + k, r, w)
  BY <1>8, <1>9, <1>10, <1>13 DEF Parts
<1>12. \E x \in Nat : \E y \in [0 .. x -> 0 .. Len(c)] : Parts(c, x, y, w)
  BY <1>7, <1>10, <1>11, Zenon
<1> QED BY <1>1, <1>12 DEF Chunked, c, w

Leads(x, f) == f = x \o SubSeq(f, Len(x) + 1, Len(f))

(* The first part and what is behind it.                                   *)
LEMMA ChunkedFirst ==
  ASSUME NEW e, NEW n, NEW v, NEW f, Chunked(e, n, v, f),
         n \in Nat, v \in Seq(Sealed), f \in Seq(Nat), Len(v) >= 2
  PROVE  /\ v[1].salt = e /\ v[2].salt = e /\ v[1].nonce = n /\ v[2].nonce = n + 1
         /\ v[2].data \in Seq(Nat) /\ Leads(v[2].data, f)
         /\ SubSeq(f, Len(v[2].data) + 1, Len(f)) \in Seq(Nat)
         /\ Chunked(e, n + 2, SubSeq(v, 3, Len(v)), SubSeq(f, Len(v[2].data) + 1, Len(f)))
<1>1. Numbered(e, n, v)
  BY DEF Chunked
<1>2. PICK m \in Nat : \E p \in [0 .. m -> 0 .. Len(f)] : Parts(f, m, p, v)
  BY DEF Chunked
<1>3. PICK p \in [0 .. m -> 0 .. Len(f)] : Parts(f, m, p, v)
  BY <1>2
<1>4. Len(v) = 2 * m /\ m >= 1 /\ Len(v) \in Nat
  BY <1>3 DEF Parts
<1>5. v[1].salt = e /\ v[2].salt = e /\ v[1].nonce = n /\ v[2].nonce = n + 1
  <2>1. v[1].salt = e /\ v[2].salt = e /\ v[1].nonce = n + 1 - 1 /\ v[2].nonce = n + 2 - 1
    BY <1>1, <1>4 DEF Numbered
  <2> QED BY <2>1
<1> DEFINE a == p[1]
           x == SubSeq(f, 1, a)
           y == SubSeq(f, a + 1, Len(f))
           u == SubSeq(v, 3, Len(v))
           q == [i \in 0 .. m - 1 |-> p[i + 1] - a]
<1>6. a \in 0 .. Len(f) /\ \A i \in 0 .. m : p[i] \in 0 .. Len(f)
  BY <1>4
<1>7. v[2].data = x /\ p[m] = Len(f)
  <2> HIDE DEF x, a
  <2>1. p[0] = 0 /\ p[m] = Len(f) /\ \A j \in 1 .. m : v[2 * j].data = SubSeq(f, p[j - 1] + 1, p[j])
    BY <1>3 DEF Parts
  <2>2. 1 \in 1 .. m /\ 2 * 1 = 2 /\ 1 - 1 = 0 /\ 0 + 1 = 1
    BY <1>4
  <2>3. v[2].data = SubSeq(f, 1, p[1])
    BY <2>1, <2>2
  <2> QED BY <2>1, <2>3 DEF x, a
<1>8. x \in Seq(Nat) /\ y \in Seq(Nat) /\ f = x \o y /\ Len(y) = Len(f) - a /\ Len(f) \in Nat
  BY <1>6, Cut
<1>9. u \in Seq(Sealed) /\ Len(u) = 2 * (m - 1) /\ \A i \in 1 .. Len(u) : u[i] = v[i + 2]
  BY <1>4
<1>10. Numbered(e, n + 2, u)
  <2> SUFFICES ASSUME NEW i \in 1 .. Len(u) PROVE u[i].salt = e /\ u[i].nonce = (n + 2) + i - 1
    BY DEF Numbered
  <2>1. u[i] = v[i + 2] /\ i + 2 \in 1 .. Len(v)
    BY <1>4, <1>9, SMTT(20)
  <2>2. v[i + 2].salt = e /\ v[i + 2].nonce = n + (i + 2) - 1
    BY <1>1, <2>1 DEF Numbered
  <2> QED BY <2>1, <2>2
<1>11. \A i, j \in 0 .. m : i <= j => p[i] <= p[j]
  BY <1>3 DEF Parts
<1>12. q \in [0 .. m - 1 -> 0 .. Len(y)]
  <2> HIDE DEF y
  <2> SUFFICES ASSUME NEW i \in 0 .. m - 1 PROVE q[i] \in 0 .. Len(y)
    BY Zenon
  <2>1. q[i] = p[i + 1] - a /\ 1 \in 0 .. m /\ i + 1 \in 0 .. m /\ 1 <= i + 1
    BY <1>4
  <2>2. a <= p[i + 1] /\ p[i + 1] \in 0 .. Len(f)
    BY <1>6, <1>11, <2>1
  <2>3. Len(y) = Len(f) - a /\ Len(f) \in Nat
    BY <1>8
  <2> HIDE DEF q, a
  <2> QED BY <1>6, <2>1, <2>2, <2>3, SMTT(20)
<1>13. Parts(y, m - 1, q, u)
  <2>1. q[0] = 0 /\ q[m - 1] = Len(y)
    <3>1. q[0] = p[1] - a /\ q[m - 1] = p[m] - a
      BY <1>4
    <3> HIDE DEF q, y
    <3> QED BY <1>6, <1>7, <1>8, <3>1 DEF a
  <2>2. ASSUME NEW i \in 0 .. m - 1, NEW j \in 0 .. m - 1, i <= j PROVE q[i] <= q[j]
    <3>1. q[i] = p[i + 1] - a /\ q[j] = p[j + 1] - a /\ i + 1 \in 0 .. m /\ j + 1 \in 0 .. m
      OBVIOUS
    <3>2. p[i + 1] <= p[j + 1] /\ p[i + 1] \in Nat /\ p[j + 1] \in Nat /\ a \in Nat
      BY <1>6, <1>11, <2>2, <3>1
    <3> HIDE DEF q, a
    <3> QED BY <3>1, <3>2
  <2>3. ASSUME NEW j \in 1 .. m - 1 PROVE u[2 * j].data = SubSeq(y, q[j - 1] + 1, q[j])
    <3>1. q[j - 1] = p[j] - a /\ q[j] = p[j + 1] - a /\ j \in 0 .. m /\ j + 1 \in 1 .. m /\ 1 \in 0 .. m
      OBVIOUS
    <3>2. u[2 * j] = v[2 * (j + 1)]
      BY <1>4, <1>9
    <3>3. v[2 * (j + 1)].data = SubSeq(f, p[j] + 1, p[j + 1])
      <4>1. v[2 * (j + 1)].data = SubSeq(f, p[(j + 1) - 1] + 1, p[j + 1])
        BY <1>3, <3>1 DEF Parts
      <4>2. (j + 1) - 1 = j
        OBVIOUS
      <4> QED BY <4>1, <4>2
    <3>4. a <= p[j] /\ p[j] <= p[j + 1] /\ p[j] \in 0 .. Len(f) /\ p[j + 1] \in 0 .. Len(f)
      BY <1>6, <1>11, <3>1
    <3> HIDE DEF q, a, u
    <3>5. SubSeq(f, p[j] + 1, p[j + 1]) = SubSeq(y, (p[j] - a) + 1, p[j + 1] - a)
      BY <1>6, <3>4, PartBehind
    <3> HIDE DEF y
    <3> QED BY <3>1, <3>2, <3>3, <3>5
  <2> HIDE DEF q, u, y
  <2>4. m - 1 \in Nat /\ Len(u) = 2 * (m - 1)
    BY <1>4, <1>9
  <2> QED BY <2>1, <2>2, <2>3, <2>4 DEF Parts
<1>14. m - 1 \in Nat
  BY <1>4
<1>15. Chunked(e, n + 2, u, y)
  <2> HIDE DEF q, u, y
  <2>1. \E k \in Nat : \E r \in [0 .. k -> 0 .. Len(y)] : Parts(y, k, r, u)
    BY <1>12, <1>13, <1>14, Zenon
  <2> QED BY <1>10, <2>1 DEF Chunked
<1>16. Len(x) = a
  BY <1>6
<1> HIDE DEF x, u, q, a
<1>17. y = SubSeq(f, Len(v[2].data) + 1, Len(f))
  BY <1>7, <1>16
<1>18. Leads(x, f)
  BY <1>7, <1>8, <1>17 DEF Leads
<1> HIDE DEF y
<1> QED BY <1>5, <1>7, <1>8, <1>15, <1>17, <1>18 DEF u

Greeting == <<Ver, 1, 0>>
Methods == <<Ver, 0>>
RequestHead(d) == <<Ver, CmdConnect, 0, IF d.type = "ip4" THEN AtypIPv4 ELSE AtypIPv6>>
ReplyHead == <<Ver, ReplySucceeded, 0, AtypIPv4>>
ReplyTail == <<0, 0, 0, 0, 0, 0>>

(* How far each end can be.                                                *)
Met ==
  IF kind = "none" THEN cpc = "up" /\ spc = "up"
  ELSE \/ cpc = "start" /\ spc = "greeting"
       \/ cpc = "method" /\ spc \in {"greeting", "methods", "request"}
       \/ cpc = "reply" /\ spc \in {"request", want.type, "port", "up"}
       \/ cpc \in {"bound", "up"} /\ spc \in {want.type, "port", "up"}

(* What of the handshake is on its way to each end.                        *)
ToServer(c, s, d) ==
  IF s = "greeting" THEN IF c = "start" THEN << >> ELSE Greeting
  ELSE IF s = "methods" THEN <<0>>
  ELSE IF s = "request" THEN IF c = "method" THEN << >> ELSE RequestHead(d) \o (d.addr \o d.port)
  ELSE IF s = "port" THEN d.port
  ELSE IF s = "up" THEN << >>
  ELSE d.addr \o d.port

ToClient(c, s) ==
  IF c = "method" THEN IF s = "request" THEN Methods ELSE << >>
  ELSE IF c = "reply" THEN IF s = "request" THEN << >> ELSE ReplyHead \o ReplyTail
  ELSE IF c = "bound" THEN ReplyTail
  ELSE << >>

Carrying == sent \in [End -> Seq(Nat)] /\ got \in [End -> Seq(Nat)]

Silent == /\ cpc # "up" => sent["client"] = << >>
          /\ spc # "up" => sent["server"] = << >>

Buffer(b) == b \in Seq(Nat) /\ Len(b) = 20

PlainInv ==
  /\ Met /\ Carrying /\ Silent /\ Buffer(cbuf) /\ Buffer(sbuf) /\ wire \in [End -> Seq(Nat)]
  /\ Link(wire["client"], ToServer(cpc, spc, want), sent["client"], got["server"])
  /\ Link(wire["server"], ToClient(cpc, spc), sent["server"], got["client"])
  /\ spc = "methods" => sbuf[2] = 1
  /\ kind = "socks" /\ spc = "port" => dest = [want EXCEPT !.port = <<0, 0>>]
  /\ kind = "socks" /\ spc = "up" => dest = want

Meta(d) == <<Seal("client", 0, <<Len(SsRequest(d))>>), Seal("client", 1, SsRequest(d))>>

(* Likewise of what end e encrypts: a is the rest of its handshake, n the  *)
(* nonce of the first chunk behind it and m the next one.                  *)
SealedLink(e, w, a, n, m, s, g) ==
  \E v \in Seq(Sealed), f \in Seq(Nat) :
    w = a \o v /\ s = g \o f /\ Chunked(e, n, v, f) /\ m = n + Len(v)

SaltedToServer(c, s, d) ==
  IF c = "start" \/ s = "up" THEN << >>
  ELSE IF s = "meta" THEN Meta(d) ELSE Salt("client") \o Meta(d)

ShadowInv ==
  /\ Carrying /\ Silent /\ wire \in [End -> Seq(Sealed)] /\ enc \in [End -> Nat]
  /\ \/ cpc = "start" /\ spc = "salt" /\ enc["client"] = 0
     \/ cpc = "up" /\ spc \in {"salt", "meta", "up"}
  /\ spc # "up" => enc["server"] = 0
  /\ DOMAIN dec = End
  /\ IF spc = "salt" THEN dec["server"] = Absent
     ELSE /\ dec["server"] \in [salt : {"client"}, nonce : Nat]
          /\ spc = "meta" => dec["server"].nonce = 0
  /\ dec["client"] # Absent => cpc = "up" /\ spc = "up" /\ dec["client"] \in [salt : {"server"}, nonce : Nat]
  /\ SealedLink("client", wire["client"], SaltedToServer(cpc, spc, want),
       IF cpc = "start" THEN 0 ELSE IF spc = "up" THEN dec["server"].nonce ELSE 2,
       enc["client"], sent["client"], got["server"])
  /\ SealedLink("server", wire["server"],
       IF spc = "up" /\ dec["client"] = Absent THEN Salt("server") ELSE << >>,
       IF dec["client"] = Absent THEN 0 ELSE dec["client"].nonce,
       enc["server"], sent["server"], got["client"])
  /\ spc = "up" => dest = Plain(want)

TunnelInv ==
  /\ kind \in Kinds /\ want \in Dests /\ torn \in BOOLEAN
  /\ ~torn /\ Carried => IF kind = "shadowsocks" THEN ShadowInv ELSE PlainInv

(* Rounded up, l bytes make the fewest parts of M bytes that hold them.    *)
LEMMA Dividing ==
  ASSUME NEW l \in Nat, NEW M \in Nat \ {0}
  PROVE  LET m == (l + M - 1) \div M IN m \in Nat /\ m * M >= l /\ (m - 1) * M < l
OBVIOUS

(* The ends of the parts are in order.                                     *)
LEMMA Multiples ==
  ASSUME NEW i \in Nat, NEW j \in Nat, i <= j, NEW M \in Nat \ {0}
  PROVE  i * M \in Nat /\ i * M <= j * M
OBVIOUS

(* What Write makes of d, of any length, are chunks that hold d, numbered  *)
(* from the nonce of its end.                                              *)
LEMMA ChunksRight ==
  ASSUME NEW e \in End, enc[e] \in Nat, NEW d \in Seq(Nat)
  PROVE  Chunks(e, d) \in Seq(Sealed) /\ Chunked(e, enc[e], Chunks(e, d), d)
<1> DEFINE M == MaxPayload
           l == Len(d)
           n == enc[e]
           m == (l + M - 1) \div M
           part(j) == SubSeq(d, (j - 1) * M + 1, Min({j * M, l}))
           v == [i \in 1 .. 2 * m |->
                  Seal(e, n + i - 1, IF i % 2 = 1 THEN <<Len(part((i + 1) \div 2))>> ELSE part(i \div 2))]
           p == [i \in 0 .. m |-> Min({i * M, l})]
<1>1. Chunks(e, d) = v
  BY DEF Chunks
<1>2. M \in Nat \ {0} /\ l \in Nat /\ n \in Nat
  BY ProxyStreamAssumption
<1>3. m \in Nat /\ m * M >= l /\ (m - 1) * M < l
  BY <1>2, Dividing
<1> HIDE DEF m, n, l, M
<1>4. ASSUME NEW i \in 0 .. m
      PROVE p[i] = (IF i * M <= l THEN i * M ELSE l) /\ i * M \in Nat /\ p[i] \in 0 .. l
  <2>1. i * M \in Nat
    BY <1>2
  <2>2. p[i] = (IF i * M <= l THEN i * M ELSE l)
    BY <1>2, <2>1, MinTwo
  <2> HIDE DEF p
  <2> QED BY <1>2, <2>1, <2>2
<1>5. \A i, j \in 0 .. m : i <= j => p[i] <= p[j]
  <2> SUFFICES ASSUME NEW i \in 0 .. m, NEW j \in 0 .. m, i <= j PROVE p[i] <= p[j]
    OBVIOUS
  <2>1. i * M <= j * M /\ i * M \in Nat /\ j * M \in Nat
    BY <1>2, <1>3, Multiples
  <2>2. /\ p[i] = (IF i * M <= l THEN i * M ELSE l)
        /\ p[j] = (IF j * M <= l THEN j * M ELSE l)
    BY <1>4
  <2> HIDE DEF p
  <2> DEFINE x == i * M
             y == j * M
  <2>3. x <= y /\ x \in Nat /\ y \in Nat
    BY <2>1
  <2>4. p[i] = (IF x <= l THEN x ELSE l) /\ p[j] = (IF y <= l THEN y ELSE l)
    BY <2>2
  <2> HIDE DEF x, y
  <2> QED BY <1>2, <2>3, <2>4
<1>6. p[0] = 0 /\ p[m] = l
  <2>1. 0 \in 0 .. m /\ m \in 0 .. m /\ 0 * M = 0
    BY <1>2, <1>3
  <2>2. p[0] = (IF 0 * M <= l THEN 0 * M ELSE l) /\ p[m] = (IF m * M <= l THEN m * M ELSE l)
    BY <1>4, <2>1
  <2> HIDE DEF p
  <2>3. p[0] = 0
    BY <1>2, <2>1, <2>2
  <2>4. m * M \in Nat
    BY <1>4, <2>1
  <2> DEFINE y == m * M
  <2>5. y \in Nat /\ y >= l /\ p[m] = (IF y <= l THEN y ELSE l)
    BY <1>3, <2>2, <2>4
  <2> HIDE DEF y
  <2> QED BY <1>2, <2>3, <2>5
<1>7. ASSUME NEW j \in 1 .. m
      PROVE part(j) = SubSeq(d, p[j - 1] + 1, p[j]) /\ part(j) \in Seq(Nat)
  <2>1. j - 1 \in 0 .. m /\ j \in 0 .. m /\ j - 1 <= m - 1 /\ j - 1 \in Nat /\ m - 1 \in Nat
    BY <1>3
  <2>2. (j - 1) * M <= (m - 1) * M
    BY <1>2, <2>1, Multiples
  <2>3. (j - 1) * M \in Nat /\ (m - 1) * M \in Nat
    BY <1>2, <2>1
  <2>4. (j - 1) * M <= l
    <3> DEFINE x == (j - 1) * M
               y == (m - 1) * M
    <3>1. x \in Nat /\ y \in Nat /\ x <= y /\ y < l
      BY <1>3, <2>2, <2>3
    <3> HIDE DEF x, y
    <3>2. x <= l
      BY <1>2, <3>1
    <3> QED BY <3>2 DEF x
  <2>5. p[j - 1] = (j - 1) * M
    BY <1>4, <2>1, <2>4, Zenon
  <2>6. p[j] = Min({j * M, l})
    BY <2>1
  <2>7. p[j - 1] \in 0 .. l /\ p[j] \in 0 .. l
    BY <1>4, <2>1
  <2>8. part(j) = SubSeq(d, p[j - 1] + 1, p[j])
    BY <2>5, <2>6
  <2> HIDE DEF p
  <2>9. SubSeq(d, p[j - 1] + 1, p[j]) \in Seq(Nat)
    BY <2>7, SMTT(20) DEF l
  <2> HIDE DEF part
  <2> QED BY <2>8, <2>9
<1> HIDE DEF part, p
<1>8. v \in Seq(Sealed) /\ Len(v) = 2 * m /\ Numbered(e, n, v)
  <2>1. ASSUME NEW i \in 1 .. 2 * m
        PROVE v[i] \in Sealed /\ v[i].salt = e /\ v[i].nonce = n + i - 1
    <3> DEFINE x == IF i % 2 = 1 THEN <<Len(part((i + 1) \div 2))>> ELSE part(i \div 2)
    <3>1. v[i] = [salt |-> e, nonce |-> n + i - 1, data |-> x]
      BY DEF Seal
    <3>2. x \in Seq(Nat)
      <4>1. CASE i % 2 = 1
        <5>1. (i + 1) \div 2 \in 1 .. m
          BY <1>3, <4>1
        <5>2. part((i + 1) \div 2) \in Seq(Nat)
          BY <1>7, <5>1
        <5>3. Len(part((i + 1) \div 2)) \in Nat
          BY <5>2
        <5> QED BY <4>1, <5>3
      <4>2. CASE i % 2 # 1
        <5>1. i \div 2 \in 1 .. m
          BY <1>3, <4>2
        <5> QED BY <1>7, <4>2, <5>1
      <4> QED BY <4>1, <4>2
    <3>3. n + i - 1 \in Nat
      BY <1>2
    <3> HIDE DEF x, v
    <3> QED BY <3>1, <3>2, <3>3 DEF Sealed
  <2>2. v \in Seq(Sealed) /\ Len(v) = 2 * m
    <3>1. v = [i \in 1 .. 2 * m |-> v[i]] /\ 2 * m \in Nat
      BY <1>3
    <3> HIDE DEF v
    <3>2. v \in [1 .. 2 * m -> Sealed]
      BY <2>1, <3>1
    <3> QED BY <3>1, <3>2, SMTT(20)
  <2> HIDE DEF v
  <2> QED BY <2>1, <2>2 DEF Numbered
<1>9. ASSUME NEW j \in 1 .. m PROVE v[2 * j].data = SubSeq(d, p[j - 1] + 1, p[j])
  <2>1. 2 * j \in 1 .. 2 * m /\ (2 * j) % 2 # 1 /\ (2 * j) \div 2 = j
    BY <1>3
  <2>2. v[2 * j].data = part(j)
    BY <2>1 DEF Seal
  <2> QED BY <1>7, <2>2
<1> HIDE DEF v
<1>10. p \in [0 .. m -> 0 .. l]
  <2>1. p = [i \in 0 .. m |-> p[i]]
    BY DEF p
  <2> QED BY <1>4, <2>1
<1>11. Parts(d, m, p, v)
  BY <1>5, <1>6, <1>8, <1>9 DEF Parts, l
<1>12. \E k \in Nat : \E r \in [0 .. k -> 0 .. Len(d)] : Parts(d, k, r, v)
  BY <1>3, <1>10, <1>11, Zenon DEF l
<1> QED BY <1>1, <1>8, <1>12 DEF Chunked, n

(* The two ends, each the peer of the other.                               *)
LEMMA TwoEnds ==
  /\ End = {"client", "server"}
  /\ Peer("client") = "server" /\ Peer("server") = "client"
<1>1. \A e \in End : Peer(e) \in End /\ Peer(e) # e
  <2> TAKE e \in End
  <2>1. \E o \in End : o # e
    BY DEF End
  <2> QED BY <2>1 DEF Peer
<1>2. "client" \in End /\ "server" \in End /\ "client" # "server"
  BY DEF End
<1> QED BY <1>1, <1>2 DEF End

(* A read of a handshake that got all it asked for.                        *)
LEMMA WholeRead ==
  ASSUME NEW L, NEW e, wire[Peer(e)] \in Seq(L), NEW k \in Nat \ {0}, NEW b \in Reads(e, k),
         ~(Len(b) < k)
  PROVE  b = SubSeq(wire[Peer(e)], 1, k) /\ k <= Len(wire[Peer(e)]) /\ Len(b) = k
<1> DEFINE w == wire[Peer(e)]
<1>1. Len(w) \in Nat
  OBVIOUS
<1>2. PICK n \in 1 .. Min({k, Len(w)}) : b = SubSeq(w, 1, n)
  <2>1. b \in {SubSeq(w, 1, n) : n \in 1 .. Min({k, Len(w)})}
    BY DEF Reads
  <2> QED BY <2>1
<1>3. Min({k, Len(w)}) = IF k <= Len(w) THEN k ELSE Len(w)
  BY <1>1, MinTwo
<1>4. n \in Nat /\ n <= k /\ n <= Len(w)
  <2> HIDE DEF w
  <2> QED BY <1>1, <1>2, <1>3
<1>5. Len(b) = n
  BY <1>2, <1>4
<1>6. n = k
  BY <1>4, <1>5
<1> QED BY <1>2, <1>4, <1>5, <1>6

(* Only empty sequences join to the empty one.                             *)
LEMMA NothingBoth ==
  ASSUME NEW x \in Seq(Nat), NEW y \in Seq(Nat), << >> = x \o y
  PROVE  x = << >> /\ y = << >>
<1>1. Len(x \o y) = Len(x) + Len(y) /\ Len(x) \in Nat /\ Len(y) \in Nat
  OBVIOUS
<1>2. Len(x \o y) = 0
  <2>1. Len(<< >>) = 0
    OBVIOUS
  <2> QED BY <2>1, Zenon
<1>3. Len(x) = 0 /\ Len(y) = 0
  BY <1>1, <1>2
<1> QED BY <1>3

(* Before the stream begins the handshake of an end goes on with u.        *)
LEMMA LinkSays ==
  ASSUME NEW w, NEW a \in Seq(Nat), NEW g \in Seq(Nat), Link(w, a, << >>, g), NEW u \in Seq(Nat)
  PROVE  Link(w \o u, a \o u, << >>, g)
<1>1. PICK f \in Seq(Nat) : w = a \o f /\ << >> = g \o f
  BY DEF Link
<1>2. f = << >>
  BY <1>1, NothingBoth
<1>3. w \o u = (a \o u) \o << >>
  <2>1. (a \o << >>) \o u = (a \o u) \o << >>
    OBVIOUS
  <2> QED BY <1>1, <1>2, <2>1
<1> QED BY <1>1, <1>2, <1>3 DEF Link

(* What is on its way are bytes.                                           *)
LEMMA LinkTyped ==
  ASSUME NEW w, NEW a \in Seq(Nat), NEW s, NEW g, Link(w, a, s, g)
  PROVE  w \in Seq(Nat)
BY DEF Link

(* One step of a handshake: x of what is on its way is read and u written. *)
LEMMA HandshakeRead ==
  ASSUME NEW e \in End, wire \in [End -> Seq(Nat)], NEW x \in Seq(Nat), NEW y \in Seq(Nat),
         NEW s, NEW g, Link(wire[Peer(e)], x \o y, s, g), NEW k \in Nat \ {0}, Len(x) = k,
         NEW u \in Seq(Nat), NEW b \in Reads(e, k), Exchange(e, k, b, u), ~torn'
  PROVE  /\ ~torn /\ b = x /\ Link(wire'[Peer(e)], y, s, g)
         /\ wire'[e] = wire[e] \o u /\ wire' \in [End -> Seq(Nat)]
<1> DEFINE w == wire[Peer(e)]
<1>1. ~torn /\ ~(Len(b) < k) /\ Carries(e, b, u)
  BY DEF Exchange
<1>2. w \in Seq(Nat) /\ Peer(e) \in End /\ Peer(e) # e /\ wire[e] \in Seq(Nat)
  BY TwoEnds
<1>4. b = SubSeq(w, 1, Len(x)) /\ Len(b) = Len(x)
  BY <1>1, <1>2, WholeRead
<1>5. b = x /\ Link(SubSeq(w, Len(x) + 1, Len(w)), y, s, g)
  <2>1. SubSeq(w, 1, Len(x)) = x /\ Link(SubSeq(w, Len(x) + 1, Len(w)), y, s, g)
    BY LinkTake, Zenon
  <2> QED BY <1>4, <2>1, Zenon
<1>6. wire'[Peer(e)] = SubSeq(w, Len(x) + 1, Len(w)) /\ wire'[e] = wire[e] \o u
      /\ wire' = [wire EXCEPT ![Peer(e)] = SubSeq(w, Len(x) + 1, Len(w)), ![e] = wire[e] \o u]
  BY <1>1, <1>2, <1>4 DEF Carries
<1>7. SubSeq(w, Len(x) + 1, Len(w)) \in Seq(Nat) /\ wire[e] \o u \in Seq(Nat)
  BY <1>2, <1>5, LinkTyped, SMTT(20)
<1>8. wire' \in [End -> Seq(Nat)]
  BY <1>6, <1>7
<1> QED BY <1>1, <1>5, <1>6, <1>8

(* Nothing comes to an end whose peer is neither in the handshake nor up.  *)
LEMMA NothingComes ==
  ASSUME NEW e \in End, NEW g \in Seq(Nat), Link(wire[Peer(e)], << >>, << >>, g), NEW k \in Nat \ {0}, NEW b \in Reads(e, k)
  PROVE  FALSE
<1>1. PICK f \in Seq(Nat) : wire[Peer(e)] = << >> \o f /\ << >> = g \o f
  BY DEF Link
<1>2. wire[Peer(e)] = << >>
  BY <1>1, NothingBoth
<1>3. PICK n \in 1 .. Min({k, 0}) : TRUE
  BY <1>2 DEF Reads
<1>4. Min({k, 0}) = 0
  BY MinTwo, 0 \in Nat
<1> QED BY <1>3, <1>4

(* A function on 1 .. n is a sequence of length n.                         *)
LEMMA AsSequence ==
  ASSUME NEW n \in Nat, NEW x \in [1 .. n -> Nat] PROVE x \in Seq(Nat) /\ Len(x) = n
OBVIOUS

(* An element of a sequence is of its kind.                                *)
LEMMA Elements ==
  ASSUME NEW L, NEW x \in Seq(L), NEW i \in 1 .. Len(x) PROVE x[i] \in L
OBVIOUS

(* One byte more behind two and behind three.                              *)
LEMMA Bytes ==
  ASSUME NEW a \in Nat, NEW b \in Nat, NEW c \in Nat, NEW d \in Nat
  PROVE  /\ <<a, b>> \o <<c>> = <<a, b, c>>
         /\ <<a, b, c>> \o <<d>> = <<a, b, c, d>>
<1>1. <<a, b>> \o <<c>> = <<a, b, c>>
  <2>1. <<a, b>> \o <<c>> \in Seq(Nat) /\ Len(<<a, b>> \o <<c>>) = 3
    OBVIOUS
  <2>2. \A i \in 1 .. 3 : (<<a, b>> \o <<c>>)[i] = <<a, b, c>>[i]
    OBVIOUS
  <2>3. <<a, b, c>> \in Seq(Nat) /\ Len(<<a, b, c>>) = 3
    OBVIOUS
  <2> QED BY <2>1, <2>2, <2>3, SeqEqual
<1>2. <<a, b, c>> \o <<d>> = <<a, b, c, d>>
  <2>1. <<a, b, c>> \o <<d>> \in Seq(Nat) /\ Len(<<a, b, c>> \o <<d>>) = 4
    OBVIOUS
  <2>2. \A i \in 1 .. 4 : (<<a, b, c>> \o <<d>>)[i] = <<a, b, c, d>>[i]
    OBVIOUS
  <2>3. <<a, b, c, d>> \in Seq(Nat) /\ Len(<<a, b, c, d>>) = 4
    OBVIOUS
  <2> QED BY <2>1, <2>2, <2>3, SeqEqual
<1> QED BY <1>1, <1>2

(* A sequence that begins as x and goes on as y is the two in a row.       *)
LEMMA Joins ==
  ASSUME NEW x \in Seq(Nat), NEW y \in Seq(Nat), NEW z \in Seq(Nat), Len(z) = Len(x) + Len(y),
         \A i \in 1 .. Len(x) : z[i] = x[i], \A i \in 1 .. Len(y) : z[Len(x) + i] = y[i]
  PROVE  z = x \o y
<1>1. x \o y \in Seq(Nat) /\ Len(x \o y) = Len(x) + Len(y) /\ Len(x) \in Nat /\ Len(y) \in Nat
  OBVIOUS
<1>2. ASSUME NEW i \in 1 .. Len(z) PROVE z[i] = (x \o y)[i]
  <2>1. CASE i <= Len(x)
    <3>1. i \in 1 .. Len(x)
      BY <1>1, <2>1
    <3> QED BY <3>1, AtFirst
  <2>2. CASE i > Len(x)
    <3> DEFINE j == i - Len(x)
    <3>1. j \in 1 .. Len(y) /\ i = Len(x) + j
      BY <1>1, <2>2
    <3> HIDE DEF j
    <3>2. (x \o y)[Len(x) + j] = y[j] /\ z[Len(x) + j] = y[j]
      BY <3>1, AtSecond
    <3> QED BY <3>1, <3>2, Zenon
  <2> QED BY <1>1, <2>1, <2>2
<1> QED BY <1>1, <1>2, SeqEqual

(* The messages of a Socks handshake, each of which is read as the other   *)
(* end cuts it: the greeting in two reads and the reply in two.            *)
LEMMA Messages ==
  /\ Greeting \in Seq(Nat) /\ Greeting = <<Ver, 1>> \o <<0>> /\ <<Ver, 1>> \in Seq(Nat) /\ Len(<<Ver, 1>>) = 2
  /\ <<0>> \in Seq(Nat) /\ Len(<<0>>) = 1 /\ << >> \in Seq(Nat)
  /\ Methods \in Seq(Nat) /\ Len(Methods) = 2
  /\ ReplyHead \in Seq(Nat) /\ Len(ReplyHead) = 4 /\ ReplyTail \in Seq(Nat) /\ Len(ReplyTail) = 6
  /\ SocksReply(ReplySucceeded) = ReplyHead \o ReplyTail
<1>1. Greeting = <<Ver, 1>> \o <<0>> /\ Greeting \in Seq(Nat)
  <2>1. <<5, 1>> \o <<0>> = <<5, 1, 0>>
    BY Bytes, 5 \in Nat, 1 \in Nat, 0 \in Nat
  <2>2. <<5, 1, 0>> \in Seq(Nat)
    OBVIOUS
  <2> QED BY <2>1, <2>2 DEF Greeting, Ver
<1>2. <<Ver, 1>> \in Seq(Nat) /\ Len(<<Ver, 1>>) = 2
  BY DEF Ver
<1>3. <<0>> \in Seq(Nat) /\ Len(<<0>>) = 1 /\ << >> \in Seq(Nat)
  OBVIOUS
<1>4. Methods \in Seq(Nat) /\ Len(Methods) = 2
  BY DEF Methods, Ver
<1>5. ReplyHead \in Seq(Nat) /\ Len(ReplyHead) = 4
  BY DEF ReplyHead, Ver, AtypIPv4, ReplySucceeded
<1>6. ReplyTail \in Seq(Nat) /\ Len(ReplyTail) = 6
  BY DEF ReplyTail
<1>7. SocksReply(ReplySucceeded) = ReplyHead \o ReplyTail
  <2> DEFINE r == <<5, 0, 0, 1, 0, 0, 0, 0, 0, 0>>
             x == <<5, 0, 0, 1>>
             y == <<0, 0, 0, 0, 0, 0>>
  <2>1. x \in Seq(Nat) /\ Len(x) = 4 /\ y \in Seq(Nat) /\ Len(y) = 6
    OBVIOUS
  <2>2. r \in Seq(Nat) /\ Len(r) = 10
    OBVIOUS
  <2>3. \A i \in 1 .. 4 : r[i] = x[i]
    OBVIOUS
  <2>4. \A i \in 1 .. 6 : r[4 + i] = y[i]
    OBVIOUS
  <2>6. SocksReply(ReplySucceeded) = r /\ ReplyHead = x /\ ReplyTail = y
    BY DEF SocksReply, ReplySucceeded, Ver, AtypIPv4, ReplyHead, ReplyTail
  <2> HIDE DEF r, x, y
  <2>5. r = x \o y
    <3>1. \A i \in 1 .. Len(x) : r[i] = x[i]
      BY <2>1, <2>3
    <3>2. \A i \in 1 .. Len(y) : r[Len(x) + i] = y[i]
      BY <2>1, <2>4
    <3>3. Len(r) = Len(x) + Len(y)
      BY <2>1, <2>2
    <3> QED BY <2>1, <2>2, <3>1, <3>2, <3>3, Joins, Zenon
  <2> QED BY <2>5, <2>6
<1> QED BY <1>1, <1>2, <1>3, <1>4, <1>5, <1>6, <1>7, Zenon

(* The request cut behind its fourth byte instead of its third.            *)
LEMMA Shifted ==
  ASSUME NEW t \in Nat, NEW a \in Seq(Nat), NEW p \in Seq(Nat)
  PROVE  (<<5, 1, 0>> \o (<<t>> \o a)) \o p = <<5, 1, 0, t>> \o (a \o p)
<1> DEFINE c == <<5, 1, 0>>
           y == <<t>>
<1>1. c \o y = <<5, 1, 0, t>>
  BY Bytes, 5 \in Nat, 1 \in Nat, 0 \in Nat, ZenonT(40)
<1>2. c \in Seq(Nat)
  OBVIOUS
<1>3. y \in Seq(Nat)
  OBVIOUS
<1> HIDE DEF c, y
<1>4. c \o y \in Seq(Nat)
  BY <1>2, <1>3, Halves
<1>5. (c \o y) \o a = c \o (y \o a)
  BY <1>2, <1>3, Three, Zenon
<1>6. ((c \o y) \o a) \o p = (c \o y) \o (a \o p)
  BY <1>4, Three, Zenon
<1> QED BY <1>1, <1>5, <1>6, Zenon DEF c, y

(* The first k elements of a sequence.                                     *)
LEMMA Firsts ==
  ASSUME NEW L, NEW x \in Seq(L), NEW k \in 0 .. Len(x)
  PROVE  /\ SubSeq(x, 1, k) \in Seq(L) /\ Len(SubSeq(x, 1, k)) = k
         /\ \A i \in 1 .. k : SubSeq(x, 1, k)[i] = x[i]
OBVIOUS

(* A buffer of 20 bytes begins with what was read into it.                 *)
LEMMA Filled ==
  ASSUME NEW c, Buffer(c), NEW b \in Seq(Nat), NEW k \in 1 .. 20, Len(b) = k
  PROVE  /\ Buffer(Fill(c, b)) /\ \A i \in 1 .. k : Fill(c, b)[i] = b[i]
         /\ SubSeq(Fill(c, b), 1, k) = b
<1> DEFINE x == Fill(c, b)
<1>1. DOMAIN c = 1 .. 20 /\ DOMAIN b = 1 .. k
  BY DEF Buffer
<1>2. x = [i \in 1 .. 20 |-> IF i \in 1 .. k THEN b[i] ELSE c[i]]
  BY <1>1 DEF Fill
<1>3. \A i \in 1 .. 20 : (IF i \in 1 .. k THEN b[i] ELSE c[i]) \in Nat
  <2> TAKE i \in 1 .. 20
  <2>1. c[i] \in Nat
    <3>1. c \in Seq(Nat) /\ i \in 1 .. Len(c)
      BY DEF Buffer
    <3> QED BY <3>1, Elements
  <2>2. i \in 1 .. k => b[i] \in Nat
    OBVIOUS
  <2> QED BY <2>1, <2>2
<1>4. x \in [1 .. 20 -> Nat]
  BY <1>2, <1>3
<1>5. x \in Seq(Nat) /\ Len(x) = 20
  <2> HIDE DEF x
  <2> QED BY <1>4, AsSequence, 20 \in Nat
<1>6. \A i \in 1 .. k : x[i] = b[i]
  BY <1>1, <1>2
<1> HIDE DEF x
<1>7. SubSeq(x, 1, k) = b
  <2>1. k \in 0 .. Len(x)
    BY <1>5
  <2>2. SubSeq(x, 1, k) \in Seq(Nat) /\ Len(SubSeq(x, 1, k)) = k /\ \A i \in 1 .. k : SubSeq(x, 1, k)[i] = x[i]
    BY <1>5, <2>1, Firsts, ZenonT(40)
  <2> QED BY <1>6, <2>2, SeqEqual
<1> QED BY <1>5, <1>6, <1>7 DEF x, Buffer

(* What is known of the destination the client end is given.               *)
LEMMA Wants ==
  ASSUME want \in Dests
  PROVE  /\ want = [type |-> want.type, addr |-> want.addr, port |-> want.port]
         /\ want.addr \in Seq(Nat) /\ want.port \in Seq(Nat) /\ Len(want.port) = 2
         /\ \/ want.type \in {"ip4", "ip4in6"} /\ Len(want.addr) = 4
            \/ want.type = "ip6" /\ Len(want.addr) = 16
            \/ want.type = "domain"
BY DestsAssumption

(* Something is written and nothing read.                                  *)
LEMMA Writes ==
  ASSUME NEW L, NEW e \in End, wire \in [End -> Seq(L)], NEW u \in Seq(L), Carries(e, << >>, u)
  PROVE  /\ wire'[e] = wire[e] \o u /\ wire'[Peer(e)] = wire[Peer(e)]
         /\ wire' \in [End -> Seq(L)]
<1> DEFINE w == wire[Peer(e)]
<1>1. w \in Seq(L) /\ Peer(e) \in End /\ Peer(e) # e /\ wire[e] \in Seq(L)
  BY TwoEnds
<1>2. SubSeq(w, Len(<< >>) + 1, Len(w)) = w
  <2>1. Len(<< >>) + 1 = 1
    OBVIOUS
  <2> QED BY <1>1, <2>1, SubSeqFull
<1>3. wire' = [wire EXCEPT ![Peer(e)] = w, ![e] = wire[e] \o u]
  BY <1>2 DEF Carries
<1>4. wire[e] \o u \in Seq(L)
  BY <1>1
<1> QED BY <1>1, <1>3, <1>4

Socked == kind = "socks" /\ want.type \in {"ip4", "ip6"} /\ want \in Dests

(* What is on its way to the client end are bytes.                         *)
LEMMA ToClientTyped == ToClient(cpc, spc) \in Seq(Nat)
<1>1. ReplyHead \o ReplyTail \in Seq(Nat)
  BY Messages
<1> QED BY <1>1, Messages, Zenon DEF ToClient

(* What the invariant says of the two directions.                          *)
LEMMA PlainLinks ==
  ASSUME PlainInv
  PROVE  /\ Link(wire["client"], ToServer(cpc, spc, want), sent["client"], got["server"])
         /\ Link(wire["server"], ToClient(cpc, spc), sent["server"], got["client"])
         /\ wire \in [End -> Seq(Nat)] /\ "server" \in End /\ "client" \in End
         /\ Peer("server") = "client" /\ Peer("client") = "server"
         /\ \A e \in End : got[e] \in Seq(Nat) /\ sent[e] \in Seq(Nat) /\ wire[e] \in Seq(Nat)
         /\ cpc # "up" => sent["client"] = << >>
         /\ spc # "up" => sent["server"] = << >>
BY TwoEnds DEF PlainInv, Carrying, Silent

(* A step of a handshake at the server end, and one at the client end.     *)
LEMMA ServerReads ==
  ASSUME NEW k, NEW b, NEW u, Exchange("server", k, b, u), b \in Reads("server", k),
         NEW x, NEW y, ToServer(cpc, spc, want) = x \o y, Len(x) = k,
         k \in Nat \ {0}, x \in Seq(Nat), y \in Seq(Nat), u \in Seq(Nat),
         PlainInv, ~torn', spc # "up"
  PROVE  /\ ~torn /\ b = x /\ Link(wire'["client"], y, sent["client"], got["server"])
         /\ wire' \in [End -> Seq(Nat)]
         /\ Link(wire'["server"], ToClient(cpc, spc) \o u, sent["server"], got["client"])
<1>1. "server" \in End /\ wire \in [End -> Seq(Nat)] /\ got["client"] \in Seq(Nat)
      /\ Link(wire[Peer("server")], x \o y, sent["client"], got["server"])
  BY PlainLinks
<1>2. /\ ~torn /\ b = x /\ Link(wire'[Peer("server")], y, sent["client"], got["server"])
      /\ wire'["server"] = wire["server"] \o u /\ wire' \in [End -> Seq(Nat)]
  BY <1>1, HandshakeRead, Zenon
<1>3. Link(wire["server"], ToClient(cpc, spc), << >>, got["client"]) /\ sent["server"] = << >>
  BY PlainLinks
<1>4. Link(wire["server"] \o u, ToClient(cpc, spc) \o u, << >>, got["client"])
  BY <1>1, <1>3, ToClientTyped, LinkSays, Zenon
<1> QED BY <1>2, <1>3, <1>4, PlainLinks

(* The server end reads nothing while the client end has nothing to say.   *)
LEMMA ServerWaits ==
  ASSUME PlainInv, ToServer(cpc, spc, want) = << >>, cpc # "up",
         NEW k \in Nat \ {0}, NEW b \in Reads("server", k)
  PROVE  FALSE
<1>1. "server" \in End /\ got["server"] \in Seq(Nat) /\ Link(wire[Peer("server")], << >>, << >>, got["server"])
  BY PlainLinks
<1> QED BY <1>1, NothingComes, Zenon

(* One read of the client end's handshake, of what the server end said, x, *)
(* and what it then says, u.                                               *)
LEMMA ClientReads ==
  ASSUME NEW k, NEW b, NEW u, Exchange("client", k, b, u), b \in Reads("client", k),
         NEW x, NEW y, ToClient(cpc, spc) = x \o y, Len(x) = k,
         k \in Nat \ {0}, x \in Seq(Nat), y \in Seq(Nat), u \in Seq(Nat),
         PlainInv, ~torn', cpc # "up", ToServer(cpc, spc, want) \in Seq(Nat)
  PROVE  /\ ~torn /\ b = x /\ Link(wire'["server"], y, sent["server"], got["client"])
         /\ wire' \in [End -> Seq(Nat)]
         /\ Link(wire'["client"], ToServer(cpc, spc, want) \o u, sent["client"], got["server"])
<1>1. "client" \in End /\ wire \in [End -> Seq(Nat)] /\ got["server"] \in Seq(Nat)
      /\ Link(wire[Peer("client")], x \o y, sent["server"], got["client"])
  BY PlainLinks
<1>2. /\ ~torn /\ b = x /\ Link(wire'[Peer("client")], y, sent["server"], got["client"])
      /\ wire'["client"] = wire["client"] \o u /\ wire' \in [End -> Seq(Nat)]
  BY <1>1, HandshakeRead, Zenon
<1>3. Link(wire["client"], ToServer(cpc, spc, want), << >>, got["server"]) /\ sent["client"] = << >>
  BY PlainLinks
<1>4. Link(wire["client"] \o u, ToServer(cpc, spc, want) \o u, << >>, got["server"])
  BY <1>1, <1>3, LinkSays, Zenon
<1> QED BY <1>2, <1>3, <1>4, PlainLinks

(* The client end reads nothing while the server end has nothing to say.   *)
LEMMA ClientWaits ==
  ASSUME PlainInv, ToClient(cpc, spc) = << >>, spc # "up",
         NEW k \in Nat \ {0}, NEW b \in Reads("client", k)
  PROVE  FALSE
<1>1. "client" \in End /\ got["client"] \in Seq(Nat) /\ Link(wire[Peer("client")], << >>, << >>, got["client"])
  BY PlainLinks
<1> QED BY <1>1, NothingComes, Zenon

(* What a step of a handshake has to keep.                                 *)
LEMMA PlainKept ==
  ASSUME PlainInv, Socked, UNCHANGED <<kind, want, sent, got>>, Met', Silent',
         Buffer(cbuf'), Buffer(sbuf'), wire' \in [End -> Seq(Nat)],
         Link(wire'["client"], ToServer(cpc', spc', want), sent["client"], got["server"]),
         Link(wire'["server"], ToClient(cpc', spc'), sent["server"], got["client"]),
         spc' = "methods" => sbuf'[2] = 1,
         spc' = "port" => dest' = [want EXCEPT !.port = <<0, 0>>],
         spc' = "up" => dest' = want
  PROVE  PlainInv'
BY DEF PlainInv, Carrying, Socked

(* A request is a head of 4 bytes, which the server end reads at once, the *)
(* address and the port.                                                   *)
LEMMA RequestParts ==
  ASSUME want \in Dests, want.type \in {"ip4", "ip6"}
  PROVE  /\ SocksRequest(want) = RequestHead(want) \o (want.addr \o want.port)
         /\ RequestHead(want) \in Seq(Nat) /\ Len(RequestHead(want)) = 4
         /\ want.addr \o want.port \in Seq(Nat)
         /\ RequestHead(want) \o (want.addr \o want.port) \in Seq(Nat)
<1> DEFINE t == IF want.type = "ip4" THEN 1 ELSE 4
           a == want.addr
           p == want.port
<1>1. t \in Nat /\ a \in Seq(Nat) /\ p \in Seq(Nat)
  BY Wants
<1>2. SocksRequest(want) = (<<5, 1, 0>> \o (<<t>> \o a)) \o p
  BY DEF SocksRequest, Ver, CmdConnect, AtypIPv4, AtypIPv6
<1>3. RequestHead(want) = <<5, 1, 0, t>>
  BY DEF RequestHead, Ver, CmdConnect, AtypIPv4, AtypIPv6
<1> HIDE DEF a, p, t
<1>4. RequestHead(want) \in Seq(Nat) /\ Len(RequestHead(want)) = 4
  BY <1>1, <1>3
<1>5. SocksRequest(want) = RequestHead(want) \o (a \o p)
  <2>1. (<<5, 1, 0>> \o (<<t>> \o a)) \o p = <<5, 1, 0, t>> \o (a \o p)
    BY <1>1, Shifted
  <2> QED BY <1>2, <1>3, <2>1
<1>6. a \o p \in Seq(Nat)
  BY <1>1, Halves
<1>7. RequestHead(want) \o (a \o p) \in Seq(Nat)
  BY <1>4, <1>6, Halves
<1> QED BY <1>4, <1>5, <1>6, <1>7 DEF a, p

(* The client end greets.                                                  *)
LEMMA GreetsKeeps == ASSUME PlainInv, Socked, SocksGreets PROVE PlainInv'
<1>1. cpc = "start" /\ cpc' = "method" /\ spc = "greeting" /\ spc' = "greeting"
  BY DEF SocksGreets, PlainInv, Met, Socked
<1>2. Greeting \in Seq(Nat) /\ Carries("client", << >>, Greeting)
  BY Messages DEF SocksGreets, Greeting
<1>3. /\ wire'["client"] = wire["client"] \o Greeting /\ wire'["server"] = wire["server"]
      /\ wire' \in [End -> Seq(Nat)]
  BY <1>2, PlainLinks, Writes
<1>4. UNCHANGED <<kind, want, cbuf, sbuf, dest, sent, got>>
  BY DEF SocksGreets
<1>5. /\ ToServer(cpc, spc, want) = << >> /\ ToClient(cpc, spc) = << >>
      /\ ToServer(cpc', spc', want) = Greeting /\ ToClient(cpc', spc') = << >>
  BY <1>1 DEF ToServer, ToClient
<1>6. Link(wire["client"], << >>, << >>, got["server"]) /\ got["server"] \in Seq(Nat) /\ << >> \in Seq(Nat)
      /\ sent["client"] = << >> /\ << >> \o Greeting = Greeting
  BY <1>1, <1>2, <1>5, PlainLinks, Nothing
<1>7. Link(wire["client"] \o Greeting, << >> \o Greeting, << >>, got["server"])
  BY <1>2, <1>6, LinkSays, Zenon
<1>8. Met' /\ Silent' /\ Buffer(cbuf') /\ Buffer(sbuf')
  BY <1>1, <1>4 DEF PlainInv, Met, Silent, Buffer, Socked
<1> QED BY <1>1, <1>3, <1>4, <1>5, <1>6, <1>7, <1>8, PlainKept, PlainLinks

(* The server end reads the first two bytes of the greeting.               *)
LEMMA GreetedKeeps == ASSUME PlainInv, Socked, SocksGreeted, ~torn' PROVE ~torn /\ PlainInv'
<1>1. spc = "greeting" /\ cpc \in {"start", "method"} /\ cpc' = cpc
  BY DEF SocksGreeted, PlainInv, Met, Socked
<1>2. PICK b \in Reads("server", 2) : Exchange("server", 2, b, << >>) /\ sbuf' = Fill(sbuf, b)
  BY DEF SocksGreeted
<1>3. 2 \in Nat \ {0} /\ << >> \in Seq(Nat) /\ spc # "up"
  BY <1>1, Messages
<1>4. cpc = "method"
  <2> SUFFICES ASSUME cpc = "start" PROVE FALSE
    BY <1>1
  <2>1. ToServer(cpc, spc, want) = << >>
    BY <1>1 DEF ToServer
  <2> QED BY <1>2, <1>3, <2>1, ServerWaits
<1> DEFINE x == <<Ver, 1>>
           y == <<0>>
<1>5. ToServer(cpc, spc, want) = x \o y /\ ToClient(cpc, spc) = << >>
  BY <1>1, <1>4, Messages DEF ToServer, ToClient
<1>6. x \in Seq(Nat) /\ y \in Seq(Nat) /\ Len(x) = 2 /\ x[1] = Ver /\ x[2] = 1
  BY Messages
<1> HIDE DEF x, y
<1>7. /\ ~torn /\ b = x /\ Link(wire'["client"], y, sent["client"], got["server"])
      /\ wire' \in [End -> Seq(Nat)]
      /\ Link(wire'["server"], ToClient(cpc, spc) \o << >>, sent["server"], got["client"])
  BY <1>2, <1>3, <1>5, <1>6, ServerReads, Zenon
<1>8. Buffer(sbuf') /\ sbuf'[1] = Ver /\ sbuf'[2] = 1
  <2>1. sbuf' = Fill(sbuf, x) /\ Buffer(sbuf) /\ 2 \in 1 .. 20
    BY <1>2, <1>7 DEF PlainInv
  <2>2. Buffer(sbuf') /\ \A i \in 1 .. 2 : sbuf'[i] = x[i]
    BY <1>6, <2>1, Filled, Zenon
  <2> QED BY <1>6, <2>2
<1>9. spc' = "methods"
  BY <1>8 DEF SocksGreeted
<1>10. UNCHANGED <<kind, want, cbuf, dest, sent, got>>
  BY DEF SocksGreeted
<1>11. ToServer(cpc', spc', want) = y /\ ToClient(cpc', spc') = << >> \o << >>
  <2>1. << >> \o << >> = << >>
    BY <1>3, Nothing
  <2> QED BY <1>1, <1>4, <1>9, <2>1 DEF ToServer, ToClient, y
<1>12. Met' /\ Silent' /\ Buffer(cbuf')
  BY <1>1, <1>4, <1>9, <1>10, PlainLinks DEF PlainInv, Met, Silent, Buffer, Socked
<1> QED BY <1>5, <1>7, <1>8, <1>9, <1>10, <1>11, <1>12, PlainKept

(* The server end reads the one method and answers.                        *)
LEMMA MethodsKeeps == ASSUME PlainInv, Socked, SocksMethods, ~torn' PROVE ~torn /\ PlainInv'
<1>1. spc = "methods" /\ cpc = "method" /\ cpc' = cpc /\ spc' = "request" /\ sbuf[2] = 1
  BY DEF SocksMethods, PlainInv, Met, Socked
<1>2. PICK b \in Reads("server", 1) : Exchange("server", 1, b, Methods) /\ sbuf' = Fill(sbuf, b)
  BY <1>1 DEF SocksMethods, Methods
<1>3. 1 \in Nat \ {0} /\ << >> \in Seq(Nat) /\ spc # "up" /\ Methods \in Seq(Nat)
  BY <1>1, Messages
<1> DEFINE x == <<0>>
           y == << >>
<1>4. x \in Seq(Nat) /\ y \in Seq(Nat) /\ Len(x) = 1
  BY Messages
<1>5. ToServer(cpc, spc, want) = x \o y /\ ToClient(cpc, spc) = << >>
  <2>1. x \o y = x
    BY <1>4, Nothing, Zenon
  <2> QED BY <1>1, <2>1 DEF ToServer, ToClient
<1> HIDE DEF x
<1>6. /\ ~torn /\ b = x /\ Link(wire'["client"], y, sent["client"], got["server"])
      /\ wire' \in [End -> Seq(Nat)]
      /\ Link(wire'["server"], ToClient(cpc, spc) \o Methods, sent["server"], got["client"])
  BY <1>2, <1>3, <1>4, <1>5, ServerReads, Zenon
<1>7. Buffer(sbuf')
  <2>1. sbuf' = Fill(sbuf, x) /\ Buffer(sbuf) /\ 1 \in 1 .. 20
    BY <1>2, <1>6 DEF PlainInv
  <2> QED BY <1>4, <2>1, Filled, Zenon
<1>8. UNCHANGED <<kind, want, cbuf, dest, sent, got>>
  BY DEF SocksMethods
<1>9. ToServer(cpc', spc', want) = y /\ ToClient(cpc', spc') = << >> \o Methods
  <2>1. << >> \o Methods = Methods
    BY <1>3, Nothing, Zenon
  <2> QED BY <1>1, <2>1 DEF ToServer, ToClient
<1>10. Met' /\ Silent' /\ Buffer(cbuf')
  BY <1>1, <1>8, PlainLinks DEF PlainInv, Met, Silent, Buffer, Socked
<1> QED BY <1>1, <1>5, <1>6, <1>7, <1>8, <1>9, <1>10, PlainKept

(* The client end reads the method and sends its request.                  *)
LEMMA RequestsKeeps == ASSUME PlainInv, Socked, SocksRequests, ~torn' PROVE ~torn /\ PlainInv'
<1>1. cpc = "method" /\ spc \in {"greeting", "methods", "request"} /\ cpc' = "reply" /\ spc' = spc
  BY DEF SocksRequests, PlainInv, Met, Socked
<1> DEFINE x == Methods
           y == << >>
           u == RequestHead(want) \o (want.addr \o want.port)
<1>2. SocksRequest(want) = u /\ u \in Seq(Nat)
  BY RequestParts DEF Socked
<1> HIDE DEF u
<1>3. PICK b \in Reads("client", 2) : Exchange("client", 2, b, u) /\ cbuf' = Fill(cbuf, b)
  BY <1>2 DEF SocksRequests
<1>4. 2 \in Nat \ {0} /\ y \in Seq(Nat) /\ cpc # "up" /\ spc # "up" /\ x \in Seq(Nat) /\ Len(x) = 2
  BY <1>1, Messages
<1>5. spc = "request"
  <2> SUFFICES ASSUME spc \in {"greeting", "methods"} PROVE FALSE
    BY <1>1
  <2>1. ToClient(cpc, spc) = << >>
    BY <1>1 DEF ToClient
  <2> QED BY <1>3, <1>4, <2>1, ClientWaits
<1>6. ToServer(cpc, spc, want) = << >> /\ ToClient(cpc, spc) = x \o y
  <2>1. x \o y = x
    BY <1>4, Nothing, Zenon
  <2> QED BY <1>1, <1>5, <2>1 DEF ToServer, ToClient
<1>7. ToServer(cpc, spc, want) \in Seq(Nat)
  BY <1>6, Messages
<1> HIDE DEF x
<1>8. /\ ~torn /\ b = x /\ Link(wire'["server"], y, sent["server"], got["client"])
      /\ wire' \in [End -> Seq(Nat)]
      /\ Link(wire'["client"], ToServer(cpc, spc, want) \o u, sent["client"], got["server"])
  BY <1>2, <1>3, <1>4, <1>6, <1>7, ClientReads, Zenon
<1>9. Buffer(cbuf')
  <2>1. cbuf' = Fill(cbuf, x) /\ Buffer(cbuf) /\ 2 \in 1 .. 20
    BY <1>3, <1>8 DEF PlainInv
  <2> QED BY <1>4, <2>1, Filled, Zenon
<1>10. UNCHANGED <<kind, want, sbuf, dest, sent, got>>
  BY DEF SocksRequests
<1>11. ToServer(cpc', spc', want) = << >> \o u /\ ToClient(cpc', spc') = y
  <2>1. << >> \o u = u
    BY <1>2, Nothing, Zenon
  <2> QED BY <1>1, <1>5, <2>1 DEF ToServer, ToClient, u
<1>12. Met' /\ Silent' /\ Buffer(sbuf')
  BY <1>1, <1>5, <1>10, PlainLinks DEF PlainInv, Met, Silent, Buffer, Socked
<1> QED BY <1>1, <1>5, <1>6, <1>8, <1>9, <1>10, <1>11, <1>12, PlainKept

(* What is on its way to the server end are bytes.                         *)
LEMMA ToServerTyped ==
  ASSUME Socked
  PROVE  \A c, s : ToServer(c, s, want) \in Seq(Nat)
<1>1. /\ Greeting \in Seq(Nat) /\ <<0>> \in Seq(Nat) /\ << >> \in Seq(Nat)
      /\ RequestHead(want) \o (want.addr \o want.port) \in Seq(Nat)
      /\ want.addr \o want.port \in Seq(Nat) /\ want.port \in Seq(Nat)
  BY Messages, RequestParts, Wants DEF Socked
<1> QED BY <1>1, Zenon DEF ToServer

(* Where the server end is behind the request, the client end does not     *)
(* change what is on its way to it.                                        *)
LEMMA Behind ==
  ASSUME Socked, NEW s, s \in {want.type, "port", "up"}, NEW c, NEW d
  PROVE  ToServer(c, s, want) = ToServer(d, s, want)
BY DEF ToServer, Socked

(* The server end reads the head of the request and answers.               *)
LEMMA ServesKeeps == ASSUME PlainInv, Socked, SocksServes, ~torn' PROVE ~torn /\ PlainInv'
<1>1. spc = "request" /\ cpc \in {"method", "reply"} /\ cpc' = cpc
  BY DEF SocksServes, PlainInv, Met, Socked
<1> DEFINE code == IF sbuf'[2] = CmdConnect THEN ReplySucceeded ELSE ReplyCmdNotSupported
<1>2. PICK b \in Reads("server", 4) : Exchange("server", 4, b, SocksReply(code)) /\ sbuf' = Fill(sbuf, b)
  BY DEF SocksServes
<1>3. 4 \in Nat \ {0} /\ << >> \in Seq(Nat) /\ spc # "up"
  BY <1>1, Messages
<1>4. cpc = "reply"
  <2> SUFFICES ASSUME cpc = "method" PROVE FALSE
    BY <1>1
  <2>1. ToServer(cpc, spc, want) = << >> /\ cpc # "up"
    BY <1>1 DEF ToServer
  <2> QED BY <1>2, <1>3, <2>1, ServerWaits
<1> DEFINE x == RequestHead(want)
           y == want.addr \o want.port
<1>5. ToServer(cpc, spc, want) = x \o y /\ ToClient(cpc, spc) = << >>
  BY <1>1, <1>4 DEF ToServer, ToClient
<1>6. x \in Seq(Nat) /\ y \in Seq(Nat) /\ Len(x) = 4
  BY RequestParts DEF Socked
<1>7. x[2] = CmdConnect /\ x[4] = IF want.type = "ip4" THEN AtypIPv4 ELSE AtypIPv6
  BY DEF RequestHead
<1>8. SocksReply(code) \in Seq(Nat)
  <2>1. code \in Nat
    BY DEF ReplySucceeded, ReplyCmdNotSupported
  <2> HIDE DEF code
  <2> QED BY <2>1 DEF SocksReply, Ver, AtypIPv4
<1> DEFINE u == SocksReply(code)
<1> HIDE DEF x, y, u
<1>9. u \in Seq(Nat) /\ Exchange("server", 4, b, u)
  BY <1>2, <1>8 DEF u
<1>10. /\ ~torn /\ b = x /\ Link(wire'["client"], y, sent["client"], got["server"])
       /\ wire' \in [End -> Seq(Nat)]
       /\ Link(wire'["server"], ToClient(cpc, spc) \o u, sent["server"], got["client"])
  BY <1>3, <1>5, <1>6, <1>9, ServerReads
<1>11. Buffer(sbuf') /\ sbuf'[2] = CmdConnect /\ sbuf'[4] = IF want.type = "ip4" THEN AtypIPv4 ELSE AtypIPv6
  <2>1. sbuf' = Fill(sbuf, x) /\ Buffer(sbuf) /\ 4 \in 1 .. 20
    BY <1>2, <1>10 DEF PlainInv
  <2>2. Buffer(sbuf') /\ \A i \in 1 .. 4 : sbuf'[i] = x[i]
    BY <1>6, <2>1, Filled, Zenon
  <2> QED BY <1>7, <2>2
<1>12. spc' = want.type
  BY <1>11 DEF SocksServes, Socked, CmdConnect, CmdUdpAssociate, AtypIPv4, AtypIPv6, AtypDomain
<1>13. UNCHANGED <<kind, want, cbuf, dest, sent, got>>
  BY DEF SocksServes
<1>14. ToServer(cpc', spc', want) = y
  BY <1>12 DEF ToServer, y, Socked
<1>15. ToClient(cpc', spc') = ToClient(cpc, spc) \o u
  <2>1. u = ReplyHead \o ReplyTail /\ u \in Seq(Nat)
    BY <1>9, <1>11, Messages DEF u
  <2>2. << >> \o u = u
    BY <2>1, Nothing, Zenon
  <2> QED BY <1>1, <1>4, <1>5, <1>12, <2>1, <2>2 DEF ToClient, Socked
<1>16. Met' /\ Silent' /\ Buffer(cbuf')
  BY <1>1, <1>4, <1>12, <1>13, PlainLinks DEF PlainInv, Met, Silent, Buffer, Socked
<1>17. spc' \notin {"methods", "port", "up"}
  BY <1>12 DEF Socked
<1> QED BY <1>10, <1>11, <1>13, <1>14, <1>15, <1>16, <1>17, PlainKept

(* The client end reads the head of the reply.                             *)
LEMMA RepliedKeeps == ASSUME PlainInv, Socked, SocksReplied, ~torn' PROVE ~torn /\ PlainInv'
<1>1. cpc = "reply" /\ spc \in {"request", want.type, "port", "up"} /\ spc' = spc
  BY DEF SocksReplied, PlainInv, Met, Socked
<1>2. PICK b \in Reads("client", 4) : Exchange("client", 4, b, << >>) /\ cbuf' = Fill(cbuf, b)
  BY DEF SocksReplied
<1>3. 4 \in Nat \ {0} /\ << >> \in Seq(Nat) /\ cpc # "up"
  BY <1>1, Messages
<1>4. spc \in {want.type, "port", "up"}
  <2> SUFFICES ASSUME spc = "request" PROVE FALSE
    BY <1>1
  <2>1. ToClient(cpc, spc) = << >> /\ spc # "up"
    BY <1>1 DEF ToClient
  <2> QED BY <1>2, <1>3, <2>1, ClientWaits
<1> DEFINE x == ReplyHead
           y == ReplyTail
<1>5. ToClient(cpc, spc) = x \o y
  BY <1>1, <1>4 DEF ToClient, Socked
<1>6. x \in Seq(Nat) /\ y \in Seq(Nat) /\ Len(x) = 4 /\ ToServer(cpc, spc, want) \in Seq(Nat)
  BY Messages, ToServerTyped
<1>7. x[2] = ReplySucceeded /\ x[4] = AtypIPv4
  BY DEF ReplyHead
<1> HIDE DEF x, y
<1>8. /\ ~torn /\ b = x /\ Link(wire'["server"], y, sent["server"], got["client"])
      /\ wire' \in [End -> Seq(Nat)]
      /\ Link(wire'["client"], ToServer(cpc, spc, want) \o << >>, sent["client"], got["server"])
  BY <1>2, <1>3, <1>5, <1>6, ClientReads
<1>9. Buffer(cbuf') /\ cbuf'[2] = ReplySucceeded /\ cbuf'[4] = AtypIPv4
  <2>1. cbuf' = Fill(cbuf, x) /\ Buffer(cbuf) /\ 4 \in 1 .. 20
    BY <1>2, <1>8 DEF PlainInv
  <2>2. Buffer(cbuf') /\ \A i \in 1 .. 4 : cbuf'[i] = x[i]
    BY <1>6, <2>1, Filled, Zenon
  <2> QED BY <1>7, <2>2
<1>10. cpc' = "bound"
  BY <1>9 DEF SocksReplied
<1>11. UNCHANGED <<kind, want, sbuf, dest, sent, got>>
  BY DEF SocksReplied
<1>12. ToServer(cpc', spc', want) = ToServer(cpc, spc, want) \o << >> /\ ToClient(cpc', spc') = y
  <2>1. ToServer(cpc, spc, want) \o << >> = ToServer(cpc, spc, want)
    BY <1>6, Nothing, Zenon
  <2>2. ToServer(cpc', spc', want) = ToServer(cpc, spc, want)
    BY <1>1, <1>4, Behind
  <2> QED BY <1>10, <2>1, <2>2 DEF ToClient, y
<1>13. Met' /\ Silent' /\ Buffer(sbuf')
  BY <1>1, <1>4, <1>10, <1>11, PlainLinks DEF PlainInv, Met, Silent, Buffer, Socked
<1>14. /\ spc' # "methods"
       /\ spc' = "port" => dest' = [want EXCEPT !.port = <<0, 0>>]
       /\ spc' = "up" => dest' = want
  BY <1>1, <1>4, <1>11 DEF PlainInv, Socked
<1> QED BY <1>8, <1>9, <1>11, <1>12, <1>13, <1>14, PlainKept

(* The client end reads the rest of the reply, so that nothing of it is    *)
(* left in the stream.                                                     *)
LEMMA ConsumesKeeps == ASSUME PlainInv, Socked, SocksConsumes, ~torn' PROVE ~torn /\ PlainInv'
<1>1. cpc = "bound" /\ spc \in {want.type, "port", "up"} /\ spc' = spc /\ cpc' = "up"
  BY DEF SocksConsumes, PlainInv, Met, Socked
<1>2. PICK b \in Reads("client", 6) : Exchange("client", 6, b, << >>) /\ cbuf' = Fill(cbuf, b)
  BY DEF SocksConsumes
<1>3. 6 \in Nat \ {0} /\ << >> \in Seq(Nat) /\ cpc # "up"
  BY <1>1, Messages
<1> DEFINE x == ReplyTail
           y == << >>
<1>4. x \in Seq(Nat) /\ y \in Seq(Nat) /\ Len(x) = 6 /\ ToServer(cpc, spc, want) \in Seq(Nat)
  BY Messages, ToServerTyped
<1>5. ToClient(cpc, spc) = x \o y
  <2>1. x \o y = x
    BY <1>4, Nothing, Zenon
  <2> QED BY <1>1, <2>1 DEF ToClient
<1> HIDE DEF x
<1>6. /\ ~torn /\ b = x /\ Link(wire'["server"], y, sent["server"], got["client"])
      /\ wire' \in [End -> Seq(Nat)]
      /\ Link(wire'["client"], ToServer(cpc, spc, want) \o << >>, sent["client"], got["server"])
  BY <1>2, <1>3, <1>4, <1>5, ClientReads
<1>7. Buffer(cbuf')
  <2>1. cbuf' = Fill(cbuf, x) /\ Buffer(cbuf) /\ 6 \in 1 .. 20
    BY <1>2, <1>6 DEF PlainInv
  <2> QED BY <1>4, <2>1, Filled, Zenon
<1>8. UNCHANGED <<kind, want, sbuf, dest, sent, got>>
  BY DEF SocksConsumes
<1>9. ToServer(cpc', spc', want) = ToServer(cpc, spc, want) \o << >> /\ ToClient(cpc', spc') = y
  <2>1. ToServer(cpc, spc, want) \o << >> = ToServer(cpc, spc, want)
    BY <1>4, Nothing, Zenon
  <2>2. ToServer(cpc', spc', want) = ToServer(cpc, spc, want)
    BY <1>1, Behind
  <2> QED BY <1>1, <2>1, <2>2 DEF ToClient
<1>10. Met' /\ Silent' /\ Buffer(sbuf')
  BY <1>1, <1>8, PlainLinks DEF PlainInv, Met, Silent, Buffer, Socked
<1>11. /\ spc' # "methods"
       /\ spc' = "port" => dest' = [want EXCEPT !.port = <<0, 0>>]
       /\ spc' = "up" => dest' = want
  BY <1>1, <1>8 DEF PlainInv, Socked
<1> QED BY <1>6, <1>7, <1>8, <1>9, <1>10, <1>11, PlainKept

(* The server end reads the address, of 4 or of 16 bytes.                  *)
LEMMA AddrKeeps == ASSUME PlainInv, Socked, SocksAddr, ~torn' PROVE ~torn /\ PlainInv'
<1>1. /\ spc \in {"ip4", "ip6"} /\ spc = want.type /\ cpc \in {"reply", "bound", "up"} /\ cpc' = cpc
      /\ spc' = "port"
  BY DEF SocksAddr, AddrSize, PlainInv, Met, Socked
<1> DEFINE x == want.addr
           y == want.port
           k == AddrSize[spc]
<1>2. x \in Seq(Nat) /\ y \in Seq(Nat) /\ Len(x) = k /\ k \in Nat \ {0} /\ k \in 1 .. 20
  <2>2. x \in Seq(Nat) /\ y \in Seq(Nat) /\ (want.type = "ip4" => Len(x) = 4) /\ (want.type = "ip6" => Len(x) = 16)
    BY Wants DEF Socked
  <2>3. k = IF want.type = "ip4" THEN 4 ELSE 16
    BY <1>1 DEF AddrSize
  <2> HIDE DEF k, x, y
  <2>4. k \in Nat \ {0} /\ k \in 1 .. 20
    BY <2>3
  <2> QED BY <1>1, <2>2, <2>3, <2>4
<1>3. PICK b \in Reads("server", k) :
        /\ Exchange("server", k, b, << >>) /\ sbuf' = Fill(sbuf, b)
        /\ dest' = [type |-> spc, addr |-> SubSeq(sbuf', 1, k), port |-> <<0, 0>>]
  BY DEF SocksAddr
<1>4. ToServer(cpc, spc, want) = x \o y
  BY <1>1 DEF ToServer
<1>5. << >> \in Seq(Nat) /\ spc # "up" /\ ToClient(cpc, spc) \in Seq(Nat)
  BY <1>1, Messages, ToClientTyped
<1> HIDE DEF x, y, k
<1>6. /\ ~torn /\ b = x /\ Link(wire'["client"], y, sent["client"], got["server"])
      /\ wire' \in [End -> Seq(Nat)]
      /\ Link(wire'["server"], ToClient(cpc, spc) \o << >>, sent["server"], got["client"])
  BY <1>2, <1>3, <1>4, <1>5, ServerReads
<1>7. Buffer(sbuf') /\ SubSeq(sbuf', 1, k) = x
  <2>1. sbuf' = Fill(sbuf, x) /\ Buffer(sbuf)
    BY <1>3, <1>6 DEF PlainInv
  <2> QED BY <1>2, <2>1, Filled, Zenon
<1>8. dest' = [want EXCEPT !.port = <<0, 0>>]
  <2>1. want = [type |-> want.type, addr |-> want.addr, port |-> want.port]
    BY Wants DEF Socked
  <2>2. dest' = [type |-> want.type, addr |-> want.addr, port |-> <<0, 0>>]
    BY <1>1, <1>3, <1>7 DEF x
  <2> QED BY <2>1, <2>2
<1>9. UNCHANGED <<kind, want, cbuf, sent, got>>
  BY DEF SocksAddr
<1>10. ToServer(cpc', spc', want) = y /\ ToClient(cpc', spc') = ToClient(cpc, spc) \o << >>
  <2>1. ToClient(cpc, spc) \o << >> = ToClient(cpc, spc)
    BY <1>5, Nothing, Zenon
  <2> QED BY <1>1, <2>1 DEF ToClient, ToServer, y
<1>11. Met' /\ Silent' /\ Buffer(cbuf')
  BY <1>1, <1>9, PlainLinks DEF PlainInv, Met, Silent, Buffer, Socked
<1> QED BY <1>1, <1>6, <1>7, <1>8, <1>9, <1>10, <1>11, PlainKept

(* The server end reads the port and has the destination.                  *)
LEMMA PortKeeps == ASSUME PlainInv, Socked, SocksPort, ~torn' PROVE ~torn /\ PlainInv'
<1>1. /\ spc = "port" /\ cpc \in {"reply", "bound", "up"} /\ cpc' = cpc
      /\ spc' = "up" /\ dest = [want EXCEPT !.port = <<0, 0>>]
  BY DEF SocksPort, PlainInv, Met, Socked
<1> DEFINE x == want.port
           y == << >>
<1>2. x \in Seq(Nat) /\ y \in Seq(Nat) /\ Len(x) = 2 /\ 2 \in Nat \ {0} /\ 2 \in 1 .. 20
  BY Wants, Messages DEF Socked
<1>3. PICK b \in Reads("server", 2) :
        Exchange("server", 2, b, << >>) /\ sbuf' = Fill(sbuf, b)
  BY DEF SocksPort
<1>4. ToServer(cpc, spc, want) = x \o y
  <2>1. x \o y = x
    BY <1>2, Nothing, Zenon
  <2> QED BY <1>1, <2>1 DEF ToServer
<1>5. spc # "up" /\ ToClient(cpc, spc) \in Seq(Nat)
  BY <1>1, Messages, ToClientTyped
<1> HIDE DEF x
<1>6. /\ ~torn /\ b = x /\ Link(wire'["client"], y, sent["client"], got["server"])
      /\ wire' \in [End -> Seq(Nat)]
      /\ Link(wire'["server"], ToClient(cpc, spc) \o << >>, sent["server"], got["client"])
  BY <1>2, <1>3, <1>4, <1>5, ServerReads
<1>7. Buffer(sbuf') /\ sbuf'[1] = x[1] /\ sbuf'[2] = x[2]
  <2>1. sbuf' = Fill(sbuf, x) /\ Buffer(sbuf)
    BY <1>3, <1>6 DEF PlainInv
  <2>2. Buffer(sbuf') /\ \A i \in 1 .. 2 : sbuf'[i] = x[i]
    BY <1>2, <2>1, Filled, Zenon
  <2> QED BY <2>2
<1>8. dest' = want
  <2>1. want = [type |-> want.type, addr |-> want.addr, port |-> want.port]
        /\ want.addr \in Seq(Nat) /\ want.type \in {"ip4", "ip6"}
    BY Wants DEF Socked
  <2>2. dest = [type |-> want.type, addr |-> want.addr, port |-> <<0, 0>>]
    BY <1>1, <2>1
  <2>3. dest # Absent
    <3>1. <<0, 0>> \in Seq(Nat)
      OBVIOUS
    <3>2. dest \in [type : {"ip4", "ip6", "domain"}, addr : Seq(Nat), port : Seq(Nat)]
      BY <2>1, <2>2, <3>1
    <3> QED BY <3>2, AbsentAssumption
  <2>4. <<sbuf'[1], sbuf'[2]>> = x
    BY <1>2, <1>7
  <2>5. dest' = [dest EXCEPT !.port = x]
    BY <2>3, <2>4 DEF SocksPort
  <2>6. dest' = [type |-> want.type, addr |-> want.addr, port |-> x]
    BY <2>2, <2>5
  <2> QED BY <2>1, <2>6 DEF x
<1>9. UNCHANGED <<kind, want, cbuf, sent, got>>
  BY DEF SocksPort
<1>10. ToServer(cpc', spc', want) = y /\ ToClient(cpc', spc') = ToClient(cpc, spc) \o << >>
  <2>1. ToClient(cpc, spc) \o << >> = ToClient(cpc, spc)
    BY <1>5, Nothing, Zenon
  <2> QED BY <1>1, <2>1 DEF ToClient, ToServer
<1>11. Met' /\ Silent' /\ Buffer(cbuf')
  BY <1>1, <1>9, PlainLinks DEF PlainInv, Met, Silent, Buffer, Socked
<1> QED BY <1>1, <1>6, <1>7, <1>8, <1>9, <1>10, <1>11, PlainKept

(* What an end writes of the stream.                                       *)
Wrote(e, n) == [i \in 1 .. n |-> (IF e = "client" THEN 100 ELSE 200) + Len(sent[e]) + i]

(* What is written of the stream are bytes.                                *)
LEMMA WroteTyped ==
  ASSUME NEW e \in End, Carrying, NEW n \in Blocks
  PROVE  Wrote(e, n) \in Seq(Nat) /\ Len(Wrote(e, n)) = n
<1>1. n \in Nat
  BY ProxyStreamAssumption
<1> DEFINE m == (IF e = "client" THEN 100 ELSE 200) + Len(sent[e])
<1>2. m \in Nat
  <2>1. Len(sent[e]) \in Nat
    BY DEF Carrying
  <2> DEFINE l == Len(sent[e])
             c == IF e = "client" THEN 100 ELSE 200
  <2>2. l \in Nat /\ c \in Nat
    BY <2>1
  <2>3. m = c + l
    OBVIOUS
  <2> HIDE DEF l, c, m
  <2> QED BY <2>2, <2>3
<1> HIDE DEF m
<1>3. Wrote(e, n) = [i \in 1 .. n |-> m + i]
  BY DEF Wrote, m
<1>4. [i \in 1 .. n |-> m + i] \in [1 .. n -> Nat]
  BY <1>1, <1>2
<1> QED BY <1>1, <1>3, <1>4, AsSequence

(* The links of an end that is up carry the stream alone.                  *)
LEMMA PlainUp ==
  ASSUME PlainInv, kind = "none" \/ Socked
  PROVE  /\ cpc = "up" => Link(wire["server"], << >>, sent["server"], got["client"])
         /\ spc = "up" => Link(wire["client"], << >>, sent["client"], got["server"])
         /\ ToServer(cpc, spc, want) \in Seq(Nat) /\ ToClient(cpc, spc) \in Seq(Nat)
<1>1. cpc = "up" => ToClient(cpc, spc) = << >>
  BY DEF ToClient
<1>2. spc = "up" => ToServer(cpc, spc, want) = << >>
  BY DEF ToServer
<1>3. ToServer(cpc, spc, want) \in Seq(Nat) /\ ToClient(cpc, spc) \in Seq(Nat)
  BY <1>2, ToServerTyped, ToClientTyped, Messages DEF PlainInv, Met
<1> QED BY <1>1, <1>2, <1>3, PlainLinks

(* An end that is up writes of the stream.                                 *)
LEMMA WriteKeepsPlain ==
  ASSUME PlainInv, kind = "none" \/ Socked, NEW e \in End, Write(e)
  PROVE  torn' = torn /\ PlainInv'
<1>1. PICK n \in Blocks : /\ sent' = [sent EXCEPT ![e] = @ \o Wrote(e, n)]
                          /\ Carries(e, << >>, Wrote(e, n))
  BY DEF Write, Wrote, Socked
<1> DEFINE d == Wrote(e, n)
<1>2. d \in Seq(Nat)
  BY WroteTyped DEF PlainInv
<1> HIDE DEF d
<1>3. Up(e) /\ UNCHANGED <<kind, want, cpc, spc, cbuf, sbuf, dest, got, torn>>
  BY DEF Write
<1>4. /\ wire'[e] = wire[e] \o d /\ wire'[Peer(e)] = wire[Peer(e)]
      /\ wire' \in [End -> Seq(Nat)]
  <2>1. wire \in [End -> Seq(Nat)] /\ Carries(e, << >>, d)
    BY <1>1, PlainLinks DEF d
  <2> QED BY <1>2, <2>1, Writes
<1>5. sent'[e] = sent[e] \o d /\ sent'[Peer(e)] = sent[Peer(e)] /\ Carrying'
  <2>1. sent \in [End -> Seq(Nat)] /\ got \in [End -> Seq(Nat)] /\ sent' = [sent EXCEPT ![e] = sent[e] \o d]
        /\ Peer(e) \in End /\ Peer(e) # e
    BY <1>1, TwoEnds DEF PlainInv, Carrying, d
  <2>2. sent[e] \o d \in Seq(Nat)
    BY <1>2, <2>1
  <2> QED BY <1>3, <2>1, <2>2 DEF Carrying
<1>6. ToServer(cpc, spc, want) \in Seq(Nat) /\ ToClient(cpc, spc) \in Seq(Nat)
  BY PlainUp
<1>7. CASE e = "client"
  <2>1. Link(wire["client"] \o d, ToServer(cpc, spc, want), sent["client"] \o d, got["server"])
    <3>1. got["server"] \in Seq(Nat) /\ Link(wire["client"], ToServer(cpc, spc, want), sent["client"], got["server"])
      BY PlainLinks
    <3> QED BY <1>2, <1>6, <3>1, LinkWrite, Zenon
  <2>2. cpc = "up"
    BY <1>3, <1>7 DEF Up
  <2> QED BY <1>3, <1>4, <1>5, <1>7, <2>1, <2>2, TwoEnds DEF PlainInv, Met, Silent
<1>8. CASE e = "server"
  <2>1. Link(wire["server"] \o d, ToClient(cpc, spc), sent["server"] \o d, got["client"])
    <3>1. got["client"] \in Seq(Nat) /\ Link(wire["server"], ToClient(cpc, spc), sent["server"], got["client"])
      BY PlainLinks
    <3> QED BY <1>2, <1>6, <3>1, LinkWrite, Zenon
  <2>2. spc = "up"
    BY <1>3, <1>8 DEF Up
  <2> QED BY <1>3, <1>4, <1>5, <1>8, <2>1, <2>2, TwoEnds DEF PlainInv, Met, Silent
<1> QED BY <1>3, <1>7, <1>8, TwoEnds

(* An end that is up reads of the stream, any number of bytes.             *)
LEMMA ReadKeepsPlain ==
  ASSUME PlainInv, kind = "none" \/ Socked, NEW e \in End, ReadPlain(e)
  PROVE  torn' = torn /\ PlainInv'
<1> DEFINE o == Peer(e)
           w == wire[o]
<1>1. PICK b \in Reads(e, MaxBytes) : Carries(e, b, << >>) /\ got' = [got EXCEPT ![e] = @ \o b]
  BY DEF ReadPlain
<1>2. Up(e) /\ UNCHANGED <<kind, want, cpc, spc, cbuf, sbuf, dest, sent, torn>>
  BY DEF ReadPlain
<1>3. o \in End /\ o # e /\ w \in Seq(Nat) /\ wire[e] \in Seq(Nat) /\ got[e] \in Seq(Nat)
      /\ wire \in [End -> Seq(Nat)] /\ got \in [End -> Seq(Nat)]
  BY TwoEnds, PlainLinks DEF PlainInv, Carrying
<1>4. Link(w, << >>, sent[o], got[e])
  BY <1>2, PlainUp, TwoEnds DEF Up
<1>5. PICK n \in 1 .. Len(w) : b = SubSeq(w, 1, n) /\ Len(b) = n
  <2>1. MaxBytes \in Nat \ {0} /\ Len(w) \in Nat
    BY <1>3, ProxyStreamAssumption
  <2>2. PICK n \in 1 .. Min({MaxBytes, Len(w)}) : b = SubSeq(w, 1, n)
    <3>1. b \in {SubSeq(w, 1, n) : n \in 1 .. Min({MaxBytes, Len(w)})}
      BY <2>1 DEF Reads
    <3> QED BY <3>1
  <2>3. Min({MaxBytes, Len(w)}) = IF MaxBytes <= Len(w) THEN MaxBytes ELSE Len(w)
    BY <2>1, MinTwo
  <2>4. n \in 1 .. Len(w)
    <3> HIDE DEF w
    <3> QED BY <2>1, <2>2, <2>3
  <2>5. n \in 0 .. Len(w)
    BY <2>4
  <2>6. Len(b) = n
    BY <1>3, <2>2, <2>5, Firsts, Zenon
  <2> QED BY <2>2, <2>4, <2>6
<1>6. SubSeq(w, 1, n) \in Seq(Nat) /\ Link(SubSeq(w, n + 1, Len(w)), << >>, sent[o], got[e] \o SubSeq(w, 1, n))
  BY <1>3, <1>4, LinkRead
<1>7. /\ wire' = [wire EXCEPT ![o] = SubSeq(w, n + 1, Len(w)), ![e] = wire[e]]
  <2>1. wire[e] \o << >> = wire[e]
    BY <1>3, Nothing, Zenon
  <2> QED BY <1>1, <1>3, <1>5, <2>1 DEF Carries
<1>8. wire'[o] = SubSeq(w, n + 1, Len(w)) /\ wire'[e] = wire[e] /\ wire' \in [End -> Seq(Nat)]
  <2>1. SubSeq(w, n + 1, Len(w)) \in Seq(Nat)
    BY <1>6, LinkTyped, Messages
  <2> HIDE DEF w, o
  <2> QED BY <1>3, <1>7, <2>1
<1>9. got'[e] = got[e] \o b /\ got'[o] = got[o] /\ Carrying'
  <2>1. got[e] \o b \in Seq(Nat)
    BY <1>3, <1>5, <1>6
  <2>2. got' = [got EXCEPT ![e] = got[e] \o b]
    BY <1>1
  <2> HIDE DEF o
  <2> QED BY <1>2, <1>3, <2>1, <2>2 DEF Carrying, PlainInv
<1>10. Link(wire'[o], << >>, sent[o], got'[e])
  BY <1>5, <1>6, <1>8, <1>9
<1>11. CASE e = "client"
  <2>1. o = "server" /\ ToClient(cpc, spc) = << >>
    BY <1>2, <1>11, TwoEnds DEF Up, ToClient
  <2> QED BY <1>2, <1>8, <1>9, <1>10, <1>11, <2>1 DEF PlainInv, Met, Silent
<1>12. CASE e = "server"
  <2>1. o = "client" /\ ToServer(cpc, spc, want) = << >>
    BY <1>2, <1>12, TwoEnds DEF Up, ToServer
  <2> QED BY <1>2, <1>8, <1>9, <1>10, <1>12, <2>1 DEF PlainInv, Met, Silent
<1> QED BY <1>2, <1>11, <1>12, TwoEnds

(* The two halves of a row of sealed items.                                *)
LEMMA SealedHalves ==
  ASSUME NEW x \in Seq(Sealed), NEW y \in Seq(Sealed)
  PROVE  /\ x \o y \in Seq(Sealed) /\ Len(x \o y) = Len(x) + Len(y)
         /\ SubSeq(x \o y, 1, Len(x)) = x
         /\ SubSeq(x \o y, Len(x) + 1, Len(x \o y)) = y
OBVIOUS

(* Three rows of sealed items in a row.                                    *)
LEMMA SealedThree ==
  ASSUME NEW x \in Seq(Sealed), NEW y \in Seq(Sealed), NEW z \in Seq(Sealed)
  PROVE  (x \o y) \o z = x \o (y \o z)
OBVIOUS

(* No sealed items add nothing.                                            *)
LEMMA SealedNothing ==
  ASSUME NEW x \in Seq(Sealed)
  PROVE  /\ << >> \o x = x /\ x \o << >> = x /\ << >> \in Seq(Sealed) /\ Len(x) \in Nat
         /\ SubSeq(x, 1, Len(x)) = x
OBVIOUS

(* Reading x, the first of what a handshake still has on its way, leaves   *)
(* the rest of it, y.                                                      *)
LEMMA SealedTake ==
  ASSUME NEW e, NEW w, NEW x \in Seq(Sealed), NEW y \in Seq(Sealed), NEW n, NEW m, NEW s, NEW g,
         SealedLink(e, w, x \o y, n, m, s, g)
  PROVE  /\ w \in Seq(Sealed) /\ SubSeq(w, 1, Len(x)) = x
         /\ SealedLink(e, SubSeq(w, Len(x) + 1, Len(w)), y, n, m, s, g)
<1>1. PICK v \in Seq(Sealed), f \in Seq(Nat) :
        w = (x \o y) \o v /\ s = g \o f /\ Chunked(e, n, v, f) /\ m = n + Len(v)
  BY DEF SealedLink
<1> DEFINE z == y \o v
<1>2. w = x \o z
  BY <1>1, SealedThree, Zenon
<1>3. z \in Seq(Sealed)
  BY SealedHalves
<1> HIDE DEF z
<1>4. w \in Seq(Sealed) /\ SubSeq(w, 1, Len(x)) = x /\ SubSeq(w, Len(x) + 1, Len(w)) = z
  BY <1>2, <1>3, SealedHalves, Zenon
<1> QED BY <1>1, <1>4, Zenon DEF SealedLink, z

(* The handshake goes on with u, its chunks with nonce k.                  *)
LEMMA SealedStart ==
  ASSUME NEW e, NEW w, NEW n \in Nat, NEW g \in Seq(Nat), SealedLink(e, w, << >>, n, n, << >>, g),
         NEW u \in Seq(Sealed), NEW k \in Nat
  PROVE  SealedLink(e, w \o u, u, k, k, << >>, g)
<1>1. PICK v \in Seq(Sealed), f \in Seq(Nat) :
        w = << >> \o v /\ << >> = g \o f /\ Chunked(e, n, v, f) /\ n = n + Len(v)
  BY DEF SealedLink
<1>2. v = << >>
  BY <1>1
<1>3. g = << >>
  BY <1>1, NothingBoth
<1>4. w \o u = u
  BY <1>1, <1>2, SealedNothing
<1>5. u = u \o << >> /\ << >> \in Seq(Sealed) /\ << >> \in Seq(Nat) /\ << >> = << >> \o << >> /\ k = k + Len(<< >>)
  OBVIOUS
<1>6. Chunked(e, k, << >>, << >>)
  BY NoChunks, Zenon
<1> QED BY <1>3, <1>4, <1>5, <1>6, Zenon DEF SealedLink

(* The chunks of d, numbered on from m, come behind all that is on its     *)
(* way.                                                                    *)
LEMMA SealedWrite ==
  ASSUME NEW e, NEW w, NEW a \in Seq(Sealed), NEW n \in Nat, NEW m \in Nat, NEW s, NEW g \in Seq(Nat),
         SealedLink(e, w, a, n, m, s, g),
         NEW u \in Seq(Sealed), NEW d \in Seq(Nat), Chunked(e, m, u, d)
  PROVE  SealedLink(e, w \o u, a, n, m + Len(u), s \o d, g)
<1>1. PICK v \in Seq(Sealed), f \in Seq(Nat) :
        w = a \o v /\ s = g \o f /\ Chunked(e, n, v, f) /\ m = n + Len(v)
  BY DEF SealedLink
<1>2. w \o u = a \o (v \o u) /\ s \o d = g \o (f \o d)
  BY <1>1, SealedThree, Three, ZenonT(40)
<1>3. Chunked(e, n, v \o u, f \o d)
  BY <1>1, ChunkedJoin
<1>4. v \o u \in Seq(Sealed) /\ f \o d \in Seq(Nat) /\ Len(v \o u) = Len(v) + Len(u)
      /\ Len(v) \in Nat /\ Len(u) \in Nat
  OBVIOUS
<1>5. m + Len(u) = n + Len(v \o u)
  BY <1>1, <1>4
<1> QED BY <1>2, <1>3, <1>4, <1>5, Zenon DEF SealedLink

(* What is behind the first chunk.                                         *)
LEMMA SealedBehind ==
  ASSUME NEW v \in Seq(Sealed), Len(v) >= 2
  PROVE  SubSeq(v, 3, Len(v)) \in Seq(Sealed) /\ Len(SubSeq(v, 3, Len(v))) = Len(v) - 2 /\ Len(v) \in Nat
<1> DEFINE l == Len(v)
<1>1. l \in Nat /\ l >= 2
  OBVIOUS
<1>2. SubSeq(v, 3, l) \in Seq(Sealed) /\ Len(SubSeq(v, 3, l)) = (IF 3 <= l THEN l - 3 + 1 ELSE 0)
  <2>1. \A i \in 3 .. l : v[i] \in Sealed
    <3> TAKE i \in 3 .. l
    <3>1. i \in 1 .. Len(v)
      BY <1>1
    <3> QED BY <3>1, Elements
  <2> HIDE DEF l
  <2> QED BY <1>1, <2>1, SubSeqProperties
<1> HIDE DEF l
<1>3. Len(SubSeq(v, 3, l)) = l - 2
  <2> DEFINE k == Len(SubSeq(v, 3, l))
  <2>1. k = (IF 3 <= l THEN l - 3 + 1 ELSE 0)
    BY <1>2
  <2> HIDE DEF k
  <2>2. k = l - 2
    BY <1>1, <2>1
  <2> QED BY <2>2 DEF k
<1> QED BY <1>1, <1>2, <1>3 DEF l

(* Once nothing of the handshake is left the first chunk holds what was    *)
(* written next.                                                           *)
LEMMA SealedRead ==
  ASSUME NEW e, NEW w, NEW n \in Nat, NEW m, NEW s, NEW g \in Seq(Nat),
         SealedLink(e, w, << >>, n, m, s, g), Len(w) >= 2
  PROVE  /\ w \in Seq(Sealed) /\ w[2].data \in Seq(Nat)
         /\ SealedLink(e, SubSeq(w, 3, Len(w)), << >>, n + 2, m, s, g \o w[2].data)
<1>1. PICK v \in Seq(Sealed), f \in Seq(Nat) :
        w = << >> \o v /\ s = g \o f /\ Chunked(e, n, v, f) /\ m = n + Len(v)
  BY DEF SealedLink
<1>2. w = v
  BY <1>1, SealedNothing
<1>3. Len(v) >= 2
  BY <1>2
<1>11. Chunked(e, n, v, f)
  BY <1>1
<1>12. /\ v[2].data \in Seq(Nat) /\ SubSeq(f, Len(v[2].data) + 1, Len(f)) \in Seq(Nat)
       /\ Chunked(e, n + 2, SubSeq(v, 3, Len(v)), SubSeq(f, Len(v[2].data) + 1, Len(f)))
  BY <1>11, <1>3, ChunkedFirst
<1>13. Leads(v[2].data, f)
  BY <1>11, <1>3, ChunkedFirst
<1> DEFINE x == v[2].data
           y == SubSeq(f, Len(x) + 1, Len(f))
<1>4. x \in Seq(Nat) /\ y \in Seq(Nat) /\ f = x \o y /\ Chunked(e, n + 2, SubSeq(v, 3, Len(v)), y)
  BY <1>12, <1>13, Zenon DEF Leads
<1> HIDE DEF x, y
<1> DEFINE u == SubSeq(v, 3, Len(v))
<1>5. u \in Seq(Sealed) /\ Len(u) = Len(v) - 2 /\ Len(v) \in Nat
  BY <1>3, SealedBehind
<1> HIDE DEF u
<1>6. u = << >> \o u
  BY <1>5, SealedNothing
<1>7. s = (g \o x) \o y
  <2>1. (g \o x) \o y = g \o (x \o y)
    BY Three, SMTT(20)
  <2> QED BY <1>1, <1>4, <2>1
<1>8. m = (n + 2) + Len(u)
  BY <1>1, <1>5
<1>9. Chunked(e, n + 2, u, y)
  BY <1>4 DEF u
<1>10. SealedLink(e, u, << >>, n + 2, m, s, g \o x)
  BY <1>4, <1>5, <1>6, <1>7, <1>8, <1>9, Zenon DEF SealedLink
<1> QED BY <1>2, <1>4, <1>10 DEF u, x

(* What was got of sealed items is the beginning of what was sent.         *)
LEMMA SealedPrefix ==
  ASSUME NEW e, NEW w, NEW a, NEW n, NEW m, NEW s, NEW g \in Seq(Nat), SealedLink(e, w, a, n, m, s, g)
  PROVE  IsPrefix(g, s) /\ s \in Seq(Nat)
<1>1. PICK f \in Seq(Nat) : s = g \o f
  BY DEF SealedLink
<1>2. s \in Seq(Nat) /\ Len(g) <= Len(s) /\ SubSeq(s, 1, Len(g)) = g
  BY <1>1, Halves
<1> QED BY <1>2, SMT DEF IsPrefix

(* The three parts of x, y and z in a row, the last of length 2.           *)
LEMMA Framed ==
  ASSUME NEW x \in Seq(Nat), NEW y \in Seq(Nat), NEW z \in Seq(Nat), Len(z) = 2
  PROVE  /\ SubSeq((x \o y) \o z, Len(x) + 1, Len(x) + Len(y)) = y
         /\ SubSeq((x \o y) \o z, Len((x \o y) \o z) - 1, Len((x \o y) \o z)) = z
         /\ \A i \in 1 .. Len(x) : ((x \o y) \o z)[i] = x[i]
<1> DEFINE c == x \o y
           b == c \o z
<1>1. c \in Seq(Nat) /\ Len(c) = Len(x) + Len(y) /\ Len(x) \in Nat /\ Len(y) \in Nat
  OBVIOUS
<1>2. \A i \in 1 .. Len(x) : c[i] = x[i]
  OBVIOUS
<1>3. SubSeq(c, Len(x) + 1, Len(x) + Len(y)) = y
  BY <1>1, Halves
<1> HIDE DEF c
<1>4. b \in Seq(Nat) /\ Len(b) = Len(c) + 2 /\ SubSeq(b, Len(c) + 1, Len(b)) = z
  <2>1. c \o z \in Seq(Nat) /\ Len(c \o z) = Len(c) + Len(z) /\ SubSeq(c \o z, Len(c) + 1, Len(c \o z)) = z
    BY <1>1, Halves, Zenon
  <2> HIDE DEF b
  <2>2. b = c \o z
    BY DEF b
  <2> QED BY <2>1, <2>2
<1>5. SubSeq(b, Len(x) + 1, Len(c)) = SubSeq(c, Len(x) + 1, Len(c))
  <2>1. Len(x) \in 0 .. Len(c) /\ Len(c) \in 0 .. Len(c) /\ Len(x) <= Len(c)
    BY <1>1
  <2> QED BY <1>1, <2>1, PartOfFirst
<1>6. \A i \in 1 .. Len(x) : b[i] = x[i]
  <2> TAKE i \in 1 .. Len(x)
  <2>1. i \in 1 .. Len(c)
    BY <1>1
  <2> QED BY <1>1, <1>2, <2>1, AtFirst
<1> HIDE DEF b
<1>7. Len(c) + 1 = Len(b) - 1
  BY <1>1, <1>4
<1> QED BY <1>1, <1>3, <1>4, <1>5, <1>6, <1>7 DEF b, c

(* What the server end makes of a destination whose bytes are head, a and  *)
(* port, by the type in the first one.                                     *)
LEMMA Parsed ==
  ASSUME NEW x \in Seq(Nat), NEW a \in Seq(Nat), NEW p \in Seq(Nat), Len(p) = 2
  PROVE  LET b == (x \o a) \o p
         IN  /\ Len(x) = 1 /\ x[1] = AtypIPv4 /\ Len(a) = 4 =>
                  SsDest(b) = [type |-> "ip4", addr |-> a, port |-> p]
             /\ Len(x) = 1 /\ x[1] = AtypIPv6 /\ Len(a) = 16 =>
                  SsDest(b) = [type |-> "ip6", addr |-> a, port |-> p]
             /\ Len(x) = 2 /\ x[1] = AtypDomain /\ x[2] = Len(a) =>
                  SsDest(b) = [type |-> "domain", addr |-> a, port |-> p]
<1> DEFINE b == (x \o a) \o p
           k == Len(x)
           l == Len(a)
<1>1. /\ SubSeq(b, k + 1, k + l) = a /\ SubSeq(b, Len(b) - 1, Len(b)) = p
      /\ \A i \in 1 .. k : b[i] = x[i]
  <2> HIDE DEF b, k, l
  <2>1. /\ SubSeq((x \o a) \o p, Len(x) + 1, Len(x) + Len(a)) = a
        /\ SubSeq((x \o a) \o p, Len((x \o a) \o p) - 1, Len((x \o a) \o p)) = p
        /\ \A i \in 1 .. Len(x) : ((x \o a) \o p)[i] = x[i]
    BY Framed, Zenon
  <2> QED BY <2>1 DEF b, k, l
<1>2. k \in Nat /\ l \in Nat
  OBVIOUS
<1> HIDE DEF b
<1>3. ASSUME k = 1, x[1] = AtypIPv4, l = 4
      PROVE  SsDest(b) = [type |-> "ip4", addr |-> a, port |-> p]
  <2> HIDE DEF k, l
  <2>1. SubSeq(b, 2, 5) = a /\ b[1] = AtypIPv4
    BY <1>1, <1>3
  <2>2. AtypIPv4 # AtypDomain /\ AtypIPv4 # AtypIPv6 /\ AtypDomain # AtypIPv6
    BY DEF AtypIPv4, AtypIPv6, AtypDomain
  <2>3. /\ (CASE b[1] = AtypDomain -> "domain" [] b[1] = AtypIPv4 -> "ip4" [] b[1] = AtypIPv6 -> "ip6") = "ip4"
        /\ (CASE b[1] = AtypDomain -> SubSeq(b, 3, b[2] + 2)
              [] b[1] = AtypIPv4   -> SubSeq(b, 2, 5)
              [] b[1] = AtypIPv6   -> SubSeq(b, 2, 17)) = SubSeq(b, 2, 5)
    BY <2>1, <2>2
  <2> QED BY <1>1, <2>1, <2>3 DEF SsDest
<1>4. ASSUME k = 1, x[1] = AtypIPv6, l = 16
      PROVE  SsDest(b) = [type |-> "ip6", addr |-> a, port |-> p]
  <2> HIDE DEF k, l
  <2>1. SubSeq(b, 2, 17) = a /\ b[1] = AtypIPv6
    BY <1>1, <1>4, SMTT(20)
  <2>2. AtypIPv4 # AtypDomain /\ AtypIPv4 # AtypIPv6 /\ AtypDomain # AtypIPv6
    BY DEF AtypIPv4, AtypIPv6, AtypDomain
  <2>3. /\ (CASE b[1] = AtypDomain -> "domain" [] b[1] = AtypIPv4 -> "ip4" [] b[1] = AtypIPv6 -> "ip6") = "ip6"
        /\ (CASE b[1] = AtypDomain -> SubSeq(b, 3, b[2] + 2)
              [] b[1] = AtypIPv4   -> SubSeq(b, 2, 5)
              [] b[1] = AtypIPv6   -> SubSeq(b, 2, 17)) = SubSeq(b, 2, 17)
    BY <2>1, <2>2
  <2> QED BY <1>1, <2>1, <2>3 DEF SsDest
<1>5. ASSUME k = 2, x[1] = AtypDomain, x[2] = l
      PROVE  SsDest(b) = [type |-> "domain", addr |-> a, port |-> p]
  <2> HIDE DEF k, l
  <2>1. SubSeq(b, 3, 2 + l) = a /\ b[1] = AtypDomain /\ b[2] = l /\ 2 + l = l + 2
    BY <1>1, <1>2, <1>5
  <2>2. AtypIPv4 # AtypDomain /\ AtypIPv4 # AtypIPv6 /\ AtypDomain # AtypIPv6
    BY DEF AtypIPv4, AtypIPv6, AtypDomain
  <2>3. /\ (CASE b[1] = AtypDomain -> "domain" [] b[1] = AtypIPv4 -> "ip4" [] b[1] = AtypIPv6 -> "ip6") = "domain"
        /\ (CASE b[1] = AtypDomain -> SubSeq(b, 3, b[2] + 2)
              [] b[1] = AtypIPv4   -> SubSeq(b, 2, 5)
              [] b[1] = AtypIPv6   -> SubSeq(b, 2, 17)) = SubSeq(b, 3, b[2] + 2)
    BY <2>1, <2>2
  <2>4. SubSeq(b, 3, b[2] + 2) = a
    BY <2>1
  <2> QED BY <1>1, <2>3, <2>4 DEF SsDest
<1> QED BY <1>3, <1>4, <1>5 DEF b, k, l

(* The last byte of a number.                                              *)
LEMMA LastByte ==
  ASSUME NEW n \in Nat
  PROVE  n % 256 \in Nat /\ (n < 256 => n % 256 = n)
OBVIOUS

(* What the client end writes of a destination are bytes.                  *)
LEMMA SsRequested ==
  ASSUME want \in Dests
  PROVE  SsRequest(want) \in Seq(Nat)
<1> DEFINE a == want.addr
           p == want.port
           l == Len(a) % 256
<1>1. a \in Seq(Nat) /\ p \in Seq(Nat) /\ Len(a) \in Nat
      /\ want.type \in {"ip4", "ip4in6", "ip6", "domain"}
  BY Wants
<1>2. l \in Nat
  BY <1>1, LastByte
<1>3. SsRequest(want) \in {(<<AtypDomain, l>> \o a) \o p, (<<AtypIPv6>> \o a) \o p,
                          (<<AtypIPv4>> \o a) \o p}
  BY <1>1 DEF SsRequest
<1> HIDE DEF a, p, l
<1>4. <<AtypDomain, l>> \in Seq(Nat) /\ <<AtypIPv6>> \in Seq(Nat) /\ <<AtypIPv4>> \in Seq(Nat)
  BY <1>2 DEF AtypDomain, AtypIPv6, AtypIPv4
<1>5. ASSUME NEW x \in Seq(Nat) PROVE (x \o a) \o p \in Seq(Nat)
  BY <1>1
<1> QED BY <1>3, <1>4, <1>5

(* The length of a domain fits the one byte that is sent.                  *)
Short(d) == d.type = "domain" => Len(d.addr) < 256

(* A destination comes out as it was put in.                               *)
LEMMA SsRoundTrip ==
  ASSUME want \in Dests, Short(want)
  PROVE  SsRequest(want) \in Seq(Nat) /\ SsDest(SsRequest(want)) = Plain(want)
<1> DEFINE a == want.addr
           p == want.port
           t == want.type
<1>1. /\ a \in Seq(Nat) /\ p \in Seq(Nat) /\ Len(p) = 2 /\ want = [type |-> t, addr |-> a, port |-> p]
      /\ t \in {"ip4", "ip4in6", "ip6", "domain"}
      /\ (t \in {"ip4", "ip4in6"} => Len(a) = 4) /\ (t = "ip6" => Len(a) = 16)
  BY Wants
<1>2. Len(a) \in Nat /\ (t = "domain" => Len(a) % 256 = Len(a))
  BY <1>1, LastByte DEF Short
<1>3. /\ t = "domain" => SsRequest(want) = (<<AtypDomain, Len(a)>> \o a) \o p
      /\ t = "ip6" => SsRequest(want) = (<<AtypIPv6>> \o a) \o p
      /\ t \in {"ip4", "ip4in6"} => SsRequest(want) = (<<AtypIPv4>> \o a) \o p
  BY <1>2 DEF SsRequest
<1> DEFINE l == Len(a)
<1> HIDE DEF l
<1>4. <<AtypDomain, l>> \in Seq(Nat) /\ <<AtypIPv6>> \in Seq(Nat) /\ <<AtypIPv4>> \in Seq(Nat)
      /\ Len(<<AtypDomain, l>>) = 2 /\ Len(<<AtypIPv6>>) = 1 /\ Len(<<AtypIPv4>>) = 1
      /\ <<AtypDomain, l>>[1] = AtypDomain /\ <<AtypDomain, l>>[2] = l
      /\ <<AtypIPv6>>[1] = AtypIPv6 /\ <<AtypIPv4>>[1] = AtypIPv4
  BY <1>2 DEF AtypDomain, AtypIPv6, AtypIPv4, l
<1> HIDE DEF a, p, t
<1>5. CASE t = "domain"
  <2> DEFINE x == <<AtypDomain, l>>
  <2>1. x \in Seq(Nat) /\ Len(x) = 2 /\ x[1] = AtypDomain /\ x[2] = Len(a)
    BY <1>4 DEF l
  <2>5. SsRequest(want) = (x \o a) \o p
    BY <1>3, <1>5 DEF l
  <2> HIDE DEF x
  <2>2. (x \o a) \o p \in Seq(Nat)
    BY <1>1, <2>1
  <2>3. SsDest((x \o a) \o p) = [type |-> "domain", addr |-> a, port |-> p]
    BY <1>1, <2>1, Parsed
  <2>4. Plain(want) = want
    BY <1>1, <1>5 DEF Plain, t
  <2> QED BY <1>1, <1>5, <2>2, <2>3, <2>4, <2>5
<1>6. CASE t = "ip6"
  <2> DEFINE x == <<AtypIPv6>>
  <2>1. x \in Seq(Nat) /\ Len(x) = 1 /\ x[1] = AtypIPv6 /\ Len(a) = 16
    BY <1>1, <1>4, <1>6
  <2>5. SsRequest(want) = (x \o a) \o p
    BY <1>3, <1>6
  <2> HIDE DEF x
  <2>2. (x \o a) \o p \in Seq(Nat)
    BY <1>1, <2>1
  <2>3. SsDest((x \o a) \o p) = [type |-> "ip6", addr |-> a, port |-> p]
    BY <1>1, <2>1, Parsed
  <2>4. Plain(want) = want
    BY <1>1, <1>6 DEF Plain, t
  <2> QED BY <1>1, <1>6, <2>2, <2>3, <2>4, <2>5
<1>7. CASE t \in {"ip4", "ip4in6"}
  <2> DEFINE x == <<AtypIPv4>>
  <2>1. x \in Seq(Nat) /\ Len(x) = 1 /\ x[1] = AtypIPv4 /\ Len(a) = 4
    BY <1>1, <1>4, <1>7
  <2>5. SsRequest(want) = (x \o a) \o p
    BY <1>3, <1>7
  <2> HIDE DEF x
  <2>2. (x \o a) \o p \in Seq(Nat)
    BY <1>1, <2>1
  <2>3. SsDest((x \o a) \o p) = [type |-> "ip4", addr |-> a, port |-> p]
    BY <1>1, <2>1, Parsed
  <2>4. Plain(want) = [type |-> "ip4", addr |-> a, port |-> p]
    <3>1. CASE t = "ip4"
      BY <1>1, <3>1 DEF Plain, t
    <3>2. CASE t = "ip4in6"
      <4>1. Plain(want) = [want EXCEPT !.type = "ip4"]
        BY <3>2 DEF Plain, t
      <4> QED BY <1>1, <4>1
    <3> QED BY <1>7, <3>1, <3>2
  <2> QED BY <2>2, <2>3, <2>4, <2>5
<1> QED BY <1>1, <1>5, <1>6, <1>7

(* A salt is KeySize items of its end.                                     *)
LEMMA Salted ==
  ASSUME NEW e \in End
  PROVE  /\ Salt(e) \in Seq(Sealed) /\ Len(Salt(e)) = KeySize /\ Salt(e)[1].salt = e
         /\ KeySize \in Nat \ {0}
<1>1. KeySize \in Nat \ {0}
  BY ProxyStreamAssumption
<1> DEFINE r == [salt |-> e, nonce |-> Absent, data |-> << >>]
<1>2. r \in Sealed /\ r.salt = e
  <2>1. << >> \in Seq(Nat)
    OBVIOUS
  <2> QED BY <2>1 DEF Sealed
<1> HIDE DEF r
<1>3. Salt(e) = [i \in 1 .. KeySize |-> r]
  BY DEF Salt, r
<1> QED BY <1>1, <1>2, <1>3

(* The chunk with the destination, the first under the client end's salt.  *)
LEMMA MetaTyped ==
  ASSUME want \in Dests
  PROVE  /\ Meta(want) \in Seq(Sealed) /\ Len(Meta(want)) = 2
         /\ Meta(want)[1].salt = "client" /\ Meta(want)[1].nonce = 0
         /\ Meta(want)[2].salt = "client" /\ Meta(want)[2].nonce = 1
         /\ Meta(want)[2].data = SsRequest(want)
<1> DEFINE q == SsRequest(want)
           x == Seal("client", 0, <<Len(q)>>)
           y == Seal("client", 1, q)
<1>1. q \in Seq(Nat)
  BY SsRequested
<1>2. <<Len(q)>> \in Seq(Nat)
  BY <1>1
<1> HIDE DEF q
<1>3. x \in Sealed /\ y \in Sealed /\ x.salt = "client" /\ x.nonce = 0
      /\ y.salt = "client" /\ y.nonce = 1 /\ y.data = q
  BY <1>1, <1>2, TwoEnds DEF Seal, Sealed
<1> HIDE DEF x, y
<1>4. Meta(want) = <<x, y>>
  BY DEF Meta, x, y, q
<1> QED BY <1>3, <1>4 DEF q

(* Nothing comes to an end whose peer has sent no salt.                    *)
LEMMA SealedComes ==
  ASSUME NEW e \in End, NEW n \in Nat, NEW g \in Seq(Nat),
         SealedLink(Peer(e), wire[Peer(e)], << >>, n, n, << >>, g), NEW k \in Nat \ {0}, NEW b \in Reads(e, k)
  PROVE  FALSE
<1>1. PICK v \in Seq(Sealed), f \in Seq(Nat) : wire[Peer(e)] = << >> \o v /\ n = n + Len(v)
  BY DEF SealedLink
<1>2. wire[Peer(e)] = << >>
  BY <1>1
<1>3. PICK i \in 1 .. Min({k, 0}) : TRUE
  BY <1>2 DEF Reads
<1>4. Min({k, 0}) = 0
  BY MinTwo, 0 \in Nat
<1> QED BY <1>3, <1>4

(* An end reads the salt of the other.                                     *)
LEMMA SaltRead ==
  ASSUME NEW e \in End, wire \in [End -> Seq(Sealed)], NEW y \in Seq(Sealed), NEW n, NEW m, NEW s, NEW g,
         SealedLink(Peer(e), wire[Peer(e)], Salt(Peer(e)) \o y, n, m, s, g), ReadSalt(e), ~torn',
         DOMAIN dec = End
  PROVE  /\ ~torn /\ wire'[e] = wire[e] /\ wire' \in [End -> Seq(Sealed)]
         /\ SealedLink(Peer(e), wire'[Peer(e)], y, n, m, s, g)
         /\ DOMAIN dec' = End /\ dec'[Peer(e)] = dec[Peer(e)]
         /\ dec'[e] \in [salt : {Peer(e)}, nonce : Nat] /\ dec'[e].nonce = 0
<1> DEFINE o == Peer(e)
           w == wire[o]
           x == Salt(o)
<1>1. o \in End /\ o # e /\ w \in Seq(Sealed) /\ wire[e] \in Seq(Sealed)
  BY TwoEnds
<1>2. x \in Seq(Sealed) /\ Len(x) = KeySize /\ x[1].salt = o /\ KeySize \in Nat \ {0}
  BY <1>1, Salted
<1>3. PICK b \in Reads(e, KeySize) :
        /\ Exchange(e, KeySize, b, << >>)
        /\ dec' = [dec EXCEPT ![e] = [salt |-> IF Len(b) = KeySize THEN b[1].salt ELSE Absent, nonce |-> 0]]
  BY DEF ReadSalt
<1>4. ~torn /\ ~(Len(b) < KeySize) /\ Carries(e, b, << >>)
  BY <1>3 DEF Exchange
<1>5. b = SubSeq(w, 1, KeySize) /\ Len(b) = KeySize
  BY <1>1, <1>2, <1>4, WholeRead
<1> HIDE DEF x
<1>6. SubSeq(w, 1, Len(x)) = x /\ SealedLink(o, SubSeq(w, Len(x) + 1, Len(w)), y, n, m, s, g)
  BY <1>2, SealedTake, SMTT(20) DEF x
<1>7. dec' = [dec EXCEPT ![e] = [salt |-> o, nonce |-> 0]]
  BY <1>2, <1>3, <1>5, <1>6
<1>8. SubSeq(w, Len(x) + 1, Len(w)) \in Seq(Sealed)
  <2>1. KeySize + 1 \in 1 .. Len(w) + 1
    <3>1. Len(b) <= Len(w)
      BY <1>1, <1>2, <1>4, <1>5, WholeRead
    <3> QED BY <1>1, <1>2, <1>5, <3>1
  <2> QED BY <1>1, <1>2, <2>1
<1>9. wire[e] \o << >> = wire[e]
  BY <1>1, SealedNothing
<1>10. wire' = [wire EXCEPT ![o] = SubSeq(w, Len(x) + 1, Len(w)), ![e] = wire[e]]
  BY <1>1, <1>2, <1>4, <1>5, <1>9 DEF Carries
<1> HIDE DEF w, o
<1>11. wire'[e] = wire[e] /\ wire'[o] = SubSeq(w, Len(x) + 1, Len(w)) /\ wire' \in [End -> Seq(Sealed)]
  BY <1>1, <1>8, <1>10
<1>12. /\ DOMAIN dec' = End /\ dec'[o] = dec[o]
       /\ dec'[e] \in [salt : {o}, nonce : Nat] /\ dec'[e].nonce = 0
  BY <1>1, <1>7
<1> QED BY <1>4, <1>6, <1>11, <1>12 DEF o

(* What the invariant says of the variables.                               *)
LEMMA ShadowParts ==
  ASSUME ShadowInv
  PROVE  /\ End = {"client", "server"} /\ Peer("server") = "client" /\ Peer("client") = "server"
         /\ wire \in [End -> Seq(Sealed)] /\ enc \in [End -> Nat] /\ DOMAIN dec = End
         /\ \A e \in End : got[e] \in Seq(Nat) /\ sent[e] \in Seq(Nat) /\ enc[e] \in Nat
         /\ cpc # "up" => sent["client"] = << >>
         /\ spc # "up" => sent["server"] = << >>
         /\ \/ cpc = "start" /\ spc = "salt" /\ enc["client"] = 0
            \/ cpc = "up" /\ spc \in {"salt", "meta", "up"}
         /\ spc # "up" => enc["server"] = 0
         /\ dec["client"] # Absent => cpc = "up" /\ spc = "up" /\ dec["client"] \in [salt : {"server"}, nonce : Nat]
         /\ spc # "salt" => dec["server"] \in [salt : {"client"}, nonce : Nat]
BY TwoEnds DEF ShadowInv, Carrying, Silent

(* The client end sends its salt and the destination.                      *)
LEMMA SsGreetsKeeps ==
  ASSUME ShadowInv, want \in Dests, SsGreets
  PROVE  torn' = torn /\ ShadowInv'
<1> DEFINE u == Salt("client") \o Meta(want)
<1>1. cpc = "start" /\ cpc' = "up" /\ spc = "salt" /\ enc["client"] = 0 /\ sent["client"] = << >>
      /\ enc["server"] = 0 /\ dec["client"] = Absent
  BY ShadowParts DEF SsGreets
<1>2. UNCHANGED <<kind, want, spc, cbuf, sbuf, dest, dec, sent, got, torn>>
  BY DEF SsGreets
<1>3. Carries("client", << >>, u) /\ enc' = [enc EXCEPT !["client"] = @ + 2]
  BY DEF SsGreets, Encrypts, Meta
<1>4. u \in Seq(Sealed)
  BY Salted, TwoEnds, MetaTyped
<1> HIDE DEF u
<1>5. /\ wire'["client"] = wire["client"] \o u /\ wire'["server"] = wire["server"]
      /\ wire' \in [End -> Seq(Sealed)]
  <2>1. "client" \in End /\ wire \in [End -> Seq(Sealed)] /\ Peer("client") = "server"
    BY ShadowParts
  <2> QED BY <1>3, <1>4, <2>1, Writes
<1>6. enc' \in [End -> Nat] /\ enc'["client"] = 2 /\ enc'["server"] = enc["server"]
  BY <1>1, <1>3, ShadowParts
<1>7. SealedLink("client", wire["client"], << >>, 0, 0, << >>, got["server"])
  BY <1>1 DEF ShadowInv, SaltedToServer
<1>8. SealedLink("client", wire["client"] \o u, u, 2, 2, << >>, got["server"])
  <2>1. got["server"] \in Seq(Nat) /\ 0 \in Nat /\ 2 \in Nat
    BY ShadowParts
  <2> QED BY <1>4, <1>7, <2>1, SealedStart
<1>9. SealedLink("client", wire'["client"], SaltedToServer(cpc', spc', want'), 2, enc'["client"], sent'["client"], got'["server"])
  <2>1. SaltedToServer(cpc', spc', want') = u
    BY <1>1, <1>2 DEF SaltedToServer, u
  <2> QED BY <1>1, <1>2, <1>5, <1>6, <1>8, <2>1
<1>10. SealedLink("server", wire'["server"], << >>, 0, enc'["server"], sent'["server"], got'["client"])
  BY <1>1, <1>2, <1>5, <1>6 DEF ShadowInv
<1>11. Carrying' /\ Silent' /\ DOMAIN dec' = End
  BY <1>1, <1>2, ShadowParts DEF ShadowInv, Carrying, Silent
<1> QED BY <1>1, <1>2, <1>5, <1>6, <1>9, <1>10, <1>11 DEF ShadowInv

(* The server end reads the salt.                                          *)
LEMMA SsSaltKeeps ==
  ASSUME ShadowInv, want \in Dests, SsSalt, ~torn'
  PROVE  ~torn /\ ShadowInv'
<1>1. spc = "salt" /\ spc' = "meta" /\ ReadSalt("server") /\ enc["server"] = 0 /\ dec["client"] = Absent
  BY ShadowParts DEF SsSalt
<1>2. UNCHANGED <<kind, want, cpc, cbuf, sbuf, dest, enc, sent, got>>
  BY <1>1 DEF ReadSalt
<1>3. cpc = "up"
  <2> SUFFICES ASSUME cpc # "up" PROVE FALSE
    OBVIOUS
  <2>1. cpc = "start" /\ enc["client"] = 0 /\ sent["client"] = << >> /\ got["server"] \in Seq(Nat)
        /\ "server" \in End /\ 0 \in Nat /\ Peer("server") = "client"
    BY ShadowParts
  <2>2. SealedLink(Peer("server"), wire[Peer("server")], << >>, 0, 0, << >>, got["server"])
    BY <2>1 DEF ShadowInv, SaltedToServer
  <2>3. PICK b \in Reads("server", KeySize) : TRUE
    BY <1>1 DEF ReadSalt
  <2>4. KeySize \in Nat \ {0}
    BY ProxyStreamAssumption
  <2> QED BY <2>1, <2>2, <2>3, <2>4, SealedComes
<1> DEFINE y == Meta(want)
<1>4. y \in Seq(Sealed) /\ "server" \in End /\ wire \in [End -> Seq(Sealed)] /\ Peer("server") = "client"
  BY MetaTyped, ShadowParts
<1>5. SealedLink("client", wire["client"], Salt("client") \o y, 2, enc["client"], sent["client"], got["server"])
  BY <1>1, <1>3 DEF ShadowInv, SaltedToServer
<1> HIDE DEF y
<1>6. /\ ~torn /\ wire'["server"] = wire["server"] /\ wire' \in [End -> Seq(Sealed)]
      /\ SealedLink("client", wire'["client"], y, 2, enc["client"], sent["client"], got["server"])
      /\ DOMAIN dec' = End /\ dec'["client"] = Absent
      /\ dec'["server"] \in [salt : {"client"}, nonce : Nat] /\ dec'["server"].nonce = 0
  <2>1. SealedLink(Peer("server"), wire[Peer("server")], Salt(Peer("server")) \o y, 2, enc["client"], sent["client"], got["server"])
    BY <1>4, <1>5
  <2>2. DOMAIN dec = End
    BY ShadowParts
  <2>3. /\ ~torn /\ wire'["server"] = wire["server"] /\ wire' \in [End -> Seq(Sealed)]
        /\ SealedLink(Peer("server"), wire'[Peer("server")], y, 2, enc["client"], sent["client"], got["server"])
        /\ DOMAIN dec' = End /\ dec'[Peer("server")] = dec[Peer("server")]
        /\ dec'["server"] \in [salt : {Peer("server")}, nonce : Nat] /\ dec'["server"].nonce = 0
    BY <1>1, <1>4, <2>1, <2>2, SaltRead
  <2> QED BY <1>1, <1>4, <2>3
<1>8. SealedLink("client", wire'["client"], SaltedToServer(cpc', spc', want'), 2, enc'["client"], sent'["client"], got'["server"])
  BY <1>1, <1>2, <1>3, <1>6 DEF SaltedToServer, y
<1>9. SealedLink("server", wire'["server"], << >>, 0, enc'["server"], sent'["server"], got'["client"])
  BY <1>1, <1>2, <1>6 DEF ShadowInv
<1>10. Carrying' /\ Silent' /\ enc' \in [End -> Nat]
  BY <1>1, <1>2, ShadowParts DEF ShadowInv, Carrying, Silent
<1> QED BY <1>1, <1>2, <1>3, <1>6, <1>8, <1>9, <1>10 DEF ShadowInv

(* The client end, at its first read, reads the server end's salt.         *)
LEMMA LateSaltKeeps ==
  ASSUME ShadowInv, LateSalt, ~torn'
  PROVE  ~torn /\ ShadowInv'
<1>1. cpc = "up" /\ dec["client"] = Absent /\ ReadSalt("client") /\ spc' = spc
  BY DEF LateSalt
<1>2. UNCHANGED <<kind, want, cpc, cbuf, sbuf, dest, enc, sent, got>>
  BY <1>1 DEF ReadSalt
<1>3. spc = "up"
  <2> SUFFICES ASSUME spc # "up" PROVE FALSE
    OBVIOUS
  <2>1. enc["server"] = 0 /\ sent["server"] = << >> /\ got["client"] \in Seq(Nat)
        /\ "client" \in End /\ 0 \in Nat /\ Peer("client") = "server"
    BY ShadowParts
  <2>2. SealedLink(Peer("client"), wire[Peer("client")], << >>, 0, 0, << >>, got["client"])
    BY <1>1, <2>1 DEF ShadowInv
  <2>3. PICK b \in Reads("client", KeySize) : TRUE
    BY <1>1 DEF ReadSalt
  <2>4. KeySize \in Nat \ {0}
    BY ProxyStreamAssumption
  <2> QED BY <2>1, <2>2, <2>3, <2>4, SealedComes
<1>4. "client" \in End /\ wire \in [End -> Seq(Sealed)] /\ Peer("client") = "server" /\ DOMAIN dec = End
      /\ << >> \in Seq(Sealed) /\ Salt("server") \o << >> = Salt("server")
  BY ShadowParts, Salted, SealedNothing
<1>5. SealedLink("server", wire["server"], Salt("server") \o << >>, 0, enc["server"], sent["server"], got["client"])
  <2>1. SealedLink("server", wire["server"], Salt("server"), 0, enc["server"], sent["server"], got["client"])
    BY <1>1, <1>3 DEF ShadowInv
  <2> QED BY <1>4, <2>1, Zenon
<1>6. /\ ~torn /\ wire'["client"] = wire["client"] /\ wire' \in [End -> Seq(Sealed)]
      /\ SealedLink("server", wire'["server"], << >>, 0, enc["server"], sent["server"], got["client"])
      /\ DOMAIN dec' = End /\ dec'["server"] = dec["server"]
      /\ dec'["client"] \in [salt : {"server"}, nonce : Nat] /\ dec'["client"].nonce = 0
  <2>1. SealedLink(Peer("client"), wire[Peer("client")], Salt(Peer("client")) \o << >>, 0, enc["server"], sent["server"], got["client"])
    BY <1>4, <1>5, Zenon
  <2>3. /\ ~torn /\ wire'["client"] = wire["client"] /\ wire' \in [End -> Seq(Sealed)]
        /\ SealedLink(Peer("client"), wire'[Peer("client")], << >>, 0, enc["server"], sent["server"], got["client"])
        /\ DOMAIN dec' = End /\ dec'[Peer("client")] = dec[Peer("client")]
        /\ dec'["client"] \in [salt : {Peer("client")}, nonce : Nat] /\ dec'["client"].nonce = 0
    BY <1>1, <1>4, <2>1, SaltRead
  <2> QED BY <1>4, <2>3
<1>7. dec'["client"] # Absent
  <2>1. dec'["client"] \in [salt : {"client", "server", Absent}, nonce : Nat]
    BY <1>6
  <2> QED BY <2>1, AbsentAssumption
<1>8. SealedLink("client", wire'["client"], SaltedToServer(cpc', spc', want'), dec'["server"].nonce, enc'["client"], sent'["client"], got'["server"])
  BY <1>1, <1>2, <1>3, <1>6 DEF ShadowInv
<1>9. Carrying' /\ Silent' /\ enc' \in [End -> Nat] /\ dest' = Plain(want')
      /\ dec'["server"] \in [salt : {"client"}, nonce : Nat]
  BY <1>1, <1>2, <1>3, <1>6, ShadowParts DEF ShadowInv, Carrying, Silent
<1> QED BY <1>1, <1>2, <1>3, <1>6, <1>7, <1>8, <1>9 DEF ShadowInv

(* A chunk takes two nonces.                                               *)
LEMMA NonceOn ==
  ASSUME NEW e, NEW r \in [salt : {e}, nonce : Nat]
  PROVE  /\ [r EXCEPT !.nonce = r.nonce + 2] \in [salt : {e}, nonce : Nat]
         /\ [r EXCEPT !.nonce = r.nonce + 2].nonce = r.nonce + 2
OBVIOUS

(* The server end opens the chunk with the destination and sends its salt. *)
LEMMA SsServesKeeps ==
  ASSUME ShadowInv, want \in Dests, Short(want), SsServes
  PROVE  torn' = torn /\ ShadowInv'
<1> DEFINE x == Meta(want)
           w == wire["client"]
<1>1. /\ spc = "meta" /\ cpc = "up" /\ dec["client"] = Absent /\ enc["server"] = 0 /\ sent["server"] = << >>
      /\ dec["server"] \in [salt : {"client"}, nonce : Nat]
  BY ShadowParts DEF SsServes
<1>2. dec["server"].nonce = 0
  BY <1>1 DEF ShadowInv
<1>3. UNCHANGED <<kind, want, cpc, cbuf, sbuf, enc, sent, got, torn>>
  BY DEF SsServes
<1>4. x \in Seq(Sealed) /\ Len(x) = 2 /\ x[1].salt = "client" /\ x[1].nonce = 0
      /\ x[2].salt = "client" /\ x[2].nonce = 1 /\ x[2].data = SsRequest(want)
  BY MetaTyped
<1> HIDE DEF x
<1>5. w \in Seq(Sealed) /\ SubSeq(w, 1, 2) = x
      /\ SealedLink("client", SubSeq(w, 3, Len(w)), << >>, 2, enc["client"], sent["client"], got["server"])
  <2>1. SealedLink("client", w, x, 2, enc["client"], sent["client"], got["server"])
    BY <1>1 DEF ShadowInv, SaltedToServer, x
  <2>2. x \o << >> = x /\ << >> \in Seq(Sealed)
    BY <1>4, SealedNothing
  <2>3. SealedLink("client", w, x \o << >>, 2, enc["client"], sent["client"], got["server"])
    BY <2>1, <2>2, Zenon
  <2>4. w \in Seq(Sealed) /\ SubSeq(w, 1, Len(x)) = x
        /\ SealedLink("client", SubSeq(w, Len(x) + 1, Len(w)), << >>, 2, enc["client"], sent["client"], got["server"])
    BY <1>4, <2>2, <2>3, SealedTake
  <2> QED BY <1>4, <2>4
<1>6. NextChunk("server") = x
  <2>1. Peer("server") = "client"
    BY ShadowParts
  <2> QED BY <1>5, <2>1 DEF NextChunk
<1>7. Opens("server")
  BY <1>1, <1>2, <1>4, <1>6 DEF Opens
<1>8. /\ dest' = SsDest(SsRequest(want)) /\ Carries("server", x, Salt("server")) /\ spc' = "up"
      /\ dec' = [dec EXCEPT !["server"].nonce = @ + 2]
  BY <1>4, <1>6, <1>7 DEF SsServes, Decrypts
<1>9. dest' = Plain(want)
  BY <1>8, SsRoundTrip
<1>10. DOMAIN dec' = End /\ dec'["client"] = Absent
       /\ dec'["server"] \in [salt : {"client"}, nonce : Nat] /\ dec'["server"].nonce = 2
  <2> DEFINE r == dec["server"]
  <2>1. DOMAIN dec = {"client", "server"}
    BY ShadowParts
  <2>2. DOMAIN dec' = DOMAIN dec /\ dec'["client"] = dec["client"]
        /\ dec'["server"] = [r EXCEPT !.nonce = r.nonce + 2]
    BY <1>8, <2>1
  <2>3. r \in [salt : {"client"}, nonce : Nat] /\ r.nonce = 0
    BY <1>1, <1>2
  <2> HIDE DEF r
  <2>4. [r EXCEPT !.nonce = r.nonce + 2] \in [salt : {"client"}, nonce : Nat]
        /\ [r EXCEPT !.nonce = r.nonce + 2].nonce = r.nonce + 2
    BY <2>3, NonceOn
  <2> QED BY <1>1, <2>2, <2>3, <2>4, ShadowParts
<1>11. Salt("server") \in Seq(Sealed) /\ wire["server"] \in Seq(Sealed) /\ wire["server"] \o Salt("server") \in Seq(Sealed)
  BY Salted, ShadowParts
<1>12. /\ wire'["client"] = SubSeq(w, 3, Len(w)) /\ wire'["server"] = wire["server"] \o Salt("server")
       /\ wire' \in [End -> Seq(Sealed)]
  <2>1. SubSeq(w, 3, Len(w)) \in Seq(Sealed)
    BY <1>5 DEF SealedLink
  <2>2. wire' = [wire EXCEPT !["client"] = SubSeq(w, 3, Len(w)), !["server"] = wire["server"] \o Salt("server")]
    <3>1. Peer("server") = "client" /\ Len(x) + 1 = 3
      BY <1>4, ShadowParts
    <3>2. wire' = [wire EXCEPT ![Peer("server")] = SubSeq(wire[Peer("server")], Len(x) + 1, Len(wire[Peer("server")])),
                               !["server"] = wire["server"] \o Salt("server")]
      BY <1>8, ShadowParts, Zenon DEF Carries
    <3> QED BY <3>1, <3>2
  <2> HIDE DEF w
  <2> QED BY <1>11, <2>1, <2>2, ShadowParts
<1>13. SealedLink("client", wire'["client"], SaltedToServer(cpc', spc', want'), dec'["server"].nonce, enc'["client"], sent'["client"], got'["server"])
  BY <1>3, <1>5, <1>8, <1>10, <1>12 DEF SaltedToServer
<1>14. SealedLink("server", wire'["server"], Salt("server"), 0, enc'["server"], sent'["server"], got'["client"])
  <2>1. SealedLink("server", wire["server"], << >>, 0, 0, << >>, got["client"])
    BY <1>1 DEF ShadowInv
  <2>2. got["client"] \in Seq(Nat) /\ 0 \in Nat
    BY ShadowParts
  <2>3. SealedLink("server", wire["server"] \o Salt("server"), Salt("server"), 0, 0, << >>, got["client"])
    BY <1>11, <2>1, <2>2, SealedStart
  <2> QED BY <1>1, <1>3, <1>12, <2>3
<1>15. Carrying' /\ Silent' /\ enc' \in [End -> Nat]
  BY <1>1, <1>3, <1>8, ShadowParts DEF ShadowInv, Carrying, Silent
<1> QED BY <1>1, <1>3, <1>8, <1>9, <1>10, <1>12, <1>13, <1>14, <1>15 DEF ShadowInv

(* An end that is up writes of the stream, in chunks under the next        *)
(* nonces.                                                                 *)
LEMMA WriteKeepsShadow ==
  ASSUME ShadowInv, want \in Dests, kind = "shadowsocks", NEW e \in End, Write(e)
  PROVE  torn' = torn /\ ShadowInv'
<1>1. PICK n \in Blocks : /\ sent' = [sent EXCEPT ![e] = @ \o Wrote(e, n)]
                          /\ Carries(e, << >>, Chunks(e, Wrote(e, n)))
                          /\ Encrypts(e, Len(Chunks(e, Wrote(e, n))))
  BY DEF Write, Wrote
<1> DEFINE d == Wrote(e, n)
           u == Chunks(e, d)
<1>2. d \in Seq(Nat)
  BY WroteTyped DEF ShadowInv
<1> HIDE DEF d
<1>3. u \in Seq(Sealed) /\ Chunked(e, enc[e], u, d) /\ Len(u) \in Nat /\ enc[e] \in Nat
  <2>1. enc[e] \in Nat
    BY ShadowParts
  <2> QED BY <1>2, <2>1, ChunksRight
<1> HIDE DEF u
<1>4. Up(e) /\ UNCHANGED <<kind, want, cpc, spc, cbuf, sbuf, dest, dec, got, torn>>
  BY DEF Write
<1>5. /\ wire'[e] = wire[e] \o u /\ wire'[Peer(e)] = wire[Peer(e)]
      /\ wire' \in [End -> Seq(Sealed)]
  <2>1. wire \in [End -> Seq(Sealed)] /\ Carries(e, << >>, u)
    BY <1>1, ShadowParts DEF u, d
  <2> QED BY <1>3, <2>1, Writes
<1>6. /\ sent'[e] = sent[e] \o d /\ sent'[Peer(e)] = sent[Peer(e)] /\ Carrying'
      /\ enc'[e] = enc[e] + Len(u) /\ enc'[Peer(e)] = enc[Peer(e)] /\ enc' \in [End -> Nat]
  <2>1. sent \in [End -> Seq(Nat)] /\ got \in [End -> Seq(Nat)] /\ sent' = [sent EXCEPT ![e] = sent[e] \o d]
        /\ enc' = [enc EXCEPT ![e] = enc[e] + Len(u)] /\ enc \in [End -> Nat]
        /\ Peer(e) \in End /\ Peer(e) # e
    BY <1>1, TwoEnds DEF ShadowInv, Carrying, Encrypts, d, u
  <2>2. sent[e] \o d \in Seq(Nat)
    BY <1>2, <2>1
  <2>3. enc[e] + Len(u) \in Nat
    BY <1>3
  <2> QED BY <1>4, <2>1, <2>2, <2>3 DEF Carrying
<1>7. CASE e = "client"
  <2>1. cpc = "up" /\ spc \in {"salt", "meta", "up"} /\ got["server"] \in Seq(Nat)
    BY <1>4, <1>7, ShadowParts DEF Up
  <2> DEFINE a == SaltedToServer(cpc, spc, want)
             k == IF cpc = "start" THEN 0 ELSE IF spc = "up" THEN dec["server"].nonce ELSE 2
  <2>2. a \in Seq(Sealed) /\ k \in Nat
    <3>1. k \in Nat
      BY <2>1, ShadowParts
    <3>2. << >> \in Seq(Sealed) /\ Meta(want) \in Seq(Sealed) /\ Salt("client") \o Meta(want) \in Seq(Sealed)
      BY MetaTyped, Salted, TwoEnds
    <3> QED BY <2>1, <3>1, <3>2, Zenon DEF SaltedToServer
  <2>3. SealedLink("client", wire["client"], a, k, enc["client"], sent["client"], got["server"])
    BY DEF ShadowInv
  <2> HIDE DEF a, k
  <2>4. SealedLink("client", wire["client"] \o u, a, k, enc["client"] + Len(u), sent["client"] \o d, got["server"])
    BY <1>2, <1>3, <1>7, <2>1, <2>2, <2>3, SealedWrite
  <2>5. SealedLink("client", wire'["client"], SaltedToServer(cpc', spc', want'),
          IF cpc' = "start" THEN 0 ELSE IF spc' = "up" THEN dec'["server"].nonce ELSE 2,
          enc'["client"], sent'["client"], got'["server"])
    BY <1>4, <1>5, <1>6, <1>7, <2>4 DEF a, k
  <2>6. SealedLink("server", wire'["server"],
          IF spc' = "up" /\ dec'["client"] = Absent THEN Salt("server") ELSE << >>,
          IF dec'["client"] = Absent THEN 0 ELSE dec'["client"].nonce,
          enc'["server"], sent'["server"], got'["client"])
    BY <1>4, <1>5, <1>6, <1>7, TwoEnds DEF ShadowInv
  <2>7. Silent' /\ (spc' # "up" => enc'["server"] = 0)
    BY <1>4, <1>6, <1>7, <2>1, ShadowParts DEF Silent
  <2> QED BY <1>4, <1>5, <1>6, <2>1, <2>5, <2>6, <2>7 DEF ShadowInv
<1>8. CASE e = "server"
  <2>1. spc = "up" /\ cpc = "up" /\ got["client"] \in Seq(Nat)
    BY <1>4, <1>8, ShadowParts DEF Up
  <2> DEFINE a == IF spc = "up" /\ dec["client"] = Absent THEN Salt("server") ELSE << >>
             k == IF dec["client"] = Absent THEN 0 ELSE dec["client"].nonce
  <2>2. a \in Seq(Sealed) /\ k \in Nat
    <3>1. k \in Nat
      BY <2>1, ShadowParts
    <3>2. << >> \in Seq(Sealed) /\ Salt("server") \in Seq(Sealed)
      BY Salted, TwoEnds
    <3> QED BY <2>1, <3>1, <3>2, Zenon
  <2>3. SealedLink("server", wire["server"], a, k, enc["server"], sent["server"], got["client"])
    BY DEF ShadowInv
  <2> HIDE DEF a, k
  <2>4. SealedLink("server", wire["server"] \o u, a, k, enc["server"] + Len(u), sent["server"] \o d, got["client"])
    BY <1>2, <1>3, <1>8, <2>1, <2>2, <2>3, SealedWrite
  <2>5. SealedLink("server", wire'["server"],
          IF spc' = "up" /\ dec'["client"] = Absent THEN Salt("server") ELSE << >>,
          IF dec'["client"] = Absent THEN 0 ELSE dec'["client"].nonce,
          enc'["server"], sent'["server"], got'["client"])
    BY <1>4, <1>5, <1>6, <1>8, <2>4 DEF a, k
  <2>6. SealedLink("client", wire'["client"], SaltedToServer(cpc', spc', want'),
          IF cpc' = "start" THEN 0 ELSE IF spc' = "up" THEN dec'["server"].nonce ELSE 2,
          enc'["client"], sent'["client"], got'["server"])
    BY <1>4, <1>5, <1>6, <1>8, TwoEnds DEF ShadowInv
  <2>7. Silent'
    BY <1>4, <1>6, <1>8, <2>1, ShadowParts DEF Silent
  <2> QED BY <1>4, <1>5, <1>6, <2>1, <2>5, <2>6, <2>7 DEF ShadowInv
<1> QED BY <1>4, <1>7, <1>8, TwoEnds

(* An end that is up opens a chunk.                                        *)
LEMMA ReadKeepsShadow ==
  ASSUME ShadowInv, NEW e \in End, ReadChunk(e)
  PROVE  torn' = torn /\ ShadowInv'
<1> DEFINE o == Peer(e)
           w == wire[o]
           x == w[2].data
           r == dec[e]
<1>1. /\ Up(e) /\ dec[e] # Absent /\ Len(w) >= 2 /\ Carries(e, NextChunk(e), << >>)
      /\ dec' = [dec EXCEPT ![e].nonce = @ + 2] /\ got' = [got EXCEPT ![e] = @ \o NextChunk(e)[2].data]
      /\ UNCHANGED <<kind, want, cpc, spc, cbuf, sbuf, dest, enc, sent, torn>>
  BY DEF ReadChunk, Decrypts
<1>2. /\ o \in End /\ o # e /\ w \in Seq(Sealed) /\ wire[e] \in Seq(Sealed) /\ wire \in [End -> Seq(Sealed)]
      /\ got[e] \in Seq(Nat) /\ got \in [End -> Seq(Nat)] /\ sent \in [End -> Seq(Nat)]
      /\ cpc = "up" /\ spc = "up"
      /\ r \in [salt : {o}, nonce : Nat] /\ DOMAIN dec = End
  <2>1. e = "client" => cpc = "up" /\ spc = "up" /\ dec[e] \in [salt : {"server"}, nonce : Nat]
    BY <1>1, ShadowParts
  <2>2. e = "server" => cpc = "up" /\ spc = "up" /\ dec[e] \in [salt : {"client"}, nonce : Nat]
    BY <1>1, ShadowParts DEF Up
  <2> QED BY <2>1, <2>2, ShadowParts DEF ShadowInv, Carrying
<1>3. SealedLink(o, w, << >>, r.nonce, enc[o], sent[o], got[e])
  <2>1. CASE e = "client"
    BY <1>1, <1>2, <2>1, ShadowParts DEF ShadowInv
  <2>2. CASE e = "server"
    BY <1>1, <1>2, <2>2, ShadowParts DEF ShadowInv, SaltedToServer
  <2> QED BY <2>1, <2>2, TwoEnds
<1>4. x \in Seq(Nat) /\ SealedLink(o, SubSeq(w, 3, Len(w)), << >>, r.nonce + 2, enc[o], sent[o], got[e] \o x)
  <2>1. r.nonce \in Nat
    BY <1>2
  <2> HIDE DEF r
  <2> QED BY <1>1, <1>2, <1>3, <2>1, SealedRead
<1>5. NextChunk(e) \in Seq(Sealed) /\ Len(NextChunk(e)) = 2 /\ NextChunk(e)[2] = w[2]
  <2>1. 2 \in 0 .. Len(w)
    BY <1>1, <1>2
  <2> HIDE DEF w
  <2>2. SubSeq(w, 1, 2) \in Seq(Sealed) /\ Len(SubSeq(w, 1, 2)) = 2 /\ \A i \in 1 .. 2 : SubSeq(w, 1, 2)[i] = w[i]
    BY <1>2, <2>1, Firsts
  <2> QED BY <2>2 DEF NextChunk, w
<1>6. wire'[o] = SubSeq(w, 3, Len(w)) /\ wire'[e] = wire[e] /\ wire' \in [End -> Seq(Sealed)]
  <2>1. wire[e] \o << >> = wire[e]
    BY <1>2, SealedNothing
  <2>2. SubSeq(w, 3, Len(w)) \in Seq(Sealed)
    BY <1>4 DEF SealedLink
  <2>3. wire' = [wire EXCEPT ![o] = SubSeq(w, Len(NextChunk(e)) + 1, Len(w)), ![e] = wire[e] \o << >>]
    BY <1>1, <1>2 DEF Carries
  <2>4. Len(NextChunk(e)) + 1 = 3
    BY <1>5
  <2>5. wire' = [wire EXCEPT ![o] = SubSeq(w, 3, Len(w)), ![e] = wire[e]]
    BY <2>1, <2>3, <2>4
  <2> HIDE DEF w, o
  <2> QED BY <1>2, <2>2, <2>5
<1>7. got'[e] = got[e] \o x /\ got'[o] = got[o] /\ Carrying'
  <2>1. got[e] \o x \in Seq(Nat)
    BY <1>2, <1>4
  <2>2. got' = [got EXCEPT ![e] = got[e] \o x]
    BY <1>1, <1>5
  <2> HIDE DEF o, x
  <2> QED BY <1>1, <1>2, <2>1, <2>2, ZenonT(40) DEF Carrying
<1>8. /\ DOMAIN dec' = End /\ dec'[o] = dec[o] /\ dec'[e] \in [salt : {o}, nonce : Nat]
      /\ dec'[e].nonce = r.nonce + 2
  <2>1. DOMAIN dec' = DOMAIN dec /\ dec'[o] = dec[o] /\ dec'[e] = [r EXCEPT !.nonce = r.nonce + 2]
    BY <1>1, <1>2
  <2> HIDE DEF r, o
  <2>2. [r EXCEPT !.nonce = r.nonce + 2] \in [salt : {o}, nonce : Nat]
        /\ [r EXCEPT !.nonce = r.nonce + 2].nonce = r.nonce + 2
    BY <1>2, NonceOn
  <2> QED BY <1>2, <2>1, <2>2
<1>9. SealedLink(o, wire'[o], << >>, dec'[e].nonce, enc'[o], sent'[o], got'[e])
  BY <1>1, <1>4, <1>6, <1>7, <1>8
<1>10. dec'[e] # Absent
  <2>1. dec'[e] \in [salt : {"client", "server", Absent}, nonce : Nat]
    BY <1>2, <1>8, TwoEnds
  <2> QED BY <2>1, AbsentAssumption
<1> HIDE DEF x, w, r
<1>11. Silent' /\ enc' \in [End -> Nat] /\ dest' = Plain(want')
  BY <1>1, <1>2, ShadowParts DEF ShadowInv, Silent
<1>12. CASE e = "client"
  <2>1. o = "server"
    BY <1>12, TwoEnds
  <2>2. SealedLink("client", wire'["client"], SaltedToServer(cpc', spc', want'), dec'["server"].nonce,
          enc'["client"], sent'["client"], got'["server"])
    BY <1>1, <1>2, <1>6, <1>7, <1>8, <1>12, <2>1 DEF ShadowInv
  <2>3. dec'["server"] \in [salt : {"client"}, nonce : Nat]
    BY <1>2, <1>8, <2>1, ShadowParts
  <2> QED BY <1>1, <1>2, <1>6, <1>7, <1>8, <1>9, <1>10, <1>11, <1>12, <2>1, <2>2, <2>3 DEF ShadowInv
<1>13. CASE e = "server"
  <2>1. o = "client" /\ SaltedToServer(cpc', spc', want') = << >>
    BY <1>1, <1>2, <1>13, TwoEnds DEF SaltedToServer
  <2>2. SealedLink("server", wire'["server"],
          IF spc' = "up" /\ dec'["client"] = Absent THEN Salt("server") ELSE << >>,
          IF dec'["client"] = Absent THEN 0 ELSE dec'["client"].nonce,
          enc'["server"], sent'["server"], got'["client"])
    BY <1>1, <1>2, <1>6, <1>7, <1>8, <1>13, <2>1 DEF ShadowInv
  <2>3. dec'["client"] # Absent => dec'["client"] \in [salt : {"server"}, nonce : Nat]
    BY <1>2, <1>8, <2>1, ShadowParts
  <2> QED BY <1>1, <1>2, <1>6, <1>7, <1>8, <1>9, <1>11, <1>13, <2>1, <2>2, <2>3 DEF ShadowInv
<1> QED BY <1>1, <1>12, <1>13, TwoEnds

(* No step changes the proxy or the destination, nor undoes a torn read.   *)
LEMMA StreamSteps ==
  ASSUME StreamNext, torn \in BOOLEAN
  PROVE  kind' = kind /\ want' = want /\ torn' \in BOOLEAN /\ (torn => torn')
<1> DEFINE Kept == kind' = kind /\ want' = want /\ torn' \in BOOLEAN /\ (torn => torn')
<1>1. ASSUME NEW e, NEW k, NEW b, NEW w, Exchange(e, k, b, w) PROVE torn' \in BOOLEAN /\ (torn => torn')
  BY <1>1 DEF Exchange
<1>2. CASE ClientStep
  <2>1. CASE SocksGreets
    BY <2>1 DEF SocksGreets
  <2>2. CASE SocksRequests
    BY <1>1, <2>2 DEF SocksRequests
  <2>3. CASE SocksReplied
    BY <1>1, <2>3 DEF SocksReplied
  <2>4. CASE SocksConsumes
    BY <1>1, <2>4 DEF SocksConsumes
  <2>5. CASE SsGreets
    BY <2>5 DEF SsGreets
  <2> QED BY <1>2, <2>1, <2>2, <2>3, <2>4, <2>5 DEF ClientStep
<1>3. CASE ServerStep
  <2>1. CASE SocksGreeted
    BY <1>1, <2>1 DEF SocksGreeted
  <2>2. CASE SocksMethods
    BY <1>1, <2>2 DEF SocksMethods
  <2>3. CASE SocksServes
    BY <1>1, <2>3 DEF SocksServes
  <2>4. CASE SocksLength
    BY <1>1, <2>4 DEF SocksLength
  <2>5. CASE SocksDomain
    BY <1>1, <2>5 DEF SocksDomain
  <2>6. CASE SocksAddr
    BY <1>1, <2>6 DEF SocksAddr
  <2>7. CASE SocksPort
    BY <1>1, <2>7 DEF SocksPort
  <2>8. CASE SsSalt
    BY <1>1, <2>8 DEF SsSalt, ReadSalt
  <2>9. CASE SsServes
    BY <2>9 DEF SsServes
  <2> QED BY <1>3, <2>1, <2>2, <2>3, <2>4, <2>5, <2>6, <2>7, <2>8, <2>9 DEF ServerStep
<1>4. ASSUME NEW e \in End, Write(e) PROVE Kept
  BY <1>4 DEF Write
<1>5. ASSUME NEW e \in End, Read(e) PROVE Kept
  <2>1. CASE ReadPlain(e)
    BY <2>1 DEF ReadPlain
  <2>2. CASE ReadChunk(e)
    BY <2>2 DEF ReadChunk
  <2>3. CASE LateSalt
    BY <1>1, <2>3 DEF LateSalt, ReadSalt
  <2> QED BY <1>5, <2>1, <2>2, <2>3 DEF Read
<1> QED BY <1>2, <1>3, <1>4, <1>5 DEF StreamNext

(* Every step of a Shadowsocks stream keeps its invariant.                 *)
LEMMA ShadowStep ==
  ASSUME ShadowInv, kind = "shadowsocks", want \in Dests, Short(want), StreamNext, ~torn'
  PROVE  ShadowInv'
<1>1. cpc \in {"start", "up"} /\ spc \in {"salt", "meta", "up"}
  BY ShadowParts
<1>2. CASE ClientStep
  <2>1. SsGreets
    BY <1>1, <1>2 DEF ClientStep, SocksGreets, SocksRequests, SocksReplied, SocksConsumes
  <2> QED BY <2>1, SsGreetsKeeps
<1>3. CASE ServerStep
  <2>1. SsSalt \/ SsServes
    BY <1>1, <1>3 DEF ServerStep, SocksGreeted, SocksMethods, SocksServes, SocksLength, SocksDomain,
                      SocksAddr, SocksPort, AddrSize
  <2> QED BY <2>1, SsSaltKeeps, SsServesKeeps
<1>4. ASSUME NEW e \in End, Write(e) PROVE ShadowInv'
  BY <1>4, WriteKeepsShadow
<1>5. ASSUME NEW e \in End, Read(e) PROVE ShadowInv'
  <2>1. ReadChunk(e) \/ LateSalt
    BY <1>5 DEF Read, ReadPlain
  <2> QED BY <2>1, ReadKeepsShadow, LateSaltKeeps
<1> QED BY <1>2, <1>3, <1>4, <1>5 DEF StreamNext

(* Every step of a raw or a Socks stream keeps its invariant.              *)
LEMMA PlainStep ==
  ASSUME PlainInv, kind = "none" \/ Socked, StreamNext, ~torn'
  PROVE  PlainInv'
<1>1. ASSUME kind = "none" PROVE cpc = "up" /\ spc = "up"
  BY <1>1 DEF PlainInv, Met
<1>2. ASSUME Socked
      PROVE  /\ cpc \in {"start", "method", "reply", "bound", "up"}
             /\ spc \in {"greeting", "methods", "request", "ip4", "ip6", "port", "up"}
             /\ kind = "socks"
  BY <1>2 DEF PlainInv, Met, Socked
<1>3. kind # "shadowsocks"
  BY DEF Socked
<1>4. CASE ClientStep
  <2>1. Socked /\ (SocksGreets \/ SocksRequests \/ SocksReplied \/ SocksConsumes)
    BY <1>1, <1>3, <1>4 DEF ClientStep, SocksGreets, SocksRequests, SocksReplied, SocksConsumes, SsGreets
  <2> QED BY <2>1, GreetsKeeps, RequestsKeeps, RepliedKeeps, ConsumesKeeps
<1>5. CASE ServerStep
  <2>1. /\ Socked
        /\ \/ SocksGreeted \/ SocksMethods \/ SocksServes \/ SocksAddr \/ SocksPort
    BY <1>1, <1>2, <1>5 DEF ServerStep, SocksGreeted, SocksMethods, SocksServes, SocksLength, SocksDomain,
                      SocksAddr, SocksPort, AddrSize, SsSalt, SsServes
  <2> QED BY <2>1, GreetedKeeps, MethodsKeeps, ServesKeeps, AddrKeeps, PortKeeps
<1>6. ASSUME NEW e \in End, Write(e) PROVE PlainInv'
  BY <1>6, WriteKeepsPlain
<1>7. ASSUME NEW e \in End, Read(e) PROVE PlainInv'
  <2>1. ReadPlain(e)
    BY <1>3, <1>7 DEF Read, ReadChunk, LateSalt
  <2> QED BY <2>1, ReadKeepsPlain
<1> QED BY <1>4, <1>5, <1>6, <1>7 DEF StreamNext

(* TunnelInv is inductive.                                                 *)
LEMMA TunnelStep == TunnelInv /\ [StreamNext]_streamVars => TunnelInv'
<1> SUFFICES ASSUME TunnelInv, [StreamNext]_streamVars PROVE TunnelInv'
  OBVIOUS
<1>1. CASE UNCHANGED streamVars
  <2>1. UNCHANGED <<kind, want, wire, cpc, spc, cbuf, sbuf, dest, enc, dec, sent, got, torn>>
    BY <1>1 DEF streamVars
  <2>2. Carried' = Carried
    BY <2>1 DEF Carried
  <2>3. ShadowInv => ShadowInv'
    BY <2>1 DEF ShadowInv, Carrying, Silent
  <2>4. PlainInv => PlainInv'
    BY <2>1 DEF PlainInv, Carrying, Silent, Met, Buffer
  <2> QED BY <2>1, <2>2, <2>3, <2>4 DEF TunnelInv
<1>2. CASE StreamNext
  <2>1. kind' = kind /\ want' = want /\ torn' \in BOOLEAN /\ (torn => torn')
    BY <1>2, StreamSteps DEF TunnelInv
  <2>2. kind \in Kinds /\ want \in Dests
    BY DEF TunnelInv
  <2>3. ASSUME ~torn', Carried' PROVE IF kind = "shadowsocks" THEN ShadowInv' ELSE PlainInv'
    <3>1. ~torn /\ Carried
      BY <2>1, <2>3 DEF Carried
    <3>2. CASE kind = "shadowsocks"
      <4>1. ShadowInv
        BY <3>1, <3>2 DEF TunnelInv
      <4>2. Short(want)
        BY <3>1, <3>2 DEF Carried, Short
      <4> QED BY <1>2, <2>2, <2>3, <3>2, <4>1, <4>2, ShadowStep
    <3>3. CASE kind # "shadowsocks"
      <4>1. PlainInv
        BY <3>1, <3>3 DEF TunnelInv
      <4>2. kind = "none" \/ Socked
        BY <2>2, <3>1, <3>3 DEF Carried, Socked
      <4> QED BY <1>2, <2>3, <3>3, <4>1, <4>2, PlainStep
    <3> QED BY <3>2, <3>3
  <2> QED BY <2>1, <2>2, <2>3 DEF TunnelInv
<1> QED BY <1>1, <1>2

(* TunnelInv holds at first.                                               *)
LEMMA TunnelStart == StreamInit => TunnelInv
<1> SUFFICES ASSUME StreamInit PROVE TunnelInv
  OBVIOUS
<1>1. /\ kind \in Kinds /\ want \in Dests /\ torn = FALSE
      /\ \A e \in End : wire[e] = << >> /\ enc[e] = 0 /\ dec[e] = Absent /\ sent[e] = << >> /\ got[e] = << >>
      /\ "client" \in End /\ "server" \in End /\ DOMAIN dec = End
  BY TwoEnds DEF StreamInit
<1>2. << >> \in Seq(Nat) /\ << >> \in Seq(Sealed)
  OBVIOUS
<1>3. /\ wire \in [End -> Seq(Nat)] /\ wire \in [End -> Seq(Sealed)] /\ enc \in [End -> Nat]
      /\ sent \in [End -> Seq(Nat)] /\ got \in [End -> Seq(Nat)]
  BY <1>2 DEF StreamInit
<1>4. Carrying /\ Silent
  BY <1>1, <1>3 DEF Carrying, Silent
<1>5. Buffer(cbuf) /\ Buffer(sbuf)
  <2>1. [i \in 1 .. 20 |-> 0] \in [1 .. 20 -> Nat] /\ 20 \in Nat
    OBVIOUS
  <2>2. Buffer([i \in 1 .. 20 |-> 0])
    BY <2>1, AsSequence DEF Buffer
  <2> QED BY <2>2 DEF StreamInit
<1>6. Link(<< >>, << >>, << >>, << >>)
  BY <1>2, LinkSaid
<1>7. \A e : SealedLink(e, << >>, << >>, 0, 0, << >>, << >>)
  <2> TAKE e
  <2>1. Chunked(e, 0, << >>, << >>)
    BY NoChunks, Zenon
  <2>2. << >> = << >> \o << >> /\ 0 = 0 + Len(<< >>)
    OBVIOUS
  <2> QED BY <1>2, <2>1, <2>2, Zenon DEF SealedLink
<1>8. CASE kind = "none"
  <2>1. cpc = "up" /\ spc = "up"
    BY <1>8 DEF StreamInit
  <2>2. ToServer(cpc, spc, want) = << >> /\ ToClient(cpc, spc) = << >>
    BY <2>1 DEF ToServer, ToClient
  <2> QED BY <1>1, <1>3, <1>4, <1>5, <1>6, <1>8, <2>1, <2>2 DEF TunnelInv, PlainInv, Met
<1>9. CASE kind = "shadowsocks"
  <2>1. cpc = "start" /\ spc = "salt"
    BY <1>9 DEF StreamInit
  <2>2. SaltedToServer(cpc, spc, want) = << >>
    BY <2>1 DEF SaltedToServer
  <2>3. ShadowInv
    BY <1>1, <1>3, <1>4, <1>7, <2>1, <2>2 DEF ShadowInv
  <2> QED BY <1>1, <1>9, <2>3 DEF TunnelInv
<1>10. CASE kind = "socks"
  <2>1. cpc = "start" /\ spc = "greeting"
    BY <1>10 DEF StreamInit
  <2>2. ToServer(cpc, spc, want) = << >> /\ ToClient(cpc, spc) = << >>
    BY <2>1 DEF ToServer, ToClient
  <2> QED BY <1>1, <1>3, <1>4, <1>5, <1>6, <1>10, <2>1, <2>2 DEF TunnelInv, PlainInv, Met
<1> QED BY <1>1, <1>8, <1>9, <1>10 DEF TunnelInv, Carried

(* TunnelInv is strong enough.                                             *)
LEMMA TunnelGives == TunnelInv => TunnelRight
<1> SUFFICES ASSUME TunnelInv, ~torn, Carried
             PROVE  /\ spc = "up" /\ kind # "none" => dest = Plain(want)
                    /\ \A e \in End : IsPrefix(got[e], sent[Peer(e)])
  BY DEF TunnelRight
<1>1. CASE kind = "shadowsocks"
  <2>1. ShadowInv
    BY <1>1 DEF TunnelInv
  <2>2. got["client"] \in Seq(Nat) /\ got["server"] \in Seq(Nat)
    BY <2>1, ShadowParts
  <2>3. IsPrefix(got["server"], sent["client"])
    BY <2>1, <2>2, SealedPrefix DEF ShadowInv
  <2>4. IsPrefix(got["client"], sent["server"])
    BY <2>1, <2>2, SealedPrefix DEF ShadowInv
  <2> QED BY <2>1, <2>3, <2>4, TwoEnds DEF ShadowInv
<1>2. CASE kind # "shadowsocks"
  <2>1. PlainInv
    BY <1>2 DEF TunnelInv
  <2>2. got["client"] \in Seq(Nat) /\ got["server"] \in Seq(Nat)
    BY <2>1, PlainLinks
  <2>3. IsPrefix(got["server"], sent["client"])
    BY <2>1, <2>2, LinkPrefix DEF PlainInv
  <2>4. IsPrefix(got["client"], sent["server"])
    BY <2>1, <2>2, LinkPrefix DEF PlainInv
  <2>5. spc = "up" /\ kind # "none" => dest = Plain(want)
    BY <1>2, <2>1 DEF PlainInv, Carried, Plain
  <2> QED BY <2>3, <2>4, <2>5, TwoEnds
<1> QED BY <1>1, <1>2

(* Whatever the destination, the lengths of what is written and of the     *)
(* parts that reads give, and for any key and payload size: a stream       *)
(* through a proxy, none of whose handshake reads was torn and whose       *)
(* destination the protocol carries, goes where the client end was told,   *)
(* and each end reads what the other wrote, in order and from its first    *)
(* byte on.                                                                *)
THEOREM TunnelIsRight == StreamSpec => []TunnelRight
<1>1. StreamInit => TunnelInv
  BY TunnelStart
<1>2. TunnelInv /\ [StreamNext]_streamVars => TunnelInv'
  BY TunnelStep
<1>3. TunnelInv => TunnelRight
  BY TunnelGives
<1> QED BY <1>1, <1>2, <1>3, PTL DEF StreamSpec
=============================================================================
