------------------------------ MODULE TunProofs ------------------------------
(***************************************************************************)
(* Proofs about the two parts of a TUN that have a course of their own.    *)
(* First its hijacked DNS queries (TunHijack), for any number of queries   *)
(* and any size of the channel; then its start and stop (TunLife), for any *)
(* number of setup's commands and of TCP connections, whatever fails and   *)
(* whenever Close comes.                                                   *)
(***************************************************************************)
EXTENDS TunHijack, TunLife, SequenceTheorems, TLAPS

USE TunHijackAssumption DEF TunHijackAssumption, None, Query

LEMMA InitHijackTypeOK == HijackInit => HijackTypeOK
BY DEF HijackInit, HijackTypeOK, First

LEMMA FirstRange ==
  ASSUME HijackTypeOK
  PROVE  First \in 1 .. N + 1 /\ (asking # None => asking = First - 1 /\ asking \in Query)
<1>1. CASE queue = << >>
  BY <1>1 DEF HijackTypeOK, First
<1>2. CASE queue # << >>
  <2>1. Len(queue) \in Nat /\ 1 \in DOMAIN queue /\ queue[1] \in Query
    BY <1>2, EmptySeq DEF HijackTypeOK
  <2>2. First \in Int /\ queue[1] = First + 1 - 1
    BY <2>1 DEF HijackTypeOK, First
  <2> QED
    BY <2>1, <2>2 DEF HijackTypeOK
<1> QED
  BY <1>1, <1>2

(* What the worker takes is the first query it has not taken yet, and the  *)
(* rest of the channel is as it was.                                       *)
LEMMA Taken ==
  ASSUME HijackTypeOK, queue # << >>, queue' = Tail(queue), next' = next, loop' = loop
  PROVE  /\ Head(queue) = First /\ First \in Query
         /\ First' = First + 1
         /\ queue' \in Seq(Query) /\ Len(queue') <= Room
         /\ \A i \in DOMAIN queue' : queue'[i] = First' + i - 1
<1>1. /\ queue \in Seq(Query) /\ Len(queue) \in Nat /\ Len(queue) # 0
      /\ next \in 1 .. N + 1 /\ First \in Int
      /\ \A i \in 1 .. Len(queue) : queue[i] = First + i - 1
  BY EmptySeq DEF HijackTypeOK, First
<1>2. /\ Head(queue) = queue[1] /\ queue[1] \in Query
      /\ queue' \in Seq(Query) /\ Len(queue') = Len(queue) - 1
      /\ \A i \in 1 .. Len(queue') : queue'[i] = queue[i + 1]
  BY <1>1, HeadTailProperties
<1>3. Head(queue) = First /\ First \in Query
  BY <1>1, <1>2
<1>4. First' = First + 1
  BY <1>1, <1>2 DEF First
<1>5. \A i \in DOMAIN queue' : queue'[i] = First' + i - 1
  BY <1>1, <1>2, <1>4
<1> QED
  BY <1>1, <1>2, <1>3, <1>4, <1>5 DEF HijackTypeOK

(* Every variable keeps its type, and the queries their order.             *)
THEOREM HijackTypeCorrect == HijackSpec => []HijackTypeOK
<1>1. HijackTypeOK /\ [HijackNext]_hijackVars => HijackTypeOK'
  <2> SUFFICES ASSUME HijackTypeOK, [HijackNext]_hijackVars PROVE HijackTypeOK'
    OBVIOUS
  <2>1. CASE UNCHANGED hijackVars
    BY <2>1 DEF hijackVars, HijackTypeOK, First
  <2>2. CASE ReadQuery
    <3>1. First' = First
      BY <2>2 DEF ReadQuery, HijackTypeOK, First
    <3> QED
      BY <2>2, <3>1 DEF ReadQuery, HijackTypeOK
  <2>3. CASE PutQuery
    <3>1. loop = next - 1 /\ loop \in Query /\ Len(queue) \in Nat
      BY <2>3 DEF PutQuery, HijackTypeOK
    <3>2. First' = First /\ loop = First + Len(queue)
      BY <2>3, <3>1 DEF PutQuery, HijackTypeOK, First
    <3>3. queue' \in Seq(Query) /\ Len(queue') = Len(queue) + 1
      BY <2>3, <3>1 DEF PutQuery, HijackTypeOK
    <3>4. \A i \in DOMAIN queue' : queue'[i] = First' + i - 1
      BY <2>3, <3>1, <3>2, <3>3 DEF PutQuery, HijackTypeOK
    <3> QED
      BY <2>3, <3>2, <3>3, <3>4 DEF PutQuery, HijackTypeOK
  <2>4. CASE Ask
    <3>1. queue # << >> /\ queue' = Tail(queue) /\ next' = next /\ loop' = loop
      BY <2>4 DEF Ask
    <3>2. First \in 1 .. N + 1
      BY FirstRange
    <3>3. /\ Head(queue) = First /\ First' = First + 1
          /\ queue' \in Seq(Query) /\ Len(queue') <= Room
          /\ \A i \in DOMAIN queue' : queue'[i] = First' + i - 1
      BY <3>1, Taken
    <3>4. asking' = First' - 1 /\ server' = server \cup {First} /\ inbox' = inbox
      BY <2>4, <3>2, <3>3 DEF Ask
    <3>5. server' \subseteq 1 .. First' - 1 /\ \A i \in DOMAIN inbox' : inbox'[i] < First'
      BY <3>2, <3>3, <3>4 DEF HijackTypeOK
    <3> QED
      BY <2>4, <3>3, <3>4, <3>5 DEF Ask, HijackTypeOK
  <2>5. CASE AskFails
    <3>1. queue # << >> /\ queue' = Tail(queue) /\ next' = next /\ loop' = loop
      BY <2>5 DEF AskFails
    <3>2. First \in 1 .. N + 1
      BY FirstRange
    <3>3. /\ First' = First + 1
          /\ queue' \in Seq(Query) /\ Len(queue') <= Room
          /\ \A i \in DOMAIN queue' : queue'[i] = First' + i - 1
      BY <3>1, Taken
    <3> QED
      BY <2>5, <3>2, <3>3 DEF AskFails, HijackTypeOK
  <2>6. CASE ReadAnswer
    <3>1. First' = First
      BY <2>6 DEF ReadAnswer, First
    <3>2. /\ inbox \in Seq(Query) /\ inbox # << >>
          /\ Head(inbox) \in Query /\ inbox' \in Seq(Query)
          /\ \A i \in DOMAIN inbox' : i + 1 \in DOMAIN inbox /\ inbox'[i] = inbox[i + 1]
      BY <2>6, HeadTailProperties DEF ReadAnswer, HijackTypeOK
    <3>3. asking \in Query
      BY <2>6, FirstRange DEF ReadAnswer
    <3> QED
      BY <2>6, <3>1, <3>2, <3>3 DEF ReadAnswer, HijackTypeOK
  <2>7. CASE TimesOut
    <3>1. First' = First /\ asking \in Query
      BY <2>7, FirstRange DEF TimesOut, First
    <3> QED
      BY <2>7, <3>1 DEF TimesOut, HijackTypeOK
  <2>8. ASSUME NEW q \in Query, Answer(q)
        PROVE  HijackTypeOK'
    <3>1. First' = First /\ q < First
      BY <2>8 DEF Answer, HijackTypeOK, First
    <3> QED
      BY <2>8, <3>1 DEF Answer, HijackTypeOK
  <2>9. ASSUME NEW q \in Query, AnswerLost(q)
        PROVE  HijackTypeOK'
    <3>1. First' = First
      BY <2>9 DEF AnswerLost, First
    <3> QED
      BY <2>9, <3>1 DEF AnswerLost, HijackTypeOK
  <2> QED
    BY <2>1, <2>2, <2>3, <2>4, <2>5, <2>6, <2>7, <2>8, <2>9 DEF HijackNext
<1> QED
  BY <1>1, InitHijackTypeOK, PTL DEF HijackSpec

-----------------------------------------------------------------------------
(* An answer that is still to come and nobody waits for was asked for no   *)
(* earlier than a query the worker gave up.                                *)
Excused(a) == a = asking \/ \E g \in late : g <= a
LateKnown == /\ \A a \in server : Excused(a)
             /\ \A i \in DOMAIN inbox : Excused(inbox[i])

(* No query is answered twice, so its answer is nowhere else when it comes.*)
AnsweredOnce ==
  /\ \A i, j \in DOMAIN inbox : inbox[i] = inbox[j] => i = j
  /\ \A i \in DOMAIN inbox : inbox[i] \notin server

LateInv == LateKnown /\ AnsweredOnce /\ RightOrLate

(* A client is sent an answer that is not its own only if it is one to an  *)
(* earlier query and a query no later than that was given up.              *)
THEOREM AnswersRightOrLate == HijackSpec => []RightOrLate
<1>1. HijackInit => LateInv
  BY DEF HijackInit, LateInv, LateKnown, AnsweredOnce, RightOrLate
<1>2. HijackTypeOK /\ LateInv /\ [HijackNext]_hijackVars => LateInv'
  <2> SUFFICES ASSUME HijackTypeOK, LateInv, [HijackNext]_hijackVars
               PROVE  LateInv'
    OBVIOUS
  <2> USE DEF LateInv
  <2>1. CASE UNCHANGED <<asking, server, inbox, told, late>>
    BY <2>1 DEF LateKnown, AnsweredOnce, RightOrLate, Excused
  <2>2. CASE Ask
    <3>1. /\ inbox' = inbox /\ told' = told /\ late' = late
          /\ asking = 0 /\ asking' = First /\ server' = server \cup {First}
      BY <2>2, Taken DEF Ask
    <3>2. LateKnown'
      BY <3>1 DEF LateKnown, Excused, HijackTypeOK
    <3>3. AnsweredOnce'
      BY <3>1 DEF AnsweredOnce, HijackTypeOK, First
    <3> QED
      BY <3>1, <3>2, <3>3 DEF RightOrLate
  <2>3. CASE ReadAnswer
    <3> DEFINE a == Head(inbox)
    <3>1. /\ inbox \in Seq(Query) /\ 1 \in DOMAIN inbox /\ a = inbox[1]
          /\ \A i \in DOMAIN inbox' : /\ i + 1 \in DOMAIN inbox /\ i + 1 # 1
                                      /\ inbox'[i] = inbox[i + 1]
      BY <2>3, HeadTailProperties DEF ReadAnswer, HijackTypeOK
    <3>2. asking = First - 1 /\ a < First /\ a \in Query /\ asking \in Query
      <4>1. asking = First - 1 /\ asking \in Query
        BY <2>3, FirstRange DEF ReadAnswer
      <4>2. a \in Query
        BY <3>1
      <4>3. a < First
        BY <3>1 DEF HijackTypeOK
      <4> QED
        BY <4>1, <4>2, <4>3
    <3>3. a <= asking /\ Excused(a)
      <4>1. Excused(inbox[1])
        BY <3>1 DEF LateKnown
      <4>2. a <= asking
        BY <3>2, FirstRange
      <4> QED
        BY <3>1, <4>1, <4>2
    <3>4. RightOrLate'
      <4>1. told' = told \cup {[to |-> asking, answer |-> a]} /\ late' = late
        BY <2>3 DEF ReadAnswer
      <4>2. \/ a = asking
            \/ a < asking /\ \E g \in late : g <= a
        BY <3>2, <3>3 DEF Excused
      <4> HIDE DEF a
      <4> QED
        BY <4>1, <4>2 DEF RightOrLate
    <3>5. ASSUME NEW b \in Query, Excused(b), b # a
          PROVE  Excused(b)'
      BY <2>3, <3>2, <3>3, <3>5 DEF ReadAnswer, Excused, HijackTypeOK
    <3>6. LateKnown'
      <4>1. \A b \in server' : b \in Query /\ Excused(b) /\ b # a
        BY <2>3, <3>1 DEF ReadAnswer, LateKnown, AnsweredOnce, HijackTypeOK, First
      <4>2. \A i \in DOMAIN inbox' :
              inbox'[i] \in Query /\ Excused(inbox'[i]) /\ inbox'[i] # a
        BY <3>1 DEF LateKnown, AnsweredOnce
      <4> QED
        BY <3>5, <4>1, <4>2 DEF LateKnown
    <3>7. AnsweredOnce'
      BY <2>3, <3>1 DEF ReadAnswer, AnsweredOnce
    <3> QED
      BY <3>4, <3>6, <3>7
  <2>4. CASE TimesOut
    <3>1. /\ late' = late \cup {asking} /\ asking \in Query /\ asking <= asking
          /\ server' = server /\ inbox' = inbox /\ told' = told
      BY <2>4, FirstRange DEF TimesOut, Query
    <3>2. \A q : Excused(q) => Excused(q)'
      BY <3>1 DEF Excused
    <3>3. LateKnown'
      BY <3>1, <3>2 DEF LateKnown
    <3>4. AnsweredOnce' /\ RightOrLate'
      BY <3>1 DEF AnsweredOnce, RightOrLate
    <3> QED
      BY <3>3, <3>4
  <2>5. ASSUME NEW q \in Query, Answer(q)
        PROVE  LateInv'
    <3>1. /\ inbox \in Seq(Query) /\ Len(inbox) \in Nat
          /\ DOMAIN inbox' = 1 .. Len(inbox) + 1 /\ DOMAIN inbox = 1 .. Len(inbox)
          /\ inbox'[Len(inbox) + 1] = q
          /\ \A i \in DOMAIN inbox : inbox'[i] = inbox[i]
      BY <2>5 DEF Answer, HijackTypeOK
    <3>2. LateKnown'
      BY <2>5, <3>1 DEF Answer, LateKnown, Excused
    <3>3. AnsweredOnce'
      BY <2>5, <3>1 DEF Answer, AnsweredOnce
    <3> QED
      BY <2>5, <3>2, <3>3 DEF Answer, RightOrLate
  <2>6. ASSUME NEW q \in Query, AnswerLost(q)
        PROVE  LateInv'
    BY <2>6 DEF AnswerLost, LateKnown, AnsweredOnce, RightOrLate, Excused
  <2> QED
    BY <2>1, <2>2, <2>3, <2>4, <2>5, <2>6 DEF HijackNext, hijackVars, ReadQuery, PutQuery, AskFails
<1>3. LateInv => RightOrLate
  BY DEF LateInv
<1> QED
  BY <1>1, <1>2, <1>3, HijackTypeCorrect, PTL DEF HijackSpec

-----------------------------------------------------------------------------
HIDE TunHijackAssumption DEF TunHijackAssumption, None, Query
USE TunLifeAssumption DEF TunLifeAssumption, Cmds

(* The types, without the count of the WaitGroup.                          *)
Types ==
  /\ status \in {"Ready", "Running", "Closed"}
  /\ run \in {"start", "open", "setup", "clean", "relay", "wait", "read", "gone"}
  /\ done \in 0 .. Cmds /\ fd \in {"none", "open", "closed"}
  /\ rules \subseteq 1 .. Rules /\ kept \subseteq rules
  /\ cleaned \in [{"Run", "Close"} -> 0 .. Rules + 1]
  /\ closer \in 0 .. 4 /\ overlap \in BOOLEAN

(* How far Run is and what it has done go together.                        *)
Stages ==
  /\ status = "Ready" <=> run = "start"
  /\ run \in {"start", "open"} => rules = {} /\ done = 0 /\ fd = "none"
  /\ run \in {"relay", "wait", "read"} => done = Cmds
  /\ run \notin {"clean", "gone"} => cleaned["Run"] = 0
  /\ run = "clean" => cleaned["Run"] <= Rules /\ rules \cap 1 .. cleaned["Run"] \subseteq kept

(* Close has marked the TUN closed before it touches anything, and what it *)
(* has cleaned stays clean unless setup goes on.                           *)
Closing ==
  /\ status = "Closed" => closer >= 2
  /\ closer \in 2 .. 3 => status = "Closed"
  /\ closer \in 1 .. 3 => run # "start"
  /\ fd = "closed" => status = "Closed" \/ run = "gone"
  /\ closer > 0 /\ ~overlap => run \in {"relay", "wait", "read", "gone"}
  /\ closer < 2 => cleaned["Close"] = 0
  /\ closer = 2 => cleaned["Close"] <= Rules
  /\ closer = 2 /\ ~overlap => rules \cap 1 .. cleaned["Close"] \subseteq kept
  /\ closer > 2 /\ ~overlap => rules \subseteq kept

IInv == Types /\ Stages /\ Closing /\ SetupUndone

LEMMA Order ==
  ASSUME closer \in 0 .. 4
  PROVE  /\ At("mark") <=> closer = 1
         /\ At("clean") <=> closer = 2
         /\ At("conns") <=> closer = 3
BY DEF At, CloseOrder

(* A step of clean tries one more rule: of those it has tried, only the    *)
(* ones that could not be deleted are there.  What another clean was done  *)
(* with (S) it does not bring back.                                        *)
LEMMA Cleans ==
  ASSUME Types, NEW p \in {"Run", "Close"}, CleanRule(p)
  PROVE  /\ rules' \subseteq rules /\ kept' \subseteq rules'
         /\ cleaned[p] < Rules /\ cleaned'[p] = cleaned[p] + 1
         /\ \A S : rules \cap S \subseteq kept => rules' \cap S \subseteq kept'
         /\ rules \cap 1 .. cleaned[p] \subseteq kept =>
              rules' \cap 1 .. cleaned'[p] \subseteq kept'
         /\ rules \subseteq kept => rules' \subseteq kept'
<1> DEFINE r == cleaned'[p]
<1>1. cleaned[p] \in 0 .. Rules /\ cleaned[p] < Rules /\ r = cleaned[p] + 1
  BY DEF Types, CleanRule
<1>2. 1 .. r = (1 .. cleaned[p]) \cup {r}
  BY <1>1
<1>3. \/ rules' = rules \ {r} /\ kept' = kept \ {r}
      \/ rules' = rules /\ kept' = kept \cup ({r} \cap rules)
  BY DEF CleanRule, Deleted, Survives
<1> HIDE DEF r
<1>4. kept \subseteq rules
  BY DEF Types
<1>5. /\ rules' \subseteq rules /\ kept' \subseteq rules'
      /\ \A S : rules \cap S \subseteq kept => rules' \cap S \subseteq kept'
      /\ rules' \cap {r} \subseteq kept'
      /\ rules \subseteq kept => rules' \subseteq kept'
  BY <1>3, <1>4
<1>6. rules \cap 1 .. cleaned[p] \subseteq kept => rules' \cap 1 .. r \subseteq kept'
  BY <1>2, <1>5
<1> QED
  BY <1>1, <1>5, <1>6 DEF r

LEMMA Inductive == IInv /\ [Next]_vars => IInv'
<1> SUFFICES ASSUME IInv, [Next]_vars PROVE IInv'
  OBVIOUS
<1> USE DEF IInv
<1>1. CASE UNCHANGED <<status, run, done, dev, close>>
  BY <1>1 DEF Types, Stages, Closing, SetupUndone, dev, close
<1>2. CASE Start
  BY <1>2 DEF Types, Stages, Closing, SetupUndone, Start, dev, relay, close
<1>3. CASE Open
  BY <1>3 DEF Types, Stages, Closing, SetupUndone, Open, dev, relay, close
<1>4. CASE SetupCmd
  BY <1>4 DEF Types, Stages, Closing, SetupUndone, SetupCmd, dev, relay, close
<1>5. CASE SetupFails
  BY <1>5 DEF Types, Stages, Closing, SetupUndone, SetupFails, dev, relay, close
<1>6. CASE StartRelay
  BY <1>6 DEF Types, Stages, Closing, SetupUndone, StartRelay, dev, relay, close
<1>7. CASE WaitOver
  BY <1>7 DEF Types, Stages, Closing, SetupUndone, WaitOver, dev, relay, close
<1>8. CASE ReadFails
  BY <1>8 DEF Types, Stages, Closing, SetupUndone, ReadFails, dev, relay, close
<1>9. CASE CloseBegins
  <2>1. overlap' = BeforeSetupOver /\ UNCHANGED <<status, run, done, dev>>
    BY <1>9 DEF CloseBegins
  <2>2. overlap' \in BOOLEAN
    BY <2>1 DEF BeforeSetupOver
  <2>3. closer' = 1 \/ (closer' = 4 /\ status = "Ready")
    BY <1>9 DEF CloseBegins, Types, Closing
  <2>4. closer = 0 /\ status # "Closed" /\ cleaned["Close"] = 0
    BY <1>9 DEF CloseBegins, Closing
  <2>5. ~overlap' => run \in {"relay", "wait", "read", "gone"}
    BY <2>1 DEF BeforeSetupOver, Types
  <2>6. Types' /\ Stages' /\ SetupUndone'
    BY <2>1, <2>2, <2>3 DEF Types, Stages, SetupUndone, dev
  <2>7. closer' = 1 => run # "start"
    BY <1>9 DEF CloseBegins, Stages
  <2>8. Closing'
    BY <2>1, <2>3, <2>4, <2>5, <2>7 DEF Closing, Stages, dev
  <2> QED
    BY <2>6, <2>8
<1>10. CASE CloseMarks
  BY <1>10, Order DEF Types, Stages, Closing, SetupUndone, CloseMarks, dev, relay, close
<1>11. CASE CloseConns
  BY <1>11, Order DEF Types, Stages, Closing, SetupUndone, CloseConns, dev, relay, close
<1>12. CASE RunCleans
  <2>1. CASE CleanRule("Run") /\ UNCHANGED run
    <3>1. UNCHANGED <<status, run, done, fd, closer, overlap>> /\ run = "clean"
      BY <1>12, <2>1 DEF RunCleans, CleanRule, close
    <3>2. /\ cleaned' \in [{"Run", "Close"} -> 0 .. Rules + 1]
          /\ cleaned'["Close"] = cleaned["Close"]
      BY <2>1 DEF Types, CleanRule
    <3>3. /\ rules' \subseteq rules /\ kept' \subseteq rules'
          /\ cleaned["Run"] < Rules /\ cleaned'["Run"] = cleaned["Run"] + 1
          /\ rules' \cap 1 .. cleaned'["Run"] \subseteq kept'
          /\ rules \cap 1 .. cleaned["Close"] \subseteq kept =>
               rules' \cap 1 .. cleaned["Close"] \subseteq kept'
          /\ rules \subseteq kept => rules' \subseteq kept'
      BY <2>1, <3>1, Cleans DEF Stages
    <3>4. cleaned'["Run"] <= Rules
      BY <3>3 DEF Types
    <3>5. Types' /\ Stages'
      BY <3>1, <3>2, <3>3, <3>4 DEF Types, Stages
    <3>6. Closing'
      BY <3>1, <3>2, <3>3 DEF Closing
    <3>7. SetupUndone'
      BY <3>1 DEF SetupUndone
    <3> QED
      BY <3>5, <3>6, <3>7
  <2>2. CASE CleanFd("Run") /\ run' = "gone"
    BY <1>12, <2>2 DEF Types, Stages, Closing, SetupUndone, RunCleans, CleanFd, close
  <2> QED
    BY <1>12, <2>1, <2>2 DEF RunCleans
<1>13. CASE CloseCleans
  <2>1. CASE CleanRule("Close") /\ UNCHANGED closer
    <3>1. UNCHANGED <<status, run, done, fd, closer, overlap>> /\ closer = 2
      BY <1>13, <2>1, Order DEF CloseCleans, CleanRule, Types
    <3>2. /\ cleaned' \in [{"Run", "Close"} -> 0 .. Rules + 1]
          /\ cleaned'["Run"] = cleaned["Run"]
      BY <2>1 DEF Types, CleanRule
    <3>3. /\ rules' \subseteq rules /\ kept' \subseteq rules'
          /\ cleaned["Close"] < Rules /\ cleaned'["Close"] = cleaned["Close"] + 1
          /\ rules \cap 1 .. cleaned["Run"] \subseteq kept =>
               rules' \cap 1 .. cleaned["Run"] \subseteq kept'
          /\ rules \cap 1 .. cleaned["Close"] \subseteq kept =>
               rules' \cap 1 .. cleaned'["Close"] \subseteq kept'
          /\ rules \subseteq kept => rules' \subseteq kept'
      BY <2>1, Cleans
    <3>4. cleaned'["Close"] <= Rules
      BY <3>3 DEF Types
    <3>5. Types' /\ Stages'
      BY <3>1, <3>2, <3>3 DEF Types, Stages
    <3>6. Closing'
      BY <3>1, <3>3, <3>4 DEF Closing
    <3>7. SetupUndone'
      BY <3>1, <3>3 DEF SetupUndone
    <3> QED
      BY <3>5, <3>6, <3>7
  <2>2. CASE CleanFd("Close") /\ closer' = closer + 1
    BY <1>13, <2>2, Order DEF Types, Stages, Closing, SetupUndone, CloseCleans, CleanFd
  <2> QED
    BY <1>13, <2>1, <2>2 DEF CloseCleans
<1> QED
  BY <1>1, <1>2, <1>3, <1>4, <1>5, <1>6, <1>7, <1>8, <1>9, <1>10, <1>11, <1>12, <1>13
     DEF Next, RunStep, TcpStep, UdpStep, DnsStep, CloseStep, vars, dev, close,
         TcpListens, TcpFails, TcpEnds, TcpAccepts, StreamStores, StreamEnds,
         UdpListens, UdpFails, UdpStores, UdpChecks, UdpReads, UdpReadFails,
         DnsListens, DnsFails

LEMMA Invariance == Spec => []IInv
<1>1. Init => IInv
  <2> SUFFICES ASSUME Init PROVE IInv
    OBVIOUS
  <2>1. cleaned \in [{"Run", "Close"} -> 0 .. Rules + 1] /\ cleaned["Run"] = 0 /\ cleaned["Close"] = 0
    BY DEF Init
  <2>2. overlap \in BOOLEAN
    BY DEF Init
  <2>3. Types
    BY <2>1, <2>2 DEF Init, Types
  <2> QED
    BY <2>1, <2>3 DEF Init, IInv, Stages, Closing, SetupUndone
<1> QED
  BY <1>1, Inductive, PTL DEF Spec

(* Run never reads again and again from a device that Close has closed.    *)
THEOREM NeverSpins == Spec => []NoSpin
<1>1. IInv => NoSpin
  BY DEF IInv, Closing, NoSpin
<1> QED
  BY <1>1, Invariance, PTL

(* Unless it comes while the device is being set up, Close leaves of the   *)
(* rules of setup only those whose own deletion failed, however many there *)
(* are and whichever of the commands fail.                                 *)
THEOREM CloseRemovesRules == Spec => []RulesRemoved
<1>1. IInv => RulesRemoved
  BY DEF IInv, Types, Closing, RulesRemoved
<1> QED
  BY <1>1, Invariance, PTL

(* A setup that fails at any of its commands leaves no device behind, and  *)
(* of the rules only those whose own deletion failed, even if Close comes  *)
(* at the same time.                                                       *)
THEOREM SetupAllOrNothing == Spec => []SetupUndone
<1>1. IInv => SetupUndone
  BY DEF IInv
<1> QED
  BY <1>1, Invariance, PTL

(* A TUN that was closed never runs again.                                 *)
THEOREM ClosedForGood == Spec => ClosedIsFinal
<1>1. IInv /\ [Next]_vars => [status = "Closed" => status' = "Closed"]_vars
  BY Order DEF IInv, Types, Stages, Next, RunStep, TcpStep, UdpStep, DnsStep, CloseStep,
     vars, Start, Open, SetupCmd, SetupFails, RunCleans, StartRelay, WaitOver, ReadFails,
     CloseBegins, CloseMarks, CloseCleans, CloseConns,
     TcpListens, TcpFails, TcpEnds, TcpAccepts, StreamStores, StreamEnds,
     UdpListens, UdpFails, UdpStores, UdpChecks, UdpReads, UdpReadFails,
     DnsListens, DnsFails
<1> QED
  BY <1>1, Invariance, PTL DEF Spec, ClosedIsFinal

-----------------------------------------------------------------------------
(* The relay's goroutines have their types, none is there before Run has   *)
(* started them, and the WaitGroup counts those that have not said Done.   *)
Waits == (IF tcp = "listen" THEN 1 ELSE 0) + (IF udp = "listen" THEN 1 ELSE 0)
         + (IF dnsw \in {"none", "listen"} THEN 1 ELSE 0)

Goroutines ==
  /\ pending \in Int /\ failed \in BOOLEAN
  /\ fresh \in Nat /\ live \in Nat /\ fresh + live <= MaxStreams
  /\ entry \in {"none", "udp", "tcp"}
  /\ tcp \in {"none", "listen", "accept", "gone"}
  /\ udp \in {"none", "listen", "store", "check", "recv", "gone"}
  /\ dnsw \in {"none", "listen", "work", "gone"}
  /\ sock \in {"none", "open", "closed"}
  /\ tcp = "none" <=> udp = "none"
  /\ run \in {"start", "open", "setup", "relay"} => udp = "none"
  /\ udp \in {"none", "listen", "store"} => dnsw = "none"
  /\ pending = IF udp = "none" THEN 0 ELSE Waits

LEMMA GoroutinesCounted == Types /\ Goroutines /\ [Next]_vars => Goroutines'
<1> SUFFICES ASSUME Types, Goroutines, [Next]_vars PROVE Goroutines'
  OBVIOUS
<1>1. CASE UNCHANGED <<run, relay>>
  BY <1>1 DEF Goroutines, Waits, relay
<1>2. CASE Start \/ Open \/ SetupCmd \/ SetupFails \/ RunCleans \/ WaitOver \/ ReadFails
  <2>1. UNCHANGED relay
    BY <1>2 DEF Start, Open, SetupCmd, SetupFails, RunCleans, WaitOver, ReadFails
  <2>2. run' \in {"start", "open", "setup", "relay"} => udp = "none"
    BY <1>2 DEF Start, Open, SetupCmd, SetupFails, RunCleans, WaitOver, ReadFails, Goroutines
  <2> QED
    BY <2>1, <2>2 DEF Goroutines, Waits, relay
<1>3. CASE StartRelay
  BY <1>3 DEF StartRelay, Goroutines, Waits, conns
<1>4. CASE TcpListens
  BY <1>4 DEF TcpListens, Goroutines, Waits, conns
<1>5. CASE TcpFails
  BY <1>5 DEF TcpFails, Goroutines, Waits, conns
<1>6. CASE TcpEnds
  BY <1>6 DEF TcpEnds, Goroutines, Waits, conns
<1>7. CASE TcpAccepts
  BY <1>7 DEF TcpAccepts, Goroutines, Waits
<1>8. CASE StreamStores
  BY <1>8 DEF StreamStores, Goroutines, Waits
<1>9. CASE StreamEnds
  BY <1>9 DEF StreamEnds, Goroutines, Waits
<1>10. CASE UdpListens
  BY <1>10 DEF UdpListens, Goroutines, Waits, conns
<1>11. CASE UdpFails
  BY <1>11 DEF UdpFails, Goroutines, Waits, conns
<1>12. CASE UdpStores
  BY <1>12 DEF UdpStores, Goroutines, Waits
<1>13. CASE UdpChecks
  BY <1>13 DEF UdpChecks, Goroutines, Waits
<1>14. CASE UdpReads \/ UdpReadFails
  BY <1>14 DEF UdpReads, UdpReadFails, Goroutines, Waits, conns
<1>15. CASE DnsListens
  BY <1>15 DEF DnsListens, Goroutines, Waits, conns
<1>16. CASE DnsFails
  BY <1>16 DEF DnsFails, Goroutines, Waits, conns
<1>17. CASE CloseConns
  BY <1>17 DEF CloseConns, Goroutines, Waits, conns
<1> QED
  BY <1>1, <1>2, <1>3, <1>4, <1>5, <1>6, <1>7, <1>8, <1>9, <1>10, <1>11, <1>12, <1>13,
     <1>14, <1>15, <1>16, <1>17
     DEF Next, RunStep, TcpStep, UdpStep, DnsStep, CloseStep, vars, relay, conns,
         CloseBegins, CloseMarks, CloseCleans

(* Every variable keeps its type, and the WaitGroup of the relay counts    *)
(* the goroutines that have not said Done: it never goes below zero, which *)
(* would be a panic.                                                       *)
THEOREM TypeCorrect == Spec => []TypeOK
<1>1. Init => Goroutines
  <2> SUFFICES ASSUME Init PROVE Goroutines
    OBVIOUS
  <2>1. failed \in BOOLEAN
    BY DEF Init
  <2> QED
    BY <2>1 DEF Init, Goroutines
<1>2. IInv /\ Goroutines => TypeOK
  <2> SUFFICES ASSUME IInv, Goroutines PROVE TypeOK
    OBVIOUS
  <2>1. pending \in 0 .. 3
    BY DEF Goroutines, Waits
  <2>2. fresh \in 0 .. MaxStreams /\ live \in 0 .. MaxStreams
    BY DEF Goroutines
  <2> QED
    BY <2>1, <2>2 DEF IInv, Types, Goroutines, Waits, TypeOK
<1>3. IInv => Types
  BY DEF IInv
<1> QED
  BY <1>1, <1>2, <1>3, GoroutinesCounted, Invariance, PTL DEF Spec

=============================================================================
