------------------------------ MODULE TunLife -------------------------------
(***************************************************************************)
(* How a TUN ingress starts and stops: Run opens the device, sets it up    *)
(* with ip commands, starts the relay and reads packets; Close, called by  *)
(* the main goroutine, may come at any moment.  The relay's goroutines     *)
(* listen on the device's address, which is gone with the device.  In      *)
(* t.conns the UDP socket and every TCP connection of the relay are stored *)
(* under their local address, which is the same for all of them.           *)
(***************************************************************************)
EXTENDS Integers, Sequences

CONSTANTS
  DevCmds,   \* how many commands of setup need the device
  Rules,     \* how many install a rule, which outlives the device
  MaxStreams, \* how many TCP connections are relayed at a time
  Faults     \* what may fail for reasons outside: "open", any of the ip
             \* commands, of setup or of clean, "cmd", and the relay's
             \* listeners "tcp", "udp" and "dns"

ASSUME TunLifeAssumption ==
  /\ DevCmds \in Nat /\ Rules \in Nat \ {0} /\ MaxStreams \in Nat
  /\ Faults \subseteq {"open", "cmd", "tcp", "udp", "dns"}

Cmds == DevCmds + Rules

VARIABLES
  status,   \* t.status
  run,      \* where the goroutine of Run is
  done,     \* how many of setup's commands have run
  fd,       \* t.fd
  rules,    \* the rules installed, by their number
  cleaned,  \* how far clean is, in Run and in Close
  kept,     \* rules that are still there because deleting them failed
  pending,  \* the WaitGroup of relay
  failed,   \* relayErr is set
  tcp, udp, dnsw,   \* where the relay's goroutines are
  sock,     \* the UDP relay's socket
  fresh,    \* TCP connections accepted and not yet in t.conns
  live,     \* TCP connections that were stored there and go on
  entry,    \* what t.conns has under the relay's address
  closer,   \* where Close is in CloseOrder: 0 not called, 4 returned
  overlap   \* Close was called before setup was over

vars == <<status, run, done, fd, rules, cleaned, kept, pending, failed, tcp,
          udp, dnsw, sock, fresh, live, entry, closer, overlap>>
dev   == <<fd, rules, cleaned, kept>>
relay == <<pending, failed, tcp, udp, dnsw, sock, fresh, live, entry>>
conns == <<fresh, live, entry>>
close == <<closer, overlap>>

Init ==
  /\ status = "Ready" /\ run = "start" /\ done = 0
  /\ fd = "none" /\ rules = {} /\ kept = {}
  /\ cleaned = [p \in {"Run", "Close"} |-> 0]
  /\ pending = 0 /\ failed = FALSE
  /\ tcp = "none" /\ udp = "none" /\ dnsw = "none"
  /\ sock = "none" /\ fresh = 0 /\ live = 0 /\ entry = "none"
  /\ closer = 0 /\ overlap = FALSE

-----------------------------------------------------------------------------
(* Run.                                                                    *)
Start ==
  /\ run = "start"
  /\ status' = "Running" /\ run' = "open"
  /\ UNCHANGED <<done, dev, relay, close>>

Open ==
  /\ run = "open"
  /\ \/ fd' = "open" /\ run' = "setup"
     \/ "open" \in Faults /\ run' = "gone" /\ UNCHANGED fd
  /\ UNCHANGED <<status, done, rules, cleaned, kept, relay, close>>

(* The next command of setup; those of the device need it to be there.     *)
SetupCmd ==
  /\ run = "setup" /\ done < Cmds
  /\ done < DevCmds => fd = "open"
  /\ done' = done + 1
  /\ rules' = IF done < DevCmds THEN rules ELSE rules \cup {done' - DevCmds}
  /\ run' = IF done' = Cmds THEN "relay" ELSE "setup"
  /\ UNCHANGED <<status, fd, cleaned, kept, relay, close>>

SetupFails_noClean ==
  /\ run = "setup"
  /\ "cmd" \in Faults \/ (done < DevCmds /\ fd # "open")
  /\ run' = "gone"
  /\ UNCHANGED <<status, done, dev, relay, close>>

(* A command fails: clean up and give up.                                  *)
SetupFails ==
  /\ run = "setup"
  /\ "cmd" \in Faults \/ (done < DevCmds /\ fd # "open")
  /\ run' = "clean"
  /\ UNCHANGED <<status, done, dev, relay, close>>

(* clean, in p: delete the rules one by one, whether there or not, then    *)
(* close the device.  What a command returns is discarded: the rule stays  *)
(* when deleting it fails, and clean goes on.                              *)
Deleted(r) == rules' = rules \ {r} /\ kept' = kept \ {r}
Survives(r) ==
  /\ "cmd" \in Faults
  /\ kept' = kept \cup ({r} \cap rules) /\ UNCHANGED rules

CleanRule_stops(p) ==
  /\ cleaned[p] < Rules
  /\ \/ /\ cleaned' = [cleaned EXCEPT ![p] = @ + 1]
        /\ Deleted(cleaned'[p])
     \/ /\ cleaned' = [cleaned EXCEPT ![p] = Rules]
        /\ Survives(cleaned[p] + 1)
  /\ UNCHANGED fd

CleanRule(p) ==
  /\ cleaned[p] < Rules
  /\ cleaned' = [cleaned EXCEPT ![p] = @ + 1]
  /\ Deleted(cleaned'[p]) \/ Survives(cleaned'[p])
  /\ UNCHANGED fd

CleanFd(p) ==
  /\ cleaned[p] = Rules
  /\ cleaned' = [cleaned EXCEPT ![p] = @ + 1]
  /\ fd' = IF fd = "open" THEN "closed" ELSE fd
  /\ UNCHANGED <<rules, kept>>

RunCleans ==
  /\ run = "clean"
  /\ \/ CleanRule("Run") /\ UNCHANGED run
     \/ CleanFd("Run") /\ run' = "gone"
  /\ UNCHANGED <<status, done, relay, close>>

StartRelay ==
  /\ run = "relay"
  /\ pending' = 3 /\ tcp' = "listen" /\ udp' = "listen"
  /\ run' = "wait"
  /\ UNCHANGED <<status, done, dev, failed, dnsw, sock, conns, close>>

WaitOver ==
  /\ run = "wait" /\ pending = 0
  /\ run' = IF failed THEN "gone" ELSE "read"
  /\ UNCHANGED <<status, done, dev, relay, close>>

(* Reading fails once the device is closed: Run returns, or tries again.   *)
ReadFails ==
  /\ run = "read" /\ fd = "closed"
  /\ run' = IF status # "Running" THEN "gone" ELSE "read"
  /\ UNCHANGED <<status, done, dev, relay, close>>

-----------------------------------------------------------------------------
(* The relay.                                                              *)
CanListen == fd = "open"
MayFail(what) == what \in Faults \/ ~CanListen

TcpListens ==
  /\ tcp = "listen" /\ CanListen
  /\ tcp' = "accept" /\ pending' = pending - 1
  /\ UNCHANGED <<status, run, done, dev, failed, udp, dnsw, sock, conns, close>>

TcpFails ==
  /\ tcp = "listen" /\ MayFail("tcp")
  /\ tcp' = "gone" /\ failed' = TRUE /\ pending' = pending - 1
  /\ UNCHANGED <<status, run, done, dev, udp, dnsw, sock, conns, close>>

(* Accept gives a connection after Close: the loop ends.                   *)
TcpEnds ==
  /\ tcp = "accept" /\ status = "Closed" /\ CanListen
  /\ tcp' = "gone"
  /\ UNCHANGED <<status, run, done, dev, pending, failed, udp, dnsw, sock, conns, close>>

TcpAccepts ==
  /\ tcp = "accept" /\ status # "Closed" /\ CanListen
  /\ fresh + live < MaxStreams
  /\ fresh' = fresh + 1
  /\ UNCHANGED <<status, run, done, dev, pending, failed, tcp, udp, dnsw, sock, live, entry, close>>

StreamStores ==
  /\ fresh > 0
  /\ fresh' = fresh - 1 /\ live' = live + 1 /\ entry' = "tcp"
  /\ UNCHANGED <<status, run, done, dev, pending, failed, tcp, udp, dnsw, sock, close>>

StreamEnds ==
  /\ live > 0
  /\ live' = live - 1 /\ entry' = "none"
  /\ UNCHANGED <<status, run, done, dev, pending, failed, tcp, udp, dnsw, sock, fresh, close>>

UdpListens ==
  /\ udp = "listen" /\ CanListen
  /\ udp' = "store" /\ sock' = "open" /\ pending' = pending - 1
  /\ UNCHANGED <<status, run, done, dev, failed, tcp, dnsw, conns, close>>

(* Without the UDP socket the DNS goroutine is never started.              *)
UdpFails ==
  /\ udp = "listen" /\ MayFail("udp")
  /\ udp' = "gone" /\ failed' = TRUE /\ pending' = pending - 1
  /\ UNCHANGED <<status, run, done, dev, tcp, dnsw, sock, conns, close>>

UdpStores ==
  /\ udp = "store"
  /\ entry' = "udp" /\ udp' = "check" /\ dnsw' = "listen"
  /\ UNCHANGED <<status, run, done, dev, pending, failed, tcp, sock, fresh, live, close>>

UdpChecks ==
  /\ udp = "check"
  /\ IF status = "Closed"
     THEN udp' = "gone" /\ entry' = "none" /\ sock' = "closed"
     ELSE udp' = "recv" /\ UNCHANGED <<entry, sock>>
  /\ UNCHANGED <<status, run, done, dev, pending, failed, tcp, dnsw, fresh, live, close>>

(* A datagram came; or the socket is closed and reading from it fails.     *)
UdpReads ==
  /\ udp = "recv" /\ sock = "open"
  /\ udp' = "check"
  /\ UNCHANGED <<status, run, done, dev, pending, failed, tcp, dnsw, sock, conns, close>>

UdpReadFails ==
  /\ udp = "recv" /\ sock = "closed"
  /\ udp' = "check"
  /\ UNCHANGED <<status, run, done, dev, pending, failed, tcp, dnsw, sock, conns, close>>

DnsListens ==
  /\ dnsw = "listen"
  /\ dnsw' = "work" /\ pending' = pending - 1
  /\ UNCHANGED <<status, run, done, dev, failed, tcp, udp, sock, conns, close>>

DnsFails_notDone ==
  /\ dnsw = "listen" /\ "dns" \in Faults
  /\ dnsw' = "gone" /\ failed' = TRUE
  /\ UNCHANGED <<status, run, done, dev, pending, tcp, udp, sock, conns, close>>

DnsFails ==
  /\ dnsw = "listen" /\ "dns" \in Faults
  /\ dnsw' = "gone" /\ failed' = TRUE /\ pending' = pending - 1
  /\ UNCHANGED <<status, run, done, dev, tcp, udp, sock, conns, close>>

-----------------------------------------------------------------------------
(* Close.                                                                  *)
CloseOrder_lateMark == <<"clean", "conns", "mark">>
CloseOrder == <<"mark", "clean", "conns">>
At(step) == closer \in 1 .. 3 /\ CloseOrder[closer] = step

BeforeSetupOver == run \in {"start", "open", "setup", "clean"}

(* There is nothing to do for a TUN that does not run yet.                 *)
CloseBegins ==
  /\ closer = 0
  /\ closer' = IF status \in {"Ready", "Closed"} THEN 4 ELSE 1
  /\ overlap' = BeforeSetupOver
  /\ UNCHANGED <<status, run, done, dev, relay>>

CloseMarks ==
  /\ At("mark")
  /\ status' = "Closed" /\ closer' = closer + 1
  /\ UNCHANGED <<run, done, dev, relay, overlap>>

CloseCleans_keepsFd ==
  /\ At("clean")
  /\ \/ CleanRule("Close") /\ UNCHANGED closer
     \/ cleaned["Close"] = Rules /\ closer' = closer + 1 /\ UNCHANGED dev
  /\ UNCHANGED <<status, run, done, relay, overlap>>

CloseCleans ==
  /\ At("clean")
  /\ \/ CleanRule("Close") /\ UNCHANGED closer
     \/ CleanFd("Close") /\ closer' = closer + 1
  /\ UNCHANGED <<status, run, done, relay, overlap>>

CloseConns ==
  /\ At("conns")
  /\ sock' = IF entry = "udp" THEN "closed" ELSE sock
  /\ closer' = closer + 1
  /\ UNCHANGED <<status, run, done, dev, pending, failed, tcp, udp, dnsw, conns, overlap>>

-----------------------------------------------------------------------------
RunStep ==
  \/ Start \/ Open \/ SetupCmd \/ SetupFails \/ RunCleans
  \/ StartRelay \/ WaitOver \/ ReadFails
TcpStep == TcpListens \/ TcpFails
UdpStep == UdpListens \/ UdpFails \/ UdpStores \/ UdpChecks \/ UdpReadFails
DnsStep == DnsListens \/ DnsFails
CloseStep == CloseMarks \/ CloseCleans \/ CloseConns

Next ==
  RunStep \/ TcpStep \/ TcpEnds \/ TcpAccepts \/ StreamStores \/ StreamEnds
  \/ UdpStep \/ UdpReads \/ DnsStep \/ CloseBegins \/ CloseStep

(* Every goroutine goes on while it can; a listener or a command answers.  *)
(* Nothing makes a signal, a connection or a datagram come.                *)
Fairness ==
  /\ WF_vars(RunStep) /\ WF_vars(TcpStep) /\ WF_vars(UdpStep)
  /\ WF_vars(DnsStep) /\ WF_vars(CloseStep)

Spec == Init /\ [][Next]_vars /\ Fairness

-----------------------------------------------------------------------------
(* Every variable has its type, and the WaitGroup counts the goroutines    *)
(* that have not said Done, those not yet started included.                *)
TypeOK ==
  /\ status \in {"Ready", "Running", "Closed"}
  /\ run \in {"start", "open", "setup", "clean", "relay", "wait", "read", "gone"}
  /\ done \in 0 .. Cmds /\ fd \in {"none", "open", "closed"}
  /\ rules \subseteq 1 .. Rules /\ kept \subseteq rules
  /\ cleaned \in [{"Run", "Close"} -> 0 .. Rules + 1]
  /\ pending \in 0 .. 3 /\ failed \in BOOLEAN
  /\ fresh \in 0 .. MaxStreams /\ live \in 0 .. MaxStreams
  /\ entry \in {"none", "udp", "tcp"}
  /\ tcp \in {"none", "listen", "accept", "gone"}
  /\ udp \in {"none", "listen", "store", "check", "recv", "gone"}
  /\ dnsw \in {"none", "listen", "work", "gone"}
  /\ sock \in {"none", "open", "closed"}
  /\ closer \in 0 .. 4 /\ overlap \in BOOLEAN
  /\ udp # "none" =>
       pending = (IF tcp = "listen" THEN 1 ELSE 0) + (IF udp = "listen" THEN 1 ELSE 0)
                 + (IF dnsw \in {"none", "listen"} THEN 1 ELSE 0)

(* Run does not read a device over and over that Close has closed.         *)
NoSpin == run = "read" /\ fd = "closed" => status = "Closed"

(* When Close comes after setup, no rule is left on the machine, which     *)
(* would send its traffic to a device that is gone, except those that the  *)
(* last attempt to delete failed on: one failure does not save the others. *)
RulesRemoved == closer = 4 /\ ~overlap => rules \subseteq kept

(* Setup is all or nothing: when a command fails, Run leaves no device,    *)
(* and of the rules only those that could not be deleted.                  *)
SetupUndone ==
  run = "gone" /\ done < Cmds => rules \subseteq kept /\ fd # "open"

(* A TUN that was closed does not run again.                               *)
ClosedIsFinal == [][status = "Closed" => status' = "Closed"]_vars

(* After Close the loop that reads the device ends.                        *)
ReadLoopEnds == (closer = 4 /\ run = "read" /\ ~overlap) ~> run = "gone"

(* After Close the loop that reads the UDP relay ends, wherever it was,    *)
(* unless a TCP connection took the place of its socket in t.conns.        *)
UdpLoopEnds ==
  [](live = 0) => (closer = 4 /\ status = "Closed" /\ udp \in {"store", "check", "recv"})
                    ~> udp = "gone"

(* Run does not wait for ever for the relay: it reads packets or reports   *)
(* why it cannot, unless Close comes or the UDP socket is not to be had,   *)
(* in which case nobody starts the third goroutine Run waits for.          *)
RelayStarts ==
  [](udp = "gone" => dnsw # "none")
    => ((run = "wait" /\ closer = 0) ~> (run # "wait" \/ closer # 0))

=============================================================================
