-------------------------------- MODULE Iface -------------------------------
(***************************************************************************)
(* component/iface: the addresses of this machine that outgoing sockets    *)
(* are bound to, read anew every minute.  Callers read them under a        *)
(* sync.RWMutex, whose Lock keeps new readers out as soon as it waits.     *)
(***************************************************************************)
EXTENDS Naturals, FiniteSets

CONSTANTS
  Reader,   \* goroutines that ask for an address
  IfName,   \* names of network interfaces
  Nets,     \* what the machine's interfaces can be: the address families
            \* each has while it is usable, none while it is not or its
            \* addresses cannot be read; Nil if they cannot be listed
  Nil

Family == {4, 6}

VARIABLES
  net,      \* the interfaces as they are
  known,    \* defaultIfaces; Nil if none was usable at the start
  held,     \* whether the write lock is held
  upd,      \* where the updating goroutine is
  pc,       \* where each reader is
  wants,    \* the family each reader asks for
  got       \* what readers were answered: an interface, "zero" or "error"

vars == <<net, known, held, upd, pc, wants, got>>

Usable(n) == IF n = Nil THEN {} ELSE {i \in IfName : n[i] # {}}

(* newInterfaces gives nil when no interface is usable, or none is known.  *)
Scanned(n) == IF Usable(n) = {} THEN Nil ELSE n

Init ==
  /\ net \in Nets /\ known = Scanned(net)
  /\ held = FALSE /\ upd = "sleep"
  /\ pc = [r \in Reader |-> "idle"]
  /\ wants = [r \in Reader |-> Nil]
  /\ got = [r \in Reader |-> Nil]

(* Interfaces come and go by themselves.                                   *)
NetworkChanges == net' \in Nets /\ UNCHANGED <<known, held, upd, pc, wants, got>>

-----------------------------------------------------------------------------
Ask(r, f) ==
  /\ pc[r] = "idle"
  /\ pc' = [pc EXCEPT ![r] = "wait"]
  /\ wants' = [wants EXCEPT ![r] = f]
  /\ UNCHANGED <<net, known, held, upd, got>>

ReadLock(r) ==
  /\ pc[r] = "wait" /\ ~held /\ upd # "lock"
  /\ pc' = [pc EXCEPT ![r] = "read"]
  /\ UNCHANGED <<net, known, held, upd, wants, got>>

(* GetIPv4 and GetIPv6: the first interface, in any order, that has an     *)
(* address of the family; without one `out' stays all zeros.               *)
Answers(f) ==
  IF known = Nil THEN {"error"}
  ELSE IF \E i \in IfName : f \in known[i]
       THEN {i \in IfName : f \in known[i]}
       ELSE {"zero"}

Answer(r) ==
  /\ pc[r] = "read"
  /\ \E a \in Answers(wants[r]) : got' = [got EXCEPT ![r] = a]
  /\ pc' = [pc EXCEPT ![r] = "idle"]
  /\ wants' = [wants EXCEPT ![r] = Nil]
  /\ UNCHANGED <<net, known, held, upd>>

-----------------------------------------------------------------------------
Tick ==
  /\ upd = "sleep"
  /\ upd' = "lock"
  /\ UNCHANGED <<net, known, held, pc, wants, got>>

WriteLock ==
  /\ upd = "lock" /\ ~held /\ \A r \in Reader : pc[r] # "read"
  /\ held' = TRUE /\ upd' = "scan"
  /\ UNCHANGED <<net, known, pc, wants, got>>

Update_keepsOld ==
  /\ upd = "scan" /\ Scanned(net) # Nil
  /\ held' = FALSE /\ upd' = "sleep"
  /\ UNCHANGED <<net, known, pc, wants, got>>

Update_keepsLock ==
  /\ upd = "scan" /\ Scanned(net) # Nil
  /\ known' = net
  /\ upd' = "sleep"
  /\ UNCHANGED <<net, held, pc, wants, got>>

Update ==
  /\ upd = "scan" /\ Scanned(net) # Nil
  /\ known' = net
  /\ held' = FALSE /\ upd' = "sleep"
  /\ UNCHANGED <<net, pc, wants, got>>

(* newInterfaces fails: the loop continues, with the lock held.            *)
UpdateFails ==
  /\ upd = "scan" /\ Scanned(net) = Nil
  /\ upd' = "sleep"
  /\ UNCHANGED <<net, known, held, pc, wants, got>>

Step ==
  \/ NetworkChanges \/ Tick \/ WriteLock \/ Update \/ UpdateFails
  \/ \E r \in Reader : ReadLock(r) \/ Answer(r)

Next == Step \/ \E r \in Reader, f \in Family : Ask(r, f)

(* The ticker ticks, and goroutines that can go on do.  A waiting writer   *)
(* lets the readers that wait pass when it unlocks, so each gets its turn. *)
Fairness ==
  /\ WF_vars(Tick) /\ WF_vars(WriteLock) /\ WF_vars(Update) /\ WF_vars(UpdateFails)
  /\ \A r \in Reader : SF_vars(ReadLock(r)) /\ WF_vars(Answer(r))

Spec == Init /\ [][Next]_vars /\ Fairness

-----------------------------------------------------------------------------
NetUp == Usable(net) # {}

(* Whoever asks for an address is answered, as long as no update fails for *)
(* want of a usable interface or of a list of them.                        *)
ReadersServed ==
  []NetUp => \A r \in Reader : pc[r] = "wait" ~> pc[r] = "idle"

(* When the interfaces stop changing, what readers are told about them     *)
(* becomes and stays true, with the same exception.                        *)
CatchesUp ==
  []NetUp => \A n \in Nets : <>[](net = n) => <>[](known = n)

=============================================================================
