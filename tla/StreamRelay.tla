---------------------------- MODULE StreamRelay -----------------------------
(***************************************************************************)
(* How a stream goes through: handleStream of a general ingress accepts a  *)
(* connection and starts a handler for it; processStream of the egress the *)
(* router picks dials the remote and copies both ways, one way in the      *)
(* handler (from the client), the other in a goroutine (from the remote),  *)
(* until both are over.  When one way ends, it gives the other a few       *)
(* seconds.  Close of the ingress and of the egresses may come meanwhile.  *)
(*                                                                         *)
(* All accepted connections have the local address of the listener, which  *)
(* is the key of the ingress's table, so it has one entry; those an egress *)
(* dials have addresses of their own.  What a peer sends, any number of    *)
(* times, is one unit at a time.  Peers take what is written to them: a    *)
(* copy waits to read, never to write.  A step that touches nothing others *)
(* see (a handshake, dialing) is one with the step after it that does.     *)
(* What a peer does once the program has closed its end reaches nobody and *)
(* is left out.                                                            *)
(***************************************************************************)
EXTENDS Naturals

CONSTANTS
  Conn,     \* the connections clients make
  Route,    \* the egresses the router may pick for each: "general",
            \* "direct" or "reject", as the rules have it
  Talker,   \* those whose peers send, end or reset
  Nil

Egress == {"general", "direct", "reject"}

ASSUME StreamRelayAssumption ==
  /\ Route \in [Conn -> SUBSET Egress]
  /\ Talker \subseteq Conn /\ Nil \notin Conn \cup Egress

Side == {"client", "remote"}
Other(s) == IF s = "client" THEN "remote" ELSE "client"

VARIABLES
  listen,   \* whether the ingress accepts connections
  entry,    \* the connection in the ingress's table
  status,   \* of the ingress and of the general egress
  h,        \* where each handler is
  sock,     \* the program's ends of each connection
  peer,     \* what each peer has done: "open", "fin" (no more to come), "rst"
  data,     \* what each peer has sent and the program has not passed on
  copy,     \* the two ways, by the side they read from
  dead,     \* the read deadline of each end
  via,      \* the egress of each connection
  table,    \* conns of the egresses
  closes,   \* the Close calls that were made: "ingress" or an egress
  reached   \* the connections that Close of their egress found

streams == <<h, sock, peer, data, copy, dead>>
vars == <<listen, entry, status, streams, via, table, closes, reached>>

EachSide(v) == [i \in Conn |-> [s \in Side |-> v]]

Init ==
  /\ listen = TRUE /\ entry = Nil
  /\ status = [ingress |-> "Running", general |-> "Ready"]
  /\ h = [i \in Conn |-> "none"]
  /\ sock = EachSide("none") /\ peer = EachSide("open")
  /\ data = EachSide("none") /\ copy = EachSide("none") /\ dead = EachSide("none")
  /\ via = [i \in Conn |-> Nil]
  /\ table = {} /\ closes = {} /\ reached = {}

-----------------------------------------------------------------------------
(* The peers.                                                              *)
Sends(i, s) ==
  /\ i \in Talker /\ sock[i][s] = "open"
  /\ peer[i][s] = "open" /\ data[i][s] = "none"
  /\ data' = [data EXCEPT ![i][s] = "sent"]
  /\ UNCHANGED <<listen, entry, status, h, sock, peer, copy, dead, via, table, closes, reached>>

Finishes(i, s) ==
  /\ i \in Talker /\ sock[i][s] = "open" /\ peer[i][s] = "open"
  /\ peer' = [peer EXCEPT ![i][s] = "fin"]
  /\ UNCHANGED <<listen, entry, status, h, sock, data, copy, dead, via, table, closes, reached>>

Resets(i, s) ==
  /\ i \in Talker /\ sock[i][s] = "open" /\ peer[i][s] # "rst"
  /\ peer' = [peer EXCEPT ![i][s] = "rst"]
  /\ UNCHANGED <<listen, entry, status, h, sock, data, copy, dead, via, table, closes, reached>>

-----------------------------------------------------------------------------
(* handleStream.                                                           *)
Goto(i, l) == h' = [h EXCEPT ![i] = l]
Shut(i, s) == sock' = [sock EXCEPT ![i][s] = "closed"]

Accept(i) ==
  /\ listen /\ h[i] = "none"
  /\ IF status.ingress = "Closed"
     THEN Shut(i, "client") /\ Goto(i, "gone") /\ listen' = FALSE
     ELSE /\ sock' = [sock EXCEPT ![i]["client"] = "open"]
          /\ Goto(i, "shake") /\ UNCHANGED listen
  /\ UNCHANGED <<entry, status, peer, data, copy, dead, via, table, closes, reached>>

(* The proxy's handshake with the client, then conns.Store; if it fails    *)
(* the handler returns and leaves the connection as it is.                 *)
Shaken(i) ==
  /\ h[i] = "shake"
  /\ entry' = i
  /\ Goto(i, "dispatch")
  /\ UNCHANGED <<listen, status, sock, peer, data, copy, dead, via, table, closes, reached>>

ShakeFails(i) ==
  /\ h[i] = "shake"
  /\ Goto(i, "failed")
  /\ UNCHANGED <<listen, entry, status, sock, peer, data, copy, dead, via, table, closes, reached>>

(* The deferred end of the handler, whosever the entry is.                 *)
Leave(i) ==
  /\ h[i] = "leave"
  /\ entry' = Nil
  /\ Shut(i, "client") /\ Goto(i, "gone")
  /\ UNCHANGED <<listen, status, peer, data, copy, dead, via, table, closes, reached>>

-----------------------------------------------------------------------------
(* ProcessStream of the egress.                                            *)
Dispatch_quiet(i, k) ==
  /\ h[i] = "dispatch"
  /\ via' = [via EXCEPT ![i] = k]
  /\ Goto(i, IF k = "reject" THEN "leave" ELSE "dial")
  /\ UNCHANGED <<listen, entry, status, sock, peer, data, copy, dead, table, closes, reached>>

(* REJECT does nothing; the general egress is in use from here on.         *)
Dispatch(i, k) ==
  /\ h[i] = "dispatch"
  /\ via' = [via EXCEPT ![i] = k]
  /\ status' = IF k = "general" THEN [status EXCEPT !.general = "Running"]
               ELSE status
  /\ Goto(i, IF k = "reject" THEN "leave" ELSE "dial")
  /\ UNCHANGED <<listen, entry, sock, peer, data, copy, dead, table, closes, reached>>

DialFails(i) ==
  /\ h[i] = "dial"
  /\ Goto(i, "leave")
  /\ UNCHANGED <<listen, entry, status, sock, peer, data, copy, dead, via, table, closes, reached>>

StartCopies(i) == copy' = [copy EXCEPT ![i] = [s \in Side |-> "run"]]

(* conns.Store; then a general egress has its proxy's handshake.           *)
Dialed(i) ==
  /\ h[i] = "dial"
  /\ sock' = [sock EXCEPT ![i]["remote"] = "open"]
  /\ table' = table \cup {i}
  /\ IF via[i] = "general"
     THEN Goto(i, "proxy") /\ UNCHANGED copy
     ELSE Goto(i, "copy") /\ StartCopies(i)
  /\ UNCHANGED <<listen, entry, status, peer, data, dead, via, closes, reached>>

Proxied(i) ==
  /\ h[i] = "proxy" /\ sock[i]["remote"] = "open"
  /\ Goto(i, "copy") /\ StartCopies(i)
  /\ UNCHANGED <<listen, entry, status, sock, peer, data, dead, via, table, closes, reached>>

ProxyFails_early(i) ==
  /\ h[i] = "proxy"
  /\ Goto(i, "leave")
  /\ UNCHANGED <<listen, entry, status, sock, peer, data, copy, dead, via, table, closes, reached>>

ProxyFails(i) ==
  /\ h[i] = "proxy"
  /\ Goto(i, "unwind")
  /\ UNCHANGED <<listen, entry, status, sock, peer, data, copy, dead, via, table, closes, reached>>

(* io.Copy, one way.  A read fails at the end of a connection, past its    *)
(* deadline whatever is there to be read, or when the end is closed.       *)
Broken(i, s)   == sock[i][s] = "closed" \/ peer[i][s] = "rst"
ReadEnds(i, s) == \/ Broken(i, s) \/ dead[i][s] = "past"
                  \/ peer[i][s] = "fin" /\ data[i][s] # "sent"
CanRead(i, s)  == /\ ~Broken(i, s) /\ dead[i][s] # "past"
                  /\ data[i][s] = "sent"

Copies(i, s) ==
  /\ copy[i][s] = "run" /\ CanRead(i, s) /\ ~Broken(i, Other(s))
  /\ data' = [data EXCEPT ![i][s] = "none"]
  /\ UNCHANGED <<listen, entry, status, h, sock, peer, copy, dead, via, table, closes, reached>>

GivesTime_own(i, s) ==
  dead' = [dead EXCEPT ![i][s] = IF @ = "none" THEN "set" ELSE @]

(* The end the other way reads from gets a deadline.                       *)
GivesTime(i, s) ==
  dead' = [dead EXCEPT ![i][Other(s)] = IF @ = "none" THEN "set" ELSE @]

CopyEnds(i, s) ==
  /\ copy[i][s] = "run"
  /\ \/ ReadEnds(i, s) /\ UNCHANGED data
     \/ /\ CanRead(i, s) /\ Broken(i, Other(s))
        /\ data' = [data EXCEPT ![i][s] = "dropped"]
  /\ copy' = [copy EXCEPT ![i][s] = "done"]
  /\ GivesTime(i, s)
  /\ UNCHANGED <<listen, entry, status, h, sock, peer, via, table, closes, reached>>

TimePasses(i, s) ==
  /\ dead[i][s] = "set" /\ sock[i][s] = "open"
  /\ dead' = [dead EXCEPT ![i][s] = "past"]
  /\ UNCHANGED <<listen, entry, status, h, sock, peer, data, copy, via, table, closes, reached>>

CopiesOver_oneWay(i) ==
  /\ h[i] = "copy" /\ copy[i]["client"] = "done"
  /\ Goto(i, "unwind")
  /\ UNCHANGED <<listen, entry, status, sock, peer, data, copy, dead, via, table, closes, reached>>

(* The handler's own way is over and the goroutine has said that its is.   *)
CopiesOver(i) ==
  /\ h[i] = "copy" /\ \A s \in Side : copy[i][s] = "done"
  /\ Goto(i, "unwind")
  /\ UNCHANGED <<listen, entry, status, sock, peer, data, copy, dead, via, table, closes, reached>>

(* The deferred end of processStream.                                      *)
Unwind(i) ==
  /\ h[i] = "unwind"
  /\ table' = table \ {i}
  /\ Shut(i, "remote") /\ Goto(i, "leave")
  /\ UNCHANGED <<listen, entry, status, peer, data, copy, dead, via, closes, reached>>

-----------------------------------------------------------------------------
(* Close of the ingress: the connection its table has, then the status.    *)
CloseIngress ==
  /\ "ingress" \notin closes
  /\ closes' = closes \cup {"ingress"}
  /\ IF entry # Nil THEN Shut(entry, "client") ELSE UNCHANGED sock
  /\ status' = [status EXCEPT !.ingress = "Closed"]
  /\ UNCHANGED <<listen, entry, h, peer, data, copy, dead, via, table, reached>>

(* Close of an egress: those of its table; main closes them after the      *)
(* ingress.  The general egress has nothing to close before it was used.     *)
ShutAll(S) == sock' = [i \in Conn |-> IF i \in S
                                      THEN [sock[i] EXCEPT !["remote"] = "closed"]
                                      ELSE sock[i]]
Of(k) == {i \in table : via[i] = k}

CloseGeneral ==
  /\ "ingress" \in closes /\ "general" \notin closes
  /\ closes' = closes \cup {"general"}
  /\ IF status.general = "Running"
     THEN ShutAll(Of("general")) /\ status' = [status EXCEPT !.general = "Closed"]
     ELSE UNCHANGED <<sock, status>>
  /\ reached' = reached \cup Of("general")
  /\ UNCHANGED <<listen, entry, h, peer, data, copy, dead, via, table>>

CloseDirect ==
  /\ "ingress" \in closes /\ "direct" \notin closes
  /\ closes' = closes \cup {"direct"}
  /\ ShutAll(Of("direct"))
  /\ reached' = reached \cup Of("direct")
  /\ UNCHANGED <<listen, entry, status, h, peer, data, copy, dead, via, table>>

-----------------------------------------------------------------------------
(* Steps of a handler that depend on nobody: dialing gives up in the end,  *)
(* handshakes have no time limit, and fail when the connection is closed.  *)
HandlerStep(i) ==
  \/ \E k \in Route[i] : Dispatch(i, k)
  \/ Dialed(i) \/ DialFails(i)
  \/ sock[i]["remote"] = "closed" /\ ProxyFails(i)
  \/ CopiesOver(i) \/ Unwind(i) \/ Leave(i)

Next ==
  \/ \E i \in Conn :
       \/ Accept(i) \/ Shaken(i) \/ ShakeFails(i)
       \/ Proxied(i) \/ ProxyFails(i) \/ HandlerStep(i)
       \/ \E s \in Side :
            \/ Sends(i, s) \/ Finishes(i, s) \/ Resets(i, s)
            \/ Copies(i, s) \/ CopyEnds(i, s) \/ TimePasses(i, s)
  \/ CloseIngress \/ CloseGeneral \/ CloseDirect

(* Handlers go on and copies end when they must, and time passes.          *)
Fairness ==
  \A i \in Conn :
    /\ WF_vars(HandlerStep(i))
    /\ \A s \in Side : WF_vars(CopyEnds(i, s)) /\ WF_vars(TimePasses(i, s))

Spec == Init /\ [][Next]_vars /\ Fairness

-----------------------------------------------------------------------------
Types ==
  /\ listen \in BOOLEAN /\ entry \in Conn \cup {Nil}
  /\ status \in [ingress : {"Running", "Closed"}, general : {"Ready", "Running", "Closed"}]
  /\ h \in [Conn -> {"none", "shake", "failed", "dispatch", "dial", "proxy",
                     "copy", "unwind", "leave", "gone"}]
  /\ sock \in [Conn -> [Side -> {"none", "open", "closed"}]]
  /\ peer \in [Conn -> [Side -> {"open", "fin", "rst"}]]
  /\ data \in [Conn -> [Side -> {"none", "sent", "dropped"}]]
  /\ copy \in [Conn -> [Side -> {"none", "run", "done"}]]
  /\ dead \in [Conn -> [Side -> {"none", "set", "past"}]]
  /\ via \in [Conn -> Egress \cup {Nil}]
  /\ table \subseteq Conn /\ reached \subseteq Conn
  /\ closes \subseteq {"ingress", "general", "direct"}

(* Every variable has its type, and a deadline is only ever set for a way  *)
(* when the other is over: a stream that is idle is not cut.               *)
TypeOK ==
  /\ Types
  /\ \A i \in Conn, s \in Side :
       dead[i][s] # "none" => copy[i][Other(s)] = "done"

(* What a peer sends before it ends its side reaches the other peer unless *)
(* somebody reset the connection, Close came, or the time is over that the *)
(* end of the other way left.                                              *)
NothingCut ==
  \A i \in Conn, s \in Side :
    copy[i][s] = "done" /\ data[i][s] \in {"sent", "dropped"} =>
      \/ dead[i][s] = "past" \/ closes # {}
      \/ \E t \in Side : peer[i][t] = "rst"

(* A handler that is over, wherever it failed, has closed both its ends,   *)
(* with one exception, which is the code's: when the handshake with the    *)
(* client fails it returns and leaves the client's connection open.        *)
NothingLeaks ==
  \A i \in Conn, s \in Side :
    h[i] \in {"gone", "failed"} /\ sock[i][s] = "open" =>
      h[i] = "failed" /\ s = "client"

(* When one way is over so is the stream, soon: a peer that stays silent   *)
(* or goes on sending does not keep it.                                    *)
StreamsEnd ==
  \A i \in Conn : (\E s \in Side : copy[i][s] = "done") ~> h[i] = "gone"

(* A stream that Close of its egress found ends.                           *)
ClosedStreamsEnd == \A i \in Conn : i \in reached ~> h[i] = "gone"

=============================================================================
