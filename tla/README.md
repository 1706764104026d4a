# Verification of rdcross

TLA+ specifications of rdcross, a transparent proxy in Go: it takes traffic from
a TUN device or from sockets, routes it by rules, and sends it on directly or
through Shadowsocks, Socks or raw TCP/UDP. The modules model the code at this
commit, TLC checks them on small instances, and TLAPS proves the results that
matter most for every value of the constants. `src/` below is the repository;
`PROJECT.json` maps each definition to the lines it models.

## 1. Inventory

| Component | State it keeps | Operations | What makes it correct |
|---|---|---|---|
| LRU table (`util/lru`) | a `container/list`, two `sync.Map`s key -> element and value -> element, a mutex | Get, GetKeyFromValue, Put, IsFull, GetLastValue (each under `l.m`) | list and indexes agree; bounded; drops the least recently used |
| Fake address pool (`component/fakeip`) | the LRU, `nextIP`, the mutex `f.m` held by Put only | Put, GetIPByDomain, GetDomainByIP | one domain per address and back; the search for an address ends; no address changes hands while there is room |
| DNS server (`dns`) | the pool; upstreams | `fakeipDNS.ServeDNS`, `defaultDNS.ServeDNS` in one goroutine per query; `asyncQuery`; `ResolveIP`; `GetDomainByIP` | every query is answered; one upstream that fails does not hide the answer of another |
| TUN ingress (`ingress/tun`) | device, NAT tables `tcpNat` and `udpNat`, a pool of its own, `conns`, `status`, the DNS channel | Run (packet loop), setup and clean (ip commands), relay (goroutines for TCP, UDP, DNS), Close | packets of a flow go where it asked and replies come back to it; start is all or nothing; Close leaves nothing behind |
| Hijacked DNS (`tun.go` relay) | the channel of 200 queries, one worker with one socket | put a query, ask with a second's deadline, write the answer to the client | a client gets the answer to its query; a full channel does not stop the loop for good |
| UDP relay (`component/nat`, ingress loops, `ProcessPacket`) | one table client -> socket for the process; a goroutine per socket | handlePacket, the TUN's UDP loop, ProcessPacket of `general` and `direct` | a link is not used after its socket's goroutine deleted it; a client keeps its outside address |
| Local addresses (`component/iface`) | the interfaces known, an RWMutex | GetIPv4 and the like; an update every minute | readers are answered; what they are told becomes true |
| General ingress/egress, Direct, Reject | `conns`, `status` | accept loop, stream copies with deadlines, Close | both directions of a stream end; nothing sent is cut off; no connection is left open |
| Router (`router`, `util/trie`) | rules by type, priorities, a trie of domains | Insert, Dispatch, Search | the first matching rule of the configured priority decides; every flow has an egress |
| Configuration (`config`, `global`, `component/mmdb`) | names of egresses, ingresses and groups; rule lines; the GeoIP file | ParseEgress and the like, ParseRouter, register, InitMMDB | what the lines say is what Dispatch does; names that must differ do |
| Proxies (`component/proxy`) | Shadowsocks nonces, salts and buffers, Socks handshake | shadow a stream or packet connection, write a datagram | the server end goes where the client end was told; what one end writes the other reads |
| Packet headers (`tun/ip.go`, `tcp.go`, `udp.go`, `icmp.go`) | | accessors, updateChecksum, echo reply | a packet that was rewritten has right sums |
| Main (`cmd/rdcross`) | the registry of everything | Run until a signal, close everything | the process ends, in time and without a panic |

**How they interact.** `global.Init` parses the parts of the configuration in their
order and registers each for the next. `main.Run` starts the DNS server and one
goroutine per ingress, and on a signal closes DNS, ingresses and egresses in this
order. The DNS handlers fill the fake pool; the TUN's relay asks it
(`dns.GetDomainByIP`) what a destination stands for. The packet loop calls the TUN's
own pool and stores NAT entries that the relay's goroutines read. Every ingress
dispatches through the router and calls `ProcessStream` or `ProcessPacket` of an
egress, which calls package iface for an address to bind to; so do `asyncQuery` and
the DNS worker. All UDP code shares the one NAT table of `component/nat`.

**What is hard.** Handlers and loops interleave on tables whose lookups and stores
are separate calls; goroutines end in an order of their own and clean up by key; a
full pool recycles addresses that other tables remember; Close may come at any
moment of the start; the periodic update holds a lock that every dial needs; both
ends of a proxy must agree byte by byte on a handshake whose reads may fall short;
rules are text, and a search of the trie never goes back. PROJECT.json lists these
hazards with the line where each bites.

## 2. Modules

| Module | Models | Composes |
|---|---|---|
| `LRU` | `util/lru`: one operator per method | |
| `FakeIP` | `component/fakeip`: Put as the steps between its calls of the LRU | `LRU` |
| `FakeDNS` | `dns/fakeip.go`: concurrent handlers, PTR queries, lookups of the relay | `FakeIP` |
| `AbsPool` | abstract specification: a bounded table in order of last use | |
| `FakeDNSRefinement` | the refinement mapping FakeDNS -> AbsPool | `FakeDNS`, `AbsPool` |
| `TunNat` | `tun.go` processStream/processPacket, NAT tables, the relay's lookups | `FakeIP` |
| `Checksum` | the sums of packets that are translated or answered | |
| `TunHijack` | `tun.go` relay: the channel of hijacked queries and its worker | |
| `UdpRelay` | `nat.go`, both UDP loops, both `ProcessPacket`s | |
| `Iface` | `iface.go`: update and readers under the RWMutex | |
| `StreamRelay` | `handleStream`, `ProcessStream` of the general egress, Direct and Reject, and their Close | |
| `TunLife` | `tun.go` Run, setup, clean, relay's goroutines, Close | |
| `DnsQuery` | `asyncQuery` with its two callers | |
| `Shutdown` | `main.Run` from the signal on, a general ingress's Close, handlers and dialers that need an address | `Iface` |
| `Trie` | `util/trie`: Insert, Search, and what a set of patterns means | |
| `Router` | the rules of every type, Insert and Dispatch | `Trie` |
| `Config` | `global.Init`: names, rule lines, the GeoIP file, the order of it all | `Router` |
| `ProxyStream` | client end and server end of a proxied stream over one connection | |
| `ShadowPacket` | `shadowsocks/packetConn.go`: several goroutines write through one buffer | |
| `MC...` | constants of the instances for TLC; `MCTunNat` puts `Checksum` beside `TunNat` and `MCProxy` `ShadowPacket` beside `ProxyStream`, a behaviour being of one of the two | |
| `LRUProofs`, `FakeDNSProofs` | lemmas on the table; theorems of the pool | `FakeDNSRefinement` |
| `TunNatProofs` | theorems of the translation and of the sums | `TunNat`, `Checksum` |
| `TunProofs` | theorems of the hijacked queries and of the life cycle | `TunHijack`, `TunLife` |
| `UdpRelayProofs` | theorems of the NAT table and of datagrams written to clients | `UdpRelay`, `ShadowPacket` |
| `StreamProofs` | theorems of the relayed streams and of a stream through a proxy | `StreamRelay`, `ProxyStream` |
| `DnsProofs` | theorems of asyncQuery, of the exit and of the lock of package iface | `DnsQuery`, `Shutdown` |
| `ConfigProofs` | theorems of the start, the rules and the trie | `Config` |

Actions have the names of the code's steps. A method that runs under its lock is
one action; a method that makes several calls to something shared is one action
per call. An operator with an underscore and a word (`Overflows_late`) is a
mistake the definition after it could have been written with: PROJECT.json's
`mutants` say which property notices it, and no specification uses it.

**State and code.** `LRU`: `order`, `k2e`, `v2e` and `val` are the list, the two
maps and the elements' value fields. `FakeIP`: `pc` and `ip` are a caller's place
and local variable in Put, `holder` the mutex. `TunNat`: `nat` is `tcpNat` and
`udpNat`, `wire` what the loop wrote back to the device, `crashed` the panic of a
lookup that found nothing: of a packet the loop translated (`flow`), or of a sender
that reached the relay without it (`stranger`). `UdpRelay`: `table` is the NAT
table, `loop` the client and destination an ingress loop is inside ProcessPacket
for, `hand` the link it has looked up and not yet written to, `socks` the sockets
and where their goroutines are, `lost` what was written to a socket after its
goroutine ended and deleted the link.
`StreamRelay`: `h` is where the handler of a connection is, `copy` and `dead` its
two copies and the read deadlines of the connections they read. `TunHijack`:
`queue` is the channel, `asking` what the worker waits for, `inbox` its socket.
`Config`: `stage` is where Init is, `prior`, `rules`, `domains` and `default` the
router it builds, `egresses`, `groups` and `ingresses` the registry. `ProxyStream`:
`wire` is what the connection holds in each direction, `cpc` and `spc` where the
two handshakes are, `cbuf` and `sbuf` their buffers, `enc` and `dec` the nonces.
`DnsQuery`: `kept` says that an update has left the lock of package iface held, and
`Shutdown`: `lookups` how many upstreams a handler has got an address for.
`ShadowPacket`: `buffer` is `wBuffer`, `at` where each writer is in WriteMsgTo.
`TunLife` and `Shutdown`: program counters of Run, Close and the relay's
goroutines; in `TunLife` `entry` is what `t.conns` has under the relay's address,
`kept` the rules that are still there because the command to delete them failed.

**Abstractions.** An address of the pool is its offset in the CIDR (0 the network's,
`Size - 1` the broadcast address). Domains, clients and destinations are model
values. A list element of the LRU is named by its key and the value it was made
with, since the value index still reaches elements that left the list. In `TunNat`
the field `wide` says that an address came out of `net.ParseIP`, in 16 bytes, of
which the header gets the first four. In `UdpRelay` a datagram is known only by
where it came from; in `StreamRelay` the bytes of a direction only by whether they
were sent and have been passed on; in `TunHijack` a query is its number and an
answer the query it answers. In `Trie` a domain is the sequence of its labels and a
node the labels that lead to it; a rule line of `Config` is the sequence of its
fields, and a flow what Dispatch compares. In `ProxyStream` the bytes of a handshake
are the protocol's, a sealed chunk is its salt, nonce and content, and opens under
that salt and nonce only; a salt is as many items as it has bytes. `Checksum` has
all bytes of a packet's payload and the addresses, and one number for the words of
the header that no translation touches. A goroutine's error paths are a choice where
the outside decides (a port taken, a dial or a command that fails, a peer that
resets). In `StreamRelay` a peer takes what is written to it: a read deadline does
not bound a Write, and a copy blocked in one is not in the model. In `FakeDNS` a
handler sends whatever it has in the end; for queries of other types than A, AAAA
and PTR that is nothing (section 4).

## 3. Runs

Each run is the cfg of its name in this directory.

| Run | Instance | Shows |
|---|---|---|
| `FakeDNS_queries` | 2 handlers, 3 domains and a PTR name, pool of 2, lookups, in serial behaviours one query at a time | the table is coherent and bounded; the search for an address can end; before the pool is full no domain's address goes to another, save one of a domain that was put twice; every query comes to its end; without overlaps an address has one domain, reverse lookups are right, there is one for each domain until the pool is full, and the pool implements `AbsPool` |
| `TunNat_oneHost` | the machine's own applications, which have the device's address, 3 ports, 2 destinations, pool of 2; another machine that reaches the relay's address; packets of 3 protocols with 3 addresses, odd and even lengths, sums with and without carries | no lookup for a packet the loop translated fails; a flow keeps its translation; replies reach who asked, beyond the full pool; both sums of what is written back are right |
| `TunHijack_queries` | 6 queries, a channel for 2 | a wrong answer only after the worker gave up a query; every query comes to an end, if the worker started |
| `UdpRelay_links` | the TUN and another ingress, a client of both and one of the TUN alone, 2 sockets, both egresses | once a socket's goroutine has deleted the link, an ingress loses at most the datagram in its hand; a client of one ingress keeps its link |
| `StreamRelay_streams` | a stream of the general egress or Direct, one rejected, Close of each part at any time | nothing sent in time is cut off; a stream ends after one of its ways has and after Close; a handler leaves nothing open but the client's end after a failed handshake |
| `TunLife_close` | 2+3 setup commands, 2 TCP connections, faults everywhere, Close at any time | Close and a failed setup leave no rule but those whose deletion failed; the loops start and end (below) |
| `DnsQuery_calls` | 3 upstreams, both callers, the lock of package iface left held or not | the caller goes on, with the exceptions below; the call fails only if all fail and leaves no goroutine behind |
| `Shutdown_exit` | a query of 2 upstreams, a dialer, 2 interfaces that come and go or cannot be listed, a UDP ingress | readers are answered, what is known becomes true and the process ends, be it by a panic, all this while every update finds an interface |
| `Routing_config` | every list of 4 rule lines out of 10, names that clash or not, the database there, not there or broken off; flows of 2 ingresses, of a country or none, of 3 domains or none | Dispatch gives what the list states; a flow has an egress; the start gives up exactly when names clash |
| `Proxy_ends` | raw, Socks and Shadowsocks; IPv4 in 4 and 16 bytes, IPv6, a domain; writes of one and of more than one chunk; 2 writers of 2 datagrams | the stream goes where it was told to and all bytes arrive, no more and no less; a client gets its own datagram |
| `UdpRelay_echo`, `Shutdown_stuck` | | two disagreements, section 4 |

**Conditions.** Some properties have a hypothesis or an exception, each because the
code does not give more; section 4 says what happens otherwise.

* *Pool.* `NoStealWhileRoom` excepts the domains that two overlapping Puts have
  stored twice (`PutTwice`): the second of the addresses answered for one counts as
  free. `SerialOneDomain`, `SerialReverseSound`, `SerialReverse` and
  `RefinesPool` are of behaviours in which queries do not overlap and the packet
  loop looks nothing up. `QueriesAnswered` follows a handler to the end of
  ServeDNS, whatever it then has to send.
* *TUN.* `NoMissingEntry` is about packets the loop has translated; anybody else who
  sends to the relay's address and port makes its lookup panic. Sources have one
  address (`OneMachine`), which may be the device's own but none the pool gives out.
  `RulesRemoved` and `SetupUndone` except the rules whose deletion failed, as `clean`
  drops the errors of its commands. `RulesRemoved` and `ReadLoopEnds` are about a
  Close that comes after setup: one that overlaps it can delete rules before they are
  installed. `UdpLoopEnds` is about a relay without TCP connections, and
  `RelayStarts` about one that got its UDP socket. `QueriesEnd` is about a worker
  that got its socket.
* *UDP.* `LiveLinkKept` is about clients whose datagrams all come by one ingress
  (`OneWay`); `OwnDatagram` about a write that no other overlaps.
* *Streams.* `NothingLeaks` excepts the client's connection after a client handshake
  that failed. `NothingCut` excepts Close, a reset, and what comes after the few
  seconds that the end of one way leaves to the other. `StreamsEnd` and
  `ClosedStreamsEnd` rest on peers that take what is written to them.
* *Interfaces and the exit.* `ReadersServed`, `CatchesUp` and `Ends` are about a
  machine whose updates can list the interfaces and find a usable one (`[]NetUp`):
  one that does not keeps the lock for ever. `Ends` counts a panic as an end.
  `CallReturns` does not hold of a call without upstreams, nor while that lock is
  kept, when the call waits before it has asked; and a handler none of whose upstreams
  answered panics.
* *Routing.* `DispatchRight` excepts a domain whose best pattern is hidden by another
  (`Hidden`) and one that becomes a pattern when labels are left out (`Stumbles`).
  `FlowsHaveEgress` is about lists that end in a DEFAULT and name configured egresses.
* *Proxies.* `TunnelRight` and `AllArrives` are about handshakes whose reads were
  whole (`torn`), for Socks about addresses in the bytes of their family, and for
  Shadowsocks about domains of less than 256 bytes: at 256 the length byte is 0, and
  a longer one does not fit the buffer (`DestsAssumption`).

**Bounds.** `MaxSock` (UdpRelay), `MaxStreams` (TunLife), `N` (the upstreams of
DnsQuery, the queries of TunHijack), `Upstreams` (Shutdown, where one and several
lookups differ), `Room` (the channel, 200 in the code) and the sets `Conn` and
`Query` bound counts the code does not bound, or bounds higher. Real pools have 2^n
addresses; those of the runs have two that can be given, because every case (room,
exactly full, recycling, a recycled address recycled again, the wrap of the search)
happens with two, and the proofs cover every size from four on. Two handlers suffice
for the races between two steps of Put; two sockets for a link that is deleted, or
replaced by another ingress, while a loop holds it; `lost` counts to two; six
queries for a channel that is full while the worker is late twice. Streams share
only the table of their egress and the ingress's one entry, so two of them show what
one does to another. Four rule lines are enough for a rule that replaces another,
one of another type before it or after it, a PRIOR, and a DEFAULT with lines behind
it (`MaxLines`). `KeySize` and `MaxPayload` are two where the code has 16 or 32 and
16383: a salt that can be read in part, and writes of less than a chunk and of two;
`MaxBytes` and `MaxDatagrams` bound what is written. The server end is the one of
this repository, not another implementation's. A stream is followed until a read of
its handshake falls short, after which nothing is said of it. `/31` and `/32` pools
are outside (`FakeIPAssumption`): their capacity is negative, so the first Put takes
the value of the last element of an empty list (`fakeip.go:78`) and panics.
`CHECK_DEADLOCK FALSE` is set where the program really stops: after a panic, a
finished call, a closed TUN, connections that are all over, queries all done, a
start that is over, a stream on which all was written and read.

**Fairness.** Weak fairness on the next step of a goroutine that can go on,
which Go's scheduler gives. Strong fairness on taking a lock: `sync.Mutex` hands
itself to a waiter starved for a millisecond, and a waiting writer of an RWMutex
lets the readers through that wait when it unlocks. Queries, packets, datagrams,
connections, what a peer does and the signal come when they like: no fairness.
Upstreams have a read deadline of one second, so hearing an answer or an error is
fair in `DnsQuery` and reading or giving up in `TunHijack`. In `StreamRelay` a
dial, a handshake and a copy that has come to an end or an error go on, and a
deadline that was set passes; a copy whose peers are silent need not end. In
`Shutdown` the five seconds pass. In `ProxyStream` a handshake goes on and a read
returns when something has come; that anything is written is not assumed.

## 4. Where code and documentation disagree

Two runs expect the violation of one property; the finding in PROJECT.json quotes
the line it contradicts.

* `UdpRelay_echo`: a link's address is documented as what WriteTo uses
  (`nat.go:13`) and is the socket's own (`egress/general/general.go:234`,
  `direct.go:217`), so a client's second datagram comes back to it.
* `Shutdown_stuck`: the five-second timeout cannot end the wait for a stuck DNS
  handler (`main.go:80`, `main.go:95`).

The models also contain what follows; the properties of section 3 are stated
around it, as said there.

* Pool: on a full pool the reverse index loses a recycled address at once
  (`lru.go:69`); two concurrent queries for one new domain give it two addresses
  (`dns/fakeip.go:43`); a lookup between GetLastValue and Put leaves two domains
  with one address (`fakeip.go:78`). The second address of a
  domain put twice is not in the reverse index, so that it can go to another domain
  while there is room (`lru.go:57`). A query of another type than A, AAAA and PTR is
  sent no answer, as the reply holds a nil record (`dns/fakeip.go:69`).
* TUN: packets of a known source all go to its first destination (`tun.go:453`); on a
  full pool a new source is mapped to 0.0.0.0 (`tun.go:403`), and of two machines
  that send from one port one gets the other's replies (`tun.go:400`); after
  a timeout hijacked answers go to the wrong client (`tun.go:622`); who connects to
  the relay's own address and port has no entry, and the type assertion panics
  (`tun.go:530`, `tun.go:648`); `clean` drops the errors of its commands, so that a
  rule can outlive the device (`tun.go:262`).
* UDP: two ingresses that serve one client replace and delete each other's links
  (`egress/general/general.go:234`); the second datagram of a client of DIRECT
  panics (`ingress/general/general.go:216`).
* Addresses: an update that finds no interface, or cannot list them, leaves the lock
  held (`iface.go:176`);
  GetIPv4 answers 0.0.0.0 where there is no IPv4 address (`iface.go:134`).
* Streams: the client's connection stays open after a failed handshake
  (`ingress/general/general.go:125`); of several client connections Close finds
  one, as all have the same key (`ingress/general/general.go:134`).
* Start and stop: Close misses the TUN's UDP socket after a TCP connection
  (`tun.go:553`); Run waits for ever if that socket is not to be had (`tun.go:583`);
  closing a UDP ingress panics in the log call (`ingress/general/general.go:207`);
  resolving without upstreams dereferences nil (`resolve.go:43`), and a forwarding
  handler that got no answer writes a nil message (`dns/default.go:15`).
* Routing: a label that no pattern knows is passed over, so that
  `google.evil.com` is taken for `google.com` (`trie.go:68`), and a search that
  went down one pattern does not come back for another's wildcard (`trie.go:49`);
  a rule of type PRGNAME or of a type in small letters panics at the start
  (`router.go:84`, `router.go:95`); DEFAULT with its policy written out makes
  `none' the egress (`config.go:142`); what is registered as groups of ingresses
  are those of egresses (`global.go:258`); a broken download of the GeoIP file
  makes every later start panic, since `verify` closes a nil reader
  (`mmdb.go:65`).
* Proxies: the Socks client sends a domain without its length and an IPv4 address
  in 16 bytes as it is (`socks/streamConn.go:167`, `:176`); both Socks ends and
  the salts of Shadowsocks take a short read for a whole one
  (`socks/streamConn.go:51`, `shadowsocks/streamConn.go:55`); the Shadowsocks client
  writes the low byte of a domain's length and panics beyond 256 bytes
  (`shadowsocks/streamConn.go:132`); datagrams to
  different clients overwrite each other in `wBuffer` (`packetConn.go:111`).

Read, and not in a model: a Shadowsocks ingress panics at its first stream, since it
is given a name where `ShadowStreamConn` asserts metadata
(`ingress/general/general.go:124`, `shadowsocks.go:47`), so the server end of
`ProxyStream` is the one the package has, not one an ingress reaches; the Socks
packet connection never writes an address type (`socks/packetConn.go:60`); the
version test of `ip.go:72` compares the wrong half of the byte, so an IPv6 packet is
taken for IPv4.

## 5. Proofs

`tlapm` checks every theorem to its leaves. The assumptions are the named ASSUMEs
of the modules, which TLC evaluates in the runs.

* **FakeDNSProofs** (any handlers, names and pool of four addresses or more). `IInv`
  strengthens the checked invariants by what a caller inside Put knows: the holder
  of `f.m` is the caller in Put (`Exclusive`), an address picked while there is room
  is free until it is stored (`PickedFree`), and until the first eviction the value
  index has no more entries than the list (`FewTaken`). Without the last the search
  could not be shown to find an address: it follows by counting, `Size - 3` usable
  addresses against fewer entries. `TypeCorrect`, `PoolConsistent` and
  `SearchHasAFreeAddress` follow. So does the action property `AddressesStay`: while
  there is room the value index keeps the address each element was made with
  (`MadeIndexed`), the search passes over it, and only a domain put twice has
  another value than its element was made with. `LRUProofs` has the lemmas on
  MoveToFront, insertion and eviction.

  For one query at a time `SerialIInv` adds that only one caller is inside the
  pool (`Alone`), that the name it stores is still unknown (`Unknown`), that on a
  full pool it holds the address of the entry that is going to be evicted
  (`NextPicked`), and that the table is right as a whole (`TableRight`). Hence
  `OneDomain`, `ReverseIsSound`, `ReverseIsComplete`, and the refinement
  `ImplementsPool`: the step of Put that stores is the abstract pool's, the other
  steps change nothing it has.
* **TunNatProofs**. The sums, of any addresses, bytes and lengths a packet can
  have: a carry takes a multiple of 65535 away and leaves no zero (`CarryValue`),
  two rounds leave none of a 32-bit sum, so the complement makes the whole a
  multiple of 65535 (`ChecksumVerifies`). A word put where a word begins adds
  itself to the sum of the bytes (`SumPut`), and no packet's sum exceeds 32 bits
  (`SumBound`); hence the header (`HeadSumRight`), what follows it
  (`BodySumRight`) and every packet that is written back (`WrittenVerifies`).

  The translation, of any pool, destinations and ports of one machine: `IInv` has
  beside the properties that an address of the pool leads nowhere for a port that
  is not translated yet (`Unused`), so that a new flow overwrites nothing, and
  that what is on its way finds in the tables what the loop stored for it
  (`BothWays`, `OnTheWay`). `LookupsSucceed`, `RepliesComeBack`, `FlowsStick`, with
  strangers that reach the relay at any time. Of sources they assume that the pool
  does not give out their address, which the device's own is not: the pool gives
  usable addresses only (`Allotted`). And they assume `OneMachine`, that all
  sources have one address: with two machines
  a recycled address does bring one the other's replies (section 4).
* **UdpRelayProofs** (any ingresses, clients, sockets). `TypeCorrect`.
  `AtMostOneLost`: no link of the table leads to a socket whose goroutine is over
  (`NoDeadLink`), because a goroutine deletes whatever link its client has; hence a
  loop that has written to such a socket holds no link to it and looks none up any
  more (`LostOnce`), whichever links others delete and replace.
  `OneIngressKeepsLinks`, `OneIngressReplacesNoLink`: for a client that one ingress
  serves, the two steps of looking up and storing cannot be interleaved with
  another's (`OneAsks`), so the client an ingress is opening a socket for still has
  no link (`AsksUnlinked`). For the shared buffer, with any number of writers: a
  write that nobody overlapped finds in it, at each of its steps, what it put there
  itself (`Mine`), hence `UnsharedIsOwn`.
* **StreamProofs**. Relayed streams (any number): `IInv` says of each connection
  which sockets and copies there are where its handler is, and of a copy that is
  over that its peer ended and all was passed on, or that something stopped the
  stream (`Stopped`). `TypeCorrect`, `NothingIsCut`; `NothingIsLeft`, of every
  handler that has returned, the failed client handshake being the only way to leave
  a connection open.

  A stream through a proxy (`TunnelIsRight`; any destinations, key sizes, chunk
  sizes and block lengths, any lengths read). `TunnelRight` is not inductive: it
  says nothing of what is on its way. `TunnelInv` does. For the raw proxy and Socks
  (`PlainInv`) it says how far the two ends of a handshake can be from each other
  (`Met`), and that on its way to each end is the rest of the handshake (`ToServer`,
  `ToClient`), then all that was written and not got (`Link`): so a handshake read
  that is not torn takes its own bytes and none of the stream's. For Shadowsocks
  (`ShadowInv`) it says the same of what is encrypted (`SealedLink`): behind the
  salt and the metadata come chunks, two for each part of what was written and not
  got, sealed with consecutive nonces of which the first is the one the reader will
  try next (`Chunked`). The lemmas it rests on: what Write makes of any number of
  bytes are such chunks (`ChunksRight`, by dividing into parts of `MaxPayload`), two
  runs of them make one (`ChunkedJoin`), the first part can be taken off
  (`ChunkedFirst`), and the destination in the metadata is read as it was written,
  for each of its forms but a domain of 256 bytes (`SsRoundTrip`, `Short`). It
  assumes that nil is neither an address nor the state of a decrypter
  (`AbsentAssumption`) and that an address has the length of its form, a domain at
  most 256 bytes and a port two (`DestsAssumption`). As in the property, torn
  handshake reads are excepted, and Socks with a domain or an IPv4 address in 16
  bytes (section 4).
* **TunProofs**. Hijacked queries (any number, any channel): the types include
  that the channel holds the queries read last, in order (`First`). For
  `AnswersRightOrLate` the invariant says of every answer still at the server or
  in the socket that it is the one asked for, or was asked for no earlier than a
  query that was given up (`LateKnown`), and that no query has two answers
  (`AnsweredOnce`): otherwise reading the right one would leave another behind.
  The life cycle (any number of commands and connections, any faults): `IInv`
  relates how far Run is to what is installed (`Stages`) and how far Close is to
  the status and to what it has cleaned (`Closing`); a clean leaves of the rules it
  went through those only whose deletion failed (`Cleans`). `NeverSpins`,
  `CloseRemovesRules`, `SetupAllOrNothing`, `ClosedForGood`. `TypeCorrect` has an
  invariant of its own that counts the goroutines which have not said Done
  (`Goroutines`): the WaitGroup never goes below zero.
* **DnsProofs** (any number of upstreams and queries). `OneAnswerIsEnough`;
  `TypeCorrect`, which includes that the results in the channel and those taken are
  those of the goroutines that are done.

  The lock of `Iface`, for any queries, dialers and interfaces (`LockInv`). While it
  is held no reader is inside (`LockExcludes`). As long as every update finds an
  interface it is held only while an update goes on (`LockIsReleased`): the part of
  `ReadersServed` that is not about fairness. Once one did not, a handler that waits
  for an address waits for ever, and `main`, which waits for the handlers
  (`Drained`), never reaches its end, with or without the signal
  (`StrandedForGood`): nothing but a panic elsewhere ends the process. This is why
  `Ends` and `ReadersServed` have their condition, and why `EndsInTime` is violated.
* **ConfigProofs** (any configuration, rules and flows). `StartsOnlyIfApart`: the
  invariant says what each stage knows of the names, since the checks that led
  there were made against sets that have not changed since.

  `DispatchesAsStated` and `FlowsServed` rest on `Rules`: what the router keeps for
  a pattern is the latest line's (`MapsKept`), the trie holds the patterns of the
  lines that count and nothing else (`TrieKept`), and the order is the one the PRIOR
  lines add up to (`OrderKept`). That the search of such a trie finds what is meant
  is `SearchRight`. It finds a pattern for itself (`FindsItself`); it ends at the
  wildcard of the most specific pattern that covers the domain, unless the nodes of
  another one hide it (`FindsWild`, `LeavesThere`); and where no pattern covers the
  domain it finds nothing, unless the domain becomes a pattern without some of its
  labels (`FindsNothing`: the way down spells labels of the domain in their order,
  `WayOfSome`). The exceptions are `Clear`'s, no more, but for a wildcard that is
  not a pattern's first label.

Sums, searches and orders are recursive functions. The library's induction
theorems cannot be used (they take an operator), so what holds of all their
arguments is shown by the least number for which it does not: `Least` follows from
the order of the numbers being well-founded, and `Stepwise` from `Least`.

Each safety invariant and action property that a passing run checks is stated by
a theorem. Only model-checked are the liveness properties, since fairness and
ENABLED are beyond the prover: `QueriesAnswered`, `QueriesEnd`, `StreamsEnd`,
`ClosedStreamsEnd`, `ReadLoopEnds`, `UdpLoopEnds`, `RelayStarts`, `CallReturns`,
`LeftoversEnd`, `Ends`, `ReadersServed`, `CatchesUp`, `AllArrives`. The type
invariants of `UdpRelay`, `TunHijack`, `TunLife` and `DnsQuery` are proved and
are in no run.

## 6. Not modelled, and the plan

Worth doing next:

1. The datagrams of Socks and Shadowsocks from the egress to the remote, in the
   place of `UdpRelay`'s sends.
2. `Shutdown` with the streams of `StreamRelay` and the TUN of `TunLife` in place of
   its own closing steps.

Left out for good: ciphers and hashes (library code), the YAML decoding and the
settings of log and DNS (sequential, before anything runs), the format of the
GeoIP database, logging, the empty REST interface, the process lookup (an empty
package), ReplaceLastValue of the LRU (no caller). Message formats are abstracted
where no property depends on them.

