-------------------------------- MODULE Net ---------------------------------
(***************************************************************************)
(* The network, kernel/net and kernel/drivers/net/rtl8139.c: the receive   *)
(* ring of the card, ARP, the receive path of IP, ICMP, UDP and TCP, the   *)
(* DHCP and DNS clients and net_http_get as far as it gets, on a machine   *)
(* that has the card.                                                      *)
(*                                                                         *)
(* Everything runs on the shell's thread.  The card's handler is entered   *)
(* in the table at vector 51 and IRQ 11 comes in at 43, so a frame is      *)
(* taken only where the code polls, and what a poll calls may poll again.  *)
(* stack holds the calls in progress, the innermost last:                  *)
(*   boot    net_init's loop of polls                                      *)
(*   send    ip_send, called                                               *)
(*   wait    arp_resolve, waiting for the answer to a request              *)
(*   answer  net_dns_resolve, waiting for the answer to its query          *)
(*   spin    net_tcp_connect, after its SYN                                *)
(*   poll    net_tx_poll, before a call of rtl8139_poll                    *)
(*   take    rtl8139_poll has read the card's ISR with ROK set             *)
(*   none    the same, without ROK                                         *)
(*                                                                         *)
(* The link loses, repeats, delays and reorders: whatever answer has been  *)
(* provoked once may arrive at any time, any number of times.  Hosts send  *)
(* what the protocols allow; their MAC is their name.  Checksums of IP and *)
(* TCP, which the code never looks at on reception, are left out.          *)
(*                                                                         *)
(* rtl8139_init asks the card for a ring of 8 KiB without WRAP (RCR 0x0F)  *)
(* but rtl8139_poll reads a buffer of 64 KiB, at the raw value of CAPR:    *)
(* that is 16 bytes before the place to read.  A place is where the code   *)
(* may look for a frame: every 4 bytes of those 16, where it finds zeros,  *)
(* a bad status, and goes 4 bytes on; and in the ring where a frame starts.*)
(* What the code reads once the ring has turned is not followed: a frame   *)
(* may lie in two parts and CAPR may be past the ring, so it finds         *)
(* nothing, or takes for a frame whatever bytes there are, any of Garbage. *)
(***************************************************************************)
EXTENDS Integers, Sequences, SequencesExt, Functions

CONSTANTS
  Hosts, None, Broadcast,   \* addresses; None is 0.0.0.0
  Offers, Fallback,         \* [ip, dns] of a DHCP server and of net_init
  Names, Address,           \* host names of dlw and what they stand for
  Background,               \* frames that hosts send by themselves
  Garbage,                  \* what may be read once the ring has turned
  CacheSize,                \* ARP_CACHE_SIZE
  Retries,                  \* requests of arp_resolve, 5
  Polls,                    \* polls of net_init, 200
  RxSize,                   \* TCP_RX_BUF_SIZE, in segments
  RingSize,                 \* frames that fit before the ring's end
  Space, Lag,               \* places in 64 KiB, and those before the ring, 4
  MaxFrames, MaxCalls       \* bounds of the model: frames that arrive and
                            \*   calls of net_http_get

ASSUME NetAssumption ==
  /\ {Fallback.dns} \cup {o.dns : o \in Offers} \subseteq Hosts
  /\ Address \in [Names -> Hosts \cup {None}]
  /\ None \notin Hosts /\ Broadcast \notin Hosts \cup {None}
  /\ {CacheSize, Retries, Polls, RxSize, RingSize, Lag, MaxFrames, MaxCalls} \subseteq Nat \ {0}
  /\ Space \in Nat /\ RingSize + Lag < Space
  /\ \A f \in Background \cup Garbage :
       \/ f.kind = "arp" /\ f.from \in Hosts \cup {None} /\ f.mac \in Hosts
       \/ f.kind = "ping" /\ f.from \in Hosts
  /\ \A f \in Background : f.kind = "arp" => f.from \in {f.mac, None}

VARIABLES
  stack,
  ring, put, rok,           \* the frames in the card's ring that CAPR has
                            \*   not passed, by place, the place of the
                            \*   next, and ISR.ROK
  capr, turned,             \* CAPR, and whether the ring has turned
  config,                   \* g_net.ip_addr, g_net.dns_server
  cache,                    \* g_arp_cache: its valid entries, in order
  pending, done, resolved,  \* g_arp_pending_ip, g_arp_done, g_arp_resolved_mac
  udp,                      \* g_udp_cb and its port
  result, dnsDone,          \* g_dns_result, g_dns_done
  remote, port, connected,  \* tcp_remote_ip, tcp_our_port, tcp_connected
  rx, ack,                  \* tcp_rx_buf, tcp_ack
  conn, peer,               \* the call that connected last, the one answered
  wire,                     \* the frames that may arrive
  arrived, calls,           \* frames and calls so far
  crossed                   \* a request was sent while another was waited for

memory == <<ring, put, capr, turned>>
card == <<memory, rok>>
arp == <<cache, pending, done, resolved, crossed>>
dns == <<result, dnsDone>>
tcp == <<remote, port, connected, rx, ack, conn, peer>>
vars == <<stack, card, config, arp, udp, dns, tcp, wire, arrived, calls>>

Call(at, ip, packet) ==
  [at |-> at, ip |-> ip, packet |-> packet, count |-> 0, late |-> FALSE]
Top == Last(stack)
At(place) == stack # <<>> /\ Top.at = place
Goto(c) == stack' = [stack EXCEPT ![Len(stack)] = c]
Push(c) == stack' = Append(stack, c)
Return == stack' = Front(stack)

(* Frames.  What is on its way to this machine has the address it had.     *)
Arp(from, mac) == [kind |-> "arp", from |-> from, mac |-> mac]
Ping(from, to, sum) == [kind |-> "ping", from |-> from, to |-> to, sum |-> sum]
Offer(o) == [kind |-> "offer", to |-> Broadcast, offer |-> o]
Dns(ip) == [kind |-> "dns", to |-> config.ip, ip |-> ip]
Tcp(flag, p, seq, fin) ==
  [kind |-> "tcp", to |-> config.ip, port |-> p.port, conn |-> p.conn,
   flag |-> flag, seq |-> seq, fin |-> fin]

(* What a packet of ours may provoke once it reaches its host: the name's  *)
(* address or none, the SYN's acknowledgement, and a server that says      *)
(* something and hangs up.                                                 *)
Answers(p) ==
  CASE p.kind = "query" -> {Dns(Address[p.name])}
    [] p.kind = "syn" -> {Tcp("syn", p, 0, FALSE)}
    [] p.kind = "ack" -> {Tcp("data", p, 1, FALSE), Tcp("data", p, 2, TRUE), Tcp("fin", p, 3, TRUE)}
    [] p.kind = "pong" -> {}

(* Once net_init has called dhcp_discover.                                 *)
Init ==
  /\ stack = <<Call("boot", None, None)>>
  /\ ring = <<>> /\ put = 0 /\ rok = FALSE
  /\ capr = Space - Lag /\ turned = FALSE
  /\ config = [ip |-> None, dns |-> None]
  /\ cache = <<>> /\ pending = None /\ done = FALSE /\ resolved = None
  /\ udp = "dhcp"
  /\ result = None /\ dnsDone = FALSE
  /\ remote = None /\ port = 49152 /\ connected = FALSE
  /\ rx = <<>> /\ ack = 0 /\ conn = 0 /\ peer = 0
  /\ wire = Background \cup {Offer(o) : o \in Offers}
  /\ arrived = 0 /\ calls = 0
  /\ crossed = FALSE
-----------------------------------------------------------------------------
(* arp_cache_add: an address that is known gets its new MAC, another the   *)
(* first free entry, if there is one.                                      *)
Known(ip) == \E i \in 1..Len(cache) : cache[i].ip = ip
AppendAnyway(ip, mac) == Append(cache, [ip |-> ip, mac |-> mac])   \* mutant
Added(ip, mac) ==
  LET new == [ip |-> ip, mac |-> mac]
  IN  CASE Known(ip) -> [i \in 1..Len(cache) |-> IF cache[i].ip = ip THEN new ELSE cache[i]]
        [] ~Known(ip) /\ Len(cache) < CacheSize -> Append(cache, new)
        [] OTHER -> cache
Lookup(ip) == cache[CHOOSE i \in 1..Len(cache) : cache[i].ip = ip].mac

(* arp_wakeup.                                                             *)
WakeAny(ip) == ~done   \* mutant
Wakes(ip) == pending = ip /\ ~done

(* The end of ip_send and of what called it.  A frame to a wrong MAC       *)
(* reaches nobody.                                                         *)
Transmit(mac) ==
  /\ wire' = IF mac \in {Top.ip, Broadcast} THEN wire \cup Answers(Top.packet) ELSE wire
  /\ CASE Top.packet.kind = "query" -> Goto(Call("answer", None, None))
       [] Top.packet.kind = "syn" -> Goto(Call("spin", None, None))
       [] OTHER -> Return
  /\ connected' = (connected /\ ~(Top.packet.kind = "ack" /\ Top.packet.fin))
  /\ UNCHANGED <<card, config, udp, dns, remote, port, rx, ack, conn, peer, arrived, calls>>

(* arp_resolve's loop over the retries.                                    *)
Request ==
  /\ pending' = Top.ip /\ done' = FALSE
  /\ wire' = wire \cup {Arp(Top.ip, Top.ip)}
  /\ Goto([Call("wait", Top.ip, Top.packet) EXCEPT !.count = Top.count + 1])
  /\ crossed' = (crossed \/ \E i \in 1..Len(stack) - 1 : stack[i].at = "wait")
  /\ UNCHANGED <<card, config, cache, resolved, udp, dns, tcp, arrived, calls>>

InCache == At("send") /\ Known(Top.ip) /\ Transmit(Lookup(Top.ip)) /\ UNCHANGED arp
NotInCache == At("send") /\ ~Known(Top.ip) /\ Request
Retry == At("wait") /\ ~done /\ Top.late /\ Top.count < Retries /\ Request
GiveUp ==   \* ip_send broadcasts what it cannot address
  /\ At("wait") /\ ~done /\ Top.late /\ Top.count = Retries
  /\ Transmit(Broadcast)
  /\ UNCHANGED arp
Resolved ==
  /\ At("wait") /\ done
  /\ cache' = Added(Top.ip, resolved)
  /\ Transmit(resolved)
  /\ UNCHANGED <<pending, done, resolved, crossed>>
ArpResolve == InCache \/ NotInCache \/ Retry \/ GiveUp \/ Resolved
-----------------------------------------------------------------------------
(* net_rx_handler, for a frame taken by net_tx_poll.  IpSend goes on with  *)
(* the poll when the packet is out.                                        *)
Continue == Goto(Call("poll", None, None))
IpSend(ip, packet) ==
  stack' = Front(stack) \o <<Call("poll", None, None), Call("send", ip, packet)>>

(* A request for our address is answered; either way the sender's address  *)
(* is entered.                                                             *)
HandleArp(f) ==
  /\ f.kind = "arp"
  /\ IF f.from \in {None, config.ip} THEN UNCHANGED arp
     ELSE /\ cache' = Added(f.from, f.mac)
          /\ done' = (done \/ Wakes(f.from))
          /\ resolved' = IF Wakes(f.from) THEN f.mac ELSE resolved
          /\ UNCHANGED <<pending, crossed>>
  /\ Continue
  /\ UNCHANGED <<config, dns, tcp>>

(* icmp_handle compares the checksum of the whole message, which is 0 for  *)
(* a good one, with its field: it answers those whose field is 0.          *)
HandlePing(f) ==
  /\ f.kind = "ping" /\ f.to \in {config.ip, Broadcast}
  /\ IF f.sum = 0 THEN IpSend(f.from, [kind |-> "pong"]) ELSE Continue
  /\ UNCHANGED <<config, arp, dns, tcp>>

HandleOffer(f) ==
  /\ f.kind = "offer" /\ f.to \in {config.ip, Broadcast} /\ udp = "dhcp"
  /\ config' = f.offer
  /\ Continue
  /\ UNCHANGED <<arp, dns, tcp>>

(* A query's number is the low half of the address of the buffer that has  *)
(* the name, the same one in every dlw typed at the prompt: it tells no    *)
(* answer from an answer to an earlier query.                              *)
HandleDns(f) ==
  /\ f.kind = "dns" /\ f.to \in {config.ip, Broadcast} /\ udp = "dns"
  /\ result' = f.ip /\ dnsDone' = TRUE
  /\ Continue
  /\ UNCHANGED <<config, arp, tcp>>

(* tcp_handle.  Neither the order nor the repetition of segments is looked *)
(* at; data that does not fit is not acknowledged.                         *)
Ours(f) == f.kind = "tcp" /\ f.to \in {config.ip, Broadcast} /\ f.port = port
Acknowledge(f) ==
  /\ ack' = f.seq + 1
  /\ IpSend(remote, [kind |-> "ack", port |-> port, conn |-> f.conn, fin |-> f.fin])
HandleSyn(f) ==
  /\ Ours(f) /\ f.flag = "syn" /\ ~connected
  /\ connected' = TRUE /\ peer' = f.conn
  /\ Acknowledge(f)
  /\ UNCHANGED <<remote, port, rx, conn, config, arp, dns>>
Fits == Len(rx) < RxSize
HandleData(f) ==
  /\ Ours(f) /\ f.flag = "data" /\ Fits
  /\ rx' = Append(rx, f.conn)
  /\ Acknowledge(f)
  /\ UNCHANGED <<remote, port, connected, conn, peer, config, arp, dns>>
HandleFin(f) ==
  /\ Ours(f) /\ f.fin /\ ~(f.flag = "data" /\ Fits)
  /\ connected' = FALSE
  /\ Continue
  /\ UNCHANGED <<remote, port, rx, ack, conn, peer, config, arp, dns>>

Handled(f) == HandleArp(f) \/ HandlePing(f) \/ HandleOffer(f) \/ HandleDns(f)
              \/ HandleSyn(f) \/ HandleData(f) \/ HandleFin(f)
Dropped(f) ==
  /\ CASE f.kind = "arp" -> FALSE
       [] f.kind = "ping" -> f.to \notin {config.ip, Broadcast}
       [] f.kind = "offer" -> udp # "dhcp"
       [] f.kind = "dns" -> udp # "dns"
       [] f.kind = "tcp" -> \/ ~Ours(f)
                            \/ f.flag = "syn" /\ connected
                            \/ f.flag = "data" /\ ~Fits /\ ~f.fin
  /\ Continue
  /\ UNCHANGED <<config, arp, dns, tcp>>

(* rtl8139_poll: the ISR is read, then cleared, and with ROK one frame is  *)
(* taken, however many have come, or one place skipped where the status is *)
(* bad.  CAPR has 16 bits.                                                 *)
NextPlace(p) == IF p = Space - 1 THEN 0 ELSE p + 1
Advance ==
  IF turned THEN UNCHANGED memory
  ELSE /\ capr' = NextPlace(capr)
       /\ ring' = Restrict(ring, DOMAIN ring \ {capr})
       /\ UNCHANGED <<put, turned>>
Frames == IF turned THEN Garbage ELSE {ring[p] : p \in {capr} \cap DOMAIN ring}

ReadIsr ==
  /\ At("poll")
  /\ Goto([Top EXCEPT !.at = IF rok THEN "take" ELSE "none"])
  /\ UNCHANGED <<card, config, arp, udp, dns, tcp, wire, arrived, calls>>
NoFrame ==
  /\ At("none")
  /\ rok' = FALSE
  /\ Return
  /\ UNCHANGED <<memory, config, arp, udp, dns, tcp, wire, arrived, calls>>
BadStatus ==
  /\ At("take")
  /\ turned \/ Frames = {}
  /\ rok' = FALSE /\ Advance
  /\ Return
  /\ UNCHANGED <<config, arp, udp, dns, tcp, wire, arrived, calls>>
TakeKeepsIsr ==   \* mutant
  /\ At("take")
  /\ Advance
  /\ \E f \in Frames : Handled(f) \/ Dropped(f)
  /\ UNCHANGED <<rok, udp, wire, arrived, calls>>
Take ==
  /\ At("take")
  /\ rok' = FALSE /\ Advance
  /\ \E f \in Frames : Handled(f) \/ Dropped(f)
  /\ UNCHANGED <<udp, wire, arrived, calls>>
Poll == ReadIsr \/ NoFrame \/ BadStatus \/ Take

(* The loops that call net_tx_poll.                                        *)
WaitForever ==   \* mutant
  /\ \/ At("wait") /\ ~done
     \/ At("answer") /\ ~dnsDone
  /\ Push(Call("poll", None, None))
  /\ UNCHANGED <<card, config, arp, udp, dns, tcp, wire, arrived, calls>>
Wait ==
  /\ \/ At("wait") /\ ~done
     \/ At("answer") /\ ~dnsDone
  /\ ~Top.late
  /\ Push(Call("poll", None, None))
  /\ UNCHANGED <<card, config, arp, udp, dns, tcp, wire, arrived, calls>>
-----------------------------------------------------------------------------
(* net_init: its polls, then the fallback.                                 *)
BootPoll ==
  /\ At("boot") /\ Top.count < Polls
  /\ stack' = <<[Top EXCEPT !.count = @ + 1], Call("poll", None, None)>>
  /\ UNCHANGED <<card, config, arp, udp, dns, tcp, wire, arrived, calls>>
Booted ==
  /\ At("boot") /\ Top.count = Polls
  /\ config' = IF config.ip = None THEN Fallback ELSE config
  /\ stack' = <<>>
  /\ UNCHANGED <<card, arp, udp, dns, tcp, wire, arrived, calls>>

(* dlw, down to the query of net_dns_resolve.                              *)
DlwKeepsCallback(name) ==   \* mutant
  /\ stack = <<>> /\ calls < MaxCalls
  /\ calls' = calls + 1
  /\ result' = None /\ dnsDone' = FALSE
  /\ Push(Call("send", config.dns, [kind |-> "query", name |-> name]))
  /\ UNCHANGED <<card, config, arp, udp, tcp, wire, arrived>>
Dlw(name) ==
  /\ stack = <<>> /\ calls < MaxCalls
  /\ calls' = calls + 1
  /\ result' = None /\ dnsDone' = FALSE
  /\ udp' = "dns"
  /\ Push(Call("send", config.dns, [kind |-> "query", name |-> name]))
  /\ UNCHANGED <<card, config, arp, tcp, wire, arrived>>

DnsOver == At("answer") /\ (dnsDone \/ Top.late)
DnsFailed ==
  /\ DnsOver /\ result = None
  /\ Return
  /\ UNCHANGED <<card, config, arp, udp, dns, tcp, wire, arrived, calls>>

(* net_tcp_connect, down to its SYN.                                       *)
SamePort(p) == p   \* mutant
NextPort(p) == 49152 + (p % 10000)
Connect ==
  /\ DnsOver /\ result # None
  /\ remote' = result /\ port' = NextPort(port)
  /\ ack' = 0 /\ rx' = <<>> /\ connected' = FALSE
  /\ conn' = calls
  /\ Goto(Call("send", result, [kind |-> "syn", port |-> NextPort(port), conn |-> calls]))
  /\ UNCHANGED <<card, config, arp, udp, dns, peer, wire, arrived, calls>>

(* The wait for the connection does not poll, so it ends without one and   *)
(* net_http_get gives up before it sends or receives.                      *)
ConnectFailed ==
  /\ At("spin") /\ ~connected
  /\ Return
  /\ UNCHANGED <<card, config, arp, udp, dns, tcp, wire, arrived, calls>>
HttpGet == DnsFailed \/ Connect \/ ConnectFailed

Cpu == ArpResolve \/ Poll \/ Wait \/ BootPoll \/ Booted \/ HttpGet

(* The link delivers a frame, and the card sets ROK.  A frame that does    *)
(* not fit before the ring's end goes on at its start; one for which there *)
(* is no room at all is lost.                                              *)
Arrive(f) ==
  /\ arrived < MaxFrames
  /\ arrived' = arrived + 1 /\ rok' = TRUE
  /\ CASE turned -> UNCHANGED memory
       [] ~turned /\ put < RingSize ->
            /\ ring' = [p \in DOMAIN ring \cup {put} |-> IF p = put THEN f ELSE ring[p]]
            /\ put' = put + 1
            /\ UNCHANGED <<capr, turned>>
       [] OTHER -> turned' = TRUE /\ ring' = <<>> /\ UNCHANGED <<put, capr>>
  /\ UNCHANGED <<stack, config, arp, udp, dns, tcp, wire, calls>>

(* A deadline passes: of the waiting calls, the outermost has the first.   *)
Waiting(c) == c.at \in {"wait", "answer"} /\ ~c.late
Tick ==
  \E i \in 1..Len(stack) :
    /\ Waiting(stack[i]) /\ \A j \in 1..i-1 : ~Waiting(stack[j])
    /\ stack' = [stack EXCEPT ![i].late = TRUE]
    /\ UNCHANGED <<card, config, arp, udp, dns, tcp, wire, arrived, calls>>

Next ==
  \/ Cpu \/ Tick
  \/ \E name \in Names : Dlw(name)
  \/ \E f \in wire : Arrive(f)

(* The CPU goes on running and the timer goes on ticking.                  *)
Spec == Init /\ [][Next]_vars /\ WF_vars(Cpu) /\ WF_vars(Tick)
-----------------------------------------------------------------------------
Addresses == Hosts \cup {None}
Ports == 49152..59151
TypeOK ==
  /\ \A i \in 1..Len(stack) :
       /\ stack[i].at \in {"boot", "send", "wait", "answer", "spin", "poll", "take", "none"}
       /\ stack[i].ip \in Addresses
       /\ stack[i].count \in 0..IF stack[i].at = "boot" THEN Polls ELSE Retries
  /\ DOMAIN ring \subseteq 0..RingSize-1 /\ put \in 0..RingSize /\ rok \in BOOLEAN
  /\ capr \in 0..Space-1 /\ turned \in BOOLEAN
  /\ config \in Offers \cup {Fallback, [ip |-> None, dns |-> None]}
  /\ Len(cache) <= CacheSize
  /\ \A i \in 1..Len(cache) : cache[i] \in [ip : Hosts, mac : Hosts]
  /\ pending \in Addresses /\ resolved \in Addresses /\ done \in BOOLEAN
  /\ udp \in {"dhcp", "dns"}
  /\ result \in Addresses /\ dnsDone \in BOOLEAN
  /\ remote \in Addresses /\ port \in Ports /\ connected \in BOOLEAN
  /\ Len(rx) <= RxSize /\ ack \in Nat

(* Until the ring turns, rtl8139_poll never looks at a place of it that    *)
(* the card has still to fill, although the bit is cleared apart from the  *)
(* read, frames arrive in between, and the first ones come while CAPR is   *)
(* before the ring: there it would find a bad status, go 4 bytes on, and   *)
(* be out of step with the frames from then on.                            *)
NeverReadsStale ==
  (At("take") \/ rok) /\ ~turned => capr < put \/ capr >= Space - Lag

(* No address is in the cache twice, where lookup would find the older of  *)
(* its MACs, although the receive path enters the answer a call waits for  *)
(* and the call enters it again.  And until the ring turns an entry has    *)
(* its host's MAC, whatever answers came late or twice, unless a request   *)
(* was sent from inside the wait for another: then the outer call takes    *)
(* the inner one's answer for its own.                                     *)
CacheTruthful ==
  /\ \A i, j \in 1..Len(cache) : cache[i].ip = cache[j].ip => i = j
  /\ ~crossed /\ ~turned => \A i \in 1..Len(cache) : cache[i].mac = cache[i].ip

(* A connection, and whatever data is in the buffer, belongs to the last   *)
(* connect and not to an earlier one whose answers come late, as long as   *)
(* the ring has not turned.                                                *)
OwnConnection ==
  ~turned =>
    /\ connected => peer = conn
    /\ \A i \in 1..Len(rx) : rx[i] = conn

(* Once net_init has settled on an address, no late offer changes it.      *)
AddressStable == [][config' # config => stack # <<>> /\ stack[1].at = "boot"]_vars

(* Every call comes back to the shell, whatever is lost, as long as the    *)
(* link stays finite.                                                      *)
CallsReturn == []<>(stack = <<>>)
=============================================================================
