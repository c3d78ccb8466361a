------------------------------ MODULE NetProofs ------------------------------
(***************************************************************************)
(* Proofs about the network stack for any hosts, servers, cache and ring   *)
(* sizes, numbers of retries and frames: the types, the receive ring's     *)
(* notice, the truth of the ARP cache and the stability of the address;    *)
(* and, up to the number of calls after which ports repeat, that segments  *)
(* belong to the connection they are taken for.                            *)
(*                                                                         *)
(* All of them need to know what may be called from where: Shape says that *)
(* of the stack of calls.  The queries and SYNs of net_http_get are at its *)
(* bottom, what the receive path sends is above a poll, and a poll that    *)
(* has read the card's ISR is on top.                                      *)
(***************************************************************************)
EXTENDS Net, SequenceTheorems, TLAPS

Places == {"boot", "send", "wait", "answer", "spin", "poll", "take", "none"}
Packets ==
  [kind : {"query"}, name : Names]
  \cup [kind : {"syn"}, port : Int, conn : Int]
  \cup [kind : {"ack"}, port : Int, conn : Int, fin : BOOLEAN]
  \cup {[kind |-> "pong"]}
CallSet ==
  [at : Places, ip : Addresses, packet : Packets \cup {None}, count : Nat, late : BOOLEAN]

Sending(c) == c.at \in {"send", "wait"}

(* A call c that is the i-th of n.                                         *)
Place(c, i, n) ==
  /\ c.at \in {"boot", "answer", "spin"} => i = 1
  /\ c.at \in {"poll", "take", "none"} => i > 1
  /\ c.at \in {"take", "none", "spin"} => i = n
  /\ Sending(c) => /\ c.ip \in Hosts /\ c.packet \in Packets
                   /\ c.packet.kind \in {"query", "syn"} <=> i = 1
  /\ c.at = "send" => c.count = 0
  /\ c.count <= IF c.at = "boot" THEN Polls ELSE Retries

Shape(s) ==
  /\ s \in Seq(CallSet)
  /\ \A i \in 1..Len(s) : Place(s[i], i, Len(s))

(* t is s up to its call number n, which is c and the last.                *)
Becomes(s, t, n, c) ==
  /\ Shape(t) /\ Len(t) = n /\ t # <<>>
  /\ \A i \in 1..n - 1 : t[i] = s[i]
  /\ t[n] = c

Entries == [ip : Hosts, mac : Hosts]
FrameOK(f) ==
  /\ f.kind \in {"arp", "ping", "offer", "dns", "tcp"}
  /\ f.kind = "arp" => f.from \in Addresses /\ f.mac \in Hosts
  /\ f.kind = "ping" => f.from \in Hosts
  /\ f.kind = "offer" => f.offer \in Offers
  /\ f.kind = "dns" => f.ip \in Addresses
  /\ f.kind = "tcp" => f.seq \in Nat /\ f.conn \in Int /\ f.port \in Int /\ f.fin \in BOOLEAN
Honest(f) == FrameOK(f) /\ (f.kind = "arp" => f.from \in {f.mac, None})
-----------------------------------------------------------------------------
(* The stack, its calls as sequences.                                      *)
LEMMA TopOf ==
  ASSUME NEW s \in Seq(CallSet), s # <<>>
  PROVE  /\ Len(s) \in Nat /\ Len(s) >= 1
         /\ Last(s) = s[Len(s)] /\ Last(s) \in CallSet
  BY DEF Last

LEMMA CallFields ==
  ASSUME NEW at \in Places, NEW ip \in Addresses, NEW packet \in Packets \cup {None}
  PROVE  /\ Call(at, ip, packet) \in CallSet
         /\ Call(at, ip, packet).at = at /\ Call(at, ip, packet).ip = ip
         /\ Call(at, ip, packet).packet = packet
         /\ Call(at, ip, packet).count = 0 /\ Call(at, ip, packet).late = FALSE
  BY DEF Call, CallSet

LEMMA GotoShape ==
  ASSUME NEW s, Shape(s), s # <<>>, NEW c \in CallSet, Place(c, Len(s), Len(s)),
         NEW t, t = [s EXCEPT ![Len(s)] = c]
  PROVE  Becomes(s, t, Len(s), c)
<1>1. s \in Seq(CallSet) /\ Len(s) \in Nat /\ Len(s) >= 1
  BY TopOf DEF Shape
<1>2. /\ t \in Seq(CallSet) /\ Len(t) = Len(s) /\ t # <<>>
      /\ \A i \in 1..Len(s) - 1 : t[i] = s[i]
      /\ t[Len(s)] = c
  BY <1>1
<1>3. \A i \in 1..Len(t) : Place(t[i], i, Len(t))
  <2> SUFFICES ASSUME NEW i \in 1..Len(s) PROVE Place(t[i], i, Len(s))
    BY <1>2
  <2>1. CASE i = Len(s)
    BY <2>1, <1>2
  <2>2. CASE i # Len(s)
    <3>0. i \in 1..Len(s) - 1
      BY <2>2, <1>1
    <3>1. t[i] = s[i] /\ Place(s[i], i, Len(s))
      BY <3>0, <1>2 DEF Shape
    <3> QED BY <3>1
  <2> QED BY <2>1, <2>2
<1> QED BY <1>1, <1>2, <1>3 DEF Shape, Becomes

LEMMA PushShape ==
  ASSUME NEW s, Shape(s), NEW c \in CallSet, Place(c, Len(s) + 1, Len(s) + 1),
         s # <<>> => Last(s).at \notin {"take", "none", "spin"},
         NEW t, t = Append(s, c)
  PROVE  Becomes(s, t, Len(s) + 1, c)
<1>1. s \in Seq(CallSet) /\ Len(s) \in Nat
  BY DEF Shape
<1>2. /\ t \in Seq(CallSet) /\ Len(t) = Len(s) + 1 /\ t # <<>>
      /\ \A i \in 1..Len(s) : t[i] = s[i]
      /\ t[Len(s) + 1] = c
  BY <1>1
<1>3. \A i \in 1..Len(t) : Place(t[i], i, Len(t))
  <2> SUFFICES ASSUME NEW i \in 1..Len(s) + 1 PROVE Place(t[i], i, Len(s) + 1)
    BY <1>2
  <2>1. CASE i = Len(s) + 1
    BY <2>1, <1>2
  <2>2. CASE i # Len(s) + 1
    <3>0. i \in 1..Len(s)
      BY <2>2, <1>1
    <3>1. t[i] = s[i] /\ Place(s[i], i, Len(s))
      BY <3>0, <1>2 DEF Shape
    <3>2. s[i].at \notin {"take", "none", "spin"}
      <4>1. CASE i = Len(s)
        BY <4>1, <3>0, <1>1, TopOf
      <4>2. CASE i # Len(s)
        BY <4>2, <3>1 DEF Place
      <4> QED BY <4>1, <4>2
    <3> QED BY <3>1, <3>2 DEF Place
  <2> QED BY <2>1, <2>2
<1> QED BY <1>1, <1>2, <1>3 DEF Shape, Becomes

LEMMA ReturnShape ==
  ASSUME NEW s, Shape(s), s # <<>>, NEW t, t = Front(s)
  PROVE  /\ Shape(t) /\ Len(t) = Len(s) - 1
         /\ \A i \in 1..Len(s) - 1 : t[i] = s[i] /\ s[i].at \notin {"take", "none", "spin"}
         /\ t # <<>> => Len(s) >= 2 /\ Last(t) = s[Len(s) - 1]
<1>1. s \in Seq(CallSet) /\ Len(s) \in Nat /\ Len(s) >= 1
  BY TopOf DEF Shape
<1>2. /\ t \in Seq(CallSet) /\ Len(t) = Len(s) - 1
      /\ \A i \in 1..Len(s) - 1 : t[i] = s[i]
  <2>1. \A i \in 1..Len(s) - 1 : s[i] \in CallSet
    BY <1>1
  <2>2. 1 \in Int /\ Len(s) - 1 \in Int /\ \A i \in 1..Len(s) - 1 : i \in 1..Len(s)
    BY <1>1
  <2> DEFINE g == SubSeq(s, 1, Len(s) - 1)
  <2>0. Len(s) \in Nat /\ s \in [1..Len(s) -> CallSet]
    BY <1>1
  <2>3. g \in Seq(CallSet) /\ Len(g) = Len(s) - 1
    BY <2>0, <1>1, SubSeqProperties
  <2>4. \A i \in 1..Len(s) - 1 : g[i] = s[i]
    BY <2>1, <2>2, <1>1, SubSeqProperties
  <2> QED BY <2>3, <2>4 DEF Front
<1>3. \A i \in 1..Len(s) - 1 : s[i].at \notin {"take", "none", "spin"}
  BY <1>1 DEF Shape, Place
<1>4. \A i \in 1..Len(t) : Place(t[i], i, Len(t))
  <2> SUFFICES ASSUME NEW i \in 1..Len(s) - 1 PROVE Place(s[i], i, Len(s) - 1)
    BY <1>1, <1>2
  <2>1. Place(s[i], i, Len(s))
    BY <1>1 DEF Shape
  <2> QED BY <2>1, <1>3 DEF Place
<1>5. t # <<>> => Len(s) >= 2 /\ Last(t) = s[Len(s) - 1]
  <2>1. t # <<>> => Len(t) >= 1
    BY <1>2
  <2>2. Len(s) >= 2 => Len(s) - 1 \in 1..Len(s) - 1
    BY <1>1
  <2> QED BY <2>1, <2>2, <1>1, <1>2 DEF Last
<1> QED BY <1>2, <1>3, <1>4, <1>5 DEF Shape

(* ip_send, called from the receive path: a poll that goes on, above it    *)
(* the call.                                                               *)
SendsAbove(s, t, c) ==
  /\ Shape(t) /\ Len(t) = Len(s) + 1 /\ t # <<>>
  /\ \A i \in 1..Len(s) - 1 : t[i] = s[i]
  /\ t[Len(s)].at = "poll"
  /\ t[Len(s) + 1] = c /\ Last(t) = c

LEMMA IpSendShape ==
  ASSUME NEW s, Shape(s), s # <<>>, Len(s) > 1, NEW ip \in Hosts, NEW p \in Packets,
         p.kind \notin {"query", "syn"},
         NEW t, t = Front(s) \o <<Call("poll", None, None), Call("send", ip, p)>>
  PROVE  SendsAbove(s, t, Call("send", ip, p))
<1> DEFINE poll == Call("poll", None, None)
           send == Call("send", ip, p)
           u == [s EXCEPT ![Len(s)] = poll]
<1>1. s \in Seq(CallSet) /\ Len(s) \in Nat /\ Len(s) >= 1
  BY TopOf DEF Shape
<1>0. /\ "poll" \in Places /\ "send" \in Places
      /\ None \in Addresses /\ ip \in Addresses
      /\ None \in Packets \cup {None} /\ p \in Packets \cup {None}
  BY DEF Places, Addresses
<1>2. poll \in CallSet /\ poll.at = "poll" /\ poll.count = 0
  BY <1>0 DEF Call, CallSet
<1>3. send \in CallSet /\ send.at = "send" /\ send.ip = ip /\ send.packet = p /\ send.count = 0
  BY <1>0 DEF Call, CallSet
<1> HIDE DEF poll, send, u
<1>4. Place(poll, Len(s), Len(s)) /\ Place(send, Len(s) + 1, Len(s) + 1)
  BY <1>1, <1>2, <1>3, NetAssumption DEF Place, Sending
<1>5. Becomes(s, u, Len(s), poll)
  BY <1>2, <1>4, GotoShape DEF u
<1>51. /\ Shape(u) /\ Len(u) = Len(s) /\ u # <<>>
       /\ \A i \in 1..Len(s) - 1 : u[i] = s[i]
       /\ u[Len(s)] = poll /\ Last(u) = poll
  BY <1>5 DEF Becomes, Last
<1>6. t = Append(u, send)
  <2>1. /\ Front(s) \in Seq(CallSet) /\ Len(Front(s)) = Len(s) - 1
        /\ \A i \in 1..Len(s) - 1 : Front(s)[i] = s[i]
    BY ReturnShape DEF Shape
  <2>2. u \in Seq(CallSet)
    BY <1>51 DEF Shape
  <2>3. t = Front(s) \o <<poll, send>>
    BY DEF poll, send
  <2>4. /\ t \in Seq(CallSet) /\ Len(t) = Len(s) + 1
        /\ \A i \in 1..Len(t) : t[i] = IF i <= Len(s) - 1 THEN s[i] ELSE IF i = Len(s) THEN poll ELSE send
    BY <2>1, <2>3, <1>1, <1>2, <1>3
  <2>5. /\ Append(u, send) \in Seq(CallSet) /\ Len(Append(u, send)) = Len(s) + 1
        /\ \A i \in 1..Len(t) : Append(u, send)[i] = t[i]
    BY <2>2, <2>4, <1>1, <1>3, <1>51
  <2> QED BY <2>4, <2>5
<1>7. Place(send, Len(u) + 1, Len(u) + 1) /\ Last(u).at \notin {"take", "none", "spin"}
  BY <1>2, <1>4, <1>51
<1>8. Becomes(u, t, Len(u) + 1, send)
  BY <1>3, <1>51, <1>6, <1>7, PushShape
<1>9. /\ Len(s) \in 1..Len(u)
      /\ \A i \in 1..Len(s) - 1 : i \in 1..Len(u)
  BY <1>1, <1>51
<1>10. t[Len(s)].at = "poll" /\ \A i \in 1..Len(s) - 1 : t[i] = s[i]
  BY <1>1, <1>2, <1>51, <1>8, <1>9 DEF Becomes
<1> QED BY <1>1, <1>51, <1>8, <1>10 DEF Becomes, Last, send, SendsAbove
-----------------------------------------------------------------------------
(* What a change of the stack from s to t leaves: the bottom of boot; the  *)
(* calls that wait; and the packets being sent.                            *)
Booting(s) == s # <<>> /\ s[1].at = "boot"
Asking(s) ==
  s # <<>> /\ (s[1].at = "answer" \/ (Sending(s[1]) /\ s[1].packet.kind = "query"))
Calling(s) == s # <<>> /\ Sending(s[1]) /\ s[1].packet.kind = "syn"

Stays(s, t) == (Booting(t) <=> Booting(s)) /\ (t # <<>> => s # <<>>)
NoNewWait(s, t) ==
  \A i \in 1..Len(t) :
    t[i].at = "wait" => i \in 1..Len(s) /\ s[i].at = "wait" /\ t[i].ip = s[i].ip
NoNewPacket(s, t) ==
  /\ \A i \in 1..Len(t) :
       Sending(t[i]) => i \in 1..Len(s) /\ Sending(s[i]) /\ t[i].packet = s[i].packet
  /\ Asking(t) => Asking(s)

LEMMA GotoMoves ==
  ASSUME NEW s, Shape(s), s # <<>>, NEW c, NEW t, Becomes(s, t, Len(s), c),
         c.at # "boot", Last(s).at # "boot"
  PROVE  /\ Stays(s, t)
         /\ c.at # "wait" => NoNewWait(s, t)
         /\ (Sending(c) => Sending(Last(s)) /\ c.packet = Last(s).packet)
            /\ (c.at = "answer" => Asking(s)) => NoNewPacket(s, t)
<1>1. s \in Seq(CallSet) /\ Len(s) \in Nat /\ Len(s) >= 1 /\ Last(s) = s[Len(s)]
  BY TopOf DEF Shape
<1>2. /\ Len(t) = Len(s) /\ t # <<>>
      /\ \A i \in 1..Len(s) - 1 : t[i] = s[i]
      /\ t[Len(s)] = c
  BY DEF Becomes
<1>3. \A i \in 1..Len(t) : i = Len(s) \/ i \in 1..Len(s) - 1
  BY <1>1, <1>2
<1>4. Len(s) = 1 \/ 1 \in 1..Len(s) - 1
  <2>1. \A n \in Nat : n >= 1 => n = 1 \/ 1 \in 1..n - 1
    OBVIOUS
  <2> QED BY <2>1, <1>1
<1>5. \A i \in 1..Len(t) : i \in 1..Len(s)
  BY <1>2
<1>6. Stays(s, t)
  BY <1>1, <1>2, <1>4 DEF Stays, Booting
<1>7. c.at # "wait" => NoNewWait(s, t)
  BY <1>2, <1>3, <1>5 DEF NoNewWait
<1>8. ASSUME Sending(c) => Sending(Last(s)) /\ c.packet = Last(s).packet,
             c.at = "answer" => Asking(s)
      PROVE  NoNewPacket(s, t)
  <2>1. ASSUME NEW i \in 1..Len(t), Sending(t[i])
        PROVE  i \in 1..Len(s) /\ Sending(s[i]) /\ t[i].packet = s[i].packet
    BY <1>1, <1>2, <1>3, <1>5, <1>8, <2>1
  <2>2. Asking(t) => Asking(s)
    BY <1>1, <1>2, <1>4, <1>8 DEF Asking
  <2> QED BY <2>1, <2>2 DEF NoNewPacket
<1> QED BY <1>6, <1>7, <1>8

LEMMA PushMoves ==
  ASSUME NEW s, Shape(s), s # <<>>, NEW c, NEW t, Becomes(s, t, Len(s) + 1, c), ~Sending(c)
  PROVE  Stays(s, t) /\ NoNewWait(s, t) /\ NoNewPacket(s, t)
<1>1. s \in Seq(CallSet) /\ Len(s) \in Nat /\ Len(s) >= 1
  BY TopOf DEF Shape
<1>2. /\ Len(t) = Len(s) + 1 /\ t # <<>>
      /\ \A i \in 1..Len(s) : t[i] = s[i]
      /\ t[Len(s) + 1] = c
  BY <1>1 DEF Becomes
<1>3. \A i \in 1..Len(t) : i = Len(s) + 1 \/ i \in 1..Len(s)
  BY <1>1, <1>2
<1>4. 1 \in 1..Len(s)
  BY <1>1
<1>5. Stays(s, t)
  BY <1>2, <1>4 DEF Stays, Booting
<1>6. NoNewWait(s, t)
  BY <1>2, <1>3 DEF NoNewWait, Sending
<1>7. NoNewPacket(s, t)
  BY <1>2, <1>3, <1>4 DEF NoNewPacket, Asking
<1> QED BY <1>5, <1>6, <1>7

LEMMA ReturnMoves ==
  ASSUME NEW s, Shape(s), s # <<>>, Last(s).at # "boot", NEW t, t = Front(s)
  PROVE  Shape(t) /\ Stays(s, t) /\ NoNewWait(s, t) /\ NoNewPacket(s, t)
<1>1. s \in Seq(CallSet) /\ Len(s) \in Nat /\ Len(s) >= 1 /\ Last(s) = s[Len(s)]
  BY TopOf DEF Shape
<1>2. /\ Shape(t) /\ Len(t) = Len(s) - 1
      /\ \A i \in 1..Len(s) - 1 : t[i] = s[i]
      /\ t # <<>> => Len(s) >= 2
  BY ReturnShape
<1>3. \A i \in 1..Len(t) : i \in 1..Len(s) /\ t[i] = s[i]
  BY <1>1, <1>2
<1>4. /\ t # <<>> => 1 \in 1..Len(t)
      /\ t = <<>> => Len(s) = 1
  BY <1>1, <1>2
<1>5. Stays(s, t)
  BY <1>1, <1>3, <1>4 DEF Stays, Booting
<1>6. NoNewWait(s, t)
  BY <1>3 DEF NoNewWait
<1>7. NoNewPacket(s, t)
  BY <1>3, <1>4 DEF NoNewPacket, Asking
<1> QED BY <1>2, <1>5, <1>6, <1>7

(* ip_send from the receive path adds one packet and no wait.              *)
OnePacket(s, t, p) ==
  /\ Shape(t) /\ t # <<>> /\ Last(t).at = "send"
  /\ Stays(s, t) /\ NoNewWait(s, t) /\ (Asking(t) => Asking(s))
  /\ \A i \in 1..Len(t) :
       Sending(t[i]) => \/ t[i].packet = p
                        \/ i \in 1..Len(s) /\ Sending(s[i]) /\ t[i] = s[i]

LEMMA IpSendMoves ==
  ASSUME NEW s, Shape(s), s # <<>>, Last(s).at = "take", NEW ip \in Hosts, NEW p \in Packets,
         p.kind \notin {"query", "syn"},
         NEW t, t = Front(s) \o <<Call("poll", None, None), Call("send", ip, p)>>
  PROVE  OnePacket(s, t, p)
<1>1. s \in Seq(CallSet) /\ Len(s) \in Nat /\ Len(s) >= 1 /\ Last(s) = s[Len(s)]
  BY TopOf DEF Shape
<1>2. Len(s) > 1
  BY <1>1 DEF Shape, Place
<1>0. SendsAbove(s, t, Call("send", ip, p))
  BY <1>2, IpSendShape
<1>3. /\ Shape(t) /\ Len(t) = Len(s) + 1 /\ t # <<>>
      /\ \A i \in 1..Len(s) - 1 : t[i] = s[i]
      /\ t[Len(s)].at = "poll"
      /\ t[Len(s) + 1] = Call("send", ip, p) /\ Last(t) = Call("send", ip, p)
  BY <1>0 DEF SendsAbove
<1>4. /\ Call("send", ip, p).at = "send" /\ Call("send", ip, p).packet = p
  BY DEF Call
<1>5. \A i \in 1..Len(t) : i \in 1..Len(s) - 1 \/ i = Len(s) \/ i = Len(s) + 1
  BY <1>1, <1>3
<1>6. 1 \in 1..Len(s) - 1 /\ \A i \in 1..Len(s) - 1 : i \in 1..Len(s)
  BY <1>1, <1>2
<1>7. Stays(s, t) /\ (Asking(t) => Asking(s))
  BY <1>3, <1>6 DEF Stays, Booting, Asking
<1>8. NoNewWait(s, t)
  BY <1>3, <1>4, <1>5, <1>6 DEF NoNewWait
<1>9. \A i \in 1..Len(t) :
        Sending(t[i]) => \/ t[i].packet = p
                         \/ i \in 1..Len(s) /\ Sending(s[i]) /\ t[i] = s[i]
  <2> SUFFICES ASSUME NEW i \in 1..Len(t), Sending(t[i])
               PROVE  \/ t[i].packet = p
                      \/ i \in 1..Len(s) /\ Sending(s[i]) /\ t[i] = s[i]
    OBVIOUS
  <2> QED BY <1>3, <1>4, <1>5, <1>6 DEF Sending
<1>10. Shape(t) /\ t # <<>> /\ Last(t).at = "send"
  BY <1>3, <1>4
<1> QED BY <1>7, <1>8, <1>9, <1>10 DEF OnePacket

LEMMA PacketKinds ==
  ASSUME NEW p \in Packets
  PROVE  /\ p.kind \in {"query", "syn", "ack", "pong"}
         /\ p.kind \in {"syn", "ack"} => p.port \in Int /\ p.conn \in Int
         /\ p.kind = "ack" => p.fin \in BOOLEAN
  BY DEF Packets
-----------------------------------------------------------------------------
(* The inductive invariant.                                                *)
Chosen == Offers \cup {Fallback}

(* Until the ring turns it holds what was put where CAPR has not been: all *)
(* of it as long as CAPR is before the ring.                               *)
Unread ==
  \/ capr >= Space - Lag /\ DOMAIN ring = 0..put - 1
  \/ capr <= put /\ DOMAIN ring = capr..put - 1
Holds == turned \/ DOMAIN ring # {}
FrameInv ==
  /\ \A f \in wire : Honest(f)
  /\ put \in 0..RingSize /\ capr \in 0..Space - 1
  /\ rok \in BOOLEAN /\ turned \in BOOLEAN
  /\ turned => DOMAIN ring = {}
  /\ ~turned => Unread /\ \A p \in DOMAIN ring : ring[p] \in wire
  /\ At("take") \/ rok => Holds

ConfigInv ==
  /\ config \in Chosen \cup {[ip |-> None, dns |-> None]}
  /\ Booting(stack) \/ config \in Chosen
  /\ udp \in {"dhcp", "dns"}
  /\ udp = "dhcp" /\ stack # <<>> => Booting(stack)

CacheInv ==
  /\ cache \in Seq(Entries) /\ Len(cache) <= CacheSize
  /\ \A i, j \in 1..Len(cache) : cache[i].ip = cache[j].ip => i = j
  /\ ~crossed /\ ~turned => \A i \in 1..Len(cache) : cache[i].mac = cache[i].ip

(* What woke arp_resolve is the answer to the request sent last; the       *)
(* request sent last is that of every waiting call, unless they cross.     *)
ArpInv ==
  /\ pending \in Addresses /\ resolved \in Addresses /\ done \in BOOLEAN
  /\ crossed \in BOOLEAN
  /\ done => resolved \in Hosts /\ (~turned => resolved = pending)
  /\ ~crossed => \A i \in 1..Len(stack) : stack[i].at = "wait" => pending = stack[i].ip

DnsInv == result \in Addresses /\ dnsDone \in BOOLEAN

(* Before the first SYN no segment is on its way, so remote has no use.    *)
Segments(s, w) ==
  {f \in w : f.kind = "tcp"}
  \cup {s[i].packet : i \in {j \in 1..Len(s) : Sending(s[j]) /\ s[j].packet.kind \in {"syn", "ack"}}}
TcpInv ==
  /\ remote \in Addresses /\ (remote \in Hosts \/ Segments(stack, wire) = {})
  /\ port \in 49152..59151 /\ connected \in BOOLEAN
  /\ rx \in Seq(Int) /\ Len(rx) <= RxSize
  /\ ack \in Nat /\ conn \in Int /\ peer \in Int
  /\ calls \in Nat

IInv == Shape(stack) /\ FrameInv /\ ConfigInv /\ CacheInv /\ ArpInv /\ DnsInv /\ TcpInv

LEMMA TopFacts ==
  ASSUME Shape(stack), stack # <<>>
  PROVE  /\ Len(stack) \in Nat /\ Len(stack) >= 1 /\ Len(stack) \in 1..Len(stack)
         /\ Top = stack[Len(stack)] /\ Top \in CallSet /\ Top = Last(stack)
         /\ Place(Top, Len(stack), Len(stack))
<1>1. stack \in Seq(CallSet) /\ Len(stack) \in Nat /\ Len(stack) >= 1 /\ Last(stack) = stack[Len(stack)]
  BY TopOf DEF Shape
<1> QED BY <1>1 DEF Shape, Top

LEMMA SegmentsIn ==
  ASSUME NEW s, NEW w, NEW x
  PROVE  x \in Segments(s, w) <=>
           \/ x \in w /\ x.kind = "tcp"
           \/ \E i \in 1..Len(s) :
                Sending(s[i]) /\ s[i].packet.kind \in {"syn", "ack"} /\ x = s[i].packet
  BY DEF Segments

LEMMA SegmentsShrink ==
  ASSUME NEW s, NEW t, NoNewPacket(s, t), NEW w, NEW v,
         \A f \in v : f.kind = "tcp" => f \in w
  PROVE  Segments(t, v) \subseteq Segments(s, w)
<1> SUFFICES ASSUME NEW x \in Segments(t, v) PROVE x \in Segments(s, w)
  OBVIOUS
<1>1. CASE x \in v /\ x.kind = "tcp"
  BY <1>1, SegmentsIn
<1>2. ASSUME NEW i \in 1..Len(t), Sending(t[i]), t[i].packet.kind \in {"syn", "ack"}, x = t[i].packet
      PROVE  x \in Segments(s, w)
  <2>1. i \in 1..Len(s) /\ Sending(s[i]) /\ t[i].packet = s[i].packet
    BY <1>2 DEF NoNewPacket
  <2> QED BY <2>1, <1>2, SegmentsIn
<1> QED BY <1>1, <1>2, SegmentsIn

LEMMA Constants ==
  /\ CacheSize \in Nat /\ CacheSize >= 1 /\ Retries \in Nat /\ Retries >= 1
  /\ Polls \in Nat /\ RxSize \in Nat /\ MaxCalls \in Nat
  /\ RingSize \in Nat /\ RingSize >= 1 /\ Lag \in Nat /\ Lag >= 1
  /\ Space \in Nat /\ RingSize + Lag < Space
  /\ Fallback.dns \in Hosts /\ None \notin Hosts /\ Broadcast \notin Addresses
  /\ \A o \in Offers : o.dns \in Hosts
  /\ \A name \in Names : Address[name] \in Addresses
<1>1. \A n \in {CacheSize, Retries, Polls, RxSize, RingSize, Lag, MaxFrames, MaxCalls} : n \in Nat /\ n # 0
  BY NetAssumption
<1>2. CacheSize \in Nat /\ CacheSize >= 1 /\ Retries \in Nat /\ Retries >= 1
  BY <1>1
<1>3. Polls \in Nat /\ RxSize \in Nat /\ MaxCalls \in Nat
  BY <1>1
<1>4. RingSize \in Nat /\ RingSize >= 1 /\ Lag \in Nat /\ Lag >= 1
  BY <1>1
<1>5. Fallback.dns \in Hosts /\ \A o \in Offers : o.dns \in Hosts
  BY NetAssumption
<1>6. \A name \in Names : Address[name] \in Addresses
  BY NetAssumption DEF Addresses
<1> QED BY <1>2, <1>3, <1>4, <1>5, <1>6, NetAssumption DEF Addresses

LEMMA InitInv == Init => IInv
<1> SUFFICES ASSUME Init PROVE IInv
  OBVIOUS
<1>1. Shape(stack)
  <2> DEFINE c == Call("boot", None, None)
  <2>1. c \in CallSet /\ c.at = "boot" /\ c.count = 0
    BY DEF Call, CallSet, Places, Addresses
  <2>2. stack = <<c>>
    BY DEF Init
  <2> HIDE DEF c
  <2>3. stack \in Seq(CallSet) /\ Len(stack) = 1 /\ stack[1] = c
    BY <2>1, <2>2
  <2>4. Place(c, 1, 1)
    BY <2>1, NetAssumption DEF Place, Sending
  <2> QED BY <2>3, <2>4 DEF Shape
<1>2. stack # <<>> /\ Len(stack) = 1 /\ stack[1].at = "boot"
  BY DEF Init, Call
<1>3. FrameInv
  <2>1. \A f \in wire : Honest(f)
    BY NetAssumption DEF Init, Honest, FrameOK, Offer, Addresses
  <2>2. ~At("take")
    BY <1>2 DEF At, Top, Last
  <2>3. ring = <<>> /\ put = 0 /\ rok = FALSE /\ capr = Space - Lag /\ turned = FALSE
    BY DEF Init
  <2>4. DOMAIN ring = {} /\ 0..put - 1 = {}
    BY <2>3
  <2>5. put \in 0..RingSize /\ capr \in 0..Space - 1 /\ capr >= Space - Lag
    BY <2>3, Constants
  <2> QED BY <2>1, <2>2, <2>3, <2>4, <2>5 DEF FrameInv, Unread
<1>4. ConfigInv
  BY <1>2 DEF Init, ConfigInv, Booting
<1>5. CacheInv
  <2>1. cache = <<>>
    BY DEF Init
  <2>2. cache \in Seq(Entries) /\ Len(cache) = 0
    BY <2>1
  <2> QED BY <2>1, <2>2, Constants DEF CacheInv
<1>6. ArpInv
  <2>1. /\ pending = None /\ done = FALSE /\ resolved = None /\ crossed = FALSE
        /\ None \in Addresses
    BY DEF Init, Addresses
  <2>2. \A i \in 1..Len(stack) : stack[i].at # "wait"
    BY <1>2
  <2> QED BY <2>1, <2>2 DEF ArpInv
<1>7. DnsInv
  <2>1. result = None /\ dnsDone = FALSE
    BY DEF Init
  <2> QED BY <2>1 DEF DnsInv, Addresses
<1>8. TcpInv
  <2>1. Segments(stack, wire) = {}
    <3> SUFFICES ASSUME NEW x \in Segments(stack, wire) PROVE FALSE
      OBVIOUS
    <3>1. \A i \in 1..Len(stack) : ~Sending(stack[i])
      BY <1>2 DEF Sending
    <3>2. x \in wire /\ x.kind = "tcp"
      BY <3>1, SegmentsIn
    <3> QED BY <3>2, NetAssumption DEF Init, Offer
  <2>2. /\ remote = None /\ port = 49152 /\ connected = FALSE
        /\ rx = <<>> /\ ack = 0 /\ conn = 0 /\ peer = 0 /\ calls = 0
        /\ None \in Addresses
    BY DEF Init, Addresses
  <2>3. rx \in Seq(Int) /\ Len(rx) <= RxSize
    BY <2>2, Constants
  <2>4. port \in 49152..59151 /\ ack \in Nat /\ conn \in Int /\ peer \in Int /\ calls \in Nat
    BY <2>2
  <2>5. remote \in Addresses
    BY <2>2
  <2>6. connected \in BOOLEAN
    <3>1. connected = FALSE
      BY DEF Init
    <3> QED BY <3>1
  <2> QED BY <2>1, <2>3, <2>4, <2>5, <2>6 DEF TcpInv
<1> QED BY <1>1, <1>3, <1>4, <1>5, <1>6, <1>7, <1>8 DEF IInv

(* What a step leaves of the invariant because it leaves its variables.    *)
LEMMA KeepsFrames ==
  ASSUME FrameInv, UNCHANGED <<memory, wire>>, rok' \in {rok, FALSE}, At("take")' => Holds
  PROVE  FrameInv'
<1>1. UNCHANGED <<ring, put, capr, turned, wire>>
  BY DEF memory
<1>2. Unread' = Unread /\ Holds' = Holds
  BY <1>1 DEF Unread, Holds
<1>3. rok' \in BOOLEAN
  BY DEF FrameInv
<1>4. rok' => Holds
  <2>1. CASE rok' = rok
    BY <2>1 DEF FrameInv
  <2>2. CASE rok' = FALSE
    BY <2>2
  <2> QED BY <2>1, <2>2
<1>5. At("take")' \/ rok' => Holds'
  BY <1>2, <1>4
<1>6. ~turned' => Unread' /\ \A p \in DOMAIN ring' : ring'[p] \in wire'
  BY <1>1, <1>2 DEF FrameInv
<1> QED BY <1>1, <1>3, <1>5, <1>6 DEF FrameInv

LEMMA MoreFrames ==
  ASSUME FrameInv, UNCHANGED card, ~At("take")',
         \A f \in wire : f \in wire', \A f \in wire' : Honest(f)
  PROVE  FrameInv'
<1>1. UNCHANGED <<ring, put, capr, turned, rok>>
  BY DEF card, memory
<1>2. Unread' = Unread /\ Holds' = Holds
  BY <1>1 DEF Unread, Holds
<1> QED BY <1>1, <1>2 DEF FrameInv

LEMMA KeepsConfig ==
  ASSUME ConfigInv, Stays(stack, stack'), UNCHANGED <<config, udp>>
  PROVE  ConfigInv'
BY DEF ConfigInv, Stays

LEMMA KeepsCache ==
  ASSUME CacheInv, UNCHANGED <<cache, crossed, turned>>
  PROVE  CacheInv'
BY DEF CacheInv

LEMMA KeepsArp ==
  ASSUME ArpInv, NoNewWait(stack, stack'), UNCHANGED <<pending, done, resolved, crossed, turned>>
  PROVE  ArpInv'
BY DEF ArpInv, NoNewWait

LEMMA KeepsTcp ==
  ASSUME TcpInv, NoNewPacket(stack, stack'), \A f \in wire' : f.kind = "tcp" => f \in wire,
         UNCHANGED <<tcp, calls>>
  PROVE  TcpInv'
BY SegmentsShrink DEF TcpInv, tcp

LEMMA Answered ==
  ASSUME NEW p \in Packets, NEW f \in Answers(p)
  PROVE  /\ Honest(f)
         /\ f.kind = "tcp" => p.kind \in {"syn", "ack"} /\ f.port = p.port /\ f.conn = p.conn
<1>1. CASE p.kind = "query"
  <2>1. f = Dns(Address[p.name]) /\ p.name \in Names
    BY <1>1 DEF Answers, Packets
  <2> QED BY <2>1, Constants DEF Dns, FrameOK, Honest
<1>2. CASE p.kind = "syn"
  <2>1. f = Tcp("syn", p, 0, FALSE)
    BY <1>2 DEF Answers
  <2>2. p.port \in Int /\ p.conn \in Int
    BY <1>2, PacketKinds
  <2> QED BY <1>2, <2>1, <2>2 DEF Tcp, FrameOK, Honest
<1>3. CASE p.kind = "ack"
  <2>1. f = Tcp("data", p, 1, FALSE) \/ f = Tcp("data", p, 2, TRUE) \/ f = Tcp("fin", p, 3, TRUE)
    BY <1>3 DEF Answers
  <2>2. p.port \in Int /\ p.conn \in Int
    BY <1>3, PacketKinds
  <2>3. /\ f.kind = "tcp" /\ f.port = p.port /\ f.conn = p.conn
        /\ f.seq \in Nat /\ f.fin \in BOOLEAN
    <3>1. CASE f = Tcp("data", p, 1, FALSE)
      BY <3>1 DEF Tcp
    <3>2. CASE f = Tcp("data", p, 2, TRUE)
      BY <3>2 DEF Tcp
    <3>3. CASE f = Tcp("fin", p, 3, TRUE)
      BY <3>3 DEF Tcp
    <3> QED BY <2>1, <3>1, <3>2, <3>3
  <2> QED BY <1>3, <2>2, <2>3 DEF FrameOK, Honest
<1>4. CASE p.kind = "pong"
  BY <1>4 DEF Answers
<1> QED BY <1>1, <1>2, <1>3, <1>4, PacketKinds

LEMMA NewCall ==
  ASSUME NEW place \in {"answer", "spin", "poll", "take", "none"}, NEW c, c = Call(place, None, None)
  PROVE  /\ c \in CallSet /\ c.at = place /\ c.count = 0 /\ ~Sending(c)
         /\ \A i, n \in Nat :
              /\ place \in {"answer", "spin"} => i = 1
              /\ place \in {"poll", "take", "none"} => i > 1
              /\ place \in {"take", "none", "spin"} => i = n
              => Place(c, i, n)
<1>1. c \in CallSet /\ c.at = place /\ c.count = 0
  BY DEF Call, CallSet, Places, Addresses
<1>2. ~Sending(c)
  BY <1>1 DEF Sending
<1>3. 0 <= Retries
  BY Constants
<1> QED BY <1>1, <1>2, <1>3 DEF Place

(* Giving the packet to the card: the call ends or goes on waiting for an  *)
(* answer, and nothing new waits or is sent.                               *)
LEMMA TransmitMoves ==
  ASSUME Shape(stack), stack # <<>>, Sending(Top), NEW mac, Transmit(mac)
  PROVE  /\ Shape(stack') /\ Stays(stack, stack')
         /\ NoNewWait(stack, stack') /\ NoNewPacket(stack, stack')
         /\ stack' # <<>> => Last(stack').at # "take"
         /\ stack' # <<>> /\ Last(stack').at = "spin" => Top.packet.kind = "syn"
         /\ Top.packet.kind = "syn" => stack' # <<>> /\ ~Sending(stack'[1])
<1>1. /\ Len(stack) \in Nat /\ Len(stack) >= 1 /\ Len(stack) \in 1..Len(stack)
      /\ Top = stack[Len(stack)] /\ Top \in CallSet /\ Top = Last(stack)
      /\ Place(Top, Len(stack), Len(stack))
  BY TopFacts
<1>2. Top.packet.kind \in {"query", "syn"} <=> Len(stack) = 1
  BY <1>1 DEF Place
<1>3. Last(stack).at # "boot"
  BY <1>1 DEF Sending
<1>4. ASSUME NEW place \in {"answer", "spin"},
             Top.packet.kind = IF place = "answer" THEN "query" ELSE "syn",
             Goto(Call(place, None, None))
      PROVE  /\ Shape(stack') /\ Stays(stack, stack')
             /\ NoNewWait(stack, stack') /\ NoNewPacket(stack, stack')
             /\ stack' # <<>> => Last(stack').at # "take"
             /\ stack' # <<>> /\ Last(stack').at = "spin" => Top.packet.kind = "syn"
             /\ Top.packet.kind = "syn" => stack' # <<>> /\ ~Sending(stack'[1])
  <2> DEFINE c == Call(place, None, None)
  <2>1. Len(stack) = 1
    BY <1>2, <1>4
  <2>2. c \in CallSet /\ c.at = place /\ ~Sending(c) /\ Place(c, Len(stack), Len(stack))
    BY <2>1, NewCall
  <2> HIDE DEF c
  <2>3. Becomes(stack, stack', Len(stack), c)
    BY <1>4, <2>2, GotoShape DEF Goto, c
  <2>4. c.at = "answer" => Asking(stack)
    BY <1>1, <1>4, <2>1, <2>2 DEF Asking
  <2>5. /\ Stays(stack, stack')
        /\ NoNewWait(stack, stack') /\ NoNewPacket(stack, stack')
    BY <1>3, <2>2, <2>3, <2>4, GotoMoves
  <2>6. Shape(stack') /\ Last(stack') = c /\ stack' # <<>> /\ stack'[1] = c
    BY <2>1, <2>3 DEF Becomes, Last
  <2> QED BY <1>4, <2>2, <2>5, <2>6
<1>5. ASSUME Return, Top.packet.kind # "syn"
      PROVE  /\ Shape(stack') /\ Stays(stack, stack')
             /\ NoNewWait(stack, stack') /\ NoNewPacket(stack, stack')
             /\ stack' # <<>> => Last(stack').at # "take"
             /\ stack' # <<>> /\ Last(stack').at = "spin" => Top.packet.kind = "syn"
             /\ Top.packet.kind = "syn" => stack' # <<>> /\ ~Sending(stack'[1])
  <2>1. stack' # <<>> => Last(stack') = stack[Len(stack) - 1] /\ Len(stack) >= 2
    BY <1>5, ReturnShape DEF Return
  <2>2. \A i \in 1..Len(stack) - 1 : stack[i].at \notin {"take", "none", "spin"}
    BY <1>5, ReturnShape DEF Return
  <2>3. Len(stack) >= 2 => Len(stack) - 1 \in 1..Len(stack) - 1
    BY <1>1
  <2>4. /\ Shape(stack') /\ Stays(stack, stack')
        /\ NoNewWait(stack, stack') /\ NoNewPacket(stack, stack')
    BY <1>3, <1>5, ReturnMoves DEF Return
  <2> QED BY <1>5, <2>1, <2>2, <2>3, <2>4
<1>6. \/ Top.packet.kind = "query" /\ Goto(Call("answer", None, None))
      \/ Top.packet.kind = "syn" /\ Goto(Call("spin", None, None))
      \/ Top.packet.kind # "syn" /\ Return
  BY DEF Transmit
<1> QED BY <1>4, <1>5, <1>6

(* The frames a packet provokes.                                           *)
LEMMA TransmitFrames ==
  ASSUME Sending(Top), Top.packet \in Packets, NEW mac, Transmit(mac)
  PROVE  /\ \A f \in wire : f \in wire'
         /\ \A f \in wire' :
              f \in wire \/ (/\ Honest(f)
                             /\ f.kind = "tcp" => /\ Top.packet.kind \in {"syn", "ack"}
                                                  /\ f.port = Top.packet.port
                                                  /\ f.conn = Top.packet.conn)
<1>1. wire' = wire \/ wire' = wire \cup Answers(Top.packet)
  BY DEF Transmit
<1> QED BY <1>1, Answered

(* Every segment provoked has its packet's port and connection.            *)
LEMMA TransmitSegments ==
  ASSUME Shape(stack), stack # <<>>, Sending(Top), NEW mac, Transmit(mac),
         NEW x \in Segments(stack', wire')
  PROVE  \E y \in Segments(stack, wire) : x.port = y.port /\ x.conn = y.conn
<1>1. /\ Len(stack) \in 1..Len(stack) /\ Top = stack[Len(stack)]
      /\ Top.packet \in Packets
  BY TopFacts DEF Place
<1>2. Top.packet.kind \in {"syn", "ack"} => Top.packet \in Segments(stack, wire)
  BY <1>1, SegmentsIn
<1>3. CASE x \in wire' /\ x.kind = "tcp"
  <2>1. CASE x \in wire
    BY <1>3, <2>1, SegmentsIn
  <2>2. CASE x \notin wire
    BY <1>1, <1>2, <1>3, <2>2, TransmitFrames
  <2> QED BY <2>1, <2>2
<1>4. ASSUME NEW i \in 1..Len(stack'), Sending(stack'[i]),
             stack'[i].packet.kind \in {"syn", "ack"}, x = stack'[i].packet
      PROVE  x \in Segments(stack, wire)
  <2>1. i \in 1..Len(stack) /\ Sending(stack[i]) /\ stack'[i].packet = stack[i].packet
    BY <1>4, TransmitMoves DEF NoNewPacket
  <2> QED BY <2>1, <1>4, SegmentsIn
<1> QED BY <1>3, <1>4, SegmentsIn

LEMMA TransmitKeeps ==
  ASSUME IInv, stack # <<>>, Sending(Top), NEW mac, Transmit(mac)
  PROVE  Shape(stack') /\ FrameInv' /\ ConfigInv' /\ DnsInv' /\ TcpInv'
<1> USE DEF IInv
<1>1. Top.packet \in Packets /\ Len(stack) \in Nat
  BY TopFacts DEF Place
<1>2. /\ Shape(stack') /\ Stays(stack, stack')
      /\ stack' # <<>> => Last(stack').at # "take"
  BY TransmitMoves
<1>3. FrameInv'
  <2>1. UNCHANGED card
    BY DEF Transmit
  <2>2. ~At("take")'
    BY <1>2 DEF At, Top
  <2>3. /\ \A f \in wire : f \in wire'
        /\ \A f \in wire' : Honest(f)
    BY <1>1, TransmitFrames DEF FrameInv
  <2> QED BY <2>1, <2>2, <2>3, MoreFrames
<1>4. ConfigInv'
  BY <1>2, KeepsConfig DEF Transmit
<1>5. DnsInv'
  BY DEF Transmit, DnsInv, dns
<1>6. TcpInv'
  <2>1. UNCHANGED <<remote, port, rx, ack, conn, peer, calls>>
    BY DEF Transmit
  <2>2. connected' \in BOOLEAN
    BY DEF Transmit
  <2>3. remote \in Hosts \/ Segments(stack', wire') = {}
    BY TransmitSegments DEF TcpInv
  <2> QED BY <2>1, <2>2, <2>3 DEF TcpInv
<1> QED BY <1>2, <1>3, <1>4, <1>5, <1>6

(* arp_resolve: a request.                                                 *)
LEMMA RequestMoves ==
  ASSUME Shape(stack), stack # <<>>, Sending(Top), Top.count < Retries, Request
  PROVE  /\ Shape(stack') /\ Stays(stack, stack') /\ NoNewPacket(stack, stack')
         /\ stack' # <<>> /\ Last(stack').at = "wait" /\ Last(stack').ip = Top.ip
         /\ Len(stack') = Len(stack)
         /\ \A i \in 1..Len(stack) - 1 : stack'[i] = stack[i]
<1> DEFINE c == [Call("wait", Top.ip, Top.packet) EXCEPT !.count = Top.count + 1]
<1>1. /\ Len(stack) \in Nat /\ Len(stack) >= 1 /\ Len(stack) \in 1..Len(stack)
      /\ Top = stack[Len(stack)] /\ Top \in CallSet /\ Top = Last(stack)
      /\ Place(Top, Len(stack), Len(stack))
  BY TopFacts
<1>2. /\ c \in CallSet /\ c.at = "wait" /\ c.ip = Top.ip /\ c.packet = Top.packet
      /\ c.count = Top.count + 1
  <2>1. /\ Top.ip \in Addresses /\ Top.packet \in Packets \cup {None}
        /\ Top.count + 1 \in Nat
    BY <1>1 DEF CallSet
  <2>2. /\ Call("wait", Top.ip, Top.packet) \in CallSet
        /\ Call("wait", Top.ip, Top.packet).at = "wait"
        /\ Call("wait", Top.ip, Top.packet).ip = Top.ip
        /\ Call("wait", Top.ip, Top.packet).packet = Top.packet
    BY <2>1 DEF Call, CallSet, Places
  <2>3. \A e \in CallSet, n \in Nat :
          LET r == [e EXCEPT !.count = n]
          IN  /\ r \in CallSet /\ r.at = e.at /\ r.ip = e.ip /\ r.packet = e.packet
              /\ r.count = n
    BY DEF CallSet
  <2> QED BY <2>1, <2>2, <2>3
<1>3. stack' = [stack EXCEPT ![Len(stack)] = c]
  BY DEF Request, Goto
<1> HIDE DEF c
<1>4. Top.count \in Nat /\ Retries \in Nat
  BY <1>1, Constants DEF CallSet
<1>5. Sending(c) /\ Place(c, Len(stack), Len(stack))
  BY <1>1, <1>2, <1>4 DEF Place, Sending
<1>6. Becomes(stack, stack', Len(stack), c)
  BY <1>2, <1>3, <1>5, GotoShape
<1>7. Last(stack).at # "boot" /\ Last(stack) = Top
  BY <1>1 DEF Sending
<1>8. Stays(stack, stack') /\ NoNewPacket(stack, stack')
  BY <1>2, <1>5, <1>6, <1>7, GotoMoves
<1>9. /\ Shape(stack') /\ Len(stack') = Len(stack) /\ stack' # <<>> /\ Last(stack') = c
      /\ \A i \in 1..Len(stack) - 1 : stack'[i] = stack[i]
  BY <1>6 DEF Becomes, Last
<1> QED BY <1>2, <1>8, <1>9

LEMMA RequestKeeps ==
  ASSUME IInv, stack # <<>>, Sending(Top), Top.count < Retries, Request
  PROVE  IInv' /\ NoNewPacket(stack, stack') /\ ~At("spin")'
<1> USE DEF IInv
<1>1. /\ Shape(stack') /\ Stays(stack, stack') /\ NoNewPacket(stack, stack')
      /\ stack' # <<>> /\ Last(stack').at = "wait" /\ Last(stack').ip = Top.ip
      /\ Len(stack') = Len(stack)
      /\ \A i \in 1..Len(stack) - 1 : stack'[i] = stack[i]
  BY RequestMoves
<1>2. Top.ip \in Hosts /\ Len(stack) \in Nat /\ Len(stack) >= 1
  BY TopFacts DEF Place
<1>3. /\ wire' = wire \cup {Arp(Top.ip, Top.ip)}
      /\ pending' = Top.ip /\ done' = FALSE
      /\ crossed' = (crossed \/ \E i \in 1..Len(stack) - 1 : stack[i].at = "wait")
      /\ UNCHANGED <<card, config, cache, resolved, udp, dns, tcp, calls>>
  BY DEF Request
<1>4. FrameInv'
  <2>1. Honest(Arp(Top.ip, Top.ip))
    BY <1>2 DEF Honest, FrameOK, Arp, Addresses
  <2>2. ~At("take")'
    BY <1>1 DEF At, Top
  <2>3. /\ \A f \in wire : f \in wire'
        /\ \A f \in wire' : Honest(f)
    BY <1>3, <2>1 DEF FrameInv
  <2> QED BY <1>3, <2>2, <2>3, MoreFrames
<1>5. ConfigInv'
  BY <1>1, <1>3, KeepsConfig
<1>6. CacheInv'
  BY <1>3 DEF CacheInv, card, memory
<1>7. ArpInv'
  <2>1. /\ pending' \in Addresses /\ resolved' \in Addresses /\ done' \in BOOLEAN
        /\ crossed' \in BOOLEAN
    BY <1>2, <1>3 DEF ArpInv, Addresses
  <2>2. ASSUME ~crossed', NEW i \in 1..Len(stack'), stack'[i].at = "wait"
        PROVE  pending' = stack'[i].ip
    <3>1. CASE i = Len(stack)
      BY <1>1, <1>3, <3>1 DEF Last
    <3>2. CASE i # Len(stack)
      <4>1. i \in 1..Len(stack) - 1
        BY <1>1, <1>2, <3>2
      <4> QED BY <1>1, <1>3, <2>2, <4>1
    <3> QED BY <3>1, <3>2
  <2> QED BY <1>3, <2>1, <2>2 DEF ArpInv
<1>8. DnsInv'
  BY <1>3 DEF DnsInv, dns
<1>9. TcpInv'
  <2>1. \A f \in wire' : f.kind = "tcp" => f \in wire
    BY <1>3 DEF Arp
  <2> QED BY <1>1, <1>3, <2>1, KeepsTcp
<1>10. ~At("spin")'
  BY <1>1 DEF At, Top
<1> QED BY <1>1, <1>4, <1>5, <1>6, <1>7, <1>8, <1>9, <1>10

(* arp_cache_add keeps every address once, and a true entry true.          *)
LEMMA AddedOnce ==
  ASSUME CacheInv, NEW ip \in Hosts, NEW mac \in Hosts, NEW new, new = Added(ip, mac)
  PROVE  /\ new \in Seq(Entries) /\ Len(new) <= CacheSize
         /\ \A i, j \in 1..Len(new) : new[i].ip = new[j].ip => i = j
         /\ (~crossed /\ ~turned /\ mac = ip) => \A i \in 1..Len(new) : new[i].mac = new[i].ip
<1> DEFINE e == [ip |-> ip, mac |-> mac]
<1>1. /\ cache \in Seq(Entries) /\ Len(cache) \in Nat /\ Len(cache) <= CacheSize
      /\ \A i \in 1..Len(cache) : cache[i] \in Entries
      /\ \A i, j \in 1..Len(cache) : cache[i].ip = cache[j].ip => i = j
      /\ ~crossed /\ ~turned => \A i \in 1..Len(cache) : cache[i].mac = cache[i].ip
  BY DEF CacheInv
<1>2. e \in Entries /\ e.ip = ip /\ e.mac = mac
  BY DEF Entries
<1>3. CASE Known(ip)
  <2>1. new = [i \in 1..Len(cache) |-> IF cache[i].ip = ip THEN e ELSE cache[i]]
    BY <1>3 DEF Added
  <2> HIDE DEF e
  <2>2. new \in Seq(Entries) /\ Len(new) = Len(cache)
    BY <1>1, <1>2, <2>1
  <2>3. \A i \in 1..Len(cache) : new[i] = IF cache[i].ip = ip THEN e ELSE cache[i]
    BY <2>1
  <2>4. \A i \in 1..Len(cache) : new[i].ip = cache[i].ip
    BY <1>2, <2>3
  <2>5. (~crossed /\ ~turned /\ mac = ip) => \A i \in 1..Len(cache) : new[i].mac = new[i].ip
    BY <1>1, <1>2, <2>3
  <2> QED BY <1>1, <2>2, <2>4, <2>5
<1>4. CASE ~Known(ip) /\ Len(cache) < CacheSize
  <2>1. new = Append(cache, e)
    BY <1>4 DEF Added
  <2> HIDE DEF e
  <2>2. /\ new \in Seq(Entries) /\ Len(new) = Len(cache) + 1
        /\ \A i \in 1..Len(cache) : new[i] = cache[i]
        /\ new[Len(cache) + 1] = e
    BY <1>1, <1>2, <2>1
  <2>3. Len(new) <= CacheSize
    BY <1>1, <1>4, <2>2, Constants
  <2>4. \A i \in 1..Len(new) : i \in 1..Len(cache) \/ i = Len(cache) + 1
    BY <1>1, <2>2
  <2>5. \A i \in 1..Len(cache) : new[i].ip # ip
    BY <1>4, <2>2 DEF Known
  <2>6. \A i, j \in 1..Len(new) : new[i].ip = new[j].ip => i = j
    BY <1>1, <1>2, <2>2, <2>4, <2>5
  <2>7. (~crossed /\ ~turned /\ mac = ip) => \A i \in 1..Len(new) : new[i].mac = new[i].ip
    BY <1>1, <1>2, <2>2, <2>4
  <2> QED BY <2>2, <2>3, <2>6, <2>7
<1>5. CASE ~Known(ip) /\ ~(Len(cache) < CacheSize)
  BY <1>1, <1>5 DEF Added
<1> QED BY <1>3, <1>4, <1>5

LEMMA ArpResolveKeeps ==
  ASSUME IInv, ArpResolve
  PROVE  IInv'
<1>1. At("send") \/ At("wait")
  BY DEF ArpResolve, InCache, NotInCache, Retry, GiveUp, Resolved
<1>2. stack # <<>> /\ Sending(Top)
  BY <1>1 DEF At, Sending
<1>3. /\ Len(stack) \in Nat /\ Len(stack) \in 1..Len(stack) /\ Top = stack[Len(stack)]
      /\ Place(Top, Len(stack), Len(stack))
  BY <1>2, TopFacts DEF IInv
<1>4. ASSUME NEW mac, Transmit(mac), UNCHANGED arp
      PROVE  IInv'
  <2>1. Shape(stack') /\ FrameInv' /\ ConfigInv' /\ DnsInv' /\ TcpInv'
    BY <1>2, <1>4, TransmitKeeps
  <2>2. NoNewWait(stack, stack')
    BY <1>2, <1>4, TransmitMoves DEF IInv
  <2>3. turned' = turned
    BY <1>4 DEF Transmit, card, memory
  <2>4. ArpInv' /\ CacheInv'
    BY <1>4, <2>2, <2>3, KeepsArp, KeepsCache DEF IInv, arp
  <2> QED BY <2>1, <2>4 DEF IInv
<1>5. CASE InCache
  BY <1>4, <1>5 DEF InCache
<1>6. CASE GiveUp
  BY <1>4, <1>6 DEF GiveUp
<1>7. CASE NotInCache
  <2>1. Top.count < Retries
    BY <1>3, <1>7, Constants DEF NotInCache, At, Place
  <2> QED BY <1>2, <1>7, <2>1, RequestKeeps DEF NotInCache
<1>8. CASE Retry
  BY <1>2, <1>8, RequestKeeps DEF Retry
<1>9. CASE Resolved
  <2>1. /\ At("wait") /\ done /\ cache' = Added(Top.ip, resolved) /\ Transmit(resolved)
        /\ UNCHANGED <<pending, done, resolved, crossed, turned>>
    BY <1>9 DEF Resolved, Transmit, card, memory
  <2>2. Shape(stack') /\ FrameInv' /\ ConfigInv' /\ DnsInv' /\ TcpInv'
    BY <1>2, <2>1, TransmitKeeps
  <2>3. NoNewWait(stack, stack')
    BY <1>2, <2>1, TransmitMoves DEF IInv
  <2>4. ArpInv'
    BY <2>1, <2>3, KeepsArp DEF IInv
  <2>5. resolved \in Hosts /\ Top.ip \in Hosts /\ (~crossed /\ ~turned => resolved = Top.ip)
    BY <1>2, <1>3, <2>1 DEF IInv, ArpInv, At, Place
  <2>6. CacheInv'
    BY <2>1, <2>5, AddedOnce DEF IInv, CacheInv
  <2> QED BY <2>2, <2>4, <2>6 DEF IInv
<1> QED BY <1>5, <1>6, <1>7, <1>8, <1>9 DEF ArpResolve
-----------------------------------------------------------------------------
(* Taking a frame: either nothing is sent, or one packet is.               *)
LEMMA ContinueMoves ==
  ASSUME Shape(stack), At("take"), Continue
  PROVE  /\ Shape(stack') /\ Stays(stack, stack')
         /\ NoNewWait(stack, stack') /\ NoNewPacket(stack, stack')
         /\ stack' # <<>> /\ Last(stack').at = "poll"
<1> DEFINE c == Call("poll", None, None)
<1>1. /\ stack # <<>> /\ Len(stack) \in Nat /\ Top = Last(stack) /\ Top.at = "take"
      /\ Place(Top, Len(stack), Len(stack))
  BY TopFacts DEF At
<1>2. Len(stack) > 1
  BY <1>1 DEF Place
<1>3. c \in CallSet /\ c.at = "poll" /\ ~Sending(c) /\ Place(c, Len(stack), Len(stack))
  BY <1>1, <1>2, NewCall
<1>4. stack' = [stack EXCEPT ![Len(stack)] = c]
  BY DEF Continue, Goto
<1> HIDE DEF c
<1>5. Becomes(stack, stack', Len(stack), c)
  BY <1>1, <1>3, <1>4, GotoShape
<1>6. /\ Stays(stack, stack')
      /\ NoNewWait(stack, stack') /\ NoNewPacket(stack, stack')
  BY <1>1, <1>3, <1>5, GotoMoves
<1>7. Shape(stack') /\ stack' # <<>> /\ Last(stack') = c
  BY <1>5 DEF Becomes, Last
<1> QED BY <1>3, <1>6, <1>7

LEMMA FrameTaken ==
  ASSUME FrameInv, NEW f \in Frames
  PROVE  /\ FrameOK(f)
         /\ f.kind \in {"offer", "dns", "tcp"} => f \in wire
         /\ f.kind = "arp" /\ ~turned => f.from \in {f.mac, None}
<1>1. CASE turned
  <2>1. f \in Garbage
    BY <1>1 DEF Frames
  <2>2. \/ f.kind = "arp" /\ f.from \in Hosts \cup {None} /\ f.mac \in Hosts
        \/ f.kind = "ping" /\ f.from \in Hosts
    BY <2>1, NetAssumption
  <2> QED BY <1>1, <2>2 DEF FrameOK, Addresses
<1>2. CASE ~turned
  <2>1. f \in wire
    BY <1>2 DEF Frames, FrameInv
  <2> QED BY <2>1 DEF FrameInv, Honest
<1> QED BY <1>1, <1>2

LEMMA Advanced ==
  ASSUME FrameInv, At("take"), Advance, rok' = FALSE, wire' = wire, ~At("take")'
  PROVE  FrameInv' /\ turned' = turned
<1>1. CASE turned
  <2>1. UNCHANGED memory
    BY <1>1 DEF Advance
  <2> QED BY <2>1, KeepsFrames DEF memory
<1>2. CASE ~turned
  <2>1. /\ capr' = NextPlace(capr) /\ ring' = Restrict(ring, DOMAIN ring \ {capr})
        /\ put' = put /\ turned' = turned
    BY <1>2 DEF Advance
  <2>2. /\ DOMAIN ring' = DOMAIN ring \ {capr}
        /\ \A p \in DOMAIN ring' : ring'[p] = ring[p]
    BY <2>1 DEF Restrict
  <2>3. /\ put \in 0..RingSize /\ capr \in 0..Space - 1 /\ Unread /\ DOMAIN ring # {}
        /\ \A p \in DOMAIN ring : ring[p] \in wire
    BY <1>2 DEF FrameInv, Holds
  <2>4. /\ RingSize \in Nat /\ Lag \in Nat /\ Lag >= 1 /\ Space \in Nat /\ RingSize + Lag < Space
    BY Constants
  <2>5. /\ capr' \in 0..Space - 1
        /\ \/ capr' >= Space - Lag /\ DOMAIN ring' = 0..put - 1
           \/ capr' <= put /\ DOMAIN ring' = capr'..put - 1
    <3>1. CASE capr >= Space - Lag /\ DOMAIN ring = 0..put - 1
      <4>1. capr \notin 0..put - 1
        BY <2>3, <2>4, <3>1
      <4>2. DOMAIN ring' = 0..put - 1
        BY <2>2, <3>1, <4>1
      <4>3. CASE capr = Space - 1
        <5>1. capr' = 0
          BY <2>1, <4>3 DEF NextPlace
        <5> QED BY <2>3, <2>4, <4>2, <5>1
      <4>4. CASE capr # Space - 1
        <5>1. capr' = capr + 1
          BY <2>1, <4>4 DEF NextPlace
        <5> QED BY <2>3, <2>4, <3>1, <4>2, <4>4, <5>1
      <4> QED BY <4>3, <4>4
    <3>2. CASE capr <= put /\ DOMAIN ring = capr..put - 1
      <4>1. capr < put
        BY <2>3, <3>2
      <4>2. capr' = capr + 1
        BY <2>1, <2>3, <2>4, <4>1 DEF NextPlace
      <4>3. (capr..put - 1) \ {capr} = capr + 1..put - 1
        BY <2>3, <4>1
      <4>4. DOMAIN ring' = capr'..put - 1
        BY <2>2, <3>2, <4>2, <4>3
      <4> QED BY <2>3, <2>4, <4>1, <4>2, <4>4
    <3> QED BY <2>3, <3>1, <3>2 DEF Unread
  <2>6. Unread'
    BY <2>1, <2>5 DEF Unread
  <2>7. \A p \in DOMAIN ring' : ring'[p] \in wire'
    BY <2>2, <2>3
  <2> QED BY <1>2, <2>1, <2>5, <2>6, <2>7 DEF FrameInv
<1> QED BY <1>1, <1>2 DEF FrameInv

(* A frame that has us send nothing.                                       *)
LEMMA ContinueKeeps ==
  ASSUME IInv, At("take"), Continue, rok' = FALSE, Advance,
         UNCHANGED <<udp, wire, calls, remote, port, conn, peer>>
  PROVE  /\ Shape(stack') /\ FrameInv'
         /\ UNCHANGED config => ConfigInv'
         /\ UNCHANGED arp => CacheInv' /\ ArpInv'
         /\ UNCHANGED dns => DnsInv'
         /\ UNCHANGED tcp => TcpInv'
<1>1. /\ Shape(stack') /\ Stays(stack, stack')
      /\ NoNewWait(stack, stack') /\ NoNewPacket(stack, stack')
      /\ stack' # <<>> /\ Last(stack').at = "poll"
  BY ContinueMoves DEF IInv
<1>2. FrameInv' /\ turned' = turned
  <2>1. ~At("take")'
    BY <1>1 DEF At, Top
  <2> QED BY <2>1, Advanced DEF IInv
<1>3. UNCHANGED config => ConfigInv'
  BY <1>1, KeepsConfig DEF IInv
<1>4. UNCHANGED arp => CacheInv' /\ ArpInv'
  BY <1>1, <1>2, KeepsCache, KeepsArp DEF IInv, arp
<1>5. UNCHANGED dns => DnsInv'
  BY DEF IInv, DnsInv, dns
<1>6. UNCHANGED tcp => TcpInv'
  BY <1>1, KeepsTcp DEF IInv
<1> QED BY <1>1, <1>2, <1>3, <1>4, <1>5, <1>6

(* A frame that has us send a packet p.                                    *)
LEMMA IpSendKeeps ==
  ASSUME IInv, At("take"), NEW ip \in Hosts, NEW p \in Packets, p.kind \notin {"query", "syn"},
         IpSend(ip, p), rok' = FALSE, Advance,
         UNCHANGED <<config, arp, udp, wire, calls, remote>>
  PROVE  /\ Shape(stack') /\ FrameInv' /\ ConfigInv' /\ CacheInv' /\ ArpInv'
         /\ \A x \in Segments(stack', wire') : x \in Segments(stack, wire) \/ (p.kind = "ack" /\ x = p)
         /\ OnePacket(stack, stack', p)
<1>1. stack # <<>> /\ Last(stack).at = "take"
  BY DEF At, Top
<1>2. stack' = Front(stack) \o <<Call("poll", None, None), Call("send", ip, p)>>
  BY DEF IpSend
<1>3. OnePacket(stack, stack', p)
  BY <1>1, <1>2, IpSendMoves DEF IInv
<1>4. /\ Shape(stack') /\ stack' # <<>> /\ Last(stack').at = "send"
      /\ Stays(stack, stack') /\ NoNewWait(stack, stack')
  BY <1>3 DEF OnePacket
<1>5. FrameInv' /\ turned' = turned
  <2>1. ~At("take")'
    BY <1>4 DEF At, Top
  <2> QED BY <2>1, Advanced DEF IInv
<1>6. ConfigInv' /\ CacheInv' /\ ArpInv'
  BY <1>4, <1>5, KeepsConfig, KeepsCache, KeepsArp DEF IInv, arp
<1>7. ASSUME NEW x \in Segments(stack', wire')
      PROVE  x \in Segments(stack, wire) \/ (p.kind = "ack" /\ x = p)
  <2>1. CASE x \in wire' /\ x.kind = "tcp"
    BY <2>1, SegmentsIn
  <2>2. ASSUME NEW i \in 1..Len(stack'), Sending(stack'[i]),
               stack'[i].packet.kind \in {"syn", "ack"}, x = stack'[i].packet
        PROVE  x \in Segments(stack, wire) \/ (p.kind = "ack" /\ x = p)
    <3>1. CASE stack'[i].packet = p
      BY <2>2, <3>1
    <3>2. CASE i \in 1..Len(stack) /\ Sending(stack[i]) /\ stack'[i] = stack[i]
      BY <2>2, <3>2, SegmentsIn
    <3> QED BY <1>3, <2>2, <3>1, <3>2 DEF OnePacket
  <2> QED BY <2>1, <2>2, SegmentsIn
<1> QED BY <1>3, <1>4, <1>5, <1>6, <1>7

(* What sends no SYN leaves the call below that does, or none.             *)
LEMMA OnePacketBelow ==
  ASSUME NEW p, OnePacket(stack, stack', p), p.kind # "syn"
  PROVE  /\ Asking(stack') => Asking(stack)
         /\ Calling(stack') => Calling(stack)
         /\ ~At("spin")'
<1>1. Len(stack') \in Nat /\ stack' # <<>> /\ 1 \in 1..Len(stack')
  <2>1. stack' \in Seq(CallSet) /\ stack' # <<>>
    BY DEF OnePacket, Shape
  <2> QED BY <2>1
<1>2. Calling(stack') => Calling(stack)
  <2> SUFFICES ASSUME Calling(stack') PROVE Calling(stack)
    OBVIOUS
  <2>1. 1 \in 1..Len(stack) /\ Sending(stack[1]) /\ stack'[1] = stack[1]
    BY <1>1 DEF OnePacket, Calling
  <2>2. stack # <<>>
    BY <2>1
  <2> QED BY <2>1, <2>2 DEF Calling
<1> QED BY <1>1, <1>2 DEF OnePacket, At, Top

LEMMA HandleArpKeeps ==
  ASSUME IInv, At("take"), NEW f \in Frames, HandleArp(f), rok' = FALSE, Advance,
         UNCHANGED <<udp, wire, calls>>
  PROVE  IInv'
<1>1. Continue /\ UNCHANGED <<config, dns, tcp>>
  BY DEF HandleArp
<1>2. UNCHANGED <<remote, port, conn, peer>>
  BY <1>1 DEF tcp
<1>3. Shape(stack') /\ FrameInv' /\ ConfigInv' /\ DnsInv' /\ TcpInv'
  BY <1>1, <1>2, ContinueKeeps
<1>4. CASE UNCHANGED arp
  BY <1>1, <1>2, <1>3, <1>4, ContinueKeeps DEF IInv
<1>5. CASE /\ f.from \notin {None, config.ip}
           /\ cache' = Added(f.from, f.mac)
           /\ done' = (done \/ Wakes(f.from))
           /\ resolved' = IF Wakes(f.from) THEN f.mac ELSE resolved
           /\ UNCHANGED <<pending, crossed>>
  <2>1. NoNewWait(stack, stack') /\ stack' # <<>> /\ Last(stack').at # "take"
    BY <1>1, ContinueMoves DEF IInv
  <2>2. FrameOK(f) /\ f.kind = "arp" /\ (~turned => f.from \in {f.mac, None})
    BY FrameTaken DEF HandleArp, IInv
  <2>3. f.from \in Hosts /\ f.mac \in Hosts /\ (~turned => f.mac = f.from)
    BY <1>5, <2>2 DEF FrameOK, Addresses
  <2>0. turned' = turned
    <3>1. ~At("take")'
      BY <2>1 DEF At, Top
    <3> QED BY <3>1, Advanced DEF IInv
  <2>4. CacheInv'
    BY <1>5, <2>0, <2>3, AddedOnce DEF IInv, CacheInv
  <2>5. /\ done' => resolved' \in Hosts /\ (~turned => resolved' = pending')
        /\ resolved' \in Addresses /\ done' \in BOOLEAN
    BY <1>5, <2>3 DEF IInv, ArpInv, Wakes, Addresses
  <2>6. ArpInv'
    BY <1>5, <2>0, <2>1, <2>5 DEF IInv, ArpInv, NoNewWait
  <2> QED BY <1>3, <2>4, <2>6 DEF IInv
<1> QED BY <1>4, <1>5 DEF HandleArp

LEMMA HandlePingKeeps ==
  ASSUME IInv, At("take"), NEW f \in Frames, HandlePing(f), rok' = FALSE, Advance,
         UNCHANGED <<udp, wire, calls>>
  PROVE  IInv'
<1>1. UNCHANGED <<config, arp, dns, tcp>> /\ UNCHANGED <<remote, port, conn, peer>>
  BY DEF HandlePing, tcp
<1>2. CASE Continue
  BY <1>1, <1>2, ContinueKeeps DEF IInv
<1>3. CASE f.sum = 0 /\ IpSend(f.from, [kind |-> "pong"])
  <2> DEFINE p == [kind |-> "pong"]
  <2>2. f.from \in Hosts
    BY FrameTaken DEF IInv, FrameOK, HandlePing
  <2>3. p \in Packets /\ p.kind = "pong"
    BY DEF Packets
  <2> HIDE DEF p
  <2>4. IpSend(f.from, p)
    BY <1>3 DEF p
  <2>5. /\ Shape(stack') /\ FrameInv' /\ ConfigInv' /\ CacheInv' /\ ArpInv'
        /\ \A x \in Segments(stack', wire') : x \in Segments(stack, wire)
    BY <1>1, <2>2, <2>3, <2>4, IpSendKeeps
  <2>6. DnsInv' /\ TcpInv'
    BY <1>1, <2>5 DEF IInv, DnsInv, TcpInv, dns, tcp
  <2> QED BY <2>5, <2>6 DEF IInv
<1> QED BY <1>2, <1>3 DEF HandlePing

LEMMA AcknowledgeKeeps ==
  ASSUME IInv, At("take"), NEW f \in Frames, Ours(f), Acknowledge(f),
         rok' = FALSE, Advance,
         UNCHANGED <<config, arp, dns, udp, wire, calls, remote, port, conn>>,
         connected' \in BOOLEAN, peer' \in Int, rx' \in Seq(Int), Len(rx') <= RxSize
  PROVE  /\ IInv'
         /\ \A x \in Segments(stack', wire') :
              x \in Segments(stack, wire) \/ (x.kind = "ack" /\ x.port = f.port /\ x.conn = f.conn)
         /\ f \in Segments(stack, wire)
         /\ Asking(stack') => Asking(stack)
         /\ Calling(stack') => Calling(stack)
         /\ ~At("spin")'
<1> DEFINE p == [kind |-> "ack", port |-> port, conn |-> f.conn, fin |-> f.fin]
<1>2. f \in wire /\ FrameOK(f) /\ f.kind = "tcp" /\ f.port = port
  BY FrameTaken DEF IInv, Ours
<1>3. f \in Segments(stack, wire)
  BY <1>2, SegmentsIn
<1>4. remote \in Hosts /\ port \in Int
  BY <1>3 DEF IInv, TcpInv
<1>5. f.seq \in Nat /\ f.conn \in Int /\ f.fin \in BOOLEAN
  BY <1>2 DEF FrameOK
<1>6. p \in Packets /\ p.kind = "ack" /\ p.port = f.port /\ p.conn = f.conn
  BY <1>2, <1>4, <1>5 DEF Packets
<1> HIDE DEF p
<1>7. IpSend(remote, p) /\ ack' = f.seq + 1
  BY DEF Acknowledge, p
<1>8. /\ Shape(stack') /\ FrameInv' /\ ConfigInv' /\ CacheInv' /\ ArpInv'
      /\ \A x \in Segments(stack', wire') : x \in Segments(stack, wire) \/ (p.kind = "ack" /\ x = p)
      /\ OnePacket(stack, stack', p)
  BY <1>4, <1>6, <1>7, IpSendKeeps
<1>9. DnsInv'
  BY DEF IInv, DnsInv, dns
<1>10. TcpInv'
  BY <1>4, <1>5, <1>7 DEF IInv, TcpInv
<1>11. IInv'
  BY <1>8, <1>9, <1>10 DEF IInv
<1>12. /\ Asking(stack') => Asking(stack)
       /\ Calling(stack') => Calling(stack)
       /\ ~At("spin")'
  BY <1>6, <1>8, OnePacketBelow
<1> QED BY <1>3, <1>6, <1>8, <1>11, <1>12

LEMMA TakeKeeps ==
  ASSUME IInv, Take
  PROVE  IInv'
<1>1. PICK f \in Frames :
         /\ At("take") /\ rok' = FALSE /\ Advance
         /\ Handled(f) \/ Dropped(f)
         /\ UNCHANGED <<udp, wire, calls>>
  BY DEF Take
<1>3. FrameOK(f)
  BY FrameTaken DEF IInv
<1>4. CASE HandleArp(f)
  BY <1>1, <1>4, HandleArpKeeps
<1>5. CASE HandlePing(f)
  BY <1>1, <1>5, HandlePingKeeps
<1>6. CASE HandleOffer(f)
  <2>1. Continue /\ UNCHANGED <<arp, dns, tcp>> /\ config' = f.offer /\ udp = "dhcp"
    BY <1>6 DEF HandleOffer
  <2>2. UNCHANGED <<remote, port, conn, peer>>
    BY <2>1 DEF tcp
  <2>3. Shape(stack') /\ FrameInv' /\ CacheInv' /\ ArpInv' /\ DnsInv' /\ TcpInv'
    BY <1>1, <2>1, <2>2, ContinueKeeps
  <2>4. config' \in Offers
    BY <1>3, <1>6 DEF HandleOffer, FrameOK
  <2>5. Stays(stack, stack')
    BY <1>1, <2>1, ContinueMoves DEF IInv
  <2>6. ConfigInv'
    BY <1>1, <2>4, <2>5 DEF IInv, ConfigInv, Chosen, Stays
  <2> QED BY <2>3, <2>6 DEF IInv
<1>7. CASE HandleDns(f)
  <2>1. /\ Continue /\ UNCHANGED <<config, arp, tcp>>
        /\ result' = f.ip /\ dnsDone' = TRUE
    BY <1>7 DEF HandleDns
  <2>2. UNCHANGED <<remote, port, conn, peer>>
    BY <2>1 DEF tcp
  <2>3. Shape(stack') /\ FrameInv' /\ ConfigInv' /\ CacheInv' /\ ArpInv' /\ TcpInv'
    BY <1>1, <2>1, <2>2, ContinueKeeps
  <2>4. f.ip \in Addresses
    BY <1>3, <1>7 DEF HandleDns, FrameOK
  <2>5. DnsInv'
    BY <2>1, <2>4 DEF IInv, DnsInv
  <2> QED BY <2>3, <2>5 DEF IInv
<1>8. CASE HandleSyn(f)
  <2>1. /\ Ours(f) /\ Acknowledge(f) /\ connected' = TRUE /\ peer' = f.conn
        /\ UNCHANGED <<config, arp, dns, remote, port, rx, conn>>
    BY <1>8 DEF HandleSyn
  <2>2. peer' \in Int /\ rx' \in Seq(Int) /\ Len(rx') <= RxSize
    BY <1>3, <2>1 DEF Ours, FrameOK, IInv, TcpInv
  <2>3. connected' \in BOOLEAN
    BY <2>1
  <2> QED BY <1>1, <2>1, <2>2, <2>3, AcknowledgeKeeps
<1>9. CASE HandleData(f)
  <2>1. /\ Ours(f) /\ Acknowledge(f) /\ Len(rx) < RxSize /\ rx' = Append(rx, f.conn)
        /\ UNCHANGED <<config, arp, dns, remote, port, conn>>
        /\ UNCHANGED <<connected, peer>>
    BY <1>9 DEF HandleData, Fits
  <2>2. f.conn \in Int /\ rx \in Seq(Int) /\ connected \in BOOLEAN /\ peer \in Int
    BY <1>3, <2>1 DEF Ours, FrameOK, IInv, TcpInv
  <2>3. rx' \in Seq(Int) /\ Len(rx') <= RxSize
    BY <2>1, <2>2, Constants
  <2>4. peer' \in Int /\ connected' \in BOOLEAN
    BY <2>1, <2>2
  <2> QED BY <1>1, <2>1, <2>3, <2>4, AcknowledgeKeeps
<1>10. CASE HandleFin(f)
  <2>1. /\ Continue /\ connected' = FALSE
        /\ UNCHANGED <<remote, port, rx, ack, conn, peer, config, arp, dns>>
    BY <1>10 DEF HandleFin
  <2>2. Shape(stack') /\ FrameInv' /\ ConfigInv' /\ CacheInv' /\ ArpInv' /\ DnsInv'
    BY <1>1, <2>1, ContinueKeeps
  <2>3. Segments(stack', wire') \subseteq Segments(stack, wire)
    BY <1>1, <2>1, ContinueMoves, SegmentsShrink DEF IInv
  <2>4. connected' \in BOOLEAN
    BY <2>1
  <2>5. TcpInv'
    BY <1>1, <2>1, <2>3, <2>4 DEF IInv, TcpInv
  <2> QED BY <2>2, <2>5 DEF IInv
<1>11. CASE Dropped(f)
  <2>1. Continue /\ UNCHANGED <<config, arp, dns, tcp>> /\ UNCHANGED <<remote, port, conn, peer>>
    BY <1>11 DEF Dropped, tcp
  <2> QED BY <1>1, <2>1, ContinueKeeps DEF IInv
<1> QED BY <1>1, <1>4, <1>5, <1>6, <1>7, <1>8, <1>9, <1>10, <1>11 DEF Handled
-----------------------------------------------------------------------------
(* The polls and the calls that wait.                                      *)

(* A step that touches the stack only, without a wait or a packet.         *)
LEMMA StackOnlyKeeps ==
  ASSUME IInv, Shape(stack'), Stays(stack, stack'),
         NoNewWait(stack, stack'), NoNewPacket(stack, stack'),
         stack' # <<>> => Last(stack').at # "take" \/ Holds,
         UNCHANGED <<card, config, arp, udp, dns, tcp, wire, calls>>
  PROVE  IInv'
<1>0. UNCHANGED memory /\ rok' \in {rok, FALSE} /\ turned' = turned
  BY DEF card, memory
<1>1. FrameInv'
  <2>1. At("take")' => Holds
    BY DEF At, Top
  <2> QED BY <1>0, <2>1, KeepsFrames DEF IInv
<1>2. ConfigInv' /\ CacheInv' /\ ArpInv' /\ TcpInv'
  BY <1>0, KeepsConfig, KeepsCache, KeepsArp, KeepsTcp DEF IInv, arp
<1>3. DnsInv'
  BY DEF IInv, DnsInv, dns
<1> QED BY <1>1, <1>2, <1>3 DEF IInv

LEMMA ReturnKeeps ==
  ASSUME IInv, stack # <<>>, Top.at # "boot", Return,
         UNCHANGED <<config, arp, udp, dns, tcp, wire, calls>>,
         \/ UNCHANGED memory /\ rok' \in {rok, FALSE}
         \/ At("take") /\ Advance /\ rok' = FALSE
  PROVE  IInv' /\ NoNewPacket(stack, stack') /\ ~At("spin")'
<1>1. Top = Last(stack) /\ stack' = Front(stack) /\ Len(stack) \in Nat
  BY TopFacts DEF IInv, Return
<1>2. /\ Shape(stack') /\ Stays(stack, stack')
      /\ NoNewWait(stack, stack') /\ NoNewPacket(stack, stack')
  BY <1>1, ReturnMoves DEF IInv
<1>3. /\ \A i \in 1..Len(stack) - 1 : stack[i].at \notin {"take", "none", "spin"}
      /\ stack' # <<>> => Len(stack) >= 2 /\ Last(stack') = stack[Len(stack) - 1]
  BY <1>1, ReturnShape DEF IInv
<1>4. Len(stack) >= 2 => Len(stack) - 1 \in 1..Len(stack) - 1
  BY <1>1
<1>5. ~At("take")' /\ ~At("spin")'
  BY <1>3, <1>4 DEF At, Top
<1>6. FrameInv' /\ turned' = turned
  <2>1. CASE UNCHANGED memory /\ rok' \in {rok, FALSE}
    BY <1>5, <2>1, KeepsFrames DEF IInv, memory
  <2>2. CASE At("take") /\ Advance /\ rok' = FALSE
    BY <1>5, <2>2, Advanced DEF IInv
  <2> QED BY <2>1, <2>2
<1>7. ConfigInv' /\ CacheInv' /\ ArpInv' /\ TcpInv'
  BY <1>2, <1>6, KeepsConfig, KeepsCache, KeepsArp, KeepsTcp DEF IInv, arp
<1>8. DnsInv'
  BY DEF IInv, DnsInv, dns
<1> QED BY <1>2, <1>5, <1>6, <1>7, <1>8 DEF IInv

LEMMA ReadIsrKeeps ==
  ASSUME IInv, ReadIsr
  PROVE  IInv' /\ NoNewPacket(stack, stack') /\ ~At("spin")'
<1> DEFINE place == IF rok THEN "take" ELSE "none"
           c == [Top EXCEPT !.at = place]
<1>1. /\ stack # <<>> /\ Top.at = "poll" /\ stack' = [stack EXCEPT ![Len(stack)] = c]
      /\ UNCHANGED <<card, config, arp, udp, dns, tcp, wire, calls>>
  BY DEF ReadIsr, At, Goto
<1>2. /\ Len(stack) \in Nat /\ Top \in CallSet /\ Top = Last(stack)
      /\ Place(Top, Len(stack), Len(stack))
  BY <1>1, TopFacts DEF IInv
<1>3. c \in CallSet /\ c.at = place /\ c.count = Top.count
  BY <1>2 DEF CallSet, Places
<1>4. /\ place \in {"take", "none"} /\ (place = "take" => rok = TRUE)
  BY DEF IInv, FrameInv
<1> HIDE DEF c, place
<1>5. Place(c, Len(stack), Len(stack)) /\ ~Sending(c)
  BY <1>1, <1>2, <1>3, <1>4 DEF Place, Sending
<1>6. Becomes(stack, stack', Len(stack), c)
  BY <1>1, <1>3, <1>5, GotoShape DEF IInv
<1>7. Stays(stack, stack') /\ NoNewWait(stack, stack') /\ NoNewPacket(stack, stack')
  BY <1>1, <1>2, <1>3, <1>4, <1>5, <1>6, GotoMoves DEF IInv
<1>8. Shape(stack') /\ Last(stack') = c
  BY <1>6 DEF Becomes, Last
<1>9. Last(stack').at # "take" \/ Holds
  BY <1>3, <1>4, <1>8 DEF IInv, FrameInv
<1>10. ~At("spin")'
  BY <1>3, <1>4, <1>8 DEF At, Top
<1> QED BY <1>1, <1>7, <1>8, <1>9, <1>10, StackOnlyKeeps

LEMMA WaitKeeps ==
  ASSUME IInv, Wait
  PROVE  IInv' /\ NoNewPacket(stack, stack') /\ ~At("spin")'
<1> DEFINE c == Call("poll", None, None)
<1>1. /\ stack # <<>> /\ Top.at \in {"wait", "answer"} /\ stack' = Append(stack, c)
      /\ UNCHANGED <<card, config, arp, udp, dns, tcp, wire, calls>>
  BY DEF Wait, At, Push
<1>2. Len(stack) \in Nat /\ Len(stack) >= 1 /\ Top = Last(stack)
  BY <1>1, TopFacts DEF IInv
<1>3. c \in CallSet /\ c.at = "poll" /\ ~Sending(c) /\ Place(c, Len(stack) + 1, Len(stack) + 1)
  BY <1>2, NewCall
<1> HIDE DEF c
<1>4. Becomes(stack, stack', Len(stack) + 1, c)
  BY <1>1, <1>2, <1>3, PushShape DEF IInv
<1>5. Stays(stack, stack') /\ NoNewWait(stack, stack') /\ NoNewPacket(stack, stack')
  BY <1>1, <1>3, <1>4, PushMoves DEF IInv
<1>6. Shape(stack') /\ Last(stack') = c
  BY <1>4 DEF Becomes, Last
<1>7. ~At("spin")'
  BY <1>3, <1>6 DEF At, Top
<1> QED BY <1>1, <1>3, <1>5, <1>6, <1>7, StackOnlyKeeps

LEMMA BootPollKeeps ==
  ASSUME IInv, BootPoll
  PROVE  IInv' /\ NoNewPacket(stack, stack') /\ ~At("spin")'
<1> DEFINE b == [Top EXCEPT !.count = @ + 1]
           c == Call("poll", None, None)
<1>1. /\ stack # <<>> /\ Top.at = "boot" /\ Top.count < Polls /\ stack' = <<b, c>>
      /\ UNCHANGED <<card, config, arp, udp, dns, tcp, wire, calls>>
  BY DEF BootPoll, At
<1>2. /\ Len(stack) \in Nat /\ Len(stack) \in 1..Len(stack)
      /\ Top \in CallSet /\ Top = stack[Len(stack)]
      /\ Place(Top, Len(stack), Len(stack))
  BY <1>1, TopFacts DEF IInv
<1>3. b \in CallSet /\ b.at = "boot" /\ b.count = Top.count + 1 /\ Top.count \in Nat
  BY <1>1, <1>2 DEF CallSet
<1>4. c \in CallSet /\ c.at = "poll" /\ ~Sending(c) /\ Place(c, 2, 2)
  BY NewCall
<1> HIDE DEF b, c
<1>5. stack[1].at = "boot"
  BY <1>1, <1>2 DEF Place
<1>6. Place(b, 1, 2) /\ ~Sending(b)
  BY <1>1, <1>3, Constants DEF Place, Sending
<1>7. stack' \in Seq(CallSet) /\ Len(stack') = 2 /\ stack'[1] = b /\ stack'[2] = c
  BY <1>1, <1>3, <1>4
<1>8. Shape(stack') /\ stack' # <<>> /\ Last(stack') = c
  BY <1>4, <1>6, <1>7 DEF Shape, Last
<1>9. \A i \in 1..Len(stack') : ~Sending(stack'[i])
  BY <1>4, <1>6, <1>7
<1>10. Stays(stack, stack') /\ NoNewWait(stack, stack') /\ NoNewPacket(stack, stack')
  BY <1>1, <1>3, <1>5, <1>7, <1>8, <1>9 DEF Stays, Booting, NoNewWait, NoNewPacket, Asking, Sending
<1>11. ~At("spin")'
  BY <1>4, <1>8 DEF At, Top
<1> QED BY <1>1, <1>4, <1>8, <1>10, <1>11, StackOnlyKeeps

(* net_init settles on an address.                                         *)
LEMMA BootedKeeps ==
  ASSUME IInv, Booted
  PROVE  IInv' /\ NoNewPacket(stack, stack') /\ ~At("spin")'
<1>1. /\ stack # <<>> /\ Top.at = "boot" /\ stack' = <<>>
      /\ config' = IF config.ip = None THEN Fallback ELSE config
      /\ UNCHANGED <<memory, rok, turned, arp, udp, dns, tcp, wire, calls>>
  BY DEF Booted, At, card, memory
<1>2. Shape(stack') /\ Len(stack') = 0
  BY <1>1 DEF Shape
<1>3. NoNewWait(stack, stack') /\ NoNewPacket(stack, stack')
  BY <1>1, <1>2 DEF NoNewWait, NoNewPacket, Asking
<1>4. FrameInv'
  BY <1>1, KeepsFrames DEF IInv, At
<1>5. ConfigInv'
  <2>1. config' \in Chosen
    BY <1>1 DEF IInv, ConfigInv, Chosen
  <2> QED BY <1>1, <2>1 DEF IInv, ConfigInv
<1>6. CacheInv' /\ ArpInv' /\ TcpInv'
  BY <1>1, <1>3, KeepsCache, KeepsArp, KeepsTcp DEF IInv, arp
<1>7. DnsInv'
  BY <1>1 DEF IInv, DnsInv, dns
<1>8. ~At("spin")'
  BY <1>1 DEF At
<1> QED BY <1>2, <1>3, <1>4, <1>5, <1>6, <1>7, <1>8 DEF IInv

(* A packet of net_http_get, sent as the only call.                        *)
LEMMA FirstSend ==
  ASSUME NEW ip \in Hosts, NEW p \in Packets, p.kind \in {"query", "syn"},
         stack' = <<Call("send", ip, p)>>
  PROVE  /\ Shape(stack') /\ stack' # <<>> /\ ~Booting(stack') /\ Last(stack').at = "send"
         /\ Len(stack') = 1 /\ stack'[1].at = "send" /\ stack'[1].packet = p
<1> DEFINE c == Call("send", ip, p)
<1>1. c \in CallSet /\ c.at = "send" /\ c.ip = ip /\ c.packet = p /\ c.count = 0
  BY DEF Call, CallSet, Places, Addresses
<1> HIDE DEF c
<1>2. stack' = <<c>>
  BY DEF c
<1>3. stack' \in Seq(CallSet) /\ Len(stack') = 1 /\ stack'[1] = c /\ stack' # <<>>
  BY <1>1, <1>2
<1>4. Place(c, 1, 1)
  BY <1>1, Constants DEF Place, Sending
<1> QED BY <1>1, <1>3, <1>4 DEF Shape, Last, Booting

(* Its effect on the segments: its own, if it is a SYN.                    *)
LEMMA FirstSegments ==
  ASSUME NEW p \in Packets, Len(stack') = 1, stack'[1].packet = p, wire' = wire,
         NEW x \in Segments(stack', wire')
  PROVE  x \in Segments(stack, wire) \/ (p.kind = "syn" /\ x = p) \/ p.kind = "ack"
<1>1. CASE x \in wire' /\ x.kind = "tcp"
  BY <1>1, SegmentsIn
<1>2. ASSUME NEW i \in 1..Len(stack'), Sending(stack'[i]),
             stack'[i].packet.kind \in {"syn", "ack"}, x = stack'[i].packet
      PROVE  (p.kind = "syn" /\ x = p) \/ p.kind = "ack"
  <2>1. i = 1
    BY <1>2
  <2> QED BY <1>2, <2>1
<1> QED BY <1>1, <1>2, SegmentsIn

LEMMA DlwKeeps ==
  ASSUME IInv, NEW name \in Names, Dlw(name)
  PROVE  IInv'
<1> DEFINE p == [kind |-> "query", name |-> name]
<1>1. /\ stack = <<>> /\ calls' = calls + 1
      /\ result' = None /\ dnsDone' = FALSE /\ udp' = "dns"
      /\ stack' = Append(stack, Call("send", config.dns, p))
      /\ UNCHANGED <<memory, rok, turned, config, arp, tcp, wire>>
  BY DEF Dlw, Push, card, memory
<1>2. config \in Chosen /\ config.dns \in Hosts
  <2>1. config \in Chosen
    BY <1>1 DEF IInv, ConfigInv, Booting
  <2> QED BY <2>1, Constants DEF Chosen
<1>3. p \in Packets /\ p.kind = "query"
  BY DEF Packets
<1> HIDE DEF p
<1>4. stack' = <<Call("send", config.dns, p)>>
  BY <1>1
<1>5. /\ Shape(stack') /\ stack' # <<>> /\ ~Booting(stack') /\ Last(stack').at = "send"
      /\ Len(stack') = 1 /\ stack'[1].at = "send" /\ stack'[1].packet = p
  BY <1>2, <1>3, <1>4, FirstSend
<1>6. FrameInv'
  <2>1. ~At("take")'
    BY <1>5 DEF At, Top
  <2> QED BY <1>1, <2>1, KeepsFrames DEF IInv
<1>7. ConfigInv'
  BY <1>1, <1>2, <1>5 DEF IInv, ConfigInv
<1>8. CacheInv' /\ ArpInv'
  <2>1. NoNewWait(stack, stack')
    BY <1>5 DEF NoNewWait
  <2> QED BY <1>1, <2>1, KeepsCache, KeepsArp DEF IInv, arp
<1>9. DnsInv'
  BY <1>1 DEF IInv, DnsInv, Addresses
<1>10. TcpInv'
  <2>1. Segments(stack', wire') \subseteq Segments(stack, wire)
    BY <1>1, <1>3, <1>5, FirstSegments
  <2> QED BY <1>1, <2>1 DEF IInv, TcpInv, tcp
<1> QED BY <1>5, <1>6, <1>7, <1>8, <1>9, <1>10 DEF IInv

LEMMA ConnectKeeps ==
  ASSUME IInv, Connect
  PROVE  IInv'
<1> DEFINE p == [kind |-> "syn", port |-> NextPort(port), conn |-> calls]
<1>1. /\ stack # <<>> /\ Top.at = "answer" /\ result # None
      /\ remote' = result /\ port' = NextPort(port)
      /\ ack' = 0 /\ rx' = <<>> /\ connected' = FALSE /\ conn' = calls
      /\ stack' = [stack EXCEPT ![Len(stack)] = Call("send", result, p)]
      /\ UNCHANGED <<memory, rok, turned, config, arp, udp, dns, peer, wire, calls>>
  BY DEF Connect, DnsOver, At, Goto, card, memory
<1>2. /\ Len(stack) = 1 /\ stack[1].at = "answer" /\ stack \in Seq(CallSet)
  BY <1>1, TopFacts DEF IInv, Place, Shape
<1>3. result \in Hosts
  BY <1>1 DEF IInv, DnsInv, Addresses
<1>4. port' \in 49152..59151 /\ calls \in Nat
  <2>1. port \in Nat /\ calls \in Nat
    BY DEF IInv, TcpInv
  <2>2. NextPort(port) \in 49152..59151
    BY <2>1 DEF NextPort
  <2> QED BY <1>1, <2>1, <2>2
<1>5. p \in Packets /\ p.kind = "syn" /\ p.port = port' /\ p.conn = calls
  <2>1. port' = NextPort(port) /\ port' \in Int /\ calls \in Int
    BY <1>1, <1>4
  <2> QED BY <2>1 DEF Packets
<1> HIDE DEF p
<1>6. stack' = <<Call("send", result, p)>>
  BY <1>1, <1>2
<1>7. /\ Shape(stack') /\ stack' # <<>> /\ ~Booting(stack') /\ Last(stack').at = "send"
      /\ Len(stack') = 1 /\ stack'[1].at = "send" /\ stack'[1].packet = p
  BY <1>3, <1>5, <1>6, FirstSend
<1>8. FrameInv'
  <2>1. ~At("take")'
    BY <1>7 DEF At, Top
  <2> QED BY <1>1, <2>1, KeepsFrames DEF IInv
<1>9. ConfigInv'
  <2>1. ~Booting(stack) /\ ~Booting(stack')
    BY <1>2, <1>7 DEF Booting
  <2> QED BY <1>1, <2>1 DEF IInv, ConfigInv
<1>10. CacheInv' /\ ArpInv'
  <2>1. NoNewWait(stack, stack')
    BY <1>7 DEF NoNewWait
  <2> QED BY <1>1, <2>1, KeepsCache, KeepsArp DEF IInv, arp
<1>11. DnsInv'
  BY <1>1 DEF IInv, DnsInv, dns
<1>12. TcpInv'
  <2>1. remote' \in Hosts /\ remote' \in Addresses
    BY <1>1, <1>3 DEF Addresses
  <2>2. rx' \in Seq(Int) /\ Len(rx') <= RxSize /\ ack' \in Nat
    BY <1>1, Constants
  <2>3. connected' \in BOOLEAN
    BY <1>1
  <2>4. conn' \in Int /\ peer' \in Int /\ calls' \in Nat
    BY <1>1, <1>4 DEF IInv, TcpInv
  <2> QED BY <1>4, <2>1, <2>2, <2>3, <2>4 DEF TcpInv
<1> QED BY <1>7, <1>8, <1>9, <1>10, <1>11, <1>12 DEF IInv

LEMMA ArriveKeeps ==
  ASSUME IInv, NEW f \in wire, Arrive(f)
  PROVE  IInv'
<1>1. /\ rok' = TRUE
      /\ UNCHANGED <<stack, config, arp, udp, dns, tcp, wire, calls>>
  BY DEF Arrive
<1>2. FrameInv /\ wire' = wire
  BY <1>1 DEF IInv
<1>0. rok' \in BOOLEAN
  <2>1. rok' = TRUE
    BY <1>1
  <2> QED BY <2>1
<1>3. ASSUME turned PROVE FrameInv'
  <2>1. UNCHANGED <<ring, put, capr, turned>>
    BY <1>3 DEF Arrive, memory
  <2>2. turned' /\ Holds'
    BY <1>3, <2>1 DEF Holds
  <2>3. FrameInv'
    BY <1>0, <1>2, <2>1, <2>2 DEF FrameInv
  <2> QED BY <2>3
<1>4. ASSUME ~turned, put < RingSize PROVE FrameInv'
  <2>1. /\ ring' = [p \in DOMAIN ring \cup {put} |-> IF p = put THEN f ELSE ring[p]]
        /\ put' = put + 1 /\ capr' = capr /\ turned' = turned
    BY <1>4 DEF Arrive
  <2>2. /\ DOMAIN ring' = DOMAIN ring \cup {put}
        /\ \A p \in DOMAIN ring' : ring'[p] \in wire'
    BY <1>1, <1>2, <1>4, <2>1 DEF FrameInv
  <2>3. put \in 0..RingSize /\ capr \in 0..Space - 1 /\ RingSize \in Nat /\ Space \in Nat
    BY <1>2, Constants DEF FrameInv
  <2>4. put' \in 0..RingSize
    BY <1>4, <2>1, <2>3
  <2>5. Unread'
    <3>1. CASE capr >= Space - Lag /\ DOMAIN ring = 0..put - 1
      <4>1. (0..put - 1) \cup {put} = 0..put' - 1
        BY <2>1, <2>3
      <4> QED BY <2>1, <2>2, <3>1, <4>1 DEF Unread
    <3>2. CASE capr <= put /\ DOMAIN ring = capr..put - 1
      <4>1. (capr..put - 1) \cup {put} = capr..put' - 1 /\ capr <= put'
        BY <2>1, <2>3, <3>2
      <4> QED BY <2>1, <2>2, <3>2, <4>1 DEF Unread
    <3> QED BY <1>2, <1>4, <3>1, <3>2 DEF FrameInv, Unread
  <2>6. Holds'
    BY <2>2 DEF Holds
  <2>7. FrameInv'
    BY <1>0, <1>2, <1>4, <2>1, <2>2, <2>4, <2>5, <2>6 DEF FrameInv
  <2> QED BY <2>7
<1>5. ASSUME ~turned, ~(put < RingSize) PROVE FrameInv'
  <2>1. turned' = TRUE /\ ring' = <<>> /\ put' = put /\ capr' = capr
    BY <1>5 DEF Arrive
  <2>2. DOMAIN ring' = {}
    BY <2>1
  <2>4. turned' /\ turned' \in BOOLEAN
    <3>1. turned' = TRUE
      BY <2>1
    <3> QED BY <3>1
  <2>5. Holds'
    BY <2>4 DEF Holds
  <2>3. FrameInv'
    BY <1>0, <1>2, <2>1, <2>2, <2>4, <2>5 DEF FrameInv
  <2> QED BY <2>3
<1>6. FrameInv' /\ (turned => turned')
  <2>1. turned => turned' = turned
    BY DEF Arrive, memory
  <2> QED BY <1>3, <1>4, <1>5, <2>1
<1>7. ConfigInv' /\ CacheInv' /\ ArpInv'
  BY <1>1, <1>6 DEF IInv, ConfigInv, CacheInv, ArpInv, arp
<1>8. DnsInv' /\ TcpInv' /\ Shape(stack')
  BY <1>1 DEF IInv, DnsInv, TcpInv, dns, tcp
<1> QED BY <1>6, <1>7, <1>8 DEF IInv

LEMMA TickKeeps ==
  ASSUME IInv, Tick
  PROVE  /\ IInv'
         /\ Stays(stack, stack') /\ NoNewPacket(stack, stack')
         /\ Last(stack').at = Last(stack).at /\ stack # <<>>
         /\ stack' # <<>> /\ \A j \in 1..Len(stack) : stack'[j].packet = stack[j].packet
<1>1. PICK i \in 1..Len(stack) : stack' = [stack EXCEPT ![i].late = TRUE]
  BY DEF Tick
<1>2. UNCHANGED <<card, config, arp, udp, dns, tcp, wire, calls>>
  BY DEF Tick
<1> DEFINE c == [stack[i] EXCEPT !.late = TRUE]
<1>3. stack \in Seq(CallSet) /\ Len(stack) \in Nat /\ stack[i] \in CallSet
  BY <1>1 DEF IInv, Shape
<1>4. /\ c \in CallSet /\ c.at = stack[i].at /\ c.ip = stack[i].ip
      /\ c.packet = stack[i].packet /\ c.count = stack[i].count
  BY <1>3 DEF CallSet
<1>5. stack' = [stack EXCEPT ![i] = c]
  BY <1>1
<1> HIDE DEF c
<1>6. /\ stack' \in Seq(CallSet) /\ Len(stack') = Len(stack) /\ stack' # <<>> /\ stack # <<>>
      /\ \A j \in 1..Len(stack) : stack'[j] = IF j = i THEN c ELSE stack[j]
  BY <1>3, <1>4, <1>5
<1>7. \A j \in 1..Len(stack) :
        /\ stack'[j].at = stack[j].at /\ stack'[j].ip = stack[j].ip
        /\ stack'[j].packet = stack[j].packet /\ stack'[j].count = stack[j].count
  BY <1>4, <1>6
<1>8. Shape(stack')
  BY <1>6, <1>7 DEF IInv, Shape, Place, Sending
<1>9. 1 \in 1..Len(stack) /\ Len(stack) \in 1..Len(stack)
  BY <1>1, <1>3
<1>10. Stays(stack, stack') /\ NoNewWait(stack, stack') /\ NoNewPacket(stack, stack')
  BY <1>6, <1>7, <1>9 DEF Stays, Booting, NoNewWait, NoNewPacket, Asking, Sending
<1>11. Last(stack').at = Last(stack).at
  BY <1>6, <1>7, <1>9 DEF Last
<1>12. Last(stack').at # "take" \/ Holds
  BY <1>6, <1>11 DEF IInv, FrameInv, At, Top
<1> QED BY <1>2, <1>6, <1>7, <1>8, <1>10, <1>11, <1>12, StackOnlyKeeps

LEMMA NextKeeps == IInv /\ [Next]_vars => IInv'
<1> SUFFICES ASSUME IInv, [Next]_vars PROVE IInv'
  OBVIOUS
<1>1. CASE ArpResolve
  BY <1>1, ArpResolveKeeps
<1>2. CASE ReadIsr
  BY <1>2, ReadIsrKeeps
<1>3. CASE NoFrame
  <2>1. /\ stack # <<>> /\ Top.at # "boot" /\ Return /\ rok' = FALSE
        /\ UNCHANGED <<memory, config, arp, udp, dns, tcp, wire, calls>>
    BY <1>3 DEF NoFrame, At
  <2> QED BY <2>1, ReturnKeeps
<1>4. CASE Take
  BY <1>4, TakeKeeps
<1>5. CASE Wait
  BY <1>5, WaitKeeps
<1>6. CASE BootPoll
  BY <1>6, BootPollKeeps
<1>7. CASE Booted
  BY <1>7, BootedKeeps
<1>8. CASE DnsFailed
  <2>1. /\ stack # <<>> /\ Top.at # "boot" /\ Return
        /\ UNCHANGED <<config, arp, udp, dns, tcp, wire, calls, memory, rok>>
    BY <1>8 DEF DnsFailed, DnsOver, At, card
  <2> QED BY <2>1, ReturnKeeps
<1>9. CASE Connect
  BY <1>9, ConnectKeeps
<1>10. CASE ConnectFailed
  <2>1. /\ stack # <<>> /\ Top.at # "boot" /\ Return
        /\ UNCHANGED <<config, arp, udp, dns, tcp, wire, calls, memory, rok>>
    BY <1>10 DEF ConnectFailed, At, card
  <2> QED BY <2>1, ReturnKeeps
<1>11. CASE Tick
  BY <1>11, TickKeeps
<1>12. ASSUME NEW name \in Names, Dlw(name) PROVE IInv'
  BY <1>12, DlwKeeps
<1>13. ASSUME NEW f \in wire, Arrive(f) PROVE IInv'
  BY <1>13, ArriveKeeps
<1>14. CASE UNCHANGED vars
  <2>1. UNCHANGED <<stack, ring, put, capr, turned, rok, config, cache, pending, done, resolved,
                    crossed, udp, wire>>
    BY <1>14 DEF vars, card, memory, arp
  <2>2. UNCHANGED <<dns, tcp, calls>>
    BY <1>14 DEF vars
  <2>3. Shape(stack') /\ FrameInv'
    BY <2>1 DEF IInv, FrameInv, Unread, Holds, At, Top
  <2>4. ConfigInv' /\ CacheInv' /\ ArpInv'
    BY <2>1 DEF IInv, ConfigInv, CacheInv, ArpInv
  <2>5. DnsInv' /\ TcpInv'
    BY <2>1, <2>2 DEF IInv, DnsInv, TcpInv, dns, tcp
  <2> QED BY <2>3, <2>4, <2>5 DEF IInv
<1>15. CASE BadStatus
  <2>1. /\ stack # <<>> /\ Top.at # "boot" /\ Return /\ rok' = FALSE
        /\ At("take") /\ Advance
        /\ UNCHANGED <<config, arp, udp, dns, tcp, wire, calls>>
    BY <1>15 DEF BadStatus, At
  <2> QED BY <2>1, ReturnKeeps
<1> QED BY <1>1, <1>2, <1>3, <1>4, <1>5, <1>6, <1>7, <1>8, <1>9, <1>10, <1>11, <1>12, <1>13, <1>14,
           <1>15
        DEF Next, Cpu, Poll, HttpGet

(* What may be called from where, which frames there are, and what the     *)
(* protocols' variables hold is inductive, for any hosts, sizes and number *)
(* of frames: net_rx_handler never sends to an address it does not have.   *)
THEOREM InductiveInvariant == Spec => []IInv
BY InitInv, NextKeeps, PTL DEF Spec

(* The network's variables have their types, however many calls are        *)
(* nested.                                                                 *)
THEOREM TypeCorrect == Spec => []TypeOK
<1>1. ASSUME IInv PROVE TypeOK
  <2>1. ASSUME NEW i \in 1..Len(stack)
        PROVE  /\ stack[i].at \in {"boot", "send", "wait", "answer", "spin", "poll", "take", "none"}
               /\ stack[i].ip \in Addresses
               /\ stack[i].count \in 0..IF stack[i].at = "boot" THEN Polls ELSE Retries
    <3>1. stack[i] \in CallSet /\ Place(stack[i], i, Len(stack))
      BY <1>1, <2>1 DEF IInv, Shape
    <3> QED BY <3>1, Constants DEF CallSet, Places, Place
  <2>2. /\ put \in 0..RingSize /\ capr \in 0..Space - 1
        /\ rok \in BOOLEAN /\ turned \in BOOLEAN
    BY <1>1 DEF IInv, FrameInv
  <2>10. DOMAIN ring \subseteq 0..RingSize - 1
    <3>1. CASE turned
      BY <1>1, <3>1 DEF IInv, FrameInv
    <3>2. CASE ~turned
      <4>1. Unread
        BY <1>1, <3>2 DEF IInv, FrameInv
      <4> QED BY <2>2, <4>1, Constants DEF Unread
    <3> QED BY <3>1, <3>2
  <2>3. config \in Offers \cup {Fallback, [ip |-> None, dns |-> None]} /\ udp \in {"dhcp", "dns"}
    BY <1>1 DEF IInv, ConfigInv, Chosen
  <2>4. Len(cache) <= CacheSize /\ \A i \in 1..Len(cache) : cache[i] \in [ip : Hosts, mac : Hosts]
    <3>1. cache \in Seq(Entries) /\ Len(cache) <= CacheSize
      BY <1>1 DEF IInv, CacheInv
    <3>2. \A i \in 1..Len(cache) : cache[i] \in Entries
      BY <3>1
    <3> QED BY <3>1, <3>2 DEF Entries
  <2>5. pending \in Addresses /\ resolved \in Addresses /\ done \in BOOLEAN
    BY <1>1 DEF IInv, ArpInv
  <2>6. result \in Addresses /\ dnsDone \in BOOLEAN
    BY <1>1 DEF IInv, DnsInv
  <2>7. remote \in Addresses /\ connected \in BOOLEAN /\ Len(rx) <= RxSize /\ ack \in Nat
    BY <1>1 DEF IInv, TcpInv
  <2>8. port \in Ports
    BY <1>1 DEF IInv, TcpInv, Ports
  <2>9. \A i \in 1..Len(stack) :
          /\ stack[i].at \in {"boot", "send", "wait", "answer", "spin", "poll", "take", "none"}
          /\ stack[i].ip \in Addresses
          /\ stack[i].count \in 0..IF stack[i].at = "boot" THEN Polls ELSE Retries
    BY <2>1
  <2> QED BY <2>2, <2>3, <2>4, <2>5, <2>6, <2>7, <2>8, <2>9, <2>10 DEF TypeOK
<1> QED BY <1>1, InductiveInvariant, PTL

(* Until the ring turns, rtl8139_poll looks for a frame only where the     *)
(* card has put one or, while CAPR is still before the ring, at the bytes  *)
(* before it, although the bit that promises a frame is read, and cleared, *)
(* apart from the frames' coming.                                          *)
THEOREM RingNeverStale == Spec => []NeverReadsStale
<1>1. ASSUME IInv, (At("take") \/ rok) /\ ~turned
      PROVE  capr < put \/ capr >= Space - Lag
  <2>1. put \in Int /\ capr \in Int /\ Unread /\ DOMAIN ring # {}
    BY <1>1 DEF IInv, FrameInv, Holds
  <2>2. CASE capr <= put /\ DOMAIN ring = capr..put - 1
    BY <2>1, <2>2
  <2> QED BY <2>1, <2>2 DEF Unread
<1>2. IInv => NeverReadsStale
  BY <1>1 DEF NeverReadsStale
<1> QED BY <1>2, InductiveInvariant, PTL

(* The ARP cache holds every address once, and, until the ring turns, with *)
(* its host's MAC unless a request crossed another.                        *)
THEOREM CacheIsTruthful == Spec => []CacheTruthful
<1>1. IInv => CacheTruthful
  BY DEF IInv, CacheInv, CacheTruthful
<1> QED BY <1>1, InductiveInvariant, PTL

(* A DHCP offer that comes after net_init changes nothing: net_rx_handler  *)
(* gives it to nobody.                                                     *)
THEOREM AddressKept == Spec => AddressStable
<1>1. ASSUME IInv, [Next]_vars, config' # config
      PROVE  Booting(stack)
  <2>1. CASE Booted
    <3>1. stack # <<>> /\ Top.at = "boot"
      BY <2>1 DEF Booted, At
    <3>2. Len(stack) = 1 /\ Top = stack[Len(stack)]
      BY <1>1, <3>1, TopFacts DEF IInv, Place
    <3> QED BY <3>1, <3>2 DEF Booting
  <2>2. CASE Take
    <3>1. PICK f \in Frames : Handled(f) \/ Dropped(f)
      BY <2>2 DEF Take
    <3>2. HandleOffer(f) /\ stack # <<>>
      BY <1>1, <2>2, <3>1 DEF Take, Handled, Dropped, At, HandleArp, HandlePing, HandleDns, HandleSyn,
                        HandleData, HandleFin
    <3> QED BY <1>1, <3>2 DEF HandleOffer, IInv, ConfigInv
  <2>3. CASE ~Booted /\ ~Take
    <3>1. ASSUME NEW mac, Transmit(mac) PROVE FALSE
      BY <1>1, <3>1 DEF Transmit
    <3>2. ~ArpResolve
      BY <1>1, <3>1 DEF ArpResolve, InCache, NotInCache, Retry, GiveUp, Resolved, Request
    <3>3. ~ReadIsr /\ ~NoFrame /\ ~BadStatus /\ ~Wait /\ ~BootPoll /\ ~HttpGet /\ ~Tick
      BY <1>1 DEF ReadIsr, NoFrame, BadStatus, Wait, BootPoll, HttpGet, DnsFailed, Connect, ConnectFailed, Tick
    <3>4. /\ \A name \in Names : ~Dlw(name)
          /\ \A f \in wire : ~Arrive(f)
      BY <1>1 DEF Dlw, Arrive
    <3> QED BY <1>1, <2>3, <3>2, <3>3, <3>4 DEF Next, Cpu, Poll, vars
  <2> QED BY <2>1, <2>2, <2>3
<1>2. IInv /\ [Next]_vars => [config' # config => stack # <<>> /\ stack[1].at = "boot"]_vars
  BY <1>1 DEF Booting
<1> QED BY <1>2, InductiveInvariant, PTL DEF Spec, AddressStable
-----------------------------------------------------------------------------
(* Whose a segment is.  The n-th connect has the port Port(n); the ports   *)
(* repeat after 625 of them.  Every segment on its way, and every one that *)
(* will be provoked, is the last connect's or has the port of an earlier   *)
(* one; before the SYN is out none has the new port.                       *)
Port(n) == 49152 + ((9152 * n) % 10000)
Belongs(x, n) ==
  \/ n >= 1 /\ x.port = port /\ x.conn = conn
  \/ \E k \in 1..n - 1 : x.port = Port(k)
Used(n) ==
  /\ port = Port(n)
  /\ Asking(stack) => n < calls
  /\ \A x \in Segments(stack, wire) : Belongs(x, n)
OwnInv ==
  /\ calls <= MaxCalls
  /\ \E n \in 0..calls : Used(n)
  /\ connected => peer = conn
  /\ \A i \in 1..Len(rx) : rx[i] = conn
  /\ Calling(stack) =>
       ~connected /\ \A x \in Segments(stack, wire) : x.port = port => x.kind = "syn"
  /\ At("spin") => ~connected

FewCalls == MaxCalls <= 625

LEMMA PortNext == ASSUME NEW n \in Nat PROVE NextPort(Port(n)) = Port(n + 1)
BY DEF NextPort, Port

LEMMA PortOnce ==
  ASSUME NEW n \in Nat, NEW k \in Nat, 1 <= k, k < n, n <= 625
  PROVE  Port(k) # Port(n)
BY DEF Port

LEMMA Current ==
  ASSUME FewCalls, IInv, OwnInv, NEW x \in Segments(stack, wire), x.port = port
  PROVE  x.conn = conn
<1>1. PICK n \in 0..calls : Used(n)
  BY DEF OwnInv
<1>2. calls \in Nat /\ calls <= 625
  BY Constants DEF FewCalls, OwnInv, IInv, TcpInv
<1>3. n \in Nat /\ n <= 625
  BY <1>1, <1>2
<1>4. ASSUME NEW k \in 1..n - 1, x.port = Port(k) PROVE FALSE
  <2>1. k \in Nat /\ 1 <= k /\ k < n
    BY <1>3, <1>4
  <2>2. Port(k) # Port(n)
    BY <1>3, <2>1, PortOnce
  <2> QED BY <1>1, <1>4, <2>2 DEF Used
<1> QED BY <1>1, <1>4 DEF Used, Belongs

(* A step that provokes nothing but for the connections there are.         *)
LEMMA OwnKept ==
  ASSUME OwnInv,
         \A x \in Segments(stack', wire') :
           \E y \in Segments(stack, wire) :
             /\ x.port = y.port /\ x.conn = y.conn
             /\ Calling(stack') => (y.kind = "syn" => x.kind = "syn"),
         Asking(stack') => Asking(stack),
         Calling(stack') => Calling(stack),
         UNCHANGED <<port, conn, calls>>,
         connected' => peer' = conn,
         \A i \in 1..Len(rx') : rx'[i] = conn,
         Calling(stack') \/ At("spin")' => ~connected'
  PROVE  OwnInv'
<1>1. PICK n \in 0..calls : Used(n)
  BY DEF OwnInv
<1>2. ASSUME NEW x \in Segments(stack', wire')
      PROVE  Belongs(x, n)'
  <2>1. PICK y \in Segments(stack, wire) : x.port = y.port /\ x.conn = y.conn
    OBVIOUS
  <2>2. Belongs(y, n)
    BY <1>1 DEF Used
  <2> QED BY <2>1, <2>2 DEF Belongs
<1>3. Used(n)'
  BY <1>1, <1>2 DEF Used
<1>4. ASSUME Calling(stack'), NEW x \in Segments(stack', wire'), x.port = port'
      PROVE  x.kind = "syn"
  BY <1>4 DEF OwnInv
<1>5. calls' <= MaxCalls /\ n \in 0..calls'
  BY <1>1 DEF OwnInv
<1> QED BY <1>3, <1>4, <1>5 DEF OwnInv

LEMMA OwnQuiet ==
  ASSUME IInv, OwnInv, NoNewPacket(stack, stack'), Shape(stack'),
         \A f \in wire' : f.kind = "tcp" => f \in wire,
         UNCHANGED <<port, conn, calls, peer, rx>>, connected' => connected,
         At("spin")' => At("spin")
  PROVE  OwnInv'
<1>1. Segments(stack', wire') \subseteq Segments(stack, wire)
  BY SegmentsShrink
<1>2. Asking(stack') => Asking(stack)
  BY DEF NoNewPacket
<1>3. Calling(stack') => Calling(stack)
  <2> SUFFICES ASSUME Calling(stack') PROVE Calling(stack)
    OBVIOUS
  <2>1. 1 \in 1..Len(stack')
    <3>1. stack' \in Seq(CallSet) /\ stack' # <<>>
      BY DEF Shape, Calling
    <3> QED BY <3>1
  <2>2. 1 \in 1..Len(stack) /\ Sending(stack[1]) /\ stack'[1].packet = stack[1].packet
    BY <2>1 DEF NoNewPacket, Calling
  <2>3. stack # <<>>
    BY <2>2
  <2> QED BY <2>2, <2>3 DEF Calling
<1>4. connected' => peer' = conn
  BY DEF OwnInv
<1>5. \A i \in 1..Len(rx') : rx'[i] = conn
  BY DEF OwnInv
<1>6. Calling(stack') \/ At("spin")' => ~connected'
  BY <1>3 DEF OwnInv
<1> QED BY <1>1, <1>2, <1>3, <1>4, <1>5, <1>6, OwnKept

LEMMA TransmitOwn ==
  ASSUME IInv, OwnInv, stack # <<>>, Sending(Top), NEW mac, Transmit(mac)
  PROVE  OwnInv'
<1>1. /\ Len(stack) \in Nat /\ Len(stack) \in 1..Len(stack) /\ Top = stack[Len(stack)]
      /\ Place(Top, Len(stack), Len(stack)) /\ Top.packet \in Packets
  BY TopFacts DEF IInv, Place
<1>2. /\ Shape(stack') /\ NoNewPacket(stack, stack')
      /\ stack' # <<>> /\ Last(stack').at = "spin" => Top.packet.kind = "syn"
      /\ Top.packet.kind = "syn" => stack' # <<>> /\ ~Sending(stack'[1])
  BY TransmitMoves DEF IInv
<1>3. /\ UNCHANGED <<port, conn, calls, peer, rx>>
      /\ connected' => connected
  BY DEF Transmit
<1>4. Top.packet.kind \in {"syn", "ack"} => Top.packet \in Segments(stack, wire)
  BY <1>1, <1>2, SegmentsIn
<1>5. /\ Asking(stack') => Asking(stack)
      /\ Calling(stack') => Calling(stack) /\ Top.packet.kind # "syn"
  <2>1. ASSUME Calling(stack') PROVE Calling(stack)
    <3>1. stack' \in Seq(CallSet) /\ stack' # <<>>
      BY <1>2, <2>1 DEF Shape, Calling
    <3>2. 1 \in 1..Len(stack')
      BY <3>1
    <3>3. 1 \in 1..Len(stack) /\ Sending(stack[1]) /\ stack'[1].packet = stack[1].packet
      BY <1>2, <2>1, <3>2 DEF NoNewPacket, Calling
    <3> QED BY <2>1, <3>3 DEF Calling
  <2>2. Calling(stack') => Top.packet.kind # "syn"
    BY <1>2 DEF Calling
  <2> QED BY <1>2, <2>1, <2>2 DEF NoNewPacket
<1>6. ASSUME NEW x \in Segments(stack', wire')
      PROVE  \E y \in Segments(stack, wire) :
               /\ x.port = y.port /\ x.conn = y.conn
               /\ Calling(stack') => (y.kind = "syn" => x.kind = "syn")
  <2>1. CASE x \in Segments(stack, wire)
    BY <2>1
  <2>2. CASE x \notin Segments(stack, wire)
    <3>1. ASSUME NEW i \in 1..Len(stack'), Sending(stack'[i]),
                 stack'[i].packet.kind \in {"syn", "ack"}, x = stack'[i].packet
          PROVE  FALSE
      <4>1. i \in 1..Len(stack) /\ Sending(stack[i]) /\ stack'[i].packet = stack[i].packet
        BY <1>2, <3>1 DEF NoNewPacket
      <4> QED BY <2>2, <3>1, <4>1, SegmentsIn
    <3>2. x \in wire' /\ x.kind = "tcp" /\ x \notin wire
      BY <2>2, <3>1, SegmentsIn
    <3>3. /\ Top.packet.kind \in {"syn", "ack"}
          /\ x.port = Top.packet.port /\ x.conn = Top.packet.conn
      BY <1>1, <3>2, TransmitFrames
    <3> QED BY <1>4, <1>5, <3>3
  <2> QED BY <2>1, <2>2
<1>7. connected' => peer' = conn
  BY <1>3 DEF OwnInv
<1>8. \A i \in 1..Len(rx') : rx'[i] = conn
  BY <1>3 DEF OwnInv
<1>9. Calling(stack') \/ At("spin")' => ~connected'
  <2>1. Top.packet.kind = "syn" => Calling(stack)
    BY <1>1 DEF Place, Calling
  <2>2. At("spin")' => Top.packet.kind = "syn"
    BY <1>2 DEF At, Top
  <2> QED BY <1>3, <1>5, <2>1, <2>2 DEF OwnInv
<1> QED BY <1>3, <1>5, <1>6, <1>7, <1>8, <1>9, OwnKept

LEMMA TakeOwn ==
  ASSUME FewCalls, IInv, OwnInv, Take
  PROVE  OwnInv'
<1>1. PICK f \in Frames :
         /\ At("take") /\ rok' = FALSE /\ Advance
         /\ Handled(f) \/ Dropped(f)
         /\ UNCHANGED <<udp, wire, calls>>
  BY DEF Take
<1>2. FrameOK(f) /\ stack # <<>> /\ Last(stack).at = "take"
  BY <1>1, FrameTaken DEF IInv, At, Top
<1>3. ASSUME Continue, UNCHANGED <<port, conn, peer, rx>>, connected' => connected
      PROVE  OwnInv'
  <2>1. /\ Shape(stack') /\ NoNewPacket(stack, stack')
        /\ stack' # <<>> /\ Last(stack').at = "poll"
    BY <1>1, <1>3, ContinueMoves DEF IInv
  <2>2. ~At("spin")'
    BY <2>1 DEF At, Top
  <2> QED BY <1>1, <1>3, <2>1, <2>2, OwnQuiet
<1>4. ASSUME HandlePing(f), f.sum = 0, IpSend(f.from, [kind |-> "pong"]) PROVE OwnInv'
  <2> DEFINE p == [kind |-> "pong"]
  <2>1. UNCHANGED <<config, arp, remote, port, conn, peer, rx, connected>>
    BY <1>4 DEF HandlePing, tcp
  <2>2. f.from \in Hosts
    BY <1>2, <1>4 DEF FrameOK, HandlePing
  <2>3. p \in Packets /\ p.kind = "pong"
    BY DEF Packets
  <2> HIDE DEF p
  <2>4. IpSend(f.from, p)
    BY <1>4 DEF p
  <2>5. /\ \A x \in Segments(stack', wire') : x \in Segments(stack, wire)
        /\ OnePacket(stack, stack', p)
    BY <1>1, <2>1, <2>2, <2>3, <2>4, IpSendKeeps
  <2>6. /\ Asking(stack') => Asking(stack)
        /\ Calling(stack') => Calling(stack)
        /\ ~At("spin")'
    BY <2>3, <2>5, OnePacketBelow
  <2>7. /\ connected' => peer' = conn
        /\ \A i \in 1..Len(rx') : rx'[i] = conn
        /\ Calling(stack') \/ At("spin")' => ~connected'
    BY <2>1, <2>6 DEF OwnInv
  <2> QED BY <1>1, <2>1, <2>5, <2>6, <2>7, OwnKept
<1>5. ASSUME Ours(f), Acknowledge(f),
             UNCHANGED <<config, arp, dns, remote, port, conn>>,
             connected' \in BOOLEAN, peer' \in Int, rx' \in Seq(Int), Len(rx') <= RxSize,
             connected' => peer' \in {f.conn, conn},
             \A i \in 1..Len(rx') : rx'[i] \in {f.conn, conn}
      PROVE  OwnInv'
  <2>1. /\ \A x \in Segments(stack', wire') :
              x \in Segments(stack, wire) \/ (x.kind = "ack" /\ x.port = f.port /\ x.conn = f.conn)
        /\ f \in Segments(stack, wire)
        /\ Asking(stack') => Asking(stack)
        /\ Calling(stack') => Calling(stack)
        /\ ~At("spin")'
    BY <1>1, <1>5, AcknowledgeKeeps
  <2>2. f.port = port /\ f.kind = "tcp"
    BY <1>5 DEF Ours
  <2>3. f.conn = conn
    BY <2>1, <2>2, Current
  <2>4. ~Calling(stack')
    BY <2>1, <2>2 DEF OwnInv
  <2>5. ASSUME NEW x \in Segments(stack', wire')
        PROVE  \E y \in Segments(stack, wire) :
                 /\ x.port = y.port /\ x.conn = y.conn
                 /\ Calling(stack') => (y.kind = "syn" => x.kind = "syn")
    BY <2>1, <2>4
  <2>6. /\ connected' => peer' = conn
        /\ \A i \in 1..Len(rx') : rx'[i] = conn
    BY <1>5, <2>3
  <2> QED BY <1>1, <1>5, <2>1, <2>4, <2>5, <2>6, OwnKept
<1>6. CASE HandleArp(f)
  BY <1>3, <1>6 DEF HandleArp, tcp
<1>7. CASE HandlePing(f)
  <2>1. CASE Continue
    BY <1>3, <1>7, <2>1 DEF HandlePing, tcp
  <2> QED BY <1>4, <1>7, <2>1 DEF HandlePing
<1>8. CASE HandleOffer(f)
  BY <1>3, <1>8 DEF HandleOffer, tcp
<1>9. CASE HandleDns(f)
  BY <1>3, <1>9 DEF HandleDns, tcp
<1>10. CASE HandleSyn(f)
  <2>1. /\ Ours(f) /\ Acknowledge(f) /\ connected' = TRUE /\ peer' = f.conn
        /\ UNCHANGED <<config, arp, dns, remote, port, conn>> /\ UNCHANGED rx
    BY <1>10 DEF HandleSyn
  <2>2. peer' \in Int /\ rx' \in Seq(Int) /\ Len(rx') <= RxSize
    BY <1>2, <2>1 DEF Ours, FrameOK, IInv, TcpInv
  <2>3. connected' \in BOOLEAN
    BY <2>1
  <2>4. \A i \in 1..Len(rx') : rx'[i] \in {f.conn, conn}
    BY <2>1 DEF OwnInv
  <2> QED BY <1>5, <2>1, <2>2, <2>3, <2>4
<1>11. CASE HandleData(f)
  <2>1. /\ Ours(f) /\ Acknowledge(f) /\ Len(rx) < RxSize /\ rx' = Append(rx, f.conn)
        /\ UNCHANGED <<config, arp, dns, remote, port, conn>>
        /\ UNCHANGED <<connected, peer>>
    BY <1>11 DEF HandleData, Fits
  <2>2. f.conn \in Int /\ rx \in Seq(Int) /\ connected \in BOOLEAN /\ peer \in Int
    BY <1>2, <2>1 DEF Ours, FrameOK, IInv, TcpInv
  <2>3. /\ rx' \in Seq(Int) /\ Len(rx') <= RxSize
    BY <2>1, <2>2, Constants
  <2>4. peer' \in Int /\ connected' \in BOOLEAN
    BY <2>1, <2>2
  <2>5. connected' => peer' \in {f.conn, conn}
    BY <2>1 DEF OwnInv
  <2>6. ASSUME NEW i \in 1..Len(rx') PROVE rx'[i] \in {f.conn, conn}
    <3>1. i \in 1..Len(rx) \/ i = Len(rx) + 1
      BY <2>1, <2>2
    <3>2. \A j \in 1..Len(rx) : rx'[j] = rx[j] /\ rx[j] = conn
      BY <2>1, <2>2 DEF OwnInv
    <3>3. rx'[Len(rx) + 1] = f.conn
      BY <2>1, <2>2
    <3> QED BY <3>1, <3>2, <3>3
  <2> QED BY <1>5, <2>1, <2>3, <2>4, <2>5, <2>6
<1>12. CASE HandleFin(f)
  BY <1>3, <1>12 DEF HandleFin
<1>13. CASE Dropped(f)
  BY <1>3, <1>13 DEF Dropped, tcp
<1> QED BY <1>1, <1>6, <1>7, <1>8, <1>9, <1>10, <1>11, <1>12, <1>13 DEF Handled

LEMMA DlwOwn ==
  ASSUME IInv, OwnInv, NEW name \in Names, Dlw(name)
  PROVE  OwnInv'
<1> DEFINE p == [kind |-> "query", name |-> name]
<1>1. /\ stack = <<>> /\ calls < MaxCalls /\ calls' = calls + 1
      /\ stack' = Append(stack, Call("send", config.dns, p))
      /\ UNCHANGED <<config, tcp, wire>>
  BY DEF Dlw, Push
<1>2. config.dns \in Hosts
  <2>1. config \in Chosen
    BY <1>1 DEF IInv, ConfigInv, Booting
  <2> QED BY <2>1, Constants DEF Chosen
<1>3. p \in Packets /\ p.kind = "query"
  BY DEF Packets
<1> HIDE DEF p
<1>4. stack' = <<Call("send", config.dns, p)>>
  BY <1>1
<1>5. /\ stack' # <<>> /\ Last(stack').at = "send"
      /\ Len(stack') = 1 /\ stack'[1].at = "send" /\ stack'[1].packet = p
  BY <1>2, <1>3, <1>4, FirstSend
<1>6. Segments(stack', wire') \subseteq Segments(stack, wire)
  BY <1>1, <1>3, <1>5, FirstSegments
<1>7. UNCHANGED <<port, conn, connected, peer, rx>>
  BY <1>1 DEF tcp
<1>8. PICK n \in 0..calls : Used(n)
  BY DEF OwnInv
<1>9. calls \in Nat /\ calls' <= MaxCalls /\ n \in 0..calls' /\ n < calls'
  BY <1>1, <1>8, Constants DEF IInv, TcpInv
<1>10. Used(n)'
  <2>1. ASSUME NEW x \in Segments(stack', wire') PROVE Belongs(x, n)'
    BY <1>6, <1>7, <1>8 DEF Used, Belongs
  <2> QED BY <1>7, <1>8, <1>9, <2>1 DEF Used
<1>11. ~Calling(stack') /\ ~At("spin")'
  BY <1>3, <1>5 DEF Calling, At, Top
<1> QED BY <1>7, <1>9, <1>10, <1>11 DEF OwnInv

LEMMA ConnectOwn ==
  ASSUME FewCalls, IInv, OwnInv, Connect
  PROVE  OwnInv'
<1> DEFINE p == [kind |-> "syn", port |-> NextPort(port), conn |-> calls]
<1>1. /\ stack # <<>> /\ Top.at = "answer" /\ result # None
      /\ port' = NextPort(port) /\ rx' = <<>> /\ connected' = FALSE /\ conn' = calls
      /\ stack' = [stack EXCEPT ![Len(stack)] = Call("send", result, p)]
      /\ wire' = wire /\ calls' = calls
  BY DEF Connect, DnsOver, At, Goto
<1>2. /\ Len(stack) = 1 /\ stack[1].at = "answer" /\ stack \in Seq(CallSet)
  BY <1>1, TopFacts DEF IInv, Place, Shape
<1>3. result \in Hosts
  BY <1>1 DEF IInv, DnsInv, Addresses
<1>4. port' \in Int /\ calls \in Nat
  <2>1. port \in Nat /\ calls \in Nat
    BY DEF IInv, TcpInv
  <2>2. NextPort(port) \in Int
    BY <2>1 DEF NextPort
  <2> QED BY <1>1, <2>1, <2>2
<1>5. p \in Packets /\ p.kind = "syn" /\ p.port = port' /\ p.conn = calls
  BY <1>1, <1>4 DEF Packets
<1> HIDE DEF p
<1>6. stack' = <<Call("send", result, p)>>
  BY <1>1, <1>2
<1>7. /\ stack' # <<>> /\ Last(stack').at = "send"
      /\ Len(stack') = 1 /\ stack'[1].at = "send" /\ stack'[1].packet = p
  BY <1>3, <1>5, <1>6, FirstSend
<1>8. PICK n \in 0..calls : Used(n)
  BY DEF OwnInv
<1>9. n < calls /\ n \in Nat /\ calls <= 625
  BY <1>1, <1>2, <1>4, <1>8, Constants DEF Used, Asking, FewCalls, OwnInv
<1>10. port' = Port(n + 1)
  BY <1>1, <1>8, <1>9, PortNext DEF Used
<1>11. ASSUME NEW x \in Segments(stack', wire')
       PROVE  x = p \/ \E k \in 1..n : x.port = Port(k)
  <2>1. CASE x \in Segments(stack, wire)
    <3>1. Belongs(x, n)
      BY <1>8, <2>1 DEF Used
    <3>2. CASE n >= 1 /\ x.port = port
      <4>1. n \in 1..n
        BY <1>9, <3>2
      <4> QED BY <1>8, <3>2, <4>1 DEF Used
    <3>3. ASSUME NEW k \in 1..n - 1, x.port = Port(k) PROVE \E i \in 1..n : x.port = Port(i)
      <4>1. k \in 1..n
        BY <1>9, <3>3
      <4> QED BY <3>3, <4>1
    <3> QED BY <3>1, <3>2, <3>3 DEF Belongs
  <2> QED BY <1>1, <1>5, <1>7, <2>1, FirstSegments
<1>12. ASSUME NEW x \in Segments(stack', wire') PROVE Belongs(x, n + 1)'
  <2>1. CASE x = p
    BY <1>1, <1>5, <1>9, <2>1 DEF Belongs
  <2>2. ASSUME NEW k \in 1..n, x.port = Port(k) PROVE Belongs(x, n + 1)'
    <3>1. k \in 1..n + 1 - 1
      BY <1>9, <2>2
    <3> QED BY <2>2, <3>1 DEF Belongs
  <2> QED BY <1>11, <2>1, <2>2
<1>13. ~Asking(stack') /\ ~At("spin")'
  BY <1>5, <1>7 DEF Asking, At, Top
<1>14. Used(n + 1)'
  BY <1>10, <1>12, <1>13 DEF Used
<1>15. ASSUME NEW x \in Segments(stack', wire'), x.port = port'
       PROVE  x.kind = "syn"
  <2>1. ASSUME NEW k \in 1..n, x.port = Port(k) PROVE FALSE
    <3>1. k \in Nat /\ 1 <= k /\ k < n + 1 /\ n + 1 \in Nat /\ n + 1 <= 625
      BY <1>4, <1>9, <2>1
    <3>2. Port(k) # Port(n + 1)
      BY <3>1, PortOnce
    <3> QED BY <1>10, <1>15, <2>1, <3>2
  <2> QED BY <1>5, <1>11, <2>1
<1>16. n + 1 \in 0..calls' /\ calls' <= MaxCalls
  BY <1>1, <1>4, <1>9 DEF OwnInv
<1>17. \A i \in 1..Len(rx') : rx'[i] = conn'
  BY <1>1
<1> QED BY <1>1, <1>13, <1>14, <1>15, <1>16, <1>17 DEF OwnInv

LEMMA InitOwn == Init => OwnInv
<1> SUFFICES ASSUME Init PROVE OwnInv
  OBVIOUS
<1>1. Segments(stack, wire) = {}
  <2>1. remote \in Hosts \/ Segments(stack, wire) = {}
    BY InitInv DEF IInv, TcpInv
  <2>2. remote = None
    BY DEF Init
  <2> QED BY <2>1, <2>2, Constants
<1>2. stack # <<>> /\ Len(stack) = 1 /\ stack[1].at = "boot" /\ Last(stack) = stack[1]
  BY DEF Init, Call, Last
<1>3. ~Asking(stack) /\ ~Calling(stack) /\ ~At("spin")
  BY <1>2 DEF Asking, Calling, Sending, At, Top
<1>4. port = 49152 /\ calls = 0 /\ rx = <<>>
  BY DEF Init
<1>5. Port(0) = 49152
  BY DEF Port
<1>6. Used(0) /\ 0 \in 0..calls
  BY <1>1, <1>3, <1>4, <1>5 DEF Used
<1>7. calls <= MaxCalls
  BY <1>4, Constants
<1>8. connected = FALSE
  BY DEF Init
<1> QED BY <1>3, <1>4, <1>6, <1>7, <1>8 DEF OwnInv

LEMMA NextOwn == FewCalls /\ IInv /\ OwnInv /\ [Next]_vars => OwnInv'
<1> SUFFICES ASSUME FewCalls, IInv, OwnInv, [Next]_vars PROVE OwnInv'
  OBVIOUS
<1>1. CASE ArpResolve
  <2>1. stack # <<>> /\ Sending(Top)
    BY <1>1 DEF ArpResolve, InCache, NotInCache, Retry, GiveUp, Resolved, At, Sending
  <2>2. ASSUME NEW mac, Transmit(mac) PROVE OwnInv'
    BY <2>1, <2>2, TransmitOwn
  <2>3. CASE Request /\ Top.count < Retries
    <3>1. Shape(stack') /\ NoNewPacket(stack, stack') /\ ~At("spin")'
      BY <2>1, <2>3, RequestKeeps DEF IInv
    <3>2. \A f \in wire' : f.kind = "tcp" => f \in wire
      BY <2>3 DEF Request, Arp
    <3>3. UNCHANGED <<port, conn, calls, peer, rx, connected>>
      BY <2>3 DEF Request, tcp
    <3> QED BY <3>1, <3>2, <3>3, OwnQuiet
  <2>4. NotInCache => Top.count < Retries
    BY <2>1, TopFacts, Constants DEF NotInCache, At, Place, IInv
  <2> QED BY <1>1, <2>2, <2>3, <2>4 DEF ArpResolve, InCache, NotInCache, Retry, GiveUp, Resolved
<1>2. ASSUME IInv', NoNewPacket(stack, stack'), At("spin")' => At("spin"),
             UNCHANGED <<wire, calls, tcp>>
      PROVE  OwnInv'
  <2>1. Shape(stack') /\ UNCHANGED <<port, conn, calls, peer, rx, connected>>
    BY <1>2 DEF IInv, tcp
  <2> QED BY <1>2, <2>1, OwnQuiet
<1>3. CASE ReadIsr
  BY <1>2, <1>3, ReadIsrKeeps DEF ReadIsr
<1>4. CASE Wait
  BY <1>2, <1>4, WaitKeeps DEF Wait
<1>5. CASE BootPoll
  BY <1>2, <1>5, BootPollKeeps DEF BootPoll
<1>6. CASE Booted
  BY <1>2, <1>6, BootedKeeps DEF Booted
<1>7. CASE NoFrame \/ DnsFailed \/ ConnectFailed
  <2>1. /\ stack # <<>> /\ Top.at # "boot" /\ Return /\ rok' \in {rok, FALSE}
        /\ UNCHANGED <<memory, config, arp, udp, dns, tcp, wire, calls>>
    BY <1>7 DEF NoFrame, DnsFailed, DnsOver, ConnectFailed, At, card
  <2> QED BY <1>2, <2>1, ReturnKeeps
<1>15. CASE BadStatus
  <2>1. /\ stack # <<>> /\ Top.at # "boot" /\ Return /\ rok' = FALSE
        /\ At("take") /\ Advance
        /\ UNCHANGED <<config, arp, udp, dns, tcp, wire, calls>>
    BY <1>15 DEF BadStatus, At
  <2> QED BY <1>2, <2>1, ReturnKeeps
<1>8. CASE Take
  BY <1>8, TakeOwn
<1>9. CASE Connect
  BY <1>9, ConnectOwn
<1>10. CASE Tick
  <2>1. UNCHANGED <<wire, calls, tcp>>
    BY <1>10 DEF Tick
  <2>2. At("spin")' => At("spin")
    BY <1>10, TickKeeps DEF At, Top
  <2> QED BY <1>2, <1>10, <2>1, <2>2, TickKeeps
<1>11. ASSUME NEW name \in Names, Dlw(name) PROVE OwnInv'
  BY <1>11, DlwOwn
<1>12. ASSUME UNCHANGED <<stack, wire, calls, tcp>> PROVE OwnInv'
  <2>1. UNCHANGED <<port, conn, connected, peer, rx>>
    BY <1>12 DEF tcp
  <2>2. ASSUME NEW n, Used(n) PROVE Used(n)'
    BY <1>12, <2>1, <2>2 DEF Used, Belongs
  <2> QED BY <1>12, <2>1, <2>2 DEF OwnInv, At, Top
<1>13. ASSUME NEW f \in wire, Arrive(f) PROVE OwnInv'
  BY <1>12, <1>13 DEF Arrive
<1>14. CASE UNCHANGED vars
  BY <1>12, <1>14 DEF vars
<1> QED BY <1>1, <1>3, <1>4, <1>5, <1>6, <1>7, <1>8, <1>9, <1>10, <1>11, <1>13, <1>14, <1>15
        DEF Next, Cpu, Poll, HttpGet

(* A connection, and the data in the buffer, is the last connect's,        *)
(* whatever comes late or twice before the ring turns, as long as          *)
(* net_tcp_connect's ports do not repeat, which they do after 625 calls.   *)
THEOREM OwnConnectionOnly ==
  ASSUME FewCalls
  PROVE  Spec => []OwnConnection
<1>1. Init => OwnInv
  BY InitOwn
<1>2. IInv /\ OwnInv /\ [Next]_vars => OwnInv'
  BY NextOwn
<1>3. OwnInv => OwnConnection
  BY DEF OwnInv, OwnConnection
<1> QED BY <1>1, <1>2, <1>3, InductiveInvariant, PTL DEF Spec
=============================================================================
