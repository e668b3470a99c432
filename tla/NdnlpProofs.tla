---------------------------- MODULE NdnlpProofs ----------------------------
(***************************************************************************)
(* Proofs about NDNLP fragmentation and reassembly, for any set of senders *)
(* and packets, any MTU that leaves room for a payload, and any durations. *)
(***************************************************************************)
EXTENDS Ndnlp, TLAPS, FiniteSetTheorems

-----------------------------------------------------------------------------
(* Slicer *)

LEMMA VarMonotone ==
  ASSUME NEW a \in Nat, NEW b \in Nat, a <= b
  PROVE  VarSize(a) \in 1 .. 5 /\ VarSize(b) \in 1 .. 5 /\ VarSize(a) <= VarSize(b)
  BY DEF VarSize

\* The estimate covers the header of every fragment.
LEMMA FitsMtu ==
  ASSUME NEW size \in Nat, NEW i \in Nat, NEW count \in Nat, size <= MaxPayload
  PROVE  encodeFragment(size, i, count) <= Mtu
  <1> DEFINE full == ValueSize(Mtu, 65534, 65535)
             value == ValueSize(size, i, count)
  <1>1. Mtu \in Nat
    BY MtuAssumption
  <1>2. VarSize(Mtu) \in 1 .. 5 /\ full = Mtu + VarSize(Mtu) + 19
    <2>1. VarSize(Mtu) \in 1 .. 5
      BY <1>1, VarMonotone
    <2> QED  BY <1>1, <2>1 DEF ValueSize, NniSize
  <1>3. VarSize(full) \in 1 .. 5
    BY <1>1, <1>2, VarMonotone
  <1>4. MaxPayload = Mtu - (VarSize(Mtu) + 19 + VarSize(full) + 1)
    BY <1>1, <1>2, <1>3 DEF MaxPayload, estimateOverhead, encodeFragment
  <1>5. size <= Mtu
    BY <1>1, <1>2, <1>3, <1>4
  <1>6. VarSize(size) \in 1 .. 5 /\ VarSize(size) <= VarSize(Mtu)
    BY <1>1, <1>5, VarMonotone
  <1>7. value \in Nat /\ value <= size + VarSize(size) + 19
    BY <1>6 DEF ValueSize, NniSize
  <1>8. full \in Nat /\ value <= full
    BY <1>1, <1>2, <1>5, <1>6, <1>7
  <1> HIDE DEF full, value
  <1>9. VarSize(value) \in 1 .. 5 /\ VarSize(value) <= VarSize(full)
    BY <1>7, <1>8, VarMonotone
  <1>10. value + VarSize(value) + 1 <= Mtu
    BY <1>1, <1>2, <1>3, <1>4, <1>6, <1>7, <1>9
  <1> QED  BY <1>10 DEF encodeFragment, value

LEMMA MaxPayloadType == MaxPayload \in Nat /\ MaxPayload > 0
  <1>1. Mtu \in Nat /\ MaxPayload > 0
    BY MtuAssumption
  <1>2. VarSize(Mtu) \in 1 .. 5
    BY <1>1, VarMonotone
  <1>3. ValueSize(Mtu, 65534, 65535) \in Nat
    BY <1>1, <1>2 DEF ValueSize, NniSize
  <1>4. VarSize(ValueSize(Mtu, 65534, 65535)) \in 1 .. 5
    BY <1>3, VarMonotone
  <1>5. MaxPayload \in Int
    BY <1>1, <1>3, <1>4 DEF MaxPayload, estimateOverhead, encodeFragment
  <1> QED  BY <1>1, <1>5

LEMMA Division ==
  ASSUME NEW a \in Nat, NEW m \in Nat, m > 0
  PROVE  /\ a \div m \in Nat /\ a % m \in Nat /\ a % m < m
         /\ a = m * (a \div m) + (a % m)
  <1>1. a \div m \in Int /\ a \div m >= 0
    OBVIOUS
  <1>2. a % m \in 0 .. m - 1
    OBVIOUS
  <1>3. a = m * (a \div m) + (a % m)
    OBVIOUS
  <1> QED  BY <1>1, <1>2, <1>3

LEMMA Times ==
  ASSUME NEW q \in Int, NEW m \in Int
  PROVE  /\ q * m \in Int /\ q * m = m * q
         /\ (q - 1) * m = q * m - m /\ (q + 1) * m = q * m + m
  OBVIOUS

LEMMA TimesGrows ==
  ASSUME NEW q \in Nat, NEW m \in Nat, m > 0
  PROVE  q <= q * m /\ q * m \in Nat
  OBVIOUS

LEMMA TimesMonotone ==
  ASSUME NEW q \in Nat, NEW r \in Nat, q <= r, NEW m \in Nat
  PROVE  q * m <= r * m
  OBVIOUS

\* The number of fragments is the quotient rounded up.
LEMMA FragCountProps ==
  ASSUME NEW p \in Packets
  PROVE  /\ FragCount(p) \in Nat \ {0}
         /\ (FragCount(p) - 1) * MaxPayload < PacketSize[p]
         /\ PacketSize[p] <= FragCount(p) * MaxPayload
  <1> DEFINE m == MaxPayload
             a == PacketSize[p]
             q == a \div m
             r == a % m
             n == q + (IF r = 0 THEN 0 ELSE 1)
             d == q * m
  <1>1. a \in Nat /\ 0 < a /\ a <= 8800 /\ m \in Nat /\ m > 0
    BY SizeAssumption, MaxPayloadType DEF MAX_NDN_PACKET_SIZE
  <1>2. FragCount(p) = n % 65536
    BY DEF FragCount
  <1> HIDE DEF a, m
  <1>3. q \in Nat /\ r \in Nat /\ r < m /\ a = m * q + r
    <2>1. /\ a \div m \in Nat /\ a % m \in Nat /\ a % m < m
          /\ a = m * (a \div m) + (a % m)
      BY <1>1, Division
    <2> QED  BY <2>1
  <1> HIDE DEF q, r
  <1>4. q <= d /\ d \in Nat
    BY <1>1, <1>3, TimesGrows
  <1>5. /\ d = m * q /\ (q - 1) * m = d - m /\ (q + 1) * m = d + m
    BY <1>1, <1>3, Times
  <1> HIDE DEF d
  <1>6. a = d + r
    BY <1>3, <1>5
  <1>7. n \in Nat /\ n < 65536
    BY <1>1, <1>3, <1>4, <1>6
  <1>8. FragCount(p) = n
    BY <1>2, <1>7
  <1>9. CASE r = 0
    <2>1. n = q /\ a = d
      BY <1>3, <1>4, <1>6, <1>9
    <2>2. q # 0
      <3>1. ASSUME q = 0 PROVE FALSE
        <4>1. 0 * m = 0
          BY <1>1
        <4> QED  BY <1>1, <2>1, <3>1, <4>1 DEF d
      <3> QED  BY <3>1
    <2>3. n \in Nat \ {0} /\ (n - 1) * m < a /\ a <= n * m
      BY <1>1, <1>3, <1>4, <1>5, <2>1, <2>2 DEF d
    <2> QED  BY <1>8, <2>3 DEF a, m
  <1>10. CASE r # 0
    <2>1. n = q + 1 /\ n - 1 = q
      BY <1>3, <1>10
    <2>2. d < a /\ a <= d + m
      BY <1>1, <1>3, <1>4, <1>6, <1>10
    <2>3. n \in Nat \ {0} /\ (n - 1) * m < a /\ a <= n * m
      <3>1. (n - 1) * m = d
        BY <2>1 DEF d
      <3>2. n * m = d + m
        BY <1>5, <2>1
      <3> QED  BY <1>3, <2>1, <2>2, <3>1, <3>2
    <2> QED  BY <1>8, <2>3 DEF a, m
  <1> QED  BY <1>9, <1>10

\* The payloads of a packet are consecutive and cover it.
LEMMA Tiles ==
  ASSUME NEW p \in Packets, NEW i \in 0 .. FragCount(p) - 1
  PROVE  /\ Payload(p, i) \in Payloads /\ Payload(p, i).packet = p
         /\ Payload(p, i).offset = i * MaxPayload
         /\ Payload(p, i).size \in 1 .. MaxPayload
         /\ i < FragCount(p) - 1 =>
              Payload(p, i).offset + Payload(p, i).size = (i + 1) * MaxPayload
         /\ i = FragCount(p) - 1 =>
              Payload(p, i).offset + Payload(p, i).size = PacketSize[p]
  <1> DEFINE m == MaxPayload
             n == FragCount(p)
             a == PacketSize[p]
             d == i * m
  <1>1. n \in Nat \ {0} /\ (n - 1) * m < a /\ a <= n * m
    BY FragCountProps
  <1>2. m \in Nat /\ m > 0 /\ a \in Nat /\ i \in Nat
    BY SizeAssumption, <1>1, MaxPayloadType
  <1>3. Payload(p, i) = [packet |-> p, offset |-> d, size |-> Smaller(m, a - d)]
    BY DEF Payload
  <1>4. i <= n - 1
    BY <1>1
  <1> HIDE DEF m, n, a
  <1>5. d \in Nat /\ (i + 1) * m = d + m
    <2>1. d \in Nat
      BY <1>2, TimesGrows
    <2>2. (i + 1) * m = d + m
      BY <1>2, Times
    <2> QED  BY <2>1, <2>2
  <1>6. CASE i < n - 1
    <2>1. (i + 1) * m <= (n - 1) * m
      <3>1. i + 1 \in Nat /\ n - 1 \in Nat /\ i + 1 <= n - 1
        BY <1>1, <1>2, <1>6
      <3> QED  BY <1>2, <3>1, TimesMonotone
    <2>2. (n - 1) * m \in Int
      <3>1. n - 1 \in Int
        BY <1>1
      <3> QED  BY <1>2, <3>1, Times
    <2> HIDE DEF d
    <2>3. d + m <= a
      BY <1>1, <1>2, <1>5, <2>1, <2>2
    <2>4. Smaller(m, a - d) = m
      BY <1>2, <1>5, <2>3 DEF Smaller
    <2>5. Payload(p, i) = [packet |-> p, offset |-> d, size |-> m]
      BY <1>3, <2>4
    <2>6. /\ Payload(p, i) \in Payloads /\ Payload(p, i).packet = p
          /\ Payload(p, i).offset = d /\ Payload(p, i).size \in 1 .. m
          /\ Payload(p, i).offset + Payload(p, i).size = d + m
      BY <1>2, <1>5, <2>5 DEF Payloads
    <2> QED  BY <1>5, <1>6, <2>6 DEF m, n, d
  <1>7. CASE i = n - 1
    <2>1. n = i + 1
      BY <1>1, <1>2, <1>7
    <2>2. d < a /\ a <= d + m
      BY <1>1, <1>5, <1>7, <2>1
    <2> HIDE DEF d
    <2>3. Smaller(m, a - d) = a - d /\ a - d \in 1 .. m /\ d + (a - d) = a
      BY <1>2, <1>5, <2>2 DEF Smaller
    <2>4. Payload(p, i) = [packet |-> p, offset |-> d, size |-> a - d]
      BY <1>3, <2>3
    <2>5. /\ Payload(p, i) \in Payloads /\ Payload(p, i).packet = p
          /\ Payload(p, i).offset = d /\ Payload(p, i).size \in 1 .. m
          /\ Payload(p, i).offset + Payload(p, i).size = a
      BY <1>2, <1>5, <2>3, <2>4 DEF Payloads
    <2> QED  BY <1>7, <2>5 DEF m, n, a, d
  <1> QED  BY <1>1, <1>2, <1>4, <1>6, <1>7

-----------------------------------------------------------------------------
(* The inductive invariant *)

FragmentInv(f) ==
  /\ f \in Fragments
  /\ f.fragCount = FragCount(f.payload.packet)
  /\ f.payload = Payload(f.payload.packet, f.fragIndex)
  /\ messageIdentifier(f) \in Nat
  /\ messageIdentifier(f) + f.fragCount <= m_next[f.sender]

\* A message identifier belongs to one packet of a sender.
NetworkInv ==
  /\ \A f \in network : FragmentInv(f)
  /\ \A f, g \in network :
       f.sender = g.sender /\ messageIdentifier(f) = messageIdentifier(g)
         => f.payload.packet = g.payload.packet

\* The payload was sent at place i of the message id of sender s.
Sent(s, id, i, count, payload) ==
  \E f \in network : /\ f.sender = s /\ messageIdentifier(f) = id /\ f.fragIndex = i
                     /\ f.fragCount = count /\ f.payload = payload

\* A partial message holds payloads of its own message.
Holds(s, id, pm) ==
  /\ DOMAIN pm = {"fragCount", "payloads", "expiry"}
  /\ pm.fragCount \in Nat /\ pm.fragCount > 1
  /\ DOMAIN pm.payloads # {} /\ DOMAIN pm.payloads \subseteq 0 .. pm.fragCount - 1
  /\ \A i \in DOMAIN pm.payloads : Sent(s, id, i, pm.fragCount, pm.payloads[i])

PartialInv(s, id) ==
  LET pm == m_partialMessages[s][id]
  IN /\ Holds(s, id, pm)
     /\ DOMAIN pm.payloads # 0 .. pm.fragCount - 1
     /\ pm.expiry \in 0 .. IdleDuration
     /\ expireEvent[s] # Off
     /\ pm.expiry + (REASSEMBLER_LIFETIME - IdleDuration) <= expireEvent[s]

IInv ==
  /\ m_next \in [Senders -> Nat]
  /\ expireEvent \in [Senders -> 0 .. REASSEMBLER_LIFETIME \cup {Off}]
  /\ DOMAIN m_partialMessages = Senders
  /\ NetworkInv
  /\ \A s \in Senders : \A id \in DOMAIN m_partialMessages[s] : PartialInv(s, id)
  /\ \A s \in Senders : DOMAIN m_partialMessages[s] = {} => m_partialMessages[s] = Nothing
  /\ DeliversWhatWasSent

\* The n payloads are one packet of sender s, in order.
OnePacket(s, n, payloads) ==
  \E p \in Packets :
    /\ Cardinality(DOMAIN payloads) = n
    /\ \E f \in network : f.sender = s /\ f.payload.packet = p
    /\ \A i \in 0 .. n - 1 :
         /\ payloads[i].packet = p
         /\ payloads[i].size > 0
         /\ i = 0 => payloads[i].offset = 0
         /\ i < n - 1 => payloads[i].offset + payloads[i].size = payloads[i + 1].offset
         /\ i = n - 1 => payloads[i].offset + payloads[i].size = PacketSize[p]

\* A message whose payloads are all there is a packet that was sent.
LEMMA Delivered ==
  ASSUME NetworkInv, NEW s \in Senders, NEW id, NEW n \in Nat, n > 0,
         NEW payloads, DOMAIN payloads = 0 .. n - 1,
         \A i \in 0 .. n - 1 : Sent(s, id, i, n, payloads[i])
  PROVE  OnePacket(s, n, payloads)
  <1>1. 0 \in 0 .. n - 1
    OBVIOUS
  <1>2. PICK g \in network : /\ g.sender = s /\ messageIdentifier(g) = id
                             /\ g.fragCount = n /\ g.payload = payloads[0]
    BY <1>1 DEF Sent
  <1> DEFINE p == g.payload.packet
  <1>3. p \in Packets /\ n = FragCount(p)
    BY <1>2 DEF NetworkInv, FragmentInv, Fragments, Payloads
  <1>4. ASSUME NEW i \in 0 .. n - 1
        PROVE  payloads[i] = Payload(p, i)
    <2>1. PICK f \in network : /\ f.sender = s /\ messageIdentifier(f) = id
                               /\ f.fragIndex = i /\ f.payload = payloads[i]
      BY <1>4 DEF Sent
    <2>2. f.payload.packet = p
      BY <1>2, <2>1 DEF NetworkInv
    <2>3. f.payload = Payload(f.payload.packet, f.fragIndex)
      BY DEF NetworkInv, FragmentInv
    <2> QED  BY <2>1, <2>2, <2>3
  <1>5. Cardinality(DOMAIN payloads) = n
    <2>1. Cardinality(0 .. n - 1) = n
      BY FS_Interval
    <2> QED  BY <2>1
  <1> HIDE DEF p
  <1>6. ASSUME NEW i \in 0 .. n - 1
        PROVE  /\ payloads[i].packet = p
               /\ payloads[i].size > 0
               /\ i = 0 => payloads[i].offset = 0
               /\ i < n - 1 => payloads[i].offset + payloads[i].size = payloads[i + 1].offset
               /\ i = n - 1 => payloads[i].offset + payloads[i].size = PacketSize[p]
    <2>1. /\ Payload(p, i).packet = p
          /\ Payload(p, i).offset = i * MaxPayload
          /\ Payload(p, i).size \in 1 .. MaxPayload
          /\ i < n - 1 =>
               Payload(p, i).offset + Payload(p, i).size = (i + 1) * MaxPayload
          /\ i = n - 1 =>
               Payload(p, i).offset + Payload(p, i).size = PacketSize[p]
      BY <1>3, Tiles
    <2>2. i = 0 => i * MaxPayload = 0
      BY MaxPayloadType
    <2>3. ASSUME i < n - 1 PROVE payloads[i + 1].offset = (i + 1) * MaxPayload
      <3>1. i + 1 \in 0 .. n - 1
        BY <2>3
      <3>2. payloads[i + 1] = Payload(p, i + 1)
        BY <1>4, <3>1
      <3> QED  BY <3>2 DEF Payload
    <2>4. Payload(p, i).size > 0
      BY <2>1, MaxPayloadType
    <2> QED  BY <1>4, <2>1, <2>2, <2>3, <2>4
  <1>7. \E f \in network : f.sender = s /\ f.payload.packet = p
    BY <1>2 DEF p
  <1> QED  BY <1>3, <1>5, <1>6, <1>7 DEF OnePacket

-----------------------------------------------------------------------------
(* Each action preserves it *)

LEMMA InitInv == Init => IInv
  BY DEF Init, IInv, NetworkInv, DeliversWhatWasSent, Nothing

\* What was sent stays sent, and partial messages stay sound.
LEMMA SendInv ==
  ASSUME IInv, NEW s \in Senders, NEW p \in Packets, Send(s, p)
  PROVE  IInv'
  <1> DEFINE new == slice(s, p, m_next[s])
  <1>1. FragCount(p) \in Nat /\ FragCount(p) > 0 /\ m_next[s] \in Nat
    BY FragCountProps DEF IInv
  <1>2. /\ m_next' \in [Senders -> Nat] /\ m_next'[s] = m_next[s] + FragCount(p)
        /\ \A t \in Senders : m_next[t] <= m_next'[t]
    BY <1>1 DEF IInv, Send
  <1>3. ASSUME NEW f \in new
        PROVE  /\ FragmentInv(f)' /\ f.sender = s /\ f.payload.packet = p
               /\ messageIdentifier(f) = m_next[s]
    <2>1. PICK i \in 0 .. FragCount(p) - 1 : f = Fragment(s, p, m_next[s], i)
      BY <1>3 DEF slice
    <2>2. i \in Nat /\ i < FragCount(p)
      BY <1>1
    <2>3. Payload(p, i) \in Payloads /\ Payload(p, i).packet = p
      <3>1. /\ Payload(p, i).packet = p
            /\ Payload(p, i).offset = i * MaxPayload
            /\ Payload(p, i).size \in 1 .. MaxPayload
        BY Tiles
      <3>2. i * MaxPayload \in Nat
        BY <2>2, MaxPayloadType, TimesGrows
      <3>3. Payload(p, i).size \in Nat
        BY <3>1, MaxPayloadType
      <3> HIDE DEF new
      <3> QED  BY <3>1, <3>2, <3>3 DEF Payload, Payloads
    <2>4. f.seq = m_next[s] + i /\ f.fragIndex = i /\ f.sender = s
          /\ f.fragCount = FragCount(p) /\ f.payload = Payload(p, i)
      BY <2>1 DEF Fragment
    <2>5. messageIdentifier(f) = m_next[s]
      BY <1>1, <2>2, <2>4 DEF messageIdentifier
    <2>6. f \in Fragments
      BY <1>1, <2>1, <2>2, <2>3 DEF Fragments, Fragment
    <2> QED  BY <1>1, <1>2, <2>3, <2>4, <2>5, <2>6 DEF FragmentInv
  <1>4. ASSUME NEW f \in network PROVE FragmentInv(f)'
    <2>1. FragmentInv(f) /\ f.sender \in Senders /\ f.fragCount \in Nat
      BY DEF IInv, NetworkInv, FragmentInv, Fragments
    <2>2. m_next[f.sender] \in Nat /\ m_next'[f.sender] \in Nat
          /\ m_next[f.sender] <= m_next'[f.sender]
      BY <1>2, <2>1 DEF IInv
    <2> QED  BY <2>1, <2>2 DEF FragmentInv
  <1>5. ASSUME NEW f \in network, f.sender = s
        PROVE  messageIdentifier(f) # m_next[s]
    <2>1. /\ messageIdentifier(f) \in Nat /\ f.fragCount \in Nat /\ f.fragCount > 0
          /\ messageIdentifier(f) + f.fragCount <= m_next[s]
      BY <1>5 DEF IInv, NetworkInv, FragmentInv, Fragments
    <2> QED  BY <1>1, <2>1
  <1> HIDE DEF new
  <1>6. network' = network \cup new
    BY DEF Send, new
  <1>7. NetworkInv'
    <2>1. \A f \in network' : FragmentInv(f)'
      BY <1>3, <1>4, <1>6
    <2>2. ASSUME NEW f \in network', NEW g \in network', f.sender = g.sender,
                 messageIdentifier(f) = messageIdentifier(g)
          PROVE  f.payload.packet = g.payload.packet
      <3>1. CASE f \in new /\ g \in new
        BY <1>3, <3>1
      <3>2. CASE f \in new /\ g \in network
        BY <1>3, <1>5, <2>2, <3>2
      <3>3. CASE f \in network /\ g \in new
        BY <1>3, <1>5, <2>2, <3>3
      <3>4. CASE f \in network /\ g \in network
        BY <2>2, <3>4 DEF IInv, NetworkInv
      <3> QED  BY <1>6, <3>1, <3>2, <3>3, <3>4
    <2> QED  BY <2>1, <2>2 DEF NetworkInv, messageIdentifier
  <1>8. ASSUME NEW t \in Senders, NEW id \in DOMAIN m_partialMessages[t]
        PROVE  PartialInv(t, id)'
    <2>1. PartialInv(t, id) /\ UNCHANGED <<m_partialMessages, expireEvent>>
      BY <1>8 DEF IInv, Send
    <2> QED  BY <1>6, <2>1 DEF PartialInv, Holds, Sent, messageIdentifier
  <1> QED  BY <1>2, <1>7, <1>8 DEF IInv, Send, DeliversWhatWasSent

\* A fragment added to its partial message, or to a new one.
LEMMA AddHolds ==
  ASSUME NetworkInv, NEW f \in network, f.fragCount # 1,
         NEW pm, pm = [NewPartialMessage EXCEPT !.expiry = IdleDuration]
                 \/ Holds(f.sender, messageIdentifier(f), pm)
  PROVE  /\ Holds(f.sender, messageIdentifier(f), add(pm, f))
         /\ add(pm, f).expiry = pm.expiry
  <1> DEFINE s == f.sender
             id == messageIdentifier(f)
             i == f.fragIndex
             res == add(pm, f)
  <1>1. /\ f.fragCount \in Nat /\ f.fragCount > 1
        /\ i \in Nat /\ i < f.fragCount
    BY DEF NetworkInv, FragmentInv, Fragments
  <1>2. Sent(s, id, i, f.fragCount, f.payload)
    BY DEF Sent
  <1>3. DOMAIN pm = {"fragCount", "payloads", "expiry"}
    BY DEF Holds, NewPartialMessage
  <1>4. /\ DOMAIN res = {"fragCount", "payloads", "expiry"}
        /\ res.expiry = pm.expiry
    BY <1>3 DEF add
  <1>5. CASE pm = [NewPartialMessage EXCEPT !.expiry = IdleDuration]
    <2>1. DOMAIN pm.payloads = {}
      BY <1>5 DEF NewPartialMessage, Nothing
    <2>2. res.fragCount = f.fragCount /\ res.payloads = With(pm.payloads, i, f.payload)
      BY <1>1, <1>3, <2>1 DEF add
    <2>3. DOMAIN res.payloads = {i} /\ res.payloads[i] = f.payload
      BY <2>1, <2>2 DEF With
    <2> HIDE DEF s, id, i, res
    <2>4. Holds(s, id, res)
      BY <1>1, <1>2, <1>4, <2>2, <2>3 DEF Holds
    <2> QED  BY <1>4, <2>4 DEF s, id, res
  <1>6. CASE Holds(s, id, pm)
    <2>1. DOMAIN pm.payloads # {}
      BY <1>6 DEF Holds
    <2>2. res.fragCount = pm.fragCount
      BY <1>3, <2>1 DEF add
    <2>3. \/ res.payloads = pm.payloads
          \/ /\ res.payloads = With(pm.payloads, i, f.payload)
             /\ pm.fragCount = f.fragCount /\ i \notin DOMAIN pm.payloads
      BY <1>3, <2>1 DEF add
    <2> HIDE DEF s, id, i, res
    <2>4. CASE res.payloads = pm.payloads
      BY <1>4, <1>6, <2>2, <2>4 DEF Holds, s, id, res
    <2>5. CASE /\ res.payloads = With(pm.payloads, i, f.payload)
               /\ pm.fragCount = f.fragCount /\ i \notin DOMAIN pm.payloads
      <3>1. /\ DOMAIN res.payloads = DOMAIN pm.payloads \cup {i}
            /\ res.payloads[i] = f.payload
            /\ \A j \in DOMAIN pm.payloads : res.payloads[j] = pm.payloads[j]
        BY <2>5 DEF With
      <3>2. \A j \in DOMAIN res.payloads : Sent(s, id, j, res.fragCount, res.payloads[j])
        BY <1>2, <1>6, <2>2, <2>5, <3>1 DEF Holds
      <3>3. Holds(s, id, res)
        BY <1>1, <1>4, <1>6, <2>2, <2>5, <3>1, <3>2 DEF Holds
      <3> QED  BY <1>4, <3>3 DEF s, id, res
    <2> QED  BY <2>3, <2>4, <2>5
  <1> QED  BY <1>5, <1>6

\* A complete partial message has all its payloads, and only then.
LEMMA Complete ==
  ASSUME NEW s, NEW id, NEW pm, Holds(s, id, pm)
  PROVE  isComplete(pm) <=> DOMAIN pm.payloads = 0 .. pm.fragCount - 1
  <1> DEFINE all == 0 .. pm.fragCount - 1
  <1>1. pm.fragCount \in Nat /\ pm.fragCount > 1 /\ DOMAIN pm.payloads \in SUBSET all
    BY DEF Holds
  <1>2. IsFiniteSet(all) /\ Cardinality(all) = pm.fragCount
    BY <1>1, FS_Interval
  <1> HIDE DEF all
  <1>3. Cardinality(all) = Cardinality(DOMAIN pm.payloads) => all = DOMAIN pm.payloads
    BY <1>1, <1>2, FS_Subset
  <1>4. isComplete(pm) <=> DOMAIN pm.payloads = all
    BY <1>2, <1>3 DEF isComplete
  <1> QED  BY <1>4 DEF all

\* A partial message that a step leaves alone, for a sender whose reassembler
\* is not renewed or is renewed.
LEMMA PartialStays ==
  ASSUME NEW s \in Senders, NEW id \in DOMAIN m_partialMessages[s], PartialInv(s, id),
         network' = network, m_partialMessages'[s][id] = m_partialMessages[s][id],
         expireEvent'[s] = expireEvent[s] \/ expireEvent'[s] = REASSEMBLER_LIFETIME
  PROVE  PartialInv(s, id)'
  <1> DEFINE pm == m_partialMessages[s][id]
  <1>1. /\ Holds(s, id, pm) /\ DOMAIN pm.payloads # 0 .. pm.fragCount - 1
        /\ pm.expiry \in 0 .. IdleDuration
        /\ expireEvent[s] # Off
        /\ pm.expiry + (REASSEMBLER_LIFETIME - IdleDuration) <= expireEvent[s]
    BY DEF PartialInv
  <1>2. Holds(s, id, pm)'
    BY <1>1 DEF Holds, Sent, messageIdentifier
  <1>3. /\ expireEvent'[s] # Off
        /\ pm.expiry + (REASSEMBLER_LIFETIME - IdleDuration) <= expireEvent'[s]
    BY <1>1, TimeAssumption
  <1> QED  BY <1>1, <1>2, <1>3 DEF PartialInv

\* A partial message just stored.
LEMMA PartialStored ==
  ASSUME NEW s \in Senders, NEW id, NEW pm, Holds(s, id, pm),
         DOMAIN pm.payloads # 0 .. pm.fragCount - 1, pm.expiry = IdleDuration,
         network' = network, m_partialMessages'[s][id] = pm,
         expireEvent'[s] = REASSEMBLER_LIFETIME
  PROVE  PartialInv(s, id)'
  <1>1. Holds(s, id, pm)'
    BY DEF Holds, Sent, messageIdentifier
  <1> QED  BY <1>1, TimeAssumption DEF PartialInv

LEMMA DeliveryInv ==
  ASSUME NetworkInv, network' = network, NEW s \in Senders, NEW id, NEW n \in Nat, n > 0,
         NEW payloads, DOMAIN payloads = 0 .. n - 1,
         \A i \in 0 .. n - 1 : Sent(s, id, i, n, payloads[i]),
         onReceive' = {[sender |-> s, payloads |-> payloads]}
  PROVE  DeliversWhatWasSent'
  <1>1. OnePacket(s, n, payloads)
    BY ZenonT(60), Delivered
  <1>2. \A m \in onReceive' : m.sender = s /\ m.payloads = payloads
    OBVIOUS
  <1> QED  BY <1>1, <1>2 DEF DeliversWhatWasSent, OnePacket

LEMMA ReceiveInv ==
  ASSUME IInv, NEW f \in network, processIncomingPacket(f)
  PROVE  IInv'
  <1> DEFINE s     == f.sender
             id    == messageIdentifier(f)
             store == m_partialMessages[s]
             old   == IF id \in DOMAIN store THEN store[id] ELSE NewPartialMessage
             pm    == add([old EXCEPT !.expiry = IdleDuration], f)
  <1>1. s \in Senders /\ f.fragCount \in Nat /\ f.fragCount > 0
        /\ f.fragIndex \in Nat /\ f.fragIndex < f.fragCount
    BY DEF IInv, NetworkInv, FragmentInv, Fragments
  <1>2. /\ expireEvent' = [expireEvent EXCEPT ![s] = REASSEMBLER_LIFETIME]
        /\ m_next' = m_next /\ network' = network
        /\ receive(s, f)
    BY DEF processIncomingPacket, RenewReassembler, sourceAddress
  <1>3. /\ expireEvent' \in [Senders -> 0 .. REASSEMBLER_LIFETIME \cup {Off}]
        /\ expireEvent'[s] = REASSEMBLER_LIFETIME
        /\ \A t \in Senders : expireEvent'[t] \in {expireEvent[t], REASSEMBLER_LIFETIME}
    BY <1>1, <1>2, TimeAssumption DEF IInv
  <1>4. NetworkInv /\ NetworkInv'
    BY <1>2 DEF IInv, NetworkInv, FragmentInv, messageIdentifier
  <1>5. ASSUME f.fragCount # 1
        PROVE  Holds(s, id, pm) /\ pm.expiry = IdleDuration
    <2> DEFINE start == [old EXCEPT !.expiry = IdleDuration]
    <2>1. CASE id \in DOMAIN store
      <3>1. Holds(s, id, old)
        BY <1>1, <2>1 DEF IInv, PartialInv
      <3>2. Holds(s, id, start) /\ start.expiry = IdleDuration
        BY <3>1 DEF Holds
      <3> HIDE DEF start
      <3>3. Holds(s, id, add(start, f)) /\ add(start, f).expiry = start.expiry
        BY <1>4, <1>5, <3>2, AddHolds
      <3> QED  BY <3>2, <3>3 DEF start
    <2>2. CASE id \notin DOMAIN store
      <3>1. start = [NewPartialMessage EXCEPT !.expiry = IdleDuration]
        BY <2>2
      <3>2. start.expiry = IdleDuration
        BY <3>1 DEF NewPartialMessage
      <3> HIDE DEF start
      <3>3. Holds(s, id, add(start, f)) /\ add(start, f).expiry = start.expiry
        BY ZenonT(60), <1>4, <1>5, <3>1, AddHolds
      <3> QED  BY <3>2, <3>3 DEF start
    <2> QED  BY <2>1, <2>2
  <1>6. \/ /\ f.fragCount = 1
           /\ onReceive' = {[sender |-> s, payloads |-> [i \in {0} |-> f.payload]]}
           /\ m_partialMessages' = m_partialMessages
        \/ /\ f.fragCount # 1 /\ isComplete(pm)
           /\ onReceive' = {[sender |-> s, payloads |-> pm.payloads]}
           /\ m_partialMessages' = [m_partialMessages EXCEPT
                                      ![s] = Restrict(store, DOMAIN store \ {id})]
        \/ /\ f.fragCount # 1 /\ ~isComplete(pm)
           /\ onReceive' = {}
           /\ m_partialMessages' = [m_partialMessages EXCEPT ![s] = With(store, id, pm)]
    BY <1>2, Zenon DEF receive, Deliver
  <1> HIDE DEF pm, old, store
  <1>7. CASE /\ f.fragCount = 1
             /\ onReceive' = {[sender |-> s, payloads |-> [i \in {0} |-> f.payload]]}
             /\ m_partialMessages' = m_partialMessages
    <2> DEFINE payloads == [i \in {0} |-> f.payload]
    <2>1. DOMAIN payloads = 0 .. 1 - 1 /\ payloads[0] = f.payload
      OBVIOUS
    <2>2. f.fragIndex = 0
      BY <1>1, <1>7
    <2>3. \A i \in 0 .. 1 - 1 : Sent(s, id, i, 1, payloads[i])
      BY <1>7, <2>1, <2>2 DEF Sent
    <2> HIDE DEF payloads, id
    <2>4. DeliversWhatWasSent'
      BY ZenonT(60), <1>1, <1>2, <1>4, <1>7, <2>1, <2>3, DeliveryInv DEF payloads
    <2>5. ASSUME NEW t \in Senders, NEW x \in DOMAIN m_partialMessages[t]
          PROVE  PartialInv(t, x)'
      BY <1>2, <1>3, <1>7, <2>5, PartialStays DEF IInv
    <2> QED  BY <1>2, <1>3, <1>4, <1>7, <2>4, <2>5 DEF IInv
  <1>8. CASE /\ f.fragCount # 1 /\ isComplete(pm)
             /\ onReceive' = {[sender |-> s, payloads |-> pm.payloads]}
             /\ m_partialMessages' = [m_partialMessages EXCEPT
                                        ![s] = Restrict(store, DOMAIN store \ {id})]
    <2>1. Holds(s, id, pm) /\ DOMAIN pm.payloads = 0 .. pm.fragCount - 1
      BY <1>5, <1>8, Complete
    <2>2. /\ pm.fragCount \in Nat /\ pm.fragCount > 0
          /\ \A i \in 0 .. pm.fragCount - 1 : Sent(s, id, i, pm.fragCount, pm.payloads[i])
      BY <2>1 DEF Holds
    <2>3. DeliversWhatWasSent'
      <3> HIDE DEF id
      <3> DEFINE payloads == pm.payloads
                 n == pm.fragCount
      <3>1. n \in Nat /\ n > 0 /\ DOMAIN payloads = 0 .. n - 1
            /\ \A i \in 0 .. n - 1 : Sent(s, id, i, n, payloads[i])
        BY <2>1, <2>2
      <3>2. onReceive' = {[sender |-> s, payloads |-> payloads]}
        BY <1>8
      <3> HIDE DEF payloads, n
      <3> QED  BY ZenonT(60), <1>1, <1>2, <1>4, <3>1, <3>2, DeliveryInv
    <2>4. /\ DOMAIN m_partialMessages' = Senders
          /\ m_partialMessages'[s] = Restrict(store, DOMAIN store \ {id})
          /\ \A t \in Senders : t # s => m_partialMessages'[t] = m_partialMessages[t]
      BY <1>1, <1>8 DEF IInv
    <2>5. ASSUME NEW t \in Senders
          PROVE  /\ \A x \in DOMAIN m_partialMessages'[t] : PartialInv(t, x)'
                 /\ DOMAIN m_partialMessages'[t] = {} => m_partialMessages'[t] = Nothing
      <3>1. ASSUME NEW x \in DOMAIN m_partialMessages'[t] PROVE PartialInv(t, x)'
        <4>1. x \in DOMAIN m_partialMessages[t]
              /\ m_partialMessages'[t][x] = m_partialMessages[t][x]
          BY <2>4, <3>1 DEF store, Restrict
        <4> QED  BY <1>2, <1>3, <4>1, PartialStays DEF IInv
      <3>2. DOMAIN m_partialMessages'[t] = {} => m_partialMessages'[t] = Nothing
        BY ZenonT(60), <2>4 DEF IInv, Restrict, Nothing
      <3> QED  BY <3>1, <3>2
    <2> QED  BY <1>2, <1>3, <1>4, <2>3, <2>4, <2>5 DEF IInv
  <1>9. CASE /\ f.fragCount # 1 /\ ~isComplete(pm)
             /\ onReceive' = {}
             /\ m_partialMessages' = [m_partialMessages EXCEPT ![s] = With(store, id, pm)]
    <2>1. Holds(s, id, pm) /\ DOMAIN pm.payloads # 0 .. pm.fragCount - 1
          /\ pm.expiry = IdleDuration
      BY <1>5, <1>9, Complete
    <2>2. /\ DOMAIN m_partialMessages' = Senders
          /\ m_partialMessages'[s] = With(store, id, pm)
          /\ \A t \in Senders : t # s => m_partialMessages'[t] = m_partialMessages[t]
      BY <1>1, <1>9 DEF IInv
    <2>3. PartialInv(s, id)'
      <3>1. m_partialMessages'[s][id] = pm
        BY <2>2 DEF With
      <3> QED  BY <1>1, <1>2, <1>3, <2>1, <3>1, PartialStored
    <2>4. ASSUME NEW t \in Senders, NEW x \in DOMAIN m_partialMessages'[t]
          PROVE  PartialInv(t, x)'
      <3>1. CASE t = s /\ x = id
        BY <2>3, <3>1
      <3>2. CASE t # s \/ x # id
        <4>1. x \in DOMAIN m_partialMessages[t]
              /\ m_partialMessages'[t][x] = m_partialMessages[t][x]
          BY <2>2, <2>4, <3>2 DEF store, With
        <4> QED  BY <1>2, <1>3, <4>1, PartialStays DEF IInv
      <3> QED  BY <3>1, <3>2
    <2>5. \A t \in Senders :
            DOMAIN m_partialMessages'[t] = {} => m_partialMessages'[t] = Nothing
      BY <2>2 DEF IInv, With
    <2> QED  BY <1>2, <1>3, <1>4, <1>9, <2>2, <2>4, <2>5 DEF IInv, DeliversWhatWasSent
  <1> QED  BY <1>6, <1>7, <1>8, <1>9

\* A step that sends nothing and only forgets partial messages.
LEMMA ForgetInv ==
  ASSUME IInv, UNCHANGED <<m_next, network>>, onReceive' = {},
         expireEvent' \in [Senders -> 0 .. REASSEMBLER_LIFETIME \cup {Off}],
         DOMAIN m_partialMessages' = Senders,
         \A s \in Senders :
           /\ DOMAIN m_partialMessages'[s] \subseteq DOMAIN m_partialMessages[s]
           /\ DOMAIN m_partialMessages'[s] = {} => m_partialMessages'[s] = Nothing
           /\ \A id \in DOMAIN m_partialMessages'[s] :
                /\ m_partialMessages'[s][id] = m_partialMessages[s][id]
                /\ expireEvent'[s] \in {expireEvent[s], REASSEMBLER_LIFETIME}
  PROVE  IInv'
  <1>1. NetworkInv'
    BY DEF IInv, NetworkInv, FragmentInv, messageIdentifier
  <1>2. ASSUME NEW s \in Senders, NEW id \in DOMAIN m_partialMessages'[s]
        PROVE  PartialInv(s, id)'
    <2>1. id \in DOMAIN m_partialMessages[s] /\ PartialInv(s, id)
      BY <1>2 DEF IInv
    <2> QED  BY <1>2, <2>1, PartialStays
  <1> QED  BY <1>1, <1>2 DEF IInv, DeliversWhatWasSent

LEMMA InvalidInv ==
  ASSUME IInv, NEW s \in Senders, processInvalidPacket(s)
  PROVE  IInv'
  <1>1. /\ expireEvent' \in [Senders -> 0 .. REASSEMBLER_LIFETIME \cup {Off}]
        /\ \A t \in Senders : expireEvent'[t] \in {expireEvent[t], REASSEMBLER_LIFETIME}
    BY TimeAssumption DEF IInv, processInvalidPacket, RenewReassembler
  <1> QED  BY <1>1, ForgetInv DEF IInv, processInvalidPacket

LEMMA CleanupInv ==
  ASSUME IInv, NEW s \in Senders, NEW x \in DOMAIN m_partialMessages[s], cleanup(s, x)
  PROVE  IInv'
  <1>1. /\ DOMAIN m_partialMessages' = Senders
        /\ m_partialMessages'[s] = Restrict(m_partialMessages[s], DOMAIN m_partialMessages[s] \ {x})
        /\ \A t \in Senders : t # s => m_partialMessages'[t] = m_partialMessages[t]
    BY DEF IInv, cleanup
  <1>2. ASSUME NEW t \in Senders
        PROVE  /\ DOMAIN m_partialMessages'[t] \subseteq DOMAIN m_partialMessages[t]
               /\ DOMAIN m_partialMessages'[t] = {} => m_partialMessages'[t] = Nothing
               /\ \A id \in DOMAIN m_partialMessages'[t] :
                    m_partialMessages'[t][id] = m_partialMessages[t][id]
    BY ZenonT(60), <1>1 DEF IInv, Restrict, Nothing
  <1> QED  BY ZenonT(60), <1>1, <1>2, ForgetInv DEF IInv, cleanup

LEMMA EraseInv ==
  ASSUME IInv, NEW s \in Senders, EraseReassembler(s)
  PROVE  IInv'
  <1>1. /\ DOMAIN m_partialMessages' = Senders
        /\ m_partialMessages'[s] = Nothing
        /\ \A t \in Senders : t # s => /\ m_partialMessages'[t] = m_partialMessages[t]
                                       /\ expireEvent'[t] = expireEvent[t]
        /\ expireEvent' \in [Senders -> 0 .. REASSEMBLER_LIFETIME \cup {Off}]
    BY DEF IInv, EraseReassembler
  <1>2. ASSUME NEW t \in Senders
        PROVE  /\ DOMAIN m_partialMessages'[t] \subseteq DOMAIN m_partialMessages[t]
               /\ DOMAIN m_partialMessages'[t] = {} => m_partialMessages'[t] = Nothing
               /\ \A id \in DOMAIN m_partialMessages'[t] :
                    /\ m_partialMessages'[t][id] = m_partialMessages[t][id]
                    /\ expireEvent'[t] \in {expireEvent[t], REASSEMBLER_LIFETIME}
    BY <1>1 DEF IInv, Nothing
  <1> QED  BY <1>1, <1>2, ForgetInv DEF IInv, EraseReassembler

LEMMA TickInv ==
  ASSUME IInv, Tick
  PROVE  IInv'
  <1>1. NetworkInv'
    BY DEF IInv, Tick, NetworkInv, FragmentInv, messageIdentifier
  <1>2. expireEvent' \in [Senders -> 0 .. REASSEMBLER_LIFETIME \cup {Off}]
    <2> DEFINE left(s) == IF expireEvent[s] = Off THEN Off ELSE expireEvent[s] - 1
    <2>1. ASSUME NEW s \in Senders PROVE left(s) \in 0 .. REASSEMBLER_LIFETIME \cup {Off}
      <3>1. CASE expireEvent[s] = Off
        BY <3>1
      <3>2. CASE expireEvent[s] # Off
        <4>1. expireEvent[s] \in 0 .. REASSEMBLER_LIFETIME /\ expireEvent[s] # 0
          BY <3>2 DEF IInv, Tick
        <4>2. expireEvent[s] - 1 \in 0 .. REASSEMBLER_LIFETIME
          BY <4>1, TimeAssumption
        <4> QED  BY <3>2, <4>2
      <3> QED  BY <3>1, <3>2
    <2>2. expireEvent' = [s \in Senders |-> left(s)]
      BY DEF Tick
    <2> HIDE DEF left
    <2> QED  BY <2>1, <2>2
  <1>3. ASSUME NEW s \in Senders
        PROVE  DOMAIN m_partialMessages'[s] = DOMAIN m_partialMessages[s]
               /\ (DOMAIN m_partialMessages'[s] = {} => m_partialMessages'[s] = Nothing)
    BY DEF Tick, Nothing
  <1>4. ASSUME NEW s \in Senders, NEW id \in DOMAIN m_partialMessages[s]
        PROVE  PartialInv(s, id)'
    <2> DEFINE pm  == m_partialMessages[s][id]
               new == m_partialMessages'[s][id]
    <2>1. /\ Holds(s, id, pm) /\ DOMAIN pm.payloads # 0 .. pm.fragCount - 1
          /\ pm.expiry \in 0 .. IdleDuration
          /\ expireEvent[s] # Off
          /\ pm.expiry + (REASSEMBLER_LIFETIME - IdleDuration) <= expireEvent[s]
      BY <1>4 DEF IInv, PartialInv
    <2>2. pm.expiry # 0 /\ new = [pm EXCEPT !.expiry = @ - 1]
          /\ expireEvent'[s] = expireEvent[s] - 1
      BY <1>4, <2>1 DEF Tick
    <2>3. /\ DOMAIN new = DOMAIN pm /\ new.fragCount = pm.fragCount
          /\ new.payloads = pm.payloads /\ new.expiry = pm.expiry - 1
      BY <2>1, <2>2 DEF Holds
    <2>4. network' = network
      BY DEF Tick
    <2>5. expireEvent[s] \in Int
      BY <2>1 DEF IInv
    <2>6. /\ new.expiry \in 0 .. IdleDuration /\ expireEvent'[s] # Off
          /\ new.expiry + (REASSEMBLER_LIFETIME - IdleDuration) <= expireEvent'[s]
      <3>1. expireEvent'[s] \in Int
        BY <2>2, <2>5
      <3>2. expireEvent'[s] # Off
        BY <3>1, TimeAssumption
      <3>3. new.expiry \in 0 .. IdleDuration
        BY <2>1, <2>2, <2>3, TimeAssumption
      <3>4. new.expiry + (REASSEMBLER_LIFETIME - IdleDuration) <= expireEvent'[s]
        BY <2>1, <2>2, <2>3, <2>5, TimeAssumption
      <3> QED  BY <3>2, <3>3, <3>4
    <2>7. Holds(s, id, pm)'
      <3>1. Holds(s, id, new)
        BY <2>1, <2>3 DEF Holds
      <3> QED  BY <2>4, <3>1 DEF Holds, Sent, messageIdentifier
    <2> QED  BY <2>1, <2>3, <2>6, <2>7 DEF PartialInv
  <1> QED  BY <1>1, <1>2, <1>3, <1>4 DEF IInv, Tick, DeliversWhatWasSent

LEMMA NextInv == IInv /\ [Next]_vars => IInv'
  <1> SUFFICES ASSUME IInv, [Next]_vars PROVE IInv'
    OBVIOUS
  <1>1. CASE UNCHANGED vars
    <2>1. NetworkInv' /\ DeliversWhatWasSent'
      BY <1>1 DEF vars, IInv, NetworkInv, FragmentInv, messageIdentifier, DeliversWhatWasSent
    <2>2. ASSUME NEW s \in Senders, NEW id \in DOMAIN m_partialMessages[s]
          PROVE  PartialInv(s, id)'
      BY <1>1, <2>2, PartialStays DEF vars, IInv
    <2> QED  BY <1>1, <2>1, <2>2 DEF vars, IInv
  <1>2. CASE Next
    BY <1>2, SendInv, ReceiveInv, InvalidInv, EraseInv, CleanupInv, TickInv DEF Next
  <1> QED  BY <1>1, <1>2

-----------------------------------------------------------------------------
(* Theorems *)

\* The invariant holds of every behaviour of the slicers and the stores.
THEOREM Invariance == Spec => []IInv
  BY InitInv, NextInv, PTL DEF Spec

\* Partial messages are never empty and never complete between two events, and
\* their timers stay within their durations.
THEOREM TypeCorrect == Spec => []TypeOK
  <1>1. IInv => TypeOK
    BY DEF IInv, TypeOK, NetworkInv, FragmentInv, PartialInv, Holds
  <1> QED  BY <1>1, Invariance, PTL

\* Slicer::slice makes no fragment larger than the MTU, whatever the MTU and
\* the packet: the estimate of the header covers every header.
THEOREM FragmentsFitHolds == Spec => []FragmentsFit
  <1>1. IInv => FragmentsFit
    <2> SUFFICES ASSUME IInv, NEW f \in network
                 PROVE  encodeFragment(f.payload.size, f.fragIndex, f.fragCount) <= Mtu
      BY DEF FragmentsFit
    <2>1. /\ f \in Fragments /\ f.fragCount = FragCount(f.payload.packet)
          /\ f.payload = Payload(f.payload.packet, f.fragIndex)
      BY DEF IInv, NetworkInv, FragmentInv
    <2>2. /\ f.payload.packet \in Packets /\ f.fragCount \in Nat
          /\ f.fragIndex \in 0 .. FragCount(f.payload.packet) - 1
      <3>1. /\ f.payload.packet \in Packets /\ f.fragCount \in Nat
            /\ f.fragIndex \in Nat /\ f.fragIndex < f.fragCount
        BY <2>1 DEF Fragments, Payloads
      <3> QED  BY <2>1, <3>1
    <2>3. f.payload.size \in 1 .. MaxPayload
      <3> DEFINE p == f.payload.packet
                 i == f.fragIndex
      <3>1. p \in Packets /\ i \in 0 .. FragCount(p) - 1 /\ f.payload = Payload(p, i)
        BY <2>1, <2>2
      <3> HIDE DEF p, i
      <3>2. Payload(p, i).size \in 1 .. MaxPayload
        BY <3>1, Tiles
      <3> QED  BY <3>1, <3>2
    <2>4. f.payload.size \in Nat /\ f.payload.size <= MaxPayload
      BY <2>3, MaxPayloadType
    <2>5. f.fragIndex \in Nat
      BY <2>1 DEF Fragments
    <2> QED  BY <2>2, <2>4, <2>5, FitsMtu
  <1> QED  BY <1>1, Invariance, PTL

\* PartialMessageStore delivers only whole packets of one sender, whatever the
\* network does with the fragments.
THEOREM DeliversWhatWasSentHolds == Spec => []DeliversWhatWasSent
  <1>1. IInv => DeliversWhatWasSent
    BY DEF IInv
  <1> QED  BY <1>1, Invariance, PTL

\* When the timer of a Reassembler fires, its store has no partial message.
THEOREM NothingLostAtExpiryHolds == Spec => []NothingLostAtExpiry
  <1>1. IInv => NothingLostAtExpiry
    <2> SUFFICES ASSUME IInv, NEW s \in Senders, expireEvent[s] \in {0, Off}
                 PROVE  m_partialMessages[s] = Nothing
      BY DEF NothingLostAtExpiry
    <2>1. ASSUME NEW id \in DOMAIN m_partialMessages[s] PROVE FALSE
      BY <2>1, TimeAssumption DEF IInv, PartialInv
    <2> QED  BY <2>1 DEF IInv
  <1> QED  BY <1>1, Invariance, PTL
=============================================================================
