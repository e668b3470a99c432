------------------------------- MODULE Ndnlp -------------------------------
(***************************************************************************)
(* NDNLP over Ethernet faces: ndnlp::Slicer at the senders of a multicast  *)
(* group, and one receiver with a PartialMessageStore per source address.  *)
(*                                                                         *)
(* A payload is a range of bytes of a packet.  The network keeps every     *)
(* fragment that was ever sent and delivers any of them at any time, so    *)
(* fragments are lost, reordered, delayed and duplicated.                  *)
(*                                                                         *)
(* Times are relative to now: a timer is the time left until it fires.     *)
(***************************************************************************)
EXTENDS Integers, FiniteSets, Functions

CONSTANTS
  Senders,
  Packets,
  PacketSize,           \* of each packet, in bytes
  Mtu,
  IdleDuration,
  REASSEMBLER_LIFETIME,
  Off,
  MaxSeq                \* bound on the sequence numbers used

-----------------------------------------------------------------------------
(* Slicer *)

\* The length of a TLV-TYPE or TLV-LENGTH.
VarSize(n) == CASE n < 253                  -> 1
                [] n >= 253 /\ n < 65536    -> 3
                [] OTHER                    -> 5

\* The length of a nonNegativeInteger of at most 16 bits.
NniSize(n) == IF n < 256 THEN 1 ELSE 2

\* The length of the TLV-VALUE of a fragment, and of the fragment.
ValueSize(payloadSize, fragIndex, fragCount) ==
  LET needed == IF fragCount > 1 THEN NniSize(fragIndex) + 2 + NniSize(fragCount) + 2 ELSE 0
  IN payloadSize + VarSize(payloadSize) + 1 + needed + 10

encodeFragment(payloadSize, fragIndex, fragCount) ==
  LET value == ValueSize(payloadSize, fragIndex, fragCount)
  IN value + VarSize(value) + 1

\* Mutant: the header is measured on an empty payload, whose length takes less.
estimateOverhead_Empty(mtu) == encodeFragment(0, 65534, 65535)

estimateOverhead(mtu) == encodeFragment(mtu, 65534, 65535) - mtu

MAX_NDN_PACKET_SIZE == 8800

MaxPayload == Mtu - estimateOverhead(Mtu)

ASSUME MtuAssumption == Mtu \in Nat /\ MaxPayload > 0
ASSUME SizeAssumption ==
  \A p \in Packets : /\ PacketSize[p] \in Nat \ {0}
                     /\ PacketSize[p] <= MAX_NDN_PACKET_SIZE
ASSUME TimeAssumption ==
  /\ IdleDuration \in Nat /\ REASSEMBLER_LIFETIME \in Nat
  /\ IdleDuration < REASSEMBLER_LIFETIME
  /\ Off \notin Int
ASSUME BoundAssumption == MaxSeq \in Nat

\* A uint16_t.
FragCount(p) ==
  (PacketSize[p] \div MaxPayload + (IF PacketSize[p] % MaxPayload = 0 THEN 0 ELSE 1)) % 65536

Smaller(a, b) == IF a <= b THEN a ELSE b

Payload(p, fragIndex) ==
  [packet |-> p, offset |-> fragIndex * MaxPayload,
   size   |-> Smaller(MaxPayload, PacketSize[p] - fragIndex * MaxPayload)]

Fragment(s, p, start, fragIndex) ==
  [sender |-> s, seq |-> start + fragIndex, fragIndex |-> fragIndex,
   fragCount |-> FragCount(p), payload |-> Payload(p, fragIndex)]

\* Mutant: indices start at 1.
slice_FromOne(s, p, start) == {Fragment(s, p, start, i) : i \in 1 .. FragCount(p)}

slice(s, p, start) == {Fragment(s, p, start, i) : i \in 0 .. FragCount(p) - 1}

-----------------------------------------------------------------------------
(* PartialMessage *)

VARIABLES
  m_next,             \* of the SequenceGenerator of each sender
  network,            \* all fragments sent
  m_partialMessages,  \* of each sender: message identifier |-> partial message
  expireEvent,        \* of the Reassembler of each sender; Off: there is none
  onReceive           \* what the last step delivered: {} or a set of one message

vars == <<m_next, network, m_partialMessages, expireEvent, onReceive>>

Nothing == [i \in {} |-> 0]

NewPartialMessage == [fragCount |-> 0, payloads |-> Nothing, expiry |-> 0]

With(f, x, v) == [y \in DOMAIN f \cup {x} |-> IF y = x THEN v ELSE f[y]]

\* pm is the partial message a fragment is added to.
add(pm, fragment) ==
  LET i       == fragment.fragIndex
      count   == IF DOMAIN pm.payloads = {} THEN fragment.fragCount ELSE pm.fragCount
      refused == count # fragment.fragCount \/ i >= count \/ i \in DOMAIN pm.payloads
  IN [pm EXCEPT !.fragCount = count,
                !.payloads = IF refused THEN @ ELSE With(@, i, fragment.payload)]

isComplete(pm) == Cardinality(DOMAIN pm.payloads) = pm.fragCount

-----------------------------------------------------------------------------
Payloads == [packet : Packets, offset : Nat, size : Nat]

Fragments == {f \in [sender : Senders, seq : Nat, fragIndex : Nat, fragCount : Nat,
                     payload : Payloads] : f.fragIndex < f.fragCount}

TypeOK ==
  /\ m_next \in [Senders -> Nat]
  /\ network \subseteq Fragments
  /\ expireEvent \in [Senders -> 0 .. REASSEMBLER_LIFETIME \cup {Off}]
  /\ DOMAIN m_partialMessages = Senders
  /\ \A s \in Senders : \A id \in DOMAIN m_partialMessages[s] :
       LET pm == m_partialMessages[s][id]
       IN /\ pm.expiry \in 0 .. IdleDuration
          /\ pm.fragCount \in Nat \ {0, 1}
          /\ DOMAIN pm.payloads \subseteq 0 .. pm.fragCount - 1
          /\ DOMAIN pm.payloads \notin {{}, 0 .. pm.fragCount - 1}

Init ==
  /\ m_next = [s \in Senders |-> 0]
  /\ network = {}
  /\ m_partialMessages = [s \in Senders |-> Nothing]
  /\ expireEvent = [s \in Senders |-> Off]
  /\ onReceive = {}

\* sendInterest and sendData.
Send(s, p) ==
  /\ m_next[s] + FragCount(p) <= MaxSeq
  /\ network' = network \cup slice(s, p, m_next[s])
  /\ m_next' = [m_next EXCEPT ![s] = @ + FragCount(p)]
  /\ onReceive' = {}
  /\ UNCHANGED <<m_partialMessages, expireEvent>>

\* Mutant: one reassembler for all senders.
sourceAddress_Shared(fragment) == CHOOSE s \in Senders : TRUE

sourceAddress(fragment) == fragment.sender

messageIdentifier(fragment) == fragment.seq - fragment.fragIndex

Deliver(s, payloads) == onReceive' = {[sender |-> s, payloads |-> payloads]}

\* PartialMessageStore::receive on the store of source s.
receive(s, fragment) ==
  LET store == m_partialMessages[s]
      id    == messageIdentifier(fragment)
      old   == IF id \in DOMAIN store THEN store[id] ELSE NewPartialMessage
      pm    == add([old EXCEPT !.expiry = IdleDuration], fragment)
  IN \/ /\ fragment.fragCount = 1
        /\ Deliver(s, [i \in {0} |-> fragment.payload])
        /\ UNCHANGED m_partialMessages
     \/ /\ fragment.fragCount # 1 /\ isComplete(pm)
        /\ Deliver(s, pm.payloads)
        /\ m_partialMessages' = [m_partialMessages EXCEPT ![s] = Restrict(@, DOMAIN @ \ {id})]
     \/ /\ fragment.fragCount # 1 /\ ~isComplete(pm)
        /\ onReceive' = {}
        /\ m_partialMessages' = [m_partialMessages EXCEPT ![s] = With(@, id, pm)]

\* Mutant: the reassembler's lifetime is counted from its first fragment.
RenewReassembler_Never(s) ==
  expireEvent' = [expireEvent EXCEPT ![s] = IF @ = Off THEN REASSEMBLER_LIFETIME ELSE @]

RenewReassembler(s) == expireEvent' = [expireEvent EXCEPT ![s] = REASSEMBLER_LIFETIME]

\* Of a fragment that NdnlpData::fromBlock accepts.
processIncomingPacket(fragment) ==
  /\ RenewReassembler(sourceAddress(fragment))
  /\ receive(sourceAddress(fragment), fragment)
  /\ UNCHANGED <<m_next, network>>

\* Of a block that it does not accept.
processInvalidPacket(s) ==
  /\ RenewReassembler(s)
  /\ onReceive' = {}
  /\ UNCHANGED <<m_next, network, m_partialMessages>>

cleanup(s, id) ==
  /\ m_partialMessages[s][id].expiry = 0
  /\ m_partialMessages' = [m_partialMessages EXCEPT ![s] = Restrict(@, DOMAIN @ \ {id})]
  /\ onReceive' = {}
  /\ UNCHANGED <<m_next, network, expireEvent>>

\* The lambda of expireEvent: the store goes, with its partial messages and
\* their timers.
EraseReassembler(s) ==
  /\ expireEvent[s] = 0
  /\ expireEvent' = [expireEvent EXCEPT ![s] = Off]
  /\ m_partialMessages' = [m_partialMessages EXCEPT ![s] = Nothing]
  /\ onReceive' = {}
  /\ UNCHANGED <<m_next, network>>

\* Time passes only when no timer is due.
Tick ==
  /\ \A s \in Senders : /\ expireEvent[s] # 0
                        /\ \A id \in DOMAIN m_partialMessages[s] :
                             m_partialMessages[s][id].expiry # 0
  /\ expireEvent' = [s \in Senders |-> IF expireEvent[s] = Off THEN Off ELSE expireEvent[s] - 1]
  /\ m_partialMessages' = [s \in Senders |-> [id \in DOMAIN m_partialMessages[s] |->
       [m_partialMessages[s][id] EXCEPT !.expiry = @ - 1]]]
  /\ onReceive' = {}
  /\ UNCHANGED <<m_next, network>>

Next ==
  \/ \E s \in Senders, p \in Packets : Send(s, p)
  \/ \E f \in network : processIncomingPacket(f)
  \/ \E s \in Senders : processInvalidPacket(s) \/ EraseReassembler(s)
  \/ \E s \in Senders : \E id \in DOMAIN m_partialMessages[s] : cleanup(s, id)
  \/ Tick

Spec == Init /\ [][Next]_vars

-----------------------------------------------------------------------------
(* Properties *)

\* Every fragment fits the interface: the BOOST_VERIFY of slice and the
\* assertion of sendPacket.
FragmentsFit ==
  \A f \in network : encodeFragment(f.payload.size, f.fragIndex, f.fragCount) <= Mtu

\* Whatever is lost, reordered or duplicated and whichever timers fire, a
\* delivered message consists of the payloads of one packet, in order and
\* without gap or overlap, from its first byte to its last: partial messages
\* of different packets and of different senders never mix.
DeliversWhatWasSent ==
  \A m \in onReceive : \E p \in Packets :
    LET n == Cardinality(DOMAIN m.payloads)
    IN /\ \E f \in network : f.sender = m.sender /\ f.payload.packet = p
       /\ DOMAIN m.payloads = 0 .. n - 1
       /\ \A i \in 0 .. n - 1 :
            /\ m.payloads[i].packet = p
            /\ m.payloads[i].size > 0
            /\ i = 0 => m.payloads[i].offset = 0
            /\ i < n - 1 => m.payloads[i].offset + m.payloads[i].size = m.payloads[i + 1].offset
            /\ i = n - 1 => m.payloads[i].offset + m.payloads[i].size = PacketSize[p]

\* A reassembler that expires drops nothing: every partial message of its
\* sender was cleaned up before.
NothingLostAtExpiry ==
  \A s \in Senders : expireEvent[s] \in {0, Off} => m_partialMessages[s] = Nothing
=============================================================================
