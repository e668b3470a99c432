SPECIFICATION Spec
CONSTANTS
  Senders = {s1, s2}
  Packets = {"one", "two", "even", "four"}
  PacketSize <- Sizes
  Mtu = 279
  IdleDuration = 1
  REASSEMBLER_LIFETIME = 2
  Off = Off
  MaxSeq = 4
INVARIANTS TypeOK FragmentsFit DeliversWhatWasSent NothingLostAtExpiry
