----------------------- MODULE FullyDistributedProofs -----------------------
(***************************************************************************)
(* For every number of packets, every window and every cap: the consumer   *)
(* loses no sequence number, takes no RTT sample from a retransmission,    *)
(* never asks again for what it has, and never stalls.                     *)
(***************************************************************************)
EXTENDS FullyDistributed, TLAPS

-----------------------------------------------------------------------------
(* The base class: each of its operations preserves ConsumerInv            *)

\* A fresh consumer satisfies the invariant.
LEMMA InitInv == ConsumerInit => ConsumerInv
BY SeqMaxAssumption DEF ConsumerInit, ConsumerInv, ConsumerTypeOK, NoSeqLost,
   KarnRule, OnlyRequested, Outstanding, Seqs

\* An operation that leaves the bookkeeping alone preserves the invariant.
LEMMA IdleInv ==
  ConsumerInv /\ (\/ UNCHANGED consumerVars
                  \/ App_StartApplication
                  \/ App_StopApplication
                  \/ \E s \in Seqs : Answer(s) \/ Lose(s)) => ConsumerInv'
BY DEF ConsumerInv, ConsumerTypeOK, NoSeqLost, KarnRule, OnlyRequested, Outstanding,
   consumerVars, App_StartApplication, App_StopApplication, Answer, Lose

\* WillSendOutInterest makes s outstanding and remembers that it was sent.
LEMMA WillSendTracks ==
  ASSUME ConsumerTypeOK, NEW s \in Seqs, WillSendOutInterest(s)
  PROVE  /\ m_seqTimeouts' \in [Seqs -> Nat]
         /\ m_history' \in [Seqs -> {"none", "sample", "retx"}]
         /\ m_seqRetxCounts' \in [Seqs -> {0, 1, 2}]
         /\ Outstanding' = Outstanding \cup {s}
<1>1. m_seqTimeouts' \in [Seqs -> Nat] /\ Outstanding' = Outstanding \cup {s}
  BY DEF ConsumerTypeOK, WillSendOutInterest, Insert, Outstanding
<1>2. m_history' \in [Seqs -> {"none", "sample", "retx"}]
  BY DEF ConsumerTypeOK, WillSendOutInterest, SentSeq
<1>3. m_seqRetxCounts' \in [Seqs -> {0, 1, 2}]
  BY DEF ConsumerTypeOK, WillSendOutInterest
<1> QED  BY <1>1, <1>2, <1>3

\* Sending a number that is neither outstanding nor received, be it new or
\* taken from m_retxSeqs, preserves the invariant.
LEMMA SendInv ==
  ASSUME ConsumerInv, NEW seqMax \in 0 .. SeqMax, SendNextSeq(seqMax)
  PROVE  ConsumerInv'
<1> USE DEF ConsumerInv
<1>1. PICK s \in Seqs :
        /\ \/ s \in m_retxSeqs /\ m_seq' = m_seq
           \/ m_retxSeqs = {} /\ s = m_seq /\ m_seq < SeqMax /\ m_seq' = m_seq + 1
        /\ m_retxSeqs' = m_retxSeqs \ {s} /\ pit' = pit \cup {s}
        /\ WillSendOutInterest(s)
  <2>1. CASE SendAgain
    BY <2>1 DEF SendAgain, ConsumerTypeOK
  <2>2. CASE SendNew(m_seq, seqMax)
    BY <2>2, SeqMaxAssumption DEF SendNew, ConsumerTypeOK, Seqs
  <2> QED  BY <2>1, <2>2 DEF SendNextSeq
<1>2. UNCHANGED <<m_active, received, arriving>>
  BY DEF SendNextSeq
<1>3. ConsumerTypeOK'
  BY <1>1, <1>2, WillSendTracks, SeqMaxAssumption DEF ConsumerTypeOK
<1>4. Outstanding' = Outstanding \cup {s} /\ s \notin Outstanding \cup received
  BY <1>1, WillSendTracks DEF ConsumerTypeOK, NoSeqLost, Seqs
<1>5. NoSeqLost'
  BY <1>1, <1>2, <1>4 DEF ConsumerTypeOK, NoSeqLost, Seqs
<1>6. OnlyRequested'
  BY <1>1, <1>2 DEF ConsumerTypeOK, OnlyRequested, NoSeqLost, Seqs
<1>7. KarnRule'
  BY <1>1, <1>4 DEF ConsumerTypeOK, KarnRule, NoSeqLost, WillSendOutInterest, SentSeq
<1> QED  BY <1>3, <1>5, <1>6, <1>7

\* Data that reaches a running consumer takes its number out of every
\* container and only that number; Data after the stop changes nothing.
LEMMA DataInv ==
  ASSUME NEW s \in Seqs, ConsumerInv, Consumer_OnData(s)
  PROVE  ConsumerInv'
<1> USE DEF ConsumerInv
<1>1. m_seqTimeouts' \in [Seqs -> Nat]
  BY DEF ConsumerTypeOK, Consumer_OnData, Erase
<1>2. Outstanding' = IF m_active = "running" THEN Outstanding \ {s} ELSE Outstanding
  BY DEF ConsumerTypeOK, Consumer_OnData, Erase, Outstanding
<1>3. ConsumerTypeOK'
  BY <1>1 DEF ConsumerTypeOK, Consumer_OnData
<1>4. NoSeqLost' /\ OnlyRequested'
  BY <1>2 DEF ConsumerTypeOK, NoSeqLost, OnlyRequested, Consumer_OnData
<1>5. KarnRule'
  BY <1>2 DEF ConsumerTypeOK, KarnRule, Consumer_OnData
<1> QED  BY <1>3, <1>4, <1>5

\* A timeout moves its number from m_seqTimeouts to m_retxSeqs.
LEMMA TimeoutInv ==
  ASSUME NEW s \in Seqs, ConsumerInv, Consumer_OnTimeout(s)
  PROVE  ConsumerInv'
<1> USE DEF ConsumerInv
<1>1. s \in Outstanding
  BY DEF Consumer_OnTimeout, IsOldest
<1>2. m_seqTimeouts' \in [Seqs -> Nat] /\ Outstanding' = Outstanding \ {s}
  BY DEF ConsumerTypeOK, Consumer_OnTimeout, Erase, Outstanding
<1>3. ConsumerTypeOK'
  BY <1>2, Zenon DEF ConsumerTypeOK, Consumer_OnTimeout, SentSeq
<1>4. NoSeqLost' /\ OnlyRequested'
  BY <1>1, <1>2 DEF ConsumerTypeOK, NoSeqLost, OnlyRequested, Consumer_OnTimeout
<1>5. KarnRule'
  BY <1>1, <1>2 DEF ConsumerTypeOK, KarnRule, Consumer_OnTimeout, SentSeq
<1> QED  BY <1>3, <1>4, <1>5

-----------------------------------------------------------------------------
(* The consumer                                                            *)

\* What is preserved by every step: the base class's invariant and NoStall.
IInv == TypeOK /\ ConsumerInv /\ NoStall

\* Scheduling leaves one event pending, named by m_sendEvent.
LEMMA ScheduleKeepsAwake ==
  ASSUME NEW w \in Nat, NEW f \in Nat, NEW e \in BOOLEAN, NEW o \in Nat,
         ScheduleNextPacket(w, f, e, o)
  PROVE  m_sendEvent' = TRUE /\ orphans' \in Nat
BY DEF ScheduleNextPacket, Orphaned

\* Each action of the consumer preserves the base class's invariant.
LEMMA NextConsumerInv == ConsumerInv /\ [Next]_vars => ConsumerInv'
<1> SUFFICES ASSUME ConsumerInv, [Next]_vars PROVE ConsumerInv'
  OBVIOUS
<1>1. CASE StartApplication
  BY <1>1, IdleInv DEF StartApplication
<1>2. CASE StopApplication
  BY <1>2, IdleInv DEF StopApplication
<1>3. CASE SendPacket
  BY <1>3, SendInv, SeqMaxAssumption DEF SendPacket
<1>4. CASE SendPacketReturns
  BY <1>4, IdleInv DEF SendPacketReturns
<1>5. CASE OnRsr
  BY <1>5, IdleInv DEF OnRsr
<1>6. ASSUME NEW s \in Seqs, OnData(s) PROVE ConsumerInv'
  BY <1>6, DataInv DEF OnData
<1>7. ASSUME NEW s \in Seqs, OnTimeout(s) PROVE ConsumerInv'
  BY <1>7, TimeoutInv DEF OnTimeout
<1>8. ASSUME NEW s \in Seqs, Network(s) PROVE ConsumerInv'
  BY <1>8, IdleInv DEF Network
<1>9. CASE UNCHANGED vars
  BY <1>9, IdleInv DEF vars
<1> QED BY <1>1, <1>2, <1>3, <1>4, <1>5, <1>6, <1>7, <1>8, <1>9 DEF Next

\* Each action preserves the types of the window and of the pending events.
LEMMA NextTypeOK == TypeOK /\ ConsumerTypeOK' /\ [Next]_vars => TypeOK'
<1> SUFFICES ASSUME TypeOK, ConsumerTypeOK', [Next]_vars PROVE TypeOK'
  OBVIOUS
<1> USE WindowAssumption DEF TypeOK
<1>1. CASE StartApplication
  BY <1>1 DEF StartApplication, ScheduleNextPacket, Orphaned
<1>2. CASE StopApplication
  BY <1>2, Zenon DEF StopApplication
<1>3. CASE SendPacket
  BY <1>3 DEF SendPacket, Fire, ScheduleNextPacket, Orphaned
<1>4. CASE SendPacketReturns
  BY <1>4 DEF SendPacketReturns, Fire
<1>5. CASE OnRsr
  BY <1>5 DEF OnRsr, ScheduleNextPacket, Orphaned
<1>6. ASSUME NEW s \in Seqs, OnData(s) PROVE TypeOK'
  <2>1. CASE m_window < WindowCap
    <3>1. m_window' \in Nat /\ m_inFlight' \in Nat
      BY <1>6, <2>1 DEF OnData, Decrement
    <3>2. /\ ScheduleNextPacket(m_window', m_inFlight', m_sendEvent, orphans)
          /\ rsrs' = rsrs
      BY <1>6, <2>1 DEF OnData
    <3> QED BY <3>1, <3>2, ScheduleKeepsAwake, Zenon
  <2>2. CASE m_window >= WindowCap
    BY <1>6, <2>2 DEF OnData
  <2> QED BY <2>1, <2>2
<1>7. ASSUME NEW s \in Seqs, OnTimeout(s) PROVE TypeOK'
  <2>1. 1 \div 3 = 0
    OBVIOUS
  <2>2. m_window' \in Nat
    BY <1>7, <2>1 DEF OnTimeout, WindowAfterTimeout
  <2>3. m_inFlight' \in Nat
    BY <1>7 DEF OnTimeout, Decrement
  <2> QED BY <1>7, <2>2, <2>3 DEF OnTimeout, ScheduleNextPacket, Orphaned
<1>8. ASSUME NEW s \in Seqs, Network(s) PROVE TypeOK'
  BY <1>8 DEF Network
<1>9. CASE UNCHANGED vars
  BY <1>9 DEF vars
<1> QED BY <1>1, <1>2, <1>3, <1>4, <1>5, <1>6, <1>7, <1>8, <1>9 DEF Next

\* No action leaves a running consumer with work and without an event.
LEMMA NextNoStall == TypeOK /\ NoStall /\ [Next]_vars => NoStall'
<1> SUFFICES ASSUME TypeOK, NoStall, [Next]_vars PROVE NoStall'
  OBVIOUS
<1> USE DEF NoStall
<1>1. CASE StartApplication
  BY <1>1 DEF StartApplication, ScheduleNextPacket
<1>2. CASE StopApplication
  BY <1>2 DEF StopApplication, App_StopApplication
<1>3. CASE SendPacket
  BY <1>3 DEF SendPacket, ScheduleNextPacket
<1>4. CASE SendPacketReturns
  BY <1>4, SeqMaxAssumption
     DEF SendPacketReturns, NothingToSend, consumerVars, TypeOK, ConsumerTypeOK
<1>5. CASE OnRsr
  BY <1>5 DEF OnRsr, ScheduleNextPacket
<1>6. ASSUME NEW s \in Seqs, OnData(s) PROVE NoStall'
  BY <1>6 DEF OnData, Consumer_OnData, ScheduleNextPacket
<1>7. ASSUME NEW s \in Seqs, OnTimeout(s) PROVE NoStall'
  BY <1>7 DEF OnTimeout, ScheduleNextPacket
<1>8. ASSUME NEW s \in Seqs, Network(s) PROVE NoStall'
  BY <1>8 DEF Network, Answer, Lose
<1>9. CASE UNCHANGED vars
  BY <1>9 DEF vars, consumerVars
<1> QED BY <1>1, <1>2, <1>3, <1>4, <1>5, <1>6, <1>7, <1>8, <1>9 DEF Next

\* The initial states satisfy the inductive invariant.
LEMMA InitIInv == Init => IInv
<1> SUFFICES ASSUME Init PROVE IInv
  OBVIOUS
<1>1. ConsumerInv
  BY InitInv DEF Init
<1>2. TypeOK
  BY <1>1, WindowAssumption, Zenon DEF Init, TypeOK, ConsumerInv
<1>3. NoStall
  BY DEF Init, ConsumerInit, NoStall
<1> QED BY <1>1, <1>2, <1>3 DEF IInv

\* The conjunction is an invariant of the specification.
THEOREM Invariance == Spec => []IInv
<1>1. IInv /\ [Next]_vars => IInv'
  BY NextConsumerInv, NextTypeOK, NextNoStall DEF IInv, ConsumerInv
<1> QED BY InitIInv, <1>1, PTL DEF Spec

\* Every variable keeps its type.
THEOREM TypeCorrect == Spec => []TypeOK
BY Invariance, PTL DEF IInv

\* No sequence number is lost or tracked twice.
THEOREM NoSeqLostHolds == Spec => []NoSeqLost
BY Invariance, PTL DEF IInv, ConsumerInv

\* The RTT estimator never samples a retransmitted Interest.
THEOREM KarnRuleHolds == Spec => []KarnRule
BY Invariance, PTL DEF IInv, ConsumerInv

\* A running consumer with work to do always has an event pending.
THEOREM NoStallHolds == Spec => []NoStall
BY Invariance, PTL DEF IInv

\* What was received is never requested again: an Interest is sent only for a
\* number of m_retxSeqs or a new one, and NoSeqLost keeps both apart from
\* received.
THEOREM NoResendHolds == Spec => NoResend
<1>1. ConsumerInv /\ [Next]_vars
        => [\A s \in received : s \in pit' => s \in pit]_vars
  <2> SUFFICES ASSUME ConsumerInv, Next, NEW s \in received, s \in pit'
               PROVE  s \in pit
    OBVIOUS
  <2>1. CASE SendPacket
    BY <2>1 DEF SendPacket, SendNextSeq, SendAgain, SendNew, ConsumerInv, ConsumerTypeOK, NoSeqLost
  <2>2. CASE ~SendPacket
    BY <2>2, Zenon DEF Next, StartApplication, App_StartApplication, StopApplication,
       App_StopApplication, SendPacketReturns, OnRsr, OnData, Consumer_OnData,
       OnTimeout, Consumer_OnTimeout, Network, Answer, Lose, consumerVars
  <2> QED BY <2>1, <2>2
<1> QED BY Invariance, <1>1, PTL DEF Spec, IInv, NoResend

=============================================================================
