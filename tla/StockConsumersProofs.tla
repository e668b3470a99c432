------------------------ MODULE StockConsumersProofs ------------------------
(***************************************************************************)
(* For every number of packets and every window: the consumers of ndnSIM   *)
(* have at most one SendPacket event, never count too many packets in      *)
(* flight and never stall.                                                 *)
(*                                                                         *)
(* First the operations of the base class, whatever the concrete consumer  *)
(* adds to them.  The types, the bookkeeping of sequence numbers           *)
(* (NoSeqLost) and that of the RTT estimator (KarnRule) are proved         *)
(* separately: a consumer that chooses its numbers at random gives up the  *)
(* first, one that clears the history gives up the second.                 *)
(***************************************************************************)
EXTENDS StockConsumers, TLAPS, FiniteSetTheorems

-----------------------------------------------------------------------------
(* The base class                                                          *)

\* Insert keeps the container well typed and adds exactly s to it.
LEMMA InsertAdds ==
  ASSUME NEW r \in [Seqs -> Nat], NEW s \in Seqs
  PROVE  /\ Insert(r, s) \in [Seqs -> Nat]
         /\ \A x \in Seqs : Insert(r, s)[x] > 0 <=> x = s \/ r[x] > 0
BY DEF Insert

\* Erase keeps the container well typed and removes exactly s from it.
LEMMA EraseRemoves ==
  ASSUME NEW r \in [Seqs -> Nat], NEW s \in Seqs
  PROVE  /\ Erase(r, s) \in [Seqs -> Nat]
         /\ \A x \in Seqs : Erase(r, s)[x] > 0 <=> x # s /\ r[x] > 0
BY DEF Erase

\* A fresh consumer satisfies the invariant.
LEMMA InitInv == ConsumerInit => ConsumerInv
BY SeqMaxAssumption DEF ConsumerInit, ConsumerInv, ConsumerTypeOK, NoSeqLost,
   KarnRule, OnlyRequested, Outstanding, Seqs

\* An operation that leaves the bookkeeping alone preserves the invariant.
LEMMA IdleInv ==
  ConsumerInv /\ (\/ UNCHANGED consumerVars
                  \/ App_StartApplication
                  \/ App_StopApplication
                  \/ \E s \in Seqs : Answer(s) \/ Lose(s)) => ConsumerInv'
BY DEF ConsumerInv, ConsumerTypeOK, NoSeqLost, KarnRule, OnlyRequested, Outstanding,
   consumerVars, App_StartApplication, App_StopApplication, Answer, Lose

\* Bookkeeping of sequence numbers.
BookInv == NoSeqLost /\ OnlyRequested

\* What waits for Data does not wait to be sent again.
Separate == Outstanding \cap m_retxSeqs = {}

\* s is sent: taken from m_retxSeqs, or new when that is empty.
SendStep(s) ==
  /\ s \in m_retxSeqs => m_seq' = m_seq
  /\ s \notin m_retxSeqs => m_retxSeqs = {} /\ m_seq < SeqMax /\ m_seq' = m_seq + 1
  /\ m_retxSeqs' = m_retxSeqs \ {s}
  /\ WillSendOutInterest(s)
  /\ pit' = pit \cup {s}
  /\ UNCHANGED <<m_active, received, arriving>>

LEMMA SendTypes ==
  ASSUME ConsumerTypeOK, NEW s \in Seqs, SendStep(s)
  PROVE  ConsumerTypeOK' /\ Outstanding' = Outstanding \cup {s}
<1>1. /\ m_seqTimeouts' \in [Seqs -> Nat]
      /\ Outstanding' = Outstanding \cup {s}
  BY InsertAdds DEF ConsumerTypeOK, SendStep, WillSendOutInterest, Outstanding
<1>2. m_history' \in [Seqs -> {"none", "sample", "retx"}]
  BY DEF ConsumerTypeOK, SendStep, WillSendOutInterest, SentSeq
<1>3. m_seqRetxCounts' \in [Seqs -> {0, 1, 2}]
  BY DEF ConsumerTypeOK, SendStep, WillSendOutInterest
<1>4. m_seq' \in 0 .. SeqMax
  BY SeqMaxAssumption DEF ConsumerTypeOK, SendStep
<1>5. m_retxSeqs' \in SUBSET Seqs /\ pit' \in SUBSET Seqs
  BY DEF ConsumerTypeOK, SendStep
<1> QED BY <1>1, <1>2, <1>3, <1>4, <1>5 DEF ConsumerTypeOK, SendStep

LEMMA SendBook ==
  ASSUME ConsumerTypeOK, BookInv, NEW s \in Seqs, SendStep(s),
         s \notin m_retxSeqs => s = m_seq
  PROVE  BookInv'
<1>1. s \notin Outstanding /\ s \notin received
  BY DEF BookInv, ConsumerTypeOK, NoSeqLost, Seqs
<1>2. Outstanding' = Outstanding \cup {s}
  BY SendTypes
<1>3. NoSeqLost'
  BY <1>1, <1>2, SeqMaxAssumption DEF BookInv, ConsumerTypeOK, NoSeqLost, SendStep, Seqs
<1>4. OnlyRequested'
  BY SeqMaxAssumption
     DEF BookInv, ConsumerTypeOK, OnlyRequested, NoSeqLost, SendStep, Seqs
<1> QED BY <1>3, <1>4 DEF BookInv

LEMMA SendKarn ==
  ASSUME ConsumerTypeOK, KarnRule, Separate, NEW s \in Seqs, SendStep(s)
  PROVE  KarnRule' /\ Separate'
<1>1. Outstanding' = Outstanding \cup {s} /\ m_retxSeqs' = m_retxSeqs \ {s}
  BY SendTypes DEF SendStep
<1>2. KarnRule'
  BY <1>1 DEF ConsumerTypeOK, KarnRule, Separate, SendStep, WillSendOutInterest, SentSeq
<1> QED BY <1>1, <1>2 DEF Separate

\* The number SendPacket sends.
LEMMA SendPicks ==
  ASSUME ConsumerTypeOK, NEW seqMax \in 0 .. SeqMax, SendNextSeq(seqMax)
  PROVE  \E s \in Seqs : SendStep(s) /\ (s \notin m_retxSeqs => s = m_seq)
<1>1. CASE SendAgain
  <2>1. PICK s \in m_retxSeqs : /\ m_retxSeqs' = m_retxSeqs \ {s} /\ m_seq' = m_seq
                                /\ WillSendOutInterest(s) /\ pit' = pit \cup {s}
    BY <1>1 DEF SendAgain
  <2>2. s \in Seqs
    BY DEF ConsumerTypeOK
  <2> QED BY <2>1, <2>2 DEF SendNextSeq, SendStep
<1>2. CASE SendNew(m_seq, seqMax)
  <2>1. m_seq \in Seqs /\ m_seq < SeqMax
    BY <1>2, SeqMaxAssumption DEF SendNew, ConsumerTypeOK, Seqs
  <2> QED BY <1>2, <2>1 DEF SendNew, SendNextSeq, SendStep
<1> QED BY <1>1, <1>2 DEF SendNextSeq

\* Sending a number that is neither outstanding nor received, be it new or
\* taken from m_retxSeqs, preserves the invariant.
LEMMA SendInv ==
  ASSUME ConsumerInv, NEW seqMax \in 0 .. SeqMax, SendNextSeq(seqMax)
  PROVE  ConsumerInv'
<1>1. PICK s \in Seqs : SendStep(s) /\ (s \notin m_retxSeqs => s = m_seq)
  BY SendPicks DEF ConsumerInv
<1>2. ConsumerTypeOK /\ BookInv /\ KarnRule /\ Separate
  BY DEF ConsumerInv, BookInv, NoSeqLost, Separate
<1> QED BY <1>1, <1>2, SendTypes, SendBook, SendKarn DEF ConsumerInv, BookInv

LEMMA DataTypes ==
  ASSUME ConsumerTypeOK, NEW s \in Seqs, Consumer_OnData(s)
  PROVE  ConsumerTypeOK'
<1>1. m_seqTimeouts' \in [Seqs -> Nat]
  BY EraseRemoves DEF ConsumerTypeOK, Consumer_OnData
<1>2. m_history' \in [Seqs -> {"none", "sample", "retx"}]
  BY DEF ConsumerTypeOK, Consumer_OnData
<1>3. m_seqRetxCounts' \in [Seqs -> {0, 1, 2}]
  BY DEF ConsumerTypeOK, Consumer_OnData
<1> QED BY <1>1, <1>2, <1>3 DEF ConsumerTypeOK, Consumer_OnData

LEMMA DataErases ==
  ASSUME ConsumerTypeOK, NEW s \in Seqs, Consumer_OnData(s)
  PROVE  Outstanding' = IF m_active = "running" THEN Outstanding \ {s} ELSE Outstanding
BY EraseRemoves DEF ConsumerTypeOK, Consumer_OnData, Outstanding

LEMMA DataBook ==
  ASSUME ConsumerTypeOK, BookInv, NEW s \in Seqs, Consumer_OnData(s)
  PROVE  BookInv'
<1>1. s < m_seq /\ OnlyRequested'
  BY DEF BookInv, OnlyRequested, Consumer_OnData
<1>2. NoSeqLost'
  BY <1>1, DataErases DEF BookInv, ConsumerTypeOK, NoSeqLost, Consumer_OnData
<1> QED BY <1>1, <1>2 DEF BookInv

LEMMA DataKarn ==
  ASSUME ConsumerTypeOK, KarnRule, Separate, NEW s \in Seqs, Consumer_OnData(s)
  PROVE  KarnRule' /\ Separate'
<1>1. KarnRule'
  BY DataErases DEF ConsumerTypeOK, KarnRule, Consumer_OnData
<1>2. Separate'
  BY DataErases DEF Separate, Consumer_OnData
<1> QED BY <1>1, <1>2

\* Data that reaches a running consumer takes its number out of every
\* container and only that number; Data after the stop changes nothing.
LEMMA DataInv ==
  ASSUME NEW s \in Seqs, ConsumerInv, Consumer_OnData(s)
  PROVE  ConsumerInv'
<1>1. ConsumerTypeOK /\ BookInv /\ KarnRule /\ Separate
  BY DEF ConsumerInv, BookInv, NoSeqLost, Separate
<1> QED BY <1>1, DataTypes, DataBook, DataKarn DEF ConsumerInv, BookInv

LEMMA TimeoutTypes ==
  ASSUME ConsumerTypeOK, NEW s \in Seqs, Consumer_OnTimeout(s)
  PROVE  ConsumerTypeOK' /\ s \in Outstanding /\ Outstanding' = Outstanding \ {s}
<1>1. s \in Outstanding
  BY DEF Consumer_OnTimeout, IsOldest
<1>2. /\ m_seqTimeouts' \in [Seqs -> Nat]
      /\ Outstanding' = Outstanding \ {s}
  BY EraseRemoves DEF ConsumerTypeOK, Consumer_OnTimeout, Outstanding
<1>3. ConsumerTypeOK'
  BY <1>2, Zenon DEF ConsumerTypeOK, Consumer_OnTimeout, SentSeq
<1> QED BY <1>1, <1>2, <1>3

LEMMA TimeoutBook ==
  ASSUME ConsumerTypeOK, BookInv, NEW s \in Seqs, Consumer_OnTimeout(s)
  PROVE  BookInv'
<1>1. s \in Outstanding /\ Outstanding' = Outstanding \ {s}
  BY TimeoutTypes
<1>2. NoSeqLost'
  BY <1>1 DEF BookInv, ConsumerTypeOK, NoSeqLost, Consumer_OnTimeout
<1>3. OnlyRequested'
  BY DEF BookInv, OnlyRequested, Consumer_OnTimeout
<1> QED BY <1>2, <1>3 DEF BookInv

LEMMA TimeoutKarn ==
  ASSUME ConsumerTypeOK, KarnRule, Separate, NEW s \in Seqs, Consumer_OnTimeout(s)
  PROVE  KarnRule' /\ Separate'
<1>1. s \in Outstanding /\ Outstanding' = Outstanding \ {s}
  BY TimeoutTypes
<1>2. m_history[s] # "none"
  BY <1>1 DEF KarnRule
<1>3. KarnRule'
  BY <1>1, <1>2 DEF ConsumerTypeOK, KarnRule, Consumer_OnTimeout, SentSeq
<1>4. Separate'
  BY <1>1 DEF Separate, Consumer_OnTimeout
<1> QED BY <1>3, <1>4

\* A timeout moves its number from m_seqTimeouts to m_retxSeqs.
LEMMA TimeoutInv ==
  ASSUME NEW s \in Seqs, ConsumerInv, Consumer_OnTimeout(s)
  PROVE  ConsumerInv'
<1>1. ConsumerTypeOK /\ BookInv /\ KarnRule /\ Separate
  BY DEF ConsumerInv, BookInv, NoSeqLost, Separate
<1> QED BY <1>1, TimeoutTypes, TimeoutBook, TimeoutKarn DEF ConsumerInv, BookInv

-----------------------------------------------------------------------------
(* The consumers of ndnSIM                                                 *)

\* Why nothing is scheduled although there is something to request.
WindowFull == kind = "window" /\ m_window > 0 /\ m_inFlight >= m_window

Awake ==
  m_active = "running" /\ (m_retxSeqs # {} \/ m_seq < m_seqMax)
    => m_sendEvent \/ WindowFull

\* The first event of ConsumerCbr finds no other.
FirstIsAlone == kind \in {"cbr", "zipf"} /\ m_firstTime => ~m_sendEvent

IInv ==
  /\ TypeOK
  /\ OneSendEvent
  /\ FirstIsAlone
  /\ InFlightIsReal
  /\ kind # "window" => m_inFlight = 0
  /\ Awake
  /\ kind # "zipf" => BookInv
  /\ kind # "batches" => KarnRule /\ Separate

-----------------------------------------------------------------------------
LEMMA OutstandingFinite ==
  /\ IsFiniteSet(Outstanding) /\ Cardinality(Outstanding) \in Nat
  /\ Outstanding \subseteq Seqs
<1>1. IsFiniteSet(Seqs)
  BY FS_Interval, SeqMaxAssumption DEF Seqs
<1>2. Outstanding \in SUBSET Seqs
  BY DEF Outstanding
<1>3. IsFiniteSet(Outstanding)
  BY <1>1, <1>2, FS_Subset
<1> QED BY <1>2, <1>3, FS_CardinalityType

\* What ScheduleNextPacket leaves behind.
LEMMA Scheduled ==
  ASSUME kind \in {"window", "cbr", "zipf", "batches"}, kind' = kind,
         NEW w \in Nat, NEW f \in Nat, NEW e \in BOOLEAN,
         OneSendEvent, FirstIsAlone, e => m_sendEvent, m_firstTime \in BOOLEAN,
         ScheduleNextPacket(w, f, e)
  PROVE  /\ m_sendEvent' \in BOOLEAN /\ m_firstTime' \in BOOLEAN
         /\ OneSendEvent' /\ FirstIsAlone'
         /\ m_sendEvent' \/ (kind = "window" /\ w > 0 /\ f >= w)
<1>1. CASE kind = "window" /\ Window_ScheduleNextPacket(w, f, e)
  <2>1. m_sendEvent' = (e \/ w = 0 \/ f < w) /\ orphans' = orphans /\ m_firstTime' = m_firstTime
    BY <1>1 DEF Window_ScheduleNextPacket
  <2>2. m_sendEvent' \in BOOLEAN
    BY <2>1, Zenon
  <2>3. m_sendEvent' \/ (w > 0 /\ f >= w)
    <3>1. (w = 0 \/ f < w) \/ (w > 0 /\ f >= w)
      OBVIOUS
    <3> QED BY <2>1, <3>1, Zenon
  <2>4. OneSendEvent' /\ FirstIsAlone' /\ m_firstTime' \in BOOLEAN
    BY <1>1, <2>1 DEF OneSendEvent, FirstIsAlone
  <2> QED BY <1>1, <2>2, <2>3, <2>4
<1>2. CASE kind \in {"cbr", "zipf"} /\ Cbr_ScheduleNextPacket(e)
  BY ZenonT(60), <1>2 DEF Cbr_ScheduleNextPacket, OneSendEvent, FirstIsAlone
<1>3. CASE kind = "batches" /\ Batches_ScheduleNextPacket(e)
  BY <1>3 DEF Batches_ScheduleNextPacket, OneSendEvent, FirstIsAlone
<1> QED BY <1>1, <1>2, <1>3 DEF ScheduleNextPacket

\* The number SendPacket sends, of any consumer.
LEMMA Picks ==
  ASSUME TypeOK, IF kind = "zipf" THEN SendRandomSeq ELSE SendNextSeq(m_seqMax)
  PROVE  /\ \E s \in Seqs : SendStep(s) /\ (kind # "zipf" /\ s \notin m_retxSeqs => s = m_seq)
         /\ m_seq' <= m_seqMax
<1>1. m_seqMax \in 0 .. SeqMax /\ m_seq \in Nat /\ m_seq <= m_seqMax /\ ConsumerTypeOK
  BY SeqMaxAssumption DEF TypeOK, ConsumerTypeOK
<1>2. m_seq' <= m_seqMax
  BY <1>1 DEF SendRandomSeq, SendNextSeq, SendAgain, SendNew
<1>3. CASE kind # "zipf"
  BY <1>1, <1>2, <1>3, SendPicks
<1>4. CASE kind = "zipf"
  <2>1. CASE SendAgain
    <3>1. PICK s \in m_retxSeqs : /\ m_retxSeqs' = m_retxSeqs \ {s} /\ m_seq' = m_seq
                                  /\ WillSendOutInterest(s) /\ pit' = pit \cup {s}
      BY <2>1 DEF SendAgain
    <3>2. s \in Seqs
      BY <1>1 DEF ConsumerTypeOK
    <3> QED BY <1>2, <1>4, <3>1, <3>2 DEF SendRandomSeq, SendStep
  <2>2. CASE \E s \in Seqs : SendNew(s, m_seqMax)
    <3>1. PICK s \in Seqs : SendNew(s, m_seqMax)
      BY <2>2
    <3>2. m_seq < SeqMax
      BY <1>1, <3>1, SeqMaxAssumption DEF SendNew
    <3>3. SendStep(s)
      BY <1>4, <3>1, <3>2 DEF SendNew, SendRandomSeq, SendStep
    <3> QED BY <1>2, <1>4, <3>3
  <2> QED BY <1>4, <2>1, <2>2 DEF SendRandomSeq
<1> QED BY <1>3, <1>4

\* A step that touches neither the bookkeeping nor the attributes.
LEMMA BaseStays ==
  ASSUME IInv, ConsumerTypeOK', UNCHANGED attributes,
         UNCHANGED <<m_seqTimeouts, m_retxSeqs, received, m_seq, m_history, m_seqRetxCounts>>,
         pit' \cup arriving' \subseteq pit \cup arriving
  PROVE  /\ kind' # "zipf" => BookInv'
         /\ kind' # "batches" => KarnRule' /\ Separate'
         /\ Outstanding' = Outstanding
BY DEF IInv, BookInv, NoSeqLost, OnlyRequested, KarnRule, Separate, Outstanding, attributes

LEMMA InitIInv == Init => IInv
<1> SUFFICES ASSUME Init PROVE IInv
  OBVIOUS
<1>1. ConsumerInv
  BY InitInv DEF Init
<1>2. BookInv /\ KarnRule /\ Separate /\ ConsumerTypeOK
  BY <1>1 DEF ConsumerInv, BookInv, NoSeqLost, Separate
<1>3. TypeOK
  <2>1. m_seq = 0 /\ MaxWindow \in Nat
    BY SeqMaxAssumption DEF Init, ConsumerInit, MaxWindow
  <2>2. m_seqMax \in m_seq .. SeqMax
    BY <2>1, SeqMaxAssumption DEF Init
  <2>3. m_initialWindow \in 0 .. MaxWindow
    <3>1. m_initialWindow \in InitialWindows \/ m_initialWindow = 0
      BY DEF Init
    <3>2. 0 \in 0 .. MaxWindow /\ InitialWindows \subseteq 0 .. MaxWindow
      BY <2>1, KindsAssumption
    <3> HIDE DEF MaxWindow
    <3> QED BY <3>1, <3>2, Zenon
  <2>4. m_setInitialWindowOnTimeout \in BOOLEAN
    BY Zenon DEF Init
  <2> QED BY ZenonT(60), <1>2, <2>2, <2>3, <2>4 DEF Init, TypeOK
<1>4. InFlightIsReal
  BY OutstandingFinite DEF Init, InFlightIsReal
<1>5. OneSendEvent /\ FirstIsAlone /\ Awake /\ m_inFlight = 0
  BY DEF Init, ConsumerInit, OneSendEvent, FirstIsAlone, Awake
<1> QED BY <1>2, <1>3, <1>4, <1>5 DEF IInv

\* What the invariant says of the window and the event.
LEMMA Types ==
  ASSUME IInv
  PROVE  /\ ConsumerTypeOK /\ kind \in {"window", "cbr", "zipf", "batches"}
         /\ m_window \in Nat /\ m_inFlight \in Nat /\ m_sendEvent \in BOOLEAN
         /\ m_firstTime \in BOOLEAN /\ MaxWindow \in Nat /\ m_window <= MaxWindow
         /\ m_initialWindow \in Nat /\ m_initialWindow <= MaxWindow
         /\ m_seq \in Nat /\ m_seqMax \in Nat /\ m_seq <= m_seqMax /\ m_seqMax <= SeqMax
<1>1. MaxWindow \in Nat
  BY SeqMaxAssumption DEF MaxWindow
<1>2. ConsumerTypeOK /\ m_seq \in Nat
  BY SeqMaxAssumption DEF IInv, TypeOK, ConsumerTypeOK
<1> QED BY <1>1, <1>2, KindsAssumption, SeqMaxAssumption DEF IInv, TypeOK

LEMMA StartInv ==
  ASSUME IInv, StartApplication
  PROVE  IInv'
<1>1. ConsumerTypeOK'
  BY DEF StartApplication, App_StartApplication, IInv, TypeOK, ConsumerTypeOK
<1>2. /\ kind' # "zipf" => BookInv'
      /\ kind' # "batches" => KarnRule' /\ Separate'
      /\ Outstanding' = Outstanding
  BY <1>1, BaseStays DEF StartApplication, App_StartApplication
<1>3. /\ m_sendEvent' \in BOOLEAN /\ m_firstTime' \in BOOLEAN
      /\ OneSendEvent' /\ FirstIsAlone'
      /\ m_sendEvent' \/ (kind = "window" /\ m_window > 0 /\ m_inFlight >= m_window)
  BY Types, Scheduled DEF StartApplication, attributes, IInv
<1>4. /\ UNCHANGED attributes
      /\ UNCHANGED <<m_seqMax, m_window, m_inFlight, m_seq, m_retxSeqs>>
  BY DEF StartApplication, App_StartApplication
<1>5. TypeOK'
  BY <1>1, <1>3, <1>4 DEF IInv, TypeOK, attributes, OneSendEvent
<1>6. Awake'
  BY <1>3, <1>4 DEF Awake, WindowFull, attributes
<1> QED BY <1>2, <1>3, <1>4, <1>5, <1>6 DEF IInv, InFlightIsReal, attributes

LEMMA StopInv ==
  ASSUME IInv, StopApplication
  PROVE  IInv'
<1>1. ConsumerTypeOK'
  BY DEF StopApplication, App_StopApplication, IInv, TypeOK, ConsumerTypeOK
<1>2. /\ kind' # "zipf" => BookInv'
      /\ kind' # "batches" => KarnRule' /\ Separate'
      /\ Outstanding' = Outstanding
  BY <1>1, BaseStays DEF StopApplication, App_StopApplication
<1>3. TypeOK'
  BY ZenonT(60), <1>1 DEF StopApplication, App_StopApplication, IInv, TypeOK, attributes
<1>4. OneSendEvent' /\ FirstIsAlone' /\ Awake'
  BY DEF StopApplication, App_StopApplication, IInv, OneSendEvent, FirstIsAlone, Awake
<1> QED BY <1>2, <1>3, <1>4 DEF IInv, InFlightIsReal, StopApplication, attributes

LEMMA SendPacketInv ==
  ASSUME IInv, SendPacket
  PROVE  IInv'
<1>1. PICK s \in Seqs : SendStep(s) /\ (kind # "zipf" /\ s \notin m_retxSeqs => s = m_seq)
  BY Picks DEF IInv, SendPacket
<1>2. m_seq' <= m_seqMax
  BY Picks DEF IInv, SendPacket
<1>3. ConsumerTypeOK' /\ Outstanding' = Outstanding \cup {s}
  BY <1>1, Types, SendTypes
<1>4. UNCHANGED attributes /\ UNCHANGED <<m_seqMax, m_window>>
      /\ kind' = kind
  BY DEF SendPacket, attributes
<1>5. kind # "zipf" => BookInv'
  BY <1>1, Types, SendBook DEF IInv
<1>6. kind # "batches" => KarnRule' /\ Separate'
  BY <1>1, Types, SendKarn DEF IInv
<1>7. m_inFlight' \in Nat
  BY Types DEF SendPacket
<1>8. /\ m_sendEvent' \in BOOLEAN /\ m_firstTime' \in BOOLEAN
      /\ OneSendEvent' /\ FirstIsAlone'
      /\ m_sendEvent' \/ (kind = "window" /\ m_window > 0 /\ m_inFlight' >= m_window)
  <2>1. ScheduleNextPacket(m_window, m_inFlight', FALSE)
    BY ZenonT(60) DEF SendPacket
  <2> QED BY ZenonT(60), <1>4, <1>7, <2>1, Types, Scheduled DEF IInv
<1>9. InFlightIsReal'
  <2>1. IsFiniteSet(Outstanding) /\ Cardinality(Outstanding) \in Nat
    BY OutstandingFinite
  <2>2. m_inFlight <= Cardinality(Outstanding)
    BY DEF IInv, InFlightIsReal
  <2>3. CASE kind = "window"
    <3>1. s \notin Outstanding
      BY <1>1, <2>3, Types DEF IInv, BookInv, NoSeqLost, Seqs
    <3>2. Cardinality(Outstanding \cup {s}) = Cardinality(Outstanding) + 1
      BY ZenonT(60), <2>1, <3>1, FS_AddElement
    <3>3. m_inFlight' = m_inFlight + 1
      BY <2>3 DEF SendPacket
    <3> QED BY <1>3, <2>1, <2>2, <3>2, <3>3, Types DEF InFlightIsReal
  <2>4. CASE kind # "window"
    <3>1. m_inFlight' = 0
      BY <2>4 DEF SendPacket, IInv
    <3>2. Cardinality(Outstanding \cup {s}) \in Nat
      BY <2>1, FS_AddElement, FS_CardinalityType
    <3> QED BY <1>3, <3>1, <3>2 DEF InFlightIsReal
  <2> QED BY <2>3, <2>4
<1>10. kind # "window" => m_inFlight' = 0
  BY DEF SendPacket, IInv
<1>11. TypeOK'
  <2>1. m_seqMax' \in m_seq' .. SeqMax
    <3>1. m_seq' \in Nat
      BY <1>3, SeqMaxAssumption DEF ConsumerTypeOK
    <3> QED BY <1>2, <1>4, <3>1, Types, SeqMaxAssumption
  <2> QED BY <1>3, <1>4, <1>7, <1>8, <2>1 DEF IInv, TypeOK, attributes, OneSendEvent
<1>12. Awake'
  BY <1>4, <1>8 DEF Awake, WindowFull
<1> QED BY <1>4, <1>5, <1>6, <1>8, <1>9, <1>10, <1>11, <1>12 DEF IInv

LEMMA ReturnsInv ==
  ASSUME IInv, SendPacketReturns
  PROVE  IInv'
<1>1. UNCHANGED <<consumerVars, attributes, m_seqMax, m_window, m_inFlight, m_firstTime, orphans>>
  BY DEF SendPacketReturns
<1>2. ConsumerTypeOK'
  BY <1>1 DEF IInv, TypeOK, ConsumerTypeOK, consumerVars
<1>3. /\ kind' # "zipf" => BookInv'
      /\ kind' # "batches" => KarnRule' /\ Separate'
      /\ Outstanding' = Outstanding
  BY <1>1, <1>2, BaseStays DEF consumerVars
<1>4. TypeOK'
  BY ZenonT(60), <1>1, <1>2 DEF SendPacketReturns, IInv, TypeOK, attributes, consumerVars
<1>5. OneSendEvent' /\ FirstIsAlone'
  BY <1>1 DEF SendPacketReturns, IInv, OneSendEvent, FirstIsAlone, attributes
<1>6. Awake'
  BY <1>1, Types DEF SendPacketReturns, NothingToSend, Awake, consumerVars
<1> QED BY <1>1, <1>3, <1>4, <1>5, <1>6 DEF IInv, InFlightIsReal, attributes

\* One packet less in flight, at most one number less outstanding.
LEMMA CountedOff ==
  ASSUME IInv, NEW s, Outstanding' \in {Outstanding, Outstanding \ {s}}
  PROVE  /\ Decrement(m_inFlight) \in Nat
         /\ Decrement(m_inFlight) <= Cardinality(Outstanding')
         /\ kind # "window" => m_inFlight <= Cardinality(Outstanding')
<1>1. IsFiniteSet(Outstanding) /\ Cardinality(Outstanding) \in Nat
  BY OutstandingFinite
<1>2. /\ m_inFlight <= Cardinality(Outstanding) /\ m_inFlight \in Nat
      /\ kind # "window" => m_inFlight = 0
  BY Types DEF IInv, InFlightIsReal
<1>3. /\ Cardinality(Outstanding \ {s}) \in Nat
      /\ Cardinality(Outstanding \ {s}) >= Cardinality(Outstanding) - 1
  <2>1. IsFiniteSet(Outstanding \ {s})
        /\ Cardinality(Outstanding \ {s}) =
             IF s \in Outstanding THEN Cardinality(Outstanding) - 1 ELSE Cardinality(Outstanding)
    BY <1>1, FS_RemoveElement
  <2>2. Cardinality(Outstanding \ {s}) \in Nat
    BY <2>1, FS_CardinalityType
  <2> QED BY <1>1, <2>1, <2>2
<1>4. Cardinality(Outstanding') \in Nat
      /\ Cardinality(Outstanding') >= Cardinality(Outstanding) - 1
  BY <1>1, <1>3
<1> QED BY <1>1, <1>2, <1>4 DEF Decrement

LEMMA OnDataInv ==
  ASSUME IInv, NEW s \in Seqs, OnData(s)
  PROVE  IInv'
<1>1. ConsumerTypeOK' /\ Outstanding' \in {Outstanding, Outstanding \ {s}}
  BY Types, DataTypes, DataErases DEF OnData
<1>2. /\ UNCHANGED attributes /\ kind' = kind /\ m_seqMax' = m_seqMax /\ m_seq' = m_seq
      /\ m_active' = m_active /\ m_retxSeqs' \subseteq m_retxSeqs
  BY DEF OnData, Consumer_OnData, attributes
<1>3. kind # "zipf" => BookInv'
  BY Types, DataBook DEF OnData, IInv
<1>4. kind # "batches" => KarnRule' /\ Separate'
  BY Types, DataKarn DEF OnData, IInv
<1>5. CASE kind = "window"
  <2>1. /\ m_window' = IF m_window < MaxWindow THEN m_window + 1 ELSE m_window
        /\ m_inFlight' = Decrement(m_inFlight)
        /\ ScheduleNextPacket(m_window', m_inFlight', m_sendEvent)
    BY <1>5 DEF OnData
  <2>2. m_window' \in Nat /\ m_window' <= MaxWindow
    BY <2>1, Types
  <2>3. m_inFlight' \in Nat /\ InFlightIsReal'
    BY <1>1, <2>1, CountedOff DEF InFlightIsReal
  <2>4. /\ m_sendEvent' \in BOOLEAN /\ m_firstTime' \in BOOLEAN
        /\ OneSendEvent' /\ FirstIsAlone'
        /\ m_sendEvent' \/ (kind = "window" /\ m_window' > 0 /\ m_inFlight' >= m_window')
    BY <1>2, <2>1, <2>2, <2>3, Types, Scheduled DEF IInv
  <2>5. TypeOK'
    <3>1. m_window' \in 0 .. MaxWindow
      BY <2>2, Types
    <3> QED BY <1>1, <1>2, <2>3, <2>4, <3>1 DEF IInv, TypeOK, attributes, OneSendEvent
  <2>6. Awake'
    BY <1>2, <2>4 DEF Awake, WindowFull
  <2> QED BY <1>2, <1>3, <1>4, <1>5, <2>3, <2>4, <2>5, <2>6 DEF IInv
<1>6. CASE kind # "window"
  <2>1. UNCHANGED <<m_window, m_inFlight, m_firstTime, m_sendEvent, orphans>>
    BY <1>6 DEF OnData
  <2>2. InFlightIsReal'
    BY <1>1, <1>6, <2>1, CountedOff DEF InFlightIsReal
  <2>3. TypeOK'
    BY <1>1, <1>2, <2>1 DEF IInv, TypeOK, attributes
  <2>4. OneSendEvent' /\ FirstIsAlone' /\ Awake'
    BY <1>2, <1>6, <2>1 DEF IInv, OneSendEvent, FirstIsAlone, Awake, WindowFull
  <2> QED BY <1>2, <1>3, <1>4, <2>1, <2>2, <2>3, <2>4 DEF IInv
<1> QED BY <1>5, <1>6

LEMMA OnTimeoutInv ==
  ASSUME IInv, NEW s \in Seqs, OnTimeout(s)
  PROVE  IInv'
<1>1. ConsumerTypeOK' /\ Outstanding' = Outstanding \ {s}
  BY Types, TimeoutTypes DEF OnTimeout
<1>2. /\ UNCHANGED attributes /\ kind' = kind /\ m_seqMax' = m_seqMax /\ m_seq' = m_seq
  BY DEF OnTimeout, Consumer_OnTimeout, attributes
<1>3. kind # "zipf" => BookInv'
  BY Types, TimeoutBook DEF OnTimeout, IInv
<1>4. kind # "batches" => KarnRule' /\ Separate'
  BY Types, TimeoutKarn DEF OnTimeout, IInv
<1>5. /\ m_inFlight' = IF kind = "window" THEN Decrement(m_inFlight) ELSE m_inFlight
      /\ m_window' = IF m_setInitialWindowOnTimeout THEN m_initialWindow ELSE m_window
      /\ ScheduleNextPacket(m_window', m_inFlight', m_sendEvent)
  BY DEF OnTimeout
<1>6. m_window' \in Nat /\ m_window' <= MaxWindow
  BY <1>5, Types
<1>7. m_inFlight' \in Nat /\ InFlightIsReal' /\ (kind # "window" => m_inFlight' = 0)
  BY <1>1, <1>5, Types, CountedOff DEF InFlightIsReal, IInv
<1>8. /\ m_sendEvent' \in BOOLEAN /\ m_firstTime' \in BOOLEAN
      /\ OneSendEvent' /\ FirstIsAlone'
      /\ m_sendEvent' \/ (kind = "window" /\ m_window' > 0 /\ m_inFlight' >= m_window')
  BY <1>2, <1>5, <1>6, <1>7, Types, Scheduled DEF IInv
<1>9. TypeOK'
  <2>1. m_window' \in 0 .. MaxWindow
    BY <1>6, Types
  <2> QED BY <1>1, <1>2, <1>7, <1>8, <2>1 DEF IInv, TypeOK, attributes, OneSendEvent
<1>10. Awake'
  BY <1>2, <1>8 DEF Awake, WindowFull
<1> QED BY <1>2, <1>3, <1>4, <1>7, <1>8, <1>9, <1>10 DEF IInv

LEMMA AddBatchInv ==
  ASSUME IInv, NEW amount \in 1 .. SeqMax - m_seqMax, AddBatch(amount)
  PROVE  IInv'
<1>1. /\ UNCHANGED <<m_active, m_seq, m_retxSeqs, m_seqTimeouts, m_seqRetxCounts, received,
                      pit, arriving, m_window, m_inFlight>>
      /\ UNCHANGED attributes /\ kind' = kind /\ kind = "batches"
      /\ m_seqMax' = m_seqMax + amount
      /\ m_history' = [x \in Seqs |-> "none"]
  BY DEF AddBatch, attributes
<1>2. ConsumerTypeOK'
  BY <1>1 DEF IInv, TypeOK, ConsumerTypeOK
<1>3. BookInv' /\ Outstanding' = Outstanding
  BY <1>1 DEF IInv, BookInv, NoSeqLost, OnlyRequested, Outstanding
<1>4. /\ m_sendEvent' \in BOOLEAN /\ m_firstTime' \in BOOLEAN
      /\ OneSendEvent' /\ FirstIsAlone'
      /\ m_sendEvent' \/ (kind = "window" /\ m_window > 0 /\ m_inFlight >= m_window)
  BY <1>1, Types, Scheduled DEF AddBatch, IInv
<1>5. m_seqMax' \in m_seq' .. SeqMax
  BY <1>1, Types, SeqMaxAssumption
<1>6. TypeOK'
  BY <1>1, <1>2, <1>4, <1>5 DEF IInv, TypeOK, attributes, OneSendEvent
<1>7. Awake'
  BY <1>1, <1>4 DEF Awake, WindowFull
<1> QED BY <1>1, <1>3, <1>4, <1>6, <1>7 DEF IInv, InFlightIsReal

LEMMA NetworkStepInv ==
  ASSUME IInv, \/ \E s \in Seqs : Network(s)
               \/ UNCHANGED vars
  PROVE  IInv'
<1>1. /\ UNCHANGED <<m_active, m_seq, m_retxSeqs, m_seqTimeouts, m_history, m_seqRetxCounts,
                      received, attributes, m_seqMax, m_window, m_inFlight, m_firstTime,
                      m_sendEvent, orphans>>
      /\ pit' \cup arriving' \subseteq pit \cup arriving
  BY DEF Network, Answer, Lose, vars, consumerVars
<1>2. ConsumerTypeOK'
  BY <1>1 DEF IInv, TypeOK, ConsumerTypeOK
<1>3. /\ kind' # "zipf" => BookInv'
      /\ kind' # "batches" => KarnRule' /\ Separate'
      /\ Outstanding' = Outstanding
  BY <1>1, <1>2, BaseStays
<1>4. TypeOK'
  BY <1>1, <1>2 DEF IInv, TypeOK, attributes
<1>5. OneSendEvent' /\ FirstIsAlone' /\ Awake'
  BY <1>1 DEF IInv, OneSendEvent, FirstIsAlone, Awake, WindowFull, attributes
<1> QED BY <1>1, <1>3, <1>4, <1>5 DEF IInv, InFlightIsReal, attributes

-----------------------------------------------------------------------------
\* The conjunction is an invariant of the specification.
THEOREM Invariance == Spec => []IInv
<1>1. IInv /\ [Next]_vars => IInv'
  BY StartInv, StopInv, SendPacketInv, ReturnsInv, OnDataInv, OnTimeoutInv, AddBatchInv,
     NetworkStepInv DEF Next
<1> QED BY InitIInv, <1>1, PTL DEF Spec

\* Every variable keeps its type, m_inFlight included: it is decremented only
\* after a test for zero.
THEOREM TypeCorrect == Spec => []TypeOK
BY Invariance, PTL DEF IInv

\* ScheduleNextPacket of each class leaves one pending SendPacket event.
THEOREM OneSendEventHolds == Spec => []OneSendEvent
BY Invariance, PTL DEF IInv

\* m_inFlight of ConsumerWindow never exceeds the size of m_seqTimeouts.
THEOREM InFlightIsRealHolds == Spec => []InFlightIsReal
BY Invariance, PTL DEF IInv

\* No sequence number is lost or tracked twice, although batches release the
\* numbers step by step.
THEOREM KeepsSeqsHolds == Spec => []KeepsSeqs
BY Invariance, PTL DEF IInv, KeepsSeqs, BookInv

\* The RTT estimator samples no retransmission, although a random consumer
\* asks again for what is outstanding.
THEOREM KeepsKarnRuleHolds == Spec => []KeepsKarnRule
BY Invariance, PTL DEF IInv, KeepsKarnRule

\* A full window of ConsumerWindow always has something outstanding whose Data
\* or timeout schedules the next packet.
THEOREM NoStallHolds == Spec => []NoStall
<1>1. IInv => NoStall
  <2> SUFFICES ASSUME IInv, WindowFull PROVE Outstanding # {}
    BY DEF IInv, Awake, NoStall, WindowFull
  <2>1. m_inFlight > 0 /\ m_inFlight <= Cardinality(Outstanding)
    BY Types DEF IInv, WindowFull, InFlightIsReal
  <2>2. Cardinality({}) = 0
    BY FS_EmptySet
  <2> QED BY <2>1, <2>2, Types
<1> QED BY <1>1, Invariance, PTL
=============================================================================
