------------------------------ MODULE Consumer ------------------------------
(***************************************************************************)
(* The base class of the consumer applications (ns3::ndn::Consumer): which *)
(* sequence numbers have been requested, which wait for Data, which wait   *)
(* to be sent again, and what the RTT estimator remembers about them.      *)
(*                                                                         *)
(* A concrete consumer (FullyDistributed, ConsumerWindow, ConsumerCbr,     *)
(* ConsumerBatches) overrides the pure virtual ScheduleNextPacket and adds *)
(* its own window to the operations below; it extends this module.         *)
(*                                                                         *)
(* Time is abstracted: an entry of m_seqTimeouts expires when the retry    *)
(* timer finds it old enough, which may be any moment after it was sent,   *)
(* but always the oldest entry first.                                      *)
(***************************************************************************)
EXTENDS Naturals

CONSTANT SeqMax          \* the number of packets the consumer ever requests

ASSUME SeqMaxAssumption == SeqMax \in Nat

Seqs == 0 .. SeqMax - 1

VARIABLES
  m_active,         \* "idle" before StartApplication, "running", "stopped"
  m_seq,            \* the next sequence number never requested so far
  m_retxSeqs,       \* sequence numbers to be sent again
  m_seqTimeouts,    \* s |-> 0 (absent) or its rank by send time, 1 the newest
  m_history,        \* RTT history: s |-> "none", "sample" or "retx"
  m_seqRetxCounts,  \* s |-> times sent: 0, 1 or 2 (2 stands for 2 and more)
  received,         \* sequence numbers whose Data OnData has processed
  pit,              \* Interests the forwarder of this node has not answered
  arriving          \* Data handed to AppFace::sendData, OnData not yet run

consumerVars == <<m_active, m_seq, m_retxSeqs, m_seqTimeouts, m_history,
                  m_seqRetxCounts, received, pit, arriving>>

ConsumerTypeOK ==
  /\ m_active \in {"idle", "running", "stopped"}
  /\ m_seq \in 0 .. SeqMax
  /\ m_retxSeqs \in SUBSET Seqs
  /\ m_seqTimeouts \in [Seqs -> Nat]
  /\ m_history \in [Seqs -> {"none", "sample", "retx"}]
  /\ m_seqRetxCounts \in [Seqs -> {0, 1, 2}]
  /\ received \in SUBSET Seqs
  /\ pit \in SUBSET Seqs
  /\ arriving \in SUBSET Seqs

ConsumerInit ==
  /\ m_active = "idle"
  /\ m_seq = 0
  /\ m_retxSeqs = {}
  /\ m_seqTimeouts = [s \in Seqs |-> 0]
  /\ m_history = [s \in Seqs |-> "none"]
  /\ m_seqRetxCounts = [s \in Seqs |-> 0]
  /\ received = {}
  /\ pit = {}
  /\ arriving = {}

-----------------------------------------------------------------------------
(* m_seqTimeouts: the multi-index container of (seq, send time) pairs.     *)

Outstanding == {s \in Seqs : m_seqTimeouts[s] > 0}

\* insert(SeqTimeout(s, now)): no effect when s is already there.
Insert(ranks, s) ==
  IF ranks[s] > 0
    THEN ranks
    ELSE [x \in Seqs |-> IF x = s THEN 1
                         ELSE IF ranks[x] > 0 THEN ranks[x] + 1 ELSE 0]

Erase(ranks, s) ==
  [x \in Seqs |-> IF x = s THEN 0
                  ELSE IF ranks[s] > 0 /\ ranks[x] > ranks[s]
                         THEN ranks[x] - 1 ELSE ranks[x]]

\* begin() of the timestamp index.
IsOldest(s) == s \in Outstanding /\ \A x \in Seqs : m_seqTimeouts[x] <= m_seqTimeouts[s]

\* RttMeanDeviation::SentSeq: a known number becomes unusable as a sample.
SentSeq(history, s) ==
  [history EXCEPT ![s] = IF @ = "none" THEN "sample" ELSE "retx"]

-----------------------------------------------------------------------------
(* The operations of the base class, without the scheduling they end with. *)

App_StartApplication ==
  /\ m_active = "idle"
  /\ m_active' = "running"
  /\ UNCHANGED <<m_seq, m_retxSeqs, m_seqTimeouts, m_history, m_seqRetxCounts,
                 received, pit, arriving>>

App_StopApplication ==
  /\ m_active = "running"
  /\ m_active' = "stopped"
  /\ UNCHANGED <<m_seq, m_retxSeqs, m_seqTimeouts, m_history, m_seqRetxCounts,
                 received, pit, arriving>>

\* SendPacket returns without sending: stopped, or nothing left to request.
\* seqMax is m_seqMax of the concrete consumer.
NothingToSend(seqMax) == m_active # "running" \/ (m_retxSeqs = {} /\ m_seq >= seqMax)

WillSendOutInterest(s) ==
  /\ m_seqTimeouts' = Insert(m_seqTimeouts, s)
  /\ m_seqRetxCounts' = [m_seqRetxCounts EXCEPT ![s] = IF @ = 0 THEN 1 ELSE 2]
  /\ m_history' = SentSeq(m_history, s)

\* The smallest number to be sent again goes first, ...
SendAgain ==
  \E s \in m_retxSeqs :
    /\ \A x \in m_retxSeqs : s <= x
    /\ m_retxSeqs' = m_retxSeqs \ {s}
    /\ m_seq' = m_seq
    /\ WillSendOutInterest(s)
    /\ pit' = pit \cup {s}

\* ... then s, which the consumer chooses.
SendNew(s, seqMax) ==
  /\ m_retxSeqs = {} /\ m_seq < seqMax
  /\ m_seq' = m_seq + 1
  /\ m_retxSeqs' = m_retxSeqs
  /\ WillSendOutInterest(s)
  /\ pit' = pit \cup {s}

SendNextSeq(seqMax) ==
  /\ m_active = "running"
  /\ SendAgain \/ SendNew(m_seq, seqMax)
  /\ UNCHANGED <<m_active, received, arriving>>

\* Mutant: Data does not take its number out of m_retxSeqs.
Consumer_OnData_KeepsRetx(s) ==
  /\ s \in arriving
  /\ arriving' = arriving \ {s}
  /\ IF m_active = "running"
       THEN /\ received' = received \cup {s}
            /\ m_seqRetxCounts' = [m_seqRetxCounts EXCEPT ![s] = 0]
            /\ m_seqTimeouts' = Erase(m_seqTimeouts, s)
            /\ m_history' = [m_history EXCEPT ![s] = "none"]
       ELSE UNCHANGED <<received, m_seqRetxCounts, m_seqTimeouts, m_history>>
  /\ UNCHANGED <<m_active, m_seq, m_retxSeqs, pit>>

\* Consumer::OnData ignores Data after StopApplication; a subclass does not.
Consumer_OnData(s) ==
  /\ s \in arriving
  /\ arriving' = arriving \ {s}
  /\ IF m_active = "running"
       THEN /\ received' = received \cup {s}
            /\ m_seqRetxCounts' = [m_seqRetxCounts EXCEPT ![s] = 0]
            /\ m_seqTimeouts' = Erase(m_seqTimeouts, s)
            /\ m_retxSeqs' = m_retxSeqs \ {s}
            /\ m_history' = [m_history EXCEPT ![s] = "none"]
       ELSE UNCHANGED <<received, m_seqRetxCounts, m_seqTimeouts, m_retxSeqs,
                        m_history>>
  /\ UNCHANGED <<m_active, m_seq, pit>>

\* Mutant: the timeout does not put the number into m_retxSeqs.
Consumer_OnTimeout_NoRetx(s) ==
  /\ IsOldest(s)
  /\ m_seqTimeouts' = Erase(m_seqTimeouts, s)
  /\ m_history' = SentSeq(m_history, s)
  /\ UNCHANGED <<m_active, m_seq, m_retxSeqs, m_seqRetxCounts, received, pit, arriving>>

\* Mutant: the timeout does not disable the RTT sample.
Consumer_OnTimeout_KeepsSample(s) ==
  /\ IsOldest(s)
  /\ m_seqTimeouts' = Erase(m_seqTimeouts, s)
  /\ m_retxSeqs' = m_retxSeqs \cup {s}
  /\ UNCHANGED <<m_active, m_seq, m_history, m_seqRetxCounts, received, pit, arriving>>

\* One iteration of the loop of CheckRetxTimeout with Consumer::OnTimeout.
\* The timer keeps running after StopApplication.
Consumer_OnTimeout(s) ==
  /\ IsOldest(s)
  /\ m_seqTimeouts' = Erase(m_seqTimeouts, s)
  /\ m_history' = SentSeq(m_history, s)
  /\ m_retxSeqs' = m_retxSeqs \cup {s}
  /\ UNCHANGED <<m_active, m_seq, m_seqRetxCounts, received, pit, arriving>>

-----------------------------------------------------------------------------
(* The node's forwarder and the network behind it, as the consumer sees    *)
(* them: an Interest is answered once, or expires unanswered.              *)

Answer(s) ==
  /\ s \in pit /\ s \notin arriving
  /\ pit' = pit \ {s}
  /\ arriving' = arriving \cup {s}
  /\ UNCHANGED <<m_active, m_seq, m_retxSeqs, m_seqTimeouts, m_history,
                 m_seqRetxCounts, received>>

Lose(s) ==
  /\ s \in pit
  /\ pit' = pit \ {s}
  /\ UNCHANGED <<m_active, m_seq, m_retxSeqs, m_seqTimeouts, m_history,
                 m_seqRetxCounts, received, arriving>>

-----------------------------------------------------------------------------
(* Properties of the base class, checked for every concrete consumer.      *)

\* Every sequence number requested so far is in exactly one place: its Data
\* was received, or it is in m_seqTimeouts, or it waits in m_retxSeqs.  A
\* number in none of them would never be asked for again; one in two of them
\* would be asked for although its Data is there.
NoSeqLost ==
  /\ \A s \in Seqs : s < m_seq <=>
       (s \in received \/ s \in Outstanding \/ s \in m_retxSeqs)
  /\ received \cap Outstanding = {}
  /\ received \cap m_retxSeqs = {}
  /\ Outstanding \cap m_retxSeqs = {}

\* Karn's rule: a history entry that AckSeq would turn into an RTT sample
\* belongs to an Interest sent exactly once and not timed out since.  The
\* estimator remembers exactly the numbers the consumer still wants.
KarnRule ==
  \A s \in Seqs :
    /\ m_history[s] = "sample" => m_seqRetxCounts[s] = 1 /\ s \in Outstanding
    /\ s \in Outstanding => m_history[s] # "none"
    /\ s \in m_retxSeqs => m_history[s] = "retx"
    /\ s \notin Outstanding \cup m_retxSeqs =>
         m_history[s] = "none" /\ m_seqRetxCounts[s] = 0

\* Only what was requested is answered.
OnlyRequested == \A s \in pit \cup arriving : s < m_seq

\* The inductive invariant of the base class.
ConsumerInv == ConsumerTypeOK /\ NoSeqLost /\ KarnRule /\ OnlyRequested

=============================================================================
