--------------------------- MODULE StockConsumers ---------------------------
(***************************************************************************)
(* The other consumers of ndnSIM over ns3::ndn::Consumer: ConsumerWindow   *)
(* (a window that every Data opens), ConsumerCbr (a constant rate),        *)
(* ConsumerZipfMandelbrot (a constant rate, random numbers) and            *)
(* ConsumerBatches (numbers released in batches).                          *)
(*                                                                         *)
(* They differ in ScheduleNextPacket.  As in FullyDistributed, m_sendEvent *)
(* tells whether the event of that name is pending, and orphans counts the *)
(* pending SendPacket events whose handle was overwritten.                 *)
(***************************************************************************)
EXTENDS Consumer, FiniteSets

CONSTANTS
  Kinds,            \* the classes to consider
  InitialWindows    \* values of the attribute "Window" of ConsumerWindow

\* Windows above SeqMax are taken as one: m_inFlight never reaches them.
MaxWindow == SeqMax + 1

ASSUME KindsAssumption ==
  /\ Kinds \subseteq {"window", "cbr", "zipf", "batches"}
  /\ InitialWindows \subseteq 0 .. MaxWindow

VARIABLES
  kind,           \* the class of the consumer
  m_seqMax,       \* numbers released so far; grows only in ConsumerBatches
  m_initialWindow, m_setInitialWindowOnTimeout,   \* attributes of ConsumerWindow
  m_window,       \* of ConsumerWindow
  m_inFlight,     \* of ConsumerWindow
  m_firstTime,    \* of ConsumerCbr: nothing was scheduled yet
  m_sendEvent,
  orphans

attributes == <<kind, m_initialWindow, m_setInitialWindowOnTimeout>>

vars == <<consumerVars, attributes, m_seqMax, m_window, m_inFlight, m_firstTime,
          m_sendEvent, orphans>>

TypeOK ==
  /\ ConsumerTypeOK
  /\ kind \in Kinds
  /\ m_initialWindow \in 0 .. MaxWindow
  /\ m_setInitialWindowOnTimeout \in BOOLEAN
  /\ m_seqMax \in m_seq .. SeqMax
  /\ m_window \in 0 .. MaxWindow
  /\ m_inFlight \in Nat
  /\ m_firstTime \in BOOLEAN
  /\ m_sendEvent \in BOOLEAN
  /\ orphans \in Nat

Init ==
  /\ ConsumerInit
  /\ kind \in Kinds
  /\ \/ /\ kind = "window"
        /\ m_initialWindow \in InitialWindows
        /\ m_setInitialWindowOnTimeout \in BOOLEAN
     \/ kind # "window" /\ m_initialWindow = 0 /\ m_setInitialWindowOnTimeout = FALSE
  /\ m_seqMax = IF kind = "batches" THEN 0 ELSE SeqMax
  /\ m_window = m_initialWindow
  /\ m_inFlight = 0
  /\ m_firstTime = TRUE
  /\ m_sendEvent = FALSE
  /\ orphans = 0

-----------------------------------------------------------------------------
(* ScheduleNextPacket.  w, f: window and packets in flight; event: whether *)
(* the event that m_sendEvent names is pending.                            *)

\* A full window waits for Data or a timeout; otherwise the new event
\* replaces the old one.
Window_ScheduleNextPacket(w, f, event) ==
  /\ m_sendEvent' = (event \/ w = 0 \/ f < w)
  /\ UNCHANGED <<orphans, m_firstTime>>

\* Mutant: the event is not tested.
Cbr_ScheduleNextPacket_Unchecked(event) ==
  /\ m_sendEvent' = TRUE
  /\ orphans' = IF event THEN orphans + 1 ELSE orphans
  /\ m_firstTime' = FALSE

\* The first call does not look at m_sendEvent.
Cbr_ScheduleNextPacket(event) ==
  /\ m_sendEvent' = TRUE
  /\ orphans' = IF m_firstTime /\ event THEN orphans + 1 ELSE orphans
  /\ m_firstTime' = FALSE

Batches_ScheduleNextPacket(event) ==
  /\ m_sendEvent' = TRUE
  /\ UNCHANGED <<orphans, m_firstTime>>

ScheduleNextPacket(w, f, event) ==
  \/ kind = "window" /\ Window_ScheduleNextPacket(w, f, event)
  \/ kind \in {"cbr", "zipf"} /\ Cbr_ScheduleNextPacket(event)
  \/ kind = "batches" /\ Batches_ScheduleNextPacket(event)

\* Mutant: m_inFlight-- without the test for zero.
Decrement_Unchecked(n) == n - 1

Decrement(n) == IF n > 0 THEN n - 1 ELSE 0

-----------------------------------------------------------------------------
StartApplication ==
  /\ App_StartApplication
  /\ ScheduleNextPacket(m_window, m_inFlight, m_sendEvent)
  /\ UNCHANGED <<attributes, m_seqMax, m_window, m_inFlight>>

StopApplication ==
  /\ App_StopApplication
  /\ m_sendEvent' = FALSE
  /\ UNCHANGED <<attributes, m_seqMax, m_window, m_inFlight, m_firstTime, orphans>>

\* ConsumerZipfMandelbrot::SendPacket: the content index is random, so a new
\* Interest may repeat a number.
SendRandomSeq ==
  /\ m_active = "running"
  /\ SendAgain \/ \E s \in Seqs : SendNew(s, m_seqMax)
  /\ UNCHANGED <<m_active, received, arriving>>

\* No event is ever orphaned (OneSendEvent), so the one that fires is the one
\* m_sendEvent names.
SendPacket ==
  /\ m_sendEvent
  /\ IF kind = "zipf" THEN SendRandomSeq ELSE SendNextSeq(m_seqMax)
  /\ m_inFlight' = IF kind = "window" THEN m_inFlight + 1 ELSE m_inFlight
  /\ ScheduleNextPacket(m_window, m_inFlight', FALSE)
  /\ UNCHANGED <<attributes, m_seqMax, m_window>>

SendPacketReturns ==
  /\ m_sendEvent
  /\ NothingToSend(m_seqMax)
  /\ m_sendEvent' = FALSE
  /\ UNCHANGED <<consumerVars, attributes, m_seqMax, m_window, m_inFlight, m_firstTime, orphans>>

\* ConsumerWindow goes on after Consumer::OnData has returned early.
OnData(s) ==
  /\ Consumer_OnData(s)
  /\ \/ /\ kind = "window"
        /\ m_window' = IF m_window < MaxWindow THEN m_window + 1 ELSE m_window
        /\ m_inFlight' = Decrement(m_inFlight)
        /\ ScheduleNextPacket(m_window', m_inFlight', m_sendEvent)
     \/ /\ kind # "window"
        /\ UNCHANGED <<m_window, m_inFlight, m_firstTime, m_sendEvent, orphans>>
  /\ UNCHANGED <<attributes, m_seqMax>>

\* Mutant: ConsumerWindow does not count the packet off.
OnTimeout_KeepsInFlight(s) ==
  /\ Consumer_OnTimeout(s)
  /\ m_window' = IF m_setInitialWindowOnTimeout THEN m_initialWindow ELSE m_window
  /\ ScheduleNextPacket(m_window', m_inFlight, m_sendEvent)
  /\ UNCHANGED <<attributes, m_seqMax, m_inFlight>>

OnTimeout(s) ==
  /\ Consumer_OnTimeout(s)
  /\ m_inFlight' = IF kind = "window" THEN Decrement(m_inFlight) ELSE m_inFlight
  /\ m_window' = IF m_setInitialWindowOnTimeout THEN m_initialWindow ELSE m_window
  /\ ScheduleNextPacket(m_window', m_inFlight', m_sendEvent)
  /\ UNCHANGED <<attributes, m_seqMax>>

\* Batches are due at times after StartApplication, also when the application
\* has been stopped.  The history of the RTT estimator is cleared.
AddBatch(amount) ==
  /\ kind = "batches" /\ m_active # "idle"
  /\ m_seqMax' = m_seqMax + amount
  /\ m_history' = [s \in Seqs |-> "none"]
  /\ ScheduleNextPacket(m_window, m_inFlight, m_sendEvent)
  /\ UNCHANGED <<m_active, m_seq, m_retxSeqs, m_seqTimeouts, m_seqRetxCounts, received,
                 pit, arriving, attributes, m_window, m_inFlight>>

Network(s) ==
  /\ Answer(s) \/ Lose(s)
  /\ UNCHANGED <<attributes, m_seqMax, m_window, m_inFlight, m_firstTime, m_sendEvent, orphans>>

Next ==
  \/ StartApplication
  \/ StopApplication
  \/ SendPacket
  \/ SendPacketReturns
  \/ \E s \in Seqs : OnData(s) \/ OnTimeout(s) \/ Network(s)
  \/ \E amount \in 1 .. SeqMax - m_seqMax : AddBatch(amount)

\* As for FullyDistributed.
Fairness ==
  /\ WF_vars(StartApplication)
  /\ WF_vars(SendPacket)
  /\ \A s \in Seqs : WF_vars(OnData(s))
  /\ WF_vars(\E s \in Seqs : OnTimeout(s))
  /\ \A s \in Seqs : SF_vars(Network(s) /\ s \in arriving')

Spec == Init /\ [][Next]_vars

FairSpec == Spec /\ Fairness

-----------------------------------------------------------------------------
(* Properties *)

\* At most one SendPacket event is pending, the one m_sendEvent names: no
\* order of Data, timeouts and batches makes a consumer send at twice its rate.
OneSendEvent == orphans = 0

\* m_inFlight never counts more than there is: the window of ConsumerWindow
\* cannot be closed by packets nobody waits for, although Data that arrives
\* after its timeout is counted off twice.
InFlightIsReal == m_inFlight <= Cardinality(Outstanding)

\* A running consumer with something to request has a SendPacket event
\* pending, or a full window whose Data or timeouts will schedule one.
NoStall ==
  m_active = "running" /\ (m_retxSeqs # {} \/ m_seq < m_seqMax)
    => m_sendEvent \/ (kind = "window" /\ Outstanding # {})

\* NoSeqLost, of the consumers that request the numbers in order.
KeepsSeqs == kind # "zipf" => NoSeqLost

\* KarnRule, of the consumers that do not clear the history.
KeepsKarnRule == kind # "batches" => KarnRule

\* Everything released is requested and received in the end, unless the
\* application is stopped.
EventuallyServed ==
  m_active = "running" ~>
    \/ m_active = "stopped"
    \/ m_seq = m_seqMax /\ Outstanding = {} /\ m_retxSeqs = {}

\* "make sure to disable RTT calculation for this sample": Consumer::OnTimeout
\* leaves no usable sample for its number.
TimeoutDisablesSample ==
  [][\A s \in Seqs : OnTimeout(s) => m_history'[s] # "sample"]_vars
=============================================================================
