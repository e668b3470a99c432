-------------------------- MODULE FullyDistributed --------------------------
(***************************************************************************)
(* The consumer of the NCFCC scheme (ns3::ndn::FullyDistributed): a        *)
(* congestion window that grows by one with every Data, and that a timeout *)
(* or a Reduce-Sending-Rate notification (RSR) is meant to shrink.         *)
(*                                                                         *)
(* Several SendPacket events can be pending in the simulator at once.      *)
(* m_sendEvent names at most one of them; scheduling a new one while the   *)
(* window is full overwrites m_sendEvent without removing the old event,   *)
(* which then fires on its own: an orphan.                                 *)
(***************************************************************************)
EXTENDS Consumer, FiniteSets

CONSTANTS
  InitialWindow,            \* attribute "Window"
  WindowCap,                \* the literal 150 of OnData
  InitialWindowOnTimeout,   \* attribute m_setInitialWindowOnTimeout
  MaxOrphans,               \* bound on the orphaned SendPacket events
  MaxRsr                    \* bound on the RSR notifications delivered

ASSUME WindowAssumption ==
  /\ InitialWindow \in Nat
  /\ WindowCap \in Nat
  /\ InitialWindowOnTimeout \in BOOLEAN
  /\ MaxOrphans \in Nat
  /\ MaxRsr \in Nat

VARIABLES
  m_window,
  m_inFlight,
  m_sendEvent,    \* whether the event m_sendEvent names is pending
  orphans,        \* number of pending SendPacket events nothing names
  rsrs            \* RSR notifications handled so far

vars == <<consumerVars, m_window, m_inFlight, m_sendEvent, orphans, rsrs>>

TypeOK ==
  /\ ConsumerTypeOK
  /\ m_window \in Nat
  /\ m_inFlight \in Nat
  /\ m_sendEvent \in BOOLEAN
  /\ orphans \in Nat
  /\ rsrs \in Nat

Init ==
  /\ ConsumerInit
  /\ m_window = InitialWindow
  /\ m_inFlight = 0
  /\ m_sendEvent = FALSE
  /\ orphans = 0
  /\ rsrs = 0

-----------------------------------------------------------------------------
\* A full window leaves the event that m_sendEvent named in the simulator.
Orphaned(w, f, event) == IF w > 0 /\ f >= w /\ event THEN 1 ELSE 0

\* Mutant: nothing is scheduled when the window is full.
ScheduleNextPacket_Quiet(w, f, event, o) ==
  /\ m_sendEvent' = (event \/ ~(w > 0 /\ f >= w))
  /\ orphans' = o

\* The new event replaces m_sendEvent in every branch; the branches for a
\* closed and for an open window remove the old one first.
\* w, f: window and packets in flight; event, o: the events pending before.
ScheduleNextPacket(w, f, event, o) ==
  /\ m_sendEvent' = TRUE
  /\ orphans' = o + Orphaned(w, f, event)
  /\ orphans' <= MaxOrphans

\* Mutant: m_inFlight-- without the test for zero.
Decrement_Unchecked(n) == n - 1

Decrement(n) == IF n > 0 THEN n - 1 ELSE 0

-----------------------------------------------------------------------------
StartApplication ==
  /\ App_StartApplication
  /\ ScheduleNextPacket(m_window, m_inFlight, m_sendEvent, orphans)
  /\ UNCHANGED <<m_window, m_inFlight, rsrs>>

\* Simulator::Cancel(m_sendEvent) reaches only the event it names.
StopApplication ==
  /\ App_StopApplication
  /\ m_sendEvent' = FALSE
  /\ UNCHANGED <<m_window, m_inFlight, orphans, rsrs>>

\* A pending SendPacket event fires: the one m_sendEvent names, or an orphan.
Fire(event, o) ==
  \/ m_sendEvent /\ event = FALSE /\ o = orphans
  \/ orphans > 0 /\ event = m_sendEvent /\ o = orphans - 1

SendPacket ==
  \E event \in BOOLEAN, o \in {orphans, orphans - 1} :
    /\ Fire(event, o)
    /\ SendNextSeq(SeqMax)
    /\ m_inFlight' = m_inFlight + 1
    /\ ScheduleNextPacket(m_window, m_inFlight', event, o)
    /\ UNCHANGED <<m_window, rsrs>>

SendPacketReturns ==
  \E event \in BOOLEAN, o \in {orphans, orphans - 1} :
    /\ Fire(event, o)
    /\ NothingToSend(SeqMax)
    /\ m_sendEvent' = event
    /\ orphans' = o
    /\ UNCHANGED <<consumerVars, m_window, m_inFlight, rsrs>>

\* At the cap the packet stays counted as in flight and nothing is scheduled.
OnData(s) ==
  /\ Consumer_OnData(s)
  /\ \/ /\ m_window < WindowCap
        /\ m_window' = m_window + 1
        /\ m_inFlight' = Decrement(m_inFlight)
        /\ ScheduleNextPacket(m_window', m_inFlight', m_sendEvent, orphans)
     \/ /\ m_window >= WindowCap
        /\ UNCHANGED <<m_window, m_inFlight, m_sendEvent, orphans>>
  /\ UNCHANGED rsrs

\* m_window * (1/3) in uint32_t arithmetic, where 1/3 is 0.
WindowAfterTimeout(w) == IF InitialWindowOnTimeout THEN w * (1 \div 3) ELSE w

\* ScheduleNextPacket runs twice, here and at the end of Consumer::OnTimeout.
OnTimeout(s) ==
  /\ Consumer_OnTimeout(s)
  /\ m_inFlight' = Decrement(m_inFlight)
  /\ m_window' = WindowAfterTimeout(m_window)
  /\ ScheduleNextPacket(m_window', m_inFlight', TRUE,
       orphans + Orphaned(m_window', m_inFlight', m_sendEvent))
  /\ UNCHANGED rsrs

\* Consumer::OnRsr schedules with the old window, then m_window * (1/2).
OnRsr ==
  /\ m_active # "idle" /\ rsrs < MaxRsr
  /\ rsrs' = rsrs + 1
  /\ ScheduleNextPacket(m_window, m_inFlight, m_sendEvent, orphans)
  /\ m_window' = m_window * (1 \div 2)
  /\ UNCHANGED <<consumerVars, m_inFlight>>

Network(s) ==
  /\ Answer(s) \/ Lose(s)
  /\ UNCHANGED <<m_window, m_inFlight, m_sendEvent, orphans, rsrs>>

Next ==
  \/ StartApplication
  \/ StopApplication
  \/ SendPacket
  \/ SendPacketReturns
  \/ OnRsr
  \/ \E s \in Seqs : OnData(s) \/ OnTimeout(s) \/ Network(s)

\* Every scheduled simulator event runs; an Interest that is sent again and
\* again is answered in the end; no other progress is assumed.
Fairness ==
  /\ WF_vars(StartApplication)
  /\ WF_vars(SendPacket)
  /\ \A s \in Seqs : WF_vars(OnData(s))
  /\ WF_vars(\E s \in Seqs : OnTimeout(s))
  /\ \A s \in Seqs : SF_vars(Network(s) /\ s \in arriving')

Spec == Init /\ [][Next]_vars

FairSpec == Spec /\ Fairness

-----------------------------------------------------------------------------
(* Properties.                                                             *)

\* While there is something to request, a SendPacket event is pending: no
\* order of Data, timeouts, RSRs and late events leaves a running consumer
\* with work to do and nobody to wake it up.
NoStall ==
  m_active = "running" /\ (m_retxSeqs # {} \/ m_seq < SeqMax)
    => m_sendEvent \/ orphans > 0

\* No Interest goes out for a sequence number whose Data OnData has processed,
\* although its timeout may have put it in m_retxSeqs before the Data came.
NoResend ==
  [][\A s \in received : s \in pit' => s \in pit]_vars

\* Every packet is received in the end, whatever is lost or late, unless the
\* application is stopped.
EventuallyReceived ==
  m_active = "running" ~> (received = Seqs \/ m_active = "stopped")

-----------------------------------------------------------------------------
(* What an attribute's description says of this consumer and the code does *)
(* not do.                                                                 *)

\* "Window that controls how many outstanding interests are allowed": with an
\* open window, SendPacket sends only when fewer Interests than m_window are
\* outstanding.
SendsWithinWindow ==
  [][SendPacket => m_window = 0 \/ Cardinality(Outstanding) < m_window]_vars
=============================================================================
