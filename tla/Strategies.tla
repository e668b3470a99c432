----------------------------- MODULE Strategies -----------------------------
(***************************************************************************)
(* The forwarding strategies that decide at once where an Interest goes:   *)
(* best-route (versions 1 and 2), multicast (broadcast is another name for *)
(* it) and client-control.  Each is the set of decisions that its          *)
(* afterReceiveInterest may take for entry k, whose in-record for inFace   *)
(* has just been written; "sends" are the faces given to sendInterest and  *)
(* "rejects" tells whether rejectPendingInterest is called.                *)
(***************************************************************************)
EXTENDS PitEntry

CONSTANTS
  Cost             \* the cost of the nexthop to a face; all different

ASSUME CostAssumption ==
  /\ Cost \in [Faces -> Nat]
  /\ \A f, g \in Faces : Cost[f] = Cost[g] => f = g

Decision == [sends : SUBSET Faces, rejects : BOOLEAN]

SendTo(faces) == [sends |-> faces, rejects |-> FALSE]

Reject == [sends |-> {}, rejects |-> TRUE]

\* The first of the nexthops, which the FIB entry keeps sorted by cost.
Cheapest(faces) == {f \in faces : \A g \in faces : Cost[f] <= Cost[g]}

-----------------------------------------------------------------------------
MulticastStrategy(k, inRecords, outRecords, nexthops) ==
  LET upstreams == {f \in nexthops : CanForwardTo(k, inRecords, outRecords, f)}
  IN  {[sends |-> upstreams,
        rejects |-> upstreams = {} /\ ~HasUnexpired(outRecords)]}

BestRouteStrategy(k, inRecords, outRecords, nexthops) ==
  LET usable == {f \in nexthops : CanForwardTo(k, inRecords, outRecords, f)}
  IN  IF HasUnexpired(outRecords) THEN {SendTo({})}
      ELSE IF usable = {} THEN {Reject}
      ELSE {SendTo({f}) : f \in Cheapest(usable)}

\* The Interest does not name its nexthop in the LocalControlHeader, or names
\* a present face, or one that does not exist.
ClientControlStrategy(k, inRecords, outRecords, nexthops, present) ==
  BestRouteStrategy(k, inRecords, outRecords, nexthops)
    \cup {SendTo({f}) : f \in present}
    \cup {Reject}

\* predicate_NextHop_eligible
Eligible(k, inRecords, nexthops, inFace) ==
  {f \in nexthops : f # inFace /\ ~ViolatesScope(k, inRecords, f)}

Unused(outRecords, f) == ~(Has(outRecords, f) /\ outRecords[f].expiry > 0)

\* findEligibleNextHopWithEarliestOutRecord
EarliestOut(outRecords, faces) ==
  Cheapest({f \in faces : \A g \in faces :
              outRecords[g].renewed <= outRecords[f].renewed})

\* The retransmission suppression depends on times shorter than a tick: a
\* retransmission is forwarded or suppressed.
BestRouteStrategy2(k, inRecords, outRecords, nexthops, inFace) ==
  LET eligible == Eligible(k, inRecords, nexthops, inFace)
      unused == {f \in eligible : Unused(outRecords, f)}
      new == ~HasUnexpired(outRecords)
  IN  IF new /\ eligible = {} THEN {Reject}
      ELSE IF new THEN {SendTo({f}) : f \in Cheapest(eligible)}
      ELSE {SendTo({})} \cup
           {SendTo({f}) : f \in IF unused # {} THEN Cheapest(unused)
                                ELSE EarliestOut(outRecords, eligible)}

AfterReceiveInterest(strategy, k, inRecords, outRecords, nexthops, present, inFace) ==
  CASE strategy = "multicast" ->
         MulticastStrategy(k, inRecords, outRecords, nexthops)
    [] strategy = "best-route" ->
         BestRouteStrategy(k, inRecords, outRecords, nexthops)
    [] strategy = "client-control" ->
         ClientControlStrategy(k, inRecords, outRecords, nexthops, present)
    [] strategy = "best-route2" ->
         BestRouteStrategy2(k, inRecords, outRecords, nexthops, inFace)

=============================================================================
