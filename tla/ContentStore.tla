---------------------------- MODULE ContentStore ----------------------------
(***************************************************************************)
(* nfd::cs::Cs with its two replacement policies, priority FIFO and LRU.   *)
(*                                                                         *)
(* A packet is its full name, a sequence of components that ends in the    *)
(* implicit digest; digests are smaller than other components, as in the   *)
(* canonical order.  Times are relative to now: staleIn is the time left   *)
(* until the packet is stale (-1: it is), moveStaleEvent the time left     *)
(* until the timer of the entry's EntryInfo fires.                         *)
(***************************************************************************)
EXTENDS Integers, FiniteSets, SequencesExt

CONSTANTS
  Packets,
  FreshnessPeriod,  \* of each packet; Never: it has none
  Never,
  Off,
  MaxLimit,         \* bound on the capacity
  Interests         \* [name, rightmost, mustBeFresh]

Times == Nat \cup {Never}

ASSUME FreshnessAssumption == FreshnessPeriod \in [Packets -> Times]
ASSUME SpecialAssumption == Never \notin Int /\ Off \notin Int
ASSUME LimitAssumption == MaxLimit \in Nat \ {0}
ASSUME PacketsAssumption == IsFiniteSet(Packets)

VARIABLES
  policy,
  m_limit,
  m_table,         \* stored packet |-> [unsolicited, staleIn]
  m_queues,        \* the three queues of priority FIFO, and LRU's m_queue
  moveStaleEvent   \* stored packet |-> time left, or Off

vars == <<policy, m_limit, m_table, m_queues, moveStaleEvent>>

NoPacket == <<>>

QueueTypes == {"UNSOLICITED", "STALE", "FIFO", "LRU"}

Entries == [unsolicited : BOOLEAN, staleIn : Times \cup {-1}]

TypeOK ==
  /\ policy \in {"fifo", "lru"}
  /\ m_limit \in 1 .. MaxLimit
  /\ DOMAIN m_table \subseteq Packets
  /\ m_table \in [DOMAIN m_table -> Entries]
  /\ m_queues \in [QueueTypes -> Seq(DOMAIN m_table)]
  /\ moveStaleEvent \in [DOMAIN m_table -> Nat \cup {Off}]

Init ==
  /\ policy \in {"fifo", "lru"}
  /\ m_limit \in 1 .. MaxLimit
  /\ m_table = [d \in {} |-> 0]
  /\ m_queues = [t \in QueueTypes |-> <<>>]
  /\ moveStaleEvent = [d \in {} |-> Off]

-----------------------------------------------------------------------------
(* Queues *)

isStale(entry) == entry.staleIn = -1

canStale(entry) == entry.staleIn # Never

\* The queue that attachQueue (or insertToQueue) chooses.
QueueFor(entry) ==
  CASE policy = "lru" -> "LRU"
    [] policy # "lru" /\ entry.unsolicited -> "UNSOLICITED"
    [] policy # "lru" /\ ~entry.unsolicited /\ isStale(entry) -> "STALE"
    [] OTHER -> "FIFO"

TimerFor(entry) ==
  IF QueueFor(entry) = "FIFO" /\ canStale(entry) THEN entry.staleIn ELSE Off

\* An entry is in one queue only, the one its EntryInfo names.
Detach(queues, d) == [t \in QueueTypes |-> RemoveFirst(queues[t], d)]

Attach(queues, t, d) == [queues EXCEPT ![t] = Append(@, d)]

Drop(q, n) ==
  CASE n <= 0     -> q
    [] n >= Len(q) /\ n > 0 -> <<>>
    [] OTHER      -> SubSeq(q, n + 1, Len(q))

\* Mutant: stale packets go before unsolicited ones.
Evicted_StaleFirst(queues, n) ==
  LET u == Len(queues["UNSOLICITED"])
      s == Len(queues["STALE"])
      f == Len(queues["FIFO"])
  IN [UNSOLICITED |-> Drop(queues["UNSOLICITED"], n - s),
      STALE       |-> Drop(queues["STALE"], n),
      FIFO        |-> Drop(queues["FIFO"], n - u - s),
      LRU         |-> Drop(queues["LRU"], n - u - s - f)]

\* n rounds of evictOne: the front of the first queue that is not empty.  LRU
\* leaves the three other queues empty.
Evicted(queues, n) ==
  LET u == Len(queues["UNSOLICITED"])
      s == Len(queues["STALE"])
      f == Len(queues["FIFO"])
  IN [UNSOLICITED |-> Drop(queues["UNSOLICITED"], n),
      STALE       |-> Drop(queues["STALE"], n - u),
      FIFO        |-> Drop(queues["FIFO"], n - u - s),
      LRU         |-> Drop(queues["LRU"], n - u - s - f)]

Queued(queues) == UNION {Range(queues[t]) : t \in QueueTypes}

\* Mutant: one packet too many is kept.
evictEntries_OneMore(table, queues, timers, limit) ==
  LET left == Evicted(queues, Cardinality(DOMAIN table) - limit - 1)
      kept == Queued(left)
  IN /\ m_queues' = left
     /\ m_table' = [d \in kept |-> table[d]]
     /\ moveStaleEvent' = [d \in kept |-> timers[d]]

\* Mutant: an evicted packet keeps its place in its queue.
evictEntries_NotPopped(table, queues, timers, limit) ==
  LET kept == Queued(Evicted(queues, Cardinality(DOMAIN table) - limit))
  IN /\ m_queues' = queues
     /\ m_table' = [d \in kept |-> table[d]]
     /\ moveStaleEvent' = [d \in kept |-> timers[d]]

\* evictEntries: the signal beforeEvict erases each evicted entry of the table,
\* and detachQueue cancels its timer.
evictEntries(table, queues, timers, limit) ==
  LET left == Evicted(queues, Cardinality(DOMAIN table) - limit)
      kept == Queued(left)
  IN /\ m_queues' = left
     /\ m_table' = [d \in kept |-> table[d]]
     /\ moveStaleEvent' = [d \in kept |-> timers[d]]

-----------------------------------------------------------------------------
(* Operations *)

With(f, d, v) == [x \in DOMAIN f \cup {d} |-> IF x = d THEN v ELSE f[x]]

\* Cs::insert of a new packet, and doAfterInsert.
InsertNew(d, isUnsolicited) ==
  LET entry == [unsolicited |-> isUnsolicited, staleIn |-> FreshnessPeriod[d]]
  IN /\ d \notin DOMAIN m_table
     /\ evictEntries(With(m_table, d, entry), Attach(m_queues, QueueFor(entry), d),
                     With(moveStaleEvent, d, TimerFor(entry)), m_limit)
     /\ UNCHANGED <<policy, m_limit>>

\* Mutant: a refreshed packet keeps its place and its timer.
Refresh_InPlace(d, isUnsolicited) ==
  LET entry == [unsolicited |-> m_table[d].unsolicited /\ isUnsolicited,
                staleIn |-> FreshnessPeriod[d]]
  IN /\ d \in DOMAIN m_table
     /\ m_table' = [m_table EXCEPT ![d] = entry]
     /\ UNCHANGED <<policy, m_limit, m_queues, moveStaleEvent>>

\* Cs::insert of a stored packet, and doAfterRefresh.
Refresh(d, isUnsolicited) ==
  LET entry == [unsolicited |-> m_table[d].unsolicited /\ isUnsolicited,
                staleIn |-> FreshnessPeriod[d]]
  IN /\ d \in DOMAIN m_table
     /\ m_table' = [m_table EXCEPT ![d] = entry]
     /\ m_queues' = Attach(Detach(m_queues, d), QueueFor(entry), d)
     /\ moveStaleEvent' = [moveStaleEvent EXCEPT ![d] = TimerFor(entry)]
     /\ UNCHANGED <<policy, m_limit>>

\* Mutant: the entry is not taken out of the FIFO queue.
moveToStaleQueue_Keeps(d) ==
  /\ d \in DOMAIN m_table /\ moveStaleEvent[d] = 0
  /\ m_queues' = Attach(m_queues, "STALE", d)
  /\ moveStaleEvent' = [moveStaleEvent EXCEPT ![d] = Off]
  /\ UNCHANGED <<policy, m_limit, m_table>>

moveToStaleQueue(d) ==
  /\ d \in DOMAIN m_table /\ moveStaleEvent[d] = 0
  /\ m_queues' = Attach(Detach(m_queues, d), "STALE", d)
  /\ moveStaleEvent' = [moveStaleEvent EXCEPT ![d] = Off]
  /\ UNCHANGED <<policy, m_limit, m_table>>

setLimit(n) ==
  /\ m_limit' = n
  /\ evictEntries(m_table, m_queues, moveStaleEvent, n)
  /\ UNCHANGED policy

\* Only an empty store may change its policy.
setPolicy(p) ==
  /\ DOMAIN m_table = {}
  /\ policy' = p
  /\ UNCHANGED <<m_limit, m_table, m_queues, moveStaleEvent>>

\* Time passes only when no timer is due.
Tick ==
  /\ \A d \in DOMAIN m_table : moveStaleEvent[d] # 0
  /\ m_table' = [d \in DOMAIN m_table |-> [m_table[d] EXCEPT !.staleIn =
                   IF @ \in {Never, -1} THEN @ ELSE @ - 1]]
  /\ moveStaleEvent' = [d \in DOMAIN m_table |->
                          IF moveStaleEvent[d] = Off THEN Off ELSE moveStaleEvent[d] - 1]
  /\ UNCHANGED <<policy, m_limit, m_queues>>

-----------------------------------------------------------------------------
(* Lookup *)

\* The canonical order of names.
Before(a, b) ==
  \/ IsStrictPrefix(a, b)
  \/ \E i \in 1 .. Len(a) : /\ i <= Len(b) /\ a[i] < b[i]
                            /\ \A j \in 1 .. i - 1 : a[j] = b[j]

canSatisfy(d, interest) ==
  /\ IsPrefix(interest.name, d)
  /\ interest.mustBeFresh => ~isStale(m_table[d])

\* m_table from lower_bound(prefix) to lower_bound(prefix.getSuccessor()).
UnderName(name) == SetToSortSeq({d \in DOMAIN m_table : IsPrefix(name, d)}, Before)

\* The first match in s[first .. last - 1], or last.
findLeftmost(s, interest, first, last) ==
  LET matches == {i \in first .. last - 1 : canSatisfy(s[i], interest)}
  IN IF matches = {} THEN last ELSE Min(matches)

\* The last match in s[first .. last - 1], or last.
findRightmostAmongExact(s, interest, first, last) ==
  LET matches == {i \in first .. last - 1 : canSatisfy(s[i], interest)}
  IN IF matches = {} THEN last ELSE Max(matches)

\* Mutant: a sub-namespace without a match ends the search.
findRightmost_OneChild(s, interest) ==
  LET n    == Len(interest.name)
      last == Len(s) + 1
      loop[right \in 1 .. last] ==
        LET prev == s[right - 1]
            left == Min({i \in 1 .. right - 1 : s[i][n + 1] = prev[n + 1]})
            exact == findRightmostAmongExact(s, interest, 1, right)
            match == findLeftmost(s, interest, left, right)
        IN CASE right = 1 -> last
             [] right > 1 /\ Len(prev) = n + 1 -> IF exact = right THEN last ELSE exact
             [] OTHER -> IF match # right THEN match ELSE last
  IN loop[last]

\* Each round looks at the packets before right that agree with the last of
\* them in one component more than the Interest has.  Packets with exactly
\* the Interest's name differ only in their digest.
findRightmost(s, interest) ==
  LET n    == Len(interest.name)
      last == Len(s) + 1
      loop[right \in 1 .. last] ==
        LET prev == s[right - 1]
            left == Min({i \in 1 .. right - 1 : s[i][n + 1] = prev[n + 1]})
            exact == findRightmostAmongExact(s, interest, 1, right)
            match == findLeftmost(s, interest, left, right)
        IN CASE right = 1 -> last
             [] right > 1 /\ Len(prev) = n + 1 -> IF exact = right THEN last ELSE exact
             [] OTHER -> IF match # right THEN match ELSE loop[left]
  IN loop[last]

Match(interest) ==
  LET s == UnderName(interest.name)
      i == IF interest.rightmost THEN findRightmost(s, interest)
           ELSE findLeftmost(s, interest, 1, Len(s) + 1)
  IN IF i = Len(s) + 1 THEN NoPacket ELSE s[i]

\* Cs::find and doBeforeUse: LRU moves the match to the end of its queue.
find(interest) ==
  LET match == Match(interest)
  IN /\ policy = "lru" /\ match \in DOMAIN m_table
     /\ m_queues' = Attach(Detach(m_queues, match), "LRU", match)
     /\ UNCHANGED <<policy, m_limit, m_table, moveStaleEvent>>

-----------------------------------------------------------------------------
Next ==
  \/ \E d \in Packets, b \in BOOLEAN : InsertNew(d, b) \/ Refresh(d, b)
  \/ \E d \in DOMAIN m_table : moveToStaleQueue(d)
  \/ \E n \in 1 .. MaxLimit : setLimit(n)
  \/ \E p \in {"fifo", "lru"} : setPolicy(p)
  \/ \E i \in Interests : find(i)
  \/ Tick

Spec == Init /\ [][Next]_vars

-----------------------------------------------------------------------------
(* Properties *)

\* Every stored packet is in exactly one queue, at one place, and the queues
\* hold nothing else.  The assertions of attachQueue, detachQueue, evictOne
\* and insertToQueue depend on it.
QueuesExact ==
  /\ Queued(m_queues) = DOMAIN m_table
  /\ \A t, v \in QueueTypes : \A i \in DOMAIN m_queues[t], j \in DOMAIN m_queues[v] :
       m_queues[t][i] = m_queues[v][j] => t = v /\ i = j

\* The place of a packet in priority FIFO tells its state, and a timer runs
\* exactly for the packets of the FIFO queue that can become stale, until the
\* moment they do: moveToStaleQueue never finds its entry gone or in another
\* queue, and no packet of the FIFO queue is stale.
TimersExact ==
  \A d \in DOMAIN m_table :
    LET entry == m_table[d]
    IN /\ moveStaleEvent[d] # Off => /\ d \in Range(m_queues["FIFO"])
                                     /\ moveStaleEvent[d] = entry.staleIn
       /\ d \in Range(m_queues["FIFO"]) =>
            /\ ~entry.unsolicited /\ ~isStale(entry)
            /\ canStale(entry) => moveStaleEvent[d] = entry.staleIn
       /\ d \in Range(m_queues["STALE"]) => ~entry.unsolicited /\ entry.staleIn \in {0, -1}
       /\ d \in Range(m_queues["UNSOLICITED"]) => entry.unsolicited

\* The capacity is never exceeded once an operation is over (the
\* postconditions of afterInsert and setLimit).
WithinLimit == Cardinality(DOMAIN m_table) <= m_limit

\* Eviction follows the priorities and the order of each queue: a stale packet
\* goes only when no unsolicited one is left, a fresh solicited one only when
\* no stale one is left either, and of one queue (LRU's too) nothing goes
\* before what was put there, refreshed or used earlier.
EvictionOrder ==
  [][\A d \in DOMAIN m_table \ DOMAIN m_table' :
       /\ d \in Range(m_queues["STALE"]) => m_queues'["UNSOLICITED"] = <<>>
       /\ d \in Range(m_queues["FIFO"]) =>
            m_queues'["UNSOLICITED"] = <<>> /\ m_queues'["STALE"] = <<>>
       /\ \A t \in QueueTypes : \A i, j \in DOMAIN m_queues[t] :
            i < j /\ m_queues[t][j] = d => m_queues[t][i] \notin DOMAIN m_table']_vars

\* Lookup returns what ChildSelector asks for: the smallest match, or the
\* smallest match under the largest next component that has one.
FindsSelectedChild ==
  \A interest \in Interests :
    LET matches == {d \in DOMAIN m_table : canSatisfy(d, interest)}
        Next1(d) == d[Len(interest.name) + 1]
        chosen  == IF interest.rightmost
                     THEN {d \in matches : \A e \in matches : Next1(e) <= Next1(d)}
                     ELSE matches
    IN IF matches = {} THEN Match(interest) = NoPacket
       ELSE /\ Match(interest) \in chosen
            /\ \A d \in chosen : d = Match(interest) \/ Before(Match(interest), d)
=============================================================================
