----------------------------- MODULE Forwarder ------------------------------
(***************************************************************************)
(* The forwarding pipelines of one node (nfd::Forwarder) over its tables:  *)
(* the PIT with its unsatisfy and straggler timers, the Content Store, the *)
(* Dead Nonce List and the faces.  A pipeline runs to completion inside    *)
(* one simulator event, so each action is one event: a packet arriving on  *)
(* a face, a timer of a PIT entry, the clock, a face going down.           *)
(***************************************************************************)
EXTENDS Strategies

CONSTANTS
  NameOf,          \* the Name of a key; keys differing in Selectors share it
  Fib,             \* the nexthops of the longest prefix match for a key
  StrategyOf,      \* the strategies that may be in charge of a key
  MustBeFresh,     \* the keys with the MustBeFresh selector
  Datas,
  Match,           \* the Data that satisfy a key
  LocalhostDatas,  \* the Data under /localhost
  ShortLived,      \* the Data whose FreshnessPeriod is below the DNL lifetime
  MayFail,         \* bound: the faces that may go down
  Straggler,       \* the straggler time, in ticks
  MaxPackets       \* bound: the Interests and Data that may arrive

ASSUME ForwarderAssumption ==
  /\ Fib \in [Keys -> SUBSET Faces]
  /\ Match \in [Keys -> SUBSET Datas]
  /\ LocalhostDatas \subseteq Datas
  /\ MayFail \subseteq Faces
  /\ Straggler \in Nat
  /\ MaxPackets \in Nat

VARIABLES
  faces,           \* the faces in the face table
  pit,             \* the keys that have a PIT entry
  inRecords,       \* the in-records of each entry
  outRecords,      \* the out-records of each entry
  m_unsatisfyTimer, \* the time left, or Off
  m_stragglerTimer, \* the time left, or Off
  deadAtFinalize,  \* what the straggler timer will finalize: are its Nonces dead?
  m_cs,            \* the Data in the Content Store
  m_deadNonceList, \* the Names and Nonces in the Dead Nonce List
  sent,            \* the packets sent by the last step
  received         \* the number of packets that have arrived

vars == <<faces, pit, inRecords, outRecords, m_unsatisfyTimer,
          m_stragglerTimer, deadAtFinalize, m_cs, m_deadNonceList, sent,
          received>>

Off == -1

Nothing == [interests |-> {}, data |-> {}]

TypeOK ==
  /\ faces \subseteq Faces
  /\ pit \subseteq Keys
  /\ inRecords \in [Keys -> Collection]
  /\ outRecords \in [Keys -> Collection]
  /\ m_unsatisfyTimer \in [Keys -> Nat \cup {Off}]
  /\ m_stragglerTimer \in [Keys -> Nat \cup {Off}]
  /\ deadAtFinalize \in [Keys -> BOOLEAN]
  /\ m_cs \subseteq Datas
  /\ m_deadNonceList \subseteq {NameOf[k] : k \in Keys} \X Nonces
  /\ sent \in [interests : SUBSET (Faces \X Keys \X Nonces),
               data : SUBSET (Faces \X Datas)]
  /\ received \in Nat

Init ==
  /\ faces = Faces
  /\ pit = {}
  /\ inRecords = [k \in Keys |-> EmptyCollection]
  /\ outRecords = [k \in Keys |-> EmptyCollection]
  /\ m_unsatisfyTimer = [k \in Keys |-> Off]
  /\ m_stragglerTimer = [k \in Keys |-> Off]
  /\ deadAtFinalize = [k \in Keys |-> FALSE]
  /\ m_cs = {}
  /\ m_deadNonceList = {}
  /\ sent = Nothing
  /\ received = 0

-----------------------------------------------------------------------------
\* The Data that pass the /localhost check of onOutgoingData and its check of
\* the face.
OnOutgoingData(d, to) ==
  {<<f, d>> : f \in {g \in to \cap faces : g \in LocalFaces \/ d \notin LocalhostDatas}}

\* insertDeadNonceList's needDnl for a satisfied entry.
NeedDnl(k, d) == k \in MustBeFresh /\ d \in ShortLived

\* The definitions with a suffix, here and below, are wrong on purpose: the
\* properties must fail when they take the place of the right ones.
\* This one inserts a Nonce also for a face without an out-record.
OutNonces_Unchecked(k, upstreams) ==
  {<<NameOf[k], IF Has(outRecords[k], f) THEN outRecords[k][f].nonce ELSE NoRecord>> :
     f \in upstreams}

\* The Nonces that insertDeadNonceList inserts, of the out-records there are.
OutNonces(k, upstreams) ==
  {<<NameOf[k], outRecords[k][f].nonce>> :
     f \in {g \in upstreams : Has(outRecords[k], g)}}

\* DeadNonceList::evictEntries drops old entries when there are too many ...
EvictEntries(entries) == SUBSET entries

\* ... and DeadNonceList::add calls it.
AddToDeadNonceList(new) ==
  IF new = {} THEN {m_deadNonceList}
              ELSE {kept \cup new : kept \in EvictEntries(m_deadNonceList)}

\* Inserting into the Content Store evicts Data, the new one included, when it
\* is full; Data that forbids caching is not inserted.
CsInsert(d) == SUBSET (m_cs \cup {d})

-----------------------------------------------------------------------------
Arrives(f) ==
  /\ f \in faces
  /\ received < MaxPackets
  /\ received' = received + 1

ViolatesLocalhost(f, k) == f \notin LocalFaces /\ k \in LocalhostKeys

DropInterest(f, k) ==
  /\ Arrives(f)
  /\ ViolatesLocalhost(f, k)
  /\ sent' = Nothing
  /\ UNCHANGED <<faces, pit, inRecords, outRecords, m_unsatisfyTimer,
                 m_stragglerTimer, deadAtFinalize, m_cs, m_deadNonceList>>

HasDuplicateNonce_PitOnly(k, nonce) == FindNonce(inRecords[k], outRecords[k], nonce)

HasDuplicateNonce(k, nonce) ==
  \/ FindNonce(inRecords[k], outRecords[k], nonce)
  \/ <<NameOf[k], nonce>> \in m_deadNonceList

\* The PIT entry inserted for the Interest stays.
OnInterestLoop(f, k, nonce) ==
  /\ Arrives(f)
  /\ ~ViolatesLocalhost(f, k)
  /\ HasDuplicateNonce(k, nonce)
  /\ pit' = pit \cup {k}
  /\ sent' = Nothing
  /\ UNCHANGED <<faces, inRecords, outRecords, m_unsatisfyTimer,
                 m_stragglerTimer, deadAtFinalize, m_cs, m_deadNonceList>>

\* onIncomingInterest up to the Content Store lookup.
AcceptInterest(f, k, nonce) ==
  /\ Arrives(f)
  /\ ~ViolatesLocalhost(f, k)
  /\ ~HasDuplicateNonce(k, nonce)
  /\ pit' = pit \cup {k}

IsPending(k) == \E f \in Faces : Has(inRecords[k], f)

OnContentStoreHit(f, k, nonce, d) ==
  /\ AcceptInterest(f, k, nonce)
  /\ ~IsPending(k)
  /\ d \in m_cs \cap Match[k]
  /\ m_unsatisfyTimer' = [m_unsatisfyTimer EXCEPT ![k] = Off]
  /\ m_stragglerTimer' = [m_stragglerTimer EXCEPT ![k] = Straggler]
  /\ deadAtFinalize' = [deadAtFinalize EXCEPT ![k] = NeedDnl(k, d)]
  /\ sent' = [interests |-> {}, data |-> OnOutgoingData(d, {f})]
  /\ UNCHANGED <<faces, inRecords, outRecords, m_cs, m_deadNonceList>>

\* onOutgoingInterest for each face of "to": the in-records picked become the
\* out-records of these faces.
OnOutgoingInterest(k, ins, to, picked) ==
  /\ \A f \in to : picked[f] \in Pickable(ins, f)
  /\ outRecords' =
       [outRecords EXCEPT ![k] =
          [f \in Faces |-> IF f \in to
                             THEN NewRecord(ins[picked[f]].nonce, ins[picked[f]].lifetime)
                             ELSE @[f]]]
  /\ sent' = [interests |-> {<<f, k, ins[picked[f]].nonce>> : f \in to},
              data |-> {}]

\* A MustBeFresh Interest is not satisfied by Data that has become stale.
ContentStoreMisses(k) == IsPending(k) \/ m_cs \cap Match[k] = {} \/ k \in MustBeFresh

\* onInterestReject replaces the unsatisfy timer by the straggler timer.
UnsatisfyTimerAfter(rejected, expiry) == IF rejected THEN Off ELSE expiry

StragglerTimerAfter_Forgotten(rejected) == Off

StragglerTimerAfter(rejected) == IF rejected THEN Straggler ELSE Off

\* setUnsatisfyTimer, then the strategy, then onInterestReject if it rejects.
DispatchToStrategy(f, k, ins) ==
  \E strategy \in StrategyOf[k], last \in Faces :
    /\ IsLastExpiring(ins, last)
    /\ \E decision \in AfterReceiveInterest(strategy, k, ins, outRecords[k],
                                            Fib[k] \cap faces, faces, f) :
         LET to == {g \in decision.sends \cap faces : ~ViolatesScope(k, ins, g)}
             rejected == decision.rejects /\ ~HasUnexpired(outRecords[k])
         IN  /\ \E picked \in [to -> Faces] : OnOutgoingInterest(k, ins, to, picked)
             /\ m_unsatisfyTimer' =
                  [m_unsatisfyTimer EXCEPT
                     ![k] = UnsatisfyTimerAfter(rejected, ins[last].expiry)]
             /\ m_stragglerTimer' =
                  [m_stragglerTimer EXCEPT ![k] = StragglerTimerAfter(rejected)]
             /\ deadAtFinalize' = [deadAtFinalize EXCEPT ![k] = rejected]

OnContentStoreMiss(f, k, nonce, lifetime) ==
  LET ins == InsertOrUpdate(inRecords[k], f, nonce, lifetime)
  IN  /\ AcceptInterest(f, k, nonce)
      /\ ContentStoreMisses(k)
      /\ inRecords' = [inRecords EXCEPT ![k] = ins]
      /\ DispatchToStrategy(f, k, ins)
      /\ UNCHANGED <<faces, m_cs, m_deadNonceList>>

OnIncomingInterest(f, k, nonce) ==
  \/ DropInterest(f, k)
  \/ OnInterestLoop(f, k, nonce)
  \/ \E d \in Datas : OnContentStoreHit(f, k, nonce, d)
  \/ \E lifetime \in Lifetimes : OnContentStoreMiss(f, k, nonce, lifetime)

-----------------------------------------------------------------------------
\* Other Data are dropped.
AcceptData(f, d) ==
  /\ Arrives(f)
  /\ f \in LocalFaces \/ d \notin LocalhostDatas

FindAllDataMatches_First(d) ==
  {k \in pit : d \in Match[k] /\ k = CHOOSE j \in pit : d \in Match[j]}

FindAllDataMatches(d) == {k \in pit : d \in Match[k]}

OnDataUnsolicited(f, d) ==
  /\ AcceptData(f, d)
  /\ FindAllDataMatches(d) = {}
  /\ m_cs' \in IF f \in LocalFaces THEN CsInsert(d) ELSE {m_cs}
  /\ sent' = Nothing
  /\ UNCHANGED <<faces, pit, inRecords, outRecords, m_unsatisfyTimer,
                 m_stragglerTimer, deadAtFinalize, m_deadNonceList>>

PendingDownstreams(ks) == UNION {PendingFaces(inRecords[k]) : k \in ks}

OnIncomingData(f, d) ==
  LET matches == FindAllDataMatches(d)
  IN  /\ AcceptData(f, d)
      /\ matches # {}
      /\ m_cs' \in CsInsert(d)
      /\ m_deadNonceList' \in AddToDeadNonceList(
           UNION {OutNonces(k, {f}) : k \in {j \in matches : NeedDnl(j, d)}})
      /\ inRecords' = [k \in Keys |-> IF k \in matches THEN EmptyCollection
                                      ELSE inRecords[k]]
      /\ outRecords' = [k \in Keys |-> IF k \in matches THEN DeleteRecord(outRecords[k], f)
                                       ELSE outRecords[k]]
      /\ m_unsatisfyTimer' = [k \in Keys |-> IF k \in matches THEN Off
                                             ELSE m_unsatisfyTimer[k]]
      /\ m_stragglerTimer' = [k \in Keys |-> IF k \in matches THEN Straggler
                                             ELSE m_stragglerTimer[k]]
      /\ deadAtFinalize' = [k \in Keys |-> IF k \in matches THEN NeedDnl(k, d)
                                           ELSE deadAtFinalize[k]]
      /\ sent' = [interests |-> {},
                  data |-> OnOutgoingData(d, PendingDownstreams(matches) \ {f})]
      /\ UNCHANGED <<faces, pit>>

-----------------------------------------------------------------------------
OnInterestFinalize(k, needDnl) ==
  /\ m_deadNonceList' \in AddToDeadNonceList(IF needDnl THEN OutNonces(k, Faces) ELSE {})
  /\ pit' = pit \ {k}
  /\ inRecords' = [inRecords EXCEPT ![k] = EmptyCollection]
  /\ outRecords' = [outRecords EXCEPT ![k] = EmptyCollection]
  /\ m_unsatisfyTimer' = [m_unsatisfyTimer EXCEPT ![k] = Off]
  /\ m_stragglerTimer' = [m_stragglerTimer EXCEPT ![k] = Off]
  /\ deadAtFinalize' = [deadAtFinalize EXCEPT ![k] = FALSE]
  /\ sent' = Nothing
  /\ UNCHANGED <<faces, m_cs, received>>

OnInterestUnsatisfied(k) ==
  m_unsatisfyTimer[k] = 0 /\ OnInterestFinalize(k, TRUE)

StragglerTimer_IfIdle(k) ==
  /\ m_stragglerTimer[k] = 0
  /\ ~IsPending(k)
  /\ OnInterestFinalize(k, deadAtFinalize[k])

StragglerTimer(k) ==
  m_stragglerTimer[k] = 0 /\ OnInterestFinalize(k, deadAtFinalize[k])

CountDown(timer) == [k \in Keys |-> IF timer[k] = Off THEN Off ELSE timer[k] - 1]

\* The simulator's clock advances when no timer is due.
Tick ==
  /\ \A k \in Keys : m_unsatisfyTimer[k] # 0 /\ m_stragglerTimer[k] # 0
  /\ m_unsatisfyTimer' = CountDown(m_unsatisfyTimer)
  /\ m_stragglerTimer' = CountDown(m_stragglerTimer)
  /\ inRecords' = [k \in Keys |-> AgeCollection(inRecords[k])]
  /\ outRecords' = [k \in Keys |-> AgeCollection(outRecords[k])]
  /\ sent' = Nothing
  /\ UNCHANGED <<faces, pit, deadAtFinalize, m_cs, m_deadNonceList, received>>

\* FaceTable::remove; the FIB loses the nexthop, PIT records stay.
RemoveFace(f) ==
  /\ f \in faces \cap MayFail
  /\ faces' = faces \ {f}
  /\ sent' = Nothing
  /\ UNCHANGED <<pit, inRecords, outRecords, m_unsatisfyTimer, m_stragglerTimer,
                 deadAtFinalize, m_cs, m_deadNonceList, received>>

\* A Content Store with freshness erases stale Data by a timer.
CleanExpired ==
  /\ m_cs' \in SUBSET m_cs
  /\ sent' = Nothing
  /\ UNCHANGED <<faces, pit, inRecords, outRecords, m_unsatisfyTimer,
                 m_stragglerTimer, deadAtFinalize, m_deadNonceList, received>>

\* The capacity of the Dead Nonce List is adjusted periodically.
AdjustCapacity ==
  /\ m_deadNonceList' \in EvictEntries(m_deadNonceList)
  /\ sent' = Nothing
  /\ UNCHANGED <<faces, pit, inRecords, outRecords, m_unsatisfyTimer,
                 m_stragglerTimer, deadAtFinalize, m_cs, received>>

Timers(k) == OnInterestUnsatisfied(k) \/ StragglerTimer(k)

Next ==
  \/ \E f \in Faces, k \in Keys, nonce \in Nonces : OnIncomingInterest(f, k, nonce)
  \/ \E f \in Faces, d \in Datas : OnDataUnsolicited(f, d) \/ OnIncomingData(f, d)
  \/ \E k \in Keys : Timers(k)
  \/ Tick
  \/ \E f \in Faces : RemoveFace(f)
  \/ CleanExpired
  \/ AdjustCapacity

Spec == Init /\ [][Next]_vars

\* The simulator always runs the next event: timers that are due fire, and
\* otherwise time goes on.
FairSpec ==
  /\ Spec
  /\ WF_vars(Tick)
  /\ \A k \in Keys : WF_vars(OnInterestUnsatisfied(k)) /\ WF_vars(StragglerTimer(k))

-----------------------------------------------------------------------------
Armed(k) == m_unsatisfyTimer[k] # Off \/ m_stragglerTimer[k] # Off

HasRecords(k) == \E f \in Faces : Has(inRecords[k], f) \/ Has(outRecords[k], f)

\* However Interests, Data, loops, rejections and timers interleave, an entry
\* that holds records is in the PIT and has exactly one of its two timers
\* armed: cancelUnsatisfyAndStragglerTimer never leaves an entry in use that
\* nothing will delete, and never lets both timers delete it.
OneTimer ==
  \A k \in Keys :
    /\ Armed(k) => k \in pit
    /\ HasRecords(k) => Armed(k)
    /\ ~(m_unsatisfyTimer[k] # Off /\ m_stragglerTimer[k] # Off)

\* setUnsatisfyTimer keeps the timer at the expiry of the in-record that
\* expires last: beforeExpirePendingInterest is never called while some
\* downstream still waits, nor later than the last one gives up.
ExpiresLast ==
  \A k \in Keys :
    m_unsatisfyTimer[k] # Off =>
      /\ \E f \in Faces : /\ Has(inRecords[k], f)
                         /\ inRecords[k][f].expiry = m_unsatisfyTimer[k]
      /\ \A f \in Faces : Has(inRecords[k], f) =>
                           inRecords[k][f].expiry <= m_unsatisfyTimer[k]

NameIsOwn(k) == \A j \in Keys : NameOf[j] = NameOf[k] => j = k

\* An in-record, from which onOutgoingInterest takes the Nonce it sends, never
\* holds a Nonce that the Dead Nonce List calls dead: loop detection when an
\* Interest arrives and the insertions when records are deleted agree.  Keys
\* that differ only in their Selectors share a Name in the Dead Nonce List and
\* are left out.
NoDeadNoncePending ==
  \A k \in Keys, f \in Faces :
    NameIsOwn(k) /\ Has(inRecords[k], f) =>
      <<NameOf[k], inRecords[k][f].nonce>> \notin m_deadNonceList

\* Once traffic stops, every entry with a timer leaves the PIT: a rejected,
\* satisfied or forwarded Interest does not stay (strategy.hpp promises of a
\* rejected one that it "will be deleted shortly").
EntriesFinish == \A k \in Keys : Armed(k) ~> k \notin pit

-----------------------------------------------------------------------------
\* The Interests that have not expired.
Owed ==
  {p \in Faces \X Keys : /\ Has(inRecords[p[2]], p[1])
                         /\ inRecords[p[2]][p[1]].expiry > 0}

Contract == INSTANCE InterestData WITH up <- faces, owed <- Owed, answers <- sent.data

\* The pipelines implement the contract of InterestData.
ImplementsInterestData == Contract!Spec
=============================================================================
