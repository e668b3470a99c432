--------------------------- MODULE ForwarderProofs --------------------------
(***************************************************************************)
(* What the pipelines of Forwarder do to PIT records and timers, that they *)
(* preserve the types, that the timers of an entry, the expiries of its    *)
(* in-records and the Dead Nonce List agree, and that they implement       *)
(* InterestData.  Everything here holds for every set of faces, keys,      *)
(* Nonces, lifetimes and Data, every FIB, and whatever the strategies      *)
(* decide: AfterReceiveInterest is never expanded.                         *)
(***************************************************************************)
EXTENDS Forwarder, TLAPS

USE ZenonT(60), SMTT(60)

USE DEF Off

-----------------------------------------------------------------------------
(* The records of a PIT entry.                                             *)

\* The operations on collections of records (FaceRecord::update, the
\* insertions and deletions of pit::Entry) yield collections of records.
LEMMA NewRecordType ==
  ASSUME NEW nonce \in Nonces, NEW lifetime \in Lifetimes
  PROVE  /\ NewRecord(nonce, lifetime) \in Record
         /\ NewRecord(nonce, lifetime) # NoRecord
         /\ NewRecord(nonce, lifetime).nonce = nonce
         /\ NewRecord(nonce, lifetime).expiry = lifetime
         /\ NewRecord(nonce, lifetime).expiry >= 0
<1>1. lifetime \in Nat
  BY PitAssumption
<1>2. NewRecord(nonce, lifetime) \in Record
  BY <1>1 DEF NewRecord, Record
<1> QED
  BY SMTT(60), <1>1, <1>2, NoRecordAssumption DEF NewRecord

LEMMA InsertType ==
  ASSUME NEW c \in Collection, NEW f \in Faces,
         NEW nonce \in Nonces, NEW lifetime \in Lifetimes
  PROVE  /\ InsertOrUpdate(c, f, nonce, lifetime) \in Collection
         /\ InsertOrUpdate(c, f, nonce, lifetime)[f] = NewRecord(nonce, lifetime)
         /\ \A g \in Faces \ {f} : InsertOrUpdate(c, f, nonce, lifetime)[g] = c[g]
BY NewRecordType DEF InsertOrUpdate, Collection

LEMMA EmptyType ==
  /\ EmptyCollection \in Collection
  /\ \A f \in Faces : EmptyCollection[f] = NoRecord
BY DEF EmptyCollection, Collection

LEMMA DeleteType ==
  ASSUME NEW c \in Collection, NEW f \in Faces
  PROVE  /\ DeleteRecord(c, f) \in Collection
         /\ \A g \in Faces : DeleteRecord(c, f)[g] \in {c[g], NoRecord}
BY DEF DeleteRecord, Collection

\* The clock changes the times of a record and nothing else.
LEMMA AgeType ==
  ASSUME NEW c \in Collection
  PROVE  /\ AgeCollection(c) \in Collection
         /\ \A f \in Faces :
              /\ Has(AgeCollection(c), f) <=> Has(c, f)
              /\ Has(c, f) =>
                   /\ AgeCollection(c)[f].nonce = c[f].nonce
                   /\ AgeCollection(c)[f].expiry =
                        IF c[f].expiry >= 0 THEN c[f].expiry - 1 ELSE c[f].expiry
<1>1. ASSUME NEW r \in Record
      PROVE  /\ AgeRecord(r) \in Record
             /\ AgeRecord(r).nonce = r.nonce
             /\ AgeRecord(r).expiry = IF r.expiry >= 0 THEN r.expiry - 1 ELSE r.expiry
  BY SMTT(60), <1>1, NoRecordAssumption DEF AgeRecord, Record
<1>2. AgeRecord(NoRecord) = NoRecord
  BY DEF AgeRecord
<1>3. ASSUME NEW f \in Faces
      PROVE  c[f] \in Record \cup {NoRecord}
  BY DEF Collection
<1>4. AgeCollection(c) \in Collection
  BY <1>1, <1>2, <1>3 DEF AgeCollection, Collection
<1>5. ASSUME NEW f \in Faces
      PROVE  AgeCollection(c)[f] = AgeRecord(c[f])
  BY DEF AgeCollection
<1> QED
  BY <1>1, <1>2, <1>3, <1>4, <1>5, NoRecordAssumption DEF Has

-----------------------------------------------------------------------------
(* What one step does to the state, as far as the invariants tell.         *)

Sent == [interests : SUBSET (Faces \X Keys \X Nonces), data : SUBSET (Faces \X Datas)]

\* Interests go out with the Nonce of an in-record, into out-records of their
\* own entry only (onOutgoingInterest).
LEMMA OutgoingEffect ==
  ASSUME TypeOK, NEW k \in Keys, NEW ins \in Collection, NEW to \in SUBSET Faces,
         NEW picked \in [to -> Faces], OnOutgoingInterest(k, ins, to, picked)
  PROVE  /\ outRecords' \in [Keys -> Collection]
         /\ \A j \in Keys \ {k} : outRecords'[j] = outRecords[j]
         /\ sent' \in Sent
         /\ sent'.data = {}
<1>1. ASSUME NEW f \in to
      PROVE  ins[picked[f]] \in Record
  BY SMTT(60), <1>1 DEF OnOutgoingInterest, Pickable, Has, Collection
<1>2. ASSUME NEW f \in to
      PROVE  NewRecord(ins[picked[f]].nonce, ins[picked[f]].lifetime) \in Record
  BY <1>1, <1>2, NewRecordType DEF Record
<1> DEFINE outs == [f \in Faces |->
                      IF f \in to
                        THEN NewRecord(ins[picked[f]].nonce, ins[picked[f]].lifetime)
                        ELSE outRecords[k][f]]
<1>3. outs \in Collection
  BY SMTT(60), <1>2 DEF TypeOK, Collection
<1>4. outRecords' = [outRecords EXCEPT ![k] = outs]
  BY DEF OnOutgoingInterest
<1>5. /\ outRecords' \in [Keys -> Collection]
      /\ \A j \in Keys \ {k} : outRecords'[j] = outRecords[j]
  <2> HIDE DEF outs
  <2> QED
    BY <1>3, <1>4 DEF TypeOK
<1>6. ASSUME NEW f \in to
      PROVE  <<f, k, ins[picked[f]].nonce>> \in Faces \X Keys \X Nonces
  BY <1>1, <1>6 DEF Record
<1>7. sent' \in Sent /\ sent'.data = {}
  BY <1>6 DEF OnOutgoingInterest, Sent
<1> QED
  BY <1>5, <1>7

\* The entry of an Interest that misses the Content Store ends up with a new
\* in-record and one of the timers (onContentStoreMiss with setUnsatisfyTimer,
\* whatever the strategy decides, and onInterestReject).
LEMMA MissEffect ==
  ASSUME TypeOK, NEW f \in Faces, NEW k \in Keys, NEW nonce \in Nonces,
         NEW lifetime \in Lifetimes, OnContentStoreMiss(f, k, nonce, lifetime),
         NEW ins, ins = InsertOrUpdate(inRecords[k], f, nonce, lifetime)
  PROVE  /\ ins \in Collection
         /\ inRecords' = [inRecords EXCEPT ![k] = ins]
         /\ outRecords' \in [Keys -> Collection]
         /\ \A j \in Keys \ {k} : outRecords'[j] = outRecords[j]
         /\ sent' \in Sent
         /\ sent'.data = {}
         /\ deadAtFinalize' \in [Keys -> BOOLEAN]
         /\ \/ /\ m_unsatisfyTimer' = [m_unsatisfyTimer EXCEPT ![k] = Off]
               /\ m_stragglerTimer' = [m_stragglerTimer EXCEPT ![k] = Straggler]
            \/ \E last \in Faces :
                 /\ IsLastExpiring(ins, last)
                 /\ ins[last].expiry \in Nat
                 /\ m_unsatisfyTimer' = [m_unsatisfyTimer EXCEPT ![k] = ins[last].expiry]
                 /\ m_stragglerTimer' = [m_stragglerTimer EXCEPT ![k] = Off]
<1>1. /\ ins \in Collection
      /\ ins[f] = NewRecord(nonce, lifetime)
  BY SMTT(60), InsertType DEF TypeOK
<1>2. inRecords' = [inRecords EXCEPT ![k] = ins]
  BY DEF OnContentStoreMiss
<1>3a. DispatchToStrategy(f, k, ins)
  BY DEF OnContentStoreMiss
<1>3. PICK strategy \in StrategyOf[k], last \in Faces :
        /\ IsLastExpiring(ins, last)
        /\ \E decision \in AfterReceiveInterest(strategy, k, ins, outRecords[k],
                                                Fib[k] \cap faces, faces, f) :
             LET to == {g \in decision.sends \cap faces : ~ViolatesScope(k, ins, g)}
                 rejected == decision.rejects /\ ~HasUnexpired(outRecords[k])
             IN  /\ \E picked \in [to -> Faces] : OnOutgoingInterest(k, ins, to, picked)
                 /\ m_unsatisfyTimer' =
                      [m_unsatisfyTimer EXCEPT
                         ![k] = UnsatisfyTimerAfter(rejected, ins[last].expiry)]
                 /\ m_stragglerTimer' =
                      [m_stragglerTimer EXCEPT ![k] = StragglerTimerAfter(rejected)]
                 /\ deadAtFinalize' = [deadAtFinalize EXCEPT ![k] = rejected]
  BY <1>3a DEF DispatchToStrategy
<1>4. PICK decision \in AfterReceiveInterest(strategy, k, ins, outRecords[k],
                                            Fib[k] \cap faces, faces, f) :
        LET to == {g \in decision.sends \cap faces : ~ViolatesScope(k, ins, g)}
            rejected == decision.rejects /\ ~HasUnexpired(outRecords[k])
        IN  /\ \E picked \in [to -> Faces] : OnOutgoingInterest(k, ins, to, picked)
            /\ m_unsatisfyTimer' =
                 [m_unsatisfyTimer EXCEPT
                    ![k] = UnsatisfyTimerAfter(rejected, ins[last].expiry)]
            /\ m_stragglerTimer' =
                 [m_stragglerTimer EXCEPT ![k] = StragglerTimerAfter(rejected)]
            /\ deadAtFinalize' = [deadAtFinalize EXCEPT ![k] = rejected]
  BY <1>3
<1> DEFINE to == {g \in decision.sends \cap faces : ~ViolatesScope(k, ins, g)}
           rejected == decision.rejects /\ ~HasUnexpired(outRecords[k])
<1>5. /\ \E picked \in [to -> Faces] : OnOutgoingInterest(k, ins, to, picked)
      /\ m_unsatisfyTimer' =
           [m_unsatisfyTimer EXCEPT
              ![k] = UnsatisfyTimerAfter(rejected, ins[last].expiry)]
      /\ m_stragglerTimer' =
           [m_stragglerTimer EXCEPT ![k] = StragglerTimerAfter(rejected)]
      /\ deadAtFinalize' = [deadAtFinalize EXCEPT ![k] = rejected]
  BY <1>4
<1>6. to \in SUBSET Faces
  BY DEF TypeOK
<1>7. rejected \in BOOLEAN
  OBVIOUS
<1> HIDE DEF to, rejected
<1>8. /\ outRecords' \in [Keys -> Collection]
      /\ \A j \in Keys \ {k} : outRecords'[j] = outRecords[j]
      /\ sent' \in Sent
      /\ sent'.data = {}
  BY <1>1, <1>5, <1>6, OutgoingEffect
<1>9. deadAtFinalize' \in [Keys -> BOOLEAN]
  BY <1>5, <1>7 DEF TypeOK
<1>10. ins[last].expiry \in Nat
  <2>1. ins[f] \in Record /\ Has(ins, f) /\ ins[f].expiry >= 0
    BY <1>1, NewRecordType DEF Has
  <2>2. ins[last] \in Record
    BY <1>1, <1>3 DEF IsLastExpiring, Has, Collection
  <2>3. ins[f].expiry <= ins[last].expiry
    BY <1>3, <2>1 DEF IsLastExpiring
  <2> QED
    BY SMTT(60), <2>1, <2>2, <2>3 DEF Record
<1>11. CASE rejected
  BY <1>1, <1>2, <1>5, <1>8, <1>9, <1>11 DEF UnsatisfyTimerAfter, StragglerTimerAfter
<1>12. CASE ~rejected
  BY <1>1, <1>2, <1>3, <1>5, <1>8, <1>9, <1>10, <1>12
  DEF UnsatisfyTimerAfter, StragglerTimerAfter
<1> QED
  BY <1>7, <1>11, <1>12

-----------------------------------------------------------------------------
(* Type correctness.                                                       *)

LEMMA InitTypeOK == Init => TypeOK
BY SMTT(60), EmptyType DEF Init, TypeOK, Nothing

\* The packets sent are packets.
LEMMA NothingType == Nothing \in Sent /\ Nothing.data = {}
BY DEF Nothing, Sent

LEMMA OutgoingDataType ==
  ASSUME NEW d \in Datas, NEW to \in SUBSET Faces
  PROVE  [interests |-> {}, data |-> OnOutgoingData(d, to)] \in Sent
BY SMTT(60) DEF OnOutgoingData, Sent

LEMMA OutNoncesType ==
  ASSUME TypeOK, NEW k \in Keys, NEW upstreams \in SUBSET Faces
  PROVE  OutNonces(k, upstreams) \subseteq {NameOf[j] : j \in Keys} \X Nonces
<1>1. ASSUME NEW f \in upstreams, Has(outRecords[k], f)
      PROVE  outRecords[k][f].nonce \in Nonces
  BY SMTT(60), <1>1 DEF TypeOK, Collection, Has, Record
<1> QED
  BY SMTT(60), <1>1 DEF OutNonces

LEMMA InterestTypeOK ==
  ASSUME TypeOK, NEW f \in Faces, NEW k \in Keys, NEW nonce \in Nonces,
         OnIncomingInterest(f, k, nonce)
  PROVE  TypeOK'
<1>1. CASE DropInterest(f, k)
  BY SMTT(60), <1>1, NothingType DEF DropInterest, Arrives, TypeOK, Sent
<1>2. CASE OnInterestLoop(f, k, nonce)
  BY SMTT(60), <1>2, NothingType DEF OnInterestLoop, Arrives, TypeOK, Sent
<1>3. ASSUME NEW d \in Datas, OnContentStoreHit(f, k, nonce, d)
      PROVE  TypeOK'
  <2>1. sent' \in Sent
    BY <1>3, OutgoingDataType DEF OnContentStoreHit
  <2>2. NeedDnl(k, d) \in BOOLEAN
    BY DEF NeedDnl
  <2>3. deadAtFinalize' \in [Keys -> BOOLEAN]
    BY <1>3, <2>2 DEF OnContentStoreHit, TypeOK
  <2>4. /\ m_unsatisfyTimer' \in [Keys -> Nat \cup {Off}]
        /\ m_stragglerTimer' \in [Keys -> Nat \cup {Off}]
    BY <1>3, ForwarderAssumption DEF OnContentStoreHit, TypeOK
  <2>5. /\ pit' = pit \cup {k}
        /\ received' = received + 1
        /\ UNCHANGED <<faces, inRecords, outRecords, m_cs, m_deadNonceList>>
    BY <1>3 DEF OnContentStoreHit, AcceptInterest, Arrives
  <2> QED
    BY SMTT(60), <2>1, <2>3, <2>4, <2>5 DEF TypeOK, Sent
<1>4. ASSUME NEW lifetime \in Lifetimes, OnContentStoreMiss(f, k, nonce, lifetime)
      PROVE  TypeOK'
  <2> DEFINE ins == InsertOrUpdate(inRecords[k], f, nonce, lifetime)
  <2>1. /\ ins \in Collection
        /\ inRecords' = [inRecords EXCEPT ![k] = ins]
        /\ outRecords' \in [Keys -> Collection]
        /\ sent' \in Sent
        /\ deadAtFinalize' \in [Keys -> BOOLEAN]
    BY SMTT(60), <1>4, MissEffect
  <2>2. /\ m_unsatisfyTimer' \in [Keys -> Nat \cup {Off}]
        /\ m_stragglerTimer' \in [Keys -> Nat \cup {Off}]
    BY SMTT(60), <1>4, MissEffect, ForwarderAssumption DEF TypeOK
  <2>3. /\ pit' = pit \cup {k}
        /\ received' = received + 1
        /\ UNCHANGED <<faces, m_cs, m_deadNonceList>>
    BY <1>4 DEF OnContentStoreMiss, AcceptInterest, Arrives
  <2> HIDE DEF ins
  <2>4. inRecords' \in [Keys -> Collection]
    BY <2>1 DEF TypeOK
  <2> QED
    BY SMTT(60), <2>1, <2>2, <2>3, <2>4 DEF TypeOK, Sent
<1> QED
  BY <1>1, <1>2, <1>3, <1>4 DEF OnIncomingInterest

\* Adding to the Dead Nonce List brings in nothing but what is added.
LEMMA AddBound ==
  ASSUME NEW new, NEW list \in AddToDeadNonceList(new)
  PROVE  list \subseteq m_deadNonceList \cup new
BY DEF AddToDeadNonceList, EvictEntries

LEMMA DataTypeOK ==
  ASSUME TypeOK, NEW f \in Faces, NEW d \in Datas,
         OnDataUnsolicited(f, d) \/ OnIncomingData(f, d)
  PROVE  TypeOK'
<1>1. CASE OnDataUnsolicited(f, d)
  BY SMTT(60), <1>1, NothingType
  DEF OnDataUnsolicited, AcceptData, Arrives, CsInsert, TypeOK, Sent
<1>2. CASE OnIncomingData(f, d)
  <2> DEFINE matches == FindAllDataMatches(d)
  <2>1. matches \subseteq Keys
    BY DEF FindAllDataMatches, TypeOK
  <2>2. inRecords' \in [Keys -> Collection]
    BY <1>2, EmptyType DEF OnIncomingData, TypeOK
  <2>3. outRecords' \in [Keys -> Collection]
    BY <1>2, DeleteType DEF OnIncomingData, TypeOK
  <2>4. /\ m_unsatisfyTimer' \in [Keys -> Nat \cup {Off}]
        /\ m_stragglerTimer' \in [Keys -> Nat \cup {Off}]
    BY <1>2, ForwarderAssumption DEF OnIncomingData, TypeOK
  <2>5. \A k \in Keys : NeedDnl(k, d) \in BOOLEAN
    BY DEF NeedDnl
  <2>6. deadAtFinalize' \in [Keys -> BOOLEAN]
    BY <1>2, <2>5 DEF OnIncomingData, TypeOK
  <2> DEFINE new == UNION {OutNonces(k, {f}) : k \in {j \in matches : NeedDnl(j, d)}}
  <2>7. new \subseteq {NameOf[j] : j \in Keys} \X Nonces
    BY SMTT(60), <2>1, OutNoncesType
  <2>8. m_deadNonceList' \subseteq {NameOf[j] : j \in Keys} \X Nonces
    <3>1. m_deadNonceList' \in AddToDeadNonceList(new)
      BY <1>2 DEF OnIncomingData
    <3> HIDE DEF new
    <3> QED
      BY <2>7, <3>1, AddBound DEF TypeOK
  <2>9. PendingDownstreams(matches) \ {f} \in SUBSET Faces
    BY DEF PendingDownstreams, PendingFaces
  <2>10. sent' \in Sent
    BY <1>2, <2>9, OutgoingDataType DEF OnIncomingData
  <2>11. m_cs' \subseteq Datas /\ received' \in Nat /\ UNCHANGED <<faces, pit>>
    BY SMTT(60), <1>2 DEF OnIncomingData, AcceptData, Arrives, CsInsert, TypeOK
  <2> QED
    BY <2>2, <2>3, <2>4, <2>6, <2>8, <2>10, <2>11 DEF TypeOK, Sent
<1> QED
  BY <1>1, <1>2

LEMMA FinalizeTypeOK ==
  ASSUME TypeOK, NEW k \in Keys, NEW needDnl, OnInterestFinalize(k, needDnl)
  PROVE  TypeOK'
<1>1. m_deadNonceList' \subseteq {NameOf[j] : j \in Keys} \X Nonces
  BY SMTT(60), OutNoncesType, AddBound DEF OnInterestFinalize, TypeOK
<1> QED
  BY <1>1, EmptyType, NothingType DEF OnInterestFinalize, TypeOK, Sent

LEMMA TickTypeOK ==
  ASSUME TypeOK, Tick
  PROVE  TypeOK'
<1>1. /\ inRecords' \in [Keys -> Collection]
      /\ outRecords' \in [Keys -> Collection]
  BY AgeType DEF Tick, TypeOK
<1>2. /\ m_unsatisfyTimer' \in [Keys -> Nat \cup {Off}]
      /\ m_stragglerTimer' \in [Keys -> Nat \cup {Off}]
  BY SMTT(60) DEF Tick, TypeOK, CountDown
<1> QED
  BY <1>1, <1>2, NothingType DEF Tick, TypeOK, Sent

\* The rest of the steps: a face goes down, a table evicts.
LEMMA OtherTypeOK ==
  ASSUME TypeOK,
         \/ \E f \in Faces : RemoveFace(f)
         \/ CleanExpired
         \/ AdjustCapacity
  PROVE  TypeOK'
BY NothingType
DEF RemoveFace, CleanExpired, AdjustCapacity, EvictEntries, TypeOK, Sent

-----------------------------------------------------------------------------
(* The timers and the Nonces of the entries.                               *)

\* The invariants of one entry, on which its own steps and no others act.
OneTimerOf(k) ==
  /\ Armed(k) => k \in pit
  /\ HasRecords(k) => Armed(k)
  /\ ~(m_unsatisfyTimer[k] # Off /\ m_stragglerTimer[k] # Off)

ExpiresLastOf(k) ==
  m_unsatisfyTimer[k] # Off =>
    /\ \E f \in Faces : /\ Has(inRecords[k], f)
                       /\ inRecords[k][f].expiry = m_unsatisfyTimer[k]
    /\ \A f \in Faces : Has(inRecords[k], f) =>
                         inRecords[k][f].expiry <= m_unsatisfyTimer[k]

NoncesAliveOf(k) ==
  \A f \in Faces :
    NameIsOwn(k) /\ Has(inRecords[k], f) =>
      <<NameOf[k], inRecords[k][f].nonce>> \notin m_deadNonceList

EntryInv(k) == OneTimerOf(k) /\ ExpiresLastOf(k) /\ NoncesAliveOf(k)

IInv == TypeOK /\ \A k \in Keys : EntryInv(k)

entry(k) == <<inRecords[k], outRecords[k], m_unsatisfyTimer[k], m_stragglerTimer[k]>>

\* An entry that a step leaves alone keeps its invariants, if it is not taken
\* out of the PIT and its Nonces are not added to the Dead Nonce List.
LEMMA Untouched ==
  ASSUME NEW k \in Keys, EntryInv(k), entry(k)' = entry(k),
         k \in pit => k \in pit',
         NameIsOwn(k) => \A n \in Nonces : <<NameOf[k], n>> \in m_deadNonceList' =>
                                         <<NameOf[k], n>> \in m_deadNonceList,
         TypeOK
  PROVE  EntryInv(k)'
<1>1. /\ inRecords'[k] = inRecords[k]
      /\ outRecords'[k] = outRecords[k]
      /\ m_unsatisfyTimer'[k] = m_unsatisfyTimer[k]
      /\ m_stragglerTimer'[k] = m_stragglerTimer[k]
  BY DEF entry
<1>2. OneTimerOf(k)'
  BY <1>1 DEF EntryInv, OneTimerOf, Armed, HasRecords, Has
<1>3. ExpiresLastOf(k)'
  BY <1>1 DEF EntryInv, ExpiresLastOf, Has
<1>4. ASSUME NEW f \in Faces, Has(inRecords[k], f)
      PROVE  inRecords[k][f].nonce \in Nonces
  BY SMTT(60), <1>4 DEF TypeOK, Collection, Has, Record
<1>5. NoncesAliveOf(k)'
  BY <1>1, <1>4 DEF EntryInv, NoncesAliveOf, Has, NameIsOwn
<1> QED
  BY <1>2, <1>3, <1>5 DEF EntryInv

\* The entry of an Interest that misses the Content Store.
LEMMA MissInv ==
  ASSUME IInv, NEW f \in Faces, NEW k \in Keys, NEW nonce \in Nonces,
         NEW lifetime \in Lifetimes, OnContentStoreMiss(f, k, nonce, lifetime)
  PROVE  EntryInv(k)'
<1> DEFINE ins == InsertOrUpdate(inRecords[k], f, nonce, lifetime)
<1>1. /\ ins \in Collection
      /\ inRecords'[k] = ins
      /\ \/ m_unsatisfyTimer'[k] = Off /\ m_stragglerTimer'[k] = Straggler
         \/ \E last \in Faces :
              /\ IsLastExpiring(ins, last)
              /\ ins[last].expiry \in Nat
              /\ m_unsatisfyTimer'[k] = ins[last].expiry
              /\ m_stragglerTimer'[k] = Off
  BY SMTT(60), MissEffect DEF IInv, TypeOK
<1>2. k \in pit'
  BY DEF OnContentStoreMiss, AcceptInterest
<1>3. /\ ins[f] = NewRecord(nonce, lifetime)
      /\ \A g \in Faces \ {f} : ins[g] = inRecords[k][g]
  BY SMTT(60), InsertType DEF IInv, TypeOK
<1> HIDE DEF ins
<1>4. OneTimerOf(k)'
  BY SMTT(60), <1>1, <1>2, ForwarderAssumption DEF OneTimerOf, Armed
<1>5. ExpiresLastOf(k)'
  BY <1>1 DEF ExpiresLastOf, IsLastExpiring
<1>6. /\ <<NameOf[k], nonce>> \notin m_deadNonceList
      /\ m_deadNonceList' = m_deadNonceList
  BY DEF OnContentStoreMiss, AcceptInterest, HasDuplicateNonce
<1>7. NoncesAliveOf(k)'
  <2>1. ASSUME NEW g \in Faces, NameIsOwn(k), Has(ins, g)
        PROVE  <<NameOf[k], ins[g].nonce>> \notin m_deadNonceList
    <3>1. CASE g = f
      BY <1>3, <1>6, <3>1, NewRecordType
    <3>2. CASE g # f
      BY <1>3, <2>1, <3>2 DEF IInv, EntryInv, NoncesAliveOf, Has
    <3> QED
      BY <3>1, <3>2
  <2> QED
    BY <1>1, <1>6, <2>1 DEF NoncesAliveOf, NameIsOwn
<1> QED
  BY <1>4, <1>5, <1>7 DEF EntryInv

LEMMA InterestInv ==
  ASSUME IInv, NEW f \in Faces, NEW k \in Keys, NEW nonce \in Nonces,
         OnIncomingInterest(f, k, nonce), NEW j \in Keys
  PROVE  EntryInv(j)'
<1> TypeOK /\ EntryInv(j)
  BY DEF IInv
<1>1. CASE DropInterest(f, k)
  BY <1>1, Untouched DEF DropInterest, entry
<1>2. CASE OnInterestLoop(f, k, nonce)
  BY <1>2, Untouched DEF OnInterestLoop, entry
<1>3. ASSUME NEW d \in Datas, OnContentStoreHit(f, k, nonce, d)
      PROVE  EntryInv(j)'
  <2>1. CASE j # k
    BY <1>3, <2>1, Untouched
    DEF OnContentStoreHit, AcceptInterest, entry, TypeOK
  <2>2. CASE j = k
    <3>1. /\ m_unsatisfyTimer'[k] = Off
          /\ m_stragglerTimer'[k] = Straggler
          /\ k \in pit'
          /\ UNCHANGED <<inRecords, outRecords, m_deadNonceList>>
      BY <1>3 DEF OnContentStoreHit, AcceptInterest, TypeOK
    <3>2. OneTimerOf(k)' /\ ExpiresLastOf(k)'
      BY SMTT(60), <3>1, ForwarderAssumption DEF OneTimerOf, Armed, ExpiresLastOf
    <3>3. NoncesAliveOf(k)'
      BY <2>2, <3>1 DEF EntryInv, NoncesAliveOf, NameIsOwn, Has
    <3> QED
      BY <2>2, <3>2, <3>3 DEF EntryInv
  <2> QED
    BY <2>1, <2>2
<1>4. ASSUME NEW lifetime \in Lifetimes, OnContentStoreMiss(f, k, nonce, lifetime)
      PROVE  EntryInv(j)'
  <2>1. CASE j # k
    <3> DEFINE ins == InsertOrUpdate(inRecords[k], f, nonce, lifetime)
    <3>a. ins = InsertOrUpdate(inRecords[k], f, nonce, lifetime)
      OBVIOUS
    <3> HIDE DEF ins
    <3>b. /\ inRecords' = [inRecords EXCEPT ![k] = ins]
          /\ \A i \in Keys \ {k} : outRecords'[i] = outRecords[i]
      BY SMTT(60), <1>4, <3>a, MissEffect
    <3>c. \E u, t : /\ m_unsatisfyTimer' = [m_unsatisfyTimer EXCEPT ![k] = u]
                    /\ m_stragglerTimer' = [m_stragglerTimer EXCEPT ![k] = t]
      BY SMTT(60), <1>4, <3>a, MissEffect
    <3>1. entry(j)' = entry(j)
      BY <2>1, <3>b, <3>c DEF entry, TypeOK
    <3>2. pit' = pit \cup {k} /\ m_deadNonceList' = m_deadNonceList
      BY <1>4 DEF OnContentStoreMiss, AcceptInterest
    <3> QED
      BY <3>1, <3>2, Untouched
  <2>2. CASE j = k
    BY <1>4, <2>2, MissInv
  <2> QED
    BY <2>1, <2>2
<1> QED
  BY <1>1, <1>2, <1>3, <1>4 DEF OnIncomingInterest

\* The Nonces that a step adds to the Dead Nonce List are of the Names of the
\* entries it finalizes or satisfies.
LEMMA OutNoncesNames ==
  ASSUME NEW k \in Keys, NEW j \in Keys, NEW upstreams, NEW n, NameIsOwn(j),
         <<NameOf[j], n>> \in OutNonces(k, upstreams)
  PROVE  j = k
BY DEF OutNonces, NameIsOwn

\* What onIncomingData does to the entry of j: the Data satisfies it, or leaves
\* it alone.
LEMMA SatisfyEffect ==
  ASSUME NEW f, NEW d, OnIncomingData(f, d), NEW j \in Keys
  PROVE  IF j \in FindAllDataMatches(d)
           THEN /\ inRecords'[j] = EmptyCollection
                /\ m_unsatisfyTimer'[j] = Off
                /\ m_stragglerTimer'[j] = Straggler
           ELSE entry(j)' = entry(j)
<1>1. /\ inRecords' = [k \in Keys |-> IF k \in FindAllDataMatches(d)
                                       THEN EmptyCollection ELSE inRecords[k]]
      /\ outRecords' = [k \in Keys |-> IF k \in FindAllDataMatches(d)
                                        THEN DeleteRecord(outRecords[k], f)
                                        ELSE outRecords[k]]
      /\ m_unsatisfyTimer' = [k \in Keys |-> IF k \in FindAllDataMatches(d)
                                              THEN Off ELSE m_unsatisfyTimer[k]]
      /\ m_stragglerTimer' = [k \in Keys |-> IF k \in FindAllDataMatches(d)
                                              THEN Straggler ELSE m_stragglerTimer[k]]
  BY DEF OnIncomingData
<1> QED
  BY <1>1 DEF entry

\* The Nonces it adds to the Dead Nonce List belong to the entries satisfied.
LEMMA SatisfyNonces ==
  ASSUME NEW f, NEW d, OnIncomingData(f, d), pit \subseteq Keys,
         NEW j \in Keys, j \notin FindAllDataMatches(d), NameIsOwn(j),
         NEW n, <<NameOf[j], n>> \in m_deadNonceList'
  PROVE  <<NameOf[j], n>> \in m_deadNonceList
<1> DEFINE new == UNION {OutNonces(k, {f}) :
                           k \in {i \in FindAllDataMatches(d) : NeedDnl(i, d)}}
<1>1. m_deadNonceList' \in AddToDeadNonceList(new)
  BY DEF OnIncomingData
<1>2. ASSUME NEW k \in FindAllDataMatches(d)
      PROVE  <<NameOf[j], n>> \notin OutNonces(k, {f})
  BY <1>2, OutNoncesNames DEF FindAllDataMatches
<1>3. <<NameOf[j], n>> \notin new
  BY <1>2
<1> HIDE DEF new
<1> QED
  BY SMTT(60), <1>1, <1>3, AddBound

LEMMA DataInv ==
  ASSUME IInv, NEW f \in Faces, NEW d \in Datas,
         OnDataUnsolicited(f, d) \/ OnIncomingData(f, d), NEW j \in Keys
  PROVE  EntryInv(j)'
<1> TypeOK /\ EntryInv(j)
  BY DEF IInv
<1>1. CASE OnDataUnsolicited(f, d)
  BY <1>1, Untouched DEF OnDataUnsolicited, entry
<1>2. CASE OnIncomingData(f, d)
  <2>1. pit' = pit /\ FindAllDataMatches(d) \subseteq pit /\ pit \subseteq Keys
    BY <1>2 DEF OnIncomingData, FindAllDataMatches, TypeOK
  <2>2. CASE j \notin FindAllDataMatches(d)
    <3>1. entry(j)' = entry(j)
      BY <1>2, <2>2, SatisfyEffect
    <3>2. ASSUME NEW n \in Nonces, NameIsOwn(j), <<NameOf[j], n>> \in m_deadNonceList'
          PROVE  <<NameOf[j], n>> \in m_deadNonceList
      BY <1>2, <2>1, <2>2, <3>2, SatisfyNonces
    <3> QED
      BY <2>1, <3>1, <3>2, Untouched
  <2>3. CASE j \in FindAllDataMatches(d)
    <3>1. /\ inRecords'[j] = EmptyCollection
          /\ m_unsatisfyTimer'[j] = Off
          /\ m_stragglerTimer'[j] = Straggler
      BY <1>2, <2>3, SatisfyEffect
    <3> QED
      BY SMTT(60), <2>1, <2>3, <3>1, EmptyType, ForwarderAssumption
      DEF EntryInv, OneTimerOf, Armed, ExpiresLastOf, NoncesAliveOf, Has
  <2> QED
    BY <2>2, <2>3
<1> QED
  BY <1>1, <1>2

LEMMA FinalizeInv ==
  ASSUME IInv, NEW k \in Keys, NEW needDnl, OnInterestFinalize(k, needDnl),
         NEW j \in Keys
  PROVE  EntryInv(j)'
<1> TypeOK /\ EntryInv(j)
  BY DEF IInv
<1>1. CASE j # k
  <2>1. entry(j)' = entry(j) /\ (j \in pit => j \in pit')
    BY <1>1 DEF OnInterestFinalize, entry, TypeOK
  <2>2. ASSUME NEW n \in Nonces, NameIsOwn(j), <<NameOf[j], n>> \in m_deadNonceList'
        PROVE  <<NameOf[j], n>> \in m_deadNonceList
    BY <1>1, <2>2, OutNoncesNames, AddBound DEF OnInterestFinalize
  <2> QED
    BY <2>1, <2>2, Untouched
<1>2. CASE j = k
  <2>1. /\ inRecords'[k] = EmptyCollection
        /\ outRecords'[k] = EmptyCollection
        /\ m_unsatisfyTimer'[k] = Off
        /\ m_stragglerTimer'[k] = Off
    BY DEF OnInterestFinalize, TypeOK
  <2> QED
    BY <1>2, <2>1, EmptyType
    DEF EntryInv, OneTimerOf, Armed, HasRecords, ExpiresLastOf, NoncesAliveOf, Has
<1> QED
  BY <1>1, <1>2

LEMMA TickInv ==
  ASSUME IInv, Tick, NEW k \in Keys
  PROVE  EntryInv(k)'
<1> TypeOK /\ EntryInv(k)
  BY DEF IInv
<1>1. /\ inRecords'[k] = AgeCollection(inRecords[k])
      /\ outRecords'[k] = AgeCollection(outRecords[k])
      /\ inRecords[k] \in Collection
      /\ outRecords[k] \in Collection
      /\ UNCHANGED <<pit, m_deadNonceList>>
  BY DEF Tick, TypeOK
<1>2. /\ m_unsatisfyTimer'[k] = IF m_unsatisfyTimer[k] = Off THEN Off
                                ELSE m_unsatisfyTimer[k] - 1
      /\ m_unsatisfyTimer[k] = Off \/ m_unsatisfyTimer[k] \in Nat \ {0}
      /\ m_stragglerTimer'[k] = IF m_stragglerTimer[k] = Off THEN Off
                                ELSE m_stragglerTimer[k] - 1
      /\ m_stragglerTimer[k] = Off \/ m_stragglerTimer[k] \in Nat \ {0}
  BY DEF Tick, TypeOK, CountDown
<1>3. /\ (m_unsatisfyTimer'[k] = Off) <=> (m_unsatisfyTimer[k] = Off)
      /\ (m_stragglerTimer'[k] = Off) <=> (m_stragglerTimer[k] = Off)
  BY SMTT(60), <1>2
<1>4. ASSUME NEW f \in Faces
      PROVE  /\ Has(inRecords'[k], f) <=> Has(inRecords[k], f)
             /\ Has(outRecords'[k], f) <=> Has(outRecords[k], f)
  BY <1>1, AgeType
<1>5. ASSUME NEW f \in Faces, Has(inRecords[k], f)
      PROVE  /\ inRecords'[k][f].nonce = inRecords[k][f].nonce
             /\ inRecords'[k][f].expiry = IF inRecords[k][f].expiry >= 0
                                            THEN inRecords[k][f].expiry - 1
                                            ELSE inRecords[k][f].expiry
             /\ inRecords[k][f].expiry \in Nat \cup {-1}
  <2>1. inRecords[k][f] \in Record
    BY <1>1, <1>5 DEF Collection, Has
  <2> QED
    BY <1>1, <1>5, <2>1, AgeType DEF Record
<1>6. OneTimerOf(k)'
  BY <1>1, <1>3, <1>4 DEF EntryInv, OneTimerOf, Armed, HasRecords
<1>7. ExpiresLastOf(k)'
  <2> SUFFICES ASSUME m_unsatisfyTimer'[k] # Off
               PROVE  /\ \E f \in Faces :
                           /\ Has(inRecords'[k], f)
                           /\ inRecords'[k][f].expiry = m_unsatisfyTimer'[k]
                      /\ \A f \in Faces : Has(inRecords'[k], f) =>
                           inRecords'[k][f].expiry <= m_unsatisfyTimer'[k]
    BY DEF ExpiresLastOf
  <2>1. /\ m_unsatisfyTimer[k] \in Nat \ {0}
        /\ m_unsatisfyTimer'[k] = m_unsatisfyTimer[k] - 1
    BY <1>2
  <2>2. ASSUME NEW f \in Faces, Has(inRecords[k], f)
        PROVE  inRecords'[k][f].expiry <= m_unsatisfyTimer'[k]
    <3>1. inRecords[k][f].expiry <= m_unsatisfyTimer[k]
      BY SMTT(60), <2>1, <2>2 DEF EntryInv, ExpiresLastOf
    <3> QED
      BY SMTT(60), <1>5, <2>1, <2>2, <3>1
  <2>3. PICK f \in Faces : /\ Has(inRecords[k], f)
                          /\ inRecords[k][f].expiry = m_unsatisfyTimer[k]
    BY SMTT(60), <2>1 DEF EntryInv, ExpiresLastOf
  <2>4. inRecords'[k][f].expiry = m_unsatisfyTimer'[k]
    BY SMTT(60), <1>5, <2>1, <2>3
  <2> QED
    BY <1>4, <2>2, <2>3, <2>4
<1>8. NoncesAliveOf(k)'
  BY <1>1, <1>4, <1>5 DEF EntryInv, NoncesAliveOf, NameIsOwn
<1> QED
  BY <1>6, <1>7, <1>8 DEF EntryInv

LEMMA InitIInv == Init => IInv
<1> SUFFICES ASSUME Init, NEW k \in Keys
             PROVE  EntryInv(k)
  BY InitTypeOK DEF IInv
<1> QED
  BY EmptyType DEF Init, EntryInv, OneTimerOf, Armed, HasRecords, ExpiresLastOf,
                   NoncesAliveOf, Has

LEMMA NextIInv == IInv /\ [Next]_vars => IInv'
<1> SUFFICES ASSUME IInv, [Next]_vars
             PROVE  IInv'
  OBVIOUS
<1>1. ASSUME NEW f \in Faces, NEW k \in Keys, NEW nonce \in Nonces,
             OnIncomingInterest(f, k, nonce)
      PROVE  IInv'
  BY <1>1, InterestTypeOK, InterestInv DEF IInv
<1>2. ASSUME NEW f \in Faces, NEW d \in Datas,
             OnDataUnsolicited(f, d) \/ OnIncomingData(f, d)
      PROVE  IInv'
  BY <1>2, DataTypeOK, DataInv DEF IInv
<1>3. ASSUME NEW k \in Keys, Timers(k)
      PROVE  IInv'
  BY <1>3, FinalizeTypeOK, FinalizeInv
  DEF IInv, Timers, OnInterestUnsatisfied, StragglerTimer
<1>4. CASE Tick
  BY <1>4, TickTypeOK, TickInv DEF IInv
<1>5. CASE \/ \E f \in Faces : RemoveFace(f)
           \/ CleanExpired
           \/ AdjustCapacity
  <2>1. TypeOK'
    BY <1>5, OtherTypeOK DEF IInv
  <2>2. /\ UNCHANGED <<pit, inRecords, outRecords, m_unsatisfyTimer, m_stragglerTimer>>
        /\ m_deadNonceList' \subseteq m_deadNonceList
    BY <1>5 DEF RemoveFace, CleanExpired, AdjustCapacity, EvictEntries
  <2>3. ASSUME NEW k \in Keys
        PROVE  EntryInv(k)'
    BY <2>2, Untouched DEF IInv, entry
  <2> QED
    BY <2>1, <2>3 DEF IInv
<1>6. CASE UNCHANGED vars
  <2>1. TypeOK'
    BY <1>6 DEF vars, IInv, TypeOK
  <2>2. ASSUME NEW k \in Keys
        PROVE  EntryInv(k)'
    BY <1>6, Untouched DEF IInv, entry, vars
  <2> QED
    BY <2>1, <2>2 DEF IInv
<1> QED
  BY <1>1, <1>2, <1>3, <1>4, <1>5, <1>6 DEF Next

\* The inductive invariant: types, and for each entry that its timers, the
\* expiries of its in-records and the Dead Nonce List agree.
THEOREM Invariance == Spec => []IInv
BY InitIInv, NextIInv, PTL DEF Spec

\* The variables keep their types in every behaviour.
THEOREM TypeCorrect == Spec => []TypeOK
<1>1. IInv => TypeOK
  BY DEF IInv
<1> QED
  BY <1>1, Invariance, PTL

\* An entry that holds records has exactly one of its timers armed, whatever
\* the interleaving of pipelines and timers (cancelUnsatisfyAndStragglerTimer,
\* setUnsatisfyTimer, setStragglerTimer).
THEOREM OneTimerHolds == Spec => []OneTimer
<1>1. IInv => OneTimer
  BY DEF IInv, EntryInv, OneTimerOf, OneTimer
<1> QED
  BY <1>1, Invariance, PTL

\* The unsatisfy timer runs to the expiry of the in-record that expires last
\* (setUnsatisfyTimer).
THEOREM ExpiresLastHolds == Spec => []ExpiresLast
<1>1. IInv => ExpiresLast
  BY DEF IInv, EntryInv, ExpiresLastOf, ExpiresLast
<1> QED
  BY <1>1, Invariance, PTL

\* No in-record holds a Nonce of the Dead Nonce List (findNonce and
\* DeadNonceList::has in onIncomingInterest, insertDeadNonceList).
THEOREM NoDeadNoncePendingHolds == Spec => []NoDeadNoncePending
<1>1. IInv => NoDeadNoncePending
  BY DEF IInv, EntryInv, NoncesAliveOf, NoDeadNoncePending
<1> QED
  BY <1>1, Invariance, PTL

-----------------------------------------------------------------------------
(* The refinement of InterestData.                                         *)

\* Steps after which no more Interests are pending, and that send no Data, are
\* steps of the contract.
LEMMA ForgetStep ==
  ASSUME Owed' \subseteq Owed, sent'.data = {}, faces' = faces
  PROVE  Contract!Next
BY DEF Contract!Next, Contract!Forget

LEMMA QuietStep ==
  ASSUME inRecords' = inRecords, sent'.data = {}, faces' = faces
  PROVE  Contract!Next
<1>1. Owed' \subseteq Owed
  BY DEF Owed
<1> QED
  BY <1>1, ForgetStep

LEMMA HitStep ==
  ASSUME TypeOK, NEW f \in Faces, NEW k \in Keys, NEW nonce, NEW d \in Datas,
         OnContentStoreHit(f, k, nonce, d)
  PROVE  Contract!Next
<1>1. f \in faces /\ d \in Match[k]
  BY DEF OnContentStoreHit, AcceptInterest, Arrives
<1>2. \A g \in Faces : <<g, k>> \notin Owed
  BY DEF OnContentStoreHit, IsPending, Owed
<1>3. sent'.data = OnOutgoingData(d, {f})
  BY DEF OnContentStoreHit
<1>4. OnOutgoingData(d, {f}) =
        {<<f, d>>} \cap {<<g, d>> : g \in {h \in Faces : Contract!InScope(h, d)}}
  BY SMTT(60), <1>1 DEF OnOutgoingData, Contract!InScope
<1>5. faces' = faces /\ Owed' = Owed
  BY DEF OnContentStoreHit, Owed
<1>6. Contract!AnswerFromCache(f, k, d)
  BY <1>1, <1>2, <1>3, <1>4, <1>5 DEF Contract!AnswerFromCache
<1> QED
  BY <1>6 DEF Contract!Next

LEMMA MissStep ==
  ASSUME TypeOK, NEW f \in Faces, NEW k \in Keys, NEW nonce \in Nonces,
         NEW lifetime \in Lifetimes, OnContentStoreMiss(f, k, nonce, lifetime)
  PROVE  Contract!Next
<1>1. f \in faces /\ faces' = faces
  BY DEF OnContentStoreMiss, AcceptInterest, Arrives
<1>2. sent'.data = {}
  BY MissEffect
<1>3. /\ inRecords'[k][f] = NewRecord(nonce, lifetime)
      /\ \A j \in Keys, g \in Faces :
           <<g, j>> # <<f, k>> => inRecords'[j][g] = inRecords[j][g]
  <2> DEFINE ins == InsertOrUpdate(inRecords[k], f, nonce, lifetime)
  <2>1. /\ ins[f] = NewRecord(nonce, lifetime)
        /\ \A g \in Faces \ {f} : ins[g] = inRecords[k][g]
    BY SMTT(60), InsertType DEF TypeOK
  <2>2. inRecords' = [inRecords EXCEPT ![k] = ins]
    BY SMTT(60), MissEffect
  <2> HIDE DEF ins
  <2> QED
    BY <2>1, <2>2 DEF TypeOK
<1>4. \A p \in Faces \X Keys : p # <<f, k>> => (p \in Owed' <=> p \in Owed)
  BY SMTT(60), <1>3 DEF Owed, Has
<1>5. <<f, k>> \in Owed' <=> lifetime > 0
  BY SMTT(60), <1>3, NewRecordType DEF Owed, Has
<1>6. Owed \subseteq Faces \X Keys /\ Owed' \subseteq Faces \X Keys
  BY DEF Owed
<1>7. CASE lifetime > 0
  <2>1. Owed' = Owed \cup {<<f, k>>}
    BY <1>4, <1>5, <1>6, <1>7
  <2>2. Contract!Ask(f, k)
    BY <1>1, <1>2, <2>1 DEF Contract!Ask
  <2> QED
    BY <2>2 DEF Contract!Next
<1>8. CASE ~(lifetime > 0)
  <2>1. Owed' \subseteq Owed
    BY <1>4, <1>5, <1>6, <1>8
  <2> QED
    BY <1>1, <1>2, <2>1, ForgetStep
<1> QED
  BY <1>7, <1>8

LEMMA SatisfyStep ==
  ASSUME IInv, NEW f \in Faces, NEW d \in Datas, OnIncomingData(f, d)
  PROVE  Contract!Next
<1> DEFINE matches == FindAllDataMatches(d)
           waiting == PendingDownstreams(matches) \ {f}
<1>1. f \in faces /\ faces' = faces /\ Contract!InScope(f, d)
  BY DEF OnIncomingData, AcceptData, Arrives, Contract!InScope
<1>2. ASSUME NEW p \in Owed
      PROVE  p[2] \in pit
  BY <1>2 DEF Owed, IInv, EntryInv, OneTimerOf, HasRecords
<1>3. \A g \in Faces : g \in PendingDownstreams(matches) <=> Contract!WaitFor(g, d)
  <2>1. ASSUME NEW g \in Faces, g \in PendingDownstreams(matches)
        PROVE  Contract!WaitFor(g, d)
    BY <2>1 DEF PendingDownstreams, PendingFaces, FindAllDataMatches, Contract!WaitFor,
                Owed, IInv, TypeOK
  <2>2. ASSUME NEW g \in Faces, Contract!WaitFor(g, d)
        PROVE  g \in PendingDownstreams(matches)
    <3>1. PICK k \in Keys : d \in Match[k] /\ <<g, k>> \in Owed
      BY <2>2 DEF Contract!WaitFor
    <3>2. k \in matches
      BY <1>2, <3>1 DEF FindAllDataMatches
    <3>3. g \in PendingFaces(inRecords[k])
      BY <3>1 DEF Owed, PendingFaces
    <3> QED
      BY <3>2, <3>3 DEF PendingDownstreams
  <2> QED
    BY <2>1, <2>2
<1>4. sent'.data = OnOutgoingData(d, waiting)
  BY DEF OnIncomingData
<1>5. {g \in waiting \cap faces : g \in LocalFaces \/ d \notin LocalhostDatas}
        = {g \in faces \ {f} : Contract!WaitFor(g, d) /\ Contract!InScope(g, d)}
  BY <1>3 DEF Contract!InScope, IInv, TypeOK
<1>6. sent'.data = {<<h, d>> : h \in {g \in faces \ {f} : /\ Contract!WaitFor(g, d)
                                                        /\ Contract!InScope(g, d)}}
  BY <1>4, <1>5 DEF OnOutgoingData
<1>7. Owed' = {p \in Owed : d \notin Match[p[2]]}
  <2>1. ASSUME NEW p \in Faces \X Keys
        PROVE  p \in Owed' <=> (p \in Owed /\ d \notin Match[p[2]])
    <3>1. CASE p[2] \in matches
      BY <3>1, EmptyType DEF OnIncomingData, Owed, Has, FindAllDataMatches
    <3>2. CASE p[2] \notin matches
      <4>1. p \in Owed' <=> p \in Owed
        BY <3>2 DEF OnIncomingData, Owed
      <4>2. p \in Owed => d \notin Match[p[2]]
        BY <1>2, <3>2 DEF FindAllDataMatches
      <4> QED
        BY <4>1, <4>2
    <3> QED
      BY <3>1, <3>2
  <2>2. Owed \subseteq Faces \X Keys /\ Owed' \subseteq Faces \X Keys
    BY DEF Owed
  <2> QED
    BY <2>1, <2>2
<1>8. Contract!Satisfy(f, d)
  BY <1>1, <1>6, <1>7 DEF Contract!Satisfy
<1> QED
  BY <1>8 DEF Contract!Next

LEMMA TickStep ==
  ASSUME TypeOK, Tick
  PROVE  Contract!Next
<1>1. sent'.data = {} /\ faces' = faces
  BY NothingType DEF Tick
<1>2. ASSUME NEW p \in Faces \X Keys, p \in Owed'
      PROVE  p \in Owed
  <2> DEFINE r == inRecords[p[2]][p[1]]
  <2>1. /\ inRecords'[p[2]] = AgeCollection(inRecords[p[2]])
        /\ inRecords[p[2]] \in Collection
    BY DEF Tick, TypeOK
  <2>2. Has(inRecords[p[2]], p[1])
    BY <1>2, <2>1, AgeType DEF Owed
  <2>3. r \in Record
    BY <2>1, <2>2 DEF Collection, Has
  <2>4. inRecords'[p[2]][p[1]].expiry = IF r.expiry >= 0 THEN r.expiry - 1 ELSE r.expiry
    BY <2>1, <2>2, AgeType
  <2>5. inRecords'[p[2]][p[1]].expiry > 0
    BY <1>2 DEF Owed
  <2>6. r.expiry > 0
    BY SMTT(60), <2>3, <2>4, <2>5 DEF Record
  <2> QED
    BY <2>2, <2>6 DEF Owed
<1>3. Owed' \subseteq Owed
  BY <1>2 DEF Owed
<1> QED
  BY <1>1, <1>3, ForgetStep

LEMMA ContractStep == IInv /\ [Next]_vars => [Contract!Next]_(Contract!contractVars)
<1> SUFFICES ASSUME IInv, [Next]_vars
             PROVE  Contract!Next \/ UNCHANGED Contract!contractVars
  OBVIOUS
<1> USE DEF IInv
<1>1. ASSUME NEW f \in Faces, NEW k \in Keys, NEW nonce \in Nonces,
             OnIncomingInterest(f, k, nonce)
      PROVE  Contract!Next
  <2>1. CASE DropInterest(f, k) \/ OnInterestLoop(f, k, nonce)
    BY <2>1, QuietStep, NothingType DEF DropInterest, OnInterestLoop
  <2> QED
    BY <1>1, <2>1, HitStep, MissStep DEF OnIncomingInterest
<1>2. ASSUME NEW f \in Faces, NEW d \in Datas,
             OnDataUnsolicited(f, d) \/ OnIncomingData(f, d)
      PROVE  Contract!Next
  <2>1. CASE OnDataUnsolicited(f, d)
    BY <2>1, QuietStep, NothingType DEF OnDataUnsolicited
  <2> QED
    BY <1>2, <2>1, SatisfyStep
<1>3. ASSUME NEW k \in Keys, Timers(k)
      PROVE  Contract!Next
  <2>1. /\ inRecords' = [inRecords EXCEPT ![k] = EmptyCollection]
        /\ sent'.data = {} /\ faces' = faces
    BY <1>3, NothingType
    DEF Timers, OnInterestUnsatisfied, StragglerTimer, OnInterestFinalize
  <2>2. Owed' \subseteq Owed
    BY <2>1, EmptyType DEF Owed, Has, TypeOK
  <2> QED
    BY <2>1, <2>2, ForgetStep
<1>4. CASE Tick
  BY <1>4, TickStep
<1>5. ASSUME NEW f \in Faces, RemoveFace(f)
      PROVE  Contract!Next
  <2>1. Owed' = Owed /\ sent'.data = {} /\ faces' = faces \ {f}
    BY <1>5, NothingType DEF RemoveFace, Owed
  <2> QED
    BY <2>1 DEF Contract!Next, Contract!FaceDown
<1>6. CASE CleanExpired \/ AdjustCapacity
  BY <1>6, QuietStep, NothingType DEF CleanExpired, AdjustCapacity
<1>7. CASE UNCHANGED vars
  BY <1>7 DEF vars, Contract!contractVars, Owed
<1> QED
  BY <1>1, <1>2, <1>3, <1>4, <1>5, <1>6, <1>7 DEF Next

LEMMA ContractInit == Init => Contract!Init
<1> SUFFICES ASSUME Init
             PROVE  Contract!Init
  OBVIOUS
<1>1. ASSUME NEW k \in Keys, NEW f \in Faces
      PROVE  ~Has(inRecords[k], f)
  BY EmptyType DEF Init, Has
<1>2. Owed = {}
  BY <1>1 DEF Owed
<1>3. faces = Faces /\ sent.data = {}
  BY NothingType DEF Init
<1> QED
  BY <1>2, <1>3 DEF Contract!Init

\* The pipelines implement the contract with the downstream faces: Data only
\* for a pending Interest, to every face that waits for it, once (onIncomingData
\* and onContentStoreHit), whatever the strategies and the timers do.
THEOREM Refinement == Spec => ImplementsInterestData
BY Invariance, ContractInit, ContractStep, PTL
DEF Spec, ImplementsInterestData, Contract!Spec

=============================================================================
