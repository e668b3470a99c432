------------------------------ MODULE PitEntry ------------------------------
(***************************************************************************)
(* One entry of the Pending Interest Table: its in-records and out-records *)
(* (nfd::pit::Entry, pit::FaceRecord) and the questions that the pipelines *)
(* and the strategies ask about them.                                      *)
(*                                                                         *)
(* A collection of records is a function from faces to records.  Times are *)
(* relative to the present: "expiry" is the time left (0 at the expiry     *)
(* itself, -1 from then on) and "renewed" the time since the last update.  *)
(***************************************************************************)
EXTENDS Integers

CONSTANTS
  Faces,
  LocalFaces,      \* faces to applications on the node
  Keys,            \* the Interests, Name and Selectors: the keys of the PIT
  LocalhostKeys,   \* those under /localhost
  LocalhopKeys,    \* those under /localhop
  Nonces,
  Lifetimes,       \* InterestLifetime values, in ticks
  NoRecord         \* stands for the absence of a record

ASSUME PitAssumption ==
  /\ LocalFaces \subseteq Faces
  /\ LocalhostKeys \subseteq Keys
  /\ LocalhopKeys \subseteq Keys
  /\ Lifetimes \subseteq Nat

Record == [nonce : Nonces, lifetime : Lifetimes, expiry : Nat \cup {-1},
           renewed : Nat]

ASSUME NoRecordAssumption == NoRecord \notin Record

Collection == [Faces -> Record \cup {NoRecord}]

EmptyCollection == [f \in Faces |-> NoRecord]

Has(records, f) == records[f] # NoRecord

\* FaceRecord::update; the lifetime is never negative here.
NewRecord(nonce, lifetime) ==
  [nonce |-> nonce, lifetime |-> lifetime, expiry |-> lifetime, renewed |-> 0]

\* insertOrUpdateInRecord, insertOrUpdateOutRecord
InsertOrUpdate(records, f, nonce, lifetime) ==
  [records EXCEPT ![f] = NewRecord(nonce, lifetime)]

DeleteRecord(records, f) == [records EXCEPT ![f] = NoRecord]

\* A tick of the clock.
AgeRecord(r) ==
  IF r = NoRecord
    THEN NoRecord
    ELSE [nonce |-> r.nonce, lifetime |-> r.lifetime,
          expiry |-> IF r.expiry >= 0 THEN r.expiry - 1 ELSE r.expiry,
          renewed |-> r.renewed + 1]

AgeCollection(records) == [f \in Faces |-> AgeRecord(records[f])]

-----------------------------------------------------------------------------
\* Records expiring right now still count, here and in CanForwardTo ...
HasUnexpired(records) == \E f \in Faces : Has(records, f) /\ records[f].expiry >= 0

\* ... but not for the incoming Data pipeline, which compares with >.
PendingFaces_Expired(inRecords) == {f \in Faces : Has(inRecords, f)}

PendingFaces(inRecords) ==
  {f \in Faces : Has(inRecords, f) /\ inRecords[f].expiry > 0}

FindNonce(inRecords, outRecords, nonce) ==
  \E f \in Faces :
    \/ Has(inRecords, f) /\ inRecords[f].nonce = nonce
    \/ Has(outRecords, f) /\ outRecords[f].nonce = nonce

HasLocalInRecord(inRecords) == \E f \in LocalFaces : Has(inRecords, f)

ViolatesScope(k, inRecords, f) ==
  /\ f \notin LocalFaces
  /\ \/ k \in LocalhostKeys
     \/ k \in LocalhopKeys /\ ~HasLocalInRecord(inRecords)

CanForwardTo(k, inRecords, outRecords, f) ==
  /\ ~(Has(outRecords, f) /\ outRecords[f].expiry >= 0)
  /\ \E g \in Faces \ {f} : Has(inRecords, g) /\ inRecords[g].expiry >= 0
  /\ ~ViolatesScope(k, inRecords, f)

\* compare_pickInterest under std::max_element: the in-records that may be
\* picked for outFace.  An in-record of another face is preferred, and among
\* these the one renewed longest ago.
Pickable(inRecords, outFace) ==
  LET present == {f \in Faces : Has(inRecords, f)}
      others == present \ {outFace}
      candidates == IF others # {} THEN others ELSE present
  IN  {f \in candidates :
         \A g \in candidates : inRecords[g].renewed <= inRecords[f].renewed}

\* setUnsatisfyTimer: f has an in-record that expires last.
IsLastExpiring_Newest(inRecords, f) ==
  /\ Has(inRecords, f)
  /\ \A g \in Faces : Has(inRecords, g) => inRecords[g].renewed >= inRecords[f].renewed

IsLastExpiring(inRecords, f) ==
  /\ Has(inRecords, f)
  /\ \A g \in Faces : Has(inRecords, g) => inRecords[g].expiry <= inRecords[f].expiry

=============================================================================
