# TLA+ models of NCFCC

NCFCC is a fork of ndnSIM, an ns-3 simulator of Named Data Networking, with a
congestion-control scheme of its own. This directory holds TLA+ modules of its
core, TLC configurations that check them on small instances, and proofs that
TLAPS checks for every instance.

## The system

A simulated node runs

* **applications**: a consumer (`apps/FullyDistributed.cpp` over
  `apps/ndn-consumer.cpp`) requests packets 0, 1, ... by Interests, retransmits
  those that time out and adapts a window; four stock consumers share its base
  class and differ in when they send; a producer answers; an application
  (`apps/rsr.cpp`) sends a Reduce-Sending-Rate (RSR) Interest;
* **the forwarder** (`NFD/daemon/fw/forwarder.cpp`): pipelines for incoming and
  outgoing Interests and Data over the Pending Interest Table (PIT), the Content
  Store (CS), the FIB and the Dead Nonce List (DNL), and a strategy per name
  prefix that decides where an Interest goes;
* **the Content Store** (`NFD/daemon/table/cs*.cpp`) with two replacement policies;
* **faces** that join the forwarder to applications and to net devices.

The repository also holds the stand-alone NFD, of which two parts are modelled:

* **the RIB daemon** (`NFD/rib/`), which turns routes with inheritance flags into
  commands for the forwarder's FIB, one update at a time;
* **NDNLP** (`NFD/daemon/face/ndnlp-*.cpp`, `ethernet-face.cpp`), which slices
  packets for Ethernet and puts them together again.

Everything runs in a single thread, the ns-3 event loop or that of a daemon. A
pipeline or a callback runs to completion inside one event, so one event is one
action here. What makes the code hard is the order of these events: packets,
per-entry timers, retransmission timers, scheduled `SendPacket` events, answers to
FIB commands, lost and duplicated fragments, faces that go down.

`PROJECT.json` lists every part with its status, and the hazards with the
properties aimed at them.

## Modules

| Module | Models |
| --- | --- |
| `Consumer` | `ns3::ndn::Consumer`: sequence numbers, timeouts, retransmission, RTT history |
| `FullyDistributed` | the NCFCC consumer: window, packets in flight, `SendPacket` events; extends `Consumer` |
| `StockConsumers` | `ConsumerWindow`, `ConsumerCbr`, `ConsumerZipfMandelbrot`, `ConsumerBatches`; extends `Consumer` |
| `PitEntry` | `pit::Entry` and its face records, as operators |
| `Strategies` | best-route, best-route 2, multicast (and broadcast), client-control: the sets of decisions each may take |
| `Forwarder` | the pipelines over faces, PIT with timers, CS and DNL; extends `Strategies` |
| `InterestData` | the abstract contract a forwarder offers its downstream faces |
| `ContentStore` | `cs::Cs`, the priority-FIFO and LRU policies, staleness timers, lookup |
| `FibUpdater` | the computations of `rib::FibUpdater` over the tree of RIB entries |
| `Rib` | the RIB daemon: tree, queue of updates, FIB commands and answers, expiring routes, destroyed faces; extends `FibUpdater` |
| `Ndnlp` | slicer, sequence numbers, partial messages and reassemblers of a multicast group |
| `MCForwarder`, `MCContentStore`, `MCRib`, `MCNdnlp` | constants for TLC |
| `FullyDistributedProofs`, `StockConsumersProofs` | theorems about the consumers |
| `ForwarderProofs` | theorems about the forwarder |
| `ContentStoreProofs`, `NdnlpProofs` | theorems about the Content Store and NDNLP |
| `RibTreeProofs`, `RibUpdateProofs`, `RibProofs` | lemmas on the tree of the RIB and on the updates computed from it, theorems about the RIB daemon |

`map` in `PROJECT.json` gives the source lines of each definition. Definitions
with a suffix (`PendingFaces_Expired`) are deliberately wrong variants; the
properties must fail when they replace the right ones.

### Consumer and FullyDistributed

State keeps the source's names. `m_seqTimeouts` maps a number to its rank by send
time (0: absent), because only the order of send times matters: the retry timer
always takes the oldest entry. `m_history` is the RTT estimator's list of sent
numbers, with its retransmission mark. `pit` and `arriving` are the forwarder as
the consumer sees it: an Interest is answered once or expires, and the answer is
delivered by a later event (`AppFace::sendData` schedules `OnData`).

Several `SendPacket` events can be pending. `m_sendEvent` tells whether the one
the variable of that name refers to is pending, and `orphans` counts those whose
handle was overwritten while the window was full.

* `CheckRetxTimeout` is one `OnTimeout` step per expired entry; which entries have
  expired is left open, so consecutive steps are the iterations of its loop.
* `m_window * (1/3)` and `m_window * (1/2)` are integer expressions, as in C++.
* `OnRsr` has no caller in the repository: the action shows what happens if it is
  connected. `MaxRsr = 0` leaves it out; the violation runs do so.
* `m_ssthresh` is written and never read. `OnTimeout1` and `fast_retransmission`
  have no caller. These are left out.
* The 32-bit counters are natural numbers. The window never exceeds the larger of
  its initial value and its cap; `m_inFlight` is decremented only after a test for
  zero, and the type invariant depends on that test.

### StockConsumers

One module for four classes: `kind` tells which one runs, and `ScheduleNextPacket`
is the only operation that differs in all of them. `m_seqMax` is what has been
released so far; only `AddBatch` changes it. The Zipf-Mandelbrot consumer may ask
for a number again, so a new Interest takes any number. Its contents are numbered
like packets. Windows above the number of packets are one value (`MaxWindow`).
`ConsumerWindow::OnData` goes on after `Consumer::OnData` has returned early for a
stopped application, and so does the action.

### PitEntry, Strategies and Forwarder

A PIT key is an Interest's Name with its Selectors. The collections of records are
functions from faces to records. Times are relative: `expiry` is the time left,
`renewed` the age of a record, and a timer the time left or `Off`. `Tick` advances
the clock and is disabled while a timer is due, as the simulator runs all events
of an instant before the next one. Packets of that instant may come before or
after the timers.

| Code | Action |
| --- | --- |
| `onIncomingInterest`, /localhost violation | `DropInterest` |
| ... duplicate Nonce, `onInterestLoop` | `OnInterestLoop` |
| ... `onContentStoreHit`, `onOutgoingData` | `OnContentStoreHit` |
| ... `onContentStoreMiss`, `setUnsatisfyTimer`, the strategy, `onOutgoingInterest`, `onInterestReject` | `OnContentStoreMiss` |
| `onIncomingData`, `onOutgoingData` | `OnIncomingData` |
| `onDataUnsolicited` | `OnDataUnsolicited` |
| unsatisfy timer, `onInterestFinalize` | `OnInterestUnsatisfied` |
| straggler timer, `onInterestFinalize` | `StragglerTimer` |
| `FaceTable::remove` | `RemoveFace` |
| `ContentStoreWithFreshness::CleanExpired` | `CleanExpired` |
| `DeadNonceList::adjustCapacity` | `AdjustCapacity` |

Choices that stand for abstracted data: which Data in the CS matches, whether a
`MustBeFresh` Interest finds its Data stale, what the CS and the DNL evict when
something is inserted, whether best-route 2 suppresses a retransmission, the
nexthop an Interest names for client-control. `deadAtFinalize` is the argument
bound to the straggler timer. `sent` holds the packets of the last step only.

`InterestData` says what downstream faces may rely on. Data is sent only to faces
with an unexpired Interest that it satisfies (or straight from the cache to the
asking face), to *all* of them that are up, except the face it came from and those
out of scope, and the Interests are then settled. The mapping takes `owed` from the
unexpired in-records, `answers` from the Data sent and `up` from the faces.

### ContentStore

A packet is its full name, a sequence of numbers that ends with the implicit
digest; names are ordered as `Name::compare` orders them. `InsertNew` and `Refresh`
are the two cases of `Cs::insert`, each with what the policy does afterwards,
eviction included. `Detach` and `Attach` stand for `detachQueue`/`attachQueue` and,
under LRU, for the relocation in its queue. The timer of an entry
(`moveStaleEvent`) and the time until it is stale (`staleIn`) are separate, because
a refresh must renew both. `find` changes state under LRU only. `findRightmost`
follows the backward walk of the code; `FindsSelectedChild` compares it with what
the ChildSelector means.

### FibUpdater and Rib

`FibUpdater` is pure: given the RIB and an update it returns the commands for the
update's own face, those for other faces, and the changes to the inherited routes,
case by case as the source does. `traverseSubTree` visits each entry once and adds at
most one element for a name and a face to a list, and elements for different names or
faces do not affect each other. Therefore a traversal is one set of changes over all
entries it reaches (`Reached`), and not a fold over the tree.

`Rib` keeps the daemon's state. A handler may go on to the next update of the queue
when an update needs no command, so handlers are functions on a record of the state
(`Daemon`), and an action assigns the result (`Becomes`). `inFlight` counts the copies
of each command without an answer. Each carries the update its callbacks are bound to,
while its answer is matched against the lists of the update processed *now*, as in
`onUpdateSuccess` and `onUpdateError`.

| Code | Action |
| --- | --- |
| `registerEntry`, `beginApplyUpdate`, scheduling of the expiration | `registerEntry` |
| `unregisterEntry` | `unregisterEntry` |
| `Rib::onRouteExpiration` | `onRouteExpiration` |
| `FibManager`, `Controller::processCommandResponse`, `onUpdateSuccess`, `onUpdateError` (410), `onFibUpdateSuccess`, `onFibUpdateFailure` | `FibAnswer` |
| the timeout of `Controller::startCommand`, `onUpdateError`, with the command carried out or not | `FibTimeout` |
| an answer with another code or a malformed one, `onUpdateError` (exception) | `FibError` |
| `FaceTable::remove`, its notification or the loss of it | `FaceDestroyed` |
| `onFaceDestroyedEvent` | `onFaceDestroyedEvent` |
| `fetchActiveFaces`, `removeInvalidFaces` | `removeInvalidFaces` |

`aborted` means that an assertion failed or an exception ended the daemon.
A prefix has one route per face: the origin of routes is fixed. `m_faceMap` is a set
of names per face; the code's list is in the order of insertion, and
`onFaceDestroyedEvent` takes the names in any order (`Listings`), that one included.

### Ndnlp

A payload is a range of bytes of a packet. The network keeps every fragment ever
sent and delivers any of them at any time: loss, delay, duplication and reordering
need no actions of their own. The sizes of fragments are computed as the encoder
does (`encodeFragment`), with the estimate the slicer makes. A receiver has one
store per source address, with a timer per partial message and one for the store.

## Runs

Passing runs:

| Run | Instance | Distinct states | Shows |
| --- | --- | --- | --- |
| `consumer` | 3 packets, window 2, cap 3, 1 RSR | 246,329 | `TypeOK`, `NoSeqLost`, `KarnRule`, `NoStall`, `NoResend`, `EventuallyReceived` |
| `stock_consumers` | 3 packets, four classes, initial windows 0 and 2 | 184,321 | `TypeOK`, `OneSendEvent`, `InFlightIsReal`, `NoStall`, `KeepsSeqs`, `KeepsKarnRule`, `EventuallyServed` |
| `forwarder` | 1 key, any strategy, lifetimes 0 and 2, 4 packets, 1 face may fail | 165,474 | `TypeOK`, `OneTimer`, `ExpiresLast`, `NoDeadNoncePending`, `ImplementsInterestData`, `EntriesFinish` |
| `forwarder_names` | 2 keys, one Name a prefix of the other, one under /localhost, two local faces, multicast | 138,958 | `ImplementsInterestData` |
| `content_store` | 5 packets, capacity up to 4, both policies, 8 Interests | 47,620 | `TypeOK`, `QueuesExact`, `TimersExact`, `WithinLimit`, `FindsSelectedChild`, `EvictionOrder` |
| `rib` | 3 nested prefixes, 2 faces, 2 costs, child-inherit routes, 4 requests, the second of which may expire | 498,520 | `FibMatchesRib`, `AssertionsHold` |
| `rib_faults` | the same prefixes, child-inherit with and without capture, timeouts and other errors, a face that is destroyed | 381,748 | `TypeOK`, `TreeConsistent`, `FaceMapExact`, `NoStall` |
| `ndnlp` | 2 senders, packets of 1, 2, 2 and 4 fragments | 178,200 | `TypeOK`, `FragmentsFit`, `DeliversWhatWasSent`, `NothingLostAtExpiry` |

The other four runs each check one statement that a comment, an attribute's
description or an assertion makes and that the code does not meet. TLC finds the
counterexample; `findings` in `PROJECT.json` quotes the statement.

| Property | Statement | Code |
| --- | --- | --- |
| `SendsWithinWindow` | `FullyDistributed.cpp:75` | a full window delays `SendPacket` but does not prevent it |
| `TimeoutDisablesSample` | `ndn-consumer.cpp:289` | after `AddBatch` has cleared the history, a timeout creates a usable sample |
| `AssertionsHold` | `rib.cpp:457` | removing the last route of a prefix, a capture route, gives the removed entry an inherited route |
| `FailedNotApplied` | `rib.hpp:109` | a late answer to a failed update is counted for the next one and applies the failed one |

Other places where reading the code for the models showed it to differ from its
description, without a run of their own:

* `FullyDistributed.cpp:78` describes `InFlight` as the number of outstanding
  Interests: Data at the cap is not counted off, late Data is counted off twice.
* `FullyDistributed.cpp:250` speaks of a reduction by a third: `1/3` is 0, so the
  window closes.
* `ndn-consumer.cpp:149` cancels one send event: orphaned and later ones stay.
* `forwarder.cpp:178` promises the last incoming Interest: the comparison picks the
  in-record renewed longest ago.
* `RELEASE_NOTES.rst:693` limits /localhop to one hop: one local in-record opens the
  scope for the whole entry.
* `dead-nonce-list.hpp:40` says that erased Nonces are added: most are not.

`FibMatchesRib` is about the nexthops of every prefix and the costs of its own routes.
It is checked where it holds. TLC finds it violated when the instance of `rib` is
changed in one of three ways, and a stronger form in a fourth:

* routes without child-inherit (and four requests): an entry that inherits a face and
  gets such a route keeps the inherited record, and the removal of the record removes
  the nexthop of the entry's own route;
* timeouts: a remove command is retried as an add command;
* a face that may be destroyed: the late answers of `FailedNotApplied`;
* five requests, if the costs of inherited nexthops are compared too: when a route of
  an entry is erased, `createFibUpdatesForErasedRoute` passes all routes from above the
  entry on to its children, also those of a face on which the entry keeps a route of
  its own, and the children get the cost of the farther route. The children then hold
  such a face twice in their inherited routes, which `RibEntry` allows.

### Bounds

* `SeqMax`: three packets give a retransmission, a new packet and a late answer at
  the same time, and reach the window cap.
* `MaxOrphans = 6` keeps the number of orphaned events finite. A step that would
  exceed it is not taken.
* `MaxRsr = 1`: an RSR closes the window; a second one changes nothing new.
* `MaxPackets = 4` bounds Interests and Data together: two downstreams, an answer
  and a late packet in the straggler time. Three faces give a local and a remote
  downstream and an upstream (in `forwarder_names`, two local faces and a remote one,
  and symmetric Nonces, which are only compared with each other).
* Lifetimes 0 and 2 with a straggler time of 1: an entry expires before, at and
  after the straggler timer, and at the instant it is created.
* `MayFail`: the faces that may go down.
* `stock_consumers`: an initial window of 0 is an open window, 2 is below the number
  of packets. The other classes have no window.
* `MaxRequests`: three requests are a parent, a child and a change of either, with a
  request queued while another waits for the FIB; `rib` has four, so that all three
  levels have routes before one changes. Three nested prefixes give an entry a parent
  and a child. In `rib` the two faces are symmetric.
  `MAX_NUM_TIMEOUTS = 1` has one retry and the exception after it.
* `MaxLimit = 4` with five packets: the store overflows, and the capacity changes
  under a full store. Freshness 0, 1, 2 and none.
* `Mtu = 279` leaves payloads of 253 bytes, the least whose length takes three bytes,
  and the packets have one full fragment, one more with a single byte, and several full
  ones. Sizes around the other lengths are left to the theorem `FragmentsFitHolds`.
  `MaxSeq = 4` lets each sender send one to four packets.
  An idle time of 1 and a lifetime of 2 keep the order of 100 ms and 60 s.

Deadlock is checked for `content_store` and `ndnlp`, where time always goes on. In
the others the system may stop: a consumer that is finished or stopped, a forwarder
without traffic and a RIB without requests have no further events.

### Fairness

`FullyDistributed!FairSpec`: the simulator runs every scheduled event, so
`StartApplication`, `SendPacket`, `OnData` and the retry timer are weakly fair. A
packet asked for again and again is answered in the end (strong fairness of the
answer); without it nothing could be promised over a lossy network.
`StockConsumers!FairSpec` assumes the same. `StopApplication` and further batches
need not happen.
`Forwarder!FairSpec`: timers that are due fire and time goes on. Liveness of the
entries holds once packets stop arriving (`MaxPackets`): Data that keeps coming
re-arms the straggler timer each time.
The RIB has no fairness: `NoStall` states what its progress needs as an invariant,
that whenever updates wait, the answer to some command is still to come.

## Proofs

All theorems hold for every value of the constants allowed by the named
assumptions: any number of packets, any window and cap; any sets of faces, keys,
Nonces and Data, any FIB. The forwarder's proofs never expand the strategies, so
they hold whatever a strategy decides.

* **Consumer** (`FullyDistributedProofs`): `TypeCorrect`, `NoSeqLostHolds`,
  `KarnRuleHolds`, `NoStallHolds`, `NoResendHolds`. The inductive invariant adds to
  `NoSeqLost` and `KarnRule` that only requested numbers are answered
  (`OnlyRequested`): without it, Data for a number never asked for would break
  `NoSeqLost`. One lemma per event shows that it keeps all parts together.
* **Stock consumers** (`StockConsumersProofs`): `TypeCorrect`, `OneSendEventHolds`,
  `InFlightIsRealHolds`, `KeepsSeqsHolds`, `KeepsKarnRuleHolds`, `NoStallHolds`. Lemmas
  say what each operation of the base class does to each part of the invariant (types,
  bookkeeping, Karn's rule), because the classes keep different parts: the bookkeeping
  holds for all but Zipf and Karn's rule for all but batches. The invariant strengthens `NoStall` to `Awake` (without an event the
  window is full), from which `InFlightIsReal` gives an outstanding packet, and adds
  that the first call of `ConsumerCbr::ScheduleNextPacket` finds no event.
* **Forwarder** (`ForwarderProofs`): `TypeCorrect`, `OneTimerHolds`,
  `ExpiresLastHolds`, `NoDeadNoncePendingHolds`. The invariant `IInv` is stated per
  entry. A step changes the entry of its own key, or those that a Data satisfies,
  and the lemma `Untouched` settles all others.
* **Refinement** (`ForwarderProofs`): `Refinement` proves
  `Spec => ImplementsInterestData`. Each action is mapped to a step of the contract
  or to a stutter. `IInv` is needed to know that records exist only for entries in
  the PIT: Data that matches no entry is owed to nobody.
* **Content Store** (`ContentStoreProofs`): `TypeCorrect`, `QueuesExactHolds`,
  `TimersExactHolds`, `WithinLimitHolds`, `EvictionOrderHolds`, for any finite set of
  packets. Lemmas say what dropping, detaching and attaching do to sequences without
  duplicates. `StoreInv` relates the place of every entry to its state and timer;
  it is stated for any table, queues and timers, because eviction starts from an
  intermediate state. The number of entries equals the lengths of the queues
  together, so evicting the surplus reaches the limit.
* **NDNLP** (`NdnlpProofs`): `TypeCorrect`, `FragmentsFitHolds`,
  `DeliversWhatWasSentHolds`, `NothingLostAtExpiryHolds`, for any senders, packet
  sizes, MTU with room for a payload, and an idle time below the lifetime of a reassembler. The slicer's lemmas (`Tiles`,
  `FitsMtu`) show that payloads tile the packet and that the estimate bounds every
  header. The invariant says that a message identifier belongs to one packet of a
  sender, that partial messages hold payloads of their own message, and that a
  partial message expires before the reassembler that holds it.

* **RIB, in all cases** (`RibTreeProofs`, `RibProofs`): `TypeCorrect`, `TreeStaysConsistent`,
  `FaceMapStaysExact`, `NeverStalls`, for any names, faces, costs and flags, any number
  of requests, with expirations, timeouts, other errors and destroyed faces. `RibTreeProofs` shows
  that inserting and erasing an entry keep the tree (`InsertTree`, `EraseTree`), that
  `getAncestorRoutes` gives the nearest giver of each face (`AncestorsAre`: its
  recursion has one solution, by the shortest name at which two would differ), and that
  `computeUpdates` sorts its commands by face, one for a name and a face
  (`ComputeUpdatesType`). The inductive invariant is `DaemonSettled`: besides types,
  tree and table of faces, a busy daemon has a command in flight for *every* update of
  the list it waits for (`Waiting`), and a daemon that is not busy has an empty queue.
  `NoStall` alone would not survive an answer, as it does not tell which list the
  remaining commands belong to. Handlers run to the end of the queue, so the proof goes
  along their loops: `Sound` holds after each call, `Steady` between two updates of the
  queue (`SendLoop`), `Settled` between two handlers.
* **RIB, the FIB follows it** (`RibUpdateProofs`, `RibProofs`): `FibStaysRight` and
  `NeverAborts` prove `FibMatchesRib` and `AssertionsHold` under `Defaults`: routes are
  registered with the default flags (child-inherit, no capture), and no command fails or
  times out and no face is destroyed. The names, faces, costs, the number of requests and
  the expirations are free. These are the conditions under which the two hold (see
  the exceptions above). The inductive invariant is `FibFollows`. It adds to
  `DaemonSettled` that an idle daemon's RIB matches the FIB (`Match`) and that every
  entry has records of what it inherits on faces without a route of its own (`Complete`): `FibUpdater` computes
  its increments from those records, so the match alone is not inductive. While an update is
  in progress, the commands in flight are those of the list the daemon waits for, and
  the FIB differs from what the finished update requires only where a command is still
  to be answered (`InProgress`). `RibUpdateProofs` shows for each case of
  `computeUpdates` (a new entry, a new route, a changed route, an erased route, an
  erased entry) that commands and inherited records together turn agreement with the
  old RIB into agreement with the new one. Nothing is proved about the costs of
  inherited nexthops, which `FibMatchesRib` leaves open.
* The facts about finite sets that the RIB proofs need are collected in `LibraryFacts`,
  which the lemmas assume and `FactsHold` proves from `FiniteSetTheorems` at the end.

Liveness is only model-checked, since the prover has no fairness reasoning. So are
the violated statements and `FindsSelectedChild` (its search is a recursive function). TLC also checks the
definitions of the strategies only as far as the runs use them.

## Not modelled

* Packet encoding (but for the lengths of NDNLP fragments), the name tree, the
  management protocols, the socket faces, helpers and scenarios.
* The NCC and access strategies: they send again later by timers of their own.
* The arithmetic of the RTT estimator (floating point), of retransmission
  suppression and of the DNL's capacity.
* Content Store: Interests that end with an implicit digest, and Selectors other
  than ChildSelector and MustBeFresh. The stores in `model/cs` appear only as the
  choices `Forwarder` makes for its CS.
* RIB: several origins for one face, authorization, datasets, remote registration.
* Liveness of the RIB under fairness; its state space is too large for TLC.
* NDNLP: a sender that restarts its sequence numbers, numbers that wrap at 64 bits,
  and an MTU too small for a payload (excluded by `MtuAssumption`).
* In the forwarder, updates of the FIB and of the strategy choice; new faces.
* A PIT entry created for a looping Interest has no timer and stays. Nothing in the
  repository says otherwise, so `OneTimer` is about entries with records or a timer.

## Next

1. `ContentStore` and `Rib` composed with `Forwarder`, in place of the choices
   `CsInsert` and the constant `Fib`.
2. The DNL with its queue, marks and capacity, refining the set used by `Forwarder`.
3. The NCC and access strategies with their timers over `Forwarder`.
4. A consumer composed with a forwarder in place of `pit` and `arriving`.
