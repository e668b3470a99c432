----------------------------- MODULE RibProofs ------------------------------
(***************************************************************************)
(* The RIB daemon, for every set of names, faces, costs and flags, with    *)
(* expiring routes, FIB commands that time out and faces that are          *)
(* destroyed: the tree and the table of faces stay consistent, and the     *)
(* queue never stalls.  With the default flags and without faults, the FIB *)
(* holds what the RIB says whenever the daemon is idle, and no assertion   *)
(* fails.                                                                  *)
(*                                                                         *)
(* NoStall is not inductive.  What is (Settled) says that a busy daemon    *)
(* has a command in flight for each update of the list it waits for, and   *)
(* that a daemon that is not busy has an empty queue.  Sound and Steady    *)
(* are the parts of it that hold inside a handler.                         *)
(*                                                                         *)
(* FibMatchesRib is not inductive either.  What is (Follows) says of a     *)
(* busy daemon that the updates still pending lead from the FIB as it is   *)
(* to the one the RIB asks for, once the update is applied.                *)
(***************************************************************************)
EXTENDS RibUpdateProofs

USE ZenonT(60), SMTT(60)

-----------------------------------------------------------------------------
(* The loops                                                               *)

\* modifyInheritedRoutes takes one step for each element of its list.
LEMMA ModifyLoop ==
  ASSUME LibraryFacts, NEW d, NEW list, Len(list) \in Nat
  PROVE  \E after :
           /\ after[0] = d
           /\ \A i \in 1 .. Len(list) : after[i] = ModifyEach(after[i - 1], list[i])
           /\ modifyInheritedRoutes(d, list) = after[Len(list)]
<1> DEFINE Body(g, n) == [i \in 0 .. n |-> IF i = 0 THEN d ELSE ModifyEach(g[i - 1], list[i])]
           S == {n \in Nat : \E g : g = Body(g, n)}
<1>1. 0 \in S
  <2> DEFINE g == [i \in 0 .. 0 |-> d]
  <2> g = Body(g, 0)
    BY SMTT(60)
  <2> QED  OBVIOUS
<1>2. ASSUME NEW n \in Nat, n \in S PROVE n + 1 \in S
  <2>1. PICK g : g = Body(g, n)
    BY <1>2
  <2> DEFINE h == [i \in 0 .. n + 1 |-> IF i = n + 1 THEN ModifyEach(g[n], list[n + 1]) ELSE g[i]]
  <2>2. \A i \in 0 .. n : h[i] = g[i]
    BY SMTT(60)
  <2>3. \A i \in 0 .. n : g[i] = IF i = 0 THEN d ELSE ModifyEach(g[i - 1], list[i])
    <3> \A i \in 0 .. n : Body(g, n)[i] = IF i = 0 THEN d ELSE ModifyEach(g[i - 1], list[i])
      OBVIOUS
    <3> HIDE DEF Body
    <3> QED  BY <2>1
  <2>4. h[n + 1] = ModifyEach(g[n], list[n + 1])
    BY SMTT(60)
  <2>5. DOMAIN h = 0 .. n + 1 /\ h = [i \in 0 .. n + 1 |-> h[i]]
    OBVIOUS
  <2> HIDE DEF h
  <2> \A i \in 0 .. n + 1 : h[i] = IF i = 0 THEN d ELSE ModifyEach(h[i - 1], list[i])
    <3> TAKE i \in 0 .. n + 1
    <3> CASE i = n + 1
      BY SMTT(60), <2>2, <2>4
    <3> CASE i = 0
      BY SMTT(60), <2>2, <2>3
    <3> CASE i \in 1 .. n
      BY SMTT(60), <2>2, <2>3
    <3> QED  BY SMTT(60)
  <2> h = Body(h, n + 1)
    BY <2>5
  <2> QED  BY SMTT(60)
<1> HIDE DEF S
<1>3. Nat \subseteq S
  BY <1>1, <1>2, NatSetInduction
<1>4. \E g : g = Body(g, Len(list))
  BY <1>3 DEF S
<1> DEFINE c == CHOOSE g : g = Body(g, Len(list))
<1>5. c = Body(c, Len(list))
  <2> HIDE DEF Body
  <2> QED  BY <1>4
<1>6. modifyInheritedRoutes(d, list) = c[Len(list)]
  BY DEF modifyInheritedRoutes
<1> \A i \in 0 .. Len(list) : c[i] = IF i = 0 THEN d ELSE ModifyEach(c[i - 1], list[i])
  <2> \A g : \A i \in 0 .. Len(list) :
        Body(g, Len(list))[i] = IF i = 0 THEN d ELSE ModifyEach(g[i - 1], list[i])
    OBVIOUS
  <2> HIDE DEF Body, c
  <2> QED  BY <1>5
<1> HIDE DEF c
<1> c[0] = d /\ \A i \in 1 .. Len(list) : c[i] = ModifyEach(c[i - 1], list[i])
  BY SMTT(60)
<1> QED  BY <1>6

\* sendBatchFromQueue takes at most one step for each update of the queue.
LEMMA SendLoop ==
  ASSUME LibraryFacts, NEW d, Len(d.queue) \in Nat
  PROVE  \E after :
           /\ after[0] = d
           /\ \A i \in 1 .. Len(d.queue) : after[i] = SendNext(after[i - 1])
           /\ sendBatchFromQueue(d) = after[Len(d.queue)]
<1> DEFINE Body(g, n) == [i \in 0 .. n |-> IF i = 0 THEN d ELSE SendNext(g[i - 1])]
           S == {n \in Nat : \E g : g = Body(g, n)}
<1>1. 0 \in S
  <2> DEFINE g == [i \in 0 .. 0 |-> d]
  <2> g = Body(g, 0)
    BY SMTT(60)
  <2> QED  OBVIOUS
<1>2. ASSUME NEW n \in Nat, n \in S PROVE n + 1 \in S
  <2>1. PICK g : g = Body(g, n)
    BY <1>2
  <2> DEFINE h == [i \in 0 .. n + 1 |-> IF i = n + 1 THEN SendNext(g[n]) ELSE g[i]]
  <2>2. \A i \in 0 .. n : h[i] = g[i]
    BY SMTT(60)
  <2>3. \A i \in 0 .. n : g[i] = IF i = 0 THEN d ELSE SendNext(g[i - 1])
    <3> \A i \in 0 .. n : Body(g, n)[i] = IF i = 0 THEN d ELSE SendNext(g[i - 1])
      OBVIOUS
    <3> HIDE DEF Body
    <3> QED  BY <2>1
  <2>4. h[n + 1] = SendNext(g[n])
    BY SMTT(60)
  <2>5. DOMAIN h = 0 .. n + 1 /\ h = [i \in 0 .. n + 1 |-> h[i]]
    OBVIOUS
  <2> HIDE DEF h
  <2> \A i \in 0 .. n + 1 : h[i] = IF i = 0 THEN d ELSE SendNext(h[i - 1])
    <3> TAKE i \in 0 .. n + 1
    <3> CASE i = n + 1
      BY SMTT(60), <2>2, <2>4
    <3> CASE i = 0
      BY SMTT(60), <2>2, <2>3
    <3> CASE i \in 1 .. n
      BY SMTT(60), <2>2, <2>3
    <3> QED  BY SMTT(60)
  <2> h = Body(h, n + 1)
    BY <2>5
  <2> QED  BY SMTT(60)
<1> HIDE DEF S
<1>3. Nat \subseteq S
  BY <1>1, <1>2, NatSetInduction
<1>4. \E g : g = Body(g, Len(d.queue))
  BY <1>3 DEF S
<1> DEFINE c == CHOOSE g : g = Body(g, Len(d.queue))
<1>5. c = Body(c, Len(d.queue))
  <2> HIDE DEF Body
  <2> QED  BY <1>4
<1>6. sendBatchFromQueue(d) = c[Len(d.queue)]
  BY DEF sendBatchFromQueue
<1> \A i \in 0 .. Len(d.queue) : c[i] = IF i = 0 THEN d ELSE SendNext(c[i - 1])
  <2> \A g : \A i \in 0 .. Len(d.queue) :
        Body(g, Len(d.queue))[i] = IF i = 0 THEN d ELSE SendNext(g[i - 1])
    OBVIOUS
  <2> HIDE DEF Body, c
  <2> QED  BY <1>5
<1> HIDE DEF c
<1> c[0] = d /\ \A i \in 1 .. Len(d.queue) : c[i] = SendNext(c[i - 1])
  BY SMTT(60)
<1> QED  BY <1>6

\* What Rib::modifyInheritedRoutes leaves behind after each change of its list.
Modifies(after, d, list) ==
  /\ after[0] = d
  /\ \A i \in 1 .. Len(list) : after[i] = ModifyEach(after[i - 1], list[i])
  /\ modifyInheritedRoutes(d, list) = after[Len(list)]

\* The loop of Rib::modifyInheritedRoutes has a value after each change.
LEMMA ModifyRuns ==
  ASSUME LibraryFacts, NEW d, NEW list, Len(list) \in Nat
  PROVE  \E after : Modifies(after, d, list)
BY ModifyLoop DEF Modifies

\* A listing of a finite set is a sequence of its elements.
LEMMA ListingType ==
  ASSUME LibraryFacts, NEW S, IsFiniteSet(S), NEW names \in Listings(S)
  PROVE  names \in Seq(S)
<1>1. Cardinality(S) \in Nat
  BY DEF LibraryFacts
<1>2. names \in [1 .. Cardinality(S) -> S]
  BY DEF Listings
<1> QED  BY SMTT(60), <1>1, <1>2

-----------------------------------------------------------------------------
(* The daemon                                                              *)

\* The FIB commands and their answers to come.
Commands ==
  [fibUpdate : FibUpdates, verb : {"add", "remove"}, update : GoodUpdates,
   timeouts : 0 .. MAX_NUM_TIMEOUTS]

\* How many copies of a command wait for an answer.
CommandBags == UNION {[C -> Nat] : C \in SUBSET Commands}

\* The scheduled calls of onRouteExpiration.
Events == [name : Names, face : Faces, id : Nat]

\* The state of the daemon.
Daemons ==
  [rib : Ribs, faceMap : [Faces -> SUBSET Names], queue : Seq(GoodUpdates), busy : BOOLEAN,
   updater : Updaters, inFlight : CommandBags, expirations : SUBSET Events,
   aborted : BOOLEAN, outcome : [1 .. MaxRequests -> SUBSET {"applied", "failed"}]]

\* What FaceMapExact says, of any daemon.
FacesListed(rib, faceMap) ==
  \A f \in Faces : /\ faceMap[f] = {n \in DOMAIN rib : f \in DOMAIN rib[n].routes}
                   /\ IsFiniteSet(faceMap[f])

\* What every handler, and every part of one, preserves.
Sound(d) == d \in Daemons /\ Tree(d.rib) /\ FacesListed(d.rib, d.faceMap)

\* To be a bag of commands, command by command.
LEMMA CommandBagTypes ==
  ASSUME NEW bag
  PROVE  bag \in CommandBags <=> /\ bag = [c \in DOMAIN bag |-> bag[c]]
                                 /\ DOMAIN bag \subseteq Commands
                                 /\ \A c \in DOMAIN bag : bag[c] \in Nat
<1>1. ASSUME bag \in CommandBags PROVE \E C \in SUBSET Commands : bag \in [C -> Nat]
  BY <1>1 DEF CommandBags
<1> ASSUME bag \in CommandBags
    PROVE  /\ bag = [c \in DOMAIN bag |-> bag[c]]
           /\ DOMAIN bag \subseteq Commands
           /\ \A c \in DOMAIN bag : bag[c] \in Nat
  BY <1>1
<1> ASSUME /\ bag = [c \in DOMAIN bag |-> bag[c]]
           /\ DOMAIN bag \subseteq Commands
           /\ \A c \in DOMAIN bag : bag[c] \in Nat
    PROVE  bag \in CommandBags
  <2> bag \in [DOMAIN bag -> Nat]
    OBVIOUS
  <2> QED  BY DEF CommandBags
<1> QED  OBVIOUS

\* Sending commands (FibUpdater::sendUpdates).
LEMMA StartedType ==
  ASSUME NEW bag \in CommandBags, NEW more, more \subseteq Commands
  PROVE  /\ Started(bag, more) \in CommandBags
         /\ DOMAIN Started(bag, more) = DOMAIN bag \cup more
         /\ DOMAIN bag = {} => \A c \in more : Started(bag, more)[c] = 1
<1> DEFINE new == Started(bag, more)
<1> DOMAIN bag \subseteq Commands /\ \A c \in DOMAIN bag : bag[c] \in Nat
  BY CommandBagTypes
<1>1. new = [c \in DOMAIN bag \cup more |->
               (IF c \in DOMAIN bag THEN bag[c] ELSE 0) + (IF c \in more THEN 1 ELSE 0)]
  BY DEF Started
<1> HIDE DEF new
<1> /\ DOMAIN new = DOMAIN bag \cup more
    /\ \A c \in DOMAIN new : new[c] \in Nat
    /\ new = [c \in DOMAIN new |-> new[c]]
    /\ DOMAIN bag = {} => \A c \in more : new[c] = 1
  BY SMTT(60), <1>1
<1> new \in CommandBags
  BY CommandBagTypes
<1> QED  BY DEF new

\* An answer takes away one copy of a command.
LEMMA EndedType ==
  ASSUME NEW bag \in CommandBags, NEW c \in DOMAIN bag
  PROVE  LET new == Ended(bag, c)
         IN /\ new \in CommandBags
            /\ DOMAIN new = DOMAIN bag \/ DOMAIN new = DOMAIN bag \ {c}
            /\ bag[c] = 1 => DOMAIN new = DOMAIN bag \ {c}
            /\ \A e \in DOMAIN new : e # c => new[e] = bag[e]
<1>1. /\ bag = [e \in DOMAIN bag |-> bag[e]]
      /\ DOMAIN bag \subseteq Commands
      /\ \A e \in DOMAIN bag : bag[e] \in Nat
  BY CommandBagTypes
<1>2. CASE bag[c] > 1
  <2> DEFINE new == [bag EXCEPT ![c] = @ - 1]
  <2> /\ DOMAIN new = DOMAIN bag
      /\ new = [e \in DOMAIN new |-> new[e]]
      /\ \A e \in DOMAIN new : new[e] = IF e = c THEN bag[c] - 1 ELSE bag[e]
    BY <1>1
  <2> HIDE DEF new
  <2> new \in CommandBags
    BY SMTT(60), <1>1, <1>2, CommandBagTypes
  <2> Ended(bag, c) = new
    BY <1>2 DEF Ended, new
  <2> QED  BY SMTT(60), <1>1, <1>2
<1>3. CASE ~(bag[c] > 1)
  <2> DEFINE new == [e \in DOMAIN bag \ {c} |-> bag[e]]
  <2> /\ DOMAIN new = DOMAIN bag \ {c}
      /\ new = [e \in DOMAIN new |-> new[e]]
      /\ \A e \in DOMAIN new : new[e] = bag[e]
    OBVIOUS
  <2> HIDE DEF new
  <2> new \in CommandBags
    BY <1>1, CommandBagTypes
  <2> Ended(bag, c) = new
    BY <1>3 DEF Ended, Restrict, new
  <2> QED  OBVIOUS
<1> QED  BY <1>2, <1>3

\* A command has been sent for every update of a list, and has no answer.
Sent(d, list) == \A x \in list : \E c \in DOMAIN d.inFlight : c.fibUpdate = x

\* Whoever is busy waits for an answer: every update of the list being sent
\* has a command in flight.
Waiting(d) ==
  \/ d.updater.batch # {} /\ Sent(d, d.updater.batch)
  \/ d.updater.batch = {} /\ d.updater.other # {} /\ Sent(d, d.updater.other)

\* A daemon between two updates of its queue.
Steady(d) == Sound(d) /\ (d.aborted \/ (d.busy => Waiting(d)))

\* A daemon between two handlers.  In a daemon that is neither busy nor aborted
\* the queue is empty.
Settled(d) == Steady(d) /\ (d.aborted \/ d.busy \/ d.queue = <<>>)

\* The queue and the list of inherited routes have lengths.
LEMMA QueueLength ==
  ASSUME NEW d \in Daemons
  PROVE  Len(d.queue) \in Nat /\ Len(d.updater.inherited) \in Nat
<1> d.queue \in Seq(GoodUpdates) /\ d.updater \in UpdaterRecords
  BY DEF Daemons, Updaters
<1> d.updater.inherited \in Seq(SUBSET FibUpdates)
  BY DEF UpdaterRecords
<1> QED  BY SMTT(60)

\* Reporting the end of an update changes the outcome only.
LEMMA ReportSound ==
  ASSUME NEW d, Sound(d), NEW w \in GoodUpdates, NEW result \in {"applied", "failed"}
  PROVE  LET e == Report([d EXCEPT !.busy = FALSE], w, result)
         IN /\ Sound(e) /\ ~e.busy /\ e.queue = d.queue /\ e.updater = d.updater
            /\ e.inFlight = d.inFlight /\ e.rib = d.rib /\ e.aborted = d.aborted
<1> DEFINE m == [d EXCEPT !.busy = FALSE]
           e == Report(m, w, result)
<1>1. d \in Daemons /\ w.id \in 0 .. MaxRequests
  BY DEF Sound, GoodUpdates, Updates
<1> /\ m \in Daemons /\ ~m.busy /\ m.queue = d.queue /\ m.updater = d.updater
    /\ m.inFlight = d.inFlight /\ m.rib = d.rib /\ m.faceMap = d.faceMap
    /\ m.aborted = d.aborted
  BY <1>1 DEF Daemons
<1> HIDE DEF m
<1>2. CASE w.id = 0
  <2> e = m
    BY <1>2 DEF Report
  <2> HIDE DEF e
  <2> QED  BY DEF Sound, e, m
<1> CASE w.id # 0
  <2> DEFINE outcome1 == [m.outcome EXCEPT ![w.id] = @ \cup {result}]
  <2>1. outcome1 \in [1 .. MaxRequests -> SUBSET {"applied", "failed"}]
    BY <1>1, LimitsAssumption DEF Daemons
  <2> e = [m EXCEPT !.outcome = outcome1]
    BY DEF Report
  <2> HIDE DEF outcome1, e
  <2> /\ e \in Daemons /\ ~e.busy /\ e.queue = m.queue /\ e.updater = m.updater
      /\ e.inFlight = m.inFlight /\ e.rib = m.rib /\ e.faceMap = m.faceMap
      /\ e.aborted = m.aborted
    BY <2>1 DEF Daemons
  <2> QED  BY DEF Sound, e, m
<1> QED  BY <1>2 DEF m

\* FibUpdater::sendUpdates puts a command for each update of the list in flight.
LEMMA SendUpdatesSound ==
  ASSUME NEW d, Sound(d), NEW w \in GoodUpdates, NEW list, list \subseteq FibUpdates
  PROVE  LET e == sendUpdates(d, w, list)
         IN /\ Sound(e) /\ Sent(e, list) /\ e.queue = d.queue /\ e.busy = d.busy
            /\ e.updater = d.updater /\ e.aborted = d.aborted /\ e.rib = d.rib
<1> DEFINE Command(x) == [fibUpdate |-> x, verb |-> x.action, update |-> w, timeouts |-> 0]
           more == {Command(x) : x \in list}
           bag  == Started(d.inFlight, more)
           e    == sendUpdates(d, w, list)
<1>1. d \in Daemons /\ d.inFlight \in CommandBags
  BY DEF Sound, Daemons
<1>2. more \subseteq Commands
  BY SMTT(60), LimitsAssumption DEF Commands, FibUpdates
<1>3. \A x \in list : Command(x) \in more /\ Command(x).fibUpdate = x
  OBVIOUS
<1>4. e = [d EXCEPT !.inFlight = bag]
  BY DEF sendUpdates
<1> HIDE DEF more, Command
<1> bag \in CommandBags /\ DOMAIN bag = DOMAIN d.inFlight \cup more
  BY <1>1, <1>2, StartedType
<1> HIDE DEF bag, e
<1> /\ e \in Daemons /\ e.inFlight = bag /\ e.queue = d.queue /\ e.busy = d.busy
    /\ e.updater = d.updater /\ e.aborted = d.aborted /\ e.rib = d.rib
    /\ e.faceMap = d.faceMap
  BY <1>1, <1>4 DEF Daemons
<1> QED  BY <1>3 DEF Sound, Sent, e

\* A list without one of its updates, and without a copy of the command for it.
LEMMA AnswerTypes ==
  ASSUME NEW d, Sound(d), NEW c \in DOMAIN d.inFlight
  PROVE  /\ c \in Commands /\ c.update \in GoodUpdates /\ c.fibUpdate \in FibUpdates
         /\ LET e == [d EXCEPT !.inFlight = Ended(@, c)]
            IN /\ Sound(e) /\ e.queue = d.queue /\ e.busy = d.busy /\ e.updater = d.updater
               /\ e.aborted = d.aborted /\ e.rib = d.rib /\ e.outcome = d.outcome
               /\ e.inFlight = Ended(d.inFlight, c)
               /\ \A list : Sent(d, list) => Sent(e, list \ {c.fibUpdate})
<1> DEFINE bag == Ended(d.inFlight, c)
           e   == [d EXCEPT !.inFlight = bag]
<1> d \in Daemons /\ d.inFlight \in CommandBags
  BY DEF Sound, Daemons
<1>1. c \in Commands
  BY CommandBagTypes
<1>2. c.update \in GoodUpdates /\ c.fibUpdate \in FibUpdates
  BY <1>1 DEF Commands
<1> bag \in CommandBags /\ DOMAIN d.inFlight \ {c} \subseteq DOMAIN bag
  BY EndedType
<1> HIDE DEF bag
<1> /\ e \in Daemons /\ e.queue = d.queue /\ e.busy = d.busy /\ e.updater = d.updater
    /\ e.aborted = d.aborted /\ e.rib = d.rib /\ e.outcome = d.outcome
    /\ e.inFlight = bag /\ e.faceMap = d.faceMap
  BY DEF Daemons
<1> HIDE DEF e
<1> \A list : Sent(d, list) => Sent(e, list \ {c.fibUpdate})
  BY DEF Sent
<1> QED  BY <1>1, <1>2 DEF Sound, bag, e

\* Two daemons that differ in the lists of FibUpdater only.
OnlyUpdater(e, d) ==
  /\ e.rib = d.rib /\ e.faceMap = d.faceMap /\ e.queue = d.queue /\ e.busy = d.busy
  /\ e.inFlight = d.inFlight /\ e.aborted = d.aborted /\ e.outcome = d.outcome

\* An update that is done leaves its list.
WithoutBatch(d, x) == [d EXCEPT !.updater.batch = @ \ {x}]

\* The same for the list of the other faces.
WithoutOther(d, x) == [d EXCEPT !.updater.other = @ \ {x}]

\* Erasing an update from m_updatesForBatchFaceId keeps the daemon sound.
LEMMA BatchDone ==
  ASSUME NEW d, Sound(d), NEW x
  PROVE  LET e == WithoutBatch(d, x) IN
         /\ Sound(e) /\ OnlyUpdater(e, d)
         /\ e.updater.batch = d.updater.batch \ {x} /\ e.updater.other = d.updater.other
         /\ e.updater.inherited = d.updater.inherited /\ e.updater.face = d.updater.face
<1> DEFINE e == WithoutBatch(d, x)
           u == [d.updater EXCEPT !.batch = @ \ {x}]
<1> d \in Daemons /\ d.updater \in Updaters /\ d.updater \in UpdaterRecords
  BY DEF Sound, Daemons, Updaters
<1> /\ u \in UpdaterRecords
    /\ u.batch = d.updater.batch \ {x} /\ u.other = d.updater.other
    /\ u.inherited = d.updater.inherited /\ u.face = d.updater.face
  BY DEF UpdaterRecords
<1>1. e = [d EXCEPT !.updater = u]
  BY DEF WithoutBatch
<1> HIDE DEF u, e
<1> u \in Updaters
  BY DEF Updaters, OneForEach
<1> e \in Daemons /\ OnlyUpdater(e, d) /\ e.updater = u
  BY <1>1 DEF Daemons, OnlyUpdater
<1> QED  BY DEF Sound, OnlyUpdater, e

\* Erasing an update from m_updatesForNonBatchFaceId keeps the daemon sound.
LEMMA OtherDone ==
  ASSUME NEW d, Sound(d), NEW x
  PROVE  LET e == WithoutOther(d, x) IN
         /\ Sound(e) /\ OnlyUpdater(e, d)
         /\ e.updater.batch = d.updater.batch /\ e.updater.other = d.updater.other \ {x}
         /\ e.updater.inherited = d.updater.inherited /\ e.updater.face = d.updater.face
<1> DEFINE e == WithoutOther(d, x)
           u == [d.updater EXCEPT !.other = @ \ {x}]
<1> d \in Daemons /\ d.updater \in Updaters /\ d.updater \in UpdaterRecords
  BY DEF Sound, Daemons, Updaters
<1> /\ u \in UpdaterRecords
    /\ u.batch = d.updater.batch /\ u.other = d.updater.other \ {x}
    /\ u.inherited = d.updater.inherited /\ u.face = d.updater.face
  BY DEF UpdaterRecords
<1>1. e = [d EXCEPT !.updater = u]
  BY DEF WithoutOther
<1> HIDE DEF u, e
<1> u \in Updaters
  BY DEF Updaters, OneForEach
<1> e \in Daemons /\ OnlyUpdater(e, d) /\ e.updater = u
  BY <1>1 DEF Daemons, OnlyUpdater
<1> QED  BY DEF Sound, OnlyUpdater, e

\* The commands for a list of FIB updates.
CommandsFor(list, w) ==
  {[fibUpdate |-> x, verb |-> x.action, update |-> w, timeouts |-> 0] : x \in list}

\* Each of them is in flight once, and nothing else is.
Flying(bag, list, w) == DOMAIN bag = CommandsFor(list, w) /\ \A c \in DOMAIN bag : bag[c] = 1

\* FibUpdater::sendUpdates when nothing is in flight.
LEMMA SentOnce ==
  ASSUME NEW d, Sound(d), DOMAIN d.inFlight = {}, NEW w \in GoodUpdates,
         NEW list, list \subseteq FibUpdates
  PROVE  Flying(sendUpdates(d, w, list).inFlight, list, w)
<1> DEFINE more == CommandsFor(list, w)
           bag == Started(d.inFlight, more)
<1>1. d.inFlight \in CommandBags
  BY DEF Sound, Daemons
<1>2. more \subseteq Commands
  BY SMTT(60), LimitsAssumption DEF CommandsFor, Commands, FibUpdates
<1>3. sendUpdates(d, w, list) = [d EXCEPT !.inFlight = bag]
  BY DEF sendUpdates, CommandsFor
<1> HIDE DEF more
<1> /\ DOMAIN bag = DOMAIN d.inFlight \cup more
    /\ DOMAIN d.inFlight = {} => \A c \in more : bag[c] = 1
  BY <1>1, <1>2, StartedType
<1> HIDE DEF bag
<1> sendUpdates(d, w, list).inFlight = bag
  BY <1>3 DEF Sound, Daemons
<1> QED  BY DEF Flying, more

\* An answer ends the only copy of its command.
LEMMA FlyingDone ==
  ASSUME NEW bag \in CommandBags, NEW list, NEW w, Flying(bag, list, w), NEW c \in DOMAIN bag
  PROVE  /\ c.fibUpdate \in list /\ c.update = w /\ c.verb = c.fibUpdate.action
         /\ Flying(Ended(bag, c), list \ {c.fibUpdate}, w)
<1> DEFINE Command(x) == [fibUpdate |-> x, verb |-> x.action, update |-> w, timeouts |-> 0]
           x == c.fibUpdate
           new == Ended(bag, c)
<1> /\ DOMAIN bag = {Command(y) : y \in list} /\ \A e \in DOMAIN bag : bag[e] = 1
  BY DEF Flying, CommandsFor
<1>1. \A y : Command(y).fibUpdate = y /\ Command(y).update = w /\ Command(y).verb = y.action
  OBVIOUS
<1>2. CommandsFor(list \ {x}, w) = {Command(y) : y \in list \ {x}}
  BY DEF CommandsFor
<1> HIDE DEF Command
<1> PICK z \in list : c = Command(z)
  OBVIOUS
<1> x = z /\ c.update = w /\ c.verb = x.action
  BY <1>1
<1>3. DOMAIN new = DOMAIN bag \ {c} /\ \A e \in DOMAIN new : e # c => new[e] = bag[e]
  BY EndedType
<1> HIDE DEF new, x
<1> {Command(y) : y \in list \ {x}} = DOMAIN bag \ {c}
  <2>1. ASSUME NEW y \in list \ {x} PROVE Command(y) \in DOMAIN bag \ {c}
    BY SMTT(60), <1>1
  <2> ASSUME NEW e \in DOMAIN bag \ {c} PROVE \E y \in list \ {x} : e = Command(y)
    OBVIOUS
  <2> QED  BY SMTT(60), <2>1
<1> Flying(new, list \ {x}, w)
  BY <1>2, <1>3 DEF Flying
<1> QED  BY DEF x, new

\* What a handler of the tree leaves alone.
SameQueue(e, d) ==
  /\ e.queue = d.queue /\ e.busy = d.busy /\ e.updater = d.updater
  /\ e.inFlight = d.inFlight /\ e.outcome = d.outcome

\* Rib::insert keeps the daemon sound and touches nothing that waits.
LEMMA InsertSound ==
  ASSUME LibraryFacts,
         NEW d, Sound(d), NEW name \in Names, NEW f \in Faces, NEW route \in Routes
  PROVE  LET e == insert(d, name, f, route)
         IN /\ Sound(e) /\ SameQueue(e, d) /\ e.aborted = d.aborted
            /\ e.rib = InsertRoute(d.rib, name, f, route)
<1> DEFINE new == InsertRoute(d.rib, name, f, route)
           mid == IF name \in DOMAIN d.rib THEN d.rib ELSE InsertEntry(d.rib, name)
           faceMap == [d.faceMap EXCEPT ![f] = @ \cup {name}]
           left == IF f \notin DOMAIN mid[name].routes THEN d.expirations
                   ELSE {x \in d.expirations : x.id # mid[name].routes[f].event}
           e == insert(d, name, f, route)
<1>1. d \in Daemons /\ d.rib \in Ribs /\ Tree(d.rib) /\ d.faceMap \in [Faces -> SUBSET Names]
  BY DEF Sound, Daemons
<1>2. e = [d EXCEPT !.rib = new, !.faceMap = faceMap, !.expirations = left]
  BY <1>1 DEF insert, InsertRoute, Daemons
<1>3. new \in Ribs /\ Tree(new) /\ Inserted(new, d.rib, name, f, route)
  BY <1>1, InsertRouteRib
<1>4. faceMap \in [Faces -> SUBSET Names] /\ left \in SUBSET Events
  BY <1>1 DEF Daemons
<1>5. \A g \in Faces : faceMap[g] = IF g = f THEN d.faceMap[f] \cup {name} ELSE d.faceMap[g]
  BY <1>1
<1> HIDE DEF new, faceMap, left, e
<1>6. ASSUME NEW g \in Faces
      PROVE  faceMap[g] = {n \in DOMAIN new : g \in DOMAIN new[n].routes}
  <2> d.faceMap[g] = {n \in DOMAIN d.rib : g \in DOMAIN d.rib[n].routes}
    BY DEF Sound, FacesListed
  <2> \A n \in DOMAIN new : g \in DOMAIN new[n].routes <=> n \in d.faceMap[g] \/ (g = f /\ n = name)
    BY <1>3 DEF Inserted
  <2> QED  BY <1>3, <1>5 DEF Inserted
<1> \A g \in Faces : IsFiniteSet(faceMap[g])
  <2> \A g \in Faces : IsFiniteSet(d.faceMap[g])
    BY DEF Sound, FacesListed
  <2> IsFiniteSet(d.faceMap[f] \cup {name})
    BY DEF LibraryFacts
  <2> QED  BY <1>5
<1> /\ e \in Daemons /\ e.rib = new /\ e.faceMap = faceMap
    /\ SameQueue(e, d) /\ e.aborted = d.aborted
  BY <1>1, <1>2, <1>3, <1>4 DEF Daemons, SameQueue
<1> QED  BY <1>3, <1>6 DEF Sound, FacesListed, new, e

\* Rib::erase keeps the daemon sound and touches nothing that waits.
LEMMA EraseSound ==
  ASSUME LibraryFacts, NEW d, Sound(d), NEW name \in Names, NEW f \in Faces
  PROVE  LET e == erase(d, name, f)
         IN /\ Sound(e) /\ SameQueue(e, d) /\ e.aborted = d.aborted
            /\ HasRoute(d.rib, name, f) => e.rib = EraseRoute(d.rib, name, f)
            /\ ~HasRoute(d.rib, name, f) => e = d
<1> DEFINE new == EraseRoute(d.rib, name, f)
           faceMap == [d.faceMap EXCEPT ![f] = @ \ {name}]
           left == {x \in d.expirations : x.id # d.rib[name].routes[f].event}
           e == erase(d, name, f)
<1>1. d \in Daemons /\ d.rib \in Ribs /\ Tree(d.rib) /\ d.faceMap \in [Faces -> SUBSET Names]
  BY DEF Sound, Daemons
<1>2. CASE ~HasRoute(d.rib, name, f)
  BY <1>2 DEF erase, SameQueue
<1>3. CASE HasRoute(d.rib, name, f)
  <2>1. name \in DOMAIN d.rib /\ f \in DOMAIN d.rib[name].routes
    BY <1>3 DEF HasRoute
  <2>2. e = [d EXCEPT !.rib = new, !.faceMap = faceMap, !.expirations = left]
    BY <1>1, <1>3 DEF erase, EraseRoute, Daemons
  <2>3. new \in Ribs /\ Tree(new) /\ Erased(new, d.rib, name, f)
    BY <1>1, <2>1, EraseRouteRib
  <2>4. faceMap \in [Faces -> SUBSET Names] /\ left \in SUBSET Events
    BY <1>1 DEF Daemons
  <2>5. \A g \in Faces : faceMap[g] = IF g = f THEN d.faceMap[f] \ {name} ELSE d.faceMap[g]
    BY <1>1
  <2> HIDE DEF new, faceMap, left, e
  <2>6. ASSUME NEW g \in Faces
        PROVE  faceMap[g] = {n \in DOMAIN new : g \in DOMAIN new[n].routes}
    <3> d.faceMap[g] = {n \in DOMAIN d.rib : g \in DOMAIN d.rib[n].routes}
      BY DEF Sound, FacesListed
    <3> \A n \in DOMAIN new : g \in DOMAIN new[n].routes <=> n \in d.faceMap[g] /\ (g # f \/ n # name)
      BY <2>3 DEF Erased
    <3> \A n \in d.faceMap[g] : n \in DOMAIN new \/ (n = name /\ g = f)
      BY <2>3 DEF Erased
    <3> QED  BY <2>5
  <2> \A g \in Faces : IsFiniteSet(faceMap[g])
    <3> \A g \in Faces : IsFiniteSet(d.faceMap[g])
      BY DEF Sound, FacesListed
    <3> IsFiniteSet(d.faceMap[f] \ {name})
      BY DEF LibraryFacts
    <3> QED  BY <2>5
  <2> /\ e \in Daemons /\ e.rib = new /\ e.faceMap = faceMap
      /\ SameQueue(e, d) /\ e.aborted = d.aborted
    BY <1>1, <2>2, <2>3, <2>4 DEF Daemons, SameQueue
  <2> QED  BY <1>3, <2>3, <2>6 DEF Sound, FacesListed, new, e
<1> QED  BY <1>2, <1>3

\* The entries after changes of their records of inherited routes.
Modified(new, rib, changes) ==
  /\ DOMAIN new = DOMAIN rib
  /\ \A n \in DOMAIN rib :
       /\ new[n].routes = rib[n].routes
       /\ new[n].capture = rib[n].capture
       /\ \A f \in Faces : new[n].inherited[f] = RecordsAfter(n, f, rib[n].inherited[f], changes)

\* A pass of Rib::modifyInheritedRoutes keeps the daemon sound; it aborts or
\* makes every change of the list.
LEMMA ModifyEachSound ==
  ASSUME NEW d, Sound(d), NEW changes
  PROVE  LET e == ModifyEach(d, changes)
         IN /\ Sound(e) /\ SameQueue(e, d)
            /\ (\E x \in changes : ~CanModify(d.rib, x)) => e = [d EXCEPT !.aborted = TRUE]
            /\ (\A x \in changes : CanModify(d.rib, x)) =>
                 e.aborted = d.aborted /\ Modified(e.rib, d.rib, changes)
<1> DEFINE e == ModifyEach(d, changes)
           Records(n) == [f \in Faces |-> RecordsAfter(n, f, d.rib[n].inherited[f], changes)]
           new == [n \in DOMAIN d.rib |-> [d.rib[n] EXCEPT !.inherited = Records(n)]]
<1>1. d \in Daemons /\ d.rib \in Ribs /\ Tree(d.rib)
  BY DEF Sound, Daemons
<1>2. CASE \E x \in changes : ~CanModify(d.rib, x)
  <2> e = [d EXCEPT !.aborted = TRUE]
    BY <1>2 DEF ModifyEach
  <2> e \in Daemons /\ e.rib = d.rib /\ e.faceMap = d.faceMap /\ SameQueue(e, d)
    BY <1>1 DEF Daemons, SameQueue
  <2> HIDE DEF e
  <2> Sound(e)
    BY DEF Sound
  <2> QED  BY <1>2 DEF e
<1>3. CASE \A x \in changes : CanModify(d.rib, x)
  <2>1. e = [d EXCEPT !.rib = new]
    BY <1>1, <1>3 DEF ModifyEach, Daemons
  <2>2. ASSUME NEW n \in DOMAIN d.rib PROVE Records(n) \in [Faces -> Nat]
    <3>1. \A f \in Faces : d.rib[n].inherited[f] \in Nat
      BY <1>1, EntryTypes
    <3>2. ASSUME NEW f \in Faces PROVE RecordsAfter(n, f, d.rib[n].inherited[f], changes) \in Nat
      <4> (\E x \in changes : x.name = n /\ x.face = f /\ x.action = "remove") =>
            d.rib[n].inherited[f] > 0
        BY <1>3 DEF CanModify, hasInheritedRoute
      <4> QED  BY SMTT(60), <3>1 DEF RecordsAfter
    <3> QED  BY <3>2
  <2>3. \A n \in DOMAIN d.rib, f \in Faces :
          Records(n)[f] = RecordsAfter(n, f, d.rib[n].inherited[f], changes)
    OBVIOUS
  <2> HIDE DEF Records, e
  <2>4. ASSUME NEW n \in DOMAIN d.rib
        PROVE  /\ new[n] \in Entries
               /\ new[n].routes = d.rib[n].routes /\ new[n].capture = d.rib[n].capture
               /\ new[n].parent = d.rib[n].parent /\ new[n].children = d.rib[n].children
               /\ new[n].inherited = Records(n)
    <3> d.rib[n] \in Entries
      BY <1>1, RibTypes
    <3> QED  BY <2>2 DEF Entries
  <2> DOMAIN new = DOMAIN d.rib /\ new = [n \in DOMAIN new |-> new[n]]
    OBVIOUS
  <2> HIDE DEF new
  <2> new \in Ribs /\ Tree(new)
    <3> DOMAIN d.rib \subseteq Names
      BY <1>1, RibTypes
    <3> QED  BY SMTT(60), <1>1, <2>4, RibTypes, SameTree
  <2>5. /\ e \in Daemons /\ e.rib = new /\ e.faceMap = d.faceMap
        /\ SameQueue(e, d) /\ e.aborted = d.aborted
    BY <1>1, <2>1 DEF Daemons, SameQueue
  <2> FacesListed(new, d.faceMap)
    BY <2>4 DEF Sound, FacesListed
  <2> Modified(new, d.rib, changes)
    BY <2>3, <2>4 DEF Modified
  <2> QED  BY <1>3, <2>5 DEF Sound, e
<1> QED  BY <1>2, <1>3

-----------------------------------------------------------------------------
(* The handlers keep the tree and the table of faces, and wait for an answer *)

\* Rib::modifyInheritedRoutes keeps the daemon sound and touches nothing that
\* waits.
LEMMA ModifyInheritedSound ==
  ASSUME LibraryFacts, NEW d, Sound(d), NEW list, Len(list) \in Nat
  PROVE  Sound(modifyInheritedRoutes(d, list)) /\ SameQueue(modifyInheritedRoutes(d, list), d)
<1>1. PICK after :
        /\ after[0] = d
        /\ \A i \in 1 .. Len(list) : after[i] = ModifyEach(after[i - 1], list[i])
        /\ modifyInheritedRoutes(d, list) = after[Len(list)]
  BY ModifyLoop
<1> DEFINE S == {i \in Nat : i <= Len(list) => Sound(after[i]) /\ SameQueue(after[i], d)}
<1>2. 0 \in S
  BY <1>1 DEF SameQueue
<1>3. ASSUME NEW i \in Nat, i \in S PROVE i + 1 \in S
  <2> SUFFICES ASSUME i + 1 <= Len(list)
               PROVE  Sound(after[i + 1]) /\ SameQueue(after[i + 1], d)
    BY SMTT(60)
  <2> Sound(after[i]) /\ SameQueue(after[i], d)
    BY SMTT(60), <1>3
  <2> after[i + 1] = ModifyEach(after[i], list[i + 1])
    BY SMTT(60), <1>1
  <2> QED  BY SMTT(60), ModifyEachSound DEF SameQueue
<1> HIDE DEF S
<1> Nat \subseteq S
  BY <1>2, <1>3, NatSetInduction
<1> Sound(after[Len(list)]) /\ SameQueue(after[Len(list)], d)
  BY SMTT(60) DEF S
<1> QED  BY <1>1

\* The RIB that an update leads to.
ChangedRib(d, w) ==
  IF w.action = "register" THEN insert(d, w.name, w.face, w.route) ELSE erase(d, w.name, w.face)

\* The change of the RIB in Rib::onFibUpdateSuccess keeps the daemon sound.
LEMMA ChangedSound ==
  ASSUME LibraryFacts, NEW d, Sound(d), NEW w \in GoodUpdates
  PROVE  /\ Sound(ChangedRib(d, w)) /\ SameQueue(ChangedRib(d, w), d)
         /\ ChangedRib(d, w).aborted = d.aborted
<1> w.name \in Names /\ w.face \in Faces /\ (w.action = "register" => w.route \in Routes)
  BY DEF GoodUpdates, Updates
<1> CASE w.action = "register"
  BY InsertSound DEF ChangedRib
<1> CASE w.action # "register"
  BY EraseSound DEF ChangedRib
<1> QED  OBVIOUS

\* onFibUpdateSuccess.
LEMMA AppliedSound ==
  ASSUME LibraryFacts, NEW d, Sound(d), NEW w \in GoodUpdates
  PROVE  LET e == Applied(d, w)
         IN /\ Sound(e) /\ (e.aborted \/ ~e.busy) /\ e.queue = d.queue
            /\ e.updater = d.updater /\ e.inFlight = d.inFlight
<1> DEFINE d1 == ChangedRib(d, w)
           d2 == modifyInheritedRoutes(d1, d.updater.inherited)
<1>1. Sound(d1) /\ SameQueue(d1, d)
  BY ChangedSound
<1>2. Len(d.updater.inherited) \in Nat
  BY QueueLength DEF Sound
<1> HIDE DEF d1
<1> Sound(d2) /\ SameQueue(d2, d)
  BY <1>1, <1>2, ModifyInheritedSound DEF SameQueue
<1> Applied(d, w) = IF d2.aborted THEN d2 ELSE Report([d2 EXCEPT !.busy = FALSE], w, "applied")
  BY DEF Applied, d1, ChangedRib
<1> HIDE DEF d2
<1> CASE d2.aborted
  BY DEF SameQueue
<1> CASE ~d2.aborted
  BY SMTT(60), ReportSound DEF SameQueue
<1> QED  OBVIOUS

\* sendUpdatesForBatchFaceId and what it calls: after it the daemon waits for
\* an answer or is no longer busy.
LEMMA SendOrApplySteady ==
  ASSUME LibraryFacts, NEW d, Sound(d), NEW w \in GoodUpdates
  PROVE  Steady(SendOrApply(d, w)) /\ SendOrApply(d, w).queue = d.queue
<1> d.updater.batch \subseteq FibUpdates /\ d.updater.other \subseteq FibUpdates
  BY DEF Sound, Daemons, Updaters, UpdaterRecords
<1> CASE d.updater.batch # {}
  BY SMTT(60), SendUpdatesSound DEF SendOrApply, Steady, Waiting
<1> CASE d.updater.batch = {} /\ d.updater.other # {}
  BY SMTT(60), SendUpdatesSound DEF SendOrApply, Steady, Waiting
<1> CASE d.updater.batch = {} /\ d.updater.other = {}
  BY AppliedSound DEF SendOrApply, Steady
<1> QED  OBVIOUS

\* The same of FibUpdater::computeAndSendFibUpdates.
LEMMA ComputeAndSendSteady ==
  ASSUME LibraryFacts, NEW d, Sound(d), NEW w \in GoodUpdates
  PROVE  /\ Steady(computeAndSendFibUpdates(d, w))
         /\ computeAndSendFibUpdates(d, w).queue = d.queue
<1> DEFINE cancelled == IF w.action # "register" /\ HasRoute(d.rib, w.name, w.face)
                          THEN {d.rib[w.name].routes[w.face].event} ELSE {}
           left == {e \in d.expirations : e.id \notin cancelled}
           u == computeUpdates(d.rib, w)
           m == [d EXCEPT !.updater = u, !.expirations = left]
<1>1. d \in Daemons
  BY DEF Sound
<1>2. u \in Updaters
  BY ComputeUpdatesType DEF Sound, Daemons
<1>3. left \in SUBSET Events
  BY <1>1 DEF Daemons
<1>4. computeAndSendFibUpdates(d, w) = SendOrApply(m, w)
  BY DEF computeAndSendFibUpdates
<1> HIDE DEF u, left
<1> m \in Daemons /\ m.rib = d.rib /\ m.faceMap = d.faceMap /\ m.queue = d.queue
  BY <1>1, <1>2, <1>3 DEF Daemons
<1> HIDE DEF m
<1> Sound(m)
  BY DEF Sound
<1> QED  BY <1>4, SendOrApplySteady

\* The same of Rib::sendBatchFromQueue up to its call of itself, which takes
\* one update from the queue, unless it returns early.
LEMMA SendNextSteady ==
  ASSUME LibraryFacts, NEW d, Steady(d)
  PROVE  /\ Steady(SendNext(d))
         /\ d.queue = <<>> \/ d.busy \/ d.aborted => SendNext(d) = d
         /\ ~(d.queue = <<>> \/ d.busy \/ d.aborted) => SendNext(d).queue = Tail(d.queue)
<1>1. CASE d.queue = <<>> \/ d.busy \/ d.aborted
  BY <1>1 DEF SendNext
<1> CASE ~(d.queue = <<>> \/ d.busy \/ d.aborted)
  <2> DEFINE m == [d EXCEPT !.busy = TRUE, !.queue = Tail(@)]
  <2>1. d \in Daemons /\ d.queue \in Seq(GoodUpdates)
    BY DEF Steady, Sound, Daemons
  <2> Head(d.queue) \in GoodUpdates /\ Tail(d.queue) \in Seq(GoodUpdates)
    BY SMTT(60), <2>1
  <2> m \in Daemons /\ m.rib = d.rib /\ m.faceMap = d.faceMap /\ m.queue = Tail(d.queue)
    BY <2>1 DEF Daemons
  <2> SendNext(d) = computeAndSendFibUpdates(m, Head(d.queue))
    BY DEF SendNext
  <2> HIDE DEF m
  <2> Sound(m)
    BY DEF Steady, Sound
  <2> QED  BY ComputeAndSendSteady
<1> QED  BY <1>1

\* Rib::sendBatchFromQueue goes on until the daemon waits for an answer, has
\* aborted or has an empty queue.
LEMMA SendBatchSettled ==
  ASSUME LibraryFacts, NEW d, Steady(d)
  PROVE  Settled(sendBatchFromQueue(d))
<1>1. Len(d.queue) \in Nat
  BY QueueLength DEF Steady, Sound
<1>2. PICK after :
        /\ after[0] = d
        /\ \A i \in 1 .. Len(d.queue) : after[i] = SendNext(after[i - 1])
        /\ sendBatchFromQueue(d) = after[Len(d.queue)]
  BY <1>1, SendLoop
<1> DEFINE P(i) == /\ Steady(after[i])
                   /\ \/ after[i].aborted \/ after[i].busy
                      \/ Len(after[i].queue) = Len(d.queue) - i
           S == {i \in Nat : i <= Len(d.queue) => P(i)}
<1>3. 0 \in S
  BY SMTT(60), <1>1, <1>2
<1>4. ASSUME NEW i \in Nat, i \in S PROVE i + 1 \in S
  <2>1. SUFFICES ASSUME i + 1 <= Len(d.queue) PROVE P(i + 1)
    BY SMTT(60)
  <2> P(i)
    BY SMTT(60), <1>1, <1>4, <2>1
  <2>2. after[i + 1] = SendNext(after[i])
    BY SMTT(60), <1>1, <1>2, <2>1
  <2>3. CASE after[i].aborted \/ after[i].busy
    BY <2>2, <2>3, SendNextSteady
  <2> CASE ~after[i].aborted /\ ~after[i].busy
    <3> Len(after[i].queue) = Len(d.queue) - i
      OBVIOUS
    <3> after[i].queue \in Seq(GoodUpdates) /\ after[i].queue # <<>>
      BY SMTT(60), <1>1, <2>1 DEF Steady, Sound, Daemons
    <3> Steady(after[i + 1]) /\ after[i + 1].queue = Tail(after[i].queue)
      BY <2>2, SendNextSteady
    <3> Len(after[i + 1].queue) = Len(d.queue) - (i + 1)
      BY SMTT(60), <1>1
    <3> QED  OBVIOUS
  <2> QED  BY <2>3
<1> HIDE DEF S
<1>5. Nat \subseteq S
  BY <1>3, <1>4, NatSetInduction
<1> P(Len(d.queue))
  BY SMTT(60), <1>1, <1>5 DEF S
<1> DEFINE e == after[Len(d.queue)]
<1> e.queue \in Seq(GoodUpdates)
  BY DEF Steady, Sound, Daemons
<1> e.aborted \/ e.busy \/ e.queue = <<>>
  BY SMTT(60), <1>1
<1> QED  BY <1>2 DEF Settled

\* Rib::onFibUpdateSuccess settles the daemon.
LEMMA FibUpdateSuccessSettled ==
  ASSUME LibraryFacts, NEW d, Sound(d), NEW w \in GoodUpdates
  PROVE  Settled(onFibUpdateSuccess(d, w))
<1> Steady(Applied(d, w))
  BY AppliedSound DEF Steady
<1> QED  BY SendBatchSettled DEF onFibUpdateSuccess

\* Rib::onFibUpdateFailure settles the daemon.
LEMMA FibUpdateFailureSettled ==
  ASSUME LibraryFacts, NEW d, Sound(d), NEW w \in GoodUpdates
  PROVE  Settled(onFibUpdateFailure(d, w))
<1> Steady(Report([d EXCEPT !.busy = FALSE], w, "failed"))
  BY ReportSound DEF Steady
<1> QED  BY SendBatchSettled DEF onFibUpdateFailure

\* FibUpdater::sendUpdatesForNonBatchFaceId settles the daemon.
LEMMA NonBatchSettled ==
  ASSUME LibraryFacts, NEW d, Sound(d), NEW w \in GoodUpdates, d.updater.batch = {},
         d.aborted \/ d.busy \/ d.queue = <<>>
  PROVE  Settled(sendUpdatesForNonBatchFaceId(d, w))
<1>1. d.updater.other \subseteq FibUpdates
  BY DEF Sound, Daemons, Updaters, UpdaterRecords
<1> CASE d.updater.other # {}
  BY SMTT(60), <1>1, SendUpdatesSound DEF sendUpdatesForNonBatchFaceId, Settled, Steady, Waiting
<1> CASE d.updater.other = {}
  BY FibUpdateSuccessSettled DEF sendUpdatesForNonBatchFaceId
<1> QED  OBVIOUS

\* An update of the other faces is done, in either answer.
LEMMA OtherDoneSettled ==
  ASSUME LibraryFacts, NEW d, Settled(d), ~d.aborted, NEW c \in DOMAIN d.inFlight,
         c.fibUpdate.face # d.updater.face
  PROVE  LET d1 == [d EXCEPT !.inFlight = Ended(@, c)]
             d2 == [d1 EXCEPT !.updater.other = @ \ {c.fibUpdate}]
         IN IF d2.updater.other = {} THEN Settled(onFibUpdateSuccess(d2, c.update)) ELSE Settled(d2)
<1> DEFINE x  == c.fibUpdate
           d1 == [d EXCEPT !.inFlight = Ended(@, c)]
           d2 == [d1 EXCEPT !.updater.other = @ \ {x}]
<1>1. Sound(d) /\ (d.busy \/ d.queue = <<>>) /\ (d.busy => Waiting(d))
  BY DEF Settled, Steady
<1>2. /\ c.update \in GoodUpdates
      /\ Sound(d1) /\ d1.queue = d.queue /\ d1.busy = d.busy /\ d1.updater = d.updater
      /\ d1.aborted = d.aborted
      /\ \A list : Sent(d, list) => Sent(d1, list \ {x})
  BY <1>1, AnswerTypes
<1> HIDE DEF d1
<1> /\ Sound(d2) /\ d2.queue = d.queue /\ d2.busy = d.busy /\ d2.aborted = d.aborted
    /\ d2.inFlight = d1.inFlight
    /\ d2.updater.batch = d.updater.batch /\ d2.updater.other = d.updater.other \ {x}
  <2> d2 = WithoutOther(d1, x)
    BY DEF WithoutOther
  <2> HIDE DEF d2, x
  <2> QED  BY SMTT(60), <1>2, OtherDone DEF OnlyUpdater
<1> HIDE DEF d2
<1>3. CASE d2.updater.other = {}
  BY <1>2, <1>3, FibUpdateSuccessSettled DEF d1, d2
<1>4. CASE d2.updater.other # {}
  <2>1. x \notin d.updater.batch
    BY <1>1 DEF Sound, Daemons, Updaters
  <2>2. Sent(d, d.updater.batch) => Sent(d2, d2.updater.batch)
    BY <1>2, <2>1 DEF Sent
  <2>3. Sent(d, d.updater.other) => Sent(d2, d2.updater.other)
    BY <1>2 DEF Sent
  <2> d2.busy => Waiting(d2)
    BY <1>1, <1>4, <2>2, <2>3 DEF Waiting
  <2> Settled(d2)
    BY <1>1 DEF Settled, Steady
  <2> QED  BY <1>4 DEF d1, d2
<1> QED  BY <1>3, <1>4

\* FibUpdater::onUpdateSuccess settles the daemon, also when the answer belongs
\* to an earlier update.
LEMMA UpdateSuccessSettled ==
  ASSUME LibraryFacts, NEW d, Settled(d), ~d.aborted, NEW c \in DOMAIN d.inFlight
  PROVE  Settled(onUpdateSuccess(d, c))
<1> DEFINE x  == c.fibUpdate
           d1 == [d EXCEPT !.inFlight = Ended(@, c)]
           b2 == [d1 EXCEPT !.updater.batch = @ \ {x}]
           o2 == [d1 EXCEPT !.updater.other = @ \ {x}]
<1>1. Sound(d) /\ (d.busy \/ d.queue = <<>>) /\ (d.busy => Waiting(d))
  BY DEF Settled, Steady
<1>2. /\ c.update \in GoodUpdates
      /\ Sound(d1) /\ d1.queue = d.queue /\ d1.busy = d.busy /\ d1.updater = d.updater
      /\ d1.aborted = d.aborted
      /\ \A list : Sent(d, list) => Sent(d1, list \ {x})
  BY <1>1, AnswerTypes
<1>3. IF o2.updater.other = {} THEN x.face # d.updater.face => Settled(onFibUpdateSuccess(o2, c.update))
                               ELSE x.face # d.updater.face => Settled(o2)
  BY OtherDoneSettled
<1>4. onUpdateSuccess(d, c) =
        IF x.face = d.updater.face
          THEN IF b2.updater.batch = {} THEN sendUpdatesForNonBatchFaceId(b2, c.update) ELSE b2
          ELSE IF o2.updater.other = {} THEN onFibUpdateSuccess(o2, c.update) ELSE o2
  BY DEF onUpdateSuccess
<1> HIDE DEF d1
<1> /\ Sound(b2) /\ b2.queue = d.queue /\ b2.busy = d.busy /\ b2.aborted = d.aborted
    /\ b2.inFlight = d1.inFlight
    /\ b2.updater.batch = d.updater.batch \ {x} /\ b2.updater.other = d.updater.other
  <2> b2 = WithoutBatch(d1, x)
    BY DEF WithoutBatch
  <2> HIDE DEF b2, x
  <2> QED  BY SMTT(60), <1>2, BatchDone DEF OnlyUpdater
<1> HIDE DEF b2, o2
<1>5. CASE x.face # d.updater.face
  BY <1>3, <1>4, <1>5
<1>6. CASE x.face = d.updater.face /\ b2.updater.batch = {}
  BY <1>1, <1>2, <1>4, <1>6, NonBatchSettled
<1> CASE x.face = d.updater.face /\ b2.updater.batch # {}
  <2> Sent(d, d.updater.batch) => Sent(b2, b2.updater.batch)
    BY <1>2 DEF Sent
  <2> b2.busy => Waiting(b2)
    BY <1>1 DEF Waiting
  <2> QED  BY <1>1, <1>4 DEF Settled, Steady
<1> QED  BY <1>5, <1>6

\* FibUpdater::onUpdateError with code 410 settles the daemon.
LEMMA FaceNotFoundSettled ==
  ASSUME LibraryFacts, NEW d, Settled(d), ~d.aborted, NEW c \in DOMAIN d.inFlight
  PROVE  Settled(onFaceNotFound(d, c))
<1> DEFINE x  == c.fibUpdate
           d1 == [d EXCEPT !.inFlight = Ended(@, c)]
           d2 == [d1 EXCEPT !.updater.other = @ \ {x}]
<1>1. Sound(d)
  BY DEF Settled, Steady
<1>2. c.update \in GoodUpdates /\ Sound(d1)
  BY <1>1, AnswerTypes
<1>3. x.face # d.updater.face =>
        IF d2.updater.other = {} THEN Settled(onFibUpdateSuccess(d2, c.update)) ELSE Settled(d2)
  BY OtherDoneSettled
<1> onFaceNotFound(d, c) =
      CASE x.face = d.updater.face -> onFibUpdateFailure(d1, c.update)
        [] x.face # d.updater.face /\ d2.updater.other = {} -> onFibUpdateSuccess(d2, c.update)
        [] OTHER -> d2
  BY DEF onFaceNotFound
<1> HIDE DEF d1, d2
<1> CASE x.face = d.updater.face
  BY <1>2, FibUpdateFailureSettled
<1> CASE x.face # d.updater.face
  BY <1>3
<1> QED  OBVIOUS

\* FibUpdater::onUpdateError with an error that it throws settles the daemon.
LEMMA NonRecoverableSettled ==
  ASSUME NEW d, Settled(d), NEW c \in DOMAIN d.inFlight
  PROVE  Settled(NonRecoverable(d, c))
<1>1. Sound(d) /\ d \in Daemons /\ d.inFlight \in CommandBags
  BY DEF Settled, Steady, Sound, Daemons
<1> DEFINE ended == Ended(d.inFlight, c)
           e     == [d EXCEPT !.inFlight = ended, !.aborted = TRUE]
<1>2. ended \in CommandBags
  BY <1>1, EndedType
<1>3. NonRecoverable(d, c) = e
  BY DEF NonRecoverable, ended
<1> HIDE DEF ended
<1>4. e \in Daemons /\ e.rib = d.rib /\ e.faceMap = d.faceMap /\ e.aborted
  BY <1>1, <1>2 DEF Daemons
<1> HIDE DEF e
<1> QED  BY <1>1, <1>3, <1>4 DEF Settled, Steady, Sound

\* FibUpdater::onUpdateError with a timeout settles the daemon: the command is
\* sent again, or the daemon aborts.
LEMMA TimeoutSettled ==
  ASSUME NEW d, Settled(d), ~d.aborted, NEW c \in DOMAIN d.inFlight
  PROVE  Settled(onTimeout(d, c))
<1>1. Sound(d) /\ d \in Daemons /\ d.inFlight \in CommandBags
  BY DEF Settled, Steady, Sound, Daemons
<1>2. c \in Commands /\ c.fibUpdate \in FibUpdates
  BY <1>1, AnswerTypes
<1> DEFINE ended == Ended(d.inFlight, c)
           again == [c EXCEPT !.verb = "add", !.timeouts = @ + 1]
           bag   == Started(ended, {again})
<1>3. ended \in CommandBags /\ DOMAIN d.inFlight \ {c} \subseteq DOMAIN ended
  BY <1>1, EndedType
<1> HIDE DEF ended
<1>4. CASE c.timeouts < MAX_NUM_TIMEOUTS
  <2>1. again \in Commands /\ again.fibUpdate = c.fibUpdate
    <3> DEFINE t == c.timeouts + 1
    <3> t \in 0 .. MAX_NUM_TIMEOUTS
      BY SMTT(60), <1>2, <1>4, LimitsAssumption DEF Commands
    <3> again = [c EXCEPT !.verb = "add", !.timeouts = t]
      OBVIOUS
    <3> HIDE DEF t, again
    <3> QED  BY <1>2 DEF Commands
  <2> HIDE DEF again
  <2> bag \in CommandBags /\ DOMAIN bag = DOMAIN ended \cup {again}
    BY <1>3, <2>1, StartedType
  <2> DEFINE e == [d EXCEPT !.inFlight = bag]
  <2>2. onTimeout(d, c) = e
    BY <1>4 DEF onTimeout, bag, again, ended
  <2> HIDE DEF bag
  <2> /\ e \in Daemons /\ e.inFlight = bag /\ e.rib = d.rib /\ e.faceMap = d.faceMap
      /\ e.queue = d.queue /\ e.busy = d.busy /\ e.aborted = d.aborted /\ e.updater = d.updater
    BY <1>1 DEF Daemons
  <2> HIDE DEF e
  <2> \A list : Sent(d, list) => Sent(e, list)
    BY <1>3, <2>1 DEF Sent
  <2> QED  BY <2>2 DEF Settled, Steady, Sound, Waiting
<1> CASE ~(c.timeouts < MAX_NUM_TIMEOUTS)
  BY NonRecoverableSettled DEF onTimeout
<1> QED  BY <1>4

\* The queue may grow, and the expirations may change, while the daemon waits.
LEMMA QueuedSettled ==
  ASSUME LibraryFacts, NEW d, Settled(d), NEW more \in Seq(GoodUpdates)
  PROVE  Settled(sendBatchFromQueue([d EXCEPT !.queue = @ \o more]))
<1> DEFINE queue == d.queue \o more
           e == [d EXCEPT !.queue = queue]
<1>1. d \in Daemons /\ d.queue \in Seq(GoodUpdates)
  BY DEF Settled, Steady, Sound, Daemons
<1>2. queue \in Seq(GoodUpdates)
  BY SMTT(60), <1>1
<1> HIDE DEF queue
<1>3. /\ e \in Daemons /\ e.inFlight = d.inFlight /\ e.rib = d.rib /\ e.faceMap = d.faceMap
      /\ e.busy = d.busy /\ e.aborted = d.aborted /\ e.updater = d.updater
  BY <1>1, <1>2 DEF Daemons
<1> HIDE DEF e
<1> Steady(e)
  BY <1>3 DEF Settled, Steady, Sound, Waiting, Sent
<1> Settled(sendBatchFromQueue(e))
  BY SendBatchSettled
<1> QED  BY DEF e, queue

\* Rib::beginApplyUpdate settles the daemon.
LEMMA BeginApplySettled ==
  ASSUME LibraryFacts, NEW d, Settled(d), NEW w \in GoodUpdates
  PROVE  Settled(beginApplyUpdate(d, w))
<1> d.queue \in Seq(GoodUpdates)
  BY DEF Settled, Steady, Sound, Daemons
<1> Append(d.queue, w) = d.queue \o <<w>> /\ <<w>> \in Seq(GoodUpdates)
  BY SMTT(60)
<1> QED  BY QueuedSettled DEF beginApplyUpdate

\* Rib::beginRemoveFace settles the daemon.
LEMMA BeginRemoveFaceSettled ==
  ASSUME LibraryFacts, NEW d, Settled(d), NEW f \in Faces, NEW names \in Listings(d.faceMap[f])
  PROVE  Settled(beginRemoveFace(d, f, names))
<1> DEFINE more == [i \in 1 .. Len(names) |-> Update("remove_face", names[i], f, NoRoute, 0)]
<1>1. d.faceMap[f] \subseteq Names /\ IsFiniteSet(d.faceMap[f])
  BY DEF Settled, Steady, Sound, Daemons, FacesListed
<1>2. names \in Seq(d.faceMap[f])
  BY <1>1, ListingType
<1> Len(names) \in Nat /\ \A i \in 1 .. Len(names) : names[i] \in Names
  BY SMTT(60), <1>1, <1>2
<1>3. \A i \in 1 .. Len(names) : Update("remove_face", names[i], f, NoRoute, 0) \in GoodUpdates
  BY SMTT(60), LimitsAssumption DEF Update, GoodUpdates, Updates
<1> more \in Seq(GoodUpdates)
  BY SMTT(60), <1>3
<1> Settled(sendBatchFromQueue([d EXCEPT !.queue = @ \o more]))
  BY QueuedSettled
<1> QED  BY DEF beginRemoveFace

\* Scheduling and cancelling expirations settles the daemon.
LEMMA ExpirationsSettled ==
  ASSUME NEW d, Settled(d), NEW events, events \subseteq Events
  PROVE  Settled([d EXCEPT !.expirations = events])
<1> DEFINE e == [d EXCEPT !.expirations = events]
<1>1. d \in Daemons
  BY DEF Settled, Steady, Sound
<1> /\ e \in Daemons /\ e.inFlight = d.inFlight /\ e.rib = d.rib /\ e.faceMap = d.faceMap
    /\ e.busy = d.busy /\ e.aborted = d.aborted /\ e.updater = d.updater /\ e.queue = d.queue
  BY <1>1 DEF Daemons
<1> HIDE DEF e
<1> Settled(e)
  BY DEF Settled, Steady, Sound, Waiting, Sent
<1> QED  BY DEF e

-----------------------------------------------------------------------------
(* The specification                                                       *)

\* The types of what is outside of the daemon's record.
OtherTypes ==
  /\ m_registeredFaces \subseteq Faces
  /\ destroyed \subseteq Faces \X {"notified", "fetched"}
  /\ fib \in [Names -> [Faces -> Nat \cup {Absent}]]
  /\ faceTable \subseteq Faces
  /\ requests \in 0 .. MaxRequests

\* The inductive invariant: the daemon is settled between two handlers.
DaemonSettled == Settled(Daemon) /\ OtherTypes

\* Becomes gives the variables the values in the record.
LEMMA BecomesIs ==
  ASSUME NEW next \in Daemons, Becomes(next)
  PROVE  Daemon' = next
<1> Daemon' = [rib |-> next.rib, faceMap |-> next.faceMap, queue |-> next.queue,
               busy |-> next.busy, updater |-> next.updater, inFlight |-> next.inFlight,
               expirations |-> next.expirations, aborted |-> next.aborted,
               outcome |-> next.outcome]
  BY DEF Becomes, Daemon
<1> QED  BY DEF Daemons

\* A handler that settles the record settles the variables.
LEMMA BecomesSettled ==
  ASSUME NEW next, Settled(next), Becomes(next)
  PROVE  Settled(Daemon')
BY BecomesIs DEF Settled, Steady, Sound

\* The record of the daemon's state holds its variables.
LEMMA DaemonFields ==
  /\ Daemon.rib = m_rib /\ Daemon.faceMap = m_faceMap /\ Daemon.queue = m_updateBatches
  /\ Daemon.busy = m_isUpdateInProgress /\ Daemon.updater = updater
  /\ Daemon.inFlight = inFlight /\ Daemon.expirations = expirations
  /\ Daemon.aborted = aborted /\ Daemon.outcome = outcome
BY DEF Daemon

\* The daemon starts settled.
LEMMA InitSettled ==
  ASSUME LibraryFacts, Init
  PROVE  DaemonSettled
<1>1. Nothing \in Ribs /\ Nothing \in CommandBags /\ DOMAIN Nothing = {}
  BY RibTypes, CommandBagTypes DEF Nothing
<1>2. NoUpdates(NoFace) \in Updaters
  BY NoUpdatesType
<1>3. <<>> \in Seq(GoodUpdates)
  BY SMTT(60)
<1>4. Daemon \in Daemons
  BY <1>1, <1>2, <1>3, DaemonFields DEF Init, Daemons, Daemon
<1>5. Tree(m_rib)
  BY <1>1 DEF Init, Tree
<1>6. FacesListed(m_rib, m_faceMap)
  <2> IsFiniteSet({})
    BY DEF LibraryFacts
  <2> QED  BY <1>1 DEF Init, FacesListed
<1> Settled(Daemon)
  BY <1>4, <1>5, <1>6, DaemonFields DEF Init, Settled, Steady, Sound
<1> OtherTypes
  BY SMTT(60), LimitsAssumption DEF Init, OtherTypes
<1> QED  BY DEF DaemonSettled

\* The forwarder's FIB stays a table of costs.
LEMMA FibAfterType ==
  ASSUME OtherTypes, NEW c \in Commands
  PROVE  FibAfter(c) \in [Names -> [Faces -> Nat \cup {Absent}]]
<1> DEFINE x == c.fibUpdate
           v == IF c.verb = "add" THEN x.cost ELSE Absent
<1>1. x.name \in Names /\ x.face \in Faces /\ v \in Nat \cup {Absent}
  BY DEF Commands, FibUpdates
<1> fib \in [Names -> [Faces -> Nat \cup {Absent}]]
  BY DEF OtherTypes
<1> FibAfter(c) = IF x.face \in faceTable THEN [fib EXCEPT ![x.name][x.face] = v] ELSE fib
  BY DEF FibAfter
<1> HIDE DEF x, v
<1> QED  BY SMTT(60), <1>1

\* Every handler keeps the daemon settled.
LEMMA StepSettled ==
  ASSUME LibraryFacts, DaemonSettled, [Next]_vars
  PROVE  DaemonSettled'
<1> Settled(Daemon) /\ OtherTypes /\ Daemon \in Daemons
  BY DEF DaemonSettled, Settled, Steady, Sound
<1>1. ASSUME NEW name \in Names, NEW f \in Faces, NEW fl \in Flags, NEW cost \in Costs,
             NEW expires \in BOOLEAN,
             registerEntry(name, f, [ci |-> fl.ci, cap |-> fl.cap, cost |-> cost], expires)
      PROVE  DaemonSettled'
  <2> DEFINE id == requests + 1
             event == IF expires THEN id ELSE 0
             r == [ci |-> fl.ci, cap |-> fl.cap, cost |-> cost, event |-> event]
             events == IF expires THEN expirations \cup {[name |-> name, face |-> f, id |-> id]}
                                  ELSE expirations
             d == [Daemon EXCEPT !.expirations = events]
             w == Update("register", name, f, r, id)
  <2>1. requests < MaxRequests /\ requests' = id /\ requests \in 0 .. MaxRequests
    BY <1>1 DEF registerEntry, OtherTypes
  <2> id \in 0 .. MaxRequests /\ event \in 0 .. MaxRequests /\ id \in Nat
    BY SMTT(60), <2>1, LimitsAssumption
  <2>2. Becomes(beginApplyUpdate(d, w))
    BY <1>1, DaemonFields DEF registerEntry
  <2> HIDE DEF id, event
  <2>3. r \in Routes
    BY SMTT(60) DEF Routes
  <2>4. w \in GoodUpdates
    BY <2>3 DEF Update, GoodUpdates, Updates
  <2>5. events \subseteq Events
    BY SMTT(60), DaemonFields DEF Daemons, Events
  <2> HIDE DEF w, events
  <2>6. Settled(d)
    BY <2>5, ExpirationsSettled
  <2> HIDE DEF d
  <2> Settled(Daemon')
    BY <2>2, <2>4, <2>6, BeginApplySettled, BecomesSettled
  <2> OtherTypes'
    BY <1>1, <2>1 DEF registerEntry, OtherTypes
  <2> QED  BY DEF DaemonSettled
<1>2. ASSUME NEW name \in Names, NEW f \in Faces, unregisterEntry(name, f)
      PROVE  DaemonSettled'
  <2> DEFINE w == Update("unregister", name, f, NoRoute, requests + 1)
  <2>1. requests + 1 \in 0 .. MaxRequests
    BY SMTT(60), <1>2, LimitsAssumption DEF unregisterEntry, OtherTypes
  <2>2. w \in GoodUpdates
    BY <2>1 DEF Update, GoodUpdates, Updates
  <2>3. Becomes(beginApplyUpdate(Daemon, w))
    BY <1>2 DEF unregisterEntry
  <2> HIDE DEF w
  <2> Settled(Daemon')
    BY <2>2, <2>3, BeginApplySettled, BecomesSettled
  <2> OtherTypes'
    BY <1>2, <2>1 DEF unregisterEntry, OtherTypes
  <2> QED  BY DEF DaemonSettled
<1>3. ASSUME NEW e \in expirations, onRouteExpiration(e) PROVE DaemonSettled'
  <2> DEFINE w == Update("unregister", e.name, e.face, NoRoute, 0)
             d == [Daemon EXCEPT !.expirations = @ \ {e}]
  <2>1. e.name \in Names /\ e.face \in Faces /\ Daemon.expirations \ {e} \subseteq Events
    BY DaemonFields DEF Daemons, Events
  <2>2. w \in GoodUpdates
    BY SMTT(60), <2>1, LimitsAssumption DEF Update, GoodUpdates, Updates
  <2>3. Becomes(beginApplyUpdate(d, w))
    BY <1>3 DEF onRouteExpiration
  <2>4. Settled(d)
    BY <2>1, ExpirationsSettled
  <2> HIDE DEF w, d
  <2> Settled(Daemon')
    BY <2>2, <2>3, <2>4, BeginApplySettled, BecomesSettled
  <2> OtherTypes'
    BY <1>3 DEF onRouteExpiration, OtherTypes
  <2> QED  BY DEF DaemonSettled
<1>4. ASSUME NEW c \in DOMAIN inFlight, FibAnswer(c) PROVE DaemonSettled'
  <2>1. ~Daemon.aborted /\ c \in DOMAIN Daemon.inFlight
    BY <1>4, DaemonFields DEF FibAnswer
  <2>2. Settled(onUpdateSuccess(Daemon, c)) /\ Settled(onFaceNotFound(Daemon, c))
    BY <2>1, UpdateSuccessSettled, FaceNotFoundSettled
  <2>3. Settled(Daemon')
    BY <1>4, <2>2, BecomesSettled DEF FibAnswer
  <2> c \in Commands
    BY <2>1, AnswerTypes DEF Settled, Steady
  <2> OtherTypes'
    BY <1>4, FibAfterType DEF FibAnswer, OtherTypes
  <2> QED  BY <2>3 DEF DaemonSettled
<1>5. ASSUME NEW c \in DOMAIN inFlight, FibTimeout(c) PROVE DaemonSettled'
  <2> ~Daemon.aborted /\ c \in DOMAIN Daemon.inFlight
    BY <1>5, DaemonFields DEF FibTimeout
  <2>1. Settled(Daemon')
    BY <1>5, TimeoutSettled, BecomesSettled DEF FibTimeout
  <2> c \in Commands
    BY AnswerTypes DEF Settled, Steady
  <2> OtherTypes'
    BY <1>5, FibAfterType DEF FibTimeout, OtherTypes
  <2> QED  BY <2>1 DEF DaemonSettled
<1>6. ASSUME NEW c \in DOMAIN inFlight, FibError(c) PROVE DaemonSettled'
  <2> ~Daemon.aborted /\ c \in DOMAIN Daemon.inFlight
    BY <1>6, DaemonFields DEF FibError
  <2>1. Settled(Daemon')
    BY <1>6, NonRecoverableSettled, BecomesSettled DEF FibError
  <2> c \in Commands
    BY AnswerTypes DEF Settled, Steady
  <2> OtherTypes'
    BY <1>6, FibAfterType DEF FibError, OtherTypes
  <2> QED  BY <2>1 DEF DaemonSettled
<1>7. ASSUME NEW f \in Faces, FaceDestroyed(f) PROVE DaemonSettled'
  <2>1. Daemon' = Daemon
    BY <1>7 DEF FaceDestroyed, daemonVars, Daemon
  <2> fib' \in [Names -> [Faces -> Nat \cup {Absent}]]
    BY <1>7 DEF FaceDestroyed, OtherTypes
  <2> OtherTypes'
    BY SMTT(60), <1>7 DEF FaceDestroyed, OtherTypes
  <2> QED  BY <2>1 DEF DaemonSettled
<1>8. ASSUME NEW e \in destroyed, onFaceDestroyedEvent(e) PROVE DaemonSettled'
  <2>1. e[1] \in Faces
    BY DEF OtherTypes
  <2>2. PICK names \in Listings(Daemon.faceMap[e[1]]) : Becomes(beginRemoveFace(Daemon, e[1], names))
    BY <1>8, DaemonFields DEF onFaceDestroyedEvent
  <2> Settled(Daemon')
    BY <2>1, <2>2, BeginRemoveFaceSettled, BecomesSettled
  <2> OtherTypes'
    BY <1>8 DEF onFaceDestroyedEvent, OtherTypes
  <2> QED  BY DEF DaemonSettled
<1> ASSUME removeInvalidFaces PROVE DaemonSettled'
  <2> Daemon' = Daemon
    BY DEF removeInvalidFaces, daemonVars, Daemon
  <2> OtherTypes'
    BY DEF removeInvalidFaces, OtherTypes
  <2> QED  BY DEF DaemonSettled
<1> ASSUME UNCHANGED vars PROVE DaemonSettled'
  BY DEF vars, daemonVars, Daemon, DaemonSettled, OtherTypes
<1> QED  BY <1>1, <1>2, <1>3, <1>4, <1>5, <1>6, <1>7, <1>8 DEF Next

-----------------------------------------------------------------------------
(* The FIB follows the RIB, with the default flags and without faults      *)

\* Rib::insert and Rib::erase make it.
LEMMA ChangedIs ==
  ASSUME LibraryFacts, NEW d, Sound(d), NEW w \in Requests
  PROVE  ChangedRib(d, w).rib = NewRib(d.rib, w)
<1>1. w.name \in Names /\ w.face \in Faces /\ (w.action = "register" => w.route \in Routes)
  BY DEF Requests, GoodUpdates, Updates
<1>2. CASE w.action = "register"
  BY <1>1, <1>2, InsertSound DEF ChangedRib, NewRib
<1> CASE w.action # "register"
  <2> DEFINE e == erase(d, w.name, w.face)
  <2> /\ HasRoute(d.rib, w.name, w.face) => e.rib = EraseRoute(d.rib, w.name, w.face)
      /\ ~HasRoute(d.rib, w.name, w.face) => e = d
    BY <1>1, EraseSound
  <2> ChangedRib(d, w) = e
    BY DEF ChangedRib
  <2> HIDE DEF e
  <2> QED  BY DEF NewRib
<1> QED  BY <1>2

\* The records are those of a list.
HasRecords(rib, records) ==
  DOMAIN records = DOMAIN rib /\ \A n \in DOMAIN rib, g \in Faces : rib[n].inherited[g] = records[n][g]

\* Rib::modifyInheritedRoutes makes the changes that can be made.
LEMMA ModifyRecorded ==
  ASSUME LibraryFacts, NEW d, Sound(d), ~d.aborted, NEW list \in Seq(SUBSET FibUpdates),
         NEW last, Leads(list, Recorded(d.rib), last)
  PROVE  LET e == modifyInheritedRoutes(d, list)
         IN ~e.aborted /\ SameRoutes(e.rib, d.rib) /\ HasRecords(e.rib, last)
<1>1. Len(list) \in Nat
  BY SMTT(60)
<1>2. PICK after : Modifies(after, d, list)
  BY <1>1, ModifyRuns
<1>3. /\ after[0] = d
      /\ \A i \in 1 .. Len(list) : after[i] = ModifyEach(after[i - 1], list[i])
      /\ modifyInheritedRoutes(d, list) = after[Len(list)]
  BY <1>2 DEF Modifies
<1>4. PICK at : /\ at[0] = Recorded(d.rib)
                /\ \A i \in 1 .. Len(list) : /\ CanRecord(at[i - 1], list[i])
                                             /\ at[i] = RecordStep(at[i - 1], list[i])
                /\ at[Len(list)] = last
  BY DEF Leads
<1> DEFINE P(i) == /\ Sound(after[i]) /\ ~after[i].aborted
                   /\ SameRoutes(after[i].rib, d.rib) /\ HasRecords(after[i].rib, at[i])
           S == {i \in Nat : i <= Len(list) => P(i)}
<1>5. 0 \in S
  <2> HasRecords(d.rib, Recorded(d.rib)) /\ SameRoutes(d.rib, d.rib)
    BY DEF HasRecords, Recorded, SameRoutes
  <2> QED  BY <1>3, <1>4
<1>6. ASSUME NEW i \in Nat, i \in S PROVE i + 1 \in S
  <2>1. SUFFICES ASSUME i + 1 <= Len(list) PROVE P(i + 1)
    BY SMTT(60)
  <2> DEFINE e == after[i]
             changes == list[i + 1]
             next == after[i + 1]
  <2> Sound(e) /\ ~e.aborted /\ SameRoutes(e.rib, d.rib) /\ HasRecords(e.rib, at[i])
    BY SMTT(60), <1>1, <1>6, <2>1
  <2> /\ next = ModifyEach(e, changes)
      /\ CanRecord(at[i], changes) /\ at[i + 1] = RecordStep(at[i], changes)
      /\ changes \subseteq FibUpdates
    BY SMTT(60), <1>1, <1>3, <1>4, <2>1
  <2> HIDE DEF e, changes, next
  <2>2. ASSUME NEW x \in changes PROVE CanModify(e.rib, x)
    <3> x.face \in Faces /\ x.name \in DOMAIN e.rib
      BY DEF FibUpdates, CanRecord, HasRecords
    <3> QED  BY DEF CanRecord, CanModify, HasRecords, hasInheritedRoute
  <2> Sound(next) /\ next.aborted = e.aborted /\ Modified(next.rib, e.rib, changes)
    BY <2>2, ModifyEachSound
  <2>3. SameRoutes(next.rib, d.rib)
    BY DEF SameRoutes, Modified
  <2> HasRecords(next.rib, at[i + 1])
    <3> DOMAIN RecordStep(at[i], changes) = DOMAIN at[i]
      BY DEF RecordStep
    <3> \A n \in DOMAIN at[i], g \in Faces :
          RecordStep(at[i], changes)[n][g] = RecordsAfter(n, g, at[i][n][g], changes)
      BY DEF RecordStep
    <3> QED  BY SMTT(60) DEF HasRecords, Modified
  <2> QED  BY <2>3 DEF next, e
<1> HIDE DEF S
<1> Nat \subseteq S
  BY <1>5, <1>6, NatSetInduction
<1> P(Len(list))
  BY SMTT(60), <1>1 DEF S
<1> QED  BY <1>3, <1>4

\* A daemon whose RIB records every inherited route.
Agrees(d) ==
  Sound(d) /\ ~d.aborted /\ Plain(d.rib) /\ Complete(d.rib) /\ d.queue \in Seq(Requests)

\* Rib::onFibUpdateSuccess after the last answer: the FIB holds what the new
\* RIB says.
LEMMA AppliedMatches ==
  ASSUME LibraryFacts, Defaults, NEW d, Agrees(d), NEW w \in Requests, NEW table,
         Pending(d.updater) = {}, Planned(NewRib(d.rib, w), d.updater, table)
  PROVE  LET e == Applied(d, w)
         IN /\ Agrees(e) /\ ~e.busy /\ e.queue = d.queue
            /\ e.inFlight = d.inFlight /\ Match(e.rib, table)
<1> DEFINE d1 == ChangedRib(d, w)
           list == d.updater.inherited
           d2 == modifyInheritedRoutes(d1, list)
           e == Applied(d, w)
           new == NewRib(d.rib, w)
<1>1. Sound(d) /\ ~d.aborted /\ Plain(d.rib) /\ d.rib \in Ribs /\ Tree(d.rib) /\ w \in GoodUpdates
  BY DEF Agrees, Sound, Daemons, Requests
<1>2. Sound(d1) /\ SameQueue(d1, d) /\ ~d1.aborted /\ d1.rib = new
  BY <1>1, ChangedSound, ChangedIs
<1>3. new \in Ribs /\ Plain(new)
  BY <1>1, NewRibTree
<1>4. list \in Seq(SUBSET FibUpdates) /\ Len(list) \in Nat
  <2> d.updater \in UpdaterRecords
    BY <1>1 DEF Sound, Daemons, Updaters
  <2> QED  BY SMTT(60) DEF UpdaterRecords
<1>5. /\ Ready(new, list)
      /\ \A n \in Names, g \in Faces : Target(new, n, g, After(Pending(d.updater), n, g, table[n][g]))
  BY DEF Planned
<1>6. Applied(d, w) = IF d2.aborted THEN d2 ELSE Report([d2 EXCEPT !.busy = FALSE], w, "applied")
  BY DEF Applied, ChangedRib
<1> HIDE DEF d1, new, list, e
<1>7. PICK last : /\ Leads(list, Recorded(new), last)
                  /\ DOMAIN last = DOMAIN new
                  /\ \A n \in DOMAIN new, g \in Faces :
                       Inherits(new, n, g) /\ ~HasRoute(new, n, g) => last[n][g] > 0
  BY <1>5 DEF Ready
<1>8. ~d2.aborted /\ SameRoutes(d2.rib, new) /\ HasRecords(d2.rib, last)
  BY <1>2, <1>4, <1>7, ModifyRecorded
<1>9. Sound(d2) /\ SameQueue(d2, d1)
  BY <1>2, <1>4, ModifyInheritedSound
<1> HIDE DEF d2
<1> /\ Sound(e) /\ ~e.busy /\ e.queue = d2.queue /\ e.inFlight = d2.inFlight
    /\ e.rib = d2.rib /\ e.aborted = d2.aborted
  BY <1>1, <1>6, <1>8, <1>9, ReportSound DEF e
<1>10. /\ \A n, g : HasRoute(e.rib, n, g) <=> HasRoute(new, n, g)
       /\ \A n, g : Inherits(e.rib, n, g) <=> Inherits(new, n, g)
       /\ \A n, g, v : Target(e.rib, n, g, v) <=> Target(new, n, g, v)
  BY <1>8, SameTarget
<1>11. Plain(e.rib)
  BY <1>3, <1>8 DEF Plain, SameRoutes
<1>12. Complete(e.rib)
  <2> SUFFICES ASSUME NEW n \in DOMAIN e.rib, NEW g \in Faces,
                      Inherits(e.rib, n, g), ~HasRoute(e.rib, n, g)
               PROVE  e.rib[n].inherited[g] > 0
    BY DEF Complete
  <2> n \in DOMAIN new
    BY <1>8 DEF SameRoutes
  <2> last[n][g] > 0
    BY <1>7, <1>10
  <2> QED  BY <1>8 DEF HasRecords
<1> Match(e.rib, table)
  <2> \A n, g, v : After({}, n, g, v) = v
    BY DEF After, Touches
  <2> \A n \in Names, g \in Faces : Target(new, n, g, table[n][g])
    BY SMTT(60), <1>5
  <2> QED  BY <1>10 DEF Match
<1> e.queue = d.queue /\ e.inFlight = d.inFlight
  BY <1>2, <1>9 DEF SameQueue
<1> QED  BY <1>8, <1>11, <1>12 DEF Agrees, e

\* No update is in progress, and the FIB holds what the RIB says.
Idle(d, table) == Agrees(d) /\ ~d.busy /\ DOMAIN d.inFlight = {} /\ Match(d.rib, table)

\* An update is in progress.  What is pending is what the FIB still needs, and
\* the commands of one of the two lists are in flight.
InProgress(d, table) ==
  /\ Agrees(d) /\ d.busy
  /\ \E w \in Requests :
       /\ Planned(NewRib(d.rib, w), d.updater, table)
       /\ \/ d.updater.batch # {} /\ Flying(d.inFlight, d.updater.batch, w)
          \/ d.updater.batch = {} /\ d.updater.other # {} /\ Flying(d.inFlight, d.updater.other, w)

\* The FIB follows the RIB.
Follows(d, table) == Idle(d, table) \/ InProgress(d, table)

\* sendUpdatesForBatchFaceId and what it calls.
LEMMA SendOrApplyFollows ==
  ASSUME LibraryFacts,
         Defaults, NEW d, Agrees(d), d.busy, DOMAIN d.inFlight = {}, NEW w \in Requests,
         NEW table, Planned(NewRib(d.rib, w), d.updater, table)
  PROVE  Follows(SendOrApply(d, w), table) /\ SendOrApply(d, w).queue = d.queue
<1>1. Sound(d) /\ w \in GoodUpdates /\ d.updater.batch \subseteq FibUpdates /\ d.updater.other \subseteq FibUpdates
  BY DEF Agrees, Sound, Daemons, Updaters, UpdaterRecords, Requests
<1>2. ASSUME NEW list, list \subseteq FibUpdates
      PROVE  LET e == sendUpdates(d, w, list)
             IN /\ Agrees(e) /\ e.busy /\ e.queue = d.queue /\ e.updater = d.updater
                /\ e.rib = d.rib /\ Flying(e.inFlight, list, w)
  <2> DEFINE e == sendUpdates(d, w, list)
  <2> Flying(e.inFlight, list, w)
    BY <1>1, <1>2, SentOnce
  <2> /\ Sound(e) /\ e.queue = d.queue /\ e.busy = d.busy
      /\ e.updater = d.updater /\ e.aborted = d.aborted /\ e.rib = d.rib
    BY <1>1, <1>2, SendUpdatesSound
  <2> HIDE DEF e
  <2> QED  BY DEF Agrees, e
<1>3. CASE d.updater.batch # {}
  <2> DEFINE e == sendUpdates(d, w, d.updater.batch)
  <2>1. SendOrApply(d, w) = e
    BY <1>3 DEF SendOrApply
  <2> /\ Agrees(e) /\ e.busy /\ e.queue = d.queue /\ e.updater = d.updater
      /\ e.rib = d.rib /\ Flying(e.inFlight, d.updater.batch, w)
    BY <1>1, <1>2
  <2> HIDE DEF e
  <2> InProgress(e, table)
    BY <1>3 DEF InProgress
  <2> QED  BY <2>1 DEF Follows
<1>4. CASE d.updater.batch = {} /\ d.updater.other # {}
  <2> DEFINE e == sendUpdates(d, w, d.updater.other)
  <2>1. SendOrApply(d, w) = e
    BY <1>4 DEF SendOrApply
  <2> /\ Agrees(e) /\ e.busy /\ e.queue = d.queue /\ e.updater = d.updater
      /\ e.rib = d.rib /\ Flying(e.inFlight, d.updater.other, w)
    BY <1>1, <1>2
  <2> HIDE DEF e
  <2> InProgress(e, table)
    BY <1>4 DEF InProgress
  <2> QED  BY <2>1 DEF Follows
<1> CASE d.updater.batch = {} /\ d.updater.other = {}
  <2> DEFINE e == Applied(d, w)
  <2>1. SendOrApply(d, w) = e
    BY DEF SendOrApply
  <2> Pending(d.updater) = {}
    BY DEF Pending
  <2> /\ Agrees(e) /\ ~e.busy /\ e.queue = d.queue
      /\ e.inFlight = d.inFlight /\ Match(e.rib, table)
    BY AppliedMatches
  <2> HIDE DEF e
  <2> QED  BY <2>1 DEF Follows, Idle
<1> QED  BY <1>3, <1>4

\* Rib::sendBatchFromQueue up to its call of itself: the updates that it plans
\* are computed from a RIB that the FIB agrees with.
LEMMA SendNextFollows ==
  ASSUME LibraryFacts, Defaults, NEW d, NEW table, Follows(d, table)
  PROVE  Follows(SendNext(d), table)
<1>1. CASE d.queue = <<>> \/ d.busy \/ d.aborted
  BY <1>1 DEF SendNext
<1>2. CASE ~(d.queue = <<>> \/ d.busy \/ d.aborted)
  <2> DEFINE w == Head(d.queue)
             rest == Tail(d.queue)
             m == [d EXCEPT !.busy = TRUE, !.queue = rest]
             cancelled == IF w.action # "register" /\ HasRoute(m.rib, w.name, w.face)
                            THEN {m.rib[w.name].routes[w.face].event} ELSE {}
             left == {e \in m.expirations : e.id \notin cancelled}
             u == computeUpdates(d.rib, w)
             k == [m EXCEPT !.updater = u, !.expirations = left]
  <2>1. Idle(d, table) /\ Agrees(d) /\ Sound(d) /\ d \in Daemons
    BY <1>2 DEF Follows, InProgress, Idle, Agrees, Sound
  <2> w \in Requests /\ rest \in Seq(Requests) /\ rest \in Seq(GoodUpdates) /\ w \in GoodUpdates
    <3>1. d.queue \in Seq(Requests) /\ d.queue # <<>>
      BY <1>2, <2>1 DEF Agrees
    <3> w \in Requests /\ rest \in Seq(Requests)
      BY SMTT(60), <3>1
    <3> rest \in Seq(GoodUpdates)
      <4> Requests \subseteq GoodUpdates
        BY DEF Requests
      <4> HIDE DEF rest
      <4> QED  BY SMTT(60)
    <3> QED  BY DEF Requests
  <2> HIDE DEF w, rest
  <2>2. /\ m \in Daemons /\ m.rib = d.rib /\ m.faceMap = d.faceMap /\ m.queue = rest /\ m.busy
        /\ m.inFlight = d.inFlight /\ m.aborted = d.aborted
    BY <2>1 DEF Daemons
  <2>3. SendNext(d) = computeAndSendFibUpdates(m, w)
    BY <1>2 DEF SendNext, w, rest
  <2>4. computeAndSendFibUpdates(m, w) = SendOrApply(k, w)
    BY <2>2 DEF computeAndSendFibUpdates
  <2> HIDE DEF m
  <2>5. left \in SUBSET Events
    BY <2>2 DEF Daemons
  <2> u \in Updaters /\ Planned(NewRib(d.rib, w), u, table)
    <3> /\ d.rib \in Ribs /\ Tree(d.rib) /\ Plain(d.rib) /\ Complete(d.rib) /\ Match(d.rib, table)
        /\ w.action # "remove_face"
      BY <2>1 DEF Idle, Agrees, Sound, Daemons, Requests
    <3> QED  BY ComputePlanned
  <2> HIDE DEF u, left
  <2> /\ k \in Daemons /\ k.rib = d.rib /\ k.faceMap = d.faceMap /\ k.queue = rest /\ k.busy
      /\ k.inFlight = d.inFlight /\ k.aborted = d.aborted /\ k.updater = u
    BY <2>2, <2>5 DEF Daemons
  <2> HIDE DEF k
  <2> Agrees(k) /\ DOMAIN k.inFlight = {}
    BY <2>1 DEF Idle, Agrees, Sound
  <2> Planned(NewRib(k.rib, w), k.updater, table)
    OBVIOUS
  <2> QED  BY <2>3, <2>4, SendOrApplyFollows
<1> QED  BY <1>1, <1>2

\* Rib::sendBatchFromQueue.
LEMMA SendBatchFollows ==
  ASSUME LibraryFacts, Defaults, NEW d, NEW table, Follows(d, table)
  PROVE  Follows(sendBatchFromQueue(d), table)
<1> Len(d.queue) \in Nat
  BY QueueLength DEF Follows, Idle, InProgress, Agrees, Sound
<1>1. PICK after :
        /\ after[0] = d
        /\ \A i \in 1 .. Len(d.queue) : after[i] = SendNext(after[i - 1])
        /\ sendBatchFromQueue(d) = after[Len(d.queue)]
  BY SendLoop
<1> DEFINE S == {i \in Nat : i <= Len(d.queue) => Follows(after[i], table)}
<1>2. 0 \in S
  BY <1>1
<1>3. ASSUME NEW i \in Nat, i \in S PROVE i + 1 \in S
  <2> SUFFICES ASSUME i + 1 <= Len(d.queue) PROVE Follows(after[i + 1], table)
    BY SMTT(60)
  <2> Follows(after[i], table)
    BY SMTT(60), <1>3
  <2> after[i + 1] = SendNext(after[i])
    BY SMTT(60), <1>1
  <2> QED  BY SendNextFollows
<1> HIDE DEF S
<1> Nat \subseteq S
  BY <1>2, <1>3, NatSetInduction
<1> Follows(after[Len(d.queue)], table)
  BY SMTT(60) DEF S
<1> QED  BY <1>1

\* FibUpdater::onUpdateSuccess.
LEMMA AnswerFollows ==
  ASSUME LibraryFacts,
         Defaults, NEW d, NEW table \in Tables, InProgress(d, table), NEW c \in DOMAIN d.inFlight
  PROVE  /\ Follows(onUpdateSuccess(d, c), Written(table, c.fibUpdate))
         /\ c.verb = c.fibUpdate.action
<1> DEFINE x  == c.fibUpdate
           d1 == [d EXCEPT !.inFlight = Ended(@, c)]
           b2 == [d1 EXCEPT !.updater.batch = @ \ {x}]
           o2 == [d1 EXCEPT !.updater.other = @ \ {x}]
           next == Written(table, x)
<1>1. PICK w \in Requests :
        /\ Planned(NewRib(d.rib, w), d.updater, table)
        /\ \/ d.updater.batch # {} /\ Flying(d.inFlight, d.updater.batch, w)
           \/ d.updater.batch = {} /\ d.updater.other # {} /\ Flying(d.inFlight, d.updater.other, w)
  BY DEF InProgress
<1>2. /\ Agrees(d) /\ Sound(d) /\ d.busy /\ d.inFlight \in CommandBags /\ d.updater \in Updaters
      /\ \A y \in d.updater.batch : y.face = d.updater.face
      /\ \A y \in d.updater.other : y.face # d.updater.face
  BY DEF InProgress, Agrees, Sound, Daemons, Updaters
<1>3. /\ Sound(d1) /\ d1.queue = d.queue /\ d1.busy = d.busy /\ d1.updater = d.updater
      /\ d1.aborted = d.aborted /\ d1.rib = d.rib /\ d1.inFlight = Ended(d.inFlight, c)
  BY <1>2, AnswerTypes
<1>4. onUpdateSuccess(d, c) =
        IF x.face = d.updater.face
          THEN IF b2.updater.batch = {} THEN sendUpdatesForNonBatchFaceId(b2, c.update) ELSE b2
          ELSE IF o2.updater.other = {} THEN onFibUpdateSuccess(o2, c.update) ELSE o2
  BY DEF onUpdateSuccess
<1> HIDE DEF d1
<1>5. CASE d.updater.batch # {} /\ Flying(d.inFlight, d.updater.batch, w)
  <2>1. /\ x \in d.updater.batch /\ c.update = w /\ c.verb = x.action
        /\ Flying(d1.inFlight, d.updater.batch \ {x}, w)
    <3> d.inFlight \in CommandBags /\ Flying(d.inFlight, d.updater.batch, w)
      BY <1>2, <1>5
    <3> /\ x \in d.updater.batch /\ c.update = w /\ c.verb = x.action
        /\ Flying(Ended(d.inFlight, c), d.updater.batch \ {x}, w)
      BY FlyingDone
    <3> QED  BY <1>3
  <2>2. /\ Sound(b2) /\ OnlyUpdater(b2, d1)
        /\ b2.updater.batch = d.updater.batch \ {x} /\ b2.updater.other = d.updater.other
        /\ b2.updater.inherited = d.updater.inherited
    <3> b2 = WithoutBatch(d1, x)
      BY DEF WithoutBatch
    <3> HIDE DEF b2, x
    <3> LET e == WithoutBatch(d1, x) IN
        /\ Sound(e) /\ OnlyUpdater(e, d1)
        /\ e.updater.batch = d1.updater.batch \ {x} /\ e.updater.other = d1.updater.other
        /\ e.updater.inherited = d1.updater.inherited /\ e.updater.face = d1.updater.face
      BY <1>3, BatchDone
    <3> QED  BY <1>3
  <2>3. onUpdateSuccess(d, c) = IF b2.updater.batch = {} THEN sendUpdatesForNonBatchFaceId(b2, w) ELSE b2
    BY <1>2, <1>4, <2>1
  <2> HIDE DEF b2, x, next
  <2>4. Agrees(b2) /\ b2.busy /\ b2.rib = d.rib /\ b2.inFlight = d1.inFlight
    BY <1>2, <1>3, <2>2 DEF Agrees, OnlyUpdater
  <2>5. Planned(NewRib(b2.rib, w), b2.updater, next)
    <3>1. x \in Pending(d.updater)
      BY <2>1 DEF Pending
    <3> Pending(b2.updater) = Pending(d.updater) \ {x}
      BY <1>2, <2>1, <2>2 DEF Pending
    <3> Planned(NewRib(d.rib, w), b2.updater, Written(table, x))
      BY <1>1, <1>2, <2>2, <3>1, PlannedDone
    <3> QED  BY <2>4 DEF next
  <2>6. CASE b2.updater.batch # {}
    <3> InProgress(b2, next)
      BY <2>1, <2>2, <2>4, <2>5, <2>6 DEF InProgress
    <3> QED  BY <2>1, <2>3, <2>6 DEF Follows, next, x
  <2> CASE b2.updater.batch = {}
    <3>1. DOMAIN b2.inFlight = {}
      BY <2>1, <2>2, <2>4 DEF Flying, CommandsFor
    <3>2. Follows(SendOrApply(b2, w), next)
      BY <2>4, <2>5, <3>1, SendOrApplyFollows
    <3>3. CASE b2.updater.other # {}
      <4> sendUpdatesForNonBatchFaceId(b2, w) = SendOrApply(b2, w)
        BY <3>3 DEF sendUpdatesForNonBatchFaceId, SendOrApply
      <4> QED  BY <2>1, <2>3, <3>2 DEF next, x
    <3> CASE b2.updater.other = {}
      <4> sendUpdatesForNonBatchFaceId(b2, w) = sendBatchFromQueue(SendOrApply(b2, w))
        BY DEF sendUpdatesForNonBatchFaceId, onFibUpdateSuccess, SendOrApply
      <4> Follows(sendBatchFromQueue(SendOrApply(b2, w)), next)
        BY <3>2, SendBatchFollows
      <4> QED  BY <2>1, <2>3 DEF next, x
    <3> QED  BY <3>3
  <2> QED  BY <2>6
<1>6. CASE d.updater.batch = {} /\ d.updater.other # {} /\ Flying(d.inFlight, d.updater.other, w)
  <2>1. /\ x \in d.updater.other /\ c.update = w /\ c.verb = x.action
        /\ Flying(d1.inFlight, d.updater.other \ {x}, w)
    <3> d.inFlight \in CommandBags /\ Flying(d.inFlight, d.updater.other, w)
      BY <1>2, <1>6
    <3> /\ x \in d.updater.other /\ c.update = w /\ c.verb = x.action
        /\ Flying(Ended(d.inFlight, c), d.updater.other \ {x}, w)
      BY FlyingDone
    <3> QED  BY <1>3
  <2>2. /\ Sound(o2) /\ OnlyUpdater(o2, d1)
        /\ o2.updater.batch = d.updater.batch /\ o2.updater.other = d.updater.other \ {x}
        /\ o2.updater.inherited = d.updater.inherited
    <3> o2 = WithoutOther(d1, x)
      BY DEF WithoutOther
    <3> HIDE DEF o2, x
    <3> LET e == WithoutOther(d1, x) IN
        /\ Sound(e) /\ OnlyUpdater(e, d1)
        /\ e.updater.batch = d1.updater.batch /\ e.updater.other = d1.updater.other \ {x}
        /\ e.updater.inherited = d1.updater.inherited /\ e.updater.face = d1.updater.face
      BY <1>3, OtherDone
    <3> QED  BY <1>3
  <2>3. onUpdateSuccess(d, c) = IF o2.updater.other = {} THEN onFibUpdateSuccess(o2, w) ELSE o2
    BY <1>2, <1>4, <2>1
  <2> HIDE DEF o2, x, next
  <2>4. Agrees(o2) /\ o2.busy /\ o2.rib = d.rib /\ o2.inFlight = d1.inFlight
    BY <1>2, <1>3, <2>2 DEF Agrees, OnlyUpdater
  <2>5. Planned(NewRib(o2.rib, w), o2.updater, next)
    <3>1. x \in Pending(d.updater)
      BY <2>1 DEF Pending
    <3> Pending(o2.updater) = Pending(d.updater) \ {x}
      BY <1>2, <2>1, <2>2 DEF Pending
    <3> Planned(NewRib(d.rib, w), o2.updater, Written(table, x))
      BY <1>1, <1>2, <2>2, <3>1, PlannedDone
    <3> QED  BY <2>4 DEF next
  <2>6. CASE o2.updater.other # {}
    <3> InProgress(o2, next)
      BY <1>6, <2>1, <2>2, <2>4, <2>5, <2>6 DEF InProgress
    <3> QED  BY <2>1, <2>3, <2>6 DEF Follows, next, x
  <2> CASE o2.updater.other = {}
    <3>1. DOMAIN o2.inFlight = {}
      BY <2>1, <2>2, <2>4 DEF Flying, CommandsFor
    <3>2. Follows(SendOrApply(o2, w), next)
      BY <2>4, <2>5, <3>1, SendOrApplyFollows
    <3> onFibUpdateSuccess(o2, w) = sendBatchFromQueue(SendOrApply(o2, w))
      BY <1>6, <2>2 DEF onFibUpdateSuccess, SendOrApply
    <3> Follows(sendBatchFromQueue(SendOrApply(o2, w)), next)
      BY <3>2, SendBatchFollows
    <3> QED  BY <2>1, <2>3 DEF next, x
  <2> QED  BY <2>6
<1> QED  BY <1>1, <1>5, <1>6

\* The queue may grow, and the expirations may change.
LEMMA QueuedFollows ==
  ASSUME LibraryFacts,
         Defaults, NEW d, NEW table, Follows(d, table), NEW w \in Requests,
         NEW events, events \subseteq Events
  PROVE  Follows(beginApplyUpdate([d EXCEPT !.expirations = events], w), table)
<1> DEFINE m == [d EXCEPT !.expirations = events]
           queue == Append(d.queue, w)
           e == [m EXCEPT !.queue = Append(@, w)]
<1>1. Agrees(d) /\ d \in Daemons /\ d.queue \in Seq(Requests)
  BY DEF Follows, Idle, InProgress, Agrees, Sound
<1>2. queue \in Seq(Requests)
  BY SMTT(60), <1>1
<1>3. queue \in Seq(GoodUpdates)
  <2> Requests \subseteq GoodUpdates
    BY DEF Requests
  <2> HIDE DEF queue
  <2> QED  BY SMTT(60), <1>2
<1>4. beginApplyUpdate(m, w) = sendBatchFromQueue(e)
  BY DEF beginApplyUpdate
<1>5. e = [d EXCEPT !.expirations = events, !.queue = queue]
  BY <1>1 DEF Daemons
<1> HIDE DEF queue, e
<1> /\ e \in Daemons /\ e.inFlight = d.inFlight /\ e.rib = d.rib /\ e.faceMap = d.faceMap
    /\ e.busy = d.busy /\ e.aborted = d.aborted /\ e.updater = d.updater /\ e.queue = queue
  BY <1>1, <1>3, <1>5 DEF Daemons
<1> Agrees(e)
  BY <1>1, <1>2 DEF Agrees, Sound
<1> Follows(e, table)
  BY DEF Follows, Idle, InProgress
<1> QED  BY <1>4, SendBatchFollows

\* No face is ever destroyed.
NoFaceLost == faceTable = Faces /\ destroyed = {}

\* The inductive invariant of the FIB and the RIB.
FibFollows == DaemonSettled /\ NoFaceLost /\ Follows(Daemon, fib)

\* The FIB starts empty, and so does the RIB.
LEMMA InitFollows ==
  ASSUME LibraryFacts, Init
  PROVE  FibFollows
<1>1. DaemonSettled /\ NoFaceLost
  BY InitSettled DEF Init, NoFaceLost
<1>2. DOMAIN Nothing = {}
  BY DEF Nothing
<1>3. /\ Daemon.rib = Nothing /\ Daemon.inFlight = Nothing /\ Daemon.queue = <<>>
      /\ ~Daemon.busy /\ ~Daemon.aborted
  BY DaemonFields DEF Init
<1>4. Sound(Daemon)
  BY <1>1 DEF DaemonSettled, Settled, Steady
<1>5. <<>> \in Seq(Requests)
  BY SMTT(60)
<1>6. Agrees(Daemon)
  BY <1>2, <1>3, <1>4, <1>5 DEF Agrees, Plain, Complete
<1> Match(Nothing, fib)
  <2> \A n \in Names, g \in Faces : fib[n][g] = Absent
    BY DEF Init
  <2> QED  BY <1>2 DEF Match, Target, HasRoute, Inherits
<1> QED  BY <1>1, <1>2, <1>3, <1>6 DEF FibFollows, Follows, Idle

\* A handler that follows in the record follows in the variables.
LEMMA BecomesFollows ==
  ASSUME NEW next, NEW table, Follows(next, table), Becomes(next)
  PROVE  Follows(Daemon', table)
<1> next \in Daemons
  BY DEF Follows, Idle, InProgress, Agrees, Sound
<1> Daemon' = next
  BY BecomesIs
<1> QED  OBVIOUS

\* Every handler keeps the FIB following the RIB.
LEMMA StepFollows ==
  ASSUME LibraryFacts, Defaults, FibFollows, [Next]_vars
  PROVE  FibFollows'
<1> /\ DaemonSettled' /\ Follows(Daemon, fib) /\ OtherTypes
    /\ Daemon \in Daemons /\ faceTable = Faces /\ destroyed = {}
  BY StepSettled DEF FibFollows, NoFaceLost, DaemonSettled, Settled, Steady, Sound
<1>1. ASSUME NEW name \in Names, NEW f \in Faces, NEW fl \in Flags, NEW cost \in Costs,
             NEW expires \in BOOLEAN,
             registerEntry(name, f, [ci |-> fl.ci, cap |-> fl.cap, cost |-> cost], expires)
      PROVE  FibFollows'
  <2> DEFINE id == requests + 1
             event == IF expires THEN id ELSE 0
             r == [ci |-> fl.ci, cap |-> fl.cap, cost |-> cost, event |-> event]
             events == IF expires THEN expirations \cup {[name |-> name, face |-> f, id |-> id]}
                                  ELSE expirations
             d == [Daemon EXCEPT !.expirations = events]
             w == Update("register", name, f, r, id)
  <2>1. requests < MaxRequests /\ requests \in 0 .. MaxRequests
    BY <1>1 DEF registerEntry, OtherTypes
  <2>2. id \in 0 .. MaxRequests /\ event \in 0 .. MaxRequests /\ id \in Nat
    BY SMTT(60), <2>1, LimitsAssumption
  <2>3. Becomes(beginApplyUpdate(d, w))
    BY <1>1, DaemonFields DEF registerEntry
  <2> HIDE DEF id, event
  <2>4. r \in Routes
    BY SMTT(60), <2>2 DEF Routes
  <2>5. w \in Requests
    BY <2>2, <2>4 DEF Update, Requests, GoodUpdates, Updates
  <2>6. events \subseteq Events
    BY SMTT(60), <2>2, DaemonFields DEF Daemons, Events
  <2> HIDE DEF w, events
  <2>7. Follows(beginApplyUpdate(d, w), fib)
    BY <2>5, <2>6, QueuedFollows
  <2> HIDE DEF d
  <2> Follows(Daemon', fib)
    BY <2>3, <2>7, BecomesFollows
  <2> fib' = fib /\ NoFaceLost'
    BY <1>1 DEF registerEntry, NoFaceLost
  <2> QED  BY DEF FibFollows
<1>2. ASSUME NEW name \in Names, NEW f \in Faces, unregisterEntry(name, f)
      PROVE  FibFollows'
  <2> DEFINE w == Update("unregister", name, f, NoRoute, requests + 1)
             d == [Daemon EXCEPT !.expirations = expirations]
  <2>1. requests + 1 \in 0 .. MaxRequests
    BY SMTT(60), <1>2, LimitsAssumption DEF unregisterEntry, OtherTypes
  <2>2. w \in Requests
    BY <2>1 DEF Update, Requests, GoodUpdates, Updates
  <2>3. Daemon = d /\ expirations \subseteq Events
    BY DaemonFields DEF Daemons
  <2>4. Becomes(beginApplyUpdate(Daemon, w))
    BY <1>2 DEF unregisterEntry
  <2> HIDE DEF w
  <2>5. Follows(beginApplyUpdate(d, w), fib)
    BY <2>2, <2>3, QueuedFollows
  <2> HIDE DEF d
  <2> Follows(Daemon', fib)
    BY <2>3, <2>4, <2>5, BecomesFollows
  <2> fib' = fib /\ NoFaceLost'
    BY <1>2 DEF unregisterEntry, NoFaceLost
  <2> QED  BY DEF FibFollows
<1>3. ASSUME NEW e \in expirations, onRouteExpiration(e) PROVE FibFollows'
  <2> DEFINE w == Update("unregister", e.name, e.face, NoRoute, 0)
             events == expirations \ {e}
             d == [Daemon EXCEPT !.expirations = events]
  <2>1. e.name \in Names /\ e.face \in Faces /\ events \subseteq Events
    BY DaemonFields DEF Daemons, Events
  <2>2. w \in Requests
    BY SMTT(60), <2>1, LimitsAssumption DEF Update, Requests, GoodUpdates, Updates
  <2>3. Becomes(beginApplyUpdate(d, w))
    BY <1>3, DaemonFields DEF onRouteExpiration
  <2> HIDE DEF w, events
  <2>4. Follows(beginApplyUpdate(d, w), fib)
    BY <2>1, <2>2, QueuedFollows
  <2> HIDE DEF d
  <2> Follows(Daemon', fib)
    BY <2>3, <2>4, BecomesFollows
  <2> fib' = fib /\ NoFaceLost'
    BY <1>3 DEF onRouteExpiration, NoFaceLost
  <2> QED  BY DEF FibFollows
<1>4. ASSUME NEW c \in DOMAIN inFlight, FibAnswer(c) PROVE FibFollows'
  <2>1. c \in DOMAIN Daemon.inFlight
    BY DaemonFields
  <2>2. InProgress(Daemon, fib) /\ Sound(Daemon)
    BY <2>1 DEF Follows, Idle, InProgress, Agrees
  <2>3. fib \in Tables
    BY DEF OtherTypes, Tables
  <2>4. Follows(onUpdateSuccess(Daemon, c), Written(fib, c.fibUpdate)) /\ c.verb = c.fibUpdate.action
    BY <2>1, <2>2, <2>3, AnswerFollows
  <2>5. c.fibUpdate.face \in Faces
    <3> c.fibUpdate \in FibUpdates
      BY <2>1, <2>2, AnswerTypes
    <3> QED  BY DEF FibUpdates
  <2>6. FaceFound(c) /\ FibAfter(c) = Written(fib, c.fibUpdate)
    BY <2>4, <2>5 DEF FaceFound, FibAfter, Written, Value
  <2> Becomes(onUpdateSuccess(Daemon, c)) /\ fib' = Written(fib, c.fibUpdate)
    BY <1>4, <2>6 DEF FibAnswer
  <2> Follows(Daemon', Written(fib, c.fibUpdate))
    BY <2>4, BecomesFollows
  <2> NoFaceLost'
    BY <1>4 DEF FibAnswer, NoFaceLost
  <2> QED  BY DEF FibFollows
<1>5. ASSUME NEW c \in DOMAIN inFlight, FibTimeout(c) PROVE FibFollows'
  BY <1>5 DEF FibTimeout, Defaults
<1>6. ASSUME NEW c \in DOMAIN inFlight, FibError(c) PROVE FibFollows'
  BY <1>6 DEF FibError, Defaults
<1>7. ASSUME NEW f \in Faces, FaceDestroyed(f) PROVE FibFollows'
  BY <1>7 DEF FaceDestroyed, Defaults
<1>8. ASSUME NEW e \in destroyed, onFaceDestroyedEvent(e) PROVE FibFollows'
  BY <1>8
<1> ASSUME removeInvalidFaces PROVE FibFollows'
  BY DEF removeInvalidFaces, OtherTypes
<1> ASSUME UNCHANGED vars PROVE FibFollows'
  <2> Daemon' = Daemon /\ fib' = fib /\ NoFaceLost'
    BY DEF vars, daemonVars, Daemon, NoFaceLost
  <2> QED  BY DEF FibFollows
<1> QED  BY <1>1, <1>2, <1>3, <1>4, <1>5, <1>6, <1>7, <1>8 DEF Next

-----------------------------------------------------------------------------
(* What holds in every state                                               *)

\* The library's theorems.
Library == INSTANCE FiniteSetTheorems

\* The library proves what the lemmas above assume of it.
LEMMA FactsHold == LibraryFacts
<1>1. ASSUME NEW T \in SUBSET Nat, T # {} PROVE \E x \in T : \A y \in T : x <= y
  <2>1. PICK x \in T : \A y \in T : ~(<<y, x>> \in Library!OpToRel(<, Nat))
    BY <1>1, Library!NatLessThanWellFounded, Library!WFMin
  <2>2. \A y \in T : ~(y < x)
    BY <1>1, <2>1 DEF Library!OpToRel
  <2> QED  BY SMTT(60), <1>1, <2>2
<1>2. \A S : Library!IsFiniteSet(S) <=> IsFiniteSet(S)
  BY DEF Library!IsFiniteSet, IsFiniteSet
<1>3. \A S : Library!Cardinality(S) = Cardinality(S)
  BY DEF Library!Cardinality, Cardinality
<1>4. \A S, T : Library!ExistsBijection(S, T) <=> ExistsBijection(S, T)
  BY DEF Library!ExistsBijection, Library!Bijection, Library!Injection,
     Library!Surjection, Library!IsInjective, ExistsBijection, Bijection, Injection,
     Surjection, IsInjective
<1>5. \A S : Library!IsFiniteSet(S) => /\ Library!Cardinality(S) \in Nat
                                       /\ Library!ExistsBijection(1 .. Library!Cardinality(S), S)
  BY Library!FS_CardinalityType
<1> /\ Library!IsFiniteSet({})
    /\ \A S, x : Library!IsFiniteSet(S) => /\ Library!IsFiniteSet(S \cup {x})
                                           /\ Library!IsFiniteSet(S \ {x})
  BY Library!FS_EmptySet, Library!FS_AddElement, Library!FS_RemoveElement
<1> \A S : IsFiniteSet(S) => Cardinality(S) \in Nat /\ ExistsBijection(1 .. Cardinality(S), S)
  BY <1>2, <1>3, <1>4, <1>5
<1> QED  BY <1>1, <1>2 DEF LibraryFacts

\* The inductive invariant of the daemon.
LEMMA AlwaysSettled ==  Spec => []DaemonSettled
<1> Init => DaemonSettled
  BY FactsHold, InitSettled
<1> DaemonSettled /\ [Next]_vars => DaemonSettled'
  BY FactsHold, StepSettled
<1> QED  BY PTL DEF Spec

\* Every value has its type, whatever the flags of the requests, the timeouts
\* and the faces that are destroyed: the handlers of the RIB daemon compute
\* entries, commands and events of the right kind.
THEOREM TypeCorrect ==  Spec => []TypeOK
<1> DaemonSettled => TypeOK
  <2> SUFFICES ASSUME DaemonSettled PROVE TypeOK
    OBVIOUS
  <2>1. Daemon \in Daemons /\ OtherTypes
    BY DEF DaemonSettled, Settled, Steady, Sound
  <2> /\ m_rib \in Ribs /\ m_faceMap \in [Faces -> SUBSET Names]
      /\ m_updateBatches \in Seq(GoodUpdates) /\ m_isUpdateInProgress \in BOOLEAN
      /\ inFlight \in CommandBags /\ expirations \subseteq Events /\ aborted \in BOOLEAN
      /\ outcome \in [1 .. MaxRequests -> SUBSET {"applied", "failed"}]
    BY <2>1, DaemonFields DEF Daemons
  <2>2. DOMAIN m_rib \subseteq Names
    BY RibTypes
  <2>3. \A n \in DOMAIN m_rib :
          /\ DOMAIN m_rib[n].routes \subseteq Faces
          /\ \A f \in DOMAIN m_rib[n].routes : m_rib[n].routes[f] \in Routes
          /\ m_rib[n].inherited \in [Faces -> Nat]
          /\ m_rib[n].capture \in Int
          /\ m_rib[n].parent \in Names \cup {NoName}
          /\ m_rib[n].children \subseteq Names
    <3> \A n \in DOMAIN m_rib : m_rib[n] \in Entries
      BY RibTypes
    <3> QED  BY RouteMapTypes DEF Entries
  <2>4. \A i \in DOMAIN m_updateBatches : m_updateBatches[i].name \in Names
    BY SMTT(60) DEF GoodUpdates, Updates
  <2> \A c \in DOMAIN inFlight : c.timeouts \in 0 .. MAX_NUM_TIMEOUTS
    BY SMTT(60), CommandBagTypes DEF Commands
  <2> \A e \in expirations : e.name \in Names /\ e.face \in Faces
    BY DEF Events
  <2> QED  BY <2>1, <2>2, <2>3, <2>4 DEF TypeOK, OtherTypes
<1> QED  BY AlwaysSettled, PTL

\* The tree is the prefix tree of the names with an entry, after every
\* insertion between a parent and its children and every removal.
THEOREM TreeStaysConsistent ==  Spec => []TreeConsistent
<1> DaemonSettled => TreeConsistent
  BY DaemonFields DEF DaemonSettled, Settled, Steady, Sound, Tree, TreeConsistent
<1> QED  BY AlwaysSettled, PTL

\* m_faceMap lists exactly the entries with a route to a face.
THEOREM FaceMapStaysExact ==  Spec => []FaceMapExact
<1> DaemonSettled => FaceMapExact
  BY DaemonFields DEF DaemonSettled, Settled, Steady, Sound, FacesListed, FaceMapExact
<1> QED  BY AlwaysSettled, PTL

\* The queue never stalls: an update in progress waits for an answer, also
\* after failures, timeouts and answers that come too late.
THEOREM NeverStalls ==  Spec => []NoStall
<1> DaemonSettled => NoStall
  <2> SUFFICES ASSUME DaemonSettled, ~aborted PROVE /\ m_updateBatches # <<>> => m_isUpdateInProgress
                                                    /\ m_isUpdateInProgress => inFlight # Nothing
    BY DEF NoStall
  <2>1. m_updateBatches # <<>> => m_isUpdateInProgress
    BY DaemonFields DEF DaemonSettled, Settled
  <2> ASSUME m_isUpdateInProgress PROVE inFlight # Nothing
    <3> Waiting(Daemon)
      BY DaemonFields DEF DaemonSettled, Settled, Steady
    <3> DOMAIN inFlight # {}
      BY DaemonFields DEF Waiting, Sent
    <3> QED  BY DEF Nothing
  <2> QED  BY <2>1
<1> QED  BY AlwaysSettled, PTL

\* Under the default flags and without faults, the FIB always follows the RIB.
LEMMA AlwaysFollows ==
  ASSUME Defaults
  PROVE  Spec => []FibFollows
<1> Init => FibFollows
  BY FactsHold, InitFollows
<1> FibFollows /\ [Next]_vars => FibFollows'
  BY FactsHold, StepFollows
<1> QED  BY PTL DEF Spec

\* With child-inherit and without capture routes, and without timeouts and
\* destroyed faces, the forwarder's FIB holds what the RIB and the inheritance
\* rules say whenever no update is in progress: the increments that FibUpdater
\* sends add up to the function that it never computes.
THEOREM FibStaysRight ==
  ASSUME Defaults
  PROVE  Spec => []FibMatchesRib
<1> FibFollows => FibMatchesRib
  <2> SUFFICES ASSUME FibFollows, ~m_isUpdateInProgress, NEW n \in Names, NEW f \in faceTable
               PROVE  IF HasRoute(m_rib, n, f) THEN fib[n][f] = m_rib[n].routes[f].cost
                      ELSE fib[n][f] # Absent <=> n \in DOMAIN m_rib /\ Donors(n, f) # {}
    BY DEF FibMatchesRib
  <2> /\ Match(m_rib, fib) /\ Plain(m_rib) /\ m_rib \in Ribs /\ f \in Faces
    BY DaemonFields DEF FibFollows, Follows, Idle, InProgress, Agrees, Sound, Daemons, NoFaceLost
  <2>1. Target(m_rib, n, f, fib[n][f])
    BY DEF Match
  <2> \A m \in DOMAIN m_rib : ~Captures(m) /\ ChildInheritFaces(m_rib[m]) = DOMAIN m_rib[m].routes
    <3> \A m \in DOMAIN m_rib : \A g \in DOMAIN m_rib[m].routes : m_rib[m].routes[g] \in Routes
      BY EntryTypes
    <3> QED  BY DefaultRoutes DEF Captures
  <2> Donors(n, f) # {} <=> Above(m_rib, n, f)
    BY DEF Donors, Above, HasRoute, ProperPrefixesIn
  <2> QED  BY <2>1 DEF Target, Inherits
<1> QED  BY AlwaysFollows, PTL

\* Under the same assumptions modifyInheritedRoutes finds every entry and every
\* record that was computed before the FIB commands were sent.
THEOREM NeverAborts ==
  ASSUME Defaults
  PROVE  Spec => []AssertionsHold
<1> FibFollows => AssertionsHold
  BY DaemonFields DEF FibFollows, Follows, Idle, InProgress, Agrees, AssertionsHold
<1> QED  BY AlwaysFollows, PTL

=============================================================================
