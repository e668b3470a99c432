--------------------------- MODULE RibTreeProofs ----------------------------
(***************************************************************************)
(* The RIB as a tree, for every set of names, faces, costs and flags:      *)
(* Rib::insert and Rib::erase keep parent and children those of the prefix *)
(* order, getAncestorRoutes gives the nearest child-inherit route of each  *)
(* face that no capture hides, and computeUpdates yields at most one FIB   *)
(* update for a name and a face, in the list of its face.                  *)
(*                                                                         *)
(* The recursion of getAncestorRoutes is resolved by giving a function     *)
(* that satisfies it, and by showing that two such functions do not differ *)
(* at a shortest name.                                                     *)
(***************************************************************************)
EXTENDS Rib, TLAPS

USE ZenonT(60), SMTT(60)

\* What the library's modules say of natural numbers and of finite sets.  The
\* lemmas below have it as a hypothesis, which FactsHold proves.
LibraryFacts ==
  /\ \A T \in SUBSET Nat : T # {} => \E x \in T : \A y \in T : x <= y
  /\ IsFiniteSet({})
  /\ \A S, x : IsFiniteSet(S) => IsFiniteSet(S \cup {x}) /\ IsFiniteSet(S \ {x})
  /\ \A S : IsFiniteSet(S) => Cardinality(S) \in Nat /\ ExistsBijection(1 .. Cardinality(S), S)

\* A nonempty set of natural numbers has a least element.
LEMMA LeastNat ==
  ASSUME LibraryFacts, NEW T, T \subseteq Nat, T # {}
  PROVE  \E x \in T : \A y \in T : x <= y
BY DEF LibraryFacts

\* Induction on a set of natural numbers.
LEMMA NatSetInduction ==
  ASSUME LibraryFacts, NEW S, 0 \in S, \A n \in Nat : n \in S => n + 1 \in S
  PROVE  Nat \subseteq S
<1> DEFINE T == Nat \ S
<1> SUFFICES ASSUME T # {} PROVE FALSE
  OBVIOUS
<1>1. PICK x \in T : \A y \in T : x <= y
  BY LeastNat
<1> x \in Nat /\ x # 0 /\ x - 1 \in Nat /\ ~(x <= x - 1)
  BY SMTT(60)
<1> x - 1 \in S
  BY <1>1
<1> QED  BY SMTT(60)

\* isPrefixOf orders the sequences, and the prefixes of one sequence linearly.
LEMMA PrefixOrder ==
  ASSUME NEW S, NEW a \in Seq(S), NEW b \in Seq(S), NEW c \in Seq(S)
  PROVE  /\ isPrefixOf(a, a)
         /\ isPrefixOf(a, b) /\ isPrefixOf(b, c) => isPrefixOf(a, c)
         /\ isProperPrefixOf(a, b) => Len(a) < Len(b)
         /\ isPrefixOf(a, c) /\ isPrefixOf(b, c) /\ Len(a) <= Len(b) => isPrefixOf(a, b)
<1>1. isPrefixOf(a, a)
  BY SMTT(60) DEF isPrefixOf
<1>2. ASSUME isPrefixOf(a, b), isPrefixOf(b, c) PROVE isPrefixOf(a, c)
  BY SMTT(60), <1>2 DEF isPrefixOf
<1> ASSUME isPrefixOf(a, b), Len(a) = Len(b) PROVE a = b
  BY SMTT(60) DEF isPrefixOf
<1> isProperPrefixOf(a, b) => Len(a) < Len(b)
  BY SMTT(60) DEF isPrefixOf, isProperPrefixOf
<1> ASSUME isPrefixOf(a, c), isPrefixOf(b, c), Len(a) <= Len(b) PROVE isPrefixOf(a, b)
  BY SMTT(60) DEF isPrefixOf
<1> QED  BY <1>1, <1>2

-----------------------------------------------------------------------------
(* Names and their prefixes                                                *)

\* The same for names (Name::isPrefixOf).
LEMMA NameOrder ==
  ASSUME NEW a \in Names, NEW b \in Names, NEW c \in Names
  PROVE  /\ Len(a) \in Nat
         /\ isPrefixOf(a, a)
         /\ isPrefixOf(a, b) /\ isPrefixOf(b, c) => isPrefixOf(a, c)
         /\ isPrefixOf(a, b) => Len(a) <= Len(b)
         /\ isProperPrefixOf(a, b) <=> isPrefixOf(a, b) /\ Len(a) < Len(b)
         /\ isPrefixOf(a, c) /\ isPrefixOf(b, c) /\ Len(a) <= Len(b) => isPrefixOf(a, b)
         /\ isPrefixOf(a, b) /\ isPrefixOf(b, a) => a = b
<1> a \in Seq(Components) /\ b \in Seq(Components) /\ c \in Seq(Components)
  BY NamesAssumption
<1> Len(a) \in Nat /\ Len(b) \in Nat
  BY SMTT(60)
<1>1. isPrefixOf(a, b) => Len(a) <= Len(b)
  BY DEF isPrefixOf
<1> isProperPrefixOf(a, b) <=> isPrefixOf(a, b) /\ Len(a) < Len(b)
  BY SMTT(60), PrefixOrder DEF isProperPrefixOf
<1> ASSUME isPrefixOf(a, b), isPrefixOf(b, a) PROVE a = b
  <2> Len(b) <= Len(a)
    BY DEF isPrefixOf
  <2> QED  BY SMTT(60) DEF isProperPrefixOf
<1> QED  BY <1>1, PrefixOrder

\* Some name of a set of prefixes of a name is the longest.
LEMMA LongestPrefix ==
  ASSUME LibraryFacts, NEW name \in Names, NEW S, S \subseteq Names, S # {},
         \A a \in S : isPrefixOf(a, name)
  PROVE  \E a \in S : \A b \in S : Len(b) <= Len(a) /\ isPrefixOf(b, a)
<1> DEFINE T == {Len(name) - Len(a) : a \in S}
<1>1. \A a \in S : Len(a) \in Nat /\ Len(name) \in Nat /\ Len(a) <= Len(name)
  BY NameOrder
<1>2. T \subseteq Nat /\ T # {}
  BY SMTT(60), <1>1
<1>3. PICK x \in T : \A y \in T : x <= y
  BY <1>2, LeastNat
<1>4. PICK a \in S : x = Len(name) - Len(a)
  BY <1>3
<1> ASSUME NEW b \in S PROVE Len(b) <= Len(a)
  <2> x <= Len(name) - Len(b)
    BY <1>3
  <2> QED  BY SMTT(60), <1>1, <1>4
<1> \A b \in S : isPrefixOf(b, a)
  BY NameOrder
<1> QED  OBVIOUS

-----------------------------------------------------------------------------
(* Types                                                                   *)

\* A Rib::RouteSet: some faces with their costs.
IsCostMap(costs) == DOMAIN costs \subseteq Faces /\ \A f \in DOMAIN costs : costs[f] \in Nat

\* The routes of an entry (RibEntry::m_routes).
RouteMaps == UNION {[F -> Routes] : F \in SUBSET Faces}

\* The entries (RibEntry), and the contents of Rib::m_rib.
Entries ==
  [routes : RouteMaps, inherited : [Faces -> Nat], capture : Int,
   parent : Names \cup {NoName}, children : SUBSET Names]

\* The contents of Rib::m_rib.
Ribs == UNION {[N -> Entries] : N \in SUBSET Names}

\* To be a RIB, name by name.
LEMMA RibTypes ==
  ASSUME NEW rib
  PROVE  rib \in Ribs <=> /\ rib = [n \in DOMAIN rib |-> rib[n]]
                          /\ DOMAIN rib \subseteq Names
                          /\ \A n \in DOMAIN rib : rib[n] \in Entries
<1>1. ASSUME rib \in Ribs PROVE \E N \in SUBSET Names : rib \in [N -> Entries]
  BY <1>1 DEF Ribs
<1> ASSUME rib \in Ribs
    PROVE  /\ rib = [n \in DOMAIN rib |-> rib[n]]
           /\ DOMAIN rib \subseteq Names
           /\ \A n \in DOMAIN rib : rib[n] \in Entries
  BY <1>1
<1> ASSUME /\ rib = [n \in DOMAIN rib |-> rib[n]]
           /\ DOMAIN rib \subseteq Names
           /\ \A n \in DOMAIN rib : rib[n] \in Entries
    PROVE  rib \in Ribs
  <2> rib \in [DOMAIN rib -> Entries]
    OBVIOUS
  <2> QED  BY DEF Ribs
<1> QED  OBVIOUS

\* To be the routes of an entry, face by face.
LEMMA RouteMapTypes ==
  ASSUME NEW routes
  PROVE  routes \in RouteMaps <=> /\ routes = [f \in DOMAIN routes |-> routes[f]]
                                  /\ DOMAIN routes \subseteq Faces
                                  /\ \A f \in DOMAIN routes : routes[f] \in Routes
<1>1. ASSUME routes \in RouteMaps PROVE \E F \in SUBSET Faces : routes \in [F -> Routes]
  BY <1>1 DEF RouteMaps
<1> ASSUME routes \in RouteMaps
    PROVE  /\ routes = [f \in DOMAIN routes |-> routes[f]]
           /\ DOMAIN routes \subseteq Faces
           /\ \A f \in DOMAIN routes : routes[f] \in Routes
  BY <1>1
<1> ASSUME /\ routes = [f \in DOMAIN routes |-> routes[f]]
           /\ DOMAIN routes \subseteq Faces
           /\ \A f \in DOMAIN routes : routes[f] \in Routes
    PROVE  routes \in RouteMaps
  <2> routes \in [DOMAIN routes -> Routes]
    OBVIOUS
  <2> QED  BY DEF RouteMaps
<1> QED  OBVIOUS

\* What the types say of an entry of a RIB.
LEMMA EntryTypes ==
  ASSUME NEW rib \in Ribs, NEW n \in DOMAIN rib
  PROVE  /\ n \in Names
         /\ DOMAIN rib[n].routes \subseteq Faces
         /\ \A f \in DOMAIN rib[n].routes : rib[n].routes[f] \in Routes
         /\ ChildInheritFaces(rib[n]) \subseteq DOMAIN rib[n].routes
         /\ rib[n].inherited \in [Faces -> Nat]
         /\ rib[n].capture \in Int
<1> n \in Names /\ rib[n] \in Entries
  BY RibTypes
<1> QED  BY RouteMapTypes DEF Entries, ChildInheritFaces

\* What the types say of a route.
LEMMA RouteTypes ==
  ASSUME NEW route \in Routes
  PROVE  route.cost \in Nat /\ route.ci \in BOOLEAN /\ route.cap \in BOOLEAN
<1>1. PICK fl \in Flags, c \in Costs, e \in 0 .. MaxRequests :
        route = [ci |-> fl.ci, cap |-> fl.cap, cost |-> c, event |-> e]
  BY SMTT(60) DEF Routes
<1>2. fl \in [ci : BOOLEAN, cap : BOOLEAN] /\ c \in Nat
  BY RoutesAssumption
<1>3. fl.ci \in BOOLEAN /\ fl.cap \in BOOLEAN
  BY <1>2
<1> QED  BY <1>1, <1>2, <1>3

-----------------------------------------------------------------------------
(* The lists of an update                                                  *)

\* The FIB updates (class FibUpdate).
FibUpdates == [action : {"add", "remove"}, name : Names, face : Faces, cost : Nat]

\* At most one update for a name and a face.
OneForEach(updates) ==
  \A x, y \in updates : x.name = y.name /\ x.face = y.face => x = y

\* The lists of FibUpdater.
UpdaterRecords ==
  [face : Faces \cup {NoFace}, batch : SUBSET FibUpdates, other : SUBSET FibUpdates,
   inherited : Seq(SUBSET FibUpdates)]

\* The updates of m_batchFaceId are in one list, those of other faces in the
\* other one, and there is one for a name and a face.
Updaters ==
  {u \in UpdaterRecords :
     /\ \A x \in u.batch : x.face = u.face
     /\ \A x \in u.other : x.face # u.face
     /\ OneForEach(u.batch \cup u.other)}

\* The lists are empty and sorted at the start of computeUpdates.
LEMMA NoUpdatesType ==
  ASSUME NEW f \in Faces \cup {NoFace}
  PROVE  NoUpdates(f) \in Updaters
BY SMTT(60) DEF NoUpdates, Updaters, UpdaterRecords, OneForEach

\* FibUpdate::createAddUpdate for each of some routes of an entry gives one
\* update for each face.
LEMMA AddUpdatesType ==
  ASSUME NEW name \in Names, NEW costs, IsCostMap(costs)
  PROVE  AddUpdates(name, costs) \subseteq FibUpdates /\ OneForEach(AddUpdates(name, costs))
BY SMTT(60) DEF AddUpdates, IsCostMap, FibUpdates, OneForEach

\* FibUpdate::createRemoveUpdate for each of some faces gives one update for
\* each face.
LEMMA RemoveUpdatesType ==
  ASSUME NEW name \in Names, NEW faces, faces \subseteq Faces
  PROVE  RemoveUpdates(name, faces) \subseteq FibUpdates /\ OneForEach(RemoveUpdates(name, faces))
BY SMTT(60) DEF RemoveUpdates, FibUpdates, OneForEach

\* A set of one route.
LEMMA SingleType ==
  ASSUME NEW f \in Faces, NEW cost \in Nat
  PROVE  IsCostMap(Single(f, cost))
BY DEF IsCostMap, Single

\* The empty set of routes.
LEMMA NothingType ==  IsCostMap(Nothing)
BY DEF IsCostMap, Nothing

\* addFibUpdate replaces an older update for the same name and face.
LEMMA AddFibUpdatesType ==
  ASSUME NEW u \in Updaters, NEW updates, updates \subseteq FibUpdates, OneForEach(updates)
  PROVE  LET v == addFibUpdates(u, updates)
         IN /\ v \in Updaters
            /\ v.face = u.face
            /\ v.inherited = u.inherited
            /\ \A x : x \in v.batch \cup v.other <=>
                 \/ x \in updates
                 \/ /\ x \in u.batch \cup u.other
                    /\ \A y \in updates : y.name # x.name \/ y.face # x.face
<1> DEFINE Kept(list) == {x \in list : \A y \in updates : y.name # x.name \/ y.face # x.face}
           batch == Kept(u.batch) \cup {y \in updates : y.face = u.face}
           other == Kept(u.other) \cup {y \in updates : y.face # u.face}
           v == addFibUpdates(u, updates)
<1>1. u \in UpdaterRecords
  BY DEF Updaters
<1>2. v = [u EXCEPT !.batch = batch, !.other = other]
  BY DEF addFibUpdates
<1>3. batch \subseteq FibUpdates /\ other \subseteq FibUpdates
  BY DEF Updaters, UpdaterRecords
<1>4. (\A x \in batch : x.face = u.face) /\ (\A x \in other : x.face # u.face)
  BY DEF Updaters
<1>5. \A x : x \in batch \cup other <=>
        \/ x \in updates
        \/ /\ x \in u.batch \cup u.other
           /\ \A y \in updates : y.name # x.name \/ y.face # x.face
  OBVIOUS
<1>6. OneForEach(u.batch \cup u.other)
  BY DEF Updaters
<1> HIDE DEF batch, other, v
<1>7. OneForEach(batch \cup other)
  BY <1>5, <1>6 DEF OneForEach
<1> v.face = u.face /\ v.inherited = u.inherited /\ v.batch = batch /\ v.other = other
  BY <1>1, <1>2 DEF UpdaterRecords
<1> v \in UpdaterRecords
  BY <1>1, <1>2, <1>3 DEF UpdaterRecords
<1> v \in Updaters
  BY <1>4, <1>7 DEF Updaters
<1> QED  BY <1>5 DEF v

\* Recording inherited routes with their FIB updates keeps the lists sorted,
\* and leaves the new updates and the older ones for other names or faces.
LEMMA ModifyInheritedType ==
  ASSUME NEW u \in Updaters, NEW updates, updates \subseteq FibUpdates, OneForEach(updates)
  PROVE  LET v == modifyInherited(u, updates)
         IN /\ v \in Updaters
            /\ v.face = u.face
            /\ v.inherited = IF updates = {} THEN u.inherited ELSE Append(u.inherited, updates)
            /\ \A x : x \in v.batch \cup v.other <=>
                 \/ x \in updates
                 \/ /\ x \in u.batch \cup u.other
                    /\ \A y \in updates : y.name # x.name \/ y.face # x.face
<1> DEFINE w == addFibUpdates(u, updates)
           v == modifyInherited(u, updates)
<1>1. CASE updates = {}
  BY <1>1 DEF modifyInherited
<1>2. CASE updates # {}
  <2>1. v = [w EXCEPT !.inherited = Append(@, updates)]
    BY <1>2 DEF modifyInherited
  <2> /\ w \in Updaters
      /\ w.face = u.face
      /\ w.inherited = u.inherited
      /\ \A x : x \in w.batch \cup w.other <=>
           \/ x \in updates
           \/ /\ x \in u.batch \cup u.other
              /\ \A y \in updates : y.name # x.name \/ y.face # x.face
    BY SMTT(60), AddFibUpdatesType
  <2> HIDE DEF w, v
  <2>2. /\ v.face = w.face /\ v.batch = w.batch /\ v.other = w.other
        /\ v.inherited = Append(w.inherited, updates)
    BY <2>1 DEF Updaters, UpdaterRecords
  <2> v \in UpdaterRecords
    <3> w \in UpdaterRecords
      BY DEF Updaters
    <3>1. w.inherited \in Seq(SUBSET FibUpdates) /\ updates \in SUBSET FibUpdates
      BY DEF UpdaterRecords
    <3> DEFINE more == Append(w.inherited, updates)
    <3> more \in Seq(SUBSET FibUpdates)
      BY SMTT(60), <3>1
    <3> v = [w EXCEPT !.inherited = more]
      BY <2>1
    <3> HIDE DEF more
    <3> QED  BY DEF UpdaterRecords
  <2> v \in Updaters
    BY <2>2 DEF Updaters
  <2> QED  BY <1>2, <2>2 DEF v
<1> QED  BY <1>1, <1>2

\* addInheritedRoutes keeps the lists sorted.
LEMMA AddInheritedType ==
  ASSUME NEW u \in Updaters, NEW name \in Names, NEW routes, IsCostMap(routes), NEW except
  PROVE  addInheritedRoutes(u, name, routes, except) \in Updaters
<1> IsCostMap(Restrict(routes, DOMAIN routes \ except))
  BY DEF IsCostMap, Restrict
<1> QED  BY SMTT(60), AddUpdatesType, ModifyInheritedType DEF addInheritedRoutes

\* removeInheritedRoutes keeps the lists sorted.
LEMMA RemoveInheritedType ==
  ASSUME NEW u \in Updaters, NEW name \in Names, NEW entry, NEW faces, faces \subseteq Faces
  PROVE  removeInheritedRoutes(u, name, entry, faces) \in Updaters
BY RemoveUpdatesType, ModifyInheritedType DEF removeInheritedRoutes

-----------------------------------------------------------------------------
(* What a list of updates does to the FIB, and to the records              *)

\* A list has an update for a name and a face.
Touches(updates, n, g) == \E x \in updates : x.name = n /\ x.face = g

\* The nexthop cost an update leaves in the FIB.
Value(x) == IF x.action = "add" THEN x.cost ELSE Absent

\* What the FIB holds once the updates of a list are done.
After(updates, n, g, v) ==
  IF Touches(updates, n, g) THEN Value(CHOOSE x \in updates : x.name = n /\ x.face = g) ELSE v

\* The updates a list of FibUpdater still has to send or to hear about.
Pending(u) == u.batch \cup u.other

\* The records of the entries of a RIB.
Recorded(rib) == [n \in DOMAIN rib |-> rib[n].inherited]

\* The changes of a list can all be made: the entries exist, and the records to
\* remove.
CanRecord(records, changes) ==
  \A x \in changes : /\ x.name \in DOMAIN records
                     /\ x.action = "remove" => records[x.name][x.face] > 0

\* The records after the changes of a list.
RecordStep(records, changes) ==
  [n \in DOMAIN records |-> [g \in Faces |-> RecordsAfter(n, g, records[n][g], changes)]]

\* Some lists of changes can be made one after the other, and lead from some
\* records to others.
Leads(list, first, last) ==
  \E at : /\ at[0] = first
          /\ \A i \in 1 .. Len(list) : /\ CanRecord(at[i - 1], list[i])
                                       /\ at[i] = RecordStep(at[i - 1], list[i])
          /\ at[Len(list)] = last

\* The records of the entries are counts.
Counts(records) == \A n \in DOMAIN records, g \in Faces : records[n][g] \in Nat

\* What one list of updates does, with its records.
Step(v, u, updates, first, last) ==
  /\ v \in Updaters
  /\ \A n, g, value : After(Pending(v), n, g, value) =
                        After(updates, n, g, After(Pending(u), n, g, value))
  /\ \E next : /\ Leads(v.inherited, first, next)
               /\ DOMAIN next = DOMAIN last
               /\ \A n \in DOMAIN last, g \in Faces :
                    next[n][g] = RecordsAfter(n, g, last[n][g], updates)

\* The update of a list for a name and a face decides.
LEMMA AfterIs ==
  ASSUME NEW updates, OneForEach(updates), NEW x \in updates, NEW v
  PROVE  After(updates, x.name, x.face, v) = Value(x)
<1> DEFINE y == CHOOSE y \in updates : y.name = x.name /\ y.face = x.face
<1>1. y \in updates /\ y.name = x.name /\ y.face = x.face
  OBVIOUS
<1> y = x
  <2> HIDE DEF y
  <2> QED  BY <1>1 DEF OneForEach
<1> Touches(updates, x.name, x.face)
  BY DEF Touches
<1> QED  BY DEF After

\* Later updates replace the older ones for the same name and face.
LEMMA AfterBoth ==
  ASSUME NEW older, NEW newer, NEW all, OneForEach(older), OneForEach(newer), OneForEach(all),
         \A x : x \in all <=>
           \/ x \in newer
           \/ x \in older /\ \A y \in newer : y.name # x.name \/ y.face # x.face,
         NEW n, NEW g, NEW v
  PROVE  After(all, n, g, v) = After(newer, n, g, After(older, n, g, v))
<1>1. CASE Touches(newer, n, g)
  <2>1. PICK x \in newer : x.name = n /\ x.face = g
    BY <1>1 DEF Touches
  <2>2. x \in all
    OBVIOUS
  <2> After(all, x.name, x.face, v) = Value(x)
    BY <2>2, AfterIs
  <2> After(newer, x.name, x.face, After(older, n, g, v)) = Value(x)
    BY AfterIs
  <2> QED  BY <2>1
<1>2. CASE ~Touches(newer, n, g) /\ Touches(older, n, g)
  <2>1. PICK x \in older : x.name = n /\ x.face = g
    BY <1>2 DEF Touches
  <2>2. x \in all
    BY <1>2, <2>1 DEF Touches
  <2>3. After(all, x.name, x.face, v) = Value(x)
    BY <2>2, AfterIs
  <2> After(older, x.name, x.face, v) = Value(x)
    BY AfterIs
  <2> After(newer, n, g, After(older, n, g, v)) = After(older, n, g, v)
    BY <1>2 DEF After
  <2> QED  BY <2>1, <2>3
<1> CASE ~Touches(newer, n, g) /\ ~Touches(older, n, g)
  <2> ~Touches(all, n, g)
    BY DEF Touches
  <2> QED  BY DEF After
<1> QED  BY <1>1, <1>2

\* A list of add updates puts a cost in the FIB and adds a record.
LEMMA AddEffect ==
  ASSUME NEW updates, updates \subseteq FibUpdates, OneForEach(updates),
         \A x \in updates : x.action = "add", NEW n, NEW g, NEW v, NEW count
  PROVE  /\ Touches(updates, n, g) =>
              After(updates, n, g, v) \in Nat /\ RecordsAfter(n, g, count, updates) = count + 1
         /\ ~Touches(updates, n, g) =>
              After(updates, n, g, v) = v /\ RecordsAfter(n, g, count, updates) = count
<1>1. CASE Touches(updates, n, g)
  <2> PICK x \in updates : x.name = n /\ x.face = g
    BY <1>1 DEF Touches
  <2>1. After(updates, x.name, x.face, v) = Value(x)
    BY AfterIs
  <2> Value(x) \in Nat
    BY DEF Value, FibUpdates
  <2> RecordsAfter(n, g, count, updates) = count + 1
    BY DEF RecordsAfter
  <2> QED  BY <1>1, <2>1
<1> CASE ~Touches(updates, n, g)
  BY DEF Touches, After, RecordsAfter
<1> QED  BY <1>1

\* A list of remove updates clears the FIB and takes a record away.
LEMMA RemoveEffect ==
  ASSUME NEW updates, updates \subseteq FibUpdates, OneForEach(updates),
         \A x \in updates : x.action = "remove", NEW n, NEW g, NEW v, NEW count
  PROVE  /\ Touches(updates, n, g) =>
              After(updates, n, g, v) = Absent /\ RecordsAfter(n, g, count, updates) = count - 1
         /\ ~Touches(updates, n, g) =>
              After(updates, n, g, v) = v /\ RecordsAfter(n, g, count, updates) = count
<1>1. CASE Touches(updates, n, g)
  <2> PICK x \in updates : x.name = n /\ x.face = g
    BY <1>1 DEF Touches
  <2>1. After(updates, x.name, x.face, v) = Value(x)
    BY AfterIs
  <2> Value(x) = Absent
    BY DEF Value
  <2> RecordsAfter(n, g, count, updates) = count - 1
    BY DEF RecordsAfter
  <2> QED  BY <1>1, <2>1
<1> CASE ~Touches(updates, n, g)
  BY DEF Touches, After, RecordsAfter
<1> QED  BY <1>1

\* What the add updates of one entry do.
LEMMA AddUpdatesEffect ==
  ASSUME NEW name \in Names, NEW costs, IsCostMap(costs)
  PROVE  LET updates == AddUpdates(name, costs)
         IN /\ updates \subseteq FibUpdates /\ OneForEach(updates)
            /\ \A x \in updates : x.action = "add"
            /\ \A n, g : Touches(updates, n, g) <=> n = name /\ g \in DOMAIN costs
            /\ \A g \in DOMAIN costs : \A v : After(updates, name, g, v) = costs[g]
<1> DEFINE updates == AddUpdates(name, costs)
           One(g) == [action |-> "add", name |-> name, face |-> g, cost |-> costs[g]]
<1>1. updates \subseteq FibUpdates /\ OneForEach(updates)
  BY AddUpdatesType
<1>2. updates = {One(g) : g \in DOMAIN costs}
  BY DEF AddUpdates
<1> \A g : /\ One(g).action = "add" /\ One(g).name = name /\ One(g).face = g
           /\ One(g).cost = costs[g]
  OBVIOUS
<1> HIDE DEF One, updates
<1>3. \A x \in updates : x.action = "add"
  BY <1>2
<1>4. \A n, g : Touches(updates, n, g) <=> n = name /\ g \in DOMAIN costs
  BY <1>2 DEF Touches
<1>5. ASSUME NEW g \in DOMAIN costs, NEW v PROVE After(updates, name, g, v) = costs[g]
  <2> One(g) \in updates
    BY <1>2
  <2> After(updates, One(g).name, One(g).face, v) = Value(One(g))
    BY <1>1, AfterIs
  <2> QED  BY DEF Value
<1> QED  BY <1>1, <1>3, <1>4, <1>5 DEF updates

\* What the remove updates of one entry do.
LEMMA RemoveUpdatesEffect ==
  ASSUME NEW name \in Names, NEW faces, faces \subseteq Faces
  PROVE  LET updates == RemoveUpdates(name, faces)
         IN /\ updates \subseteq FibUpdates /\ OneForEach(updates)
            /\ \A x \in updates : x.action = "remove"
            /\ \A n, g : Touches(updates, n, g) <=> n = name /\ g \in faces
<1> DEFINE updates == RemoveUpdates(name, faces)
           One(g) == [action |-> "remove", name |-> name, face |-> g, cost |-> 0]
<1>1. updates \subseteq FibUpdates /\ OneForEach(updates)
  BY RemoveUpdatesType
<1> updates = {One(g) : g \in faces}
  BY DEF RemoveUpdates
<1> \A g : One(g).action = "remove" /\ One(g).name = name /\ One(g).face = g
  OBVIOUS
<1> HIDE DEF One, updates
<1> \A x \in updates : x.action = "remove"
  OBVIOUS
<1> \A n, g : Touches(updates, n, g) <=> n = name /\ g \in faces
  BY DEF Touches
<1> QED  BY <1>1 DEF updates

\* One more list of changes.
LEMMA LeadsAppend ==
  ASSUME NEW list \in Seq(SUBSET FibUpdates), NEW first, NEW last, Leads(list, first, last),
         NEW changes \in SUBSET FibUpdates, CanRecord(last, changes)
  PROVE  Leads(Append(list, changes), first, RecordStep(last, changes))
<1>1. PICK at : /\ at[0] = first
                /\ \A i \in 1 .. Len(list) : /\ CanRecord(at[i - 1], list[i])
                                             /\ at[i] = RecordStep(at[i - 1], list[i])
                /\ at[Len(list)] = last
  BY DEF Leads
<1> DEFINE k    == Len(list)
           long == Append(list, changes)
           to   == [i \in 0 .. k + 1 |-> IF i = k + 1 THEN RecordStep(last, changes) ELSE at[i]]
<1> /\ k \in Nat /\ Len(long) = k + 1 /\ long[k + 1] = changes
    /\ \A i \in 1 .. k : long[i] = list[i]
  BY SMTT(60)
<1>2. /\ to[k + 1] = RecordStep(last, changes)
      /\ \A i \in 0 .. k : to[i] = at[i]
  BY SMTT(60)
<1> HIDE DEF to, long, k
<1> \A i \in 1 .. Len(long) : CanRecord(to[i - 1], long[i]) /\ to[i] = RecordStep(to[i - 1], long[i])
  <2> TAKE i \in 1 .. Len(long)
  <2>1. CASE i \in 1 .. k
    <3> to[i - 1] = at[i - 1] /\ to[i] = at[i] /\ long[i] = list[i] /\ i \in 1 .. Len(list)
      BY SMTT(60), <1>2, <2>1 DEF k
    <3> QED  BY <1>1
  <2> CASE i = k + 1
    <3> to[i - 1] = last /\ to[i] = RecordStep(last, changes) /\ long[i] = changes
      BY SMTT(60), <1>1, <1>2 DEF k
    <3> QED  OBVIOUS
  <2> QED  BY SMTT(60), <2>1
<1> to[0] = first /\ to[Len(long)] = RecordStep(last, changes)
  BY SMTT(60), <1>1, <1>2
<1> QED  BY DEF Leads, long

\* addFibUpdate for each of some updates.
LEMMA FibStep ==
  ASSUME NEW u \in Updaters, NEW updates, updates \subseteq FibUpdates, OneForEach(updates)
  PROVE  LET v == addFibUpdates(u, updates)
         IN /\ v \in Updaters /\ v.inherited = u.inherited
            /\ \A n, g, value : After(Pending(v), n, g, value) =
                                  After(updates, n, g, After(Pending(u), n, g, value))
<1> DEFINE v == addFibUpdates(u, updates)
<1> /\ v \in Updaters
    /\ v.inherited = u.inherited
    /\ \A x : x \in v.batch \cup v.other <=>
         \/ x \in updates
         \/ /\ x \in u.batch \cup u.other
            /\ \A y \in updates : y.name # x.name \/ y.face # x.face
  BY SMTT(60), AddFibUpdatesType
<1> HIDE DEF v
<1>1. OneForEach(Pending(u)) /\ OneForEach(Pending(v))
  BY DEF Pending, Updaters
<1> \A x : x \in Pending(v) <=>
      \/ x \in updates
      \/ x \in Pending(u) /\ \A y \in updates : y.name # x.name \/ y.face # x.face
  BY DEF Pending
<1> HIDE DEF Pending
<1> ASSUME NEW n, NEW g, NEW value
    PROVE  After(Pending(v), n, g, value) = After(updates, n, g, After(Pending(u), n, g, value))
  BY SMTT(60), <1>1, AfterBoth
<1> QED  BY DEF v

\* The same with records for the entries.
LEMMA RecordedStep ==
  ASSUME NEW u \in Updaters, NEW updates, updates \subseteq FibUpdates, OneForEach(updates),
         NEW first, NEW last, Leads(u.inherited, first, last), CanRecord(last, updates)
  PROVE  Step(modifyInherited(u, updates), u, updates, first, last)
<1> DEFINE v == modifyInherited(u, updates)
<1>1. /\ v \in Updaters
      /\ v.inherited = IF updates = {} THEN u.inherited ELSE Append(u.inherited, updates)
      /\ \A x : x \in v.batch \cup v.other <=>
           \/ x \in updates
           \/ /\ x \in u.batch \cup u.other
              /\ \A y \in updates : y.name # x.name \/ y.face # x.face
  BY SMTT(60), ModifyInheritedType
<1> HIDE DEF v
<1>2. OneForEach(Pending(u)) /\ OneForEach(Pending(v))
  BY <1>1 DEF Pending, Updaters
<1>3. \A x : x \in Pending(v) <=>
        \/ x \in updates
        \/ x \in Pending(u) /\ \A y \in updates : y.name # x.name \/ y.face # x.face
  BY <1>1 DEF Pending
<1> HIDE DEF Pending
<1>4. ASSUME NEW n, NEW g, NEW value
      PROVE  After(Pending(v), n, g, value) = After(updates, n, g, After(Pending(u), n, g, value))
  BY SMTT(60), <1>2, <1>3, AfterBoth
<1>5. u.inherited \in Seq(SUBSET FibUpdates)
  BY DEF Updaters, UpdaterRecords
<1> \E next : /\ Leads(v.inherited, first, next)
              /\ DOMAIN next = DOMAIN last
              /\ \A n \in DOMAIN last, g \in Faces :
                   next[n][g] = RecordsAfter(n, g, last[n][g], updates)
  <2> CASE updates = {}
    <3> \A n, g : RecordsAfter(n, g, last[n][g], updates) = last[n][g]
      BY DEF RecordsAfter
    <3> QED  BY SMTT(60), <1>1
  <2> CASE updates # {}
    <3> DEFINE next == RecordStep(last, updates)
    <3> Leads(v.inherited, first, next)
      BY SMTT(60), <1>1, <1>5, LeadsAppend
    <3> /\ DOMAIN next = DOMAIN last
        /\ \A n \in DOMAIN last, g \in Faces : next[n][g] = RecordsAfter(n, g, last[n][g], updates)
      BY DEF RecordStep
    <3> HIDE DEF next
    <3> QED  OBVIOUS
  <2> QED  OBVIOUS
<1> QED  BY <1>1, <1>4 DEF v, Step

\* computeUpdates starts with empty lists.
LEMMA NoUpdatesStep ==
  ASSUME NEW f \in Faces, NEW first
  PROVE  /\ NoUpdates(f) \in Updaters
         /\ Leads(NoUpdates(f).inherited, first, first)
         /\ \A n, g, v : After(Pending(NoUpdates(f)), n, g, v) = v
<1>1. NoUpdates(f) \in Updaters
  BY NoUpdatesType
<1>2. NoUpdates(f).inherited = <<>> /\ Pending(NoUpdates(f)) = {}
  BY DEF NoUpdates, Pending
<1> Leads(<<>>, first, first)
  <2> DEFINE at == [i \in 0 .. 0 |-> first]
  <2> at[0] = first
    BY SMTT(60)
  <2> HIDE DEF at
  <2> Len(<<>>) = 0 /\ 1 .. 0 = {}
    BY SMTT(60)
  <2> at[Len(<<>>)] = first /\ 1 .. Len(<<>>) = {}
    OBVIOUS
  <2> QED  BY DEF Leads
<1> \A n, g, v : After({}, n, g, v) = v
  BY DEF After, Touches
<1> QED  BY <1>1, <1>2

\* The FIB update for a route of one entry.
LEMMA OwnStep ==
  ASSUME NEW name \in Names, NEW f \in Faces, NEW cost \in Nat
  PROVE  LET self == AddUpdates(name, Single(f, cost))
         IN /\ self \subseteq FibUpdates /\ OneForEach(self)
            /\ \A v : After(self, name, f, v) = cost
            /\ \A n, g, v : n # name \/ g # f => After(self, n, g, v) = v
<1> DEFINE self == AddUpdates(name, Single(f, cost))
<1> IsCostMap(Single(f, cost)) /\ DOMAIN Single(f, cost) = {f} /\ Single(f, cost)[f] = cost
  BY SingleType DEF Single
<1> /\ self \subseteq FibUpdates /\ OneForEach(self)
    /\ \A x \in self : x.action = "add"
    /\ \A n, g : Touches(self, n, g) <=> n = name /\ g \in DOMAIN Single(f, cost)
    /\ \A g \in DOMAIN Single(f, cost) : \A v : After(self, name, g, v) = Single(f, cost)[g]
  BY AddUpdatesEffect
<1> HIDE DEF self
<1> \A n, g : ~Touches(self, n, g) => \A v : After(self, n, g, v) = v
  BY DEF After
<1> QED  BY SMTT(60) DEF self

-----------------------------------------------------------------------------
(* What the FIB should hold, and what an update has to compute for it      *)

\* What TreeConsistent says, of any RIB.
Tree(rib) ==
  \A n \in DOMAIN rib :
    /\ rib[n].parent = findParent(rib, n)
    /\ rib[n].children = {c \in DOMAIN rib : rib[c].parent = n}

\* Requests carry the default flags of a register command, every FIB command is
\* answered, and no face is destroyed.
Defaults ==
  Flags \subseteq {[ci |-> TRUE, cap |-> FALSE]} /\ ~FibMayErr /\ MayFail = {}

\* No entry counts a capture.
Plain(rib) == \A n \in DOMAIN rib : rib[n].capture = 0

\* Some entry above n has a route on the face.
Above(rib, n, g) == \E a \in DOMAIN rib : isProperPrefixOf(a, n) /\ HasRoute(rib, a, g)

\* A change on face g at name passes every entry from there to n, n included.
Passes(rib, name, n, g) ==
  /\ isProperPrefixOf(name, n)
  /\ \A m \in DOMAIN rib : isProperPrefixOf(name, m) /\ isPrefixOf(m, n)
       => g \notin DOMAIN rib[m].routes

\* The entry n inherits the face, unless it has a route of its own.
Inherits(rib, n, g) == n \in DOMAIN rib /\ Above(rib, n, g)

\* Every inherited route is recorded.
Complete(rib) ==
  \A n \in DOMAIN rib, g \in Faces :
    Inherits(rib, n, g) /\ ~HasRoute(rib, n, g) => rib[n].inherited[g] > 0

\* The nexthop the FIB should have, as FibMatchesRib says.
Target(rib, n, g, v) ==
  IF HasRoute(rib, n, g) THEN v = rib[n].routes[g].cost ELSE v # Absent <=> Inherits(rib, n, g)

\* The FIB holds what FibMatchesRib says.
Match(rib, table) == \A n \in Names, g \in Faces : Target(rib, n, g, table[n][g])

\* The recorded changes can be made, and leave every inherited route recorded.
Ready(new, list) ==
  \E last : /\ Leads(list, Recorded(new), last)
            /\ DOMAIN last = DOMAIN new
            /\ \A n \in DOMAIN new, g \in Faces :
                 Inherits(new, n, g) /\ ~HasRoute(new, n, g) => last[n][g] > 0

\* Once the pending updates are done, the FIB and the records are right for new.
Planned(new, u, table) ==
  /\ Ready(new, u.inherited)
  /\ \A n \in Names, g \in Faces : Target(new, n, g, After(Pending(u), n, g, table[n][g]))

\* Two names above a third one are on one path.
LEMMA NameChain ==
  ASSUME NEW a \in Names, NEW b \in Names, NEW n \in Names, isProperPrefixOf(b, n)
  PROVE  /\ isProperPrefixOf(a, n) => a = b \/ isProperPrefixOf(a, b) \/ isProperPrefixOf(b, a)
         /\ isProperPrefixOf(a, b) => isProperPrefixOf(a, n)
         /\ isPrefixOf(n, a) => isProperPrefixOf(b, a)
<1>1. ASSUME isProperPrefixOf(a, n), a # b
      PROVE  isProperPrefixOf(a, b) \/ isProperPrefixOf(b, a)
  <2> isPrefixOf(a, n) /\ isPrefixOf(b, n) /\ Len(a) \in Nat /\ Len(b) \in Nat
    BY <1>1, NameOrder DEF isProperPrefixOf
  <2>1. CASE Len(a) <= Len(b)
    <3> isPrefixOf(a, b)
      BY <2>1, NameOrder
    <3> QED  BY <1>1 DEF isProperPrefixOf
  <2> CASE Len(b) <= Len(a)
    <3> isPrefixOf(b, a)
      BY NameOrder
    <3> QED  BY <1>1 DEF isProperPrefixOf
  <2> QED  BY SMTT(60), <2>1
<1> isProperPrefixOf(a, b) => isProperPrefixOf(a, n)
  BY NameOrder DEF isProperPrefixOf
<1> isPrefixOf(n, a) => isProperPrefixOf(b, a)
  BY SMTT(60), NameOrder
<1> QED  BY <1>1

\* Above an entry that a change at name passes, nobody below name has a route.
LEMMA PassesAbove ==
  ASSUME NEW rib \in Ribs, NEW name \in Names, NEW n \in DOMAIN rib, NEW g, Passes(rib, name, n, g)
  PROVE  /\ isProperPrefixOf(name, n) /\ n # name
         /\ ~HasRoute(rib, n, g)
         /\ \A a \in DOMAIN rib : isProperPrefixOf(a, n) /\ HasRoute(rib, a, g)
              => a = name \/ isProperPrefixOf(a, name)
<1> DOMAIN rib \subseteq Names /\ n \in Names /\ isPrefixOf(n, n)
  BY RibTypes, NameOrder
<1> isProperPrefixOf(name, n) /\ n # name
  BY DEF Passes, isProperPrefixOf
<1>1. ~HasRoute(rib, n, g)
  BY DEF Passes, HasRoute
<1> ASSUME NEW a \in DOMAIN rib, isProperPrefixOf(a, n), HasRoute(rib, a, g)
    PROVE  a = name \/ isProperPrefixOf(a, name)
  <2> a \in Names
    OBVIOUS
  <2> ~isProperPrefixOf(name, a)
    BY DEF Passes, HasRoute, isProperPrefixOf
  <2> QED  BY NameChain
<1> QED  BY <1>1

\* An entry below name that a change does not pass has the route from in between.
LEMMA NotPassing ==
  ASSUME NEW rib \in Ribs, NEW name \in Names, NEW n \in DOMAIN rib, NEW g,
         isProperPrefixOf(name, n), ~HasRoute(rib, n, g), ~Passes(rib, name, n, g)
  PROVE  \E m \in DOMAIN rib : /\ isProperPrefixOf(name, m) /\ m # name
                               /\ isProperPrefixOf(m, n) /\ HasRoute(rib, m, g)
<1> PICK m \in DOMAIN rib : /\ isProperPrefixOf(name, m) /\ isPrefixOf(m, n)
                            /\ g \in DOMAIN rib[m].routes
  BY DEF Passes
<1> m # n /\ m # name /\ HasRoute(rib, m, g)
  BY DEF HasRoute, isProperPrefixOf
<1> QED  BY DEF isProperPrefixOf

\* A RIB with the routes of another one, and other records.
SameRoutes(new, rib) ==
  /\ DOMAIN new = DOMAIN rib
  /\ \A n \in DOMAIN rib : new[n].routes = rib[n].routes /\ new[n].capture = rib[n].capture

\* The records do not matter to what the FIB should hold.
LEMMA SameTarget ==
  ASSUME NEW new, NEW rib, SameRoutes(new, rib)
  PROVE  /\ \A n, g : HasRoute(new, n, g) <=> HasRoute(rib, n, g)
         /\ \A n, g : Inherits(new, n, g) <=> Inherits(rib, n, g)
         /\ \A n, g, v : Target(new, n, g, v) <=> Target(rib, n, g, v)
<1> \A n, g : HasRoute(new, n, g) <=> HasRoute(rib, n, g)
  BY DEF SameRoutes, HasRoute
<1> \A n, g : Inherits(new, n, g) <=> Inherits(rib, n, g)
  BY DEF SameRoutes, Inherits, Above
<1> \A n, g, v : Target(new, n, g, v) <=> Target(rib, n, g, v)
  BY DEF SameRoutes, HasRoute, Target
<1> QED  OBVIOUS

\* FibManager::addNextHop and removeNextHop.
Written(table, x) == [table EXCEPT ![x.name][x.face] = Value(x)]

\* A table of nexthops.
Tables == [Names -> [Faces -> Nat \cup {Absent}]]

\* An update that is done changes nothing of what the FIB will hold.
LEMMA PlannedDone ==
  ASSUME NEW new, NEW u \in Updaters, NEW v, NEW table \in Tables, NEW x \in Pending(u),
         Pending(v) = Pending(u) \ {x}, v.inherited = u.inherited, Planned(new, u, table)
  PROVE  Planned(new, v, Written(table, x))
<1>1. OneForEach(Pending(u)) /\ x \in FibUpdates
  BY DEF Pending, Updaters, UpdaterRecords
<1>2. x.name \in Names /\ x.face \in Faces
  BY <1>1 DEF FibUpdates
<1>3. \A n \in Names, g \in Faces :
        Written(table, x)[n][g] = IF n = x.name /\ g = x.face THEN Value(x) ELSE table[n][g]
  BY <1>2 DEF Written, Tables
<1>4. ASSUME NEW n \in Names, NEW g \in Faces
      PROVE  After(Pending(v), n, g, Written(table, x)[n][g]) = After(Pending(u), n, g, table[n][g])
  <2> DEFINE old == table[n][g]
             val == Written(table, x)[n][g]
  <2>1. val = IF n = x.name /\ g = x.face THEN Value(x) ELSE old
    BY <1>3
  <2> HIDE DEF old, val
  <2>2. CASE n = x.name /\ g = x.face
    <3>1. ~Touches(Pending(v), n, g)
      BY <1>1, <2>2 DEF Touches, OneForEach
    <3> After(Pending(v), n, g, val) = Value(x)
      BY <2>1, <2>2, <3>1 DEF After
    <3> After(Pending(u), x.name, x.face, old) = Value(x)
      BY <1>1, AfterIs
    <3> QED  BY <2>2 DEF old, val
  <2>3. CASE ~(n = x.name /\ g = x.face) /\ Touches(Pending(u), n, g)
    <3> PICK y \in Pending(u) : y.name = n /\ y.face = g
      BY <2>3 DEF Touches
    <3>1. y \in Pending(v) /\ OneForEach(Pending(v))
      BY <1>1, <2>3 DEF OneForEach
    <3> After(Pending(u), y.name, y.face, old) = Value(y)
      BY <1>1, AfterIs
    <3> After(Pending(v), y.name, y.face, val) = Value(y)
      BY <3>1, AfterIs
    <3> QED  BY DEF old, val
  <2> CASE ~(n = x.name /\ g = x.face) /\ ~Touches(Pending(u), n, g)
    <3> ~Touches(Pending(v), n, g)
      BY DEF Touches
    <3> QED  BY <2>1 DEF After, old, val
  <2> QED  BY <2>2, <2>3
<1> \A n \in Names, g \in Faces : Target(new, n, g, After(Pending(v), n, g, Written(table, x)[n][g]))
  BY <1>4 DEF Planned
<1> QED  BY DEF Planned

-----------------------------------------------------------------------------
(* What a new route and an erased one change                               *)

\* The RIB after an insert, in terms of who has a route.
HasInserted(new, rib, name, f, route) ==
  /\ new \in Ribs /\ Tree(new) /\ Plain(new)
  /\ DOMAIN new = DOMAIN rib \cup {name}
  /\ \A n, g : HasRoute(new, n, g) <=> HasRoute(rib, n, g) \/ (n = name /\ g = f)
  /\ new[name].routes[f].cost = route.cost
  /\ \A n, g : HasRoute(rib, n, g) /\ (n # name \/ g # f)
       => new[n].routes[g].cost = rib[n].routes[g].cost
  /\ DOMAIN Recorded(new) = DOMAIN rib \cup {name}
  /\ Counts(Recorded(new))
  /\ \A n \in DOMAIN rib, g \in Faces : Recorded(new)[n][g] = rib[n].inherited[g]
  /\ name \notin DOMAIN rib => \A g \in Faces : Recorded(new)[name][g] = 0

\* What a registration computes: at name the new cost, and what a new entry
\* inherits; below it the faces of some routes, as far as they are not shielded.
InsertEffect(new, rib, name, f, route, u, table, faces) ==
  LET Will(n, g) == After(Pending(u), n, g, table[n][g])
  IN /\ Will(name, f) = route.cost
     /\ \E last :
          /\ Leads(u.inherited, Recorded(new), last)
          /\ DOMAIN last = DOMAIN new
          /\ \A n \in Names, g \in Faces : n # name =>
               IF n \in DOMAIN rib /\ g \in faces /\ Passes(rib, name, n, g)
                 THEN Will(n, g) # Absent /\ last[n][g] > 0
                 ELSE /\ Will(n, g) = table[n][g]
                      /\ n \in DOMAIN rib => last[n][g] = rib[n].inherited[g]
          /\ \A g \in Faces \ {f} :
               IF name \in DOMAIN rib \/ ~Above(rib, name, g)
                 THEN /\ Will(name, g) = table[name][g]
                      /\ name \in DOMAIN rib => last[name][g] = rib[name].inherited[g]
                 ELSE Will(name, g) # Absent /\ last[name][g] > 0

\* That is right for the new RIB.
LEMMA InsertPlanned ==
  ASSUME NEW rib \in Ribs, Complete(rib), NEW name \in Names, NEW f \in Faces, NEW route,
         NEW new, HasInserted(new, rib, name, f, route),
         NEW u, NEW table, Match(rib, table), NEW faces, f \in faces,
         \A g \in faces : g = f \/ Above(rib, name, g),
         InsertEffect(new, rib, name, f, route, u, table, faces)
  PROVE  Planned(new, u, table)
<1> DEFINE Will(n, g) == After(Pending(u), n, g, table[n][g])
<1>1. /\ DOMAIN new = DOMAIN rib \cup {name}
      /\ \A n, g : HasRoute(new, n, g) <=> HasRoute(rib, n, g) \/ (n = name /\ g = f)
      /\ new[name].routes[f].cost = route.cost
      /\ \A n, g : HasRoute(rib, n, g) /\ (n # name \/ g # f)
           => new[n].routes[g].cost = rib[n].routes[g].cost
  BY DEF HasInserted
<1>2. Will(name, f) = route.cost
  BY DEF InsertEffect
<1>3. PICK last :
        /\ Leads(u.inherited, Recorded(new), last)
        /\ DOMAIN last = DOMAIN new
        /\ \A n \in Names, g \in Faces : n # name =>
             IF n \in DOMAIN rib /\ g \in faces /\ Passes(rib, name, n, g)
               THEN Will(n, g) # Absent /\ last[n][g] > 0
               ELSE /\ Will(n, g) = table[n][g]
                    /\ n \in DOMAIN rib => last[n][g] = rib[n].inherited[g]
        /\ \A g \in Faces \ {f} :
             IF name \in DOMAIN rib \/ ~Above(rib, name, g)
               THEN /\ Will(name, g) = table[name][g]
                    /\ name \in DOMAIN rib => last[name][g] = rib[name].inherited[g]
               ELSE Will(name, g) # Absent /\ last[name][g] > 0
  BY DEF InsertEffect
<1>4. DOMAIN rib \subseteq Names /\ ~isProperPrefixOf(name, name)
  BY RibTypes DEF isProperPrefixOf
<1> HIDE DEF Will
<1>5. \A n, g : Above(rib, n, g) => Above(new, n, g)
  BY <1>1 DEF Above
<1>6. \A n, g : Above(new, n, g) => Above(rib, n, g) \/ (g = f /\ isProperPrefixOf(name, n))
  BY SMTT(60), <1>1 DEF Above, HasRoute
<1>7. ASSUME NEW n \in DOMAIN rib, n # name, NEW g \in Faces, ~HasRoute(rib, n, g)
      PROVE  /\ g \in faces /\ Passes(rib, name, n, g) => Inherits(new, n, g)
             /\ ~(g \in faces /\ Passes(rib, name, n, g)) =>
                  (Inherits(new, n, g) <=> Inherits(rib, n, g))
  <2>1. ASSUME g \in faces, Passes(rib, name, n, g) PROVE Above(new, n, g)
    <3>1. isProperPrefixOf(name, n) /\ n \in Names
      BY <1>4, <2>1 DEF Passes
    <3>2. CASE g = f
      BY <1>1, <3>1, <3>2 DEF Above
    <3>3. CASE g # f
      <4> PICK a \in DOMAIN rib : isProperPrefixOf(a, name) /\ HasRoute(rib, a, g)
        BY <2>1, <3>3 DEF Above
      <4> isProperPrefixOf(a, n)
        BY <1>4, <3>1, NameChain
      <4> Above(rib, n, g)
        BY DEF Above
      <4> QED  BY <1>5
    <3> QED  BY <3>2, <3>3
  <2> ASSUME ~(g \in faces /\ Passes(rib, name, n, g)), Above(new, n, g) PROVE Above(rib, n, g)
    <3> SUFFICES ASSUME g = f, isProperPrefixOf(name, n) PROVE Above(rib, n, g)
      BY <1>6
    <3> ~Passes(rib, name, n, g)
      OBVIOUS
    <3> \E m \in DOMAIN rib : isProperPrefixOf(m, n) /\ HasRoute(rib, m, g)
      BY <1>7, NotPassing
    <3> QED  BY DEF Above
  <2> QED  BY <1>1, <1>5, <2>1 DEF Inherits
<1>8. ASSUME NEW n \in Names, NEW g \in Faces PROVE Target(new, n, g, Will(n, g))
  <2>1. Target(rib, n, g, table[n][g])
    BY DEF Match
  <2>2. CASE n = name /\ g = f
    BY <1>1, <1>2, <2>2 DEF Target
  <2>3. CASE n = name /\ g # f
    <3>1. HasRoute(rib, name, g) <=> HasRoute(new, name, g)
      BY <1>1, <2>3
    <3>2. Above(new, name, g) <=> Above(rib, name, g)
      BY <1>4, <1>5, <1>6, <2>3
    <3>3. CASE name \in DOMAIN rib
      <4>1. Will(name, g) = table[name][g]
        BY <1>3, <2>3, <3>3
      <4> Inherits(new, name, g) <=> Inherits(rib, name, g)
        BY <1>1, <3>2, <3>3 DEF Inherits
      <4> HasRoute(rib, name, g) => new[name].routes[g].cost = rib[name].routes[g].cost
        BY <1>1, <2>3
      <4> QED  BY <2>1, <2>3, <3>1, <4>1 DEF Target
    <3>4. CASE name \notin DOMAIN rib /\ ~Above(rib, name, g)
      <4> Will(name, g) = table[name][g]
        BY <1>3, <2>3, <3>4
      <4> ~HasRoute(rib, name, g) /\ ~Inherits(rib, name, g) /\ ~Inherits(new, name, g)
        BY <3>2, <3>4 DEF HasRoute, Inherits
      <4> QED  BY <2>1, <2>3, <3>1 DEF Target
    <3> CASE name \notin DOMAIN rib /\ Above(rib, name, g)
      <4> Will(name, g) # Absent
        BY <1>3, <2>3
      <4> ~HasRoute(rib, name, g) /\ Inherits(new, name, g)
        BY <1>1, <3>2 DEF HasRoute, Inherits
      <4> QED  BY <2>3, <3>1 DEF Target
    <3> QED  BY <3>3, <3>4
  <2>4. CASE n # name /\ n \notin DOMAIN rib
    <3> ~HasRoute(rib, n, g) /\ ~HasRoute(new, n, g) /\ ~Inherits(rib, n, g) /\ ~Inherits(new, n, g)
      BY <1>1, <2>4 DEF HasRoute, Inherits
    <3> Will(n, g) = table[n][g]
      BY <1>3, <2>4
    <3> QED  BY <2>1 DEF Target
  <2>5. CASE n # name /\ n \in DOMAIN rib /\ HasRoute(rib, n, g)
    <3> ~Passes(rib, name, n, g)
      BY <2>5, PassesAbove
    <3> Will(n, g) = table[n][g]
      BY <1>3, <2>5
    <3> QED  BY <1>1, <2>1, <2>5 DEF Target
  <2> CASE n # name /\ n \in DOMAIN rib /\ ~HasRoute(rib, n, g)
    <3>1. ~HasRoute(new, n, g)
      BY <1>1
    <3>2. CASE g \in faces /\ Passes(rib, name, n, g)
      <4> Inherits(new, n, g)
        BY <1>7, <3>2
      <4> Will(n, g) # Absent
        BY <1>3, <3>2
      <4> QED  BY <3>1 DEF Target
    <3> CASE ~(g \in faces /\ Passes(rib, name, n, g))
      <4> Inherits(new, n, g) <=> Inherits(rib, n, g)
        BY <1>7
      <4> Will(n, g) = table[n][g]
        BY <1>3
      <4> QED  BY <2>1, <3>1 DEF Target
    <3> QED  BY <3>2
  <2> QED  BY <2>2, <2>3, <2>4, <2>5
<1>9. ASSUME NEW n \in DOMAIN new, NEW g \in Faces, Inherits(new, n, g), ~HasRoute(new, n, g)
      PROVE  last[n][g] > 0
  <2>1. CASE n = name
    <3> g # f /\ ~HasRoute(rib, name, g) /\ Above(rib, name, g)
      BY <1>1, <1>4, <1>6, <1>9, <2>1 DEF Inherits
    <3> CASE name \in DOMAIN rib
      <4> rib[name].inherited[g] > 0
        BY DEF Complete, Inherits
      <4> QED  BY <1>3, <2>1
    <3> CASE name \notin DOMAIN rib
      BY <1>3, <2>1
    <3> QED  OBVIOUS
  <2> CASE n # name
    <3> n \in DOMAIN rib /\ n \in Names /\ ~HasRoute(rib, n, g)
      BY <1>1, <1>4, <1>9
    <3>1. CASE g \in faces /\ Passes(rib, name, n, g)
      BY <1>3, <3>1
    <3> CASE ~(g \in faces /\ Passes(rib, name, n, g))
      <4> Inherits(rib, n, g)
        BY <1>7, <1>9
      <4> rib[n].inherited[g] > 0
        BY DEF Complete
      <4> QED  BY <1>3
    <3> QED  BY <3>1
  <2> QED  BY <2>1
<1> Ready(new, u.inherited)
  BY <1>3, <1>9 DEF Ready
<1> QED  BY <1>8 DEF Planned, Will

\* The RIB after an erase, in terms of who has a route.
HasErased(new, rib, name, f) ==
  /\ new \in Ribs /\ Tree(new) /\ Plain(new)
  /\ DOMAIN new = IF DOMAIN rib[name].routes = {f} THEN DOMAIN rib \ {name} ELSE DOMAIN rib
  /\ \A n, g : HasRoute(new, n, g) <=> HasRoute(rib, n, g) /\ ~(n = name /\ g = f)
  /\ \A n, g : HasRoute(new, n, g) => new[n].routes[g].cost = rib[n].routes[g].cost
  /\ DOMAIN Recorded(new) = DOMAIN new
  /\ Counts(Recorded(new))
  /\ \A n \in DOMAIN new, g \in Faces : Recorded(new)[n][g] = rib[n].inherited[g]

\* What an unregistration computes for another entry: below name, the route is
\* replaced by the ones above name.
EraseEffectAt(rib, name, f, u, table, last, n, g) ==
  LET Will == After(Pending(u), n, g, table[n][g])
      Adds == n \in DOMAIN rib /\ Above(rib, name, g) /\ Passes(rib, name, n, g)
      Removes == n \in DOMAIN rib /\ g = f /\ Passes(rib, name, n, g) /\ rib[n].inherited[g] > 0
  IN /\ Adds => Will # Absent /\ last[n][g] > 0
     /\ ~Adds /\ Removes => Will = Absent
     /\ ~Adds /\ ~Removes => Will = table[n][g] /\ (n \in DOMAIN rib => last[n][g] = rib[n].inherited[g])

\* And at name: what the route was hiding, or the end of the entry.
EraseEffect(new, rib, name, f, u, table) ==
  LET stays == DOMAIN rib[name].routes # {f}
      Will(g) == After(Pending(u), name, g, table[name][g])
  IN \E last :
       /\ Leads(u.inherited, Recorded(new), last)
       /\ DOMAIN last = DOMAIN new
       /\ \A n \in Names, g \in Faces : n # name => EraseEffectAt(rib, name, f, u, table, last, n, g)
       /\ IF stays /\ Above(rib, name, f) THEN Will(f) # Absent /\ last[name][f] > 0
                                         ELSE Will(f) = Absent
       /\ \A g \in Faces \ {f} :
            /\ stays => Will(g) = table[name][g] /\ last[name][g] = rib[name].inherited[g]
            /\ ~stays /\ rib[name].inherited[g] > 0 => Will(g) = Absent
            /\ ~stays /\ ~(rib[name].inherited[g] > 0) => Will(g) = table[name][g]

\* That is right for the new RIB.
LEMMA ErasePlanned ==
  ASSUME NEW rib \in Ribs, Complete(rib), NEW name, NEW f \in Faces, HasRoute(rib, name, f),
         NEW new, HasErased(new, rib, name, f),
         NEW u, NEW table, Match(rib, table), EraseEffect(new, rib, name, f, u, table)
  PROVE  Planned(new, u, table)
<1> DEFINE stays == DOMAIN rib[name].routes # {f}
           Will(n, g) == After(Pending(u), n, g, table[n][g])
           Adds(n, g) == n \in DOMAIN rib /\ Above(rib, name, g) /\ Passes(rib, name, n, g)
           Removes(n, g) == n \in DOMAIN rib /\ g = f /\ Passes(rib, name, n, g) /\ rib[n].inherited[g] > 0
<1>1. /\ DOMAIN new = IF stays THEN DOMAIN rib ELSE DOMAIN rib \ {name}
      /\ \A n, g : HasRoute(new, n, g) <=> HasRoute(rib, n, g) /\ ~(n = name /\ g = f)
      /\ \A n, g : HasRoute(new, n, g) => new[n].routes[g].cost = rib[n].routes[g].cost
  BY DEF HasErased
<1>2. PICK last :
        /\ Leads(u.inherited, Recorded(new), last)
        /\ DOMAIN last = DOMAIN new
        /\ \A n \in Names, g \in Faces : n # name =>
             /\ Adds(n, g) => Will(n, g) # Absent /\ last[n][g] > 0
             /\ ~Adds(n, g) /\ Removes(n, g) => Will(n, g) = Absent
             /\ ~Adds(n, g) /\ ~Removes(n, g) =>
                  Will(n, g) = table[n][g] /\ (n \in DOMAIN rib => last[n][g] = rib[n].inherited[g])
        /\ IF stays /\ Above(rib, name, f) THEN Will(name, f) # Absent /\ last[name][f] > 0
                                          ELSE Will(name, f) = Absent
        /\ \A g \in Faces \ {f} :
             /\ stays => Will(name, g) = table[name][g] /\ last[name][g] = rib[name].inherited[g]
             /\ ~stays /\ rib[name].inherited[g] > 0 => Will(name, g) = Absent
             /\ ~stays /\ ~(rib[name].inherited[g] > 0) => Will(name, g) = table[name][g]
  BY DEF EraseEffect, EraseEffectAt
<1>3. name \in DOMAIN rib /\ name \in Names /\ DOMAIN rib \subseteq Names /\ ~isProperPrefixOf(name, name)
  BY RibTypes DEF HasRoute, isProperPrefixOf
<1>4. ~stays => \A g : HasRoute(rib, name, g) => g = f
  BY DEF HasRoute
<1> HIDE DEF Will, stays
<1>5. \A n, g : Above(new, n, g) => Above(rib, n, g)
  BY <1>1 DEF Above, HasRoute
<1>6. \A n, g : Above(rib, n, g) => Above(new, n, g) \/ (g = f /\ isProperPrefixOf(name, n))
  <2> SUFFICES ASSUME NEW n, NEW g, Above(rib, n, g), ~(g = f /\ isProperPrefixOf(name, n))
               PROVE  Above(new, n, g)
    OBVIOUS
  <2> PICK a \in DOMAIN rib : isProperPrefixOf(a, n) /\ HasRoute(rib, a, g)
    BY DEF Above
  <2> HasRoute(new, a, g)
    BY <1>1
  <2> QED  BY DEF Above, HasRoute
<1>7. \A g : Above(new, name, g) <=> Above(rib, name, g)
  BY <1>3, <1>5, <1>6
<1>8. ASSUME NEW n \in DOMAIN rib, n # name, NEW g \in Faces, ~HasRoute(rib, n, g)
      PROVE  /\ Adds(n, g) => Inherits(new, n, g)
             /\ ~Adds(n, g) /\ Removes(n, g) => ~Inherits(new, n, g)
             /\ ~Adds(n, g) /\ ~Removes(n, g) => (Inherits(new, n, g) <=> Inherits(rib, n, g))
             /\ Inherits(new, n, g) => Inherits(rib, n, g)
  <2>1. n \in DOMAIN new /\ n \in Names
    BY <1>1, <1>3, <1>8
  <2>2. ASSUME Adds(n, g) PROVE Above(new, n, g)
    <3> PICK a \in DOMAIN rib : isProperPrefixOf(a, name) /\ HasRoute(rib, a, g)
      BY <2>2 DEF Above
    <3>1. isProperPrefixOf(name, n) /\ a \in Names
      BY <1>3, <2>2 DEF Passes
    <3>2. isProperPrefixOf(a, n)
      BY <1>3, <2>1, <3>1, NameChain
    <3> a # name
      BY <1>3
    <3> HasRoute(new, a, g)
      BY <1>1
    <3> QED  BY <3>2 DEF Above, HasRoute
  <2>3. ASSUME ~Adds(n, g), Removes(n, g), Above(new, n, g) PROVE FALSE
    <3> PICK a \in DOMAIN new : isProperPrefixOf(a, n) /\ HasRoute(new, a, g)
      BY <2>3 DEF Above
    <3> a \in DOMAIN rib /\ HasRoute(rib, a, g) /\ ~(a = name /\ g = f)
      BY <1>1 DEF HasRoute
    <3> g = f /\ Passes(rib, name, n, g)
      BY <2>3
    <3> isProperPrefixOf(a, name)
      BY <1>3, PassesAbove
    <3> QED  BY <2>3 DEF Above
  <2> ASSUME ~Adds(n, g), ~Removes(n, g), Above(rib, n, g) PROVE Above(new, n, g)
    <3> SUFFICES ASSUME g = f, isProperPrefixOf(name, n) PROVE Above(new, n, g)
      BY <1>6
    <3>1. rib[n].inherited[g] > 0
      BY <1>8 DEF Complete, Inherits
    <3>2. ~Passes(rib, name, n, g)
      BY <3>1
    <3> PICK m \in DOMAIN rib : /\ isProperPrefixOf(name, m) /\ m # name
                                /\ isProperPrefixOf(m, n) /\ HasRoute(rib, m, g)
      BY <1>3, <1>8, <3>2, NotPassing
    <3> HasRoute(new, m, g)
      BY <1>1
    <3> QED  BY DEF Above, HasRoute
  <2> HIDE DEF Adds, Removes
  <2> QED  BY <1>5, <2>1, <2>2, <2>3 DEF Inherits
<1> HIDE DEF Adds, Removes
<1>9. ASSUME NEW n \in Names, NEW g \in Faces PROVE Target(new, n, g, Will(n, g))
  <2>1. Target(rib, n, g, table[n][g])
    BY DEF Match
  <2>2. CASE n = name /\ g = f
    <3> ~HasRoute(new, name, f)
      BY <1>1
    <3> Inherits(new, name, f) <=> stays /\ Above(rib, name, f)
      BY <1>1, <1>3, <1>7 DEF Inherits
    <3> QED  BY <1>2, <2>2 DEF Target
  <2>3. CASE n = name /\ g # f /\ stays
    <3>1. HasRoute(rib, name, g) <=> HasRoute(new, name, g)
      BY <1>1, <2>3
    <3> Inherits(new, name, g) <=> Inherits(rib, name, g)
      BY <1>1, <1>3, <1>7, <2>3 DEF Inherits
    <3> Will(name, g) = table[name][g]
      BY <1>2, <2>3
    <3> QED  BY <1>1, <2>1, <2>3, <3>1 DEF Target
  <2>4. CASE n = name /\ g # f /\ ~stays
    <3> ~HasRoute(rib, name, g) /\ ~HasRoute(new, name, g) /\ ~Inherits(new, name, g)
      BY <1>1, <1>4, <2>4 DEF Inherits
    <3>1. CASE rib[name].inherited[g] > 0
      BY <1>2, <2>4, <3>1 DEF Target
    <3> CASE ~(rib[name].inherited[g] > 0)
      <4> Will(name, g) = table[name][g]
        BY <1>2, <2>4
      <4> ~Inherits(rib, name, g)
        BY <1>3 DEF Complete
      <4> QED  BY <2>1, <2>4 DEF Target
    <3> QED  BY <3>1
  <2>5. CASE n # name /\ n \notin DOMAIN rib
    <3>1. ~HasRoute(rib, n, g) /\ ~HasRoute(new, n, g) /\ ~Inherits(rib, n, g) /\ ~Inherits(new, n, g)
      BY <1>1, <2>5 DEF HasRoute, Inherits
    <3> ~Adds(n, g) /\ ~Removes(n, g)
      BY <2>5 DEF Adds, Removes
    <3> Will(n, g) = table[n][g]
      BY <1>2, <2>5
    <3> QED  BY <2>1, <3>1 DEF Target
  <2> CASE n # name /\ n \in DOMAIN rib /\ HasRoute(rib, n, g)
    <3>1. ~Passes(rib, name, n, g)
      BY <1>3, PassesAbove
    <3>2. ~Adds(n, g) /\ ~Removes(n, g)
      BY <3>1 DEF Adds, Removes
    <3> Will(n, g) = table[n][g]
      BY <1>2, <3>2
    <3> HasRoute(new, n, g) /\ new[n].routes[g].cost = rib[n].routes[g].cost
      BY <1>1
    <3> QED  BY <2>1 DEF Target
  <2> CASE n # name /\ n \in DOMAIN rib /\ ~HasRoute(rib, n, g)
    <3> ~HasRoute(new, n, g)
      BY <1>1
    <3> /\ Adds(n, g) => Inherits(new, n, g) /\ Will(n, g) # Absent
        /\ ~Adds(n, g) /\ Removes(n, g) => ~Inherits(new, n, g) /\ Will(n, g) = Absent
        /\ ~Adds(n, g) /\ ~Removes(n, g) =>
             (Inherits(new, n, g) <=> Inherits(rib, n, g)) /\ Will(n, g) = table[n][g]
      BY <1>2, <1>8
    <3> QED  BY <2>1 DEF Target
  <2> QED  BY <2>2, <2>3, <2>4, <2>5
<1>10. ASSUME NEW n \in DOMAIN new, NEW g \in Faces, Inherits(new, n, g), ~HasRoute(new, n, g)
       PROVE  last[n][g] > 0
  <2>1. CASE n = name
    <3> stays /\ Above(rib, name, g)
      BY <1>1, <1>7, <1>10, <2>1 DEF Inherits
    <3>1. CASE g = f
      BY <1>2, <2>1, <3>1
    <3> CASE g # f
      <4> ~HasRoute(rib, name, g) /\ Inherits(rib, name, g)
        BY <1>1, <1>3, <1>10, <2>1 DEF Inherits
      <4> rib[name].inherited[g] > 0
        BY <1>3 DEF Complete
      <4> QED  BY <1>2, <2>1
    <3> QED  BY <3>1
  <2> CASE n # name
    <3> n \in DOMAIN rib /\ n \in Names /\ ~HasRoute(rib, n, g)
      BY <1>1, <1>3, <1>10
    <3> Inherits(rib, n, g) /\ (Adds(n, g) \/ ~Removes(n, g))
      BY <1>8, <1>10
    <3> rib[n].inherited[g] > 0
      BY DEF Complete
    <3> QED  BY <1>2
  <2> QED  BY <2>1
<1> Ready(new, u.inherited)
  BY <1>2, <1>10 DEF Ready
<1> QED  BY <1>9 DEF Planned, Will

-----------------------------------------------------------------------------
(* The tree                                                                *)

\* findParent finds the longest proper prefix.
LEMMA ParentIs ==
  ASSUME LibraryFacts, NEW rib, DOMAIN rib \subseteq Names, NEW name \in Names
  PROVE  LET p == findParent(rib, name)
             above == ProperPrefixesIn(rib, name)
         IN /\ above = {} => p = NoName
            /\ above # {} => /\ p \in DOMAIN rib
                             /\ isProperPrefixOf(p, name)
                             /\ \A m \in above : isPrefixOf(m, p)
            /\ p # NoName => above # {}
<1> DEFINE above == ProperPrefixesIn(rib, name)
           p == findParent(rib, name)
<1>1. above = {} => p = NoName
  BY DEF findParent
<1> ASSUME above # {}
    PROVE  /\ p \in above
           /\ \A m \in above : Len(m) <= Len(p)
  <2>1. above \subseteq Names /\ \A a \in above : isPrefixOf(a, name)
    BY DEF ProperPrefixesIn, isProperPrefixOf
  <2> \E a \in above : \A b \in above : Len(b) <= Len(a)
    BY <2>1, LongestPrefix
  <2> p = CHOOSE n \in above : \A m \in above : Len(m) <= Len(n)
    BY DEF findParent
  <2> QED  OBVIOUS
<1> ASSUME above # {} PROVE \A m \in above : isPrefixOf(m, p)
  BY NameOrder DEF ProperPrefixesIn, isProperPrefixOf
<1> QED  BY <1>1 DEF ProperPrefixesIn

\* And nothing else is the longest proper prefix.
LEMMA ParentUnique ==
  ASSUME LibraryFacts, NEW rib, DOMAIN rib \subseteq Names, NEW name \in Names,
         NEW q \in DOMAIN rib, isProperPrefixOf(q, name),
         \A m \in DOMAIN rib : isProperPrefixOf(m, name) => isPrefixOf(m, q)
  PROVE  findParent(rib, name) = q
<1> DEFINE p == findParent(rib, name)
<1>1. q \in ProperPrefixesIn(rib, name)
  BY DEF ProperPrefixesIn
<1> p \in DOMAIN rib /\ isProperPrefixOf(p, name) /\ isPrefixOf(q, p)
  BY <1>1, ParentIs
<1> isPrefixOf(p, q)
  OBVIOUS
<1> QED  BY NameOrder

\* In a tree, the parent of an entry, and what is above it.
LEMMA TreeParent ==
  ASSUME LibraryFacts,
         NEW rib, DOMAIN rib \subseteq Names, Tree(rib), NEW n \in DOMAIN rib
  PROVE  /\ rib[n].parent = NoName => \A m \in DOMAIN rib : ~isProperPrefixOf(m, n)
         /\ rib[n].parent # NoName =>
              /\ rib[n].parent \in DOMAIN rib
              /\ isProperPrefixOf(rib[n].parent, n)
              /\ \A m \in DOMAIN rib : isProperPrefixOf(m, n) <=> isPrefixOf(m, rib[n].parent)
<1> DEFINE p == rib[n].parent
<1>1. p = findParent(rib, n)
  BY DEF Tree
<1> ASSUME p = NoName, NEW m \in DOMAIN rib, isProperPrefixOf(m, n) PROVE FALSE
  <2> m \in ProperPrefixesIn(rib, n)
    BY DEF ProperPrefixesIn
  <2> p \in DOMAIN rib
    BY <1>1, ParentIs
  <2> QED  BY NamesAssumption
<1> ASSUME p # NoName
    PROVE  /\ p \in DOMAIN rib
           /\ isProperPrefixOf(p, n)
           /\ \A m \in DOMAIN rib : isProperPrefixOf(m, n) => isPrefixOf(m, p)
  BY <1>1, ParentIs DEF ProperPrefixesIn
<1> ASSUME p # NoName, NEW m \in DOMAIN rib, isPrefixOf(m, p) PROVE isProperPrefixOf(m, n)
  BY SMTT(60), NameOrder
<1> QED  OBVIOUS

\* Rib::insert of a new name keeps the tree.
LEMMA InsertTree ==
  ASSUME LibraryFacts,
         NEW rib \in Ribs, Tree(rib), NEW name \in Names, name \notin DOMAIN rib
  PROVE  InsertEntry(rib, name) \in Ribs /\ Tree(InsertEntry(rib, name))
<1> DEFINE parent  == findParent(rib, name)
           adopted == {n \in findDescendants(rib, name) : rib[n].parent = parent}
           new     == InsertEntry(rib, name)
           entry   == [routes |-> Nothing, inherited |-> [f \in Faces |-> 0],
                       capture |-> 0, parent |-> parent, children |-> adopted]
<1>1. DOMAIN rib \subseteq Names /\ \A n \in DOMAIN rib : rib[n] \in Entries
  BY RibTypes
<1>2. new = [n \in DOMAIN rib \cup {name} |->
        CASE n = name     -> entry
          [] n \in adopted -> [rib[n] EXCEPT !.parent = name]
          [] n = parent   -> [rib[n] EXCEPT !.children = (@ \ adopted) \cup {name}]
          [] OTHER        -> rib[n]]
  BY DEF InsertEntry
<1>3. parent \in DOMAIN rib \cup {NoName} /\ (parent # NoName => isProperPrefixOf(parent, name))
  BY <1>1, ParentIs
<1>4. \A n \in adopted : n \in DOMAIN rib /\ isProperPrefixOf(name, n)
  BY DEF findDescendants
<1>5. parent \notin adopted /\ name \notin adopted /\ parent # name
  BY <1>1, <1>3, <1>4, NameOrder, NamesAssumption
<1>6. entry \in Entries /\ entry.parent = parent /\ entry.children = adopted
  <2> Nothing \in RouteMaps
    BY RouteMapTypes DEF Nothing
  <2> QED  BY SMTT(60), <1>1, <1>3, <1>4 DEF Entries
<1>7. \A n \in DOMAIN rib : n \in adopted <=> isProperPrefixOf(name, n) /\ rib[n].parent = parent
  BY DEF findDescendants
<1> HIDE DEF parent, adopted, entry, new
<1>8. /\ DOMAIN new = DOMAIN rib \cup {name}
      /\ new[name] = entry
      /\ \A n \in adopted : new[n] = [rib[n] EXCEPT !.parent = name]
      /\ parent # NoName =>
           new[parent] = [rib[parent] EXCEPT !.children = (@ \ adopted) \cup {name}]
      /\ \A n \in DOMAIN rib : n \notin adopted /\ n # parent => new[n] = rib[n]
  BY <1>2, <1>3, <1>4, <1>5
<1>9. \A n \in DOMAIN rib :
        /\ new[n] \in Entries
        /\ new[n].parent = IF n \in adopted THEN name ELSE rib[n].parent
        /\ new[n].children = IF n = parent THEN (rib[n].children \ adopted) \cup {name}
                                           ELSE rib[n].children
  <2> TAKE n \in DOMAIN rib
  <2> rib[n] \in Entries /\ adopted \subseteq Names
    BY <1>1, <1>4
  <2>1. CASE n \in adopted
    BY <1>5, <1>8, <2>1 DEF Entries
  <2> CASE n = parent
    <3> parent # NoName
      BY <1>1, NamesAssumption
    <3> new[n] = [rib[n] EXCEPT !.children = (rib[n].children \ adopted) \cup {name}]
      BY <1>8
    <3> QED  BY SMTT(60), <1>5 DEF Entries
  <2> CASE n \notin adopted /\ n # parent
    BY <1>8
  <2> QED  BY <2>1
<1>10. new \in Ribs
  <2> new = [n \in DOMAIN new |-> new[n]]
    BY SMTT(60), <1>2
  <2> QED  BY <1>1, <1>6, <1>8, <1>9, RibTypes
<1>11. parent # NoName => \A m \in DOMAIN rib : isProperPrefixOf(m, name) => isPrefixOf(m, parent)
  BY <1>1, ParentIs DEF ProperPrefixesIn, parent
<1>12. parent = NoName => \A m \in DOMAIN rib : ~isProperPrefixOf(m, name)
  BY <1>1, ParentIs, NamesAssumption DEF ProperPrefixesIn, parent
<1>13. findParent(new, name) = new[name].parent
  <2> ~isProperPrefixOf(name, name)
    BY DEF isProperPrefixOf
  <2> ProperPrefixesIn(new, name) = ProperPrefixesIn(rib, name)
    BY <1>8 DEF ProperPrefixesIn
  <2> QED  BY <1>6, <1>8 DEF findParent, parent
<1>14. ASSUME NEW n \in DOMAIN rib PROVE findParent(new, n) = new[n].parent
  <2> DEFINE q == rib[n].parent
  <2>1. n \in Names /\ DOMAIN new \subseteq Names
    BY <1>1, <1>8
  <2>2. CASE ~isProperPrefixOf(name, n)
    <3> ProperPrefixesIn(new, n) = ProperPrefixesIn(rib, n)
      BY <1>8, <2>2 DEF ProperPrefixesIn
    <3> n \notin adopted
      BY <1>7, <2>2
    <3> QED  BY <1>9 DEF findParent, Tree
  <2>3. CASE isProperPrefixOf(name, n) /\ n \in adopted
    <3> \A m \in DOMAIN rib : isProperPrefixOf(m, n) => isPrefixOf(m, name)
      BY SMTT(60), <1>1, <1>3, <1>7, <2>1, <2>3, NameOrder, TreeParent
    <3> \A m \in DOMAIN new : isProperPrefixOf(m, n) => isPrefixOf(m, name)
      BY <1>8, NameOrder
    <3> QED  BY <1>8, <1>9, <2>1, <2>3, ParentUnique
  <2>4. CASE isProperPrefixOf(name, n) /\ n \notin adopted
    <3>1. q # parent
      BY <1>7, <2>4
    <3>2. q # NoName
      <4> SUFFICES ASSUME q = NoName PROVE parent = NoName
        BY <3>1
      <4> parent # NoName => isProperPrefixOf(parent, n)
        BY SMTT(60), <1>1, <1>3, <2>1, <2>4, NameOrder
      <4> QED  BY <1>1, <1>3, TreeParent
    <3> /\ q \in DOMAIN rib
        /\ isProperPrefixOf(q, n)
        /\ \A m \in DOMAIN rib : isProperPrefixOf(m, n) <=> isPrefixOf(m, q)
      BY <1>1, <3>2, TreeParent
    <3>3. isPrefixOf(name, q)
      <4>1. SUFFICES ASSUME ~isPrefixOf(name, q) PROVE q = parent
        BY <3>1
      <4>2. isProperPrefixOf(q, name)
        BY SMTT(60), <1>1, <2>1, <2>4, <4>1, NameOrder
      <4> parent # NoName /\ isPrefixOf(q, parent)
        BY <1>11, <1>12, <4>2
      <4> isProperPrefixOf(parent, n)
        BY SMTT(60), <1>1, <1>3, <2>1, <2>4, NameOrder
      <4> isPrefixOf(parent, q)
        BY <1>3
      <4> QED  BY <1>1, <1>3, NameOrder
    <3> \A m \in DOMAIN new : isProperPrefixOf(m, n) => isPrefixOf(m, q)
      BY <1>8, <3>3
    <3> findParent(new, n) = q
      BY <1>8, <2>1, ParentUnique
    <3> QED  BY <1>9, <2>4
  <2> QED  BY <2>2, <2>3, <2>4
<1>15. ASSUME NEW n \in DOMAIN new
       PROVE  new[n].children = {c \in DOMAIN new : new[c].parent = n}
  <2>1. \A c \in DOMAIN rib : rib[c].parent # name
    BY <1>1, TreeParent, NamesAssumption
  <2>2. CASE n = name
    <3> \A c \in DOMAIN new : new[c].parent = name <=> c \in adopted
      BY <1>4, <1>5, <1>6, <1>8, <1>9, <2>1
    <3> QED  BY <1>4, <1>6, <1>8, <2>2
  <2>3. CASE n # name /\ n = parent
    <3> rib[n].children = {c \in DOMAIN rib : rib[c].parent = n}
      BY <1>8, <2>3 DEF Tree
    <3>1. \A c \in DOMAIN rib : new[c].parent = n <=> c \in rib[n].children /\ c \notin adopted
      BY <1>7, <1>9, <2>3
    <3> new[name].parent = n /\ name \notin rib[n].children
      BY <1>6, <1>8, <2>3
    <3> new[n].children = (rib[n].children \ adopted) \cup {name}
      BY <1>8, <1>9, <2>3
    <3> QED  BY <1>8, <3>1
  <2> CASE n # name /\ n # parent
    <3> rib[n].children = {c \in DOMAIN rib : rib[c].parent = n}
      BY <1>8 DEF Tree
    <3>1. \A c \in DOMAIN rib : new[c].parent = n <=> c \in rib[n].children
      BY <1>7, <1>9
    <3> new[name].parent # n
      BY <1>6, <1>8
    <3> new[n].children = rib[n].children
      BY <1>8, <1>9
    <3> QED  BY <1>8, <3>1
  <2> QED  BY <2>2, <2>3
<1> QED  BY <1>8, <1>10, <1>13, <1>14, <1>15 DEF Tree, new

\* A RIB with the names, parents and children of a tree is one.
LEMMA SameTree ==
  ASSUME NEW rib, Tree(rib), NEW new, DOMAIN new = DOMAIN rib,
         \A n \in DOMAIN rib : new[n].parent = rib[n].parent /\ new[n].children = rib[n].children
  PROVE  Tree(new)
<1> \A n : findParent(new, n) = findParent(rib, n)
  BY SMTT(60) DEF findParent, ProperPrefixesIn
<1> QED  BY SMTT(60) DEF Tree

\* Rib::eraseEntry keeps the tree.
LEMMA EraseTree ==
  ASSUME LibraryFacts, NEW rib \in Ribs, Tree(rib), NEW name \in DOMAIN rib
  PROVE  eraseEntry(rib, name) \in Ribs /\ Tree(eraseEntry(rib, name))
<1> DEFINE parent == rib[name].parent
           kids   == rib[name].children
           new    == eraseEntry(rib, name)
<1>1. DOMAIN rib \subseteq Names /\ \A n \in DOMAIN rib : rib[n] \in Entries
  BY RibTypes
<1>2. new = [n \in DOMAIN rib \ {name} |->
        CASE n \in kids -> [rib[n] EXCEPT !.parent = parent]
          [] n = parent -> [rib[n] EXCEPT !.children = (@ \ {name}) \cup kids]
          [] OTHER      -> rib[n]]
  BY DEF eraseEntry
<1>3. \A c \in DOMAIN rib : c \in kids <=> rib[c].parent = name
  BY DEF Tree
<1>4. kids \subseteq DOMAIN rib
  BY DEF Tree
<1>5. /\ parent = NoName => \A m \in DOMAIN rib : ~isProperPrefixOf(m, name)
      /\ parent # NoName => /\ parent \in DOMAIN rib /\ isProperPrefixOf(parent, name)
                            /\ \A m \in DOMAIN rib : isProperPrefixOf(m, name) <=> isPrefixOf(m, parent)
  BY <1>1, TreeParent
<1>6. \A c \in kids : /\ isProperPrefixOf(name, c)
                      /\ \A m \in DOMAIN rib : isProperPrefixOf(m, c) <=> isPrefixOf(m, name)
  BY SMTT(60), <1>1, <1>3, <1>4, TreeParent, NamesAssumption
<1>7. name \notin kids /\ parent \notin kids /\ parent # name
  BY SMTT(60), <1>1, <1>4, <1>5, <1>6, NameOrder, NamesAssumption
<1> HIDE DEF parent, kids, new
<1> /\ DOMAIN new = DOMAIN rib \ {name}
    /\ \A n \in kids : new[n] = [rib[n] EXCEPT !.parent = parent]
    /\ parent # NoName =>
         new[parent] = [rib[parent] EXCEPT !.children = (@ \ {name}) \cup kids]
    /\ \A n \in DOMAIN new : n \notin kids /\ n # parent => new[n] = rib[n]
  BY <1>2, <1>4, <1>5, <1>7
<1>8. \A n \in DOMAIN new :
        /\ new[n] \in Entries
        /\ new[n].parent = IF n \in kids THEN parent ELSE rib[n].parent
        /\ new[n].children = IF n = parent THEN (rib[n].children \ {name}) \cup kids
                                           ELSE rib[n].children
  <2> TAKE n \in DOMAIN new
  <2> rib[n] \in Entries /\ kids \subseteq Names /\ parent \in Names \cup {NoName}
    BY <1>1, <1>4, <1>5
  <2>1. CASE n \in kids
    BY <1>7, <2>1 DEF Entries
  <2> CASE n = parent
    <3> parent # NoName
      BY <1>1, NamesAssumption
    <3> new[n] = [rib[n] EXCEPT !.children = (rib[n].children \ {name}) \cup kids]
      OBVIOUS
    <3> QED  BY <1>7 DEF Entries
  <2> CASE n \notin kids /\ n # parent
    OBVIOUS
  <2> QED  BY <2>1
<1>9. new \in Ribs
  <2> new = [n \in DOMAIN new |-> new[n]]
    BY <1>2
  <2> QED  BY <1>1, <1>8, RibTypes
<1>10. ASSUME NEW n \in DOMAIN new PROVE findParent(new, n) = new[n].parent
  <2> DEFINE q == rib[n].parent
  <2>1. n \in Names /\ n \in DOMAIN rib /\ DOMAIN new \subseteq Names
    BY <1>1
  <2>2. CASE n \in kids /\ parent = NoName
    <3> ProperPrefixesIn(new, n) = {}
      BY <1>1, <1>5, <1>6, <2>2, NameOrder DEF ProperPrefixesIn, isProperPrefixOf
    <3> QED  BY <1>8, <2>2 DEF findParent
  <2>3. CASE n \in kids /\ parent # NoName
    <3> \A m \in DOMAIN new : isProperPrefixOf(m, n) => isPrefixOf(m, parent)
      BY <1>5, <1>6, <2>3 DEF isProperPrefixOf
    <3> parent \in DOMAIN new /\ isProperPrefixOf(parent, n)
      BY <1>5, <1>6, <1>7, <2>3 DEF isProperPrefixOf
    <3> QED  BY <1>8, <2>1, <2>3, ParentUnique
  <2> CASE n \notin kids /\ ~isProperPrefixOf(name, n)
    <3> ProperPrefixesIn(new, n) = ProperPrefixesIn(rib, n)
      BY DEF ProperPrefixesIn
    <3> QED  BY <1>8, <2>1 DEF findParent, Tree
  <2> CASE n \notin kids /\ isProperPrefixOf(name, n)
    <3> q # NoName /\ q # name
      BY <1>1, <1>3, <2>1, TreeParent
    <3> /\ q \in DOMAIN new /\ isProperPrefixOf(q, n)
        /\ \A m \in DOMAIN new : isProperPrefixOf(m, n) => isPrefixOf(m, q)
      BY <1>1, <2>1, TreeParent
    <3> QED  BY <1>8, <2>1, ParentUnique
  <2> QED  BY <2>2, <2>3
<1>11. ASSUME NEW n \in DOMAIN new
       PROVE  new[n].children = {c \in DOMAIN new : new[c].parent = n}
  <2> n \in DOMAIN rib /\ n # name /\ rib[n].children = {c \in DOMAIN rib : rib[c].parent = n}
    BY DEF Tree
  <2>1. CASE n = parent
    <3> \A c \in DOMAIN new : new[c].parent = n <=> c \in rib[n].children \/ c \in kids
      BY <1>8, <2>1
    <3> new[n].children = (rib[n].children \ {name}) \cup kids
      BY <1>8, <2>1
    <3> QED  BY <1>4, <1>7
  <2> CASE n # parent
    <3> \A c \in DOMAIN new : new[c].parent = n <=> c \in rib[n].children
      BY <1>3, <1>8
    <3> new[n].children = rib[n].children /\ name \notin rib[n].children
      BY <1>8 DEF parent
    <3> QED  OBVIOUS
  <2> QED  BY <2>1
<1> QED  BY <1>9, <1>10, <1>11 DEF Tree, new

-----------------------------------------------------------------------------
(* getAncestorRoutes                                                       *)

\* The entries, from n upwards, that give face f to what is below n.
Givers(rib, n, f) ==
  {a \in DOMAIN rib :
     /\ isPrefixOf(a, n)
     /\ f \in ChildInheritFaces(rib[a])
     /\ \A m \in DOMAIN rib : isPrefixOf(m, n) /\ isProperPrefixOf(a, m) => ~hasCapture(rib[m])}

\* The longest of some names of which each is a prefix of it or has it as a prefix.
Nearest(S) == CHOOSE a \in S : \A b \in S : isPrefixOf(b, a)

\* The value of getAncestorRoutes in closed form.
AncestorRoutes(rib) ==
  [n \in DOMAIN rib \cup {NoName} |->
     IF n = NoName THEN Nothing
     ELSE [f \in {g \in Faces : Givers(rib, n, g) # {}} |->
             rib[Nearest(Givers(rib, n, f))].routes[f].cost]]

\* One unfolding of the recursion in getAncestorRoutes.
AncestorStep(rib, up) ==
  [n \in DOMAIN rib \cup {NoName} |->
     IF n = NoName THEN Nothing
     ELSE LET own   == ChildInheritFaces(rib[n])
              above == IF hasCapture(rib[n]) THEN Nothing ELSE up[rib[n].parent]
          IN [f \in own \cup DOMAIN above |->
                IF f \in own THEN rib[n].routes[f].cost ELSE above[f]]]

\* One step of the recursion of getAncestorRoutes gives a function on the
\* entries.
LEMMA AncestorStepFunction ==
  ASSUME NEW rib, NEW up, NEW s, s = AncestorStep(rib, up)
  PROVE  DOMAIN s = DOMAIN rib \cup {NoName} /\ s = [n \in DOMAIN s |-> s[n]]
<1> DEFINE V(n) == IF n = NoName THEN Nothing
                   ELSE LET own   == ChildInheritFaces(rib[n])
                            above == IF hasCapture(rib[n]) THEN Nothing ELSE up[rib[n].parent]
                        IN [f \in own \cup DOMAIN above |->
                              IF f \in own THEN rib[n].routes[f].cost ELSE above[f]]
<1> s = [n \in DOMAIN rib \cup {NoName} |-> V(n)]
  BY DEF AncestorStep
<1> HIDE DEF V
<1> QED  OBVIOUS

\* Who gives a face at an entry: the entry itself, or those at its parent.
LEMMA GiversStep ==
  ASSUME LibraryFacts, NEW rib \in Ribs, Tree(rib), NEW n \in DOMAIN rib, NEW f
  PROVE  /\ f \in ChildInheritFaces(rib[n]) =>
              n \in Givers(rib, n, f) /\ Nearest(Givers(rib, n, f)) = n
         /\ f \notin ChildInheritFaces(rib[n]) =>
              Givers(rib, n, f) =
                IF hasCapture(rib[n]) \/ rib[n].parent = NoName THEN {}
                ELSE Givers(rib, rib[n].parent, f)
<1>1. DOMAIN rib \subseteq Names
  BY RibTypes
<1>2. ASSUME f \in ChildInheritFaces(rib[n])
      PROVE  n \in Givers(rib, n, f) /\ Nearest(Givers(rib, n, f)) = n
  <2> n \in Givers(rib, n, f)
    BY SMTT(60), <1>1, <1>2, NameOrder DEF Givers
  <2> \A b \in Givers(rib, n, f) : b \in DOMAIN rib /\ isPrefixOf(b, n)
    BY DEF Givers
  <2> \A a \in Givers(rib, n, f) : (\A b \in Givers(rib, n, f) : isPrefixOf(b, a)) => a = n
    BY <1>1, NameOrder
  <2> QED  BY DEF Nearest
<1>3. ASSUME f \notin ChildInheritFaces(rib[n]), NEW a \in DOMAIN rib
      PROVE  a \in Givers(rib, n, f) <=>
               ~hasCapture(rib[n]) /\ rib[n].parent # NoName /\ a \in Givers(rib, rib[n].parent, f)
  <2> ASSUME a \in Givers(rib, n, f)
      PROVE  ~hasCapture(rib[n]) /\ rib[n].parent # NoName /\ a \in Givers(rib, rib[n].parent, f)
    <3> isProperPrefixOf(a, n)
      BY <1>3 DEF Givers, isProperPrefixOf
    <3> ~hasCapture(rib[n])
      BY <1>1, NameOrder DEF Givers
    <3> /\ rib[n].parent # NoName /\ isPrefixOf(a, rib[n].parent)
        /\ \A m \in DOMAIN rib : isPrefixOf(m, rib[n].parent) => isPrefixOf(m, n)
      BY <1>1, TreeParent DEF isProperPrefixOf
    <3> QED  BY DEF Givers
  <2> ASSUME ~hasCapture(rib[n]), rib[n].parent # NoName, a \in Givers(rib, rib[n].parent, f)
      PROVE  a \in Givers(rib, n, f)
    <3> \A m \in DOMAIN rib : isPrefixOf(m, n) <=> m = n \/ isPrefixOf(m, rib[n].parent)
      BY <1>1, TreeParent, NameOrder DEF isProperPrefixOf
    <3> QED  BY DEF Givers
  <2> QED  OBVIOUS
<1> ASSUME f \notin ChildInheritFaces(rib[n])
    PROVE  Givers(rib, n, f) =
              IF hasCapture(rib[n]) \/ rib[n].parent = NoName THEN {}
              ELSE Givers(rib, rib[n].parent, f)
  <2> \A m, a : a \in Givers(rib, m, f) => a \in DOMAIN rib
    BY DEF Givers
  <2> QED  BY <1>3
<1> QED  BY <1>2

\* The closed form satisfies the recursion.
LEMMA AncestorsUnfold ==
  ASSUME LibraryFacts, NEW rib \in Ribs, Tree(rib)
  PROVE  AncestorRoutes(rib) = AncestorStep(rib, AncestorRoutes(rib))
<1> DEFINE h == AncestorRoutes(rib)
           s == AncestorStep(rib, h)
<1>1. DOMAIN rib \subseteq Names /\ \A n \in DOMAIN rib : rib[n] \in Entries
  BY RibTypes
<1>2. h[NoName] = Nothing /\ s[NoName] = Nothing
  BY DEF AncestorRoutes, AncestorStep
<1>3. ASSUME NEW n \in DOMAIN rib PROVE h[n] = s[n]
  <2> DEFINE own   == ChildInheritFaces(rib[n])
             above == IF hasCapture(rib[n]) THEN Nothing ELSE h[rib[n].parent]
             gives == {g \in Faces : Givers(rib, n, g) # {}}
  <2>1. n # NoName
    BY <1>1, NamesAssumption
  <2>2. h[n] = [f \in gives |-> rib[Nearest(Givers(rib, n, f))].routes[f].cost]
    BY <2>1 DEF AncestorRoutes
  <2>3. s[n] = [f \in own \cup DOMAIN above |->
                  IF f \in own THEN rib[n].routes[f].cost ELSE above[f]]
    BY <2>1 DEF AncestorStep
  <2>4. own \subseteq Faces
    BY <1>1, RouteMapTypes DEF ChildInheritFaces, Entries
  <2>5. CASE hasCapture(rib[n]) \/ rib[n].parent = NoName
    <3>1. above = Nothing
      BY <1>2, <2>5
    <3> gives = own /\ DOMAIN above = {}
      BY <2>4, <2>5, <3>1, GiversStep DEF Nothing
    <3> \A f \in own : Nearest(Givers(rib, n, f)) = n
      BY GiversStep
    <3> HIDE DEF own, above, gives, h, s
    <3> QED  BY SMTT(60), <2>2, <2>3
  <2>6. CASE ~hasCapture(rib[n]) /\ rib[n].parent # NoName
    <3> DEFINE p == rib[n].parent
    <3>1. p \in DOMAIN rib
      BY <1>1, <2>6, TreeParent
    <3>2. above = [f \in {g \in Faces : Givers(rib, p, g) # {}} |->
                     rib[Nearest(Givers(rib, p, f))].routes[f].cost]
      BY <2>6, <3>1 DEF AncestorRoutes
    <3>3. \A f \in Faces : f \in own => Nearest(Givers(rib, n, f)) = n /\ n \in Givers(rib, n, f)
      BY GiversStep
    <3> \A f \in Faces : f \notin own => Givers(rib, n, f) = Givers(rib, p, f)
      BY <2>6, GiversStep
    <3> DOMAIN above = {g \in Faces : Givers(rib, p, g) # {}}
      BY <3>2
    <3> gives = own \cup DOMAIN above
      BY <2>4, <3>3
    <3> \A f \in gives : rib[Nearest(Givers(rib, n, f))].routes[f].cost =
                           IF f \in own THEN rib[n].routes[f].cost ELSE above[f]
      <4> HIDE DEF own, above, p
      <4> QED  BY <3>2, <3>3
    <3> HIDE DEF own, above, gives, h, s
    <3> QED  BY <2>2, <2>3
  <2> QED  BY <2>5, <2>6
<1>4. DOMAIN h = DOMAIN rib \cup {NoName} /\ DOMAIN s = DOMAIN rib \cup {NoName}
  BY DEF AncestorRoutes, AncestorStep
<1> h = [n \in DOMAIN h |-> h[n]] /\ s = [n \in DOMAIN s |-> s[n]]
  <2> s = [n \in DOMAIN s |-> s[n]]
    BY AncestorStepFunction
  <2> DEFINE V(n) == IF n = NoName THEN Nothing
                     ELSE [f \in {g \in Faces : Givers(rib, n, g) # {}} |->
                             rib[Nearest(Givers(rib, n, f))].routes[f].cost]
  <2> h = [n \in DOMAIN rib \cup {NoName} |-> V(n)]
    BY DEF AncestorRoutes
  <2> HIDE DEF V, h, s
  <2> QED  OBVIOUS
<1> HIDE DEF h, s
<1> h = s
  BY <1>2, <1>3, <1>4
<1> QED  BY DEF h, s

\* Nothing else does.
LEMMA AncestorsUnique ==
  ASSUME LibraryFacts, NEW rib \in Ribs, Tree(rib),
         NEW g, g = AncestorStep(rib, g), NEW h, h = AncestorStep(rib, h)
  PROVE  g = h
<1> DEFINE D == {n \in DOMAIN rib : g[n] # h[n]}
           T == {Len(n) : n \in D}
<1>1. DOMAIN rib \subseteq Names
  BY RibTypes
<1>2. g[NoName] = Nothing /\ h[NoName] = Nothing
  BY DEF AncestorStep
<1>3. D = {}
  <2> SUFFICES ASSUME D # {} PROVE FALSE
    OBVIOUS
  <2>1. T \subseteq Nat /\ T # {}
    <3> \A n \in DOMAIN rib : Len(n) \in Nat
      BY <1>1, NameOrder
    <3> QED  OBVIOUS
  <2>2. PICK x \in T : \A y \in T : x <= y
    BY <2>1, LeastNat
  <2> PICK n \in D : x = Len(n)
    BY <2>2
  <2> DEFINE p == rib[n].parent
  <2>3. g[p] = h[p]
    <3>1. CASE p = NoName
      BY <1>2, <3>1
    <3>2. CASE p # NoName
      <4> p \in DOMAIN rib /\ isProperPrefixOf(p, n)
        BY <1>1, <3>2, TreeParent
      <4> Len(p) < Len(n) /\ Len(p) \in Nat /\ Len(n) \in Nat
        BY <1>1, NameOrder
      <4> p \in D => Len(n) <= Len(p)
        BY <2>2
      <4> QED  BY SMTT(60)
    <3> QED  BY <3>1, <3>2
  <2>4. n \in DOMAIN rib /\ n # NoName
    BY <1>1, NamesAssumption
  <2> DEFINE V(a) == LET own == ChildInheritFaces(rib[n])
                         above == IF hasCapture(rib[n]) THEN Nothing ELSE a
                     IN [f \in own \cup DOMAIN above |->
                           IF f \in own THEN rib[n].routes[f].cost ELSE above[f]]
  <2> g[n] = V(g[p]) /\ h[n] = V(h[p])
    BY <2>4 DEF AncestorStep
  <2> HIDE DEF V, p
  <2> g[n] = h[n]
    BY <2>3
  <2> QED  OBVIOUS
<1> \A n \in DOMAIN rib \cup {NoName} : g[n] = h[n]
  BY <1>2, <1>3
<1> DOMAIN g = DOMAIN rib \cup {NoName} /\ g = [n \in DOMAIN g |-> g[n]]
  BY SMTT(60), AncestorStepFunction
<1> DOMAIN h = DOMAIN rib \cup {NoName} /\ h = [n \in DOMAIN h |-> h[n]]
  BY SMTT(60), AncestorStepFunction
<1> QED  OBVIOUS

\* getAncestorRoutes computes the closed form.
LEMMA AncestorsAre ==
  ASSUME LibraryFacts, NEW rib \in Ribs, Tree(rib), NEW p
  PROVE  getAncestorRoutes(rib, p) = AncestorRoutes(rib)[p]
<1> DEFINE c == CHOOSE g : g = AncestorStep(rib, g)
<1>1. c = AncestorStep(rib, c)
  BY AncestorsUnfold
<1> c = AncestorRoutes(rib)
  BY <1>1, AncestorsUnfold, AncestorsUnique
<1> getAncestorRoutes(rib, p) = c[p]
  BY DEF getAncestorRoutes, AncestorStep
<1> QED  OBVIOUS

\* The nearest of a nonempty set of entries that give a face.
LEMMA NearestGiver ==
  ASSUME LibraryFacts,
         NEW rib \in Ribs, NEW n \in DOMAIN rib, NEW f, Givers(rib, n, f) # {}
  PROVE  Nearest(Givers(rib, n, f)) \in Givers(rib, n, f)
<1> DOMAIN rib \subseteq Names
  BY RibTypes
<1> Givers(rib, n, f) \subseteq Names /\ \A a \in Givers(rib, n, f) : isPrefixOf(a, n)
  BY DEF Givers
<1> \E a \in Givers(rib, n, f) : \A b \in Givers(rib, n, f) : isPrefixOf(b, a)
  BY LongestPrefix
<1> QED  BY DEF Nearest

\* The faces of getAncestorRoutes are those with a giver, and it gives costs.
LEMMA AncestorTypes ==
  ASSUME LibraryFacts, NEW rib \in Ribs, Tree(rib), NEW p \in DOMAIN rib \cup {NoName}
  PROVE  LET ancestors == getAncestorRoutes(rib, p)
         IN /\ IsCostMap(ancestors)
            /\ p = NoName => DOMAIN ancestors = {}
            /\ p # NoName => DOMAIN ancestors = {f \in Faces : Givers(rib, p, f) # {}}
<1>1. CASE p = NoName
  <2> getAncestorRoutes(rib, p) = Nothing
    BY <1>1, AncestorsAre DEF AncestorRoutes
  <2> QED  BY <1>1 DEF Nothing, IsCostMap
<1>2. CASE p # NoName
  <2> DEFINE gives == {f \in Faces : Givers(rib, p, f) # {}}
             costs == [f \in gives |-> rib[Nearest(Givers(rib, p, f))].routes[f].cost]
  <2>1. getAncestorRoutes(rib, p) = costs
    BY <1>2, AncestorsAre DEF AncestorRoutes
  <2>2. ASSUME NEW f \in gives PROVE costs[f] \in Nat
    <3> DEFINE a == Nearest(Givers(rib, p, f))
    <3> a \in DOMAIN rib /\ f \in ChildInheritFaces(rib[a])
      <4> a \in Givers(rib, p, f)
        BY <1>2, NearestGiver
      <4> QED  BY DEF Givers
    <3> rib[a].routes[f].cost \in Nat
      BY EntryTypes, RouteTypes
    <3> QED  OBVIOUS
  <2> HIDE DEF costs
  <2> DOMAIN costs = gives
    BY DEF costs
  <2> IsCostMap(costs)
    BY <2>2 DEF IsCostMap
  <2> QED  BY <1>2, <2>1
<1> QED  BY <1>1, <1>2

-----------------------------------------------------------------------------
(* computeUpdates                                                          *)

\* What traverseSubTree removes and adds.
RemovedBelow(rib, children, toRemove) ==
  UNION {RemoveUpdates(n, {f \in toRemove \cap Reached(rib, children)[n] :
                             hasInheritedRoute(rib[n], f)}) : n \in DOMAIN rib}

\* What modifyChildrensInheritedRoutes adds below some children.
AddedBelow(rib, children, toAdd) ==
  UNION {AddUpdates(n, Restrict(toAdd,
           (DOMAIN toAdd \cap Reached(rib, children)[n]) \ DOMAIN rib[n].routes)) : n \in DOMAIN rib}

\* What traverseSubTree removes: one update for each entry and face it
\* reaches with an inherited route to remove.
LEMMA RemovedBelowType ==
  ASSUME NEW rib \in Ribs, NEW children, NEW toRemove, toRemove \subseteq Faces
  PROVE  LET removed == RemovedBelow(rib, children, toRemove)
         IN /\ removed \subseteq FibUpdates /\ OneForEach(removed)
            /\ \A x : x \in removed <=>
                 /\ x = [action |-> "remove", name |-> x.name, face |-> x.face, cost |-> 0]
                 /\ x.name \in DOMAIN rib
                 /\ x.face \in toRemove \cap Reached(rib, children)[x.name]
                 /\ hasInheritedRoute(rib[x.name], x.face)
<1> DEFINE Some(n) == {f \in toRemove \cap Reached(rib, children)[n] : hasInheritedRoute(rib[n], f)}
           removed == RemovedBelow(rib, children, toRemove)
<1>1. \A x : x \in removed <=> \E n \in DOMAIN rib : x \in RemoveUpdates(n, Some(n))
  BY DEF RemovedBelow
<1>2. \A n, x : x \in RemoveUpdates(n, Some(n)) <=>
        \E f \in Some(n) : x = [action |-> "remove", name |-> n, face |-> f, cost |-> 0]
  BY DEF RemoveUpdates
<1>3. \A n : Some(n) \subseteq Faces
  OBVIOUS
<1>4. DOMAIN rib \subseteq Names
  BY RibTypes
<1>5. \A n, f : f \in Some(n) <=>
        f \in toRemove \cap Reached(rib, children)[n] /\ hasInheritedRoute(rib[n], f)
  OBVIOUS
<1> HIDE DEF removed, Some
<1> \A x : x \in removed <=>
      \E n \in DOMAIN rib : \E f \in Some(n) : x = [action |-> "remove", name |-> n, face |-> f, cost |-> 0]
  BY <1>1, <1>2
<1> \A x : x \in removed <=>
      /\ x = [action |-> "remove", name |-> x.name, face |-> x.face, cost |-> 0]
      /\ x.name \in DOMAIN rib
      /\ x.face \in Some(x.name)
  BY SMTT(60)
<1> removed \subseteq FibUpdates
  BY SMTT(60), <1>3, <1>4 DEF FibUpdates
<1> OneForEach(removed)
  BY SMTT(60) DEF OneForEach
<1> QED  BY <1>5 DEF removed

\* What traverseSubTree adds: one update for each entry and face it reaches
\* with a route to add that hides no route of the entry.
LEMMA AddedBelowType ==
  ASSUME NEW rib \in Ribs, NEW children, NEW toAdd, IsCostMap(toAdd)
  PROVE  LET added == AddedBelow(rib, children, toAdd)
         IN /\ added \subseteq FibUpdates /\ OneForEach(added)
            /\ \A x : x \in added <=>
                 /\ x = [action |-> "add", name |-> x.name, face |-> x.face, cost |-> toAdd[x.face]]
                 /\ x.name \in DOMAIN rib
                 /\ x.face \in DOMAIN toAdd \cap Reached(rib, children)[x.name]
                 /\ x.face \notin DOMAIN rib[x.name].routes
<1> DEFINE Some(n) == (DOMAIN toAdd \cap Reached(rib, children)[n]) \ DOMAIN rib[n].routes
           added == AddedBelow(rib, children, toAdd)
<1>1. \A x : x \in added <=> \E n \in DOMAIN rib : x \in AddUpdates(n, Restrict(toAdd, Some(n)))
  BY DEF AddedBelow
<1>2. \A n, f : f \in Some(n) <=>
        f \in DOMAIN toAdd \cap Reached(rib, children)[n] /\ f \notin DOMAIN rib[n].routes
  OBVIOUS
<1>3. \A n : Some(n) \subseteq DOMAIN toAdd
  OBVIOUS
<1>4. DOMAIN rib \subseteq Names
  BY RibTypes
<1> HIDE DEF added, Some
<1>5. \A n, x : x \in AddUpdates(n, Restrict(toAdd, Some(n))) <=>
        \E f \in Some(n) : x = [action |-> "add", name |-> n, face |-> f, cost |-> toAdd[f]]
  BY DEF AddUpdates, Restrict
<1> \A x : x \in added <=>
      \E n \in DOMAIN rib : \E f \in Some(n) : x = [action |-> "add", name |-> n, face |-> f, cost |-> toAdd[f]]
  BY SMTT(60), <1>1, <1>5
<1> \A x : x \in added <=>
      /\ x = [action |-> "add", name |-> x.name, face |-> x.face, cost |-> toAdd[x.face]]
      /\ x.name \in DOMAIN rib
      /\ x.face \in Some(x.name)
  BY SMTT(60)
<1> added \subseteq FibUpdates
  BY SMTT(60), <1>3, <1>4 DEF FibUpdates, IsCostMap
<1> OneForEach(added)
  BY SMTT(60) DEF OneForEach
<1> QED  BY <1>2 DEF added

\* modifyChildrensInheritedRoutes keeps the lists sorted.
LEMMA ChildrenType ==
  ASSUME NEW rib \in Ribs, NEW children, NEW u \in Updaters,
         NEW toAdd, IsCostMap(toAdd), NEW toRemove, toRemove \subseteq Faces
  PROVE  LET v == modifyChildrensInheritedRoutes(rib, children, toAdd, toRemove, u)
         IN /\ v \in Updaters
            /\ v = modifyInherited(modifyInherited(u, RemovedBelow(rib, children, toRemove)),
                                   AddedBelow(rib, children, toAdd))
<1> modifyChildrensInheritedRoutes(rib, children, toAdd, toRemove, u) =
      modifyInherited(modifyInherited(u, RemovedBelow(rib, children, toRemove)),
                      AddedBelow(rib, children, toAdd))
  BY DEF modifyChildrensInheritedRoutes, RemovedBelow, AddedBelow
<1> modifyInherited(u, RemovedBelow(rib, children, toRemove)) \in Updaters
  BY RemovedBelowType, ModifyInheritedType
<1> QED  BY SMTT(60), AddedBelowType, ModifyInheritedType

\* createFibUpdatesForNewRibEntry keeps the lists sorted.
LEMMA NewRibEntryType ==
  ASSUME LibraryFacts, NEW rib \in Ribs, Tree(rib), NEW name \in Names, NEW f \in Faces,
         NEW route \in Routes, NEW u \in Updaters
  PROVE  createFibUpdatesForNewRibEntry(rib, name, f, route, u) \in Updaters
<1> DEFINE parent    == findParent(rib, name)
           children  == {n \in findDescendants(rib, name) : rib[n].parent = parent}
           ancestors == getAncestorRoutes(rib, parent)
           u1        == addFibUpdates(u, AddUpdates(name, Single(f, route.cost)))
           u2        == IF route.cap THEN u1 ELSE addInheritedRoutes(u1, name, ancestors, {f})
           toAdd     == CASE ~route.ci             -> Nothing
                          [] route.ci /\ route.cap -> Single(f, route.cost)
                          [] OTHER -> [x \in DOMAIN ancestors \cup {f} |->
                                         IF x = f THEN route.cost ELSE ancestors[x]]
           toRemove  == IF route.cap THEN DOMAIN ancestors ELSE {}
<1>1. DOMAIN rib \subseteq Names /\ route.cost \in Nat
  BY RibTypes, RouteTypes
<1>2. parent \in DOMAIN rib \cup {NoName}
  BY <1>1, ParentIs
<1>3. IsCostMap(ancestors)
  BY <1>2, AncestorTypes
<1>4. IsCostMap(Single(f, route.cost))
  BY <1>1, SingleType
<1>5. u1 \in Updaters
  BY SMTT(60), <1>4, AddUpdatesType, AddFibUpdatesType
<1> HIDE DEF parent, ancestors, u1
<1>6. u2 \in Updaters
  BY <1>3, <1>5, AddInheritedType
<1>7. IsCostMap([x \in DOMAIN ancestors \cup {f} |-> IF x = f THEN route.cost ELSE ancestors[x]])
  BY <1>1, <1>3 DEF IsCostMap
<1>8. IsCostMap(toAdd)
  BY <1>4, <1>7, NothingType, RouteTypes
<1> toRemove \subseteq Faces
  BY <1>3 DEF IsCostMap
<1> HIDE DEF u2, toAdd, toRemove
<1> modifyChildrensInheritedRoutes(rib, children, toAdd, toRemove, u2) \in Updaters
  BY <1>6, <1>8, ChildrenType
<1> QED  BY DEF createFibUpdatesForNewRibEntry, parent, ancestors, u1, u2, toAdd,
            toRemove

\* createFibUpdatesForNewRoute keeps the lists sorted.
LEMMA NewRouteType ==
  ASSUME LibraryFacts,
         NEW rib \in Ribs, Tree(rib), NEW name \in DOMAIN rib, NEW f \in Faces,
         NEW route \in Routes, NEW u \in Updaters
  PROVE  createFibUpdatesForNewRoute(rib, name, f, route, u) \in Updaters
<1> DEFINE entry == rib[name]
           captureWasTurnedOn == ~hasCapture(entry) /\ route.cap
           toAdd    == IF route.ci THEN Single(f, route.cost) ELSE Nothing
           toRemove == IF captureWasTurnedOn
                         THEN DOMAIN getAncestorRoutes(rib, entry.parent) ELSE {}
           u1 == removeInheritedRoutes(u, name, entry, toRemove)
           u2 == modifyChildrensInheritedRoutes(rib, entry.children, toAdd, toRemove, u1)
<1> DOMAIN rib \subseteq Names /\ name \in Names /\ route.cost \in Nat
  BY RibTypes, RouteTypes
<1>1. entry.parent \in DOMAIN rib \cup {NoName}
  BY TreeParent
<1>2. IsCostMap(getAncestorRoutes(rib, entry.parent))
  BY <1>1, AncestorTypes
<1>3. IsCostMap(Single(f, route.cost))
  BY SingleType
<1> toRemove \subseteq Faces /\ IsCostMap(toAdd)
  BY <1>2, <1>3, NothingType DEF IsCostMap
<1> HIDE DEF toAdd, toRemove
<1>4. u1 \in Updaters
  BY RemoveInheritedType
<1> HIDE DEF u1
<1> u2 \in Updaters
  BY <1>4, ChildrenType
<1> HIDE DEF u2
<1> addFibUpdates(u2, AddUpdates(name, Single(f, route.cost))) \in Updaters
  BY SMTT(60), <1>3, AddUpdatesType, AddFibUpdatesType
<1> QED  BY DEF createFibUpdatesForNewRoute, u1, u2, toAdd, toRemove

\* createFibUpdatesForUpdatedRoute keeps the lists sorted.
LEMMA UpdatedRouteType ==
  ASSUME LibraryFacts,
         NEW rib \in Ribs, Tree(rib), NEW name \in DOMAIN rib, NEW f \in Faces,
         f \in DOMAIN rib[name].routes, NEW route \in Routes, NEW u \in Updaters
  PROVE  createFibUpdatesForUpdatedRoute(rib, name, f, route, u) \in Updaters
<1> DEFINE entry     == rib[name]
           existing  == entry.routes[f]
           ancestors == getAncestorRoutes(rib, entry.parent)
           self      == Single(f, route.cost)
           hidden    == Restrict(ancestors, DOMAIN ancestors \cap {f})
           sameFlags == route.ci = existing.ci /\ route.cap = existing.cap
           Children(toAdd, toRemove, acc) ==
             modifyChildrensInheritedRoutes(rib, entry.children, toAdd, toRemove, acc)
           u1 == IF route.cost # existing.cost THEN addFibUpdates(u, AddUpdates(name, self)) ELSE u
           u2 == CASE route.ci /\ ~existing.ci -> Children(self, {}, u1)
                   [] ~route.ci /\ existing.ci -> Children(hidden, {f}, u1)
                   [] OTHER -> u1
           u3 == CASE route.cap /\ ~existing.cap ->
                        Children(Nothing, DOMAIN ancestors,
                                 removeInheritedRoutes(u2, name, entry, DOMAIN ancestors))
                   [] ~route.cap /\ existing.cap ->
                        Children(ancestors, {},
                                 addInheritedRoutes(u2, name, ancestors, DOMAIN entry.routes))
                   [] OTHER -> u2
<1>1. DOMAIN rib \subseteq Names /\ name \in Names /\ route.cost \in Nat
  BY RibTypes, RouteTypes
<1>2. entry.parent \in DOMAIN rib \cup {NoName}
  BY <1>1, TreeParent
<1>3. IsCostMap(ancestors)
  BY <1>2, AncestorTypes
<1>4. IsCostMap(self) /\ IsCostMap(hidden) /\ IsCostMap(Nothing)
  BY <1>1, <1>3, SingleType, NothingType DEF IsCostMap, Restrict
<1>5. {} \subseteq Faces /\ {f} \subseteq Faces /\ DOMAIN ancestors \subseteq Faces
  BY <1>3 DEF IsCostMap
<1> HIDE DEF self, hidden, ancestors
<1>6. u1 \in Updaters
  BY <1>1, <1>4, AddUpdatesType, AddFibUpdatesType
<1> HIDE DEF u1
<1>7. Children(self, {}, u1) \in Updaters /\ Children(hidden, {f}, u1) \in Updaters
  BY <1>4, <1>5, <1>6, ChildrenType
<1> HIDE DEF Children
<1> u2 \in Updaters
  BY <1>6, <1>7
<1> HIDE DEF u2
<1>8. /\ removeInheritedRoutes(u2, name, entry, DOMAIN ancestors) \in Updaters
      /\ addInheritedRoutes(u2, name, ancestors, DOMAIN entry.routes) \in Updaters
  BY <1>1, <1>3, <1>5, AddInheritedType, RemoveInheritedType
<1> u3 \in Updaters
  BY <1>3, <1>4, <1>5, <1>8, ChildrenType DEF Children
<1> HIDE DEF u3
<1> createFibUpdatesForUpdatedRoute(rib, name, f, route, u) =
      CASE sameFlags /\ route.cost = existing.cost -> u
        [] sameFlags /\ route.cost # existing.cost /\ route.ci -> Children(self, {}, u1)
        [] OTHER -> u3
  BY DEF createFibUpdatesForUpdatedRoute, self, hidden, ancestors, u1, u2, u3, Children
<1> QED  BY <1>7

\* createFibUpdatesForErasedRoute keeps the lists sorted.
LEMMA ErasedRouteType ==
  ASSUME LibraryFacts,
         NEW rib \in Ribs, Tree(rib), NEW name \in DOMAIN rib, NEW f \in Faces, NEW u \in Updaters
  PROVE  createFibUpdatesForErasedRoute(rib, name, f, u) \in Updaters
<1> DEFINE route == rib[name].routes[f]
           temp  == WithoutRoute(rib[name], f)
           captureWasTurnedOff == hasCapture(rib[name]) /\ ~hasCapture(temp)
           ancestors == getAncestorRoutes(rib, temp.parent)
           blocked   == route.cap /\ captureWasTurnedOff
           toAdd     == IF blocked \/ (route.ci /\ ~route.cap /\ ~hasCapture(temp))
                          THEN ancestors ELSE Nothing
           toRemove  == IF route.ci THEN {f} ELSE {}
           u1 == addFibUpdates(u, RemoveUpdates(name, {f}))
           u2 == IF blocked THEN addInheritedRoutes(u1, name, ancestors, DOMAIN temp.routes)
                            ELSE u1
           u3 == modifyChildrensInheritedRoutes(rib, temp.children, toAdd, toRemove, u2)
<1> DOMAIN rib \subseteq Names /\ name \in Names /\ rib[name] \in Entries
  BY RibTypes
<1>1. temp.parent = rib[name].parent
  BY DEF WithoutRoute, Entries
<1>2. temp.parent \in DOMAIN rib \cup {NoName}
  BY <1>1, TreeParent
<1>3. IsCostMap(ancestors)
  BY <1>2, AncestorTypes
<1>4. u1 \in Updaters
  BY SMTT(60), RemoveUpdatesType, AddFibUpdatesType
<1> HIDE DEF ancestors, temp, u1
<1>5. u2 \in Updaters
  BY <1>3, <1>4, AddInheritedType
<1>6. IsCostMap(toAdd) /\ toRemove \subseteq Faces
  BY <1>3, NothingType
<1> HIDE DEF u2, toAdd, toRemove
<1> u3 \in Updaters
  BY <1>5, <1>6, ChildrenType
<1> HIDE DEF u3
<1> f \in DOMAIN ancestors =>
      modifyInherited(u3, AddUpdates(name, Single(f, ancestors[f]))) \in Updaters
  BY SMTT(60), <1>3, SingleType, AddUpdatesType, ModifyInheritedType DEF IsCostMap
<1> createFibUpdatesForErasedRoute(rib, name, f, u) =
      IF InheritsAgain(temp) /\ f \in DOMAIN ancestors
        THEN modifyInherited(u3, AddUpdates(name, Single(f, ancestors[f])))
        ELSE u3
  BY DEF createFibUpdatesForErasedRoute, ancestors, temp, u1, u2, u3, toAdd, toRemove
<1> QED  OBVIOUS

\* The updates of a RIB (class RibUpdate).
Updates ==
  [action : {"register", "unregister", "remove_face"}, name : Names, face : Faces,
   route : Routes \cup {NoRoute}, id : 0 .. MaxRequests]

\* A registration has a route.
GoodUpdates == {w \in Updates : w.action = "register" => w.route \in Routes}

\* computeUpdates gives sorted lists, for every update of every tree.
LEMMA ComputeUpdatesType ==
  ASSUME LibraryFacts, NEW rib \in Ribs, Tree(rib), NEW w \in GoodUpdates
  PROVE  computeUpdates(rib, w) \in Updaters
<1>1. w.name \in Names /\ w.face \in Faces /\ w.action \in {"register", "unregister", "remove_face"}
  BY DEF GoodUpdates, Updates
<1>2. NoUpdates(w.face) \in Updaters
  BY <1>1, NoUpdatesType
<1>3. ASSUME w.action = "register"
      PROVE  computeUpdatesForRegistration(rib, w.name, w.face, w.route) \in Updaters
  <2> w.route \in Routes
    BY <1>3 DEF GoodUpdates
  <2> QED  BY <1>1, <1>2, NewRibEntryType, NewRouteType, UpdatedRouteType DEF
              computeUpdatesForRegistration
<1>4. computeUpdatesForUnregistration(rib, w.name, w.face) \in Updaters
  <2> DEFINE u == createFibUpdatesForErasedRoute(rib, w.name, w.face, NoUpdates(w.face))
  <2> HasRoute(rib, w.name, w.face) => u \in Updaters
    BY <1>1, <1>2, ErasedRouteType DEF HasRoute
  <2> HIDE DEF u
  <2> HasRoute(rib, w.name, w.face) =>
        createFibUpdatesForErasedRibEntry(w.name, rib[w.name], u) \in Updaters
    BY <1>1, RemoveUpdatesType, AddFibUpdatesType DEF createFibUpdatesForErasedRibEntry
  <2> QED  BY <1>2 DEF computeUpdatesForUnregistration, u
<1>5. ASSUME NEW u \in Updaters PROVE [u EXCEPT !.batch = {}] \in Updaters
  <2> u \in UpdaterRecords
    BY DEF Updaters
  <2> [u EXCEPT !.batch = {}] \in UpdaterRecords
    BY DEF UpdaterRecords
  <2> /\ [u EXCEPT !.batch = {}].batch = {} /\ [u EXCEPT !.batch = {}].other = u.other
      /\ [u EXCEPT !.batch = {}].face = u.face
    BY DEF UpdaterRecords
  <2> QED  BY DEF Updaters, OneForEach
<1> QED  BY <1>1, <1>3, <1>4, <1>5 DEF computeUpdates

-----------------------------------------------------------------------------
(* insert and erase                                                        *)

\* A new entry has no routes, and the others keep theirs.
LEMMA InsertEntryRoutes ==
  ASSUME LibraryFacts,
         NEW rib \in Ribs, Tree(rib), NEW name \in Names, name \notin DOMAIN rib
  PROVE  LET new == InsertEntry(rib, name)
         IN /\ DOMAIN new = DOMAIN rib \cup {name}
            /\ new[name].routes = Nothing
            /\ new[name].capture = 0
            /\ new[name].inherited = [f \in Faces |-> 0]
            /\ \A n \in DOMAIN rib : /\ new[n].routes = rib[n].routes
                                     /\ new[n].capture = rib[n].capture
                                     /\ new[n].inherited = rib[n].inherited
            /\ new[name].children = {n \in findDescendants(rib, name) :
                                       rib[n].parent = findParent(rib, name)}
<1> DEFINE parent  == findParent(rib, name)
           adopted == {n \in findDescendants(rib, name) : rib[n].parent = parent}
           new     == InsertEntry(rib, name)
           entry   == [routes |-> Nothing, inherited |-> [f \in Faces |-> 0],
                       capture |-> 0, parent |-> parent, children |-> adopted]
<1>1. new = [n \in DOMAIN rib \cup {name} |->
        CASE n = name     -> entry
          [] n \in adopted -> [rib[n] EXCEPT !.parent = name]
          [] n = parent   -> [rib[n] EXCEPT !.children = (@ \ adopted) \cup {name}]
          [] OTHER        -> rib[n]]
  BY DEF InsertEntry
<1>2. \A n \in DOMAIN rib : rib[n] \in Entries
  BY RibTypes
<1>3. name \notin adopted /\ name # parent
  BY RibTypes, ParentIs, NamesAssumption DEF findDescendants
<1> HIDE DEF new, adopted, parent, entry
<1>4. new[name] = entry /\ DOMAIN new = DOMAIN rib \cup {name}
  BY <1>1, <1>3
<1>5. ASSUME NEW n \in DOMAIN rib
      PROVE  /\ new[n].routes = rib[n].routes
             /\ new[n].capture = rib[n].capture
             /\ new[n].inherited = rib[n].inherited
  <2>1. \/ new[n] = [rib[n] EXCEPT !.parent = name]
        \/ new[n] = [rib[n] EXCEPT !.children = (@ \ adopted) \cup {name}]
        \/ new[n] = rib[n]
    BY SMTT(60), <1>1
  <2> rib[n] \in Entries
    BY <1>2
  <2> CASE new[n] = [rib[n] EXCEPT !.parent = name]
    BY DEF Entries
  <2> CASE new[n] = [rib[n] EXCEPT !.children = (@ \ adopted) \cup {name}]
    BY DEF Entries
  <2> QED  BY <2>1
<1> QED  BY SMTT(60), <1>4, <1>5 DEF new, adopted, parent, entry

\* Rib::eraseEntry leaves the routes of the other entries.
LEMMA EraseEntryRoutes ==
  ASSUME NEW rib \in Ribs, NEW name \in DOMAIN rib
  PROVE  LET new == eraseEntry(rib, name)
         IN /\ DOMAIN new = DOMAIN rib \ {name}
            /\ \A n \in DOMAIN new : /\ new[n].routes = rib[n].routes
                                     /\ new[n].capture = rib[n].capture
                                     /\ new[n].inherited = rib[n].inherited
<1> DEFINE parent == rib[name].parent
           kids   == rib[name].children
           new    == eraseEntry(rib, name)
<1>1. new = [n \in DOMAIN rib \ {name} |->
        CASE n \in kids -> [rib[n] EXCEPT !.parent = parent]
          [] n = parent -> [rib[n] EXCEPT !.children = (@ \ {name}) \cup kids]
          [] OTHER      -> rib[n]]
  BY DEF eraseEntry
<1>2. \A n \in DOMAIN rib : rib[n] \in Entries
  BY RibTypes
<1> DOMAIN new = DOMAIN rib \ {name}
  BY <1>1
<1> HIDE DEF new, kids, parent
<1>3. ASSUME NEW n \in DOMAIN new
      PROVE  /\ new[n].routes = rib[n].routes
             /\ new[n].capture = rib[n].capture
             /\ new[n].inherited = rib[n].inherited
  <2> \/ new[n] = [rib[n] EXCEPT !.parent = parent]
      \/ new[n] = [rib[n] EXCEPT !.children = (@ \ {name}) \cup kids]
      \/ new[n] = rib[n]
    BY SMTT(60), <1>1
  <2> QED  BY <1>2 DEF Entries
<1> QED  BY <1>3 DEF new

\* An entry of a tree replaced by one with the same place in it.
LEMMA ReplaceEntry ==
  ASSUME NEW rib \in Ribs, Tree(rib), NEW name \in DOMAIN rib, NEW entry \in Entries,
         entry.parent = rib[name].parent, entry.children = rib[name].children
  PROVE  [rib EXCEPT ![name] = entry] \in Ribs /\ Tree([rib EXCEPT ![name] = entry])
<1> DEFINE new == [rib EXCEPT ![name] = entry]
<1> rib = [n \in DOMAIN rib |-> rib[n]] /\ DOMAIN rib \subseteq Names
    /\ \A n \in DOMAIN rib : rib[n] \in Entries
  BY RibTypes
<1> /\ DOMAIN new = DOMAIN rib
    /\ new = [n \in DOMAIN rib |-> new[n]]
    /\ \A n \in DOMAIN rib : new[n] = IF n = name THEN entry ELSE rib[n]
  OBVIOUS
<1> HIDE DEF new
<1> new \in Ribs
  BY RibTypes
<1> Tree(new)
  BY SMTT(60), SameTree
<1> QED  BY DEF new

\* Rib::insert on the tree.
InsertRoute(rib0, name, f, route) ==
  LET rib   == IF name \in DOMAIN rib0 THEN rib0 ELSE InsertEntry(rib0, name)
      isNew == f \notin DOMAIN rib[name].routes
      entry == SetRoute(rib[name], f, route)
  IN [rib EXCEPT ![name] = IF isNew /\ route.cap THEN [entry EXCEPT !.capture = @ + 1] ELSE entry]

\* The entries after Rib::insert.
Inserted(new, rib, name, f, route) ==
  LET old == IF name \in DOMAIN rib THEN DOMAIN rib[name].routes ELSE {}
  IN /\ DOMAIN new = DOMAIN rib \cup {name}
     /\ \A n \in DOMAIN rib : /\ new[n].inherited = rib[n].inherited
                              /\ n # name => /\ new[n].routes = rib[n].routes
                                             /\ new[n].capture = rib[n].capture
     /\ DOMAIN new[name].routes = old \cup {f}
     /\ \A g \in old \cup {f} :
          new[name].routes[g] = IF g = f THEN route ELSE rib[name].routes[g]
     /\ ~route.cap => new[name].capture = IF name \in DOMAIN rib THEN rib[name].capture ELSE 0
     /\ name \notin DOMAIN rib => new[name].inherited = [g \in Faces |-> 0]

\* Rib::insert keeps the tree, and its effect on the routes is Inserted.
LEMMA InsertRouteRib ==
  ASSUME LibraryFacts,
         NEW rib \in Ribs, Tree(rib), NEW name \in Names, NEW f \in Faces, NEW route \in Routes
  PROVE  LET new == InsertRoute(rib, name, f, route)
         IN new \in Ribs /\ Tree(new) /\ Inserted(new, rib, name, f, route)
<1> DEFINE mid   == IF name \in DOMAIN rib THEN rib ELSE InsertEntry(rib, name)
           isNew == f \notin DOMAIN mid[name].routes
           set   == SetRoute(mid[name], f, route)
           entry == IF isNew /\ route.cap THEN [set EXCEPT !.capture = @ + 1] ELSE set
           new   == InsertRoute(rib, name, f, route)
           old   == IF name \in DOMAIN rib THEN DOMAIN rib[name].routes ELSE {}
<1>1. mid \in Ribs /\ Tree(mid)
  BY InsertTree
<1>2. /\ DOMAIN mid = DOMAIN rib \cup {name}
      /\ \A n \in DOMAIN rib : /\ mid[n].inherited = rib[n].inherited
                               /\ mid[n].routes = rib[n].routes
                               /\ mid[n].capture = rib[n].capture
      /\ DOMAIN mid[name].routes = old
      /\ mid[name].capture = IF name \in DOMAIN rib THEN rib[name].capture ELSE 0
      /\ name \notin DOMAIN rib => mid[name].inherited = [g \in Faces |-> 0]
  BY InsertEntryRoutes DEF Nothing
<1>3. new = [mid EXCEPT ![name] = entry]
  BY DEF InsertRoute
<1> HIDE DEF mid, new, old
<1>4. mid[name] \in Entries
  BY <1>1, <1>2, RibTypes
<1> DEFINE routes == [x \in old \cup {f} |-> IF x = f THEN route ELSE mid[name].routes[x]]
<1>5. routes \in RouteMaps
  <2> /\ DOMAIN routes \subseteq Faces
      /\ \A g \in DOMAIN routes : routes[g] \in Routes
    BY <1>1, <1>2, EntryTypes
  <2> routes = [g \in DOMAIN routes |-> routes[g]]
    OBVIOUS
  <2> HIDE DEF routes
  <2> QED  BY RouteMapTypes
<1>6. set = [mid[name] EXCEPT !.routes = routes]
  BY <1>2 DEF SetRoute
<1>7. DOMAIN routes = old \cup {f} /\ \A g \in old \cup {f} :
        routes[g] = IF g = f THEN route ELSE mid[name].routes[g]
  OBVIOUS
<1> HIDE DEF routes, set
<1>8. /\ entry \in Entries
      /\ entry.parent = mid[name].parent /\ entry.children = mid[name].children
      /\ entry.inherited = mid[name].inherited /\ entry.routes = routes
      /\ ~route.cap => entry.capture = mid[name].capture
  <2> /\ set \in Entries
      /\ set.parent = mid[name].parent /\ set.children = mid[name].children
      /\ set.inherited = mid[name].inherited /\ set.routes = routes
      /\ set.capture = mid[name].capture
    BY <1>4, <1>5, <1>6 DEF Entries
  <2> LET e == [set EXCEPT !.capture = @ + 1]
      IN /\ e \in Entries
         /\ e.parent = set.parent /\ e.children = set.children
         /\ e.inherited = set.inherited /\ e.routes = set.routes
    BY SMTT(60) DEF Entries
  <2> QED  OBVIOUS
<1> HIDE DEF entry
<1>9. new \in Ribs /\ Tree(new)
  BY <1>1, <1>2, <1>3, <1>8, ReplaceEntry
<1> DOMAIN new = DOMAIN mid /\ \A n \in DOMAIN mid : new[n] = IF n = name THEN entry ELSE mid[n]
  <2> mid = [n \in DOMAIN mid |-> mid[n]]
    BY <1>1, RibTypes
  <2> QED  BY <1>3
<1> /\ \A n \in DOMAIN rib : /\ new[n].inherited = rib[n].inherited
                             /\ n # name => /\ new[n].routes = rib[n].routes
                                            /\ new[n].capture = rib[n].capture
    /\ new[name].routes = routes
    /\ ~route.cap => new[name].capture = mid[name].capture
    /\ new[name].inherited = mid[name].inherited
  BY <1>2, <1>8
<1> \A g \in old \cup {f} :
      new[name].routes[g] = IF g = f THEN route ELSE rib[name].routes[g]
  BY <1>2, <1>7 DEF old
<1> Inserted(new, rib, name, f, route)
  BY <1>2, <1>7 DEF Inserted, old
<1> QED  BY <1>9 DEF new

\* Rib::erase on the tree.
EraseRoute(rib, name, f) ==
  LET rest == WithoutRoute(rib[name], f)
      new  == [rib EXCEPT ![name] = rest]
  IN IF rest.routes = Nothing THEN eraseEntry(new, name) ELSE new

\* The entry without one of its routes.
LEMMA WithoutRouteEntry ==
  ASSUME NEW rib \in Ribs, NEW name \in DOMAIN rib, NEW f \in DOMAIN rib[name].routes
  PROVE  LET rest == WithoutRoute(rib[name], f)
             left == DOMAIN rib[name].routes \ {f}
         IN /\ rest \in Entries
            /\ rest.parent = rib[name].parent /\ rest.children = rib[name].children
            /\ rest.inherited = rib[name].inherited
            /\ rest.routes = [g \in left |-> rib[name].routes[g]]
            /\ ~rib[name].routes[f].cap => rest.capture = rib[name].capture
            /\ rest.routes = Nothing <=> left = {}
<1> DEFINE rest   == WithoutRoute(rib[name], f)
           left   == DOMAIN rib[name].routes \ {f}
           routes == [g \in left |-> rib[name].routes[g]]
           capture == IF rib[name].routes[f].cap THEN rib[name].capture - 1 ELSE rib[name].capture
<1>1. rib[name] \in Entries
  BY RibTypes
<1>2. rest = [rib[name] EXCEPT !.routes = routes, !.capture = capture]
  BY <1>1 DEF WithoutRoute, Restrict, Entries
<1>3. capture \in Int
  BY SMTT(60), EntryTypes
<1>4. routes \in RouteMaps
  <2> DOMAIN routes \subseteq Faces /\ \A g \in DOMAIN routes : routes[g] \in Routes
    BY EntryTypes
  <2> routes = [g \in DOMAIN routes |-> routes[g]]
    OBVIOUS
  <2> HIDE DEF routes
  <2> QED  BY RouteMapTypes
<1>5. routes = Nothing <=> left = {}
  <2> DOMAIN routes = left /\ DOMAIN Nothing = {}
    BY DEF Nothing
  <2> left = {} => routes = Nothing
    BY DEF Nothing
  <2> HIDE DEF routes
  <2> QED  OBVIOUS
<1> ~rib[name].routes[f].cap => capture = rib[name].capture
  OBVIOUS
<1> HIDE DEF routes, capture, rest
<1> /\ rest \in Entries
    /\ rest.parent = rib[name].parent /\ rest.children = rib[name].children
    /\ rest.inherited = rib[name].inherited
    /\ rest.routes = routes /\ rest.capture = capture
  BY <1>1, <1>2, <1>3, <1>4 DEF Entries
<1> QED  BY <1>5 DEF routes, rest

\* The entries after Rib::erase.
Erased(new, rib, name, f) ==
  LET left == DOMAIN rib[name].routes \ {f}
  IN /\ DOMAIN new = IF left = {} THEN DOMAIN rib \ {name} ELSE DOMAIN rib
     /\ \A n \in DOMAIN new : /\ new[n].inherited = rib[n].inherited
                              /\ n # name => /\ new[n].routes = rib[n].routes
                                             /\ new[n].capture = rib[n].capture
     /\ left # {} => /\ new[name].routes = [g \in left |-> rib[name].routes[g]]
                     /\ ~rib[name].routes[f].cap => new[name].capture = rib[name].capture

\* Rib::erase keeps the tree, and its effect on the routes is Erased.
LEMMA EraseRouteRib ==
  ASSUME LibraryFacts,
         NEW rib \in Ribs, Tree(rib), NEW name \in DOMAIN rib, NEW f \in DOMAIN rib[name].routes
  PROVE  LET new == EraseRoute(rib, name, f)
         IN new \in Ribs /\ Tree(new) /\ Erased(new, rib, name, f)
<1> DEFINE rest == WithoutRoute(rib[name], f)
           left == DOMAIN rib[name].routes \ {f}
           mid  == [rib EXCEPT ![name] = rest]
           new  == EraseRoute(rib, name, f)
<1>1. /\ rest \in Entries
      /\ rest.parent = rib[name].parent /\ rest.children = rib[name].children
      /\ rest.inherited = rib[name].inherited
      /\ rest.routes = [g \in left |-> rib[name].routes[g]]
      /\ ~rib[name].routes[f].cap => rest.capture = rib[name].capture
      /\ rest.routes = Nothing <=> left = {}
  BY WithoutRouteEntry
<1>2. new = IF left = {} THEN eraseEntry(mid, name) ELSE mid
  BY <1>1 DEF EraseRoute
<1> HIDE DEF rest, left, new
<1>3. mid \in Ribs /\ Tree(mid)
  BY <1>1, ReplaceEntry
<1> DOMAIN mid = DOMAIN rib /\ \A n \in DOMAIN rib : mid[n] = IF n = name THEN rest ELSE rib[n]
  <2> rib = [n \in DOMAIN rib |-> rib[n]]
    BY RibTypes
  <2> QED  OBVIOUS
<1> HIDE DEF mid
<1>4. CASE left # {}
  BY <1>1, <1>2, <1>3, <1>4 DEF new, left, Erased
<1> CASE left = {}
  <2>1. new \in Ribs /\ Tree(new)
    BY <1>2, <1>3, EraseTree
  <2> /\ DOMAIN new = DOMAIN mid \ {name}
      /\ \A n \in DOMAIN new : /\ new[n].routes = mid[n].routes
                               /\ new[n].capture = mid[n].capture
                               /\ new[n].inherited = mid[n].inherited
    <3> new = eraseEntry(mid, name) /\ name \in DOMAIN mid
      BY <1>2
    <3> QED  BY <1>3, EraseEntryRoutes
  <2> QED  BY <2>1 DEF new, left, Erased
<1> QED  BY <1>4

=============================================================================
