----------------------------- MODULE FibUpdater -----------------------------
(***************************************************************************)
(* What a change of the RIB does to the FIB: the computations of           *)
(* nfd::rib::FibUpdater over the tree of RibEntry objects.                 *)
(*                                                                         *)
(* A name is a sequence of components.  The RIB is a function from the     *)
(* names that have an entry; an entry is a record of its own routes (a     *)
(* function from faces), the faces of its inherited routes (with their     *)
(* multiplicity: the list may hold a face twice), the count of routes with *)
(* the capture flag, its parent and its children.  The origin of a route   *)
(* is fixed, so a prefix has at most one route per face.                   *)
(*                                                                         *)
(* A Rib::RouteSet is a function from faces to costs; where only its faces *)
(* are used, a set of faces.                                               *)
(***************************************************************************)
EXTENDS Integers, Sequences, FiniteSets, Functions

CONSTANTS Faces, NoName

Nothing == [f \in {} |-> 0]

-----------------------------------------------------------------------------
(* RibEntry *)

hasCapture(entry) == entry.capture # 0

ChildInheritFaces(entry) == {f \in DOMAIN entry.routes : entry.routes[f].ci}

hasInheritedRoute(entry, f) == entry.inherited[f] > 0

\* eraseRoute on a copy of the entry.
WithoutRoute(entry, f) ==
  [entry EXCEPT !.routes = Restrict(@, DOMAIN @ \ {f}),
                !.capture = IF entry.routes[f].cap THEN @ - 1 ELSE @]

-----------------------------------------------------------------------------
(* Rib: searching the tree *)

isPrefixOf(a, b) == Len(a) <= Len(b) /\ \A i \in 1 .. Len(a) : a[i] = b[i]

isProperPrefixOf(a, b) == isPrefixOf(a, b) /\ a # b

ProperPrefixesIn(rib, name) == {n \in DOMAIN rib : isProperPrefixOf(n, name)}

findParent(rib, name) ==
  LET above == ProperPrefixesIn(rib, name)
  IN IF above = {} THEN NoName
     ELSE CHOOSE n \in above : \A m \in above : Len(m) <= Len(n)

findDescendants(rib, name) == {n \in DOMAIN rib : isProperPrefixOf(name, n)}

\* Inherited by an entry with this parent: the nearest route of each face.
getAncestorRoutes(rib, parent) ==
  LET up[n \in DOMAIN rib \cup {NoName}] ==
        IF n = NoName THEN Nothing
        ELSE LET own   == ChildInheritFaces(rib[n])
                 above == IF hasCapture(rib[n]) THEN Nothing ELSE up[rib[n].parent]
             IN [f \in own \cup DOMAIN above |->
                   IF f \in own THEN rib[n].routes[f].cost ELSE above[f]]
  IN up[parent]

-----------------------------------------------------------------------------
(* The lists an update computes.  u.face is m_batchFaceId, u.batch and     *)
(* u.other are m_updatesForBatchFaceId and m_updatesForNonBatchFaceId,     *)
(* u.inherited is m_inheritedRoutes.                                       *)
(*                                                                         *)
(* A loop over routes or entries adds at most one element for a name and a *)
(* face, and elements for different names or faces do not affect each      *)
(* other.  So a loop adds a set of elements at once, and u.inherited is a  *)
(* sequence of such sets.  An inherited route is always recorded together  *)
(* with the FIB update that installs or removes it, and is the same record *)
(* here.                                                                   *)

NoUpdates(face) == [face |-> face, batch |-> {}, other |-> {}, inherited |-> <<>>]

AddUpdates(name, routes) ==
  {[action |-> "add", name |-> name, face |-> f, cost |-> routes[f]] : f \in DOMAIN routes}

RemoveUpdates(name, faces) ==
  {[action |-> "remove", name |-> name, face |-> f, cost |-> 0] : f \in faces}

\* An older update for the same name and face is replaced.
addFibUpdates(u, updates) ==
  LET Kept(list) == {x \in list : \A y \in updates : y.name # x.name \/ y.face # x.face}
  IN [u EXCEPT !.batch = Kept(@) \cup {y \in updates : y.face = u.face},
               !.other = Kept(@) \cup {y \in updates : y.face # u.face}]

\* The same, with the records for the entries.
modifyInherited(u, updates) ==
  IF updates = {} THEN u
  ELSE [addFibUpdates(u, updates) EXCEPT !.inherited = Append(@, updates)]

addInheritedRoutes(u, name, routes, except) ==
  modifyInherited(u, AddUpdates(name, Restrict(routes, DOMAIN routes \ except)))

removeInheritedRoutes(u, name, entry, faces) ==
  modifyInherited(u, RemoveUpdates(name, {f \in faces : hasInheritedRoute(entry, f)}))

\* Mutant: an entry with a child-inherit route on a face does not shield its
\* subtree.
Unshielded_NoShield(entry) == IF hasCapture(entry) THEN {} ELSE Faces

\* The faces for which a change passes an entry on its way down: none if the
\* entry captures, else those on which it has no child-inherit route.
Unshielded(entry) == IF hasCapture(entry) THEN {} ELSE Faces \ ChildInheritFaces(entry)

\* The faces for which a change that starts at some entries reaches an entry.
Reached(rib, start) ==
  LET reached[n \in DOMAIN rib] ==
        Unshielded(rib[n]) \cap
          (CASE n \in start -> Faces
             [] n \notin start /\ rib[n].parent = NoName -> {}
             [] OTHER -> reached[rib[n].parent])
  IN reached

\* traverseSubTree for each child: at every entry it reaches, what is to be
\* removed and was inherited, and then what is to be added and hides no route.
modifyChildrensInheritedRoutes(rib, children, toAdd, toRemove, u) ==
  LET reached == Reached(rib, children)
      removed == UNION {RemoveUpdates(n, {f \in toRemove \cap reached[n] :
                                            hasInheritedRoute(rib[n], f)}) : n \in DOMAIN rib}
      added   == UNION {AddUpdates(n, Restrict(toAdd,
                          (DOMAIN toAdd \cap reached[n]) \ DOMAIN rib[n].routes)) : n \in DOMAIN rib}
  IN modifyInherited(modifyInherited(u, removed), added)

-----------------------------------------------------------------------------
(* The four cases of an update. *)

Single(f, cost) == [x \in {f} |-> cost]

createFibUpdatesForNewRibEntry(rib, name, f, route, u) ==
  LET parent    == findParent(rib, name)
      children  == {n \in findDescendants(rib, name) : rib[n].parent = parent}
      ancestors == getAncestorRoutes(rib, parent)
      u1        == addFibUpdates(u, AddUpdates(name, Single(f, route.cost)))
      u2        == IF route.cap THEN u1 ELSE addInheritedRoutes(u1, name, ancestors, {f})
      toAdd     == CASE ~route.ci             -> Nothing
                     [] route.ci /\ route.cap -> Single(f, route.cost)
                     [] OTHER -> [x \in DOMAIN ancestors \cup {f} |->
                                    IF x = f THEN route.cost ELSE ancestors[x]]
      toRemove  == IF route.cap THEN DOMAIN ancestors ELSE {}
  IN modifyChildrensInheritedRoutes(rib, children, toAdd, toRemove, u2)

createFibUpdatesForNewRoute(rib, name, f, route, u) ==
  LET entry == rib[name]
      captureWasTurnedOn == ~hasCapture(entry) /\ route.cap
      toAdd    == IF route.ci THEN Single(f, route.cost) ELSE Nothing
      toRemove == IF captureWasTurnedOn
                    THEN DOMAIN getAncestorRoutes(rib, entry.parent) ELSE {}
      u1 == removeInheritedRoutes(u, name, entry, toRemove)
      u2 == modifyChildrensInheritedRoutes(rib, entry.children, toAdd, toRemove, u1)
  IN addFibUpdates(u2, AddUpdates(name, Single(f, route.cost)))

createFibUpdatesForUpdatedRoute(rib, name, f, route, u) ==
  LET entry     == rib[name]
      existing  == entry.routes[f]
      ancestors == getAncestorRoutes(rib, entry.parent)
      self      == Single(f, route.cost)
      sameFlags == route.ci = existing.ci /\ route.cap = existing.cap
      Children(toAdd, toRemove, acc) ==
        modifyChildrensInheritedRoutes(rib, entry.children, toAdd, toRemove, acc)
      u1 == IF route.cost # existing.cost THEN addFibUpdates(u, AddUpdates(name, self)) ELSE u
      u2 == CASE route.ci /\ ~existing.ci -> Children(self, {}, u1)
              [] ~route.ci /\ existing.ci ->
                   Children(Restrict(ancestors, DOMAIN ancestors \cap {f}), {f}, u1)
              [] OTHER -> u1
      u3 == CASE route.cap /\ ~existing.cap ->
                   Children(Nothing, DOMAIN ancestors,
                            removeInheritedRoutes(u2, name, entry, DOMAIN ancestors))
              [] ~route.cap /\ existing.cap ->
                   Children(ancestors, {},
                            addInheritedRoutes(u2, name, ancestors, DOMAIN entry.routes))
              [] OTHER -> u2
  IN CASE sameFlags /\ route.cost = existing.cost -> u
       [] sameFlags /\ route.cost # existing.cost /\ route.ci -> Children(self, {}, u1)
       [] OTHER -> u3

\* Mutant: an entry about to be removed is not excepted.
InheritsAgain_Pending(temp) == ~hasCapture(temp)

\* Whether an entry may inherit again what an erased route was hiding.
InheritsAgain(temp) == ~hasCapture(temp) /\ temp.routes # Nothing

createFibUpdatesForErasedRoute(rib, name, f, u) ==
  LET route == rib[name].routes[f]
      temp  == WithoutRoute(rib[name], f)
      captureWasTurnedOff == hasCapture(rib[name]) /\ ~hasCapture(temp)
      ancestors == getAncestorRoutes(rib, temp.parent)
      blocked   == route.cap /\ captureWasTurnedOff
      toAdd     == IF blocked \/ (route.ci /\ ~route.cap /\ ~hasCapture(temp))
                     THEN ancestors ELSE Nothing
      u1 == addFibUpdates(u, RemoveUpdates(name, {f}))
      u2 == IF blocked THEN addInheritedRoutes(u1, name, ancestors, DOMAIN temp.routes)
                       ELSE u1
      u3 == modifyChildrensInheritedRoutes(rib, temp.children, toAdd,
              IF route.ci THEN {f} ELSE {}, u2)
  IN IF InheritsAgain(temp) /\ f \in DOMAIN ancestors
       THEN modifyInherited(u3, AddUpdates(name, Single(f, ancestors[f])))
       ELSE u3

createFibUpdatesForErasedRibEntry(name, entry, u) ==
  addFibUpdates(u, RemoveUpdates(name, {f \in Faces : hasInheritedRoute(entry, f)}))

-----------------------------------------------------------------------------
computeUpdatesForRegistration(rib, name, f, route) ==
  CASE name \notin DOMAIN rib ->
         createFibUpdatesForNewRibEntry(rib, name, f, route, NoUpdates(f))
    [] name \in DOMAIN rib /\ f \notin DOMAIN rib[name].routes ->
         createFibUpdatesForNewRoute(rib, name, f, route, NoUpdates(f))
    [] OTHER ->
         createFibUpdatesForUpdatedRoute(rib, name, f, route, NoUpdates(f))

HasRoute(rib, name, f) == name \in DOMAIN rib /\ f \in DOMAIN rib[name].routes

computeUpdatesForUnregistration(rib, name, f) ==
  LET u == createFibUpdatesForErasedRoute(rib, name, f, NoUpdates(f))
  IN CASE ~HasRoute(rib, name, f) -> NoUpdates(f)
       [] HasRoute(rib, name, f) /\ DOMAIN rib[name].routes = {f} ->
            createFibUpdatesForErasedRibEntry(name, rib[name], u)
       [] OTHER -> u

\* A destroyed face is gone from the FIB: its own updates are dropped.
computeUpdates(rib, update) ==
  CASE update.action = "register" ->
         computeUpdatesForRegistration(rib, update.name, update.face, update.route)
    [] update.action = "unregister" ->
         computeUpdatesForUnregistration(rib, update.name, update.face)
    [] update.action = "remove_face" ->
         [computeUpdatesForUnregistration(rib, update.name, update.face)
            EXCEPT !.batch = {}]
=============================================================================
