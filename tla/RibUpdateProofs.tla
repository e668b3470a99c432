-------------------------- MODULE RibUpdateProofs ---------------------------
(***************************************************************************)
(* What an update of the RIB computes for the FIB, with the flags that     *)
(* routes have by default: after the FIB updates that computeUpdates       *)
(* lists, the FIB holds for each name the routes of the entry and those it *)
(* inherits, and the records that go with them say what was inherited.     *)
(*                                                                         *)
(* The flags make inheritance simple: every route is inherited by all      *)
(* names below that have no route of its face, and nothing is captured.    *)
(***************************************************************************)
EXTENDS RibTreeProofs

USE ZenonT(60), SMTT(60)

-----------------------------------------------------------------------------
(* How far a change reaches                                                *)

\* The entries below some of start that no entry on the way shields.
ReachedFrom(rib, start) ==
  [n \in DOMAIN rib |->
     {f \in Faces : \E s \in start \cap DOMAIN rib :
        /\ isPrefixOf(s, n)
        /\ \A m \in DOMAIN rib : isPrefixOf(s, m) /\ isPrefixOf(m, n) => f \in Unshielded(rib[m])}]

\* One step of the recursion of Reached.
ReachedStep(rib, start, reached) ==
  [n \in DOMAIN rib |->
     Unshielded(rib[n]) \cap
       (CASE n \in start -> Faces
          [] n \notin start /\ rib[n].parent = NoName -> {}
          [] OTHER -> reached[rib[n].parent])]

\* traverseSubTree visits the children of an entry only if the entry does not
\* shield them: one level of the closed form.
LEMMA ReachedUnfold ==
  ASSUME LibraryFacts, NEW rib \in Ribs, Tree(rib), NEW start
  PROVE  ReachedFrom(rib, start) = ReachedStep(rib, start, ReachedFrom(rib, start))
<1> DEFINE R == ReachedFrom(rib, start)
<1>1. DOMAIN rib \subseteq Names
  BY RibTypes
<1>2. ASSUME NEW n \in DOMAIN rib, NEW f
      PROVE  f \in R[n] <=> /\ f \in Faces
                            /\ \E s \in start \cap DOMAIN rib :
                                 /\ isPrefixOf(s, n)
                                 /\ \A m \in DOMAIN rib : isPrefixOf(s, m) /\ isPrefixOf(m, n)
                                      => f \in Unshielded(rib[m])
  BY DEF ReachedFrom
<1>3. \A n \in DOMAIN rib : Unshielded(rib[n]) \subseteq Faces
  BY DEF Unshielded
<1> HIDE DEF R
<1>4. ASSUME NEW n \in DOMAIN rib, NEW f
      PROVE  f \in R[n] <=> /\ f \in Unshielded(rib[n])
                            /\ n \notin start => rib[n].parent # NoName /\ f \in R[rib[n].parent]
  <2> DEFINE p == rib[n].parent
  <2>1. n \in Names /\ isPrefixOf(n, n)
    BY <1>1, NameOrder
  <2>2. ASSUME f \in R[n]
        PROVE  f \in Unshielded(rib[n]) /\ (n \notin start => p # NoName /\ f \in R[p])
    <3> PICK s \in start \cap DOMAIN rib :
          /\ isPrefixOf(s, n)
          /\ \A m \in DOMAIN rib : isPrefixOf(s, m) /\ isPrefixOf(m, n) => f \in Unshielded(rib[m])
      BY <1>2, <2>2
    <3> f \in Unshielded(rib[n]) /\ f \in Faces
      BY <1>3, <2>1
    <3> ASSUME n \notin start PROVE p # NoName /\ f \in R[p]
      <4> isProperPrefixOf(s, n)
        BY DEF isProperPrefixOf
      <4> /\ p # NoName /\ p \in DOMAIN rib /\ isPrefixOf(s, p)
          /\ \A m \in DOMAIN rib : isPrefixOf(m, p) => isPrefixOf(m, n)
        BY <1>1, TreeParent DEF isProperPrefixOf
      <4> QED  BY <1>2
    <3> QED  OBVIOUS
  <2>3. ASSUME f \in Unshielded(rib[n]), n \in start PROVE f \in R[n]
    <3> \A m \in DOMAIN rib : isPrefixOf(n, m) /\ isPrefixOf(m, n) => m = n
      BY <1>1, NameOrder
    <3> QED  BY <1>2, <1>3, <2>1, <2>3
  <2> ASSUME f \in Unshielded(rib[n]), p # NoName, f \in R[p] PROVE f \in R[n]
    <3> /\ p \in DOMAIN rib /\ isProperPrefixOf(p, n)
        /\ \A m \in DOMAIN rib : isProperPrefixOf(m, n) <=> isPrefixOf(m, p)
      BY <1>1, TreeParent
    <3> PICK s \in start \cap DOMAIN rib :
          /\ isPrefixOf(s, p)
          /\ \A m \in DOMAIN rib : isPrefixOf(s, m) /\ isPrefixOf(m, p) => f \in Unshielded(rib[m])
      BY <1>2
    <3> isPrefixOf(s, n)
      BY DEF isProperPrefixOf
    <3> ASSUME NEW m \in DOMAIN rib, isPrefixOf(s, m), isPrefixOf(m, n)
        PROVE  f \in Unshielded(rib[m])
      BY DEF isProperPrefixOf
    <3> QED  BY <1>2, <1>3
  <2> QED  BY <2>2, <2>3
<1>5. R = [n \in DOMAIN rib |-> R[n]]
  BY DEF R, ReachedFrom
<1>6. ASSUME NEW n \in DOMAIN rib PROVE R[n] = ReachedStep(rib, start, R)[n]
  <2> DEFINE above == CASE n \in start -> Faces
                        [] n \notin start /\ rib[n].parent = NoName -> {}
                        [] OTHER -> R[rib[n].parent]
  <2>1. ReachedStep(rib, start, R)[n] = Unshielded(rib[n]) \cap above
    BY DEF ReachedStep
  <2> /\ n \in start => above = Faces
      /\ n \notin start /\ rib[n].parent = NoName => above = {}
      /\ n \notin start /\ rib[n].parent # NoName => above = R[rib[n].parent]
    OBVIOUS
  <2> HIDE DEF above
  <2> ASSUME NEW f PROVE f \in R[n] <=> f \in Unshielded(rib[n]) \cap above
    BY <1>3, <1>4
  <2> QED  BY <2>1
<1> ReachedStep(rib, start, R) = [n \in DOMAIN rib |-> ReachedStep(rib, start, R)[n]]
  BY DEF ReachedStep
<1> QED  BY <1>5, <1>6 DEF R

\* Two solutions of the recursion agree: no shortest name tells them apart.
LEMMA ReachedUnique ==
  ASSUME LibraryFacts, NEW rib \in Ribs, Tree(rib), NEW start,
         NEW g, g = ReachedStep(rib, start, g), NEW h, h = ReachedStep(rib, start, h)
  PROVE  g = h
<1> DEFINE D == {n \in DOMAIN rib : g[n] # h[n]}
           T == {Len(n) : n \in D}
<1>1. DOMAIN rib \subseteq Names
  BY RibTypes
<1>2. D = {}
  <2> SUFFICES ASSUME D # {} PROVE FALSE
    OBVIOUS
  <2>1. \A n \in Names : Len(n) \in Nat
    BY NameOrder
  <2>2. T \subseteq Nat /\ T # {}
    BY <1>1, <2>1
  <2>3. PICK x \in T : \A y \in T : x <= y
    BY <2>2, LeastNat
  <2> PICK n \in D : x = Len(n)
    BY <2>3
  <2> DEFINE p == rib[n].parent
  <2>4. p = NoName \/ g[p] = h[p]
    <3> SUFFICES ASSUME p # NoName PROVE g[p] = h[p]
      OBVIOUS
    <3> p \in DOMAIN rib /\ isProperPrefixOf(p, n)
      BY <1>1, TreeParent
    <3> Len(p) < Len(n) /\ Len(p) \in Nat /\ Len(n) \in Nat
      BY <1>1, NameOrder
    <3> p \in D => Len(n) <= Len(p)
      BY <2>3
    <3> QED  BY SMTT(60)
  <2> DEFINE V(a) == Unshielded(rib[n]) \cap
                       (CASE n \in start -> Faces
                          [] n \notin start /\ rib[n].parent = NoName -> {}
                          [] OTHER -> a)
  <2>5. g[n] = V(g[p]) /\ h[n] = V(h[p])
    BY DEF ReachedStep
  <2> p = NoName => V(g[p]) = V(h[p])
    OBVIOUS
  <2> HIDE DEF V, p
  <2> g[n] = h[n]
    BY <2>4, <2>5
  <2> QED  OBVIOUS
<1>3. \A n \in DOMAIN rib : g[n] = h[n]
  BY <1>2
<1> ASSUME NEW s, NEW r, s = ReachedStep(rib, start, r)
    PROVE  DOMAIN s = DOMAIN rib /\ s = [n \in DOMAIN s |-> s[n]]
  BY DEF ReachedStep
<1> /\ DOMAIN g = DOMAIN rib /\ g = [n \in DOMAIN g |-> g[n]]
    /\ DOMAIN h = DOMAIN rib /\ h = [n \in DOMAIN h |-> h[n]]
  OBVIOUS
<1> QED  BY <1>3

\* Reached computes the closed form.
LEMMA ReachedIs ==
  ASSUME LibraryFacts, NEW rib \in Ribs, Tree(rib), NEW start
  PROVE  Reached(rib, start) = ReachedFrom(rib, start)
<1> DEFINE c == CHOOSE g : g = ReachedStep(rib, start, g)
<1>1. c = ReachedStep(rib, start, c)
  BY ReachedUnfold
<1> c = ReachedFrom(rib, start)
  BY SMTT(60), <1>1, ReachedUnfold, ReachedUnique
<1> Reached(rib, start) = c
  BY DEF Reached, ReachedStep
<1> QED  OBVIOUS

\* Under the default flags every route is passed on, and shields what is below.
LEMMA DefaultRoutes ==
  ASSUME Defaults
  PROVE  /\ \A route \in Routes : route.ci /\ ~route.cap
         /\ \A rib \in Ribs : Plain(rib) => \A n \in DOMAIN rib :
              /\ ChildInheritFaces(rib[n]) = DOMAIN rib[n].routes
              /\ ~hasCapture(rib[n])
              /\ Unshielded(rib[n]) = Faces \ DOMAIN rib[n].routes
<1>1. \A route \in Routes : route.ci /\ ~route.cap
  BY SMTT(60) DEF Defaults, Routes
<1>2. ASSUME NEW rib \in Ribs, Plain(rib), NEW n \in DOMAIN rib
      PROVE  /\ ChildInheritFaces(rib[n]) = DOMAIN rib[n].routes
             /\ ~hasCapture(rib[n])
             /\ Unshielded(rib[n]) = Faces \ DOMAIN rib[n].routes
  <2>1. \A f \in DOMAIN rib[n].routes : rib[n].routes[f].ci
    BY <1>1, EntryTypes
  <2> ChildInheritFaces(rib[n]) = DOMAIN rib[n].routes
    BY <2>1 DEF ChildInheritFaces
  <2> ~hasCapture(rib[n])
    BY <1>2 DEF hasCapture, Plain
  <2> QED  BY DEF Unshielded
<1> QED  BY <1>1, <1>2

\* The children that a change of the routes of name starts from.
ChildrenOf(rib, name) ==
  IF name \in DOMAIN rib THEN rib[name].children
  ELSE {n \in findDescendants(rib, name) : rib[n].parent = findParent(rib, name)}

\* The children of an entry, or those it will adopt, are its nearest descendants.
LEMMA ChildrenAre ==
  ASSUME LibraryFacts,
         NEW rib \in Ribs, Tree(rib), NEW name \in Names, NEW s \in DOMAIN rib
  PROVE  s \in ChildrenOf(rib, name) <=>
           /\ isProperPrefixOf(name, s)
           /\ \A m \in DOMAIN rib : isProperPrefixOf(name, m) => ~isProperPrefixOf(m, s)
<1>1. DOMAIN rib \subseteq Names /\ s \in Names
  BY RibTypes
<1>2. ASSUME s \in ChildrenOf(rib, name)
      PROVE  /\ isProperPrefixOf(name, s)
             /\ \A m \in DOMAIN rib : isProperPrefixOf(name, m) => ~isProperPrefixOf(m, s)
  <2>1. CASE name \in DOMAIN rib
    <3>1. rib[s].parent = name /\ name # NoName
      BY <1>2, <2>1, NamesAssumption DEF ChildrenOf, Tree
    <3> isProperPrefixOf(name, s) /\ \A m \in DOMAIN rib : isProperPrefixOf(m, s) => isPrefixOf(m, name)
      BY <1>1, <3>1, TreeParent
    <3> ASSUME NEW m \in DOMAIN rib, isProperPrefixOf(name, m), isPrefixOf(m, name) PROVE FALSE
      BY <1>1, NameOrder DEF isProperPrefixOf
    <3> QED  OBVIOUS
  <2>2. CASE name \notin DOMAIN rib
    <3>1. isProperPrefixOf(name, s) /\ rib[s].parent = findParent(rib, name)
      BY <1>2, <2>2 DEF ChildrenOf, findDescendants
    <3> ASSUME NEW m \in DOMAIN rib, isProperPrefixOf(name, m), isProperPrefixOf(m, s) PROVE FALSE
      <4> rib[s].parent # NoName /\ isPrefixOf(m, rib[s].parent) /\ rib[s].parent \in DOMAIN rib
        BY <1>1, TreeParent
      <4> isProperPrefixOf(rib[s].parent, name)
        BY <1>1, <3>1, ParentIs
      <4> m \in Names /\ rib[s].parent \in Names
        BY <1>1
      <4> QED  BY SMTT(60), NameOrder
    <3> QED  BY <3>1
  <2> QED  BY <2>1, <2>2
<1>3. ASSUME isProperPrefixOf(name, s),
             \A m \in DOMAIN rib : isProperPrefixOf(name, m) => ~isProperPrefixOf(m, s)
      PROVE  s \in ChildrenOf(rib, name)
  <2>1. \A m \in DOMAIN rib : isProperPrefixOf(m, s) => isPrefixOf(m, name)
    <3> SUFFICES ASSUME NEW m \in DOMAIN rib, isProperPrefixOf(m, s) PROVE isPrefixOf(m, name)
      OBVIOUS
    <3> m \in Names /\ ~isProperPrefixOf(name, m)
      BY <1>1, <1>3
    <3> isPrefixOf(m, s) /\ isPrefixOf(name, s)
      BY <1>3 DEF isProperPrefixOf
    <3> Len(m) \in Nat /\ Len(name) \in Nat
      BY NameOrder
    <3> CASE Len(m) <= Len(name)
      BY <1>1, NameOrder
    <3> CASE Len(name) < Len(m)
      BY SMTT(60), <1>1, NameOrder
    <3> QED  BY SMTT(60)
  <2>2. CASE name \in DOMAIN rib
    <3> findParent(rib, s) = name
      BY <1>1, <1>3, <2>1, <2>2, ParentUnique
    <3> QED  BY <2>2 DEF Tree, ChildrenOf
  <2>3. CASE name \notin DOMAIN rib
    <3> ProperPrefixesIn(rib, s) = ProperPrefixesIn(rib, name)
      <4> ASSUME NEW m \in DOMAIN rib, isProperPrefixOf(m, s) PROVE isProperPrefixOf(m, name)
        BY <2>1, <2>3 DEF isProperPrefixOf
      <4> ASSUME NEW m \in DOMAIN rib, isProperPrefixOf(m, name) PROVE isProperPrefixOf(m, s)
        <5> m \in Names
          BY <1>1
        <5> QED  BY SMTT(60), <1>1, <1>3, NameOrder
      <4> QED  BY DEF ProperPrefixesIn
    <3> findParent(rib, s) = findParent(rib, name)
      BY SMTT(60) DEF findParent
    <3> QED  BY <1>3, <2>3 DEF Tree, ChildrenOf, findDescendants
  <2> QED  BY <2>2, <2>3
<1> QED  BY <1>2, <1>3

\* A change on a face at name reaches the entries below it as far as none has a
\* route on the face.
LEMMA BelowReached ==
  ASSUME LibraryFacts,
         Defaults, NEW rib \in Ribs, Tree(rib), Plain(rib), NEW name \in Names,
         NEW n \in DOMAIN rib, NEW f \in Faces
  PROVE  f \in Reached(rib, ChildrenOf(rib, name))[n] <=>
           /\ isProperPrefixOf(name, n)
           /\ \A m \in DOMAIN rib : isProperPrefixOf(name, m) /\ isPrefixOf(m, n)
                => f \notin DOMAIN rib[m].routes
<1> DEFINE start == ChildrenOf(rib, name)
<1>1. DOMAIN rib \subseteq Names /\ n \in Names /\ isPrefixOf(n, n)
  BY RibTypes, NameOrder
<1>2. f \in Reached(rib, start)[n] <=>
        \E s \in start \cap DOMAIN rib :
          /\ isPrefixOf(s, n)
          /\ \A m \in DOMAIN rib : isPrefixOf(s, m) /\ isPrefixOf(m, n) => f \notin DOMAIN rib[m].routes
  <2> \A m \in DOMAIN rib : f \in Unshielded(rib[m]) <=> f \notin DOMAIN rib[m].routes
    BY DefaultRoutes
  <2> f \in ReachedFrom(rib, start)[n] <=>
      \E s \in start \cap DOMAIN rib :
        /\ isPrefixOf(s, n)
        /\ \A m \in DOMAIN rib : isPrefixOf(s, m) /\ isPrefixOf(m, n) => f \in Unshielded(rib[m])
    BY DEF ReachedFrom
  <2> HIDE DEF start
  <2> QED  BY ReachedIs
<1>3. \A s \in DOMAIN rib : s \in start <=>
        /\ isProperPrefixOf(name, s)
        /\ \A m \in DOMAIN rib : isProperPrefixOf(name, m) => ~isProperPrefixOf(m, s)
  BY ChildrenAre
<1> HIDE DEF start
<1>4. ASSUME f \in Reached(rib, start)[n]
      PROVE  /\ isProperPrefixOf(name, n)
             /\ \A m \in DOMAIN rib : isProperPrefixOf(name, m) /\ isPrefixOf(m, n)
                  => f \notin DOMAIN rib[m].routes
  <2> PICK s \in start \cap DOMAIN rib :
        /\ isPrefixOf(s, n)
        /\ \A m \in DOMAIN rib : isPrefixOf(s, m) /\ isPrefixOf(m, n) => f \notin DOMAIN rib[m].routes
    BY <1>2, <1>4
  <2> s \in Names /\ isProperPrefixOf(name, s)
    BY <1>1, <1>3
  <2>1. isProperPrefixOf(name, n)
    BY SMTT(60), <1>1, NameOrder
  <2> ASSUME NEW m \in DOMAIN rib, isProperPrefixOf(name, m), isPrefixOf(m, n)
      PROVE  isPrefixOf(s, m)
    <3> m \in Names /\ ~isProperPrefixOf(m, s)
      BY <1>1, <1>3
    <3> Len(s) \in Nat /\ Len(m) \in Nat
      BY NameOrder
    <3> CASE Len(s) <= Len(m)
      BY <1>1, NameOrder
    <3> CASE Len(m) < Len(s)
      BY SMTT(60), <1>1, NameOrder
    <3> QED  BY SMTT(60)
  <2> QED  BY <2>1
<1>5. ASSUME isProperPrefixOf(name, n),
             \A m \in DOMAIN rib : isProperPrefixOf(name, m) /\ isPrefixOf(m, n)
               => f \notin DOMAIN rib[m].routes
      PROVE  f \in Reached(rib, start)[n]
  <2> DEFINE S == {m \in DOMAIN rib : isProperPrefixOf(name, m) /\ isPrefixOf(m, n)}
             T == {Len(m) : m \in S}
  <2>1. \A m \in Names : Len(m) \in Nat
    BY NameOrder
  <2>2. T \subseteq Nat /\ T # {}
    BY <1>1, <1>5, <2>1
  <2>3. PICK x \in T : \A y \in T : x <= y
    BY <2>2, LeastNat
  <2>4. PICK s \in S : x = Len(s)
    BY <2>3
  <2> s \in DOMAIN rib /\ isProperPrefixOf(name, s) /\ isPrefixOf(s, n) /\ s \in Names
    BY <1>1, <2>4
  <2>5. ASSUME NEW m \in DOMAIN rib, isProperPrefixOf(name, m), isProperPrefixOf(m, s) PROVE FALSE
    <3>1. m \in Names
      BY <1>1
    <3> isPrefixOf(m, n) /\ Len(m) < Len(s) /\ Len(m) \in Nat /\ Len(s) \in Nat
      BY <1>1, <2>5, <3>1, NameOrder DEF isProperPrefixOf
    <3> Len(s) <= Len(m)
      BY <2>3, <2>4, <2>5
    <3> QED  BY SMTT(60)
  <2>6. s \in start
    BY <1>3, <2>5
  <2> ASSUME NEW m \in DOMAIN rib, isPrefixOf(s, m), isPrefixOf(m, n) PROVE isProperPrefixOf(name, m)
    <3> m \in Names
      BY <1>1
    <3> QED  BY SMTT(60), NameOrder
  <2> HIDE DEF S, T
  <2> QED  BY <1>2, <1>5, <2>6
<1> QED  BY <1>4, <1>5 DEF start

\* getAncestorRoutes gives the faces of the routes above a name.
LEMMA AncestorFaces ==
  ASSUME LibraryFacts,
         Defaults, NEW rib \in Ribs, Tree(rib), Plain(rib), NEW name \in Names
  PROVE  LET ancestors == getAncestorRoutes(rib, findParent(rib, name))
         IN /\ IsCostMap(ancestors)
            /\ \A f \in Faces : f \in DOMAIN ancestors <=>
                 \E a \in DOMAIN rib : isProperPrefixOf(a, name) /\ f \in DOMAIN rib[a].routes
<1> DEFINE p == findParent(rib, name)
<1>1. DOMAIN rib \subseteq Names
  BY RibTypes
<1>2. /\ ProperPrefixesIn(rib, name) = {} => p = NoName
      /\ ProperPrefixesIn(rib, name) # {} =>
           /\ p \in DOMAIN rib /\ isProperPrefixOf(p, name)
           /\ \A m \in ProperPrefixesIn(rib, name) : isPrefixOf(m, p)
      /\ p # NoName => ProperPrefixesIn(rib, name) # {}
  BY <1>1, ParentIs
<1>3. p \in DOMAIN rib \cup {NoName}
  BY <1>2
<1> HIDE DEF p
<1>4. CASE p = NoName
  <2> \A a \in DOMAIN rib : ~isProperPrefixOf(a, name)
    BY <1>1, <1>2, <1>4, NamesAssumption DEF ProperPrefixesIn
  <2> QED  BY <1>3, <1>4, AncestorTypes DEF p
<1> CASE p # NoName
  <2>1. p \in DOMAIN rib /\ isProperPrefixOf(p, name) /\ p \in Names
    BY <1>1, <1>2
  <2>2. \A m \in DOMAIN rib : isProperPrefixOf(m, name) <=> isPrefixOf(m, p)
    <3> TAKE m \in DOMAIN rib
    <3> m \in Names
      BY <1>1
    <3> isPrefixOf(m, p) => isProperPrefixOf(m, name)
      BY SMTT(60), <2>1, NameOrder
    <3> QED  BY <1>2 DEF ProperPrefixesIn
  <2> \A f : Givers(rib, p, f) = {a \in DOMAIN rib : isPrefixOf(a, p) /\ f \in DOMAIN rib[a].routes}
    BY DefaultRoutes DEF Givers
  <2> /\ IsCostMap(getAncestorRoutes(rib, p))
      /\ DOMAIN getAncestorRoutes(rib, p) = {f \in Faces : Givers(rib, p, f) # {}}
    BY <2>1, AncestorTypes
  <2> QED  BY <2>2 DEF p
<1> QED  BY <1>4

\* What traverseSubTree adds below a name.
LEMMA AddedBelowEffect ==
  ASSUME LibraryFacts,
         Defaults, NEW rib \in Ribs, Tree(rib), Plain(rib), NEW name \in Names,
         NEW toAdd, IsCostMap(toAdd)
  PROVE  LET added == AddedBelow(rib, ChildrenOf(rib, name), toAdd)
         IN /\ added \subseteq FibUpdates /\ OneForEach(added)
            /\ \A x \in added : x.action = "add"
            /\ \A n, g : Touches(added, n, g) <=>
                 n \in DOMAIN rib /\ g \in DOMAIN toAdd /\ Passes(rib, name, n, g)
<1> DEFINE children == ChildrenOf(rib, name)
           added == AddedBelow(rib, children, toAdd)
<1>1. /\ added \subseteq FibUpdates /\ OneForEach(added)
      /\ \A x : x \in added <=>
           /\ x = [action |-> "add", name |-> x.name, face |-> x.face, cost |-> toAdd[x.face]]
           /\ x.name \in DOMAIN rib
           /\ x.face \in DOMAIN toAdd \cap Reached(rib, children)[x.name]
           /\ x.face \notin DOMAIN rib[x.name].routes
  BY AddedBelowType
<1>2. \A n \in DOMAIN rib, g \in Faces :
        g \in Reached(rib, children)[n] <=> Passes(rib, name, n, g)
  BY BelowReached DEF Passes
<1>3. \A n \in DOMAIN rib : \A g : Passes(rib, name, n, g) => g \notin DOMAIN rib[n].routes
  <2> \A n \in DOMAIN rib : isPrefixOf(n, n)
    BY RibTypes, NameOrder
  <2> QED  BY DEF Passes
<1>4. DOMAIN toAdd \subseteq Faces
  BY DEF IsCostMap
<1> HIDE DEF added, children
<1>5. \A x \in added : x.action = "add"
  <2> TAKE x \in added
  <2> x = [action |-> "add", name |-> x.name, face |-> x.face, cost |-> toAdd[x.face]]
    BY <1>1
  <2> QED  BY SMTT(60)
<1>6. ASSUME NEW n, NEW g
      PROVE  Touches(added, n, g) <=>
               n \in DOMAIN rib /\ g \in DOMAIN toAdd /\ Passes(rib, name, n, g)
  <2>1. ASSUME Touches(added, n, g)
        PROVE  n \in DOMAIN rib /\ g \in DOMAIN toAdd /\ Passes(rib, name, n, g)
    <3> PICK x \in added : x.name = n /\ x.face = g
      BY <2>1 DEF Touches
    <3> QED  BY <1>1, <1>2, <1>4
  <2> ASSUME n \in DOMAIN rib, g \in DOMAIN toAdd, Passes(rib, name, n, g)
      PROVE  Touches(added, n, g)
    <3> DEFINE x == [action |-> "add", name |-> n, face |-> g, cost |-> toAdd[g]]
    <3> x.name = n /\ x.face = g
        /\ x = [action |-> "add", name |-> x.name, face |-> x.face, cost |-> toAdd[x.face]]
      OBVIOUS
    <3> HIDE DEF x
    <3> x \in added
      BY <1>1, <1>2, <1>3, <1>4
    <3> QED  BY DEF Touches
  <2> QED  BY <2>1
<1> QED  BY <1>1, <1>5, <1>6 DEF added, children

\* What traverseSubTree removes below a name.
LEMMA RemovedBelowEffect ==
  ASSUME LibraryFacts,
         Defaults, NEW rib \in Ribs, Tree(rib), Plain(rib), NEW name \in Names,
         NEW toRemove, toRemove \subseteq Faces
  PROVE  LET removed == RemovedBelow(rib, ChildrenOf(rib, name), toRemove)
         IN /\ removed \subseteq FibUpdates /\ OneForEach(removed)
            /\ \A x \in removed : x.action = "remove"
            /\ \A n, g : Touches(removed, n, g) <=>
                 /\ n \in DOMAIN rib /\ g \in toRemove /\ Passes(rib, name, n, g)
                 /\ rib[n].inherited[g] > 0
<1> DEFINE children == ChildrenOf(rib, name)
           removed == RemovedBelow(rib, children, toRemove)
<1>1. /\ removed \subseteq FibUpdates /\ OneForEach(removed)
      /\ \A x : x \in removed <=>
           /\ x = [action |-> "remove", name |-> x.name, face |-> x.face, cost |-> 0]
           /\ x.name \in DOMAIN rib
           /\ x.face \in toRemove \cap Reached(rib, children)[x.name]
           /\ hasInheritedRoute(rib[x.name], x.face)
  BY RemovedBelowType
<1>2. \A n \in DOMAIN rib, g \in Faces :
        g \in Reached(rib, children)[n] <=> Passes(rib, name, n, g)
  BY BelowReached DEF Passes
<1>3. \A n, g : hasInheritedRoute(rib[n], g) <=> rib[n].inherited[g] > 0
  BY DEF hasInheritedRoute
<1> HIDE DEF removed, children
<1>4. \A x \in removed : x.action = "remove"
  <2> TAKE x \in removed
  <2> x = [action |-> "remove", name |-> x.name, face |-> x.face, cost |-> 0]
    BY <1>1
  <2> QED  BY SMTT(60)
<1>5. ASSUME NEW n, NEW g
      PROVE  Touches(removed, n, g) <=>
               /\ n \in DOMAIN rib /\ g \in toRemove /\ Passes(rib, name, n, g)
               /\ rib[n].inherited[g] > 0
  <2>1. ASSUME Touches(removed, n, g)
        PROVE  /\ n \in DOMAIN rib /\ g \in toRemove /\ Passes(rib, name, n, g)
               /\ rib[n].inherited[g] > 0
    <3> PICK x \in removed : x.name = n /\ x.face = g
      BY <2>1 DEF Touches
    <3> QED  BY <1>1, <1>2, <1>3
  <2> ASSUME n \in DOMAIN rib, g \in toRemove, Passes(rib, name, n, g), rib[n].inherited[g] > 0
      PROVE  Touches(removed, n, g)
    <3> DEFINE x == [action |-> "remove", name |-> n, face |-> g, cost |-> 0]
    <3> x.name = n /\ x.face = g
        /\ x = [action |-> "remove", name |-> x.name, face |-> x.face, cost |-> 0]
      OBVIOUS
    <3> HIDE DEF x
    <3> x \in removed
      BY <1>1, <1>2, <1>3
    <3> QED  BY DEF Touches
  <2> QED  BY <2>1
<1> QED  BY <1>1, <1>4, <1>5 DEF removed, children

\* What modifyChildrensInheritedRoutes adds and removes at n.
AddsBelow(rib, name, toAdd, n, g) ==
  n \in DOMAIN rib /\ g \in DOMAIN toAdd /\ Passes(rib, name, n, g)

\* The routes it removes at n.
RemovesBelow(rib, name, toRemove, n, g) ==
  n \in DOMAIN rib /\ g \in toRemove /\ Passes(rib, name, n, g) /\ rib[n].inherited[g] > 0

\* The records of the entries below name are still those of rib.
SameBelow(records, rib, name) ==
  \A n \in DOMAIN rib : isProperPrefixOf(name, n) =>
    n \in DOMAIN records /\ \A g \in Faces : records[n][g] = rib[n].inherited[g]

\* What modifyChildrensInheritedRoutes sends and records.
Below(v, u, rib, name, toAdd, toRemove, first, last) ==
  LET Adds(n, g) == AddsBelow(rib, name, toAdd, n, g)
      Removes(n, g) == RemovesBelow(rib, name, toRemove, n, g)
  IN /\ v \in Updaters
     /\ \A n, g, value :
          /\ Adds(n, g) => After(Pending(v), n, g, value) \in Nat
          /\ ~Adds(n, g) /\ Removes(n, g) => After(Pending(v), n, g, value) = Absent
          /\ ~Adds(n, g) /\ ~Removes(n, g) =>
               After(Pending(v), n, g, value) = After(Pending(u), n, g, value)
     /\ \E next : /\ Leads(v.inherited, first, next)
                  /\ DOMAIN next = DOMAIN last
                  /\ Counts(next)
                  /\ \A n \in DOMAIN last, g \in Faces :
                       next[n][g] = (IF Removes(n, g) THEN last[n][g] - 1 ELSE last[n][g])
                                      + (IF Adds(n, g) THEN 1 ELSE 0)

\* modifyChildrensInheritedRoutes does that.
LEMMA ChildrenStep ==
  ASSUME LibraryFacts,
         Defaults, NEW rib \in Ribs, Tree(rib), Plain(rib), NEW name \in Names,
         NEW u \in Updaters, NEW toAdd, IsCostMap(toAdd), NEW toRemove, toRemove \subseteq Faces,
         NEW first, NEW last, Leads(u.inherited, first, last), Counts(last),
         SameBelow(last, rib, name)
  PROVE  Below(modifyChildrensInheritedRoutes(rib, ChildrenOf(rib, name), toAdd, toRemove, u),
               u, rib, name, toAdd, toRemove, first, last)
<1> DEFINE removed == RemovedBelow(rib, ChildrenOf(rib, name), toRemove)
           added   == AddedBelow(rib, ChildrenOf(rib, name), toAdd)
           Adds(n, g) == AddsBelow(rib, name, toAdd, n, g)
           Removes(n, g) == RemovesBelow(rib, name, toRemove, n, g)
           m == modifyInherited(u, removed)
           v == modifyInherited(m, added)
<1>1. modifyChildrensInheritedRoutes(rib, ChildrenOf(rib, name), toAdd, toRemove, u) = v
  BY ChildrenType
<1>2. /\ removed \subseteq FibUpdates /\ OneForEach(removed)
      /\ \A x \in removed : x.action = "remove"
      /\ \A n, g : Touches(removed, n, g) <=> Removes(n, g)
  BY RemovedBelowEffect DEF RemovesBelow
<1>3. /\ added \subseteq FibUpdates /\ OneForEach(added)
      /\ \A x \in added : x.action = "add"
      /\ \A n, g : Touches(added, n, g) <=> Adds(n, g)
  BY AddedBelowEffect DEF AddsBelow
<1>4. \A n, g : /\ Removes(n, g) => n \in DOMAIN last /\ (g \in Faces => last[n][g] > 0)
                /\ Adds(n, g) => n \in DOMAIN last
  BY DEF RemovesBelow, AddsBelow, SameBelow, Passes
<1> HIDE DEF removed, added, Adds, Removes
<1>5. CanRecord(last, removed)
  <2> SUFFICES ASSUME NEW x \in removed PROVE x.name \in DOMAIN last /\ last[x.name][x.face] > 0
    BY DEF CanRecord
  <2> Removes(x.name, x.face) /\ x.face \in Faces
    BY <1>2 DEF Touches, FibUpdates
  <2> QED  BY <1>4
<1>6. /\ m \in Updaters
      /\ \A n, g, value : After(Pending(m), n, g, value) =
                            After(removed, n, g, After(Pending(u), n, g, value))
      /\ \E next : /\ Leads(m.inherited, first, next)
                   /\ DOMAIN next = DOMAIN last
                   /\ \A n \in DOMAIN last, g \in Faces :
                        next[n][g] = RecordsAfter(n, g, last[n][g], removed)
  <2> Step(m, u, removed, first, last)
    BY <1>2, <1>5, RecordedStep
  <2> HIDE DEF m
  <2> QED  BY DEF Step
<1> HIDE DEF m
<1>7. PICK mid : /\ Leads(m.inherited, first, mid)
                 /\ DOMAIN mid = DOMAIN last
                 /\ \A n \in DOMAIN last, g \in Faces :
                      mid[n][g] = RecordsAfter(n, g, last[n][g], removed)
  BY <1>6
<1>8. CanRecord(mid, added)
  <2> SUFFICES ASSUME NEW x \in added PROVE x.name \in DOMAIN mid /\ x.action # "remove"
    BY DEF CanRecord
  <2> Adds(x.name, x.face)
    BY <1>3 DEF Touches
  <2> QED  BY <1>3, <1>4, <1>7
<1>9. /\ v \in Updaters
      /\ \A n, g, value : After(Pending(v), n, g, value) =
                            After(added, n, g, After(Pending(m), n, g, value))
      /\ \E next : /\ Leads(v.inherited, first, next)
                   /\ DOMAIN next = DOMAIN mid
                   /\ \A n \in DOMAIN mid, g \in Faces :
                        next[n][g] = RecordsAfter(n, g, mid[n][g], added)
  <2> Step(v, m, added, first, mid)
    BY <1>3, <1>6, <1>7, <1>8, RecordedStep
  <2> HIDE DEF v
  <2> QED  BY DEF Step
<1> HIDE DEF v
<1>10. PICK next : /\ Leads(v.inherited, first, next)
                   /\ DOMAIN next = DOMAIN mid
                   /\ \A n \in DOMAIN mid, g \in Faces :
                        next[n][g] = RecordsAfter(n, g, mid[n][g], added)
  BY <1>9
<1>11. ASSUME NEW n, NEW g, NEW value
       PROVE  /\ Adds(n, g) => After(Pending(v), n, g, value) \in Nat
              /\ ~Adds(n, g) /\ Removes(n, g) => After(Pending(v), n, g, value) = Absent
              /\ ~Adds(n, g) /\ ~Removes(n, g) =>
                   After(Pending(v), n, g, value) = After(Pending(u), n, g, value)
  <2> /\ Adds(n, g) => After(added, n, g, After(Pending(m), n, g, value)) \in Nat
      /\ ~Adds(n, g) => After(added, n, g, After(Pending(m), n, g, value)) = After(Pending(m), n, g, value)
    BY <1>3, AddEffect
  <2> /\ Removes(n, g) => After(removed, n, g, After(Pending(u), n, g, value)) = Absent
      /\ ~Removes(n, g) => After(removed, n, g, After(Pending(u), n, g, value)) = After(Pending(u), n, g, value)
    BY SMTT(60), <1>2, RemoveEffect
  <2> QED  BY SMTT(60), <1>6, <1>9
<1>12. ASSUME NEW n \in DOMAIN last, NEW g \in Faces
       PROVE  /\ next[n][g] = (IF Removes(n, g) THEN last[n][g] - 1 ELSE last[n][g])
                                + (IF Adds(n, g) THEN 1 ELSE 0)
              /\ next[n][g] \in Nat
  <2>1. /\ Adds(n, g) => RecordsAfter(n, g, mid[n][g], added) = mid[n][g] + 1
        /\ ~Adds(n, g) => RecordsAfter(n, g, mid[n][g], added) = mid[n][g]
    BY <1>3, AddEffect
  <2>2. /\ Removes(n, g) => RecordsAfter(n, g, last[n][g], removed) = last[n][g] - 1
        /\ ~Removes(n, g) => RecordsAfter(n, g, last[n][g], removed) = last[n][g]
    BY <1>2, RemoveEffect
  <2> last[n][g] \in Nat /\ (Removes(n, g) => last[n][g] > 0)
    BY <1>4 DEF Counts
  <2> mid[n][g] = RecordsAfter(n, g, last[n][g], removed)
      /\ next[n][g] = RecordsAfter(n, g, mid[n][g], added)
    BY <1>7, <1>10
  <2> QED  BY SMTT(60), <2>1, <2>2
<1> DOMAIN next = DOMAIN last /\ Counts(next)
  BY <1>7, <1>10, <1>12 DEF Counts
<1> Below(v, u, rib, name, toAdd, toRemove, first, last)
  BY <1>9, <1>10, <1>11, <1>12 DEF Adds, Removes, Below
<1> QED  BY <1>1 DEF v

-----------------------------------------------------------------------------
(* A route is inserted                                                     *)

\* Rib::insert under the default flags.
LEMMA InsertedRoutes ==
  ASSUME LibraryFacts,
         NEW rib \in Ribs, Tree(rib), NEW name \in Names, NEW f \in Faces, NEW route \in Routes,
         Defaults, Plain(rib)
  PROVE  HasInserted(InsertRoute(rib, name, f, route), rib, name, f, route)
<1> DEFINE new == InsertRoute(rib, name, f, route)
<1> new \in Ribs /\ Tree(new) /\ Inserted(new, rib, name, f, route)
  BY InsertRouteRib
<1>1. ~route.cap
  BY DefaultRoutes
<1> HIDE DEF new
<1>2. DOMAIN new = DOMAIN rib \cup {name}
  BY DEF Inserted
<1>3. Plain(new)
  <2> SUFFICES ASSUME NEW n \in DOMAIN new PROVE new[n].capture = 0
    BY DEF Plain
  <2> CASE n = name
    BY <1>1 DEF Inserted, Plain
  <2> CASE n # name
    BY <1>2 DEF Inserted, Plain
  <2> QED  OBVIOUS
<1>4. ASSUME NEW n, NEW g
      PROVE  HasRoute(new, n, g) <=> HasRoute(rib, n, g) \/ (n = name /\ g = f)
  <2> CASE n = name
    BY <1>2 DEF Inserted, HasRoute
  <2> CASE n # name
    BY <1>2 DEF Inserted, HasRoute
  <2> QED  OBVIOUS
<1>5. new[name].routes[f].cost = route.cost
  BY DEF Inserted
<1>6. ASSUME NEW n, NEW g, HasRoute(rib, n, g), n # name \/ g # f
      PROVE  new[n].routes[g].cost = rib[n].routes[g].cost
  <2> CASE n = name
    BY <1>6 DEF Inserted, HasRoute
  <2> CASE n # name
    BY <1>6 DEF Inserted, HasRoute
  <2> QED  OBVIOUS
<1> /\ DOMAIN Recorded(new) = DOMAIN rib \cup {name}
    /\ \A n \in DOMAIN new : Recorded(new)[n] = new[n].inherited
  BY <1>2 DEF Recorded
<1>7. Counts(Recorded(new))
  <2> \A n \in DOMAIN new : new[n].inherited \in [Faces -> Nat]
    BY EntryTypes
  <2> QED  BY <1>2 DEF Counts
<1> \A n \in DOMAIN rib, g \in Faces : Recorded(new)[n][g] = rib[n].inherited[g]
  BY <1>2 DEF Inserted
<1> name \notin DOMAIN rib => \A g \in Faces : Recorded(new)[name][g] = 0
  BY SMTT(60), <1>2 DEF Inserted
<1> QED  BY <1>2, <1>3, <1>4, <1>5, <1>6, <1>7 DEF new, HasInserted

\* createFibUpdatesForNewRibEntry plans what the new RIB needs.
LEMMA NewRibEntryPlanned ==
  ASSUME LibraryFacts, Defaults, NEW rib \in Ribs, Tree(rib), Plain(rib), Complete(rib),
         NEW name \in Names, name \notin DOMAIN rib, NEW f \in Faces, NEW route \in Routes, 
         NEW new, HasInserted(new, rib, name, f, route),
         NEW table, Match(rib, table)
  PROVE  Planned(new,
                 createFibUpdatesForNewRibEntry(rib, name, f, route, NoUpdates(f)), table)
<1> DEFINE first == Recorded(new)
           ancestors == getAncestorRoutes(rib, findParent(rib, name))
           self  == AddUpdates(name, Single(f, route.cost))
           other == Restrict(ancestors, DOMAIN ancestors \ {f})
           inh   == AddUpdates(name, other)
           u0 == NoUpdates(f)
           u1 == addFibUpdates(u0, self)
           u2 == modifyInherited(u1, inh)
           toAdd == [x \in DOMAIN ancestors \cup {f} |-> IF x = f THEN route.cost ELSE ancestors[x]]
           v == modifyChildrensInheritedRoutes(rib, ChildrenOf(rib, name), toAdd, {}, u2)
<1>1. /\ DOMAIN new = DOMAIN rib \cup {name}
      /\ DOMAIN first = DOMAIN rib \cup {name}
      /\ Counts(first)
      /\ \A n \in DOMAIN rib, g \in Faces : first[n][g] = rib[n].inherited[g]
      /\ \A g \in Faces : first[name][g] = 0
  BY DEF HasInserted
<1>2. route.cost \in Nat /\ route.ci /\ ~route.cap
  BY RouteTypes, DefaultRoutes
<1>3. IsCostMap(ancestors) /\ \A g \in Faces : g \in DOMAIN ancestors <=> Above(rib, name, g)
  <2> /\ IsCostMap(ancestors)
      /\ \A g \in Faces : g \in DOMAIN ancestors <=>
           \E a \in DOMAIN rib : isProperPrefixOf(a, name) /\ g \in DOMAIN rib[a].routes
    BY AncestorFaces
  <2> HIDE DEF ancestors
  <2> QED  BY DEF Above, HasRoute
<1>4. createFibUpdatesForNewRibEntry(rib, name, f, route, u0) = v
  BY <1>2 DEF createFibUpdatesForNewRibEntry, ChildrenOf, addInheritedRoutes
<1> HIDE DEF first, ancestors
<1>5. /\ self \subseteq FibUpdates /\ OneForEach(self)
      /\ \A w : After(self, name, f, w) = route.cost
      /\ \A n, g, w : n # name \/ g # f => After(self, n, g, w) = w
  BY SMTT(60), <1>2, OwnStep
<1>6. /\ IsCostMap(other) /\ DOMAIN other = DOMAIN ancestors \ {f}
      /\ IsCostMap(toAdd) /\ DOMAIN toAdd = DOMAIN ancestors \cup {f}
  BY <1>2, <1>3 DEF IsCostMap, Restrict
<1> HIDE DEF self, other, toAdd
<1>7. /\ inh \subseteq FibUpdates /\ OneForEach(inh)
      /\ \A x \in inh : x.action = "add"
      /\ \A n, g : Touches(inh, n, g) <=> n = name /\ g \in DOMAIN ancestors \ {f}
  BY SMTT(60), <1>6, AddUpdatesEffect
<1> HIDE DEF inh
<1>8. /\ u0 \in Updaters
      /\ Leads(u0.inherited, first, first)
      /\ \A n, g, w : After(Pending(u0), n, g, w) = w
  BY NoUpdatesStep
<1> HIDE DEF u0
<1>9. /\ u1 \in Updaters /\ u1.inherited = u0.inherited
      /\ \A n, g, w : After(Pending(u1), n, g, w) = After(self, n, g, w)
  BY SMTT(60), <1>5, <1>8, FibStep
<1>10. CanRecord(first, inh)
  <2> SUFFICES ASSUME NEW x \in inh PROVE x.name \in DOMAIN first /\ x.action # "remove"
    BY DEF CanRecord
  <2> Touches(inh, x.name, x.face)
    BY DEF Touches
  <2> QED  BY <1>1, <1>7
<1> HIDE DEF u1
<1>11. Step(u2, u1, inh, first, first)
  BY <1>7, <1>8, <1>9, <1>10, RecordedStep
<1> HIDE DEF u2
<1>12. /\ u2 \in Updaters
       /\ \A n, g, w : After(Pending(u2), n, g, w) = After(inh, n, g, After(self, n, g, w))
  BY SMTT(60), <1>9, <1>11 DEF Step
<1>13. PICK mid : /\ Leads(u2.inherited, first, mid)
                  /\ DOMAIN mid = DOMAIN first
                  /\ \A n \in DOMAIN first, g \in Faces :
                       mid[n][g] = RecordsAfter(n, g, first[n][g], inh)
  BY <1>11 DEF Step
<1> DEFINE Inh(n, g) == n = name /\ g \in DOMAIN ancestors \ {f}
<1>14. \A n, g, w : /\ Inh(n, g) => After(inh, n, g, w) \in Nat
                    /\ ~Inh(n, g) => After(inh, n, g, w) = w
  BY <1>7, AddEffect
<1>15. \A n \in DOMAIN first, g \in Faces :
         mid[n][g] = IF Inh(n, g) THEN first[n][g] + 1 ELSE first[n][g]
  <2> TAKE n \in DOMAIN first, g \in Faces
  <2> DEFINE c == first[n][g]
  <2> HIDE DEF c
  <2>1. inh \subseteq FibUpdates /\ OneForEach(inh) /\ \A x \in inh : x.action = "add"
    BY <1>7
  <2> /\ Touches(inh, n, g) => RecordsAfter(n, g, c, inh) = c + 1
      /\ ~Touches(inh, n, g) => RecordsAfter(n, g, c, inh) = c
    BY <2>1, AddEffect
  <2> mid[n][g] = RecordsAfter(n, g, c, inh)
    BY <1>13 DEF c
  <2> QED  BY <1>7 DEF c
<1>16. Counts(mid)
  BY SMTT(60), <1>1, <1>13, <1>15 DEF Counts
<1>17. SameBelow(mid, rib, name)
  BY <1>1, <1>13, <1>15 DEF SameBelow, isProperPrefixOf
<1>18. /\ v \in Updaters
       /\ \A n, g, w :
            /\ AddsBelow(rib, name, toAdd, n, g) => After(Pending(v), n, g, w) \in Nat
            /\ ~AddsBelow(rib, name, toAdd, n, g) =>
                 After(Pending(v), n, g, w) = After(Pending(u2), n, g, w)
       /\ \E last : /\ Leads(v.inherited, first, last)
                    /\ DOMAIN last = DOMAIN mid
                    /\ \A n \in DOMAIN mid, g \in Faces :
                         last[n][g] = mid[n][g] + (IF AddsBelow(rib, name, toAdd, n, g) THEN 1 ELSE 0)
  <2>1. \A n, g : ~RemovesBelow(rib, name, {}, n, g)
    BY DEF RemovesBelow
  <2> Below(v, u2, rib, name, toAdd, {}, first, mid)
    BY <1>6, <1>12, <1>13, <1>16, <1>17, ChildrenStep
  <2> HIDE DEF v
  <2>2. v \in Updaters
    BY DEF Below
  <2>3. ASSUME NEW n, NEW g, NEW w
        PROVE  /\ AddsBelow(rib, name, toAdd, n, g) => After(Pending(v), n, g, w) \in Nat
               /\ ~AddsBelow(rib, name, toAdd, n, g) =>
                    After(Pending(v), n, g, w) = After(Pending(u2), n, g, w)
    BY <2>1 DEF Below
  <2> \E last : /\ Leads(v.inherited, first, last)
               /\ DOMAIN last = DOMAIN mid
               /\ \A n \in DOMAIN mid, g \in Faces :
                    last[n][g] = mid[n][g] + (IF AddsBelow(rib, name, toAdd, n, g) THEN 1 ELSE 0)
    BY <2>1 DEF Below
  <2> QED  BY <2>2, <2>3
<1> HIDE DEF v, Inh
<1>19. PICK last : /\ Leads(v.inherited, first, last)
                   /\ DOMAIN last = DOMAIN mid
                   /\ \A n \in DOMAIN mid, g \in Faces :
                        last[n][g] = mid[n][g] + (IF AddsBelow(rib, name, toAdd, n, g) THEN 1 ELSE 0)
  BY <1>18
<1> DEFINE faces == DOMAIN toAdd
<1>20. \A n, g : AddsBelow(rib, name, toAdd, n, g) <=>
         n \in DOMAIN rib /\ g \in faces /\ Passes(rib, name, n, g)
  BY DEF AddsBelow
<1>21. \A g : ~AddsBelow(rib, name, toAdd, name, g)
  BY DEF AddsBelow, Passes, isProperPrefixOf
<1>22. f \in faces /\ \A g \in faces : g = f \/ Above(rib, name, g)
  BY <1>3, <1>6 DEF IsCostMap
<1> HIDE DEF faces
<1>23. \A w : After(Pending(v), name, f, w) = route.cost
  <2> TAKE w
  <2>1. After(Pending(v), name, f, w) = After(inh, name, f, After(self, name, f, w))
    BY SMTT(60), <1>12, <1>18, <1>21
  <2> ~Inh(name, f)
    BY DEF Inh
  <2> After(inh, name, f, After(self, name, f, w)) = After(self, name, f, w)
    BY <1>14
  <2> QED  BY <1>5, <2>1
<1>24. ASSUME NEW n \in Names, NEW g \in Faces, n # name
       PROVE  IF n \in DOMAIN rib /\ g \in faces /\ Passes(rib, name, n, g)
                THEN After(Pending(v), n, g, table[n][g]) # Absent /\ last[n][g] > 0
                ELSE /\ After(Pending(v), n, g, table[n][g]) = table[n][g]
                     /\ n \in DOMAIN rib => last[n][g] = rib[n].inherited[g]
  <2>1. CASE AddsBelow(rib, name, toAdd, n, g)
    <3>1. n \in DOMAIN rib
      BY <1>20, <2>1
    <3> mid[n][g] \in Nat /\ last[n][g] = mid[n][g] + 1
      BY <1>1, <1>13, <1>16, <1>19, <2>1, <3>1 DEF Counts
    <3> After(Pending(v), n, g, table[n][g]) # Absent
      BY SMTT(60), <1>18, <2>1 DEF Absent
    <3> QED  BY SMTT(60), <1>20, <2>1
  <2>2. CASE ~AddsBelow(rib, name, toAdd, n, g)
    <3>1. After(Pending(v), n, g, table[n][g]) = table[n][g]
      <4> DEFINE w == table[n][g]
      <4> HIDE DEF w
      <4>1. After(Pending(v), n, g, w) = After(inh, n, g, After(self, n, g, w))
        BY SMTT(60), <1>12, <1>18, <2>2
      <4> After(self, n, g, w) = w
        BY <1>5, <1>24
      <4> After(inh, n, g, w) = w
        BY <1>14, <1>24 DEF Inh
      <4> QED  BY <4>1 DEF w
    <3> n \in DOMAIN rib => last[n][g] = rib[n].inherited[g]
      <4> SUFFICES ASSUME n \in DOMAIN rib PROVE last[n][g] = rib[n].inherited[g]
        OBVIOUS
      <4> n \in DOMAIN mid /\ n \in DOMAIN first /\ mid[n][g] \in Nat
        BY <1>1, <1>13, <1>16 DEF Counts
      <4> last[n][g] = mid[n][g]
        BY SMTT(60), <1>19, <2>2
      <4> QED  BY <1>1, <1>15, <1>24 DEF Inh
    <3> QED  BY <1>20, <2>2, <3>1
  <2> QED  BY <2>1, <2>2
<1>25. ASSUME NEW g \in Faces \ {f}
       PROVE  IF Above(rib, name, g)
                THEN After(Pending(v), name, g, table[name][g]) # Absent /\ last[name][g] > 0
                ELSE After(Pending(v), name, g, table[name][g]) = table[name][g]
  <2>1. After(Pending(v), name, g, table[name][g]) = After(inh, name, g, table[name][g])
    BY SMTT(60), <1>5, <1>12, <1>18, <1>21
  <2>2. CASE Above(rib, name, g)
    <3> g \in DOMAIN ancestors \ {f}
      BY <1>3, <2>2
    <3>1. After(inh, name, g, table[name][g]) \in Nat
      BY <1>14 DEF Inh
    <3> last[name][g] = first[name][g] + 1 /\ first[name][g] = 0
      <4> mid[name][g] = first[name][g] + 1 /\ first[name][g] = 0
        BY <1>1, <1>15 DEF Inh
      <4> QED  BY SMTT(60), <1>1, <1>13, <1>19, <1>21
    <3> QED  BY SMTT(60), <2>1, <2>2, <3>1 DEF Absent
  <2> CASE ~Above(rib, name, g)
    BY <1>3, <1>14, <2>1 DEF Inh
  <2> QED  BY <2>2
<1> InsertEffect(new, rib, name, f, route, v, table, faces)
  BY <1>1, <1>13, <1>19, <1>23, <1>24, <1>25 DEF InsertEffect, first
<1> Planned(new, v, table)
  BY <1>22, InsertPlanned
<1> QED  BY <1>4 DEF u0

\* A registration for an entry that exists: below it, the face of the route.
LEMMA ExistingPlanned ==
  ASSUME Defaults, NEW rib \in Ribs, Tree(rib), Plain(rib), Complete(rib),
         NEW name \in DOMAIN rib, NEW f \in Faces, NEW route \in Routes, 
         NEW new, HasInserted(new, rib, name, f, route),
         NEW table, Match(rib, table), NEW v, NEW last,
         After(Pending(v), name, f, table[name][f]) = route.cost,
         \A n, g : n # name \/ g # f =>
           /\ g = f /\ Passes(rib, name, n, g) /\ n \in DOMAIN rib =>
                After(Pending(v), n, g, table[n][g]) # Absent /\ last[n][g] > 0
           /\ ~(g = f /\ Passes(rib, name, n, g) /\ n \in DOMAIN rib) =>
                /\ After(Pending(v), n, g, table[n][g]) = table[n][g]
                /\ n \in DOMAIN rib /\ g \in Faces => last[n][g] = rib[n].inherited[g],
         Leads(v.inherited, Recorded(new), last),
         DOMAIN last = DOMAIN rib
  PROVE  Planned(new, v, table)
<1> DEFINE Will(n, g) == After(Pending(v), n, g, table[n][g])
<1>1. name \in Names
  BY RibTypes
<1>2. DOMAIN new = DOMAIN rib
  BY DEF HasInserted
<1>3. \A g : ~Passes(rib, name, name, g)
  BY DEF Passes, isProperPrefixOf
<1> HIDE DEF Will
<1>4. ASSUME NEW n \in Names, NEW g \in Faces, n # name
      PROVE  IF n \in DOMAIN rib /\ g \in {f} /\ Passes(rib, name, n, g)
               THEN Will(n, g) # Absent /\ last[n][g] > 0
               ELSE /\ Will(n, g) = table[n][g]
                    /\ n \in DOMAIN rib => last[n][g] = rib[n].inherited[g]
  BY <1>4 DEF Will
<1>5. ASSUME NEW g \in Faces \ {f}
      PROVE  Will(name, g) = table[name][g] /\ last[name][g] = rib[name].inherited[g]
  BY <1>3 DEF Will
<1>6. Will(name, f) = route.cost
  BY DEF Will
<1> Leads(v.inherited, Recorded(new), last)
  OBVIOUS
<1> InsertEffect(new, rib, name, f, route, v, table, {f})
  BY <1>2, <1>4, <1>5, <1>6 DEF InsertEffect, Will
<1> QED  BY SMTT(60), <1>1, InsertPlanned

\* What the children of an existing entry are sent when one of its routes is new
\* or has a new cost: that route, as far as no entry on the way shields it.
SentBelow(new, v, u, rib, name, f) ==
  LET Adds(n, g) == g = f /\ Passes(rib, name, n, g) /\ n \in DOMAIN rib
  IN /\ v \in Updaters
     /\ \A n, g, w : /\ Adds(n, g) => After(Pending(v), n, g, w) \in Nat
                     /\ ~Adds(n, g) => After(Pending(v), n, g, w) = After(Pending(u), n, g, w)
     /\ \E last : /\ Leads(v.inherited, Recorded(new), last)
                  /\ DOMAIN last = DOMAIN rib
                  /\ \A n \in DOMAIN rib, g \in Faces :
                       /\ Adds(n, g) => last[n][g] > 0
                       /\ ~Adds(n, g) => last[n][g] = rib[n].inherited[g]

\* modifyChildrensInheritedRoutes sends them that.
LEMMA SelfBelow ==
  ASSUME LibraryFacts,
         Defaults, NEW rib \in Ribs, Tree(rib), Plain(rib), NEW name \in DOMAIN rib,
         NEW f \in Faces, NEW route \in Routes, NEW new, HasInserted(new, rib, name, f, route),
         NEW u \in Updaters, Leads(u.inherited, Recorded(new), Recorded(new))
  PROVE  SentBelow(new, modifyChildrensInheritedRoutes(rib, rib[name].children,
                          Single(f, route.cost), {}, u), u, rib, name, f)
<1> DEFINE first == Recorded(new)
           toAdd == Single(f, route.cost)
           v == modifyChildrensInheritedRoutes(rib, rib[name].children, toAdd, {}, u)
           Adds(n, g) == g = f /\ Passes(rib, name, n, g) /\ n \in DOMAIN rib
<1>1. name \in Names
  BY RibTypes
<1>2. /\ DOMAIN first = DOMAIN rib
      /\ Counts(first)
      /\ \A n \in DOMAIN rib, g \in Faces : first[n][g] = rib[n].inherited[g]
  BY DEF HasInserted
<1>3. IsCostMap(toAdd) /\ DOMAIN toAdd = {f}
  <2> route.cost \in Nat
    BY RouteTypes
  <2> QED  BY SingleType DEF Single
<1>4. ChildrenOf(rib, name) = rib[name].children
  BY DEF ChildrenOf
<1> HIDE DEF first, toAdd
<1>5. SameBelow(first, rib, name)
  BY <1>2 DEF SameBelow
<1>6. Leads(u.inherited, first, first)
  BY DEF first
<1>7. Below(v, u, rib, name, toAdd, {}, first, first)
  BY <1>1, <1>2, <1>3, <1>4, <1>5, <1>6, ChildrenStep
<1>8. \A n, g : /\ ~RemovesBelow(rib, name, {}, n, g)
                /\ AddsBelow(rib, name, toAdd, n, g) <=> Adds(n, g)
  BY <1>3 DEF RemovesBelow, AddsBelow
<1> HIDE DEF v, Adds
<1>9. v \in Updaters
  BY <1>7 DEF Below
<1>10. ASSUME NEW n, NEW g, NEW w
       PROVE  /\ Adds(n, g) => After(Pending(v), n, g, w) \in Nat
              /\ ~Adds(n, g) => After(Pending(v), n, g, w) = After(Pending(u), n, g, w)
  BY <1>7, <1>8 DEF Below
<1> PICK last : /\ Leads(v.inherited, first, last)
                /\ DOMAIN last = DOMAIN rib
                /\ \A n \in DOMAIN rib, g \in Faces :
                     last[n][g] = first[n][g] + (IF Adds(n, g) THEN 1 ELSE 0)
  BY SMTT(60), <1>2, <1>7, <1>8 DEF Below
<1>11. ASSUME NEW n \in DOMAIN rib, NEW g \in Faces
       PROVE  /\ Adds(n, g) => last[n][g] > 0
              /\ ~Adds(n, g) => last[n][g] = rib[n].inherited[g]
  <2> first[n][g] \in Nat /\ first[n][g] = rib[n].inherited[g]
    BY <1>2 DEF Counts
  <2> QED  BY SMTT(60)
<1> SentBelow(new, v, u, rib, name, f)
  BY SMTT(60), <1>9, <1>10, <1>11 DEF SentBelow, Adds, first
<1> QED  BY DEF v, toAdd

\* createFibUpdatesForNewRoute plans what the new RIB needs.
LEMMA NewRoutePlanned ==
  ASSUME LibraryFacts, Defaults, NEW rib \in Ribs, Tree(rib), Plain(rib), Complete(rib),
         NEW name \in DOMAIN rib, NEW f \in Faces, NEW route \in Routes, 
         NEW new, HasInserted(new, rib, name, f, route),
         NEW table, Match(rib, table)
  PROVE  Planned(new,
                 createFibUpdatesForNewRoute(rib, name, f, route, NoUpdates(f)), table)
<1> DEFINE first == Recorded(new)
           self == AddUpdates(name, Single(f, route.cost))
           u0 == NoUpdates(f)
           u2 == modifyChildrensInheritedRoutes(rib, rib[name].children, Single(f, route.cost), {}, u0)
           v == addFibUpdates(u2, self)
           Adds(n, g) == g = f /\ Passes(rib, name, n, g) /\ n \in DOMAIN rib
<1>1. name \in Names /\ route.cost \in Nat /\ route.ci /\ ~route.cap
  BY RibTypes, RouteTypes, DefaultRoutes
<1>2. removeInheritedRoutes(u0, name, rib[name], {}) = u0
  BY DEF removeInheritedRoutes, RemoveUpdates, modifyInherited
<1>3. createFibUpdatesForNewRoute(rib, name, f, route, u0) = v
  BY <1>1, <1>2 DEF createFibUpdatesForNewRoute
<1>4. /\ u0 \in Updaters
      /\ Leads(u0.inherited, first, first)
      /\ \A n, g, w : After(Pending(u0), n, g, w) = w
  BY NoUpdatesStep
<1> HIDE DEF u0
<1>5. /\ u2 \in Updaters
      /\ \A n, g, w : /\ Adds(n, g) => After(Pending(u2), n, g, w) \in Nat
                      /\ ~Adds(n, g) => After(Pending(u2), n, g, w) = After(Pending(u0), n, g, w)
      /\ \E last : /\ Leads(u2.inherited, first, last)
                   /\ DOMAIN last = DOMAIN rib
                   /\ \A n \in DOMAIN rib, g \in Faces :
                        /\ Adds(n, g) => last[n][g] > 0
                        /\ ~Adds(n, g) => last[n][g] = rib[n].inherited[g]
  <2> SentBelow(new, u2, u0, rib, name, f)
    BY <1>4, SelfBelow
  <2> HIDE DEF u2
  <2> QED  BY DEF SentBelow
<1>6. /\ self \subseteq FibUpdates /\ OneForEach(self)
      /\ \A w : After(self, name, f, w) = route.cost
      /\ \A n, g, w : n # name \/ g # f => After(self, n, g, w) = w
  BY SMTT(60), <1>1, OwnStep
<1> HIDE DEF u2, self, first, Adds
<1>7. /\ v \in Updaters /\ v.inherited = u2.inherited
      /\ \A n, g, w : After(Pending(v), n, g, w) = After(self, n, g, After(Pending(u2), n, g, w))
  BY SMTT(60), <1>5, <1>6, FibStep
<1> HIDE DEF v
<1>8. PICK last : /\ Leads(u2.inherited, first, last)
                  /\ DOMAIN last = DOMAIN rib
                  /\ \A n \in DOMAIN rib, g \in Faces :
                       /\ Adds(n, g) => last[n][g] > 0
                       /\ ~Adds(n, g) => last[n][g] = rib[n].inherited[g]
  BY <1>5
<1>9. After(Pending(v), name, f, table[name][f]) = route.cost
  BY SMTT(60), <1>6, <1>7
<1>10. ASSUME NEW n, NEW g, n # name \/ g # f
       PROVE  /\ Adds(n, g) => After(Pending(v), n, g, table[n][g]) # Absent /\ last[n][g] > 0
              /\ ~Adds(n, g) =>
                   /\ After(Pending(v), n, g, table[n][g]) = table[n][g]
                   /\ n \in DOMAIN rib /\ g \in Faces => last[n][g] = rib[n].inherited[g]
  <2> DEFINE w == table[n][g]
  <2> HIDE DEF w
  <2>1. After(Pending(v), n, g, w) = After(Pending(u2), n, g, w)
    BY SMTT(60), <1>6, <1>7, <1>10
  <2> CASE Adds(n, g)
    <3> n \in DOMAIN rib /\ g \in Faces
      BY DEF Adds
    <3> After(Pending(u2), n, g, w) \in Nat
      BY <1>5
    <3> QED  BY SMTT(60), <1>8, <2>1 DEF w, Absent
  <2> CASE ~Adds(n, g)
    <3> After(Pending(u2), n, g, w) = w
      BY SMTT(60), <1>4, <1>5
    <3> QED  BY <1>8, <2>1 DEF w
  <2> QED  OBVIOUS
<1> Leads(v.inherited, Recorded(new), last)
  BY <1>7, <1>8 DEF first
<1> Planned(new, v, table)
  BY <1>8, <1>9, <1>10, ExistingPlanned DEF Adds
<1> QED  BY <1>3 DEF u0

\* createFibUpdatesForUpdatedRoute plans what the new RIB needs.
LEMMA UpdatedRoutePlanned ==
  ASSUME LibraryFacts, Defaults, NEW rib \in Ribs, Tree(rib), Plain(rib), Complete(rib),
         NEW name \in DOMAIN rib, NEW f \in Faces, f \in DOMAIN rib[name].routes,
         NEW route \in Routes, 
         NEW new, HasInserted(new, rib, name, f, route), NEW table, Match(rib, table)
  PROVE  Planned(new,
                 createFibUpdatesForUpdatedRoute(rib, name, f, route, NoUpdates(f)), table)
<1> DEFINE first == Recorded(new)
           self == AddUpdates(name, Single(f, route.cost))
           u0 == NoUpdates(f)
           u1 == addFibUpdates(u0, self)
           v == modifyChildrensInheritedRoutes(rib, rib[name].children, Single(f, route.cost), {}, u1)
           Adds(n, g) == g = f /\ Passes(rib, name, n, g) /\ n \in DOMAIN rib
<1>1. /\ name \in Names /\ route.cost \in Nat /\ route.ci /\ ~route.cap
      /\ rib[name].routes[f].ci /\ ~rib[name].routes[f].cap
  BY RibTypes, RouteTypes, EntryTypes, DefaultRoutes
<1>2. /\ u0 \in Updaters
      /\ Leads(u0.inherited, first, first)
      /\ \A n, g, w : After(Pending(u0), n, g, w) = w
  BY NoUpdatesStep
<1>3. CASE route.cost = rib[name].routes[f].cost
  <2>1. route.ci = rib[name].routes[f].ci /\ route.cap = rib[name].routes[f].cap
    BY <1>1, DefaultRoutes, EntryTypes, RouteTypes
  <2>2. createFibUpdatesForUpdatedRoute(rib, name, f, route, u0) = u0
    BY <1>3, <2>1 DEF createFibUpdatesForUpdatedRoute
  <2>3. /\ DOMAIN first = DOMAIN rib
        /\ \A n \in DOMAIN rib, g \in Faces : first[n][g] = rib[n].inherited[g]
    BY DEF HasInserted
  <2> HIDE DEF u0, first
  <2>4. HasRoute(rib, name, f)
    BY DEF HasRoute
  <2>5. table[name][f] = route.cost
    <3> Target(rib, name, f, table[name][f])
      BY <1>1 DEF Match
    <3> QED  BY <1>3, <2>4 DEF Target
  <2>6. ASSUME NEW n, NEW g
        PROVE  /\ Adds(n, g) => table[n][g] # Absent /\ first[n][g] > 0
               /\ n \in DOMAIN rib /\ g \in Faces => first[n][g] = rib[n].inherited[g]
    <3>1. ASSUME Adds(n, g) PROVE table[n][g] # Absent /\ first[n][g] > 0
      <4> n \in DOMAIN rib /\ n \in Names /\ g = f /\ isProperPrefixOf(name, n) /\ ~HasRoute(rib, n, g)
        BY <1>1, <3>1, RibTypes, PassesAbove
      <4> Inherits(rib, n, g)
        BY <2>4 DEF Inherits, Above
      <4> Target(rib, n, g, table[n][g])
        BY DEF Match
      <4> rib[n].inherited[g] > 0
        BY DEF Complete
      <4> QED  BY <2>3 DEF Target
    <3> QED  BY <2>3, <3>1
  <2>7. Leads(u0.inherited, Recorded(new), first)
    BY <1>2 DEF first
  <2> Planned(new, u0, table)
    <3>1. After(Pending(u0), name, f, table[name][f]) = route.cost
      BY <1>2, <2>5
    <3>2. ASSUME NEW n, NEW g, n # name \/ g # f
          PROVE  /\ Adds(n, g) => After(Pending(u0), n, g, table[n][g]) # Absent /\ first[n][g] > 0
                 /\ ~Adds(n, g) =>
                      /\ After(Pending(u0), n, g, table[n][g]) = table[n][g]
                      /\ n \in DOMAIN rib /\ g \in Faces => first[n][g] = rib[n].inherited[g]
      <4> After(Pending(u0), n, g, table[n][g]) = table[n][g]
        BY <1>2
      <4> HIDE DEF Adds
      <4> QED  BY <2>6
    <3> QED  BY <2>3, <2>7, <3>1, <3>2, ExistingPlanned
  <2> QED  BY <2>2 DEF u0
<1>4. CASE route.cost # rib[name].routes[f].cost
  <2>1. route.ci = rib[name].routes[f].ci /\ route.cap = rib[name].routes[f].cap
    BY <1>1, DefaultRoutes, EntryTypes, RouteTypes
  <2>2. createFibUpdatesForUpdatedRoute(rib, name, f, route, u0) = v
    BY <1>1, <1>4, <2>1 DEF createFibUpdatesForUpdatedRoute
  <2> HIDE DEF u0
  <2>3. /\ self \subseteq FibUpdates /\ OneForEach(self)
        /\ \A w : After(self, name, f, w) = route.cost
        /\ \A n, g, w : n # name \/ g # f => After(self, n, g, w) = w
    BY SMTT(60), <1>1, OwnStep
  <2> HIDE DEF self
  <2>4. /\ u1 \in Updaters /\ u1.inherited = u0.inherited
        /\ \A n, g, w : After(Pending(u1), n, g, w) = After(self, n, g, w)
    BY SMTT(60), <1>2, <2>3, FibStep
  <2> HIDE DEF u1
  <2>5. /\ v \in Updaters
        /\ \A n, g, w : /\ Adds(n, g) => After(Pending(v), n, g, w) \in Nat
                        /\ ~Adds(n, g) => After(Pending(v), n, g, w) = After(Pending(u1), n, g, w)
        /\ \E last : /\ Leads(v.inherited, first, last)
                     /\ DOMAIN last = DOMAIN rib
                     /\ \A n \in DOMAIN rib, g \in Faces :
                          /\ Adds(n, g) => last[n][g] > 0
                          /\ ~Adds(n, g) => last[n][g] = rib[n].inherited[g]
    <3> Leads(u1.inherited, first, first)
      BY <1>2, <2>4
    <3> SentBelow(new, v, u1, rib, name, f)
      BY <2>4, SelfBelow
    <3> HIDE DEF v
    <3> QED  BY DEF SentBelow
  <2> HIDE DEF v, first, Adds
  <2>6. PICK last : /\ Leads(v.inherited, first, last)
                    /\ DOMAIN last = DOMAIN rib
                    /\ \A n \in DOMAIN rib, g \in Faces :
                         /\ Adds(n, g) => last[n][g] > 0
                         /\ ~Adds(n, g) => last[n][g] = rib[n].inherited[g]
    BY <2>5
  <2>7. After(Pending(v), name, f, table[name][f]) = route.cost
    <3> ~Adds(name, f)
      BY DEF Adds, Passes, isProperPrefixOf
    <3> QED  BY SMTT(60), <2>3, <2>4, <2>5
  <2>8. ASSUME NEW n, NEW g, n # name \/ g # f
        PROVE  /\ Adds(n, g) => After(Pending(v), n, g, table[n][g]) # Absent /\ last[n][g] > 0
               /\ ~Adds(n, g) =>
                    /\ After(Pending(v), n, g, table[n][g]) = table[n][g]
                    /\ n \in DOMAIN rib /\ g \in Faces => last[n][g] = rib[n].inherited[g]
    <3> DEFINE w == table[n][g]
    <3> HIDE DEF w
    <3> CASE Adds(n, g)
      <4> n \in DOMAIN rib /\ g \in Faces
        BY DEF Adds
      <4> After(Pending(v), n, g, w) \in Nat
        BY <2>5
      <4> QED  BY SMTT(60), <2>6 DEF w, Absent
    <3> CASE ~Adds(n, g)
      <4> After(Pending(v), n, g, w) = After(Pending(u1), n, g, w)
        BY <2>5
      <4> After(Pending(u1), n, g, w) = w
        BY SMTT(60), <2>3, <2>4, <2>8
      <4> QED  BY <2>6 DEF w
    <3> QED  OBVIOUS
  <2> Leads(v.inherited, Recorded(new), last)
    BY <2>6 DEF first
  <2> Planned(new, v, table)
    BY <2>6, <2>7, <2>8, ExistingPlanned DEF Adds
  <2> QED  BY <2>2 DEF u0
<1> QED  BY <1>3, <1>4

-----------------------------------------------------------------------------
(* A route is erased                                                       *)

\* Rib::erase under the default flags.
LEMMA ErasedRoutes ==
  ASSUME LibraryFacts,
         Defaults, NEW rib \in Ribs, Tree(rib), Plain(rib), NEW name, NEW f, HasRoute(rib, name, f)
  PROVE  HasErased(EraseRoute(rib, name, f), rib, name, f)
<1> DEFINE new == EraseRoute(rib, name, f)
           left == DOMAIN rib[name].routes \ {f}
<1>1. name \in DOMAIN rib /\ f \in DOMAIN rib[name].routes
  BY DEF HasRoute
<1>2. new \in Ribs /\ Tree(new) /\ Erased(new, rib, name, f)
  BY <1>1, EraseRouteRib
<1>3. ~rib[name].routes[f].cap
  BY <1>1, EntryTypes, DefaultRoutes
<1> HIDE DEF new
<1>4. left = {} <=> DOMAIN rib[name].routes = {f}
  BY <1>1
<1>5. DOMAIN new = IF left = {} THEN DOMAIN rib \ {name} ELSE DOMAIN rib
  BY <1>2 DEF Erased
<1>6. \A n \in DOMAIN new : /\ new[n].inherited = rib[n].inherited
                            /\ n # name => /\ new[n].routes = rib[n].routes
                                           /\ new[n].capture = rib[n].capture
  BY <1>2 DEF Erased
<1>7. left # {} => /\ DOMAIN new[name].routes = left
                   /\ \A g \in left : new[name].routes[g] = rib[name].routes[g]
                   /\ new[name].capture = rib[name].capture
  BY <1>2, <1>3 DEF Erased
<1> HIDE DEF left
<1>8. Plain(new)
  <2> SUFFICES ASSUME NEW n \in DOMAIN new PROVE new[n].capture = 0
    BY DEF Plain
  <2> n \in DOMAIN rib /\ (n = name => left # {})
    BY <1>5
  <2> QED  BY <1>6, <1>7 DEF Plain
<1>9. ASSUME NEW n, NEW g
      PROVE  /\ HasRoute(new, n, g) <=> HasRoute(rib, n, g) /\ ~(n = name /\ g = f)
             /\ HasRoute(new, n, g) => new[n].routes[g].cost = rib[n].routes[g].cost
  <2> CASE n # name
    BY <1>5, <1>6 DEF HasRoute
  <2> CASE n = name
    BY <1>5, <1>7 DEF HasRoute, left
  <2> QED  OBVIOUS
<1> /\ DOMAIN Recorded(new) = DOMAIN new
    /\ \A n \in DOMAIN new : Recorded(new)[n] = new[n].inherited
  BY DEF Recorded
<1> Counts(Recorded(new))
  <2> \A n \in DOMAIN new : new[n].inherited \in [Faces -> Nat]
    BY <1>2, EntryTypes
  <2> QED  BY DEF Counts
<1> QED  BY <1>2, <1>4, <1>5, <1>6, <1>8, <1>9 DEF new, HasErased

\* The updates of an erased route before name's own inheritance.
ErasedBelow(new, u, rib, name, f) ==
  LET first == Recorded(new)
      Adds(n, g) == n \in DOMAIN rib /\ Above(rib, name, g) /\ Passes(rib, name, n, g)
      Removes(n, g) == n \in DOMAIN rib /\ g = f /\ Passes(rib, name, n, g) /\ rib[n].inherited[g] > 0
  IN /\ u \in Updaters
     /\ \A n, w : \A g \in Faces :
          /\ Adds(n, g) => After(Pending(u), n, g, w) \in Nat
          /\ ~Adds(n, g) /\ Removes(n, g) => After(Pending(u), n, g, w) = Absent
          /\ ~Adds(n, g) /\ ~Removes(n, g) =>
               After(Pending(u), n, g, w) = IF n = name /\ g = f THEN Absent ELSE w
     /\ \E next : /\ Leads(u.inherited, first, next)
                  /\ DOMAIN next = DOMAIN first
                  /\ Counts(next)
                  /\ \A n \in DOMAIN first, g \in Faces :
                       /\ Adds(n, g) => next[n][g] > 0
                       /\ ~Adds(n, g) /\ ~Removes(n, g) => next[n][g] = rib[n].inherited[g]

\* The removal of the route and modifyChildrensInheritedRoutes compute them.
LEMMA ErasedChildren ==
  ASSUME LibraryFacts,
         Defaults, NEW rib \in Ribs, Tree(rib), Plain(rib), NEW name, NEW f \in Faces,
         HasRoute(rib, name, f), NEW new, HasErased(new, rib, name, f)
  PROVE  ErasedBelow(new, modifyChildrensInheritedRoutes(rib, rib[name].children,
                            getAncestorRoutes(rib, findParent(rib, name)), {f},
                            addFibUpdates(NoUpdates(f), RemoveUpdates(name, {f}))),
                     rib, name, f)
<1> DEFINE first == Recorded(new)
           ancestors == getAncestorRoutes(rib, findParent(rib, name))
           u0 == NoUpdates(f)
           self == RemoveUpdates(name, {f})
           u1 == addFibUpdates(u0, self)
           u == modifyChildrensInheritedRoutes(rib, rib[name].children, ancestors, {f}, u1)
           Adds(n, g) == n \in DOMAIN rib /\ Above(rib, name, g) /\ Passes(rib, name, n, g)
           Removes(n, g) == n \in DOMAIN rib /\ g = f /\ Passes(rib, name, n, g) /\ rib[n].inherited[g] > 0
<1>1. name \in DOMAIN rib /\ name \in Names
  BY RibTypes DEF HasRoute
<1>2. /\ DOMAIN first \subseteq DOMAIN rib
      /\ DOMAIN rib \ {name} \subseteq DOMAIN first
      /\ Counts(first)
      /\ \A n \in DOMAIN first, g \in Faces : first[n][g] = rib[n].inherited[g]
  BY DEF HasErased
<1>3. /\ IsCostMap(ancestors)
      /\ \A g \in Faces : g \in DOMAIN ancestors <=>
           \E a \in DOMAIN rib : isProperPrefixOf(a, name) /\ g \in DOMAIN rib[a].routes
  BY <1>1, AncestorFaces
<1>4. ChildrenOf(rib, name) = rib[name].children
  BY <1>1 DEF ChildrenOf
<1>5. /\ u0 \in Updaters
      /\ Leads(u0.inherited, first, first)
      /\ \A n, g, w : After(Pending(u0), n, g, w) = w
  BY NoUpdatesStep
<1>6. /\ self \subseteq FibUpdates /\ OneForEach(self)
      /\ \A x \in self : x.action = "remove"
      /\ \A n, g : Touches(self, n, g) <=> n = name /\ g \in {f}
  BY SMTT(60), <1>1, RemoveUpdatesEffect
<1> HIDE DEF first, ancestors, u0, self
<1>7. \A n, g, w : After(self, n, g, w) = IF n = name /\ g = f THEN Absent ELSE w
  <2> TAKE n, g, w
  <2> /\ Touches(self, n, g) => After(self, n, g, w) = Absent
      /\ ~Touches(self, n, g) => After(self, n, g, w) = w
    BY <1>6, RemoveEffect
  <2> QED  BY SMTT(60), <1>6
<1>8. /\ u1 \in Updaters /\ u1.inherited = u0.inherited
      /\ \A n, g, w : After(Pending(u1), n, g, w) = After(self, n, g, w)
  <2> /\ u1 \in Updaters /\ u1.inherited = u0.inherited
      /\ \A n, g, w : After(Pending(u1), n, g, w) = After(self, n, g, After(Pending(u0), n, g, w))
    BY SMTT(60), <1>5, <1>6, FibStep
  <2> HIDE DEF u1
  <2> QED  BY SMTT(60), <1>5
<1> HIDE DEF u1
<1>9. SameBelow(first, rib, name)
  <2> SUFFICES ASSUME NEW n \in DOMAIN rib, isProperPrefixOf(name, n)
               PROVE  n \in DOMAIN first /\ \A g \in Faces : first[n][g] = rib[n].inherited[g]
    BY DEF SameBelow
  <2> n # name
    BY DEF isProperPrefixOf
  <2> QED  BY <1>2
<1>10. Below(u, u1, rib, name, ancestors, {f}, first, first)
  <2> Leads(u1.inherited, first, first)
    BY <1>5, <1>8
  <2> QED  BY <1>1, <1>2, <1>3, <1>4, <1>8, <1>9, ChildrenStep
<1>11. \A n : \A g \in Faces : /\ RemovesBelow(rib, name, {f}, n, g) <=> Removes(n, g)
                               /\ AddsBelow(rib, name, ancestors, n, g) <=> Adds(n, g)
  BY <1>3 DEF RemovesBelow, AddsBelow, Above, HasRoute
<1> HIDE DEF u, Adds, Removes
<1>12. u \in Updaters
  BY <1>10 DEF Below
<1>13. ASSUME NEW n, NEW w, NEW g \in Faces
       PROVE  /\ Adds(n, g) => After(Pending(u), n, g, w) \in Nat
              /\ ~Adds(n, g) /\ Removes(n, g) => After(Pending(u), n, g, w) = Absent
              /\ ~Adds(n, g) /\ ~Removes(n, g) =>
                   After(Pending(u), n, g, w) = IF n = name /\ g = f THEN Absent ELSE w
  <2> /\ Adds(n, g) => After(Pending(u), n, g, w) \in Nat
      /\ ~Adds(n, g) /\ Removes(n, g) => After(Pending(u), n, g, w) = Absent
      /\ ~Adds(n, g) /\ ~Removes(n, g) => After(Pending(u), n, g, w) = After(Pending(u1), n, g, w)
    <3> LET A == AddsBelow(rib, name, ancestors, n, g)
            R == RemovesBelow(rib, name, {f}, n, g)
        IN /\ A => After(Pending(u), n, g, w) \in Nat
           /\ ~A /\ R => After(Pending(u), n, g, w) = Absent
           /\ ~A /\ ~R => After(Pending(u), n, g, w) = After(Pending(u1), n, g, w)
      BY <1>10 DEF Below
    <3> /\ RemovesBelow(rib, name, {f}, n, g) <=> Removes(n, g)
        /\ AddsBelow(rib, name, ancestors, n, g) <=> Adds(n, g)
      BY <1>11
    <3> QED  OBVIOUS
  <2> After(Pending(u1), n, g, w) = IF n = name /\ g = f THEN Absent ELSE w
    BY SMTT(60), <1>7, <1>8
  <2> QED  OBVIOUS
<1>14. PICK next : /\ Leads(u.inherited, first, next)
                   /\ DOMAIN next = DOMAIN first
                   /\ Counts(next)
                   /\ \A n \in DOMAIN first, g \in Faces :
                        next[n][g] = (IF RemovesBelow(rib, name, {f}, n, g)
                                        THEN first[n][g] - 1 ELSE first[n][g])
                                       + (IF AddsBelow(rib, name, ancestors, n, g) THEN 1 ELSE 0)
  BY <1>10 DEF Below
<1>15. ASSUME NEW n \in DOMAIN first, NEW g \in Faces
       PROVE  /\ Adds(n, g) => next[n][g] > 0
              /\ ~Adds(n, g) /\ ~Removes(n, g) => next[n][g] = rib[n].inherited[g]
  <2> first[n][g] \in Nat /\ first[n][g] = rib[n].inherited[g]
    BY <1>2 DEF Counts
  <2>1. Removes(n, g) => first[n][g] > 0
    BY DEF Removes
  <2> next[n][g] = (IF RemovesBelow(rib, name, {f}, n, g) THEN first[n][g] - 1 ELSE first[n][g])
                     + (IF AddsBelow(rib, name, ancestors, n, g) THEN 1 ELSE 0)
    BY <1>14
  <2> /\ RemovesBelow(rib, name, {f}, n, g) <=> Removes(n, g)
      /\ AddsBelow(rib, name, ancestors, n, g) <=> Adds(n, g)
    BY <1>11
  <2> QED  BY SMTT(60), <2>1
<1> ErasedBelow(new, u, rib, name, f)
  BY <1>12, <1>13, <1>14, <1>15 DEF ErasedBelow, Adds, Removes, first
<1> QED  BY DEF u, u1, u0, self, ancestors

\* The copy of an entry that createFibUpdatesForErasedRoute works with.
CopyWithout(temp, rib, name, f) ==
  /\ temp.parent = findParent(rib, name) /\ temp.children = rib[name].children
  /\ ~hasCapture(temp)
  /\ InheritsAgain(temp) <=> DOMAIN rib[name].routes # {f}
  /\ rib[name].routes[f].ci /\ ~rib[name].routes[f].cap

\* It inherits again exactly if it keeps a route.
LEMMA ErasedEntry ==
  ASSUME Defaults, NEW rib \in Ribs, Tree(rib), Plain(rib), NEW name, NEW f \in Faces,
         HasRoute(rib, name, f)
  PROVE  CopyWithout(WithoutRoute(rib[name], f), rib, name, f)
<1> DEFINE temp == WithoutRoute(rib[name], f)
           left == DOMAIN rib[name].routes \ {f}
<1> name \in DOMAIN rib /\ f \in DOMAIN rib[name].routes
  BY DEF HasRoute
<1>1. rib[name].routes[f].ci /\ ~rib[name].routes[f].cap /\ rib[name].capture = 0
  BY EntryTypes, DefaultRoutes DEF Plain
<1> /\ temp.parent = rib[name].parent /\ temp.children = rib[name].children
    /\ ~rib[name].routes[f].cap => temp.capture = rib[name].capture
    /\ temp.routes = Nothing <=> left = {}
  BY WithoutRouteEntry
<1>2. left = {} <=> DOMAIN rib[name].routes = {f}
  OBVIOUS
<1> HIDE DEF temp, left
<1>3. temp.parent = findParent(rib, name)
  BY DEF Tree
<1> ~hasCapture(temp) /\ (InheritsAgain(temp) <=> DOMAIN rib[name].routes # {f})
  BY <1>1, <1>2 DEF InheritsAgain, hasCapture
<1> CopyWithout(temp, rib, name, f)
  BY <1>1, <1>3 DEF CopyWithout
<1> QED  BY DEF temp

\* An entry that keeps a route may inherit what the erased one was hiding.
LEMMA ErasedRouteKept ==
  ASSUME LibraryFacts,
         Defaults, NEW rib \in Ribs, Tree(rib), Plain(rib), NEW name, NEW f \in Faces,
         HasRoute(rib, name, f), DOMAIN rib[name].routes # {f}, NEW table,
         NEW new, HasErased(new, rib, name, f)
  PROVE  EraseEffect(new, rib, name, f,
           createFibUpdatesForErasedRoute(rib, name, f, NoUpdates(f)), table)
<1> DEFINE first == Recorded(new)
           ancestors == getAncestorRoutes(rib, findParent(rib, name))
           u == modifyChildrensInheritedRoutes(rib, rib[name].children, ancestors, {f},
                  addFibUpdates(NoUpdates(f), RemoveUpdates(name, {f})))
           again == AddUpdates(name, Single(f, ancestors[f]))
           v == createFibUpdatesForErasedRoute(rib, name, f, NoUpdates(f))
           Adds(n, g) == n \in DOMAIN rib /\ Above(rib, name, g) /\ Passes(rib, name, n, g)
           Removes(n, g) == n \in DOMAIN rib /\ g = f /\ Passes(rib, name, n, g) /\ rib[n].inherited[g] > 0
<1>1. name \in DOMAIN rib /\ name \in Names /\ f \in DOMAIN rib[name].routes
  BY RibTypes DEF HasRoute
<1>2. v = IF f \in DOMAIN ancestors THEN modifyInherited(u, again) ELSE u
  <2> DEFINE temp == WithoutRoute(rib[name], f)
  <2> CopyWithout(temp, rib, name, f)
    BY ErasedEntry
  <2> HIDE DEF temp
  <2> QED  BY DEF createFibUpdatesForErasedRoute, CopyWithout, temp
<1>3. /\ DOMAIN first = DOMAIN rib /\ DOMAIN new = DOMAIN rib
  BY DEF HasErased
<1>4. /\ IsCostMap(ancestors)
      /\ f \in DOMAIN ancestors <=> Above(rib, name, f)
  <2> /\ IsCostMap(ancestors)
      /\ \A g \in Faces : g \in DOMAIN ancestors <=>
           \E a \in DOMAIN rib : isProperPrefixOf(a, name) /\ g \in DOMAIN rib[a].routes
    BY <1>1, AncestorFaces
  <2> HIDE DEF ancestors
  <2> QED  BY DEF Above, HasRoute
<1>5. ErasedBelow(new, u, rib, name, f)
  BY ErasedChildren
<1>6. ~Passes(rib, name, name, f) /\ \A g : ~Passes(rib, name, name, g)
  BY DEF Passes, isProperPrefixOf
<1> HIDE DEF u, ancestors
<1>7. /\ u \in Updaters
      /\ \A n, w : \A g \in Faces :
           /\ Adds(n, g) => After(Pending(u), n, g, w) \in Nat
           /\ ~Adds(n, g) /\ Removes(n, g) => After(Pending(u), n, g, w) = Absent
           /\ ~Adds(n, g) /\ ~Removes(n, g) =>
                After(Pending(u), n, g, w) = IF n = name /\ g = f THEN Absent ELSE w
  BY <1>5 DEF ErasedBelow
<1>8. PICK next : /\ Leads(u.inherited, first, next)
                  /\ DOMAIN next = DOMAIN first
                  /\ Counts(next)
                  /\ \A n \in DOMAIN first, g \in Faces :
                       /\ Adds(n, g) => next[n][g] > 0
                       /\ ~Adds(n, g) /\ ~Removes(n, g) => next[n][g] = rib[n].inherited[g]
  BY <1>5 DEF ErasedBelow
<1>9. \A g : ~Adds(name, g) /\ ~Removes(name, g)
  BY <1>6
<1> HIDE DEF Adds, Removes, first, v
<1>10. \E last :
        /\ Leads(v.inherited, first, last)
        /\ DOMAIN last = DOMAIN rib
        /\ \A n \in DOMAIN rib, g \in Faces :
             IF n = name /\ g = f /\ Above(rib, name, f)
               THEN last[n][g] > 0 /\ \A w : After(Pending(v), n, g, w) \in Nat
               ELSE last[n][g] = next[n][g]
        /\ \A n, g, w : ~(n = name /\ g = f /\ Above(rib, name, f)) =>
             After(Pending(v), n, g, w) = After(Pending(u), n, g, w)
  <2>1. CASE Above(rib, name, f)
    <3>1. v = modifyInherited(u, again)
      BY <1>2, <1>4, <2>1
    <3>2. ancestors[f] \in Nat
      BY <1>4, <2>1 DEF IsCostMap
    <3> DEFINE costs == Single(f, ancestors[f])
    <3>3. IsCostMap(costs) /\ DOMAIN costs = {f}
      BY <3>2, SingleType DEF Single
    <3> HIDE DEF costs
    <3>4. /\ again \subseteq FibUpdates /\ OneForEach(again)
          /\ \A x \in again : x.action = "add"
          /\ \A n, g : Touches(again, n, g) <=> n = name /\ g \in DOMAIN costs
      BY <1>1, <3>3, AddUpdatesEffect DEF costs
    <3> HIDE DEF again
    <3>5. CanRecord(next, again)
      <4> SUFFICES ASSUME NEW x \in again
                   PROVE  x.name \in DOMAIN next /\ (x.action = "remove" => next[x.name][x.face] > 0)
        BY DEF CanRecord
      <4> x.name = name /\ x.action = "add"
        BY <3>4 DEF Touches
      <4> QED  BY <1>1, <1>3, <1>8
    <3>6. Step(v, u, again, first, next)
      BY <1>7, <1>8, <3>1, <3>4, <3>5, RecordedStep
    <3>7. PICK last : /\ Leads(v.inherited, first, last)
                      /\ DOMAIN last = DOMAIN next
                      /\ \A n \in DOMAIN next, g \in Faces :
                           last[n][g] = RecordsAfter(n, g, next[n][g], again)
      BY <3>6 DEF Step
    <3>8. \A n, g, w : After(Pending(v), n, g, w) = After(again, n, g, After(Pending(u), n, g, w))
      BY <3>6 DEF Step
    <3>9. ASSUME NEW n, NEW g, NEW w, NEW count
          PROVE  /\ n = name /\ g = f => /\ After(again, n, g, w) \in Nat
                                         /\ RecordsAfter(n, g, count, again) = count + 1
                 /\ ~(n = name /\ g = f) => /\ After(again, n, g, w) = w
                                            /\ RecordsAfter(n, g, count, again) = count
      <4> /\ Touches(again, n, g) => /\ After(again, n, g, w) \in Nat
                                     /\ RecordsAfter(n, g, count, again) = count + 1
          /\ ~Touches(again, n, g) => /\ After(again, n, g, w) = w
                                      /\ RecordsAfter(n, g, count, again) = count
        BY <3>4, AddEffect
      <4> QED  BY SMTT(60), <3>3, <3>4
    <3>10. next[name][f] \in Nat
      BY <1>1, <1>3, <1>8 DEF Counts
    <3>11. \A n \in DOMAIN rib, g \in Faces :
             /\ n = name /\ g = f => last[n][g] > 0
             /\ ~(n = name /\ g = f) => last[n][g] = next[n][g]
      <4> TAKE n \in DOMAIN rib, g \in Faces
      <4> DEFINE count == next[n][g]
      <4> last[n][g] = RecordsAfter(n, g, count, again)
        BY <1>3, <1>8, <3>7
      <4> HIDE DEF count
      <4> /\ n = name /\ g = f => RecordsAfter(n, g, count, again) = count + 1
          /\ ~(n = name /\ g = f) => RecordsAfter(n, g, count, again) = count
        BY <3>9
      <4> QED  BY SMTT(60), <3>10 DEF count
    <3> \A n, g, w :
          /\ n = name /\ g = f => After(Pending(v), n, g, w) \in Nat
          /\ ~(n = name /\ g = f) => After(Pending(v), n, g, w) = After(Pending(u), n, g, w)
      <4> TAKE n, g, w
      <4> DEFINE old == After(Pending(u), n, g, w)
      <4> After(Pending(v), n, g, w) = After(again, n, g, old)
        BY <3>8
      <4> HIDE DEF old
      <4> /\ n = name /\ g = f => After(again, n, g, old) \in Nat
          /\ ~(n = name /\ g = f) => After(again, n, g, old) = old
        BY <3>9
      <4> QED  BY DEF old
    <3> QED  BY SMTT(60), <1>3, <1>8, <2>1, <3>7, <3>11
  <2> CASE ~Above(rib, name, f)
    <3> v = u
      BY <1>2, <1>4
    <3> QED  BY <1>3, <1>8
  <2> QED  BY <2>1
<1>11. PICK last :
        /\ Leads(v.inherited, first, last)
        /\ DOMAIN last = DOMAIN rib
        /\ \A n \in DOMAIN rib, g \in Faces :
             IF n = name /\ g = f /\ Above(rib, name, f)
               THEN last[n][g] > 0 /\ \A w : After(Pending(v), n, g, w) \in Nat
               ELSE last[n][g] = next[n][g]
        /\ \A n, g, w : ~(n = name /\ g = f /\ Above(rib, name, f)) =>
             After(Pending(v), n, g, w) = After(Pending(u), n, g, w)
  BY <1>10
<1> DEFINE Will(n, g) == After(Pending(v), n, g, table[n][g])
<1>12. ASSUME NEW n \in Names, NEW g \in Faces, n # name
       PROVE  /\ Adds(n, g) => Will(n, g) # Absent /\ last[n][g] > 0
              /\ ~Adds(n, g) /\ Removes(n, g) => Will(n, g) = Absent
              /\ ~Adds(n, g) /\ ~Removes(n, g) =>
                   Will(n, g) = table[n][g] /\ (n \in DOMAIN rib => last[n][g] = rib[n].inherited[g])
  <2> DEFINE w == table[n][g]
  <2> HIDE DEF w
  <2>1. After(Pending(v), n, g, w) = After(Pending(u), n, g, w)
    BY <1>11, <1>12
  <2>2. /\ Adds(n, g) => After(Pending(u), n, g, w) \in Nat
        /\ ~Adds(n, g) /\ Removes(n, g) => After(Pending(u), n, g, w) = Absent
        /\ ~Adds(n, g) /\ ~Removes(n, g) => After(Pending(u), n, g, w) = w
    BY <1>7, <1>12
  <2>3. n \in DOMAIN rib => last[n][g] = next[n][g]
    BY <1>11, <1>12
  <2>4. Adds(n, g) => n \in DOMAIN rib
    BY DEF Adds
  <2> n \in DOMAIN rib => /\ Adds(n, g) => next[n][g] > 0
                          /\ ~Adds(n, g) /\ ~Removes(n, g) => next[n][g] = rib[n].inherited[g]
    BY <1>3, <1>8
  <2> \A k \in Nat : k # Absent
    BY SMTT(60) DEF Absent
  <2> QED  BY <2>1, <2>2, <2>3, <2>4 DEF w
<1>13. IF Above(rib, name, f) THEN Will(name, f) # Absent /\ last[name][f] > 0
                             ELSE Will(name, f) = Absent
  <2> CASE Above(rib, name, f)
    BY SMTT(60), <1>1, <1>11 DEF Absent
  <2> CASE ~Above(rib, name, f)
    <3> Will(name, f) = After(Pending(u), name, f, table[name][f])
      BY <1>11
    <3> QED  BY <1>7, <1>9
  <2> QED  OBVIOUS
<1> ASSUME NEW g \in Faces \ {f}
    PROVE  Will(name, g) = table[name][g] /\ last[name][g] = rib[name].inherited[g]
  <2>1. Will(name, g) = After(Pending(u), name, g, table[name][g]) /\ last[name][g] = next[name][g]
    BY <1>1, <1>11
  <2> After(Pending(u), name, g, table[name][g]) = table[name][g]
    BY <1>7, <1>9
  <2> next[name][g] = rib[name].inherited[g]
    BY <1>1, <1>3, <1>8, <1>9
  <2> QED  BY <2>1
<1>14. /\ Leads(v.inherited, Recorded(new), last)
       /\ DOMAIN last = DOMAIN new
  BY <1>3, <1>11 DEF first
<1> EraseEffect(new, rib, name, f, v, table)
  <2> \A n \in Names, g \in Faces : n # name => EraseEffectAt(rib, name, f, v, table, last, n, g)
    BY <1>12 DEF EraseEffectAt, Adds, Removes
  <2> QED  BY <1>13, <1>14 DEF EraseEffect
<1> QED  BY DEF v

\* An entry that loses its last route goes with all that it inherited.
LEMMA ErasedRouteGone ==
  ASSUME LibraryFacts,
         Defaults, NEW rib \in Ribs, Tree(rib), Plain(rib), NEW name, NEW f \in Faces,
         HasRoute(rib, name, f), DOMAIN rib[name].routes = {f}, NEW table,
         NEW new, HasErased(new, rib, name, f)
  PROVE  EraseEffect(new, rib, name, f,
           createFibUpdatesForErasedRibEntry(name, rib[name],
             createFibUpdatesForErasedRoute(rib, name, f, NoUpdates(f))), table)
<1> DEFINE first == Recorded(new)
           ancestors == getAncestorRoutes(rib, findParent(rib, name))
           u == modifyChildrensInheritedRoutes(rib, rib[name].children, ancestors, {f},
                  addFibUpdates(NoUpdates(f), RemoveUpdates(name, {f})))
           faces == {g \in Faces : hasInheritedRoute(rib[name], g)}
           gone == RemoveUpdates(name, faces)
           v == addFibUpdates(u, gone)
           Adds(n, g) == n \in DOMAIN rib /\ Above(rib, name, g) /\ Passes(rib, name, n, g)
           Removes(n, g) == n \in DOMAIN rib /\ g = f /\ Passes(rib, name, n, g) /\ rib[n].inherited[g] > 0
<1>1. name \in DOMAIN rib /\ name \in Names /\ f \in DOMAIN rib[name].routes
  BY RibTypes DEF HasRoute
<1>2. createFibUpdatesForErasedRoute(rib, name, f, NoUpdates(f)) = u
  <2> DEFINE temp == WithoutRoute(rib[name], f)
  <2> CopyWithout(temp, rib, name, f)
    BY ErasedEntry
  <2> HIDE DEF temp
  <2> QED  BY DEF createFibUpdatesForErasedRoute, CopyWithout, temp
<1>3. createFibUpdatesForErasedRibEntry(name, rib[name], u) = v
  BY DEF createFibUpdatesForErasedRibEntry
<1>4. /\ DOMAIN first = DOMAIN rib \ {name} /\ DOMAIN new = DOMAIN rib \ {name}
  BY DEF HasErased
<1>5. ErasedBelow(new, u, rib, name, f)
  BY ErasedChildren
<1>6. \A g : ~Adds(name, g) /\ ~Removes(name, g)
  BY DEF Passes, isProperPrefixOf
<1> HIDE DEF u
<1>7. /\ u \in Updaters
      /\ \A n, w : \A g \in Faces :
           /\ Adds(n, g) => After(Pending(u), n, g, w) \in Nat
           /\ ~Adds(n, g) /\ Removes(n, g) => After(Pending(u), n, g, w) = Absent
           /\ ~Adds(n, g) /\ ~Removes(n, g) =>
                After(Pending(u), n, g, w) = IF n = name /\ g = f THEN Absent ELSE w
  BY <1>5 DEF ErasedBelow
<1>8. PICK last : /\ Leads(u.inherited, first, last)
                  /\ DOMAIN last = DOMAIN first
                  /\ \A n \in DOMAIN first, g \in Faces :
                       /\ Adds(n, g) => last[n][g] > 0
                       /\ ~Adds(n, g) /\ ~Removes(n, g) => last[n][g] = rib[n].inherited[g]
  BY <1>5 DEF ErasedBelow
<1>9. /\ gone \subseteq FibUpdates /\ OneForEach(gone)
      /\ \A x \in gone : x.action = "remove"
      /\ \A n, g : Touches(gone, n, g) <=> n = name /\ g \in faces
  BY <1>1, RemoveUpdatesEffect
<1>10. \A g \in Faces : g \in faces <=> rib[name].inherited[g] > 0
  BY DEF hasInheritedRoute
<1> HIDE DEF Adds, Removes, first, gone, faces
<1>11. /\ v \in Updaters /\ v.inherited = u.inherited
       /\ \A n, g, w : After(Pending(v), n, g, w) = After(gone, n, g, After(Pending(u), n, g, w))
  BY SMTT(60), <1>7, <1>9, FibStep
<1> HIDE DEF v
<1>12. ASSUME NEW n, NEW g, NEW w
       PROVE  /\ n = name /\ g \in faces => After(gone, n, g, w) = Absent
              /\ ~(n = name /\ g \in faces) => After(gone, n, g, w) = w
  <2> /\ Touches(gone, n, g) => After(gone, n, g, w) = Absent
      /\ ~Touches(gone, n, g) => After(gone, n, g, w) = w
    BY <1>9, RemoveEffect
  <2> QED  BY <1>9
<1> DEFINE Will(n, g) == After(Pending(v), n, g, table[n][g])
<1>13. ASSUME NEW n \in Names, NEW g \in Faces, n # name
       PROVE  /\ Adds(n, g) => Will(n, g) # Absent /\ last[n][g] > 0
              /\ ~Adds(n, g) /\ Removes(n, g) => Will(n, g) = Absent
              /\ ~Adds(n, g) /\ ~Removes(n, g) =>
                   Will(n, g) = table[n][g] /\ (n \in DOMAIN rib => last[n][g] = rib[n].inherited[g])
  <2> DEFINE w == table[n][g]
  <2> HIDE DEF w
  <2>1. After(Pending(v), n, g, w) = After(Pending(u), n, g, w)
    BY SMTT(60), <1>11, <1>12, <1>13
  <2>2. /\ Adds(n, g) => After(Pending(u), n, g, w) \in Nat
        /\ ~Adds(n, g) /\ Removes(n, g) => After(Pending(u), n, g, w) = Absent
        /\ ~Adds(n, g) /\ ~Removes(n, g) => After(Pending(u), n, g, w) = w
    BY <1>7, <1>13
  <2>3. Adds(n, g) => n \in DOMAIN rib
    BY DEF Adds
  <2> n \in DOMAIN rib => /\ Adds(n, g) => last[n][g] > 0
                          /\ ~Adds(n, g) /\ ~Removes(n, g) => last[n][g] = rib[n].inherited[g]
    BY <1>4, <1>8, <1>13
  <2> \A k \in Nat : k # Absent
    BY SMTT(60) DEF Absent
  <2> QED  BY <2>1, <2>2, <2>3 DEF w
<1>14. ASSUME NEW g \in Faces
       PROVE  Will(name, g) = IF g = f \/ rib[name].inherited[g] > 0 THEN Absent ELSE table[name][g]
  <2> DEFINE w == table[name][g]
  <2> HIDE DEF w
  <2> After(Pending(u), name, g, w) = IF g = f THEN Absent ELSE w
    BY <1>6, <1>7
  <2> After(Pending(v), name, g, w) =
        IF g \in faces THEN Absent ELSE After(Pending(u), name, g, w)
    BY SMTT(60), <1>11, <1>12
  <2> QED  BY <1>10 DEF w
<1>15. /\ Leads(v.inherited, Recorded(new), last)
       /\ DOMAIN last = DOMAIN new
  BY <1>4, <1>8, <1>11 DEF first
<1> EraseEffect(new, rib, name, f, v, table)
  <2>1. Will(name, f) = Absent
    BY <1>14
  <2> \A g \in Faces \ {f} :
        /\ rib[name].inherited[g] > 0 => Will(name, g) = Absent
        /\ ~(rib[name].inherited[g] > 0) => Will(name, g) = table[name][g]
    BY <1>14
  <2> \A n \in Names, g \in Faces : n # name => EraseEffectAt(rib, name, f, v, table, last, n, g)
    BY <1>13 DEF EraseEffectAt, Adds, Removes
  <2> QED  BY <1>15, <2>1 DEF EraseEffect
<1> QED  BY <1>2, <1>3

-----------------------------------------------------------------------------
(* computeUpdates                                                          *)

\* The RIB once an update is applied.
NewRib(rib, w) ==
  IF w.action = "register" THEN InsertRoute(rib, w.name, w.face, w.route)
  ELSE IF HasRoute(rib, w.name, w.face) THEN EraseRoute(rib, w.name, w.face) ELSE rib

\* computeUpdates plans exactly what the new RIB needs.
LEMMA ComputePlanned ==
  ASSUME LibraryFacts, Defaults, NEW rib \in Ribs, Tree(rib), Plain(rib), Complete(rib),
         NEW w \in GoodUpdates, w.action # "remove_face", NEW table, Match(rib, table)
  PROVE  /\ NewRib(rib, w) \in Ribs /\ Tree(NewRib(rib, w)) /\ Plain(NewRib(rib, w))
         /\ computeUpdates(rib, w) \in Updaters
         /\ Planned(NewRib(rib, w), computeUpdates(rib, w), table)
<1> DEFINE name == w.name
           f == w.face
<1>1. name \in Names /\ f \in Faces /\ w.action \in {"register", "unregister", "remove_face"}
  BY DEF GoodUpdates, Updates
<1>2. computeUpdates(rib, w) \in Updaters
  BY ComputeUpdatesType
<1>3. CASE w.action = "register"
  <2> w.route \in Routes
    BY <1>3 DEF GoodUpdates
  <2> /\ NewRib(rib, w) = InsertRoute(rib, name, f, w.route)
      /\ computeUpdates(rib, w) = computeUpdatesForRegistration(rib, name, f, w.route)
    BY <1>3 DEF NewRib, computeUpdates
  <2> HasInserted(NewRib(rib, w), rib, name, f, w.route)
    BY <1>1, InsertedRoutes
  <2> Planned(NewRib(rib, w), computeUpdates(rib, w), table)
    <3> CASE name \notin DOMAIN rib
      BY <1>1, NewRibEntryPlanned DEF computeUpdatesForRegistration
    <3> CASE name \in DOMAIN rib /\ f \notin DOMAIN rib[name].routes
      BY <1>1, NewRoutePlanned DEF computeUpdatesForRegistration
    <3> CASE name \in DOMAIN rib /\ f \in DOMAIN rib[name].routes
      BY <1>1, UpdatedRoutePlanned DEF computeUpdatesForRegistration
    <3> QED  OBVIOUS
  <2> QED  BY <1>2 DEF HasInserted
<1>4. CASE w.action = "unregister" /\ HasRoute(rib, name, f)
  <2> /\ NewRib(rib, w) = EraseRoute(rib, name, f)
      /\ computeUpdates(rib, w) = computeUpdatesForUnregistration(rib, name, f)
    BY <1>4 DEF NewRib, computeUpdates
  <2> HasErased(NewRib(rib, w), rib, name, f)
    BY <1>4, ErasedRoutes
  <2> EraseEffect(EraseRoute(rib, name, f), rib, name, f,
                  computeUpdatesForUnregistration(rib, name, f), table)
    <3> CASE DOMAIN rib[name].routes = {f}
      BY <1>1, <1>4, ErasedRouteGone DEF computeUpdatesForUnregistration
    <3> CASE DOMAIN rib[name].routes # {f}
      BY <1>1, <1>4, ErasedRouteKept DEF computeUpdatesForUnregistration
    <3> QED  OBVIOUS
  <2> Planned(EraseRoute(rib, name, f), computeUpdatesForUnregistration(rib, name, f), table)
    BY <1>1, <1>4, ErasePlanned
  <2> QED  BY <1>2 DEF HasErased
<1>5. CASE w.action = "unregister" /\ ~HasRoute(rib, name, f)
  <2>1. NewRib(rib, w) = rib /\ computeUpdates(rib, w) = NoUpdates(f)
    BY <1>5 DEF NewRib, computeUpdates, computeUpdatesForUnregistration
  <2> /\ Leads(NoUpdates(f).inherited, Recorded(rib), Recorded(rib))
      /\ \A n, g, v : After(Pending(NoUpdates(f)), n, g, v) = v
    BY <1>1, NoUpdatesStep
  <2>2. /\ DOMAIN Recorded(rib) = DOMAIN rib
        /\ \A n \in DOMAIN rib : Recorded(rib)[n] = rib[n].inherited
    BY DEF Recorded
  <2> Ready(rib, NoUpdates(f).inherited)
    BY <2>2 DEF Ready, Complete
  <2> \A n \in Names, g \in Faces : Target(rib, n, g, After(Pending(NoUpdates(f)), n, g, table[n][g]))
    BY DEF Match
  <2> QED  BY <1>2, <2>1 DEF Planned
<1> QED  BY <1>1, <1>3, <1>4, <1>5

\* The updates that requests and expirations queue.
Requests == {w \in GoodUpdates : w.action # "remove_face"}

\* The RIB after an update is a tree without captures.
LEMMA NewRibTree ==
  ASSUME LibraryFacts,
         Defaults, NEW rib \in Ribs, Tree(rib), Plain(rib), NEW w \in Requests
  PROVE  NewRib(rib, w) \in Ribs /\ Tree(NewRib(rib, w)) /\ Plain(NewRib(rib, w))
<1>1. w.name \in Names /\ w.face \in Faces /\ (w.action = "register" => w.route \in Routes)
  BY DEF Requests, GoodUpdates, Updates
<1>2. CASE w.action = "register"
  <2> HasInserted(NewRib(rib, w), rib, w.name, w.face, w.route)
    BY <1>1, <1>2, InsertedRoutes DEF NewRib
  <2> QED  BY DEF HasInserted
<1> CASE w.action # "register" /\ HasRoute(rib, w.name, w.face)
  <2> HasErased(NewRib(rib, w), rib, w.name, w.face)
    BY ErasedRoutes DEF NewRib
  <2> QED  BY DEF HasErased
<1> CASE w.action # "register" /\ ~HasRoute(rib, w.name, w.face)
  BY DEF NewRib
<1> QED  BY <1>2

=============================================================================
