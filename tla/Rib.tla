-------------------------------- MODULE Rib ---------------------------------
(***************************************************************************)
(* The RIB daemon: nfd::rib::Rib with its queue of updates, the part of    *)
(* FibUpdater that sends FIB commands and waits for their answers, the     *)
(* part of RibManager that registers, expires and cleans up routes, and    *)
(* the forwarder's FIB and face table as the daemon sees them.             *)
(*                                                                         *)
(* The daemon has one thread; a handler runs to completion, the next       *)
(* update of the queue included when an update needs no FIB command.       *)
(* Therefore the handlers are functions on the record of the daemon's      *)
(* state (Daemon), and an action replaces the whole record (Becomes).      *)
(***************************************************************************)
EXTENDS FibUpdater

CONSTANTS
  Names,          \* the prefixes, sequences of components
  Costs,          \* costs of routes, positive
  Flags,          \* the flags [ci, cap] that requests may carry
  MaxRequests,    \* bound on the register and unregister requests
  MAX_NUM_TIMEOUTS,
  FibMayErr,      \* whether a FIB command may time out or end with another error
  MayExpire,      \* the requests that may give a route a lifetime
  MayFail         \* the faces that may be destroyed

Components == UNION {Range(n) : n \in Names}

ASSUME NamesAssumption == NoName \notin Names /\ Names \subseteq Seq(Components)

ASSUME LimitsAssumption == MaxRequests \in Nat /\ MAX_NUM_TIMEOUTS \in Nat

ASSUME RoutesAssumption ==
  Costs \subseteq Nat /\ Flags \subseteq [ci : BOOLEAN, cap : BOOLEAN]

VARIABLES
  m_rib,
  m_faceMap,            \* face |-> names of the entries listed for it
  m_updateBatches,      \* the queue of updates
  m_isUpdateInProgress,
  updater,              \* the lists of FibUpdater
  inFlight,             \* FIB command |-> how many copies of it have no answer
  expirations,          \* scheduled onRouteExpiration events
  aborted,              \* an assertion failed or an exception was thrown
  m_registeredFaces,
  destroyed,            \* scheduled onFaceDestroyedEvents: <<face, who scheduled it>>
  fib,                  \* the forwarder's FIB: name |-> face |-> cost or Absent
  faceTable,            \* the forwarder's faces
  requests,             \* number of requests so far
  outcome               \* request |-> the callbacks it was given

Absent == -1

\* m_batchFaceId before the first update.
NoFace == 0

daemonVars == <<m_rib, m_faceMap, m_updateBatches, m_isUpdateInProgress,
                updater, inFlight, expirations, aborted, outcome>>

vars == <<daemonVars, m_registeredFaces, destroyed, fib, faceTable, requests>>

Daemon ==
  [rib |-> m_rib, faceMap |-> m_faceMap, queue |-> m_updateBatches,
   busy |-> m_isUpdateInProgress, updater |-> updater, inFlight |-> inFlight,
   expirations |-> expirations, aborted |-> aborted, outcome |-> outcome]

Becomes(next) ==
  \E d \in {next} :
    /\ m_rib' = d.rib
    /\ m_faceMap' = d.faceMap
    /\ m_updateBatches' = d.queue
    /\ m_isUpdateInProgress' = d.busy
    /\ updater' = d.updater
    /\ inFlight' = d.inFlight
    /\ expirations' = d.expirations
    /\ aborted' = d.aborted
    /\ outcome' = d.outcome

Routes == {[ci |-> fl.ci, cap |-> fl.cap, cost |-> c, event |-> e] :
             fl \in Flags, c \in Costs, e \in 0 .. MaxRequests}

NoRoute == [ci |-> FALSE, cap |-> FALSE, cost |-> 0, event |-> 0]

Update(action, name, f, route, id) ==
  [action |-> action, name |-> name, face |-> f, route |-> route, id |-> id]

TypeOK ==
  /\ DOMAIN m_rib \subseteq Names
  /\ \A n \in DOMAIN m_rib :
       /\ DOMAIN m_rib[n].routes \subseteq Faces
       /\ \A f \in DOMAIN m_rib[n].routes : m_rib[n].routes[f] \in Routes
       /\ m_rib[n].inherited \in [Faces -> Nat]
       /\ m_rib[n].capture \in Int
       /\ m_rib[n].parent \in Names \cup {NoName}
       /\ m_rib[n].children \subseteq Names
  /\ m_faceMap \in [Faces -> SUBSET Names]
  /\ \A i \in DOMAIN m_updateBatches : m_updateBatches[i].name \in Names
  /\ m_isUpdateInProgress \in BOOLEAN
  /\ \A c \in DOMAIN inFlight : c.timeouts \in 0 .. MAX_NUM_TIMEOUTS
  /\ \A e \in expirations : e.name \in Names /\ e.face \in Faces
  /\ aborted \in BOOLEAN
  /\ m_registeredFaces \subseteq Faces
  /\ destroyed \subseteq Faces \X {"notified", "fetched"}
  /\ fib \in [Names -> [Faces -> Nat \cup {Absent}]]
  /\ faceTable \subseteq Faces
  /\ requests \in 0 .. MaxRequests
  /\ outcome \in [1 .. MaxRequests -> SUBSET {"applied", "failed"}]

Init ==
  /\ m_rib = Nothing
  /\ m_faceMap = [f \in Faces |-> {}]
  /\ m_updateBatches = <<>>
  /\ m_isUpdateInProgress = FALSE
  /\ updater = NoUpdates(NoFace)
  /\ inFlight = Nothing
  /\ expirations = {}
  /\ aborted = FALSE
  /\ m_registeredFaces = {}
  /\ destroyed = {}
  /\ fib = [n \in Names |-> [f \in Faces |-> Absent]]
  /\ faceTable = Faces
  /\ requests = 0
  /\ outcome = [i \in 1 .. MaxRequests |-> {}]

-----------------------------------------------------------------------------
(* Rib::insert and Rib::erase: the tree and the table of faces. *)

\* Put an entry for a new name between its parent and its descendants.
InsertEntry(rib, name) ==
  LET parent   == findParent(rib, name)
      adopted  == {n \in findDescendants(rib, name) : rib[n].parent = parent}
      entry    == [routes |-> Nothing, inherited |-> [f \in Faces |-> 0],
                   capture |-> 0, parent |-> parent, children |-> adopted]
  IN [n \in DOMAIN rib \cup {name} |->
        CASE n = name     -> entry
          [] n \in adopted -> [rib[n] EXCEPT !.parent = name]
          [] n = parent   -> [rib[n] EXCEPT !.children = (@ \ adopted) \cup {name}]
          [] OTHER        -> rib[n]]

\* Mutant: the children of an erased entry are left without a parent.
eraseEntry_Orphans(rib, name) ==
  LET gone == rib[name]
  IN [n \in DOMAIN rib \ {name} |->
        CASE n \in gone.children -> [rib[n] EXCEPT !.parent = NoName]
          [] n = gone.parent     -> [rib[n] EXCEPT !.children = @ \ {name}]
          [] OTHER               -> rib[n]]

eraseEntry(rib, name) ==
  LET gone == rib[name]
  IN [n \in DOMAIN rib \ {name} |->
        CASE n \in gone.children -> [rib[n] EXCEPT !.parent = gone.parent]
          [] n = gone.parent ->
               [rib[n] EXCEPT !.children = (@ \ {name}) \cup gone.children]
          [] OTHER -> rib[n]]

SetRoute(entry, f, route) ==
  [entry EXCEPT !.routes = [x \in DOMAIN @ \cup {f} |-> IF x = f THEN route ELSE @[x]]]

\* An existing route is overwritten: the count of captures is not touched,
\* and the old expiration event is cancelled.
insert(d, name, f, route) ==
  LET rib   == IF name \in DOMAIN d.rib THEN d.rib ELSE InsertEntry(d.rib, name)
      isNew == f \notin DOMAIN rib[name].routes
      entry == SetRoute(rib[name], f, route)
      entry2 == IF isNew /\ route.cap THEN [entry EXCEPT !.capture = @ + 1] ELSE entry
  IN [d EXCEPT !.rib = [rib EXCEPT ![name] = entry2],
               !.faceMap[f] = @ \cup {name},
               !.expirations = IF isNew THEN @
                               ELSE {e \in @ : e.id # rib[name].routes[f].event}]

\* Mutant: the entry stays in the table of faces.
erase_KeepsFace(d, name, f) ==
  LET rest == WithoutRoute(d.rib[name], f)
      rib  == [d.rib EXCEPT ![name] = rest]
  IN IF ~HasRoute(d.rib, name, f) THEN d
     ELSE [d EXCEPT !.rib = IF rest.routes = Nothing THEN eraseEntry(rib, name) ELSE rib,
                    !.expirations = {e \in @ : e.id # d.rib[name].routes[f].event}]

erase(d, name, f) ==
  LET rest == WithoutRoute(d.rib[name], f)
      rib  == [d.rib EXCEPT ![name] = rest]
  IN IF ~HasRoute(d.rib, name, f) THEN d
     ELSE [d EXCEPT !.rib = IF rest.routes = Nothing THEN eraseEntry(rib, name) ELSE rib,
                    !.faceMap[f] = @ \ {name},
                    !.expirations = {e \in @ : e.id # d.rib[name].routes[f].event}]

\* The entry must exist (an assertion), and so must the record to remove
\* (erase of the end iterator is undefined; it is counted as an abort).
CanModify(rib, x) ==
  x.name \in DOMAIN rib /\ (x.action = "remove" => hasInheritedRoute(rib[x.name], x.face))

\* How many records of a face an entry has after changes for different faces.
RecordsAfter(n, f, count, changes) ==
  CASE \E x \in changes : x.name = n /\ x.face = f /\ x.action = "add"    -> count + 1
    [] \E x \in changes : x.name = n /\ x.face = f /\ x.action = "remove" -> count - 1
    [] OTHER -> count

ModifyEach(d, changes) ==
  IF \E x \in changes : ~CanModify(d.rib, x) THEN [d EXCEPT !.aborted = TRUE]
  ELSE [d EXCEPT !.rib = [n \in DOMAIN @ |->
          [@[n] EXCEPT !.inherited =
             [f \in Faces |-> RecordsAfter(n, f, d.rib[n].inherited[f], changes)]]]]

modifyInheritedRoutes(d, inherited) ==
  LET after[i \in 0 .. Len(inherited)] ==
        IF i = 0 THEN d ELSE ModifyEach(after[i - 1], inherited[i])
  IN after[Len(inherited)]

-----------------------------------------------------------------------------
(* The queue of updates and the FIB commands of the front one. *)

\* A bag of commands with one more copy of some, and with one copy less of one.
Started(commands, more) ==
  [c \in DOMAIN commands \cup more |->
     (IF c \in DOMAIN commands THEN commands[c] ELSE 0) + (IF c \in more THEN 1 ELSE 0)]

Ended(commands, c) ==
  IF commands[c] > 1 THEN [commands EXCEPT ![c] = @ - 1]
                     ELSE Restrict(commands, DOMAIN commands \ {c})

\* sendUpdates: every command carries the update it belongs to, as the
\* callbacks bound to it do.
sendUpdates(d, update, list) ==
  [d EXCEPT !.inFlight = Started(@,
     {[fibUpdate |-> x, verb |-> x.action, update |-> update, timeouts |-> 0] : x \in list})]

\* The callbacks of RibManager; only requests have them.
Report(d, update, result) ==
  IF update.id = 0 THEN d ELSE [d EXCEPT !.outcome[update.id] = @ \cup {result}]

\* onFibUpdateSuccess up to its last call.
Applied(d, update) ==
  LET d1 == IF update.action = "register"
              THEN insert(d, update.name, update.face, update.route)
              ELSE erase(d, update.name, update.face)
      d2 == modifyInheritedRoutes(d1, d.updater.inherited)
  IN IF d2.aborted THEN d2 ELSE Report([d2 EXCEPT !.busy = FALSE], update, "applied")

\* An update without FIB commands is applied at once.
SendOrApply(d, update) ==
  CASE d.updater.batch # {} -> sendUpdates(d, update, d.updater.batch)
    [] d.updater.batch = {} /\ d.updater.other # {} -> sendUpdates(d, update, d.updater.other)
    [] OTHER -> Applied(d, update)

\* An unregistration erases the route from a copy of its entry, and that
\* cancels the route's expiration event before the FIB has answered.
computeAndSendFibUpdates(d, update) ==
  LET cancelled == IF update.action # "register" /\ HasRoute(d.rib, update.name, update.face)
                     THEN {d.rib[update.name].routes[update.face].event} ELSE {}
  IN SendOrApply([d EXCEPT !.updater = computeUpdates(d.rib, update),
                           !.expirations = {e \in @ : e.id \notin cancelled}], update)

\* sendBatchFromQueue without the call of itself that ends onFibUpdateSuccess.
SendNext(d) ==
  IF d.queue = <<>> \/ d.busy \/ d.aborted THEN d
  ELSE computeAndSendFibUpdates([d EXCEPT !.busy = TRUE, !.queue = Tail(@)], Head(d.queue))

\* With that call: an update that is applied at once is followed by the next
\* one, an update that waits for the FIB leaves the daemon busy.
sendBatchFromQueue(d) ==
  LET after[i \in 0 .. Len(d.queue)] == IF i = 0 THEN d ELSE SendNext(after[i - 1])
  IN after[Len(d.queue)]

onFibUpdateSuccess(d, update) == sendBatchFromQueue(Applied(d, update))

sendUpdatesForNonBatchFaceId(d, update) ==
  IF d.updater.other # {} THEN sendUpdates(d, update, d.updater.other)
                          ELSE onFibUpdateSuccess(d, update)

\* Mutant: the queue does not advance after a failure.
onFibUpdateFailure_Stops(d, update) ==
  Report([d EXCEPT !.busy = FALSE], update, "failed")

onFibUpdateFailure(d, update) ==
  sendBatchFromQueue(Report([d EXCEPT !.busy = FALSE], update, "failed"))

beginApplyUpdate(d, update) ==
  sendBatchFromQueue([d EXCEPT !.queue = Append(@, update)])

\* findRoutesWithFaceId: the entries of a face in the order of their insertion,
\* which m_faceMap does not record here.  Every order is possible.
Listings(S) == {s \in [1 .. Cardinality(S) -> S] : Range(s) = S}

\* One update per route of the face, all queued before the first is sent.
beginRemoveFace(d, f, names) ==
  sendBatchFromQueue([d EXCEPT !.queue = @ \o
    [i \in 1 .. Len(names) |-> Update("remove_face", names[i], f, NoRoute, 0)]])

-----------------------------------------------------------------------------
(* FibUpdater: the answers.  They are matched against the lists of the     *)
(* update being processed now, which may be a later one.                   *)

onUpdateSuccess(d, c) ==
  LET x == c.fibUpdate
      d1 == [d EXCEPT !.inFlight = Ended(@, c)]
  IN IF x.face = d.updater.face
       THEN LET d2 == [d1 EXCEPT !.updater.batch = @ \ {x}]
            IN IF d2.updater.batch = {} THEN sendUpdatesForNonBatchFaceId(d2, c.update)
                                        ELSE d2
       ELSE LET d2 == [d1 EXCEPT !.updater.other = @ \ {x}]
            IN IF d2.updater.other = {} THEN onFibUpdateSuccess(d2, c.update) ELSE d2

\* 410: fatal for the update's own face, ignored for another face.
onFaceNotFound(d, c) ==
  LET x == c.fibUpdate
      d1 == [d EXCEPT !.inFlight = Ended(@, c)]
      d2 == [d1 EXCEPT !.updater.other = @ \ {x}]
  IN CASE x.face = d.updater.face -> onFibUpdateFailure(d1, c.update)
       [] x.face # d.updater.face /\ d2.updater.other = {} -> onFibUpdateSuccess(d2, c.update)
       [] OTHER -> d2

\* Any other error is thrown as an exception, which ends the daemon.
NonRecoverable(d, c) == [d EXCEPT !.inFlight = Ended(@, c), !.aborted = TRUE]

\* Mutant: one attempt too many.
onTimeout_OneMore(d, c) ==
  IF c.timeouts <= MAX_NUM_TIMEOUTS
    THEN [d EXCEPT !.inFlight = Started(Ended(@, c),
            {[c EXCEPT !.verb = "add", !.timeouts = @ + 1]})]
    ELSE NonRecoverable(d, c)

\* A command that timed out is sent again as an add command, whatever it
\* was, up to MAX_NUM_TIMEOUTS times.
onTimeout(d, c) ==
  IF c.timeouts < MAX_NUM_TIMEOUTS
    THEN [d EXCEPT !.inFlight = Started(Ended(@, c),
            {[c EXCEPT !.verb = "add", !.timeouts = @ + 1]})]
    ELSE NonRecoverable(d, c)

\* FibManager::addNextHop and removeNextHop.
FibAfter(c) ==
  LET x == c.fibUpdate
  IN IF x.face \in faceTable
       THEN [fib EXCEPT ![x.name][x.face] = IF c.verb = "add" THEN x.cost ELSE Absent]
       ELSE fib

FaceFound(c) == c.verb = "remove" \/ c.fibUpdate.face \in faceTable

-----------------------------------------------------------------------------
(* Actions *)

registerEntry(name, f, route, expires) ==
  LET id == requests + 1
      event == IF expires THEN id ELSE 0
      r  == [ci |-> route.ci, cap |-> route.cap, cost |-> route.cost, event |-> event]
      d  == [Daemon EXCEPT !.expirations =
               IF expires THEN @ \cup {[name |-> name, face |-> f, id |-> id]} ELSE @]
  IN /\ ~aborted /\ requests < MaxRequests
     /\ expires => id \in MayExpire
     /\ requests' = id
     /\ Becomes(beginApplyUpdate(d, Update("register", name, f, r, id)))
     /\ m_registeredFaces' = m_registeredFaces \cup {f}
     /\ UNCHANGED <<destroyed, fib, faceTable>>

unregisterEntry(name, f) ==
  /\ ~aborted /\ requests < MaxRequests
  /\ requests' = requests + 1
  /\ Becomes(beginApplyUpdate(Daemon, Update("unregister", name, f, NoRoute, requests + 1)))
  /\ UNCHANGED <<m_registeredFaces, destroyed, fib, faceTable>>

onRouteExpiration(e) ==
  LET d == [Daemon EXCEPT !.expirations = @ \ {e}]
  IN /\ ~aborted /\ e \in expirations
     /\ Becomes(beginApplyUpdate(d, Update("unregister", e.name, e.face, NoRoute, 0)))
     /\ UNCHANGED <<m_registeredFaces, destroyed, fib, faceTable, requests>>

\* The forwarder carries out the command; its answer has code 200 or 410.
FibAnswer(c) ==
  /\ ~aborted /\ c \in DOMAIN inFlight
  /\ fib' = FibAfter(c)
  /\ Becomes(IF FaceFound(c) THEN onUpdateSuccess(Daemon, c) ELSE onFaceNotFound(Daemon, c))
  /\ UNCHANGED <<m_registeredFaces, destroyed, faceTable, requests>>

\* The command or its answer is lost.
FibTimeout(c) ==
  /\ ~aborted /\ FibMayErr /\ c \in DOMAIN inFlight
  /\ fib' \in {fib, FibAfter(c)}
  /\ Becomes(onTimeout(Daemon, c))
  /\ UNCHANGED <<m_registeredFaces, destroyed, faceTable, requests>>

\* The answer has another code, or is malformed: the command was rejected, or
\* it was carried out and its answer is unreadable.
FibError(c) ==
  /\ ~aborted /\ FibMayErr /\ c \in DOMAIN inFlight
  /\ fib' \in {fib, FibAfter(c)}
  /\ Becomes(NonRecoverable(Daemon, c))
  /\ UNCHANGED <<m_registeredFaces, destroyed, faceTable, requests>>

\* FaceTable::remove, and the notification, which may be missed.
FaceDestroyed(f) ==
  /\ f \in faceTable \cap MayFail
  /\ faceTable' = faceTable \ {f}
  /\ fib' = [n \in Names |-> [fib[n] EXCEPT ![f] = Absent]]
  /\ destroyed' \in {destroyed, destroyed \cup {<<f, "notified">>}}
  /\ UNCHANGED <<daemonVars, m_registeredFaces, requests>>

onFaceDestroyedEvent(e) ==
  /\ ~aborted
  /\ destroyed' = destroyed \ {e}
  /\ \E names \in Listings(m_faceMap[e[1]]) : Becomes(beginRemoveFace(Daemon, e[1], names))
  /\ m_registeredFaces' = m_registeredFaces \ {e[1]}
  /\ UNCHANGED <<fib, faceTable, requests>>

\* fetchActiveFaces and removeInvalidFaces.  A face whose notification is on
\* its way is removed twice.
removeInvalidFaces ==
  /\ ~aborted
  /\ m_registeredFaces \ faceTable # {}
  /\ destroyed' = destroyed \cup ((m_registeredFaces \ faceTable) \X {"fetched"})
  /\ UNCHANGED <<daemonVars, m_registeredFaces, fib, faceTable, requests>>

Next ==
  \/ \E n \in Names, f \in Faces, fl \in Flags, c \in Costs, x \in BOOLEAN :
       registerEntry(n, f, [ci |-> fl.ci, cap |-> fl.cap, cost |-> c], x)
  \/ \E n \in Names, f \in Faces : unregisterEntry(n, f)
  \/ \E e \in expirations : onRouteExpiration(e)
  \/ \E c \in DOMAIN inFlight : FibAnswer(c) \/ FibTimeout(c) \/ FibError(c)
  \/ \E f \in Faces : FaceDestroyed(f)
  \/ \E e \in destroyed : onFaceDestroyedEvent(e)
  \/ removeInvalidFaces

Spec == Init /\ [][Next]_vars

-----------------------------------------------------------------------------
(* Properties *)

\* The tree of the RIB is the prefix tree of its names: the parent of an entry
\* is its longest proper prefix with an entry, and children are the inverse.
\* Rib::insert and eraseEntry maintain both ends separately.
TreeConsistent ==
  \A n \in DOMAIN m_rib :
    /\ m_rib[n].parent = findParent(m_rib, n)
    /\ m_rib[n].children = {c \in DOMAIN m_rib : m_rib[c].parent = n}

\* m_faceMap lists for a face exactly the entries with a route to it, so that
\* beginRemoveFace finds every route of a destroyed face.
FaceMapExact ==
  \A f \in Faces : m_faceMap[f] = {n \in DOMAIN m_rib : f \in DOMAIN m_rib[n].routes}

Captures(n) == \E f \in DOMAIN m_rib[n].routes : m_rib[n].routes[f].cap

\* Who a prefix inherits a face from, as the flags are defined: a prefix above
\* it with a child-inherit route, as long as no entry in between, itself
\* included, captures.
Donors(n, f) ==
  {a \in ProperPrefixesIn(m_rib, n) :
     /\ f \in ChildInheritFaces(m_rib[a])
     /\ \A m \in DOMAIN m_rib : isPrefixOf(m, n) /\ isProperPrefixOf(a, m) => ~Captures(m)}

\* Whenever no update is in progress, the forwarder's FIB holds exactly the
\* nexthops that the RIB's routes and the inheritance rules give: of a prefix
\* with an entry, its own routes, with their costs, and those it inherits.
\* FibUpdater never computes this function: it sends increments.
FibMatchesRib ==
  ~aborted /\ ~m_isUpdateInProgress =>
    \A n \in Names, f \in faceTable :
      IF HasRoute(m_rib, n, f) THEN fib[n][f] = m_rib[n].routes[f].cost
      ELSE fib[n][f] # Absent <=> n \in DOMAIN m_rib /\ Donors(n, f) # {}

\* The queue of updates never stalls: while updates wait, one is in progress,
\* and the one in progress waits for the answer to some FIB command, also after
\* rejected commands, timeouts and answers that come too late.
NoStall ==
  ~aborted => /\ m_updateBatches # <<>> => m_isUpdateInProgress
              /\ m_isUpdateInProgress => inFlight # Nothing

\* modifyInheritedRoutes finds the entry and the record that were computed
\* before the FIB commands were sent (BOOST_ASSERT(ribIt != m_rib.end())).
AssertionsHold == ~aborted

\* beginApplyUpdate: "If the FIB update fails, onFibUpdateFailure() will be
\* called, and the RIB will not be updated": no request fails and is applied.
FailedNotApplied == \A i \in 1 .. MaxRequests : outcome[i] # {"applied", "failed"}
=============================================================================
