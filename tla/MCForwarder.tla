---------------------------- MODULE MCForwarder -----------------------------
(***************************************************************************)
(* Instances of Forwarder for TLC: an application face "app", a network    *)
(* face "y", and a face "x" that is one or the other.  "one" and "two" are *)
(* keys; "two" has a longer Name.                                          *)
(***************************************************************************)
EXTENDS Forwarder, TLC

CONSTANTS app, x, y, one, two, content, localContent

SymmetricNonces == Permutations(Nonces)

MCFaces == {app, x, y}

MCCost == [f \in MCFaces |-> IF f = app THEN 0 ELSE IF f = x THEN 1 ELSE 2]

MCNameOf == [k \in Keys |-> k]

AnyFace == [k \in Keys |-> MCFaces]

OtherFaces == [k \in Keys |-> {x, y}]

AnyStrategy ==
  [k \in Keys |-> {"multicast", "best-route", "client-control", "best-route2"}]

BestRoute2 == [k \in Keys |-> {"best-route2"}]

Multicast == [k \in Keys |-> {"multicast"}]

AnyMatch == [k \in Keys |-> Datas]

\* "one" is a prefix of everything, "two" is under /localhost.
PrefixMatch ==
  [k \in Keys |-> IF k = one THEN {content, localContent} ELSE {localContent}]

=============================================================================
