---------------------------- MODULE InterestData ----------------------------
(***************************************************************************)
(* What a forwarder promises to its downstream faces, whatever its tables, *)
(* timers and strategies do: Data answers a pending Interest, every face   *)
(* waiting for it gets it, and one Interest is answered at most once.      *)
(***************************************************************************)
CONSTANTS Faces, LocalFaces, Keys, Datas, Match, LocalhostDatas

VARIABLES
  up,              \* the faces that are up
  owed,            \* the pairs <<face, key>> of the pending Interests
  answers          \* the pairs <<face, Data>> sent by the last step

contractVars == <<up, owed, answers>>

Init == up = Faces /\ owed = {} /\ answers = {}

InScope(f, d) == f \in LocalFaces \/ d \notin LocalhostDatas

\* An Interest is left pending.
Ask(f, k) ==
  /\ f \in up
  /\ owed' = owed \cup {<<f, k>>}
  /\ answers' = {}
  /\ UNCHANGED up

\* An Interest for which nobody is waiting is answered at once.
AnswerFromCache(f, k, d) ==
  /\ f \in up
  /\ d \in Match[k]
  /\ \A g \in Faces : <<g, k>> \notin owed
  /\ answers' = {<<f, d>>} \cap {<<g, d>> : g \in {h \in Faces : InScope(h, d)}}
  /\ UNCHANGED <<up, owed>>

WaitFor(f, d) == \E k \in Keys : d \in Match[k] /\ <<f, k>> \in owed

\* Data from a face answers all the Interests it satisfies.
Satisfy(from, d) ==
  /\ from \in up
  /\ InScope(from, d)
  /\ answers' = {<<f, d>> : f \in {g \in up \ {from} : WaitFor(g, d) /\ InScope(g, d)}}
  /\ owed' = {p \in owed : d \notin Match[p[2]]}
  /\ UNCHANGED up

\* Interests expire or are withdrawn.
Forget ==
  /\ owed' \subseteq owed
  /\ answers' = {}
  /\ UNCHANGED up

FaceDown(f) ==
  /\ up' = up \ {f}
  /\ answers' = {}
  /\ UNCHANGED owed

Next ==
  \/ \E f \in Faces, k \in Keys : Ask(f, k) \/ \E d \in Datas : AnswerFromCache(f, k, d)
  \/ \E from \in Faces, d \in Datas : Satisfy(from, d)
  \/ Forget
  \/ \E f \in Faces : FaceDown(f)

Spec == Init /\ [][Next]_contractVars

=============================================================================
