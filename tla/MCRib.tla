------------------------------- MODULE MCRib --------------------------------
(* Constants for model checking Rib: the root, a prefix and a longer one.  *)
EXTENDS Rib, TLC

SymmetricFaces == Permutations(Faces)

ThreeNames == {<<>>, <<1>>, <<1, 1>>}

\* The default of a register command.
ChildInherit == {[ci |-> TRUE, cap |-> FALSE]}

ChildInheritCapture == {[ci |-> TRUE, cap |-> TRUE]}

InheritOrCapture == ChildInherit \cup ChildInheritCapture
=============================================================================
