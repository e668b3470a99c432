------------------------------ MODULE MCNdnlp ------------------------------
(* Constants for model checking Ndnlp: with an MTU of 279 a payload has at  *)
(* most 253 bytes, the least whose length takes three bytes, and the packets *)
(* have 1, 2, 2 and 4 fragments.                                             *)
EXTENDS Ndnlp

Sizes == [p \in Packets |->
            CASE p = "one" -> 253 [] p = "two" -> 254 [] p = "even" -> 506 [] p = "four" -> 1012]
=============================================================================
