--------------------------- MODULE MCContentStore ---------------------------
(* Constants for model checking ContentStore: a packet named by the prefix  *)
(* itself, and longer ones below two of its children.  Digests are 0 and 1. *)
EXTENDS ContentStore

FivePackets == {<<5, 0>>, <<5, 1>>, <<5, 6, 1>>, <<5, 6, 8, 0>>, <<5, 7, 0>>}

Freshness == [d \in FivePackets |->
                CASE d = <<5, 0>>    -> Never
                  [] d = <<5, 1>>    -> 0
                  [] d = <<5, 6, 1>> -> 1
                  [] d = <<5, 6, 8, 0>> -> Never
                  [] d = <<5, 7, 0>> -> 2]

AllInterests == [name : {<<5>>, <<5, 6>>}, rightmost : BOOLEAN, mustBeFresh : BOOLEAN]
=============================================================================
