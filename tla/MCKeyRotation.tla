---------------------------- MODULE MCKeyRotation ----------------------------
(* KeyRotation with two accounts: images alone, connections alone, one of each. *)
EXTENDS KeyRotation

SomeStarts == {[images |-> {"m1", "m2"}, states |-> {}], [images |-> {}, states |-> {"s1", "s2"}],
               [images |-> {"m1"}, states |-> {"s1"}]}
=============================================================================
