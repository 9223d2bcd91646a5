------------------------------- MODULE MCFakes -------------------------------
(* Fakes for TLC: read (VALUE_FUNC1) and write (VOID_FUNC2) of a sensor, with*)
(* histories of two calls, and an alarm (VOID_FUNC0).                        *)
EXTENDS Fakes

MCFakeSet == {"read", "write", "alarm"}
MCArity == [read |-> 1, write |-> 2, alarm |-> 0]
MCIsValue == [read |-> TRUE, write |-> FALSE, alarm |-> FALSE]
MCDefault == [read |-> -1, write |-> 0, alarm |-> 0]
MCRows == [read |-> {<<1, 0>>, <<2, 0>>}, write |-> {<<1, 2>>}, alarm |-> {<<0, 0>>}]
=============================================================================
