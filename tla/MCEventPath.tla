----------------------------- MODULE MCEventPath -----------------------------
(* Small sizes and a few events around them for TLC.                       *)
EXTENDS EventPath

x == 8

Event(type, suite, group, name, text, nums) ==
    [type |-> type, suite |-> suite, group |-> group, name |-> name,
     file |-> <<>>, text |-> text, nums |-> nums]

(* Payloads of 13 to 29 bytes against a buffer of 22: an event dropped for *)
(* one byte too many, a message left out, one that fills the buffer and    *)
(* holds a newline, what reads as the next event and a file with a blank,  *)
(* a name longer than a length byte can say, blocks of COBS that end full, *)
(* zeros at both ends, a leaf cut inside a character, the end of a suite   *)
(* without a name.                                                         *)
MCMessages ==
    { Event(SuiteStartT, <<x, x, x, x, x, x, x, x, x>>, <<>>, <<>>, <<>>, <<0, 0, 0>>),
      Event(CaseStartT, <<Lead, Cont>>, <<x>>, <<x>>, <<>>, <<0, 0, 0>>),
      [Event(AssertFailT, <<>>, <<x>>, <<x>>, <<x, Space, x, x, x, x, x>>, <<0, 0, 0>>)
         EXCEPT !.file = <<x>>],
      [Event(AssertFailT, <<x>>, <<x>>, <<x>>, <<x, Newline, PassK, x, Dot>>, <<8, 0, 0>>)
         EXCEPT !.file = <<x, Space>>],
      Event(AssertFailT, <<x, x, x, x, x, x>>, <<x>>, <<x, x>>, <<x, x, x, x, x, x>>, <<1, 0, 0>>),
      Event(CaseEndT, <<x>>, <<>>, <<x, x>>, <<>>, <<FailedS, 0, 0>>),
      Event(CaseEndT, <<>>, <<x>>, <<x, Lead, Cont>>, <<>>, <<PassedS, 0, 0>>),
      Event(SuiteEndT, <<x>>, <<>>, <<>>, <<>>, <<1, 2, 0>>),
      Event(SuiteEndT, <<>>, <<>>, <<>>, <<>>, <<1, 0, 2>>),
      Event(DoneT, <<>>, <<>>, <<>>, <<>>, <<80, 0, 13>>) }

MCLineSizes == [type \in EventTypes |-> IF type = AssertFailT THEN 17 ELSE 9]

(* A program of one thread that prints lines, with no lock, and one of two *)
(* that lock.                                                              *)
MCSetups ==
    { [format |-> "text", threads |-> {1}, locks |-> FALSE],
      [format |-> "cobs", threads |-> {1, 2}, locks |-> TRUE] }
=============================================================================
