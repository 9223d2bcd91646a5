------------------------------ MODULE MCAsserts ------------------------------
(* Arguments for TLC: with NibbleBits = 1 an int8_t has 2 bits, an        *)
(* int64_t 16.  The values are the bounds of each type and their neighbours. *)
EXTENDS Asserts

Boundaries ==
    { -32768, -32767, -129, -128, -9, -8, -3, -2, -1, 0, 1, 2, 3, 4, 7, 8, 9, 10,
      15, 16, 127, 128, 255, 256, 32767, 32768, 65535 }

FewDeltas == { -32768, -1, 0, 1, 2, 255, 32767 }
FewFloats == { -2, -1, 0, 1, 3 }

(* Two equal texts, a prefix, a change at the end, and the empty string.   *)
Texts == << <<1, 2, 3>>, <<1, 2, 3>>, <<1, 2>>, <<1, 2, 0>>, <<>>, <<-1, 2, 3>> >>
=============================================================================
