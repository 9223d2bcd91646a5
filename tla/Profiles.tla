------------------------------ MODULE Profiles ------------------------------
(***************************************************************************)
(* What the preprocessor makes of a build's choices: a profile and knobs   *)
(* given on the command line go in, feature macros and more knobs come     *)
(* out (harness/include/polytest/polytest_profile.h).                      *)
(***************************************************************************)
EXTENDS FiniteSets

(* POT_MINIMAL_PRINT, POT_EXCLUDE_FLOAT, POT_NO_LONGJMP, POT_USE_HEAP.     *)
Knobs == {"minimal_print", "exclude_float", "no_longjmp", "use_heap"}

(* POT_CFG_HAS_...                                                         *)
Features == {"cobs", "tags", "fixtures", "float", "protect", "mutex", "extended", "heap"}

(* The feature a knob takes away.                                          *)
Strips == [minimal_print |-> "cobs", exclude_float |-> "float", no_longjmp |-> "protect"]

(* Of several profile macros the smallest wins; without any it is full.    *)
Profile(chosen) ==
    IF "tiny" \in chosen THEN "tiny" ELSE IF "small" \in chosen THEN "small" ELSE "full"

(* The knobs a profile defines before the features are derived.            *)
Implied(profile) ==
    CASE profile = "tiny"  -> {"minimal_print", "exclude_float", "no_longjmp"}
      [] profile = "small" -> {"exclude_float"}
      [] profile = "full"  -> {}

Offers(profile) ==
    CASE profile = "tiny"  -> {}
      [] profile = "small" -> Features \ {"mutex", "heap"}
      [] profile = "full"  -> Features \ {"heap"}

(* Mistake: POT_CFG_HAS_PROTECT does not ask for POT_NO_LONGJMP.            *)
Build_KeepsProtect(chosen, knobs) ==
    [has |-> Offers(Profile(chosen)), knobs |-> knobs \cup Implied(Profile(chosen))]

(* The features and the knobs every file of the build sees.  The blocks at *)
(* the end of the header, which define a knob whose feature is off, never  *)
(* find one to define.                                                     *)
Build(chosen, knobs) ==
    LET profile == Profile(chosen)
        defined == knobs \cup Implied(profile)
        stripped == {Strips[k] : k \in defined \cap DOMAIN Strips}
    IN  [has |-> (Offers(profile) \ stripped)
                    \cup (IF "use_heap" \in defined THEN {"heap"} ELSE {}),
         knobs |-> defined \cup {k \in DOMAIN Strips : Strips[k] \notin Offers(profile)}]

=============================================================================
