----------------------------- MODULE MCStreamRun -----------------------------
(* Targets and test binaries for TLC.                                      *)
EXTENDS StreamRun

(* What PotRunner emits for a suite of one group whose cases end this way. *)
CaseOf(k) == [suite |-> <<"A">>, leaf |-> <<"g", ToString(k)>>]

TallyOf(statuses) ==
    LET In(status) == Cardinality({k \in DOMAIN statuses : statuses[k] = status})
    IN  [passed |-> In("Passed"), failed |-> In("Failed"), skipped |-> In("Skipped")]

StreamOf(statuses) ==
    <<SuiteStart(<<"A">>)>>
    \o FlattenSeq([k \in DOMAIN statuses |->
            <<CaseStart(CaseOf(k))>>
            \o (IF statuses[k] = "Failed" THEN <<AssertFail(CaseOf(k))>> ELSE <<>>)
            \o <<CaseEnd(CaseOf(k), statuses[k])>>])
    \o <<SuiteEnd(<<"A">>, TallyOf(statuses)), DoneEvent(TallyOf(statuses))>>

(* A run; two runs by one main, with the failure in the second; a run and  *)
(* output that follows it.                                                 *)
MCPrograms ==
    { StreamOf(<<"Passed", "Failed">>),
      StreamOf(<<"Skipped">>) \o StreamOf(<<"Failed">>),
      StreamOf(<<"Failed">>) \o StreamOf(<<"Passed">>),
      StreamOf(<<"Passed">>) \o <<Lost, Lost, Lost>> }

Plain == [mode |-> "stream", board |-> "host", transport |-> "stdio", codec |-> "cobs",
          filters |-> {}, isolate |-> FALSE, onCrash |-> "continue",
          reporters |-> <<"console", "junit">>]

MCTargets ==
    { Plain, [Plain EXCEPT !.codec = "text", !.reporters = <<"console", "junit", "json">>],
      [Plain EXCEPT !.board = "qemu_m33", !.transport = "uart"],
      [Plain EXCEPT !.mode = "command"], [Plain EXCEPT !.transport = "uart"],
      [Plain EXCEPT !.filters = {"group"}], [Plain EXCEPT !.onCrash = "other"],
      [Plain EXCEPT !.board = "other"],
      [Plain EXCEPT !.board = "qemu_m33", !.transport = "uart", !.filters = {"tag"}], [Plain EXCEPT !.codec = "other"],
      [Plain EXCEPT !.isolate = TRUE] }

OneTarget == {Plain}

(* What RunStream promises of the harness, and the programs above keep.    *)
ASSUME HonestAssumption == HonestPrograms
=============================================================================
