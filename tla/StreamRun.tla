------------------------------ MODULE StreamRun ------------------------------
(***************************************************************************)
(* run_target and drain_stream of crates/polyontest-cli/src/main.rs: one   *)
(* test binary, or QEMU, runs all cases and streams its events through a   *)
(* pipe; the host's only thread reads, decodes, reports, and ends at DONE, *)
(* at the end of the stream, or at an error.  The process under test is    *)
(* never killed, its exit status is never looked at, and the read blocks:  *)
(* set_timeout does nothing, so the deadline is seen between reads only.   *)
(***************************************************************************)
EXTENDS Reporters, FiniteSetsExt

CONSTANTS Targets,    \* the configurations to run, see Target
          Programs,   \* what the process under test writes, if nothing stops it
          Faults,     \* see FaultKinds
          PipeSize,   \* events the pipe holds
          MaxNoise    \* bound: events that other output spoils

(* crash: death by a signal.  noise: other output spoils an event.         *)
(* oserror: read or wait fails.  disk: a report cannot be written.  prepare: the   *)
(* build command fails or the binary is missing.                           *)
FaultKinds == {"crash", "noise", "oserror", "disk", "prepare"}

Target == [mode : {"stream", "command"}, board : {"host", "qemu_m33", "other"},
           transport : {"stdio", "uart"}, codec : {"text", "cobs", "other"},
           filters : SUBSET {"tag", "suite", "group"}, isolate : BOOLEAN,
           onCrash : {"continue", "abort", "other"}, reporters : Seq(STRING)]

Lost == [type |-> "Lost"]     \* decodes to nothing
Bad  == [type |-> "Bad"]      \* a frame that decode_feed refuses

ASSUME StreamAssumption ==
    /\ \A t \in Targets : t \in Target
    /\ \A program \in Programs :
          program \in Seq({Lost} \cup Event(Seq(STRING), [suite : Seq(STRING), leaf : Seq(STRING)]))
    /\ Faults \subseteq FaultKinds
    /\ PipeSize \in Nat \ {0} /\ MaxNoise \in Nat

Running == 512
Signal  == 256

VARIABLES
    pc,        \* the host
    target,    \* TargetConfig, with the command line merged into it
    todo,      \* events: what decode_feed made of the last read and is still to be reported
    report,    \* the events given to every reporter
    failed,    \* failed: the count of the DONE event
    finished,  \* the reporters that have written their report
    exitCode,  \* of the host
    child,     \* the process under test
    out,       \* what it wrote, as the codec will see it
    got,       \* how much of that was read
    expired    \* the deadline has passed

hostVars == <<pc, target, todo, report, failed, finished, exitCode>>
vars == <<hostVars, child, out, got, expired>>

Ended == pc \in {"exit", "bailed", "isolated"}

-----------------------------------------------------------------------------
(* The process under test.  A full pipe blocks it.                         *)
Alive == child.status = Running
More  == Alive /\ child.step <= Len(child.program)

Write(event) ==
    /\ Len(out) - got < PipeSize
    /\ \/ out' = Append(out, event) /\ child' = [child EXCEPT !.step = @ + 1]
       \/ /\ "noise" \in Faults /\ child.spoiled < MaxNoise
          /\ \E seen \in IF target.codec = "cobs" THEN {Lost, Bad} ELSE {Lost} :
                out' = Append(out, seen)
          /\ child' = [child EXCEPT !.step = @ + 1, !.spoiled = @ + 1]

ChildWrite == More /\ Write(child.program[child.step])

ChildReturn ==
    /\ Alive /\ ~More
    /\ \E status \in {0, 1} : child' = [child EXCEPT !.status = status]
    /\ UNCHANGED out

ChildCrash ==
    /\ "crash" \in Faults /\ Alive
    /\ child' = [child EXCEPT !.status = Signal]
    /\ UNCHANGED out

ChildStep ==
    /\ ~Ended
    /\ ChildWrite \/ ChildReturn \/ ChildCrash
    /\ UNCHANGED <<hostVars, got, expired>>

-----------------------------------------------------------------------------
(* The host.                                                               *)
Goto(label) == pc' = label

Bail == /\ Goto("bailed") /\ exitCode' = 1
        /\ UNCHANGED <<target, todo, report, failed, finished, child, out, got, expired>>

Proceed(label) ==
    /\ Goto(label)
    /\ UNCHANGED <<target, todo, report, failed, finished, exitCode, child, out, got, expired>>

(* The `bail!`s of run_target, before anything is built or started.        *)
Refused(t) ==
    \/ t.mode # "stream"
    \/ t.board = "host" /\ t.transport # "stdio"
    \/ t.board = "qemu_m33" /\ t.transport # "uart"
    \/ "group" \in t.filters /\ "suite" \notin t.filters
    \/ t.board = "host" /\ t.onCrash = "other"
    \/ t.board = "qemu_m33" /\ t.filters # {}
    \/ t.board = "other"

Configure ==
    /\ pc = "configure"
    /\ IF Refused(target) THEN Bail
       ELSE Proceed(IF target.board = "host" /\ target.isolate THEN "isolated" ELSE "prepare")

PrepareFails == pc = "prepare" /\ "prepare" \in Faults /\ Bail

(* Board::prepare and spawn_transport.                                     *)
Spawn ==
    /\ pc = "prepare"
    /\ \E program \in Programs :
         child' = [program |-> program, step |-> 1, status |-> Running, spoiled |-> 0]
    /\ Goto("setup")
    /\ UNCHANGED <<target, todo, report, failed, finished, exitCode, out, got, expired>>

(* Codec and reporters are looked up after the process was started.        *)
Setup ==
    /\ pc = "setup"
    /\ IF target.codec = "other" \/ \E k \in DOMAIN target.reporters :
             target.reporters[k] \notin {"console", "junit", "json"}
       THEN Bail
       ELSE Proceed("check")

CheckDeadline == pc = "check" /\ IF expired THEN Bail ELSE Proceed("read")

(* &buf[..n]                                                               *)
Consumed(upto) == upto

(* A read returns what there is, up to some point; an error in any frame   *)
(* of the chunk costs the events before it as well.                        *)
ReadChunk ==
    /\ pc = "read" /\ got < Len(out)
    /\ \E upto \in got + 1 .. Len(out) :
         LET chunk == SubSeq(out, got + 1, upto)
         IN  IF \E k \in DOMAIN chunk : chunk[k] = Bad THEN Bail
             ELSE /\ got' = Consumed(upto) /\ todo' = chunk
                  /\ Goto("report")
                  /\ UNCHANGED <<target, report, failed, finished, exitCode, child, out, expired>>

(* Mistake: the events behind a DONE are reported too.                     *)
Onward_PastDone(event) == "report"

(* if ev.is_terminal()                                                     *)
Onward(event) == IF IsTerminal(event) THEN "finish" ELSE "report"

(* Mistake: the wrong counter of the DONE is looked at.                    *)
FailedOf_Skipped(event) == IF IsTerminal(event) THEN event.tally.skipped ELSE failed

FailedOf(event) == IF IsTerminal(event) THEN event.tally.failed ELSE failed

(* for ev in events                                                        *)
ReportEvent ==
    /\ pc = "report" /\ todo # <<>>
    /\ LET event == Head(todo)
       IN  /\ report' = IF event = Lost THEN report ELSE Append(report, event)
           /\ failed' = FailedOf(event)
           /\ Goto(Onward(event))
    /\ todo' = Tail(todo)
    /\ UNCHANGED <<target, finished, exitCode, child, out, got, expired>>

ReportedAll == pc = "report" /\ todo = <<>> /\ Proceed("check")

(* Mistake: a read of length 0 is not taken for the end.                   *)
ReadEnds_Never == pc = "read" /\ FALSE /\ Proceed("finish")

(* read returned 0.                                                        *)
ReadEnds == pc = "read" /\ ~Alive /\ got = Len(out) /\ Proceed("finish")

(* An error whose text contains "os error" is taken for the end as well.   *)
ReadFails == pc = "read" /\ "oserror" \in Faults /\ Proceed("finish")

(* Mistake: a report that could not be written is passed over.             *)
FinishReporters_Leniently ==
    /\ pc = "finish"
    /\ \E n \in 0 .. Len(target.reporters) : finished' = SubSeq(target.reporters, 1, n)
    /\ Goto(IF failed > 0 THEN "exit" ELSE "wait")
    /\ exitCode' = IF failed > 0 THEN 1 ELSE exitCode
    /\ UNCHANGED <<target, todo, report, failed, child, out, got, expired>>

FinishReporters ==
    /\ pc = "finish"
    /\ finished' = target.reporters
    /\ Goto(IF failed > 0 THEN "exit" ELSE "wait")
    /\ exitCode' = IF failed > 0 THEN 1 ELSE exitCode
    /\ UNCHANGED <<target, todo, report, failed, child, out, got, expired>>

(* File::create fails: the reports after that one are not written.         *)
FinishFails ==
    /\ pc = "finish" /\ "disk" \in Faults
    /\ \E n \in DOMAIN target.reporters :
         /\ target.reporters[n] # "console"
         /\ finished' = SubSeq(target.reporters, 1, n - 1)
    /\ Goto("bailed") /\ exitCode' = 1
    /\ UNCHANGED <<target, todo, report, failed, child, out, got, expired>>

(* transport.wait() has no deadline, and nobody reads the pipe any more.   *)
Wait ==
    /\ pc = "wait" /\ ~Alive
    /\ Proceed("exit")

(* `transport.wait()?` with a binary of the host, `let _ =` with QEMU.     *)
WaitFails ==
    /\ pc = "wait" /\ "oserror" \in Faults
    /\ IF target.board = "host" THEN Bail ELSE Proceed("exit")

HostStep ==
    \/ Configure \/ PrepareFails \/ Spawn \/ Setup \/ CheckDeadline
    \/ ReadChunk \/ ReportEvent \/ ReportedAll \/ ReadEnds \/ FinishReporters \/ FinishFails \/ Wait

Tick ==
    /\ pc \in {"check", "read", "report"} /\ ~expired
    /\ expired' = TRUE
    /\ UNCHANGED <<hostVars, child, out, got>>

Terminated == Ended /\ UNCHANGED vars

-----------------------------------------------------------------------------
Init ==
    /\ pc = "configure" /\ target \in Targets
    /\ todo = <<>> /\ report = <<>> /\ failed = 0 /\ finished = <<>> /\ exitCode = 0
    /\ child = [program |-> <<>>, step |-> 1, status |-> 0, spoiled |-> 0]
    /\ out = <<>> /\ got = 0 /\ expired = FALSE

Next == HostStep \/ ReadFails \/ WaitFails \/ ChildStep \/ Tick \/ Terminated

Spec == Init /\ [][Next]_vars

(* The host is scheduled and time passes; the process may stop anywhere.   *)
FairSpec == Spec /\ WF_vars(HostStep) /\ WF_vars(Tick)

-----------------------------------------------------------------------------
DoneSeen == DonesIn(report) # {}

(* The intact events among the first m that were written.                  *)
Intact(m) == {k \in 1 .. m : out[k] # Lost}

(* However the stream is cut into reads, the reporters are told the intact *)
(* events in the order they were written, each once, and nothing that      *)
(* comes after the first DONE, even if it was read with it; and the host   *)
(* reads on, or ends without a DONE, only when it has told them all.       *)
ReportFollowsStream ==
    LET told == Intact(got - Len(todo))
    IN  /\ Len(report) = Cardinality(told)
        /\ \A k \in told : report[Cardinality(Intact(k))] = out[k]
        /\ DonesIn(report) \subseteq {Len(report)}
        /\ (pc # "report" /\ ~DoneSeen) => todo = <<>>

(* What the harness promises of a process that runs its cases.             *)
HonestPrograms == \A program \in Programs : Honest(program)

(* Once a DONE arrived the exit code is that of the cases: 1 if the DONE   *)
(* says so and 0 if not, and where nothing was lost on the way it says so  *)
(* exactly if the reporters were told of a failed case.                    *)
ExitTellsFailure ==
    (pc = "exit" /\ DoneSeen) =>
        /\ exitCode = 1 <=> report[Len(report)].tally.failed > 0
        /\ child.spoiled = 0 => (exitCode = 1 <=> FailuresIn(report) # {})

(* A host that ends with the verdict of the stream has written every       *)
(* report.  One that bails has written none, or as many as the disk took,  *)
(* but all that were asked for only where no failure is known and the      *)
(* process of a host target cannot be waited for.                          *)
ReportsAreAllOrNothing ==
    /\ pc = "exit" => finished = target.reporters
    /\ pc = "bailed" =>
          /\ exitCode = 1
          /\ finished \notin {<<>>, target.reporters} => "disk" \in Faults
          /\ (finished = target.reporters /\ finished # <<>>) =>
                "oserror" \in Faults /\ target.board = "host" /\ ~(failed > 0)

(* docs/cli.md: the loop from "Read bytes" leads to "reporter.finish" and  *)
(* "Exit 0 or 1" only by way of Event::Done.                               *)
VerdictNeedsDone == pc = "exit" => DoneSeen

(* What can hold up a streamed run for ever: a process that is silent, but *)
(* alive, while it is read from; or one that does not exit, perhaps        *)
(* because the pipe is full, after its DONE.                               *)
EndsUnlessChildStays ==
    \/ <>Ended
    \/ <>[](pc = "read" /\ Alive /\ got = Len(out))
    \/ <>[](pc = "wait" /\ Alive)

=============================================================================
