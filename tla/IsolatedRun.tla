----------------------------- MODULE IsolatedRun -----------------------------
(***************************************************************************)
(* run_isolated of crates/polyontest-cli/src/main.rs: every discovered     *)
(* case runs in a child process of its own.  Three parties act:            *)
(*                                                                         *)
(*   - the child (harness and user code), which writes events to its       *)
(*     stdout and may crash, exit, or hang anywhere;                       *)
(*   - the reader thread of that child, which decodes chunks of the pipe   *)
(*     and forwards the events over a channel;                             *)
(*   - the main thread, which receives until a deadline, kills, waits,     *)
(*     judges the exit status, and keeps counters and reports.             *)
(*                                                                         *)
(* Pipe and channel are one append-only log, `out`, with two positions:    *)
(* `sent` events went into the channel, `got` of them were received.  A    *)
(* reader thread that outlives its case holds only its own pipe and        *)
(* channel ends, so only the current child's is part of the state.         *)
(***************************************************************************)
EXTENDS Reporters

CONSTANTS Cases,      \* the discovered cases, in order, as [suite, leaf]
          Runs,       \* Runs[k]: the cases the child spawned for Cases[k] runs
          OnCrash,    \* "continue" or "abort"
          Codec,      \* "text" or "cobs"
          Faults,     \* what children may do besides hanging, see FaultKinds
          MaxFails,   \* bound: failed asserts of one child
          MaxNoise    \* bound: events of one child that noise spoils

(* crash: death by a signal.  exit: user code calls exit().  noise: other  *)
(* output on stdout spoils an event.  fixture: an assert fails in a suite  *)
(* fixture.  close: user code closes stdout.  read: a read of the pipe     *)
(* fails.  io: a child cannot be spawned or a report not be written.       *)
FaultKinds == {"crash", "exit", "noise", "fixture", "close", "read", "io"}

CaseIds == [suite : Seq(STRING), leaf : Seq(STRING)]
Unknown == [suite |-> <<"?">>, leaf |-> <<"?", "?">>]  \* g_cur_* before the first case

ASSUME RunAssumption ==
    /\ Cases \in Seq(CaseIds)
    /\ Runs \in Seq(Seq(CaseIds)) /\ Len(Runs) = Len(Cases)
    /\ OnCrash \in {"continue", "abort"}
    /\ Codec \in {"text", "cobs"}
    /\ Faults \subseteq FaultKinds
    /\ MaxFails \in Nat /\ MaxNoise \in Nat

Signal == 256                  \* an exit status without a code
ExitStatus == {0, 1, 2, Signal}
Running == 512

VARIABLES
    pc,          \* the main thread
    cur,         \* index of the current case
    view,        \* ran_case, received_case_end, parsed_status, child_res.is_err()
    tally,       \* passed_count, failed_count, skipped_count
    suiteFailed, \* suite_failed
    seenSuites,  \* seen_suites
    report,      \* the events given to every reporter, in order
    exitCode,    \* of the host process
    child,       \* the child process
    out,         \* what it wrote, as the codec will see it
    reader,      \* state of the reader thread and events sent
    got,         \* events received by the main thread
    expired,     \* the deadline has passed
    ledger,      \* ghost: every count made, as [of, status], in order
    fate         \* ghost: an Account of each child

mainVars   == <<pc, cur, view, tally, suiteFailed, seenSuites, report, exitCode>>
childVars  == <<child, out>>
readerVars == <<reader, got>>
ghosts     == <<ledger, fate>>
vars == <<mainVars, childVars, readerVars, expired, ghosts>>

-----------------------------------------------------------------------------
(* The child.  What run_filtered makes it do for the cases it runs: turns  *)
(* of its loop, and the turn that ends the run, each a sequence of events  *)
(* to emit, with a "body" where user code decides.                         *)
Body(case) == [type |-> "Body", id |-> case]

SuiteBefore(runs, k) == IF k = 1 THEN <<>> ELSE runs[k - 1].suite

Turn(runs, k) ==
    LET before == SuiteBefore(runs, k)
        close == SuiteEnd(before, NoTally)
    IN  IF k > Len(runs)
        THEN IF before = <<>> THEN <<DoneEvent(NoTally)>> ELSE <<close, DoneEvent(NoTally)>>
        ELSE LET start == CaseStart(runs[k])
                 body == Body(runs[k])
             IN  IF before = runs[k].suite THEN <<start, body>>
                 ELSE IF before = <<>> THEN <<SuiteStart(runs[k].suite), start, body>>
                 ELSE <<close, SuiteStart(runs[k].suite), start, body>>

NewChild(k) == [runs |-> Runs[k], turn |-> 1, step |-> 1, status |-> Running,
                fails |-> 0, failing |-> FALSE, failed |-> FALSE,
                id |-> Unknown, closed |-> FALSE, spoiled |-> 0, verdicts |-> <<>>]

Alive == child.status = Running
Now   == Turn(child.runs, child.turn)
AtStep(types) == /\ Alive
                 /\ child.step <= Len(Now)
                 /\ Now[child.step].type \in types

(* An event as the host's codec sees it: intact, or glued to other output: *)
(* a line that parses to nothing, a frame that does not decode.            *)
Lost == [type |-> "Lost"]
Bad  == [type |-> "Bad"]
Spoilt == IF Codec = "cobs" THEN {Lost, Bad} ELSE {Lost}

(* The child writes an event and goes on as `next`.                        *)
Write(event, next) ==
    \/ child.closed /\ out' = out /\ child' = next
    \/ ~child.closed /\ out' = Append(out, event) /\ child' = next
    \/ /\ ~child.closed /\ "noise" \in Faults /\ child.spoiled < MaxNoise
       /\ \E seen \in Spoilt : out' = Append(out, seen)
       /\ child' = [next EXCEPT !.spoiled = @ + 1]

ChildEmit ==
    /\ AtStep({"SuiteStart", "CaseStart", "SuiteEnd", "Done"})
    /\ LET event == Now[child.step]
       IN  Write(event, [child EXCEPT !.step = @ + 1,
                 !.id = IF event.type = "CaseStart" THEN event.id ELSE @,
                 !.failing = IF event.type = "CaseStart" THEN FALSE ELSE @])

(* pot_fail_at, from a test body or, before the event of the suite that    *)
(* the fixture belongs to, from a suite fixture.                           *)
ChildFail ==
    /\ AtStep(IF "fixture" \in Faults THEN {"Body", "SuiteStart", "SuiteEnd"} ELSE {"Body"})
    /\ child.fails < MaxFails
    /\ Write(AssertFail(child.id), [child EXCEPT !.fails = @ + 1, !.failing = TRUE])

(* The body returns: pot_ignore wins over failure, pot_abort fails it      *)
(* without an event.                                                       *)
ChildVerdict ==
    /\ AtStep({"Body"})
    /\ \E status \in IF child.failing THEN {"Failed", "Skipped"} ELSE TestStatus :
         Write(CaseEnd(child.id, status),
               [child EXCEPT !.turn = @ + 1, !.step = 1,
                             !.failed = @ \/ status = "Failed",
                             !.verdicts = Append(@, status)])

(* main returns what pot_run_from_env returned.                            *)
ChildReturn ==
    /\ Alive /\ child.step > Len(Now)
    /\ child' = [child EXCEPT !.status = IF child.failed THEN 1 ELSE 0]
    /\ UNCHANGED out

ChildExit ==
    /\ "exit" \in Faults /\ Alive
    /\ \E code \in {0, 1, 2} : child' = [child EXCEPT !.status = code]
    /\ UNCHANGED out

(* SIGPIPE kills a writer whose reader thread has returned.                *)
ChildCrash ==
    /\ Alive /\ ("crash" \in Faults \/ reader.state \in {"error", "broken"})
    /\ child' = [child EXCEPT !.status = Signal]
    /\ UNCHANGED out

ChildClose ==
    /\ "close" \in Faults /\ AtStep({"Body"}) /\ ~child.closed
    /\ child' = [child EXCEPT !.closed = TRUE]
    /\ UNCHANGED out

ChildStep ==
    /\ ChildEmit \/ ChildFail \/ ChildVerdict \/ ChildReturn
       \/ ChildExit \/ ChildCrash \/ ChildClose
    /\ UNCHANGED <<mainVars, readerVars, expired, ghosts>>

-----------------------------------------------------------------------------
(* The reader thread.  A chunk ends anywhere; decode_feed returns the      *)
(* events of the whole chunk or an error, and an error ends the thread.    *)
ReadChunk ==
    /\ reader.state = "reading"
    /\ \E upto \in reader.sent + 1 .. Len(out) :
         reader' = IF \E k \in reader.sent + 1 .. upto : out[k] = Bad
                   THEN [reader EXCEPT !.state = "error"]
                   ELSE [reader EXCEPT !.sent = upto]
    /\ UNCHANGED <<mainVars, childVars, got, expired, ghosts>>

(* read returned 0; dropping tx disconnects the channel.                   *)
ReadEof ==
    /\ reader.state = "reading"
    /\ reader.sent = Len(out)
    /\ ~Alive \/ child.closed
    /\ reader' = [reader EXCEPT !.state = "eof"]
    /\ UNCHANGED <<mainVars, childVars, got, expired, ghosts>>

(* read failed.  An "os error" ends the loop like the end of the stream,   *)
(* with what the pipe still holds and though the child may be alive; any   *)
(* other error is sent to the main thread.                                 *)
ReadFails ==
    /\ "read" \in Faults
    /\ reader.state = "reading"
    /\ \E state \in {"broken", "error"} : reader' = [reader EXCEPT !.state = state]
    /\ UNCHANGED <<mainVars, childVars, got, expired, ghosts>>

ReaderStep == ReadChunk \/ ReadEof \/ ReadFails

Disconnected == reader.state \in {"eof", "broken"}

-----------------------------------------------------------------------------
(* The main thread.                                                        *)
Goto(label) == pc' = label

NextCase == IF cur < Len(Cases) THEN Goto("spawn") /\ cur' = cur + 1
         ELSE Goto("finish") /\ UNCHANGED cur

FreshView == [ran |-> FALSE, ended |-> FALSE, parsed |-> "Passed", err |-> FALSE]

(* Mistake: the state of the previous child's case is not reset.           *)
Spawn_KeepsView ==
    /\ pc = "spawn"
    /\ child' = NewChild(cur) /\ out' = <<>>
    /\ reader' = [state |-> "reading", sent |-> 0] /\ got' = 0
    /\ expired' = FALSE /\ Goto("check")
    /\ UNCHANGED <<cur, view, tally, suiteFailed, seenSuites, report, exitCode, ghosts>>

(* Mistake: the previous child's channel is read on.                       *)
Spawn_KeepsChannel ==
    /\ pc = "spawn"
    /\ child' = NewChild(cur) /\ out' = <<>>
    /\ reader' = [state |-> "reading", sent |-> 0] /\ UNCHANGED got
    /\ expired' = FALSE /\ view' = FreshView /\ Goto("check")
    /\ UNCHANGED <<cur, tally, suiteFailed, seenSuites, report, exitCode, ghosts>>

Spawn ==
    /\ pc = "spawn"
    /\ child' = NewChild(cur) /\ out' = <<>>
    /\ reader' = [state |-> "reading", sent |-> 0] /\ got' = 0
    /\ expired' = FALSE
    /\ view' = FreshView
    /\ Goto("check")
    /\ UNCHANGED <<cur, tally, suiteFailed, seenSuites, report, exitCode, ghosts>>

(* The `?` on spawn: run_isolated returns without finishing the reporters. *)
SpawnFails ==
    /\ pc = "spawn" /\ "io" \in Faults
    /\ Goto("bailed") /\ exitCode' = 1
    /\ UNCHANGED <<cur, view, tally, suiteFailed, seenSuites, report,
                   childVars, readerVars, expired, ghosts>>

GiveUp == /\ view' = [view EXCEPT !.err = TRUE]
          /\ Goto("kill")
          /\ UNCHANGED <<cur, tally, suiteFailed, seenSuites, report, exitCode,
                         childVars, readerVars, expired, ghosts>>

(* `now >= deadline` is tested before every receive, even when events are  *)
(* waiting.                                                                *)
CheckDeadline ==
    /\ pc = "check"
    /\ IF expired THEN GiveUp
       ELSE /\ Goto("recv")
            /\ UNCHANGED <<cur, view, tally, suiteFailed, seenSuites, report, exitCode,
                           childVars, readerVars, expired, ghosts>>

(* Mistake: every child's SUITE_START is reported.                         *)
OnSuiteStart_Always(event) ==
    /\ report' = Append(report, event)
    /\ UNCHANGED <<view, tally, suiteFailed, seenSuites, ledger>>

OnSuiteStart(event) ==
    /\ seenSuites' = seenSuites \cup {event.name}
    /\ report' = IF event.name \in seenSuites THEN report ELSE Append(report, event)
    /\ UNCHANGED <<view, tally, suiteFailed, ledger>>

OnCaseStart(event) ==
    /\ view' = [view EXCEPT !.ran = TRUE]
    /\ report' = Append(report, event)
    /\ UNCHANGED <<tally, suiteFailed, seenSuites, ledger>>

OnAssertFail(event) ==
    /\ report' = Append(report, event)
    /\ UNCHANGED <<view, tally, suiteFailed, seenSuites, ledger>>

(* Mistake: a failed case is counted but not remembered for the exit code. *)
OnCaseEnd_NoFlag(event) ==
    /\ view' = [view EXCEPT !.ended = TRUE, !.parsed = event.status]
    /\ tally' = Count(tally, event.status)
    /\ ledger' = Append(ledger, [of |-> cur, status |-> event.status])
    /\ report' = Append(report, event)
    /\ UNCHANGED <<suiteFailed, seenSuites>>

OnCaseEnd(event) ==
    /\ view' = [view EXCEPT !.ended = TRUE, !.parsed = event.status]
    /\ tally' = Count(tally, event.status)
    /\ suiteFailed' = (suiteFailed \/ event.status = "Failed")
    /\ ledger' = Append(ledger, [of |-> cur, status |-> event.status])
    /\ report' = Append(report, event)
    /\ UNCHANGED seenSuites

Handle(event) ==
    \/ event.type = "SuiteStart" /\ OnSuiteStart(event)
    \/ event.type = "CaseStart"  /\ OnCaseStart(event)
    \/ event.type = "AssertFail" /\ OnAssertFail(event)
    \/ event.type = "CaseEnd"    /\ OnCaseEnd(event)
    \/ /\ event.type \in {"SuiteEnd", "Done", "Lost"}       \* `_ => {}`
       /\ UNCHANGED <<view, tally, suiteFailed, seenSuites, report, ledger>>

Receive ==
    /\ pc = "recv" /\ got < reader.sent
    /\ got' = got + 1
    /\ Handle(out[got + 1])
    /\ Goto("check")
    /\ UNCHANGED <<cur, exitCode, childVars, reader, expired, fate>>

ReceiveError == pc = "recv" /\ got = reader.sent /\ reader.state = "error" /\ GiveUp

(* Mistake: a plain recv, without the time that is left.                   *)
ReceiveTimeout_Never == FALSE /\ GiveUp

ReceiveTimeout ==
    pc = "recv" /\ got = reader.sent /\ reader.state = "reading" /\ expired /\ GiveUp

(* Mistake: events still in the channel are left there.                    *)
ReceiveDisconnected_Early ==
    /\ pc = "recv" /\ Disconnected
    /\ Goto("wait")
    /\ UNCHANGED <<cur, view, tally, suiteFailed, seenSuites, report, exitCode,
                   childVars, readerVars, expired, ghosts>>

ReceiveDisconnected ==
    /\ pc = "recv" /\ got = reader.sent /\ Disconnected
    /\ Goto("wait")
    /\ UNCHANGED <<cur, view, tally, suiteFailed, seenSuites, report, exitCode,
                   childVars, readerVars, expired, ghosts>>

Kill ==
    /\ pc = "kill"
    /\ child' = [child EXCEPT !.status = IF @ = Running THEN Signal ELSE @]
    /\ Goto("wait")
    /\ UNCHANGED <<cur, view, tally, suiteFailed, seenSuites, report, exitCode,
                   out, readerVars, expired, ghosts>>

(* What a dead child did; whole: it neither closed nor spoilt its stdout,  *)
(* and the host did not give it up; cut: a read error ended its stream.    *)
Account ==
    [verdicts |-> child.verdicts, status |-> child.status,
     whole |-> ~child.closed /\ child.spoiled = 0 /\ ~view.err,
     cut |-> reader.state = "broken"]

(* child.wait() blocks until the child is dead, whatever the deadline.     *)
Wait ==
    /\ pc = "wait" /\ ~Alive
    /\ fate' = Append(fate, Account)
    /\ Goto("judge")
    /\ UNCHANGED <<cur, view, tally, suiteFailed, seenSuites, report, exitCode,
                   childVars, readerVars, expired, ledger>>

ExitOk == child.status \in {0, 1}

(* Mistake: the exit status is not looked at.                              *)
Sound_IgnoresStatus == ~view.err /\ view.ran

Sound == ~view.err /\ ExitOk /\ view.ran

JudgeSound ==
    /\ pc = "judge" /\ Sound
    /\ NextCase
    /\ UNCHANGED <<view, tally, suiteFailed, seenSuites, report, exitCode,
                   childVars, readerVars, expired, ghosts>>

(* Mistake: the status counted before the crash stays counted.             *)
Uncount_Forgets(t, status) == t

Uncount(t, status) ==
    [t EXCEPT ![Field[status]] = IF @ > 0 THEN @ - 1 ELSE 0]    \* saturating_sub

(* Mistake: a crash always counts as one more failure.                     *)
CountCrash_Always ==
    /\ tally' = Count(tally, "Failed")
    /\ suiteFailed' = TRUE
    /\ ledger' = Append(ledger, [of |-> cur, status |-> "Failed"])

(* Mistake: a crash after the CASE_END does not count.                     *)
CountCrash_IfOpen ==
    IF ~view.ended THEN CountCrash_Always ELSE UNCHANGED <<tally, suiteFailed, ledger>>

(* The counters after a crash: a failure is counted for the case, or the   *)
(* status counted for it already is turned into one.                       *)
CountCrash ==
    IF ~view.ended
    THEN /\ tally' = Count(tally, "Failed")
         /\ suiteFailed' = TRUE
         /\ ledger' = Append(ledger, [of |-> cur, status |-> "Failed"])
    ELSE IF view.parsed # "Failed"
    THEN /\ tally' = Count(Uncount(tally, view.parsed), "Failed")
         /\ suiteFailed' = TRUE
         /\ ledger' = [ledger EXCEPT ![Len(ledger)] = [of |-> @.of, status |-> "Failed"]]
    ELSE UNCHANGED <<tally, suiteFailed, ledger>>

(* Mistake: --on-crash abort is not obeyed.                                *)
JudgeCrash_GoesOn ==
    /\ pc = "judge" /\ ~Sound
    /\ CountCrash
    /\ report' = Append(report, AssertFail(Cases[cur]))
    /\ NextCase
    /\ UNCHANGED <<view, seenSuites, exitCode, childVars, readerVars, expired, fate>>

JudgeCrash ==
    /\ pc = "judge" /\ ~Sound
    /\ CountCrash
    /\ report' = report
         \o (IF view.ran THEN <<>> ELSE <<CaseStart(Cases[cur])>>)
         \o <<AssertFail(Cases[cur])>>
         \o (IF view.ended THEN <<>> ELSE <<CaseEnd(Cases[cur], "Failed")>>)
    /\ IF OnCrash = "abort" THEN Goto("finish") /\ UNCHANGED cur ELSE NextCase
    /\ UNCHANGED <<view, seenSuites, exitCode, childVars, readerVars, expired, fate>>

Finish ==
    /\ pc = "finish"
    /\ report' = Append(report, DoneEvent(tally))
    /\ exitCode' = IF suiteFailed THEN 1 ELSE 0
    /\ Goto("exit")
    /\ UNCHANGED <<cur, view, tally, suiteFailed, seenSuites,
                   childVars, readerVars, expired, ghosts>>

(* The `?` on a reporter's finish; the reporters after it never saw Done.  *)
FinishFails ==
    /\ pc = "finish" /\ "io" \in Faults
    /\ report' \in {report, Append(report, DoneEvent(tally))}
    /\ Goto("bailed") /\ exitCode' = 1
    /\ UNCHANGED <<cur, view, tally, suiteFailed, seenSuites,
                   childVars, readerVars, expired, ghosts>>

MainStep ==
    \/ Spawn \/ SpawnFails \/ CheckDeadline
    \/ Receive \/ ReceiveError \/ ReceiveTimeout \/ ReceiveDisconnected
    \/ Kill \/ Wait \/ JudgeSound \/ JudgeCrash \/ Finish \/ FinishFails

(* The clock reaches the deadline of the current child.                    *)
Tick ==
    /\ pc \in {"check", "recv"} /\ ~expired
    /\ expired' = TRUE
    /\ UNCHANGED <<mainVars, childVars, readerVars, ghosts>>

Terminated == pc \in {"exit", "bailed"} /\ UNCHANGED vars

-----------------------------------------------------------------------------
(* An empty discovery is an error; otherwise the first case is spawned.    *)
Init ==
    /\ pc = IF Cases = <<>> THEN "bailed" ELSE "spawn"
    /\ exitCode = IF Cases = <<>> THEN 1 ELSE 0
    /\ cur = 1 /\ view = FreshView
    /\ tally = NoTally /\ suiteFailed = FALSE /\ seenSuites = {} /\ report = <<>>
    /\ child = [runs |-> <<>>, turn |-> 1, step |-> 1, status |-> 0, fails |-> 0,
                failing |-> FALSE, failed |-> FALSE, id |-> Unknown,
                closed |-> FALSE, spoiled |-> 0, verdicts |-> <<>>]
    /\ out = <<>> /\ reader = [state |-> "eof", sent |-> 0] /\ got = 0
    /\ expired = FALSE
    /\ ledger = <<>> /\ fate = <<>>

Next == MainStep \/ ReaderStep \/ ChildStep \/ Tick \/ Terminated

Spec == Init /\ [][Next]_vars

(* The two host threads are scheduled and time passes; nothing is assumed  *)
(* of the child, which may stop anywhere, and no read has to fail.         *)
FairSpec == Spec /\ WF_vars(MainStep) /\ WF_vars(ReadChunk \/ ReadEof) /\ WF_vars(Tick)

-----------------------------------------------------------------------------
TypeOK ==
    /\ pc \in {"spawn", "check", "recv", "kill", "wait", "judge", "finish",
              "exit", "bailed"}
    /\ cur \in Nat \ {0}
    /\ view \in [ran : BOOLEAN, ended : BOOLEAN, parsed : TestStatus, err : BOOLEAN]
    /\ tally \in Tally
    /\ suiteFailed \in BOOLEAN
    /\ exitCode \in {0, 1}
    /\ child.status \in ExitStatus \cup {Running}
    /\ reader \in [state : {"reading", "error", "eof", "broken"}, sent : Nat]
    /\ got \in Nat /\ got <= reader.sent
    /\ reader.sent <= Len(out)
    /\ expired \in BOOLEAN
    /\ ledger \in Seq([of : Nat, status : TestStatus])

(* Every child that was waited for, and those the host has judged since.   *)
Judged == {k \in DOMAIN fate : ~(pc = "judge" /\ k = cur)}
Crashed(k) == fate[k].status \notin {0, 1}
CountsOf(k) == {m \in DOMAIN ledger : ledger[m].of = k}
Finished == pc = "exit"

(* The three counters always equal the numbers of cases the run currently  *)
(* holds for passed, failed and skipped: the correction after a late crash *)
(* moves a case from one counter to another and loses or doubles none.     *)
TallyMatchesLedger ==
    \A status \in TestStatus :
        tally[Field[status]] = Cardinality({m \in DOMAIN ledger : ledger[m].status = status})

(* A child that died by a signal, was killed at the deadline or exited     *)
(* with another code than the harness uses is a failure of its case,       *)
(* wherever in its life, and in the event stream, that happened.           *)
CrashesAreFailures ==
    \A k \in Judged : Crashed(k) => \E m \in CountsOf(k) : ledger[m].status = "Failed"

(* A pass or skip that survives the judgement is one the harness announced *)
(* for that very case, in a process that went on to exit normally.         *)
PassesAreGenuine ==
    \A k \in Judged, m \in DOMAIN ledger :
        (ledger[m].of = k /\ ledger[m].status # "Failed")
            => /\ \E v \in DOMAIN fate[k].verdicts : fate[k].verdicts[v] = ledger[m].status
               /\ Crashed(k) => \E n \in CountsOf(k) : n > m

(* Timeouts, decode errors and late crashes never make a child count more  *)
(* cases than it ran (or the one it was spawned for).                      *)
NoCaseCountedTwice ==
    \A k \in DOMAIN Cases :
        Cardinality(CountsOf(k)) <= IF Runs[k] = <<>> THEN 1 ELSE Len(Runs[k])

(* A finished run exits with 1 exactly if a case failed, whichever of the  *)
(* two places that count failures, or the correction, counted it.          *)
ExitTellsFailure ==
    Finished => (exitCode = 1 <=> \E m \in DOMAIN ledger : ledger[m].status = "Failed")

(* --on-crash: under "abort" nothing is spawned after a child that         *)
(* crashed; under "continue", and without a crash, every case is.          *)
PolicyHonoured ==
    /\ OnCrash = "abort" => \A k \in Judged : Crashed(k) => Len(fate) = k /\ pc \notin {"spawn", "check", "recv"}
    /\ (Finished /\ Len(fate) < Len(Cases)) =>
          /\ OnCrash = "abort"
          /\ \E m \in CountsOf(Len(fate)) : ledger[m].status = "Failed"

(* Tests that may crash or hang, but nothing else out of the ordinary.     *)
TidyTests == Faults \subseteq {"crash", "io"}

(* Where no test exits early, spoils the stream or fails in a suite        *)
(* fixture, the JUnit file has one entry per case run and as many failures *)
(* as the totals the console ends with, late crashes included.             *)
ReportersAgree ==
    Finished => /\ JunitFailures(report) = tally.failed
                /\ Len(JunitCases(report)) = Len(fate)
                /\ ConsoleTotals(report) = tally

(* What discovery gives where names are distinct and can be listed: a      *)
(* child runs the case it is spawned for, or does not find it.             *)
OwnCases ==
    /\ \A k \in DOMAIN Cases : Runs[k] \in {<<>>, <<Cases[k]>>} /\ Cases[k] # Unknown
    /\ \A j, k \in DOMAIN Cases : Cases[j] = Cases[k] => j = k

(* Where each child runs its own case and nothing spoils its stream, the   *)
(* stream the reporters see is one well-formed run, although it is put     *)
(* together from many processes and synthesised events: each case starts   *)
(* once, ends at most once after that, nothing of a case comes after the   *)
(* start of the next, and each suite is announced once.                    *)
ReportIsOneRun ==
    \A m, n \in DOMAIN report :
        m < n =>
        /\ ~IsTerminal(report[m])
        /\ report[n].type = "SuiteStart" => report[m] # report[n]
        /\ report[n].type = "CaseStart"
              => (report[m].type \in {"CaseStart", "CaseEnd", "AssertFail"}
                    => report[m].id # report[n].id)
        /\ report[n].type = "CaseEnd"
              => /\ report[m] # report[n]
                 /\ \E j \in 1..n : /\ report[j] = CaseStart(report[n].id)
                                    /\ \A i \in j + 1 .. n : report[i].type # "CaseStart"

(* Whatever the three parties' order, each verdict of a child that did not *)
(* crash is counted, in order, even if it exits before its last case: a    *)
(* case is counted as nothing only if its process exited in the middle of  *)
(* it, or closed or spoilt its stdout.  A read error of the host's loses   *)
(* the last verdicts at most, and if it leaves nothing at all, the case    *)
(* has failed.                                                             *)
EveryVerdictCounts ==
    \A k \in Judged :
        LET verdicts == fate[k].verdicts
        IN  (fate[k].whole /\ ~Crashed(k) /\ verdicts # <<>>) =>
                \/ \E kept \in 0 .. Len(verdicts) :
                      /\ fate[k].cut \/ kept = Len(verdicts)
                      /\ \E entry \in Bijection(1 .. kept, CountsOf(k)) :
                            /\ \A v \in 1 .. kept : ledger[entry[v]].status = verdicts[v]
                            /\ \A v, w \in 1 .. kept : v < w => entry[v] < entry[w]
                \/ /\ fate[k].cut
                   /\ \E m \in DOMAIN ledger :
                         CountsOf(k) = {m} /\ ledger[m].status = "Failed"

(* What the run promises, in terms of the cases alone: CaseLedger.          *)
Ledger == INSTANCE CaseLedger WITH
    at <- cur, book <- ledger,
    result <- IF pc = "exit" THEN IF exitCode = 1 THEN "failed" ELSE "passed"
              ELSE IF pc = "bailed" THEN "error" ELSE "running"

ImplementsLedger == Ledger!Spec

(* Everything that can hold up the run for ever is a child that does not   *)
(* exit after its stream has ended for the host, because it closed its     *)
(* stdout or because a read failed: no other hang, crash, exit, spoilt     *)
(* stream or abandoned reader thread keeps the run from its end.           *)
EndsUnlessStreamEnded ==
    \/ <>(pc \in {"exit", "bailed"})
    \/ <>[](pc = "wait" /\ Alive /\ (child.closed \/ reader.state = "broken"))

=============================================================================
