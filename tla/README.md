# A verification development of PolyOnTest

TLA+ models of the PolyOnTest framework: its C test harness, the wire format the
harness speaks, and the host program that builds, starts and watches test binaries,
with its asserts, its fakes and the lock of its integration tests. TLC checks the
models on small instances. TLAPS proves every safety property that the passing runs
check, and the refinement of two abstract specifications, for every value of the
constants.

Paths below are relative to the repository: `main.rs` is
`crates/polyontest-cli/src/main.rs`, `core.c` is `harness/c/polytest_core.c`,
`codec.rs` and `reporter.rs` are in `crates/polyontest-builtins/src/`,
`polytest.h` and `polytest_profile.h` in `harness/include/polytest/`,
`polytest_assert.c` in `harness/c/`, `polytest_fff.h` in
`plugins/extension/fff_fakes/`, `harness_tests.rs` in
`crates/polyontest-cli/tests/`.

## 1. Inventory

### Components

| component | code | state it keeps | operations |
|---|---|---|---|
| case registry and selection | `core.c`, the macros of `polytest.h` | three intrusive lists (`g_tests`, `g_suites`, `g_groups`) | `pot_register*` from constructors, tags, the filters of `pot_run_*`, `pot_run_from_env`, the `POT_DISCOVER` listing |
| case runner | `core.c` | `g_cur_*`, `g_current_failed/skipped`, `g_protect_active` and `g_jmp_buf`, `g_param_*`, totals | `sort_cases`, `run_filtered`, fixtures, `pot_fail_at`, `pot_ignore`, `pot_protect`, `pot_abort`, the parameter cursor |
| wire encoder | `core.c` | writer and lock hooks | `emit_msg` (COBS frames of PTWP messages), `emit_line` (text), `emit_raw` |
| codecs | `codec.rs` | bytes of an unfinished frame or line | `decode_feed` of `CobsCodec` and `TextCodec`; encoders, used by tests only |
| protocol | `polyontest-protocol/src/lib.rs` | none | events and statuses |
| reporters | `reporter.rs` | suite and case lists, totals, output file | `on_event`, `finish` of console, JUnit and JSON |
| streamed run | `main.rs` `run_target`, `drain_stream` | merged configuration, `failed`, the deadline | configure, prepare, spawn, read, decode, report, finish, wait |
| isolated run | `main.rs` `discover_cases`, `run_isolated` | three counters, `suite_failed`, `seen_suites`, per case `ran_case`, `received_case_end`, `parsed_status` | spawn, reader thread, receive until a deadline, kill, wait, judge, finish |
| boards and transports | `board.rs`, `transport.rs` | child process and its pipes | prepare, spawn, read, wait, a `set_timeout` that does nothing |
| plugin interfaces | `polyontest-plugin-api` | none | traits |
| asserts | `polytest_assert.c`, the macros of `polytest.h` | none | conversions, comparisons, and messages that end in `pot_fail_at` |
| C++ and Rust front ends | `polytest.hpp`, `polyontest-rs` | none of their own | registration wrappers |
| FFF fakes | `polytest_fff.h` | per fake: call count, last arguments, histories, return value, custom fake | the fake function itself, five reset macros, assignments by tests |
| profiles | `polytest_profile.h` | none | compile-time derivation of feature macros |
| test-suite build lock | `harness_tests.rs` | a lock file | take, take over after 60 s, remove |

### How they interact

Constructors register suites, groups and cases before `main`. The runner
walks the sorted list, calls user code back for fixtures and bodies, and emits
events through one writer; user threads may emit at the same time. The bytes go
through a pipe whose reads cut them anywhere, to a codec and from there to the
reporters. A *streamed* run is one process with all cases and a single host
thread. An *isolated* run lists the cases with a first process and then starts
one process per case, named by three environment variables; a reader thread per
child forwards events over a channel to the main thread, which also watches the
clock. Events that a crashed child did not send are made up by the host.

Asserts are called by user code in any callback and reach the runner through
`pot_fail_at` only. Fakes are linked into the test binary in place of hardware
code and keep their state across cases, until a test resets them. The profile
decides which of all this is compiled in. The build lock stands outside: test
processes of the repository itself compete for it before they build a harness.

### What is hard, and what correctness means

- **Isolated run**: three actors and a clock; children crash, hang, exit, spoil
  or close their stdout between any two steps; a timeout races a `CASE_END`
  that is already in the channel; a late crash turns a counted pass into a
  failure. Correct: counters equal what the run holds of its cases, a crash is
  always a failure, no case counts twice, passes are genuine, the exit code and
  the reporters agree with the counters, `--on-crash` is obeyed, the run ends.
- **Case runner**: one set of globals serves all callbacks, user code may fail,
  skip, jump or leave a loop anywhere, and the sort relinks the only list.
  Correct: no case is lost, the stream is nested, no verdict leaks, totals add
  up, fixtures bracket their cases.
- **Selection**: names travel through a dotted line and the environment.
  Correct: isolated and plain runs execute the same cases.
- **Streamed run**: a blocking read, a pipe of limited size, reports that may
  fail half-way. Correct: reports follow the stream and stop at `DONE`, the exit
  code tells failures, nothing but the process under test holds the host up.
- **Wire**: buffer limits, COBS block limits, chunks, threads. Correct: every
  event is decoded as it was meant, or is missing because it was too long.
- **Asserts**: casts, widths, the least integer, NaN, NULL. Correct: an assert
  passes exactly if the relation it is named for holds of the numbers or contents
  it was given, and a failure shows what was compared.
- **Fakes**: histories of fixed length, custom fakes that call and reset fakes in
  the middle of a call, resets of several kinds. Correct: what a test reads is
  about the calls since the last reset, and nothing of the test before remains.
- **Build lock**: looking at a file, removing it and creating it are separate
  system calls; holders are killed or outlast the limit. Correct: one build at a
  time as far as the limit allows, no lock left behind, everyone ends.

`PROJECT.json` lists the individual hazards at their lines, each with the
properties that cover it or the reason why none does.

## 2. Modules

| module | models | uses |
|---|---|---|
| `Protocol` | events, statuses, totals | |
| `Reporters` | what the console and JUnit reporters keep and count, as functions of the events they saw | `Protocol` |
| `CaseLedger` | **abstract**: what an isolated run promises of its cases, as a book of entries | |
| `IsolatedRun` | `run_isolated`, its children and reader threads | `Reporters`, `CaseLedger` |
| `IsolatedRunProofs` | the theorems about its counters, its exit code, `CaseLedger`, what becomes of the children's verdicts, and what the reporters are told and keep | `IsolatedRun` |
| `Selection` | tags, filters, `pot_run_from_env`, listing and its parser, as operators | |
| `Discovery` | constructors in any order, the section registry, then a listing and both kinds of run | `Selection` |
| `DiscoveryProofs` | the theorems about the lists, declarations and isolation | `Discovery` |
| `Profiles` | what profile macros and knobs leave in a build, as operators | |
| `RunStream` | **abstract**: what a run of a test binary promises to whoever reads its events | `Protocol` |
| `PotRunner` | `pot_run_*` called repeatedly, `sort_cases`, `run_filtered`, user code in every callback, in every build | `Protocol`, `Selection`, `Profiles`, `RunStream` |
| `PotRunnerProofs` | the theorems about the sort, the verdicts, the leaks, the loop over the cases and `RunStream` | `PotRunner` |
| `StreamRun` | `run_target`, `drain_stream`, board, transport and the process under test | `Reporters` |
| `StreamRunProofs` | the theorems about reports and exit code | `StreamRun` |
| `Wire` | COBS, PTWP payloads and text lines, both directions, as operators | |
| `EventPath` | threads, lock, writer, pipe, chunks and codec around `Wire` | `Wire` |
| `EventPathProofs` | the theorems about COBS, the payloads, the lines and the host's decoding | `EventPath` |
| `Asserts` | every assert macro and function, one call per behaviour | |
| `AssertsProofs` | the theorems about what an assert decides and shows | `Asserts` |
| `Fakes` | the state of the fakes of a test binary, calls, custom fakes, resets | |
| `FakesProofs` | the theorems about it | `Fakes` |
| `BuildLock` | `acquire_lock`, `LockGuard` and the build between them, by several processes | |
| `BuildLockProofs` | the theorems about it | `BuildLock` |
| `MC...` | constants for TLC | the module of that name |

Each module's header says what it leaves out. Operators named `X_Something`
that follow a comment "Mistake:" are plausible slips in `X`; no specification
uses them. They document, for each property, one slip that the property's run
finds when the operator takes the place of `X`.

### Correspondence to the code

**IsolatedRun.** `pc` is the position of the main thread: `spawn` (the start of
the loop over the cases), `check` (`now >= deadline`), `recv`
(`recv_timeout`), `kill`, `wait`, `judge` (the condition on error, status and
`ran_case`), `finish`. `view`, `tally`, `suiteFailed`, `seenSuites` are the
local variables; `report` is the sequence of events every reporter got. The
pipe and the channel are one log, `out`, with two positions, `reader.sent` and
`got`: nothing is reordered between child and main thread, only not yet read or not
yet received. `ReadChunk` takes any number of events at
once and fails as a whole when one of them does not decode, as `decode_feed`
does. Only a failed read loses events for good (`ReadFails`): one whose text contains
"os error" ends the reader as if the stream were over, with what the pipe still holds
(`reader.state = "broken"`), any other is sent to the main thread. A child goes
through the cases it selects (which may be none) by turns:
`Turn` says what `run_filtered` emits in turn `k` before and after user code has its
say, the turn after the last case being the one of `DONE`. The
ghosts `ledger` and `fate` record every count made and what each child did.
`Tick` lets the deadline pass at any moment; nothing else is assumed of time.

**PotRunner.** A case is known by the address of its descriptor, so that equal
names are different cases, and `tests` is `g_tests` with the `next` pointers as a
sequence. `pc` follows `run_filtered`; a callback of the user is in progress while
`inUser`, and then the user may call any of the harness's entry points or return.
`build` is what `Profiles!Build` makes of the profile and the knobs: without
fixtures the two lists are empty, without tags `pot_run_tag` is `pot_run_all`,
without longjmp `pot_protect` does nothing. The ghosts `open` and `left` say what
protected regions and parameter turns the running callback has begun, and which
ones earlier callbacks left without ending. The jump to a dead frame is undefined
behaviour: in the model control comes back somewhere in the user code on the stack,
or the process dies. `AbortStaysInCallback` asks that the region jumped to belongs
to the callback that is running. `Again` is a second `pot_run_*` of the same `main`;
`wire` is the stream of one run; the ghost `trace` is the same stream with the
callbacks and aborts between its events. `ImplementsRunStream` maps `wire` to the
abstract stream.

**RunStream.** Suites are opened at most once and one at a time; cases start and end
inside their suite, one at a time; a failure inside a case names it, outside it is a
fixture's; the totals of `SUITE_END` and `DONE` count the ends that were sent, and
the code returned is 1 exactly if one of them failed. The consumers of the stream
(the isolated run's main thread, JUnit, the console) are single passes that rely on
just this.

**Selection, Discovery.** A name is a sequence of dot-free segments, so that the
dotted line and `splitn(3, '.')` do to names what they do in the code; `<<>>` is
`NULL`, `<<"">>` the empty string. In `Discovery`, `attached` holds the fixtures and
tags that constructors have assigned to the static objects, `pending` the
constructors that have not run; a suite with teardown and tags has three, all of
which link the same object. `Collect` starts `pot_collect_section_cases`, `CollectCase` is
one step of its loop, in any order of the section, and `walk` is what the loop has
still to pass.

**StreamRun.** `pc` follows `run_target` and `drain_stream`. `out` and `got` are
the pipe, of `PipeSize` events; a full pipe blocks the writer. A read delivers
any part of it, `todo`, which is then reported event by event (`ReportEvent`), so
that the loop may end in the middle of a read. The many refusals of `run_target` and `TargetConfig` are
`Refused`. `WaitFails` is the error of `transport.wait()`: fatal for a binary of the
host (`main.rs:209`), ignored with QEMU (`main.rs:233`).

**Wire, EventPath.** Bytes are numbers up to `Full`, and `Full`, `BufSize`,
`FrameSize`, `LeafSize`, `Word` and the line lengths stand for 255, 384, 512, 128, 4
and 128 to 320. A keyword or a counter of a text line is one symbol, the counter
with its number; the binary form goes byte by byte. What a test may put into a string
is any byte but NUL: newline, carriage return, blank, dot, the bytes of a two-byte
character, and one keyword, `PASS `, so that the rest of a message behind a newline
can read as an event. `emit_line` sends such a string as it is, `Cut` splits it at
newlines, `Trimmed` takes returns off the end of a line, `Token` splits at blanks
where the parser does, and `ParseSuiteEnd` takes the first word for the name. The
ghosts `emitted` and `dropped` hold the events begun and those of which the harness
wrote nothing. The loops of the code over a
buffer (`cobs_encode`, the decoder, the shifts of an integer, the search for
delimiters) are recursive functions of the index. `WireAssumption` asks what the
code has by its sizes: an integer fits its four bytes, and the frame of any payload
of `emit_msg` fits the buffer of `emit_frame` (384 + 384/254 + 2 <= 512).

**Asserts.** The integer types keep their proportions (1, 2, 4 and 8 bytes); a byte
has two hexadecimal digits of `NibbleBits` bits each, 4 in the code. Shifts are
divisions by powers of two, and the loops of `pt_as_u64_div10`, `pt_as_append_u64`
and `pt_as_append_hex` recursive functions, one value per turn. `Signed` and
`Unsigned` are C's conversions, applied where the macros cast; a signed overflow, in
the difference of `pot_assert_int_within` only, may come out either way. Floats are
a few numbers with infinities and NaN, under the comparison rules of IEEE 754;
rounding is left out. Messages are reduced to the numbers they show.

**Fakes.** One action per statement a test can make: call a fake (`Call`, which
runs to the fake's return or, if a custom fake is set, to its start), return from a
custom fake, assign a return value or a custom fake, and reset by any macro that
compiles for the fake. While a custom fake runs, all of these may happen. `clean`
says whether the last reset was the macro made for this kind of fake.

**BuildLock.** One action per system call of `acquire_lock`. `Remove` and `BuildEnds`
remove whatever file has that name, as the code does. `age` and `waited` are the two
clocks compared with 60 seconds, `Limit` ticks here. `outlived` becomes true when a
lock gets older than the limit or its process is killed: that is when the takeover
may hit a lock in use. The unit tests in `main.rs` carry the same code.

## 3. Runs

Twelve runs, one per question; nine pass.

| run | question | answer |
|---|---|---|
| `IsolatedRun_crash` | counters, crashes, reports, exit code, refinement of `CaseLedger`, with crashes, hangs and failing host I/O anywhere | holds |
| `IsolatedRun_faults` | genuine passes, no lost verdict, `--on-crash abort`, termination, with exits, crashes, spoilt and closed stdout, reads that fail, and a child that runs nothing | holds; a failed read may cost the last verdicts |
| `Discovery_plain` | do tags and fixtures reach their cases, and do isolated and plain runs execute the same cases, for every constructor order? | holds for one filter |
| `Discovery_priority` | does the listing obey the documented filter priority? | **no** (finding 1) |
| `PotRunner_run` | sorting, fixtures, verdicts, stripped features, leaks between callbacks, refinement of `RunStream`, over two runs of one `main` | holds |
| `PotRunner_abort` | does an abort stay in the callback that protected itself? | **no** (finding 2) |
| `StreamRun_drain` | reports, exit code, report errors, termination of a streamed run | holds |
| `StreamRun_no_done` | does a verdict need `DONE`? | **no** (finding 3) |
| `EventPath_roundtrip` | is every event decoded as meant, whatever threads and chunks do? | holds, within the properties' conditions |
| `Asserts_all` | does each assert decide, and show, what its name says? | holds, but for the overflow of `INT_WITHIN` |
| `Fakes_history` | are a fake's records those of the calls since its reset? | holds; the fields of a fake are all cleared by the reset of its kind only |
| `BuildLock_takeover` | one build at a time, no lock left behind, everyone ends? | holds until a lock outlives its process or the limit |

### Bounds and why they are enough

- *IsolatedRun*: two cases. What a child can disturb is its own case and, through
  state that is not reset, the next; the third case meets the same state as the
  second. `MaxFails = 1` failed assert and `MaxNoise = 1` spoilt event per child:
  a second one of either finds the main thread in a state the first already
  produced. The theorems hold without these bounds.
- *Discovery*: four cases with names that share each part, one suite and two groups
  of one name, tags on each level, registered in every order, subsets included, with
  and without a section; six filters, one kind at a time.
- *PotRunner* (proved without these bounds): registries of three cases in three link orders (interleaved suites,
  unsorted, equal names, a case without suite and function), four kinds of filter,
  three builds (full; small without longjmp; tiny), `MaxRuns = 2` runs and
  `MaxCalls = 2` calls by user code in both together. Leaks go from one callback to
  another, for which two calls suffice; a third run meets a list that is sorted
  already, as the second does.
- *StreamRun*: a pipe of two events, shorter than every program, so that the
  writer blocks; one spoilt event; programs that fail, that run twice with the
  failure in the first or the second run, that go on writing after `DONE`; every kind
  of refusal once.
- *EventPath* (proved without these bounds): sizes shrunk so that every boundary
  lies within a few bytes: blocks of `Full = 8`, a buffer of 22, leaves of 5,
  integers of two bytes. Ten events lie on both sides of each: payloads of 13 to 29
  bytes, full and nearly full COBS blocks, zeros at both ends, a name longer than a
  length byte can say, a message left out of the buffer, a leaf cut inside a
  character of two bytes, integers of two digits. One message holds a newline and behind
  it what parses as `PASS`, one file a blank, one suite ends without a name: these are
  outside the condition of `LinesRoundTrip` and must arrive in binary form. Two events
  in a row exercise everything a codec keeps between frames.
- *Asserts*: `NibbleBits = 1`, one bit per hexadecimal digit, so that the types have 2, 4, 8 and 16
  bits and the 27 values hold the bounds of each type, signed and unsigned, with
  neighbours on both sides; memory with equal contents at two addresses, a prefix, a
  change at the end, the empty string. One call per behaviour: asserts keep no state.
- *Fakes*: arities 0, 1 and 2, void and value, histories of two calls, three calls
  between resets (one past the end), custom fakes two deep. Proved without bounds.
- *BuildLock*: three processes, so that two may race for the lock of a third, and a
  limit of one tick. The safety properties are proved for any number and limit.

`CHECK_DEADLOCK FALSE` is used for EventPath and Asserts only, whose behaviours end
when everything was read or the one call returned. The others end in `Terminated`
or never end, so that TLC's deadlock check says that nothing else ever blocks all
parties; a host that
waits for a child which may still act is not a deadlock, and the liveness
properties say when it may last.

### Fairness

`IsolatedRun` and `StreamRun` have a `FairSpec`: the host's threads are scheduled
(`WF` of `MainStep`, of `ReadChunk \/ ReadEof` and of `HostStep`) and time passes (`WF` of `Tick`).
Both are what an operating system gives to a runnable thread. Nothing is assumed
of a process under test: user code may hang anywhere, so no fairness is put on
`ChildStep`; nor is any on failing reads (`ReadFails`): a reader may block in `read`
for ever. Under these assumptions `EndsUnlessStreamEnded` says that only a child that
stays alive after its stream ended, because it closed its stdout or because a read
failed, can hold up an isolated run (`child.wait()` has no deadline), and
`EndsUnlessChildStays` names the two ways in which a streamed run can be held up, both
of them the process's doing.

`BuildLock` assumes weak fairness of each process's `Step` (a runnable process is
scheduled, and CMake returns) and of `Tick`, and none of `Dies`: `EveryoneEnds` says
that no test process waits for ever, for the limit ends its patience.

## 4. Findings

The three violated runs, each a statement of a document or comment:

1. `docs/tags.md:39`, the priority of filters: the listing takes their intersection.
2. `examples/host_c/main.c:94`: `TEST_ABORT` does not jump into the protected
   region, for `pot_protect` returned from the frame of its `setjmp`.
3. `docs/cli.md:20`: the host also finishes, with exit code 0, when the stream ends
   without `DONE`.

`PROJECT.json` quotes the lines and says what each run shows.

Further disagreements of a comment or document with the code, met while modelling.
The models contain the code's behaviour, and the properties are stated so as to
allow it:

- `docs/roadmap.md:178`, "crash → FAIL + continue": a test that calls `exit(0)` or
  `exit(1)` after its `CASE_START` counts as nothing (`main.rs:524`).
  `EveryVerdictCounts` and `PassesAreGenuine` say what is left. The same properties
  bound what a read error of the host loses (`main.rs:441`), of which no document
  speaks.
- `polytest.h:121` and `523`, "Parameterized-test cursor (set by PARAM_TEST /
  FOR_EACH)": a body that leaves the loop by `return` or `IGNORE` leaves its
  parameter set for later callbacks. `OnlyUnfinishedRegionsLeak` says that nothing
  else does.
- `codec.rs:187`, "matching the C harness encoder": a string that does not fit
  `emit_msg`'s buffer is left out with its length byte, and the host refuses the
  frame. `LongEventsOnlyGoMissing` says that no wrong event comes of it, and that no
  event that fits meets this fate. A string of
  more than 255 bytes that does fit the buffer of 384 loses its end without a word,
  and a leaf cut at 127 bytes inside a character ends in U+FFFD; both came up when
  `FramesRoundTrip` was stated for every size, and are why it asks for strings that a
  length byte can count and that are UTF-8 once cut.
- `polytest_fff.h:133`, "RESET — clear call count, last args, history, custom fake":
  `POT_FAKE_RESET`, to which the alias `RESET_FAKE` (line 198) leads, clears count
  and custom fake only. `ResetForgets` is stated for the macro made for the fake.
- The flowchart of `docs/profiles.md` suggests that floats of the small profile are
  a choice; `polytest_profile.h:66` always excludes them, and the later test of
  `POT_EXCLUDE_FLOAT` (line 77) never finds it undefined.

## 5. Proofs

### The isolated run

`IsolatedRunProofs` proves, under `RunAssumption` alone (any cases, any children,
any faults, any bounds):

| theorem | states |
|---|---|
| `Invariance` | `Spec => []IInv`, the inductive invariant |
| `TypeCorrect` | `TypeOK` |
| `TallyCorrect` | `TallyMatchesLedger` |
| `ExitCodeCorrect` | `ExitTellsFailure` |
| `RunIsolatedImplementsLedger` | the run implements `CaseLedger` |
| `CrashesCount` | `CrashesAreFailures` |
| `PolicyCorrect` | `PolicyHonoured` |

**The argument.** `TallyMatchesLedger` is not inductive: when a crash is noticed
after the `CASE_END` was counted, the code subtracts one from the counter of
`parsed_status` with `saturating_sub` and adds one failure. This keeps the
counters right only if the youngest entry of the ledger is that case's and holds
exactly that status. `EndedIsLast` says so while a case with a `CASE_END` is under
way; `StreamOK` that a `CASE_END` on its way carries a status; `FailureKnown` that
`suite_failed` is set exactly if a failure is held, of which `ExitFromFlag` carries
the last step to the exit code. `IInv` joins these with `TypeOK`, `ChildOK`
and the property. Counting is done by three lemmas on the indices that hold a
status (`HoldingFinite`, `HoldingAppend`, `HoldingAmend`), the rest is one step per
action, with a guarantee (`ChildGuarantee`) that all of the child's actions share.

The refinement uses `IInv` for the two steps that are not stutters: `Receive` of a
`CASE_END` is `Enter`; `JudgeCrash` is `Leave`, where `EndedIsLast` shows that the
entry amended is the current case's, so that entries of earlier cases are final.

`CrashInv` adds `FateOK` (children waited for are those of the first cases, in
order) and `PolicyOK` (the policy at every moment, not only at the end) to
`CrashesAreFailures`; the step needs that a failure once held stays
(`FailuresStay`).

`IInv` and `CrashInv` were run through TLC as invariants of the two passing
configurations before they were proved.

On that ground, and with a chain of further invariants, the module goes on to prove:

| theorem | states | under |
|---|---|---|
| `PassesGenuine` | `PassesAreGenuine` | |
| `JudgementsAreFinal` | `EntriesAreFinal` of `CaseLedger` | |
| `VerdictsCount` | `EveryVerdictCounts` | |
| `CountedOnce` | `NoCaseCountedTwice` | |
| `ReportReadsAsOneRun` | `ReportIsOneRun` | `OwnCases`, no noise |
| `ReportersTellTheSame` | `ReportersAgree` | `OwnCases`, `TidyTests` |

`PassesGenuine` follows a verdict on its way: given by the child
(`VerdictsOK`), on the pipe only if given (`EndsAnnounced`), counted for the current
case only if on the pipe (`CurrentAnnounced`), kept in the account of the dead child
(`AccountIsOfChild`), and nothing is counted for a case that has no child yet
(`NothingAhead`). `JudgeCrashLast` shows that a crash puts a failure behind all of
it. `JudgementsAreFinal` draws `EntriesAreFinal` from the refinement: a case that was
judged is never revised.

`VerdictsCount` and `CountedOnce` need the way of a verdict in both directions. Both
rest on order-preserving pairings: of the verdicts a child gave with the `CASE_END`s
on its pipe, as long as nothing spoilt them (`ToldOK`), and of the `CASE_END`s
received with the ledger's entries for the case (`HeardOK`). `TurnOK` says that a
child gives one verdict per turn, so that no more are counted than it had cases to
run; `ReadOK` that a child whose stream is whole was read to the end before it is
judged. Where a read failed instead (`cut` in the account), the `CASE_END`s received
are a beginning of those written, so that a beginning of the verdicts is paired with
the ledger, or, if the host heard of no case at all, `JudgeCrash` has put a failure
there. `PairingGrows` extends a pairing at its end, and composing the two gives the
property. (`EveryVerdictCounts` is stated with bijections, where it used
`SelectSeq`: what a fold computes for every length cannot be unfolded here.)

`ReportReadsAsOneRun` supposes `OwnCases`: each child is asked for one case, the case
ids are distinct, and none is the id that stands for no case. That is what discovery
yields for binaries with distinct, listable names (`IsolationKeepsCases` below), and
`MCIsolatedRun` has TLC evaluate it for its constants. Two cases of one name do get
two `CASE_START`s in the report. It also supposes that tests do not write to the
stream, which can turn one event into another only by spoiling it. `OneCaseInv` says
of a child's pipe what `ReportInv` says of the report: where in the stream an event of
a case may stand. `CaseOpen` is the state of the report with respect to one case, and
each way an event gets there, received or made up after a crash, takes it from
one such state to the next.

`ReportersTellTheSame` is about what the reporters compute: JUnit's list of cases
and the console's totals are folds over the events, and the ledger is a third account
of the run, kept by the host. `JunitInv` puts them side by side: JUnit has an entry
for every case in the ledger, in order and with the same status, and at most one
more, for the case under way. A late crash rewrites an entry in both, which is right
only because `Youngest` finds the entry of the current case (`OtherCases`).
`PlainInv` says of the children what `TidyTests` (crashes and I/O faults only) makes
of them. A fold of the community modules is a recursive function chosen by its
equation, and no induction theorem can be applied to it; `ShownGrows`, that one more
event is one more application of `OnEvent`, is therefore proved from the least-number
principle of `WellFoundedInduction`, which is stated without an operator parameter:
if two solutions of the equation differed there would be a least place where they do.

### The runner

`PotRunnerProofs` proves, under `HarnessAssumption` (in which a constructor links a
case once), for any cases, registries, builds, filters and any user code:

| theorem | states |
|---|---|
| `NoCaseIsLost` | `SortLosesNoCase` |
| `SortIsStableAlways` | `SortIsStable` |
| `LeaksAreUnfinished` | `OnlyUnfinishedRegionsLeak` |
| `VerdictsAreTrue` | `VerdictMatchesStream` |
| `SelectedCasesRun` | `EachSelectedCaseRuns` |
| `FixturesEnclose` | `FixturesBracketCases` |
| `StrippedStaysOut` | `StrippedFeaturesStayOut` |
| `RefinesRunStream` | `ImplementsRunStream`, the step to `RunStream` |
| `HarnessIsHonest` | `Honest(wire)`: the `DONE` of a run shows a failure exactly if a case failed |

`SortInv` strengthens the first two: an insertion keeps the order of equal names only
because everything sorted was linked before everything that is not
(`SortedBeforeRest`), and the next run starts from a list that is whole and has kept
that order (`HasEveryCase`, `KeepsOrder`). `InsertPosIsFirst` needs that a set of
positions has a least one, which the library's theorem on well-founded relations
gives; `LessIsAnOrder` that `case_cmp` is an order.

`VerdictInv` ties `g_current_failed` to the stream: while a case runs its start is
the last in the stream, everything that failed after it is its own, and the flag is
set exactly if something has (`FlagFollowsStream`). A verdict once given stays right
because nothing that is appended later comes between it and its start
(`VerdictsStay`).

`PlaceInv` says where the loop stands in the sorted list, and that the open suite is
not behind the cases to come: that is what the sort is for. On it rest `OrderInv`
(the ends written so far are those of the selected cases passed, in list order),
`FixtureInv` (the last callback in the trace for every place in the loop, and that every
function registered for a case that is past has been called, and the setups of the one
under way) and
`StripInv` (what the build leaves out leaves no mark).

The refinement maps every step of the runner to a step of `RunStream` or to a
stutter. `RunStream` chooses its events from what the stream holds already, the
runner from its variables; `WireInv` says that these agree: which case and suite the
stream has open (`CaseMarkInv`, `SuiteMarkInv`), that `tally` and `suiteTally` count
the ends in the stream and those of the open suite (`TallyInv`), and that `DONE` is
last (`DoneInv`). Three lemmas do for all steps that emit: what an appended event
changes in "the last of its kind", in the sets of ends, and in their cardinalities.

### Discovery

`DiscoveryProofs` proves, for any declarations and any order of constructors:

| theorem | states | under |
|---|---|---|
| `ListsStayLists` | `ListsAreAcyclic` | |
| `DeclarationsArrive` | `DeclarationsReachCases` | `DistinctFixtures` |
| `IsolationKeepsCases` | `IsolationRunsTheSameCases` | `DistinctFixtures`, `DistinctCases`, `ListableNames`, filters of one kind |

`RegistryInv` says that an object not yet linked has its constructor still to run, or
is still to be passed by the walk through the section, and that no list holds an
object twice. `IsolationKeepsCases` follows each case through the listing: its line
parses to its own three names, these select it and nothing else in a child, and the
filter of the listing and of a plain run agree where it has one kind. The conditions
are those of the section on limits below; `MCDiscovery` has TLC evaluate them, so that
they are met by the binary it checks.

### The streamed run

`StreamRunProofs` proves, for any target configurations, programs and pipe:

| theorem | states | under |
|---|---|---|
| `ReportsAreWritten` | `ReportsAreAllOrNothing` | |
| `ReportsFollow` | `ReportFollowsStream` | |
| `ExitTells` | `ExitTellsFailure` | `HonestPrograms` |

`ReportsInv` says at every place in `run_target` what has been written; that a run may
bail after all its reports, at `transport.wait()?`, is part of the property.
`StreamInv`
cuts the pipe into what was told, what was read and is still to be told (`todo`),
and the rest (`PipeOK`), pairs the report with the intact part of what was told
(`OrderOK`), and says that a `DONE` is the last thing told (`DoneOK`). For the exit
code, `CodeOK` follows `failed`, and `CopyOK` says that an unspoilt pipe holds a
prefix of the program. `HonestPrograms` says of every program that it is `Honest`:
its first `DONE` tells whether a case failed before it. That is what
`HarnessIsHonest` proves of the harness, in terms of the same definition;
`MCStreamRun` has TLC evaluate it for the programs it runs.

### The event path

`EventPathProofs` proves, under `WireAssumption`, for events, names, messages and
numbers of any size, strings of any bytes but NUL, any interleaving of the threads and
any cut into reads:

| theorem | states | under |
|---|---|---|
| `CobsRoundTrip` | what `CobsCodec` decodes of an encoded payload is the payload, for every payload | |
| `HostFollowsStream` | `Spec => []IInv`, the inductive invariant | |
| `FramesArrive` | `FramesRoundTrip` | every event `Fits`, its strings are UTF-8 |
| `LongEventsGoMissing` | `LongEventsOnlyGoMissing` | |
| `LinesArrive` | `LinesRoundTrip` | one thread, every event `Plain` |

`Plain` is what the text form can carry, and it excludes things that tests do send: a
newline or a final return in a message, a blank in a name or in `__FILE__`, a dot in a
suite, an empty suite name where the suite ends, and characters beyond ASCII. What
becomes of such an event is in the model, and the property says nothing of a run in
which one was emitted.

**COBS.** Encoder and decoder recur in opposite directions: the encoder goes forward
and patches the code byte of the open block when it is full or meets a zero, the
decoder takes a block and asks for the rest. `Encoding` says of every state of the
encoder what it has: closed blocks that decode to what they should whatever
follows, and an open block without a zero. A byte more keeps that, and a closed
last block is the frame. There is no induction theorem to apply; what stands in for
it is `LeastNumber`, that a set of numbers has a least one, which follows from the
library's theorem on well-founded relations, and `UpTo`, that a set that holds 0 and
is closed under successors up to `n` holds `0 .. n`. A function that is chosen by its
recursion equation is shown to exist by the same means.

**Payloads.** `PutStr` either appends a string or leaves it out (`HasRoom`); an event
from which nothing is left out is `Whole`. `DecodePayload` of a whole payload is
`Sent(m)`, the event with its strings cut where the code cuts them. Of one that is
not whole the host makes nothing: the strings that are missing leave too few bytes
for those that are asked for, whichever of the three it was. An event that `Fits` is dropped by none of the three guards (`DroppedOK`: what was
dropped did not fit). `Unshifts` is the
inverse of `Shifted`, so that integers come back.

**Lines.** `OneOf` lists the six forms of a line. For plain events the line holds no newline and
does not end in a return, so that it is cut at its own end only and `Trimmed` leaves it
alone; its first dot and first blank are those the harness put there (`FirstDot`,
`FirstBlank`), and a counter is found where it was printed.

**The invariant.** `IInv` joins five parts. `TypeOK`. `CallsOK`: a thread is before,
between or behind the calls of one event, and who is in the middle of a call has the
lock, if there is one. `StreamOK`: what is written, what is being written and the newline still to
come of a line, taken together and cut at the delimiters, are the pieces of the
events in the order of emission, and nothing else. `HostOK`: the host has decoded
exactly the events whose pieces it has read and holds the rest in its buffer, or it
gave up at a frame from which something is missing. `DroppedOK`. Reads cut anywhere are harmless
because `Cut` of two parts, one after the other, is `Cut` of the whole.
None of the three properties is inductive, for none says what the buffers hold. `IInv`
was run through TLC as an invariant of `EventPath_roundtrip` before it was proved.

### The asserts

`AssertsProofs` proves, under `AssertsAssumption`, for integer types of any widths (any
`NibbleBits`), any floats, any memory and any lengths:

| theorem | states |
|---|---|
| `EqualityExact` | `EqualityIsExact` |
| `WithinDistance` | `WithinIsDistance` |
| `BuffersCompare` | `BuffersCompareContents` |
| `BitsAgree` | `BitMasksAgree` |
| `TextsTrue` | `TextsDenoteValues` |

There is one step, so the work is in the lemmas about the functions. `Conversions` says
that C's conversions, signed or not, make two numbers equal exactly if their difference
is a multiple of the number of values of the type, `SignedInRange` that they leave alone
what fits. `FloatWithinIsDistance` goes through the kinds of floating-point numbers.
`CutsAlike` shows that the prefixes compared by `strncmp` and `memcmp` are equal exactly
if the bytes are, as far as both strings go, where the property reads them byte by byte.

The prover knows nothing of powers or of loops. `LoopUp` and `LoopDown` give the states of
a loop whose turns are a function, and `Powers`, `Halves` and `PowersMultiply` what shifts do.
From there `SameBits` shows that a number is its bits, which decides the bit asserts.
For the texts, `DividesByTen` carries the invariant of long division through the bits:
the quotient so far, shifted, and a remainder below ten make up what was brought down.
`HasDigits` shows that the digits of a number exist, for a tenth of a number is less than
the number, and `DigitsDenote` that they denote it; `HexText` does hexadecimal
digits, and `SignedText` adds that `-(v + 1)` reaches the least integer without overflow.

### The build lock

`BuildLockProofs` proves, for any set of processes and any limit, `Exclusion`
(`ExclusiveUnlessOutlived`) and `LocksAreRemoved` (`NoLockLeftBehind`) from
`LockInvariance`. Exclusion alone is not inductive: a process about to remove a file,
or a guard about to drop, could remove another's lock. `Guarded` adds that until a
lock has outlived its process or the limit, the processes that build are exactly the
one the file belongs to, the file is not older than the limit, and hence nobody has
decided to remove it.

### The fakes

`FakesProofs` proves, for any fakes of arity 0 to 2, any length of history, any
nesting of custom fakes, `RecordsCorrect` (`RecordsMatchCalls`) and `ResetsForget`
(`ResetForgets`) from `FakesInvariance`. The strengthening is
`UnusedStaysInitial`: a fake's missing columns stay 0 and a void fake's missing
return value stays at its default, without which the reset made for a fake of fewer
arguments would not clear its whole row. The step of `Call` splits on whether the
history is full; the step of `Reset` on whether the macro was made for the fake.

### What is only model-checked

- Liveness, and everything that rests on fairness: `EndsUnlessStreamEnded`,
  `EndsUnlessChildStays`, `EveryoneEnds`. The prover has no rules for `WF_`.
- The three violated runs, whose counterexamples are the result.

## 6. Not modelled

- The fixed words of assert messages, their cut at 128 to 256 bytes, and the rounding
  of floating-point numbers.
- `std::sync::Once` in front of the build lock, and clocks that go backwards.
- Plugin traits, C++ and Rust front ends: no control of their own.
- Profiles beyond what the runner branches on: `EventPath` has both encodings and
  the builds with and without locks as setups of its own, `Asserts` all asserts.
- Host-side `encode` functions, `write_all` and `Event::Log`, which nothing calls or
  sends; the banner and the `IGNORE` line, which decode to nothing unless the message of
  `IGNORE` holds a newline (what is behind one is split off as with `FAIL`); the text
  the reporters write; the path and line number in a text `FAIL` line, which the host
  keeps as they are and no property reads.
- What a jump into a dead frame may do to memory, beyond where control goes next.
- An unknown codec or reporter name in an isolated run (`StreamRun` has that case).
- The order of the listing and its cut at 256 bytes.

Stated under conditions, which the hazards name: text lines of several threads mix; the
text form does not carry newlines and final returns in messages, blanks in names and
file paths, dots in suites, an empty suite name at the end of a suite, or characters of
several bytes cut by a read; names that the listing cannot carry make a child run
nothing. These are limits of the format that no document denies. `POT_FAIL` and the
string asserts can send a newline (`polytest_assert.c:315`), and what follows it is
parsed as an event: a test that shows text of its own should use the binary form, for
which `FramesRoundTrip` has no such condition.

## 7. Plan

Done: all components that keep state or compute something, in the order in which the
modules stand in section 2, with the proofs of section 5.

Left:

- *Composition*: `RunStream` as the process of `StreamRun`, in place of the `Programs`
  chosen by hand. The two meet in `Honest`, which is proved of the one and assumed of
  the other.
- The text that the reporters write: JSON event by event, and the XML of JUnit.
