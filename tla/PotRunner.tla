------------------------------ MODULE PotRunner ------------------------------
(***************************************************************************)
(* Runs of the C harness, run_filtered of harness/c/polytest_core.c, with  *)
(* the user code they call back: the linked list is sorted, then the       *)
(* selected cases run one after the other between the fixtures of their    *)
(* suite and group, and events go out on the wire.  main may run again.    *)
(*                                                                         *)
(* User code is any sequence of harness calls (pot_fail_at, pot_ignore,    *)
(* pot_protect, pot_abort, pot_set_param, pot_clear_param) in any callback.*)
(* Names are numbers in strcmp order; 0 is the NULL pointer, which str_cmp *)
(* puts first.  Cases are known by their descriptors' addresses, 1, 2, ... *)
(***************************************************************************)
EXTENDS Protocol, Selection, Profiles

CONSTANTS Cases,       \* address -> pot_case_t
          Registries,  \* the orders in which constructors may have linked the cases
          Suites,      \* registered suites, youngest first
          Groups,      \* registered groups, youngest first
          Filters,     \* what run_filtered may be asked for, see Selection!Selects
          Builds,      \* profile macros and knobs of the build, see Profiles!Build
          UserCalls,   \* the harness calls user code makes, see CallKinds
          MaxCalls,    \* bound: harness calls of user code in the whole program
          MaxRuns      \* bound: calls of pot_run_* in main

CallKinds == {"fail", "ignore", "abort", "protect", "param"}

CaseDesc == [suite : Nat, group : Nat, name : Nat, fn : BOOLEAN, tags : SUBSET STRING]
SuiteDesc == [name : Nat, setup : BOOLEAN, teardown : BOOLEAN, tags : SUBSET STRING]
GroupDesc == [suite : Nat, name : Nat, setup : BOOLEAN, teardown : BOOLEAN,
              tags : SUBSET STRING]

ASSUME HarnessAssumption ==
    /\ DOMAIN Cases \subseteq Nat \ {0} /\ \A o \in DOMAIN Cases : Cases[o] \in CaseDesc
    /\ \A list \in Registries :
           /\ list \in Seq(DOMAIN Cases)
           /\ \A i, j \in DOMAIN list : list[i] = list[j] => i = j
    /\ Suites \in Seq(SuiteDesc) /\ Groups \in Seq(GroupDesc)
    /\ \A k \in DOMAIN Filters : Filters[k].kind \in {"all", "tag", "suite", "group", "case"}
    /\ \A b \in Builds : b \in [chosen : SUBSET {"tiny", "small", "full"}, knobs : SUBSET Knobs]
    /\ UserCalls \subseteq CallKinds
    /\ MaxCalls \in Nat /\ MaxRuns \in Nat

NullName == 0

VARIABLES
    build,       \* the element of Builds
    tests,       \* g_tests
    by,          \* the filter of the run, as an index of Filters
    unsorted,    \* what sort_cases has not looked at yet
    list,        \* sorted, in sort_cases; then list
    pc,
    at,          \* the loop variable t, as an index of list
    openSuite,   \* open_suite
    suiteTally,  \* suite_passed, suite_failed, suite_skipped
    tally,       \* g_passed, g_failed, g_skipped
    current,     \* g_cur_suite, g_cur_group, g_cur_name: the case they are of, or 0
    failing,     \* g_current_failed
    skipping,    \* g_current_skipped
    param,       \* g_param_active and g_param_index
    armed,       \* g_protect_active
    inUser,      \* a callback is on the stack
    calls,       \* harness calls user code has made
    runs,        \* pot_run_* calls main has made
    linked,      \* ghost: the cases in the order constructors linked them
    open,        \* ghost: what the callback began and has not ended: "protect", "param"
    left,        \* ghost: what callbacks before it began and did not end
    wire,        \* the events of the run that went out
    trace        \* ghost: the events, with callbacks and aborts between them

runVars  == <<build, tests, by, unsorted, list, runs, linked>>
loopVars == <<at, openSuite, suiteTally, tally, current>>
flagVars == <<failing, skipping>>
userVars == <<param, armed, calls, open, left>>
streams  == <<wire, trace>>
vars == <<runVars, pc, loopVars, flagVars, userVars, inUser, streams>>

Has(feature) == feature \in Build(build.chosen, build.knobs).has

(* The tiny profile leaves out fixtures, with their lists.                 *)
LinkedSuites == IF Has("fixtures") THEN Suites ELSE <<>>
LinkedGroups == IF Has("fixtures") THEN Groups ELSE <<>>

-----------------------------------------------------------------------------
(* case_cmp: suite, then group, then name.                                 *)
Less(o, p) ==
    LET a == Cases[o] b == Cases[p]
    IN  \/ a.suite < b.suite
        \/ a.suite = b.suite /\ a.group < b.group
        \/ a.suite = b.suite /\ a.group = b.group /\ a.name < b.name

(* Mistake: the walk stops at an equal case.                               *)
InsertPos_BeforeEqual(sorted, x) ==
    IF \E k \in DOMAIN sorted : ~Less(sorted[k], x)
    THEN CHOOSE k \in DOMAIN sorted :
            ~Less(sorted[k], x) /\ \A m \in DOMAIN sorted : ~Less(sorted[m], x) => k <= m
    ELSE Len(sorted) + 1

(* Where sort_cases links the next case: before the first greater one.     *)
InsertPos(sorted, x) ==
    IF \E k \in DOMAIN sorted : Less(x, sorted[k])
    THEN CHOOSE k \in DOMAIN sorted :
            Less(x, sorted[k]) /\ \A m \in DOMAIN sorted : Less(x, sorted[m]) => k <= m
    ELSE Len(sorted) + 1

Insert(sorted, x) == InsertAt(sorted, InsertPos(sorted, x), x)

Emit(event) == wire' = Append(wire, event) /\ trace' = Append(trace, event)
Note(what)  == trace' = Append(trace, what) /\ UNCHANGED wire

SortStep ==
    /\ pc = "sort" /\ unsorted # <<>>
    /\ list' = Insert(list, Head(unsorted))
    /\ unsorted' = Tail(unsorted)
    /\ UNCHANGED <<build, tests, by, runs, linked, pc, loopVars, flagVars, userVars,
                   inUser, streams>>

(* Mistake: without `g_tests = list` the pointer stays at the case that    *)
(* was first before, in the middle of the relinked chain.                  *)
SortDone_KeepsHead ==
    /\ pc = "sort" /\ unsorted = <<>>
    /\ tests' = SubSeq(list, CHOOSE k \in DOMAIN list : list[k] = tests[1], Len(list))
    /\ pc' = "loop" /\ at' = 1
    /\ tally' = NoTally /\ openSuite' = NullName /\ suiteTally' = NoTally
    /\ UNCHANGED <<build, by, unsorted, list, runs, linked, current, flagVars, userVars,
                   inUser, streams>>

SortDone ==
    /\ pc = "sort" /\ unsorted = <<>>
    /\ tests' = list
    /\ pc' = "loop" /\ at' = 1
    /\ tally' = NoTally /\ openSuite' = NullName /\ suiteTally' = NoTally
    /\ UNCHANGED <<build, by, unsorted, list, runs, linked, current, flagVars, userVars,
                   inUser, streams>>

-----------------------------------------------------------------------------
(* The loop over the sorted list.  pot_run_tag of a build without tags is  *)
(* pot_run_all.                                                            *)
Selected(o) ==
    \/ Filters[by].kind = "tag" /\ ~Has("tags")
    \/ Selects(LinkedSuites, LinkedGroups, Filters[by], Cases[o])

(* Mistake: `break` for `continue`.                                        *)
SkipCase_Breaks ==
    /\ pc = "loop" /\ at <= Len(list) /\ ~Selected(list[at])
    /\ at' = Len(list) + 1
    /\ UNCHANGED <<runVars, pc, openSuite, suiteTally, tally, current, flagVars,
                   userVars, inUser, streams>>

SkipCase ==
    /\ pc = "loop" /\ at <= Len(list) /\ ~Selected(list[at])
    /\ at' = at + 1
    /\ UNCHANGED <<runVars, pc, openSuite, suiteTally, tally, current, flagVars,
                   userVars, inUser, streams>>

(* The suite of the next case is open, or another one has to be closed or  *)
(* opened first; at the end of the list the last suite is closed.          *)
EnterCase ==
    /\ pc = "loop"
    /\ IF at <= Len(list)
       THEN /\ Selected(list[at])
            /\ pc' = IF Cases[list[at]].suite = openSuite THEN "case"
                     ELSE IF openSuite = NullName THEN "open" ELSE "teardown"
       ELSE pc' = IF openSuite = NullName THEN "done" ELSE "teardown"
    /\ IF pc' = "open"
       THEN openSuite' = Cases[list[at]].suite /\ suiteTally' = NoTally
       ELSE UNCHANGED <<openSuite, suiteTally>>
    /\ UNCHANGED <<runVars, at, tally, current, flagVars, userVars, inUser, streams>>

(* Mistake: the counters of the closed suite are not zeroed.               *)
EmitSuiteEnd_KeepsTally ==
    /\ pc = "closed"
    /\ Emit(SuiteEnd(openSuite, suiteTally))
    /\ IF at <= Len(list)
       THEN openSuite' = Cases[list[at]].suite /\ pc' = "open"
       ELSE pc' = "done" /\ UNCHANGED openSuite
    /\ UNCHANGED <<runVars, at, suiteTally, tally, current, flagVars, userVars, inUser>>

(* The end of close_suite, after the suite's teardown.                     *)
EmitSuiteEnd ==
    /\ pc = "closed"
    /\ Emit(SuiteEnd(openSuite, suiteTally))
    /\ IF at <= Len(list)
       THEN openSuite' = Cases[list[at]].suite /\ suiteTally' = NoTally /\ pc' = "open"
       ELSE pc' = "done" /\ UNCHANGED <<openSuite, suiteTally>>
    /\ UNCHANGED <<runVars, at, tally, current, flagVars, userVars, inUser>>

(* The end of open_suite_emit, after the suite's setup.                    *)
EmitSuiteStart ==
    /\ pc = "opened"
    /\ Emit(SuiteStart(openSuite))
    /\ pc' = "case"
    /\ UNCHANGED <<runVars, loopVars, flagVars, userVars, inUser>>

IdOf(o) == IF o = 0 THEN [suite |-> NullName, group |-> NullName, name |-> NullName]
           ELSE [suite |-> Cases[o].suite, group |-> Cases[o].group, name |-> Cases[o].name]

(* Mistake: g_current_failed and g_current_skipped are not reset.          *)
StartCase_KeepsFlags ==
    /\ pc = "case"
    /\ current' = list[at]
    /\ Emit(CaseStart(IdOf(current')))
    /\ pc' = "setup"
    /\ UNCHANGED <<runVars, at, openSuite, suiteTally, tally, flagVars, userVars, inUser>>

StartCase ==
    /\ pc = "case"
    /\ current' = list[at]
    /\ failing' = FALSE /\ skipping' = FALSE
    /\ Emit(CaseStart(IdOf(current')))
    /\ pc' = "setup"
    /\ UNCHANGED <<runVars, at, openSuite, suiteTally, tally, userVars, inUser>>

(* Skipped wins over failed, failed over passed.                           *)
Verdict == IF skipping THEN "Skipped" ELSE IF failing THEN "Failed" ELSE "Passed"

EndCase ==
    /\ pc = "verdict"
    /\ tally' = Count(tally, Verdict)
    /\ suiteTally' = Count(suiteTally, Verdict)
    /\ Emit(CaseEnd(IdOf(current), Verdict))
    /\ at' = at + 1
    /\ pc' = "loop"
    /\ UNCHANGED <<runVars, openSuite, current, flagVars, userVars, inUser>>

EmitDone ==
    /\ pc = "done"
    /\ Emit(DoneEvent(tally))
    /\ pc' = "return"
    /\ UNCHANGED <<runVars, loopVars, flagVars, userVars, inUser>>

ReturnCode == IF tally.failed > 0 THEN 1 ELSE 0

Return ==
    /\ pc = "return" /\ pc' = "exit"
    /\ UNCHANGED <<runVars, loopVars, flagVars, userVars, inUser, streams>>

(* main calls a pot_run_* once more.                                       *)
Again ==
    /\ pc = "exit" /\ runs < MaxRuns
    /\ by' \in DOMAIN Filters
    /\ unsorted' = tests /\ list' = <<>>
    /\ pc' = "sort" /\ runs' = runs + 1 /\ wire' = <<>> /\ trace' = <<>>
    /\ UNCHANGED <<build, tests, linked, loopVars, flagVars, userVars, inUser>>

-----------------------------------------------------------------------------
(* Callbacks: the two suite fixtures, the two group fixtures, the body.    *)
Callbacks == {"open", "teardown", "setup", "body", "cleanup"}

After == [open |-> "opened", teardown |-> "closed", setup |-> "body",
          body |-> "cleanup", cleanup |-> "verdict"]

(* Whether there is a function to call for a case in a suite: the fixtures *)
(* of the registries, the case's own function for the body.                *)
Provides(what, suite, o) ==
    LET s == FindSuite(LinkedSuites, suite)
        g == FindGroup(LinkedGroups, Cases[o].suite, Cases[o].group)
    IN  CASE what = "open"     -> s # 0 /\ LinkedSuites[s].setup
          [] what = "teardown" -> s # 0 /\ LinkedSuites[s].teardown
          [] what = "setup"    -> g # 0 /\ LinkedGroups[g].setup
          [] what = "body"     -> Cases[o].fn
          [] what = "cleanup"  -> g # 0 /\ LinkedGroups[g].teardown

(* Mistake: a case that has failed returns before its group's teardown.    *)
HasCallback_NotAfterFailure ==
    Provides(pc, openSuite, current) /\ ~(pc = "cleanup" /\ failing)

HasCallback == Provides(pc, openSuite, current)

Call(what) == [type |-> "Call", what |-> what,
               of |-> IF what \in {"open", "teardown"} THEN openSuite ELSE at]

CallUser ==
    /\ pc \in Callbacks /\ ~inUser
    /\ IF HasCallback
       THEN inUser' = TRUE /\ Note(Call(pc)) /\ UNCHANGED pc
       ELSE pc' = After[pc] /\ UNCHANGED <<inUser, streams>>
    /\ UNCHANGED <<runVars, loopVars, flagVars, userVars>>

Leave == inUser' = FALSE /\ pc' = After[pc] /\ open' = {} /\ left' = left \cup open

UserReturns ==
    /\ inUser /\ Leave
    /\ UNCHANGED <<runVars, loopVars, flagVars, param, armed, calls, streams>>

MayCall(kind) == inUser /\ kind \in UserCalls /\ calls < MaxCalls /\ calls' = calls + 1

(* pot_fail_at: the event names the current case and parameter.            *)
UserFails ==
    /\ MayCall("fail")
    /\ failing' = TRUE
    /\ Emit([type |-> "AssertFail", id |-> IdOf(current),
             param |-> IF param.active THEN {param.index} ELSE {}])
    /\ UNCHANGED <<runVars, pc, loopVars, skipping, param, armed, open, left, inUser>>

(* The IGNORE macro: pot_ignore, then return.                              *)
UserIgnores ==
    /\ MayCall("ignore") /\ Leave
    /\ skipping' = TRUE
    /\ UNCHANGED <<runVars, loopVars, failing, param, armed, streams>>

(* pot_protect, returning 1.                                               *)
UserProtects ==
    /\ MayCall("protect")
    /\ IF Has("protect") THEN armed' = TRUE /\ open' = open \cup {"protect"}
                         ELSE UNCHANGED <<armed, open>>
    /\ UNCHANGED <<runVars, pc, loopVars, flagVars, param, left, inUser, streams>>

(* pot_abort.  Unarmed, it returns to its caller.  Armed, it jumps to a    *)
(* setjmp whose frame is gone since pot_protect returned: control comes    *)
(* back somewhere in the user code on the stack, through the line that     *)
(* disarms, or the process dies.                                           *)
UserAborts ==
    /\ MayCall("abort")
    /\ failing' = TRUE
    /\ armed' = FALSE
    /\ \/ open' = open \ {"protect"} /\ left' = left \ {"protect"} /\ UNCHANGED <<pc, inUser>>
       \/ armed /\ pc' = "crashed" /\ inUser' = FALSE /\ UNCHANGED <<open, left>>
    /\ Note([type |-> "Abort"])
    /\ UNCHANGED <<runVars, loopVars, skipping, param>>

(* pot_set_param: a turn of FOR_EACH or PARAM_TEST begins.                 *)
UserSetsParam ==
    /\ MayCall("param")
    /\ \E index \in {0, 1} : param' = [active |-> TRUE, index |-> index]
    /\ open' = open \cup {"param"}
    /\ UNCHANGED <<runVars, pc, loopVars, flagVars, armed, left, inUser, streams>>

(* Mistake: the index is reset, the flag is not.                           *)
UserClearsParam_StaysActive ==
    /\ inUser /\ "param" \in open
    /\ param' = [param EXCEPT !.index = 0]
    /\ open' = open \ {"param"} /\ left' = left \ {"param"}
    /\ UNCHANGED <<runVars, pc, loopVars, flagVars, armed, calls, inUser, streams>>

(* pot_clear_param: the turn ends.                                         *)
UserClearsParam ==
    /\ inUser /\ "param" \in open
    /\ param' = [active |-> FALSE, index |-> 0]
    /\ open' = open \ {"param"} /\ left' = left \ {"param"}
    /\ UNCHANGED <<runVars, pc, loopVars, flagVars, armed, calls, inUser, streams>>

UserStep == \/ UserReturns \/ UserFails \/ UserIgnores \/ UserProtects
            \/ UserAborts \/ UserSetsParam \/ UserClearsParam

-----------------------------------------------------------------------------
Init ==
    /\ build \in Builds
    /\ linked \in Registries /\ tests = linked
    /\ by \in DOMAIN Filters /\ runs = 1
    /\ unsorted = tests /\ list = <<>>
    /\ pc = "sort" /\ at = 1
    /\ openSuite = NullName /\ suiteTally = NoTally /\ tally = NoTally
    /\ current = 0 /\ failing = FALSE /\ skipping = FALSE
    /\ param = [active |-> FALSE, index |-> 0] /\ armed = FALSE
    /\ inUser = FALSE /\ calls = 0 /\ open = {} /\ left = {}
    /\ wire = <<>> /\ trace = <<>>

Terminated ==
    /\ pc = "crashed" \/ (pc = "exit" /\ runs = MaxRuns)
    /\ UNCHANGED vars

Next ==
    \/ SortStep \/ SortDone
    \/ SkipCase \/ EnterCase \/ EmitSuiteEnd \/ EmitSuiteStart
    \/ StartCase \/ EndCase \/ EmitDone \/ Return \/ Again
    \/ CallUser \/ UserStep
    \/ Terminated

Spec == Init /\ [][Next]_vars

-----------------------------------------------------------------------------
(* sort_cases unlinks and relinks the only list of the cases: at every     *)
(* moment, and in every further run, each case that was linked is on       *)
(* exactly one of the two lists.                                           *)
SortLosesNoCase ==
    /\ Len(list) + Len(unsorted) = Len(linked)
    /\ ToSet(list) \cup ToSet(unsorted) = ToSet(linked)

(* What is sorted is in order of case_cmp, so that the cases of a suite    *)
(* are neighbours, and cases of equal names keep the order in which they   *)
(* were linked, in further runs too.                                       *)
SortIsStable ==
    \A i, j \in DOMAIN list : i < j =>
        \/ Less(list[i], list[j])
        \/ /\ ~Less(list[j], list[i])
           /\ \A m, n \in DOMAIN linked :
                  (linked[m] = list[i] /\ linked[n] = list[j]) => m < n

(* The stream of a run is one RunStream allows: suites opened once, cases  *)
(* inside their suite, nothing of another case between the start and the   *)
(* end of a case, totals that add up, and the return value that goes with  *)
(* them.                                                                   *)
Plain(e) == IF e.type = "AssertFail" THEN AssertFail(e.id) ELSE e
Events   == [k \in DOMAIN wire |-> Plain(wire[k])]

Abstract == INSTANCE RunStream WITH
    SuiteNames <- {Cases[o].suite : o \in DOMAIN Cases} \ {NullName},
    CaseIds <- {IdOf(o) : o \in {0} \cup DOMAIN Cases},
    stream <- Events,
    code <- IF pc = "exit" THEN ReturnCode ELSE -1

ImplementsRunStream == Abstract!Spec

At(types) == {k \in DOMAIN trace : trace[k].type \in types}
LastBefore(types, n) == {k \in At(types) : k < n /\ \A m \in At(types) : m < n => m <= k}

(* A case whose failure the stream shows is not reported as passed, and no *)
(* case fails that neither showed a failure nor aborted: no verdict leaks  *)
(* from a suite fixture or from another case.                              *)
VerdictMatchesStream ==
    \A n \in At({"CaseEnd"}) :
        LET Since(types) == {k \in At(types) :
                k < n /\ \A m \in LastBefore({"CaseStart"}, n) : m < k}
        IN  /\ trace[n].status = "Passed" => Since({"AssertFail", "Abort"}) = {}
            /\ trace[n].status = "Failed" => Since({"AssertFail", "Abort"}) # {}
            /\ \A k \in Since({"AssertFail"}) : trace[k].id = trace[n].id

Ends == {n \in DOMAIN wire : wire[n].type = "CaseEnd"}

(* A finished run has run every selected case exactly once, in list order. *)
EachSelectedCaseRuns ==
    pc = "exit" =>
        \E of \in Bijection(Ends, {k \in DOMAIN list : Selected(list[k])}) :
            /\ \A n \in Ends : wire[n].id = IdOf(list[of[n]])
            /\ \A m, n \in Ends : m < n => of[m] < of[n]

(* The functions registered for a case; a case of no suite opens none.     *)
FunctionsOf(o) ==
    {what \in Callbacks : Provides(what, Cases[o].suite, o)}
        \ (IF Cases[o].suite = NullName THEN {"open", "teardown"} ELSE {})

Called(what, k) ==
    \E n \in At({"Call"}) :
        /\ trace[n].what = what
        /\ trace[n].of = IF what \in {"open", "teardown"} THEN Cases[list[k]].suite ELSE k

(* polytest.h: suite fixtures run once around the whole suite, group       *)
(* fixtures before and after each case.  No call is made twice or out of   *)
(* that order, no body runs without the setups registered for it, and a    *)
(* run that ends has called every function of every selected case,         *)
(* teardowns after failures, aborts and IGNOREs included.                  *)
FixturesBracketCases ==
    /\ \A m, n \in At({"Call"}) :
           LET a == trace[m] b == trace[n]
               SuiteOf(c) == IF c.what \in {"open", "teardown"} THEN c.of
                             ELSE Cases[list[c.of]].suite
               InCase(c) == c.what \notin {"open", "teardown"}
           IN  m < n =>
               /\ b.what = "open" => SuiteOf(a) # b.of
               /\ a.what = "teardown" => SuiteOf(b) # a.of
               /\ (InCase(a) /\ InCase(b)) =>
                     \/ a.of < b.of
                     \/ a.of = b.of /\ <<a.what, b.what>> \in
                           {<<"setup", "body">>, <<"setup", "cleanup">>, <<"body", "cleanup">>}
    /\ \A n \in At({"Call"}) : trace[n].what = "body" =>
           \A what \in {"open", "setup"} \cap FunctionsOf(list[trace[n].of]) :
               Called(what, trace[n].of)
    /\ pc = "exit" =>
           \A k \in DOMAIN list : Selected(list[k]) =>
               \A what \in FunctionsOf(list[k]) : Called(what, k)

(* docs/profiles.md: a build without longjmp, by its knob or because it is *)
(* tiny, only marks the case that aborts; tiny runs no fixture and takes a *)
(* run of a tag for a run of everything.                                   *)
StrippedFeaturesStayOut ==
    /\ (Profile(build.chosen) = "tiny" \/ "no_longjmp" \in build.knobs) => pc # "crashed"
    /\ Profile(build.chosen) = "tiny" =>
          /\ \A n \in At({"Call"}) : trace[n].what = "body"
          /\ (pc = "exit" /\ Filters[by].kind = "tag") =>
                 Cardinality(Ends) = Len(linked)

(* What reaches beyond a callback is what it left unfinished: an abort     *)
(* jumps, and a failure names a parameter, only in a region or turn of     *)
(* this callback or one that an earlier callback left by return or IGNORE. *)
OnlyUnfinishedRegionsLeak ==
    /\ armed => "protect" \in open \cup left
    /\ param.active => "param" \in open \cup left

(* examples/host_c/main.c: an abort in a protected region jumps to that    *)
(* region, that is to a setjmp of the callback that is running.            *)
AbortStaysInCallback ==
    [][(inUser /\ armed /\ ~armed') => "protect" \in open]_vars

=============================================================================
