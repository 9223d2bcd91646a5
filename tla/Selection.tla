------------------------------ MODULE Selection ------------------------------
(***************************************************************************)
(* Which registered cases a run executes, and how the host turns a listing *)
(* of them into one child run each (harness/c/polytest_core.c, match_* and *)
(* pot_run_from_env; crates/polyontest-cli/src/main.rs, discover_cases).   *)
(*                                                                         *)
(* A case is [suite, group, name, tags].  Registries are sequences whose   *)
(* head is the descriptor registered last, as the linked lists are.        *)
(* The listing cuts names at dots, so for that half of the module a name   *)
(* is the sequence of its dot-free segments: <<>> is the NULL pointer,     *)
(* <<"">> the empty string, <<"a", "b">> the string "a.b".                 *)
(***************************************************************************)
EXTENDS Sequences, SequencesExt

(* find_suite, find_group: the first match, that is the youngest; 0: none. *)
FindSuite(suites, name) == SelectInSeq(suites, LAMBDA s : s.name = name)

(* Mistake: the suite of a group is not compared.                          *)
FindGroup_AnySuite(groups, suite, name) ==
    SelectInSeq(groups, LAMBDA g : g.name = name)

FindGroup(groups, suite, name) ==
    SelectInSeq(groups, LAMBDA g : g.suite = suite /\ g.name = name)

TagsAt(registry, k) == IF k = 0 THEN {} ELSE registry[k].tags

CaseMatchesTag(suites, groups, t, tag) ==
    \/ tag \in t.tags
    \/ tag \in TagsAt(suites, FindSuite(suites, t.suite))
    \/ tag \in TagsAt(groups, FindGroup(groups, t.suite, t.group))

(* The match function given to run_filtered with its arguments.            *)
Selects(suites, groups, by, t) ==
    CASE by.kind = "all"   -> TRUE
      [] by.kind = "tag"   -> CaseMatchesTag(suites, groups, t, by.tag)
      [] by.kind = "suite" -> t.suite = by.suite
      [] by.kind = "group" -> t.suite = by.suite /\ t.group = by.group
      [] by.kind = "case"  -> t.suite = by.suite /\ t.group = by.group /\ t.name = by.name

-----------------------------------------------------------------------------
Null == <<>>

Unset(name) == name \in {Null, <<"">>}       \* !s || !s[0]

(* pot_run_from_env: from POT_TAG, POT_SUITE, POT_GROUP and POT_CASE to    *)
(* the filter of the run, falling back to wider filters for unset ones.    *)
RunFromEnv(env) ==
    LET suite == ~Unset(env.suite)
        group == suite /\ ~Unset(env.group)
        name  == group /\ ~Unset(env.case)
    IN  CASE name -> [kind |-> "case", suite |-> env.suite, group |-> env.group,
                      name |-> env.case]
          [] ~name /\ ~Unset(env.tag) -> [kind |-> "tag", tag |-> env.tag]
          [] ~name /\ Unset(env.tag) /\ group ->
                [kind |-> "group", suite |-> env.suite, group |-> env.group]
          [] ~name /\ Unset(env.tag) /\ ~group /\ suite ->
                [kind |-> "suite", suite |-> env.suite]
          [] OTHER -> [kind |-> "all"]

(* The POT_DISCOVER branch: every filter that is set must hold.            *)
Listed(suites, groups, env, t) ==
    /\ Unset(env.tag)   \/ CaseMatchesTag(suites, groups, t, env.tag)
    /\ Unset(env.suite) \/ t.suite = env.suite
    /\ Unset(env.group) \/ t.group = env.group

Shown(name) == IF name = Null THEN <<"?">> ELSE name

(* One "list-case:" line as its dot-separated segments, and what splitn(3) *)
(* makes of it.                                                            *)
ListLine(t) == Shown(t.suite) \o Shown(t.group) \o Shown(t.name)

(* Mistake: the line is split at every dot.                                *)
ParseLine_AllDots(line) ==
    [suite |-> <<line[1]>>, group |-> <<line[2]>>, name |-> <<line[3]>>]

ParseLine(line) ==
    [suite |-> <<line[1]>>, group |-> <<line[2]>>, name |-> SubSeq(line, 3, Len(line))]

(* What the host takes a listed case to be called.                         *)
Read(t) == ParseLine(ListLine(t))

(* discover_cases: what the host believes the test binary contains.        *)
(* The listing's order (sort_cases, see PotRunner) and the cut of a line   *)
(* at 256 bytes are left out: no property depends on them.                 *)
Discover(suites, groups, env, tests) ==
    LET listed == SelectSeq(tests, LAMBDA t : Listed(suites, groups, env, t))
    IN  [k \in DOMAIN listed |-> Read(listed[k])]

(* Whether the child spawned for a discovered case runs t: run_isolated    *)
(* names the case in POT_SUITE, POT_GROUP and POT_CASE.                    *)
ChildSelects(suites, groups, case, t) ==
    Selects(suites, groups,
            RunFromEnv([suite |-> case.suite, group |-> case.group,
                        case |-> case.name, tag |-> Null]), t)

ChildRuns(suites, groups, case, tests) ==
    SelectSeq(tests, LAMBDA t : ChildSelects(suites, groups, case, t))

=============================================================================
